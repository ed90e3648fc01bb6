\* Offline jobs alone, input parents present: is the offline instance unloaded?
CONSTANTS
    m1 = m1
    m2 = m2
    m3 = m3
    r1 = r1
    NoName = NoName
    Submitters = {s1}
    InputParents <- MCAllParents
    FirstCpuPort = 9001
    ModelOf <- MCModelOf
    Threads = {t1, t2}
    Models = {m1}
    Replicas = {}
    Staged = {m1}
    MaxCalls = 4
    MaxTry = 2
    EnvOps = {"offline"}
    UnloadNames = {NoName}
    MetadataOk = {TRUE}
SPECIFICATION Spec
INVARIANT OfflineUnloaded
SYMMETRY MCSymmetry
