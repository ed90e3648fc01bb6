\* UnloadModel naming an instance that is still being loaded.
CONSTANTS
    m1 = m1
    m2 = m2
    m3 = m3
    r1 = r1
    NoName = NoName
    Submitters = {s1}
    InputParents = {}
    FirstCpuPort = 9001
    ModelOf <- MCModelOf
    Threads = {t1, t2}
    Models = {m1}
    Replicas = {r1}
    Staged = {m1}
    MaxCalls = 5
    MaxTry = 2
    EnvOps = {"load", "unload"}
    UnloadNames = {NoName, m1, r1}
    MetadataOk = {TRUE}
SPECIFICATION Spec
SYMMETRY MCSymmetry
INVARIANT NoDuplicateLaunch
