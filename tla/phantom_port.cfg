\* QueryModelOnline racing a tail unload: the unlocked nametoport[] lookup inserts port 0.
CONSTANTS
    m1 = m1
    m2 = m2
    m3 = m3
    r1 = r1
    NoName = NoName
    Submitters = {s1}
    InputParents = {}
    FirstCpuPort = 9001
    ModelOf <- MCModelOf
    Threads = {t1, t2}
    Models = {m1}
    Replicas = {}
    Staged = {m1}
    MaxCalls = 5
    MaxTry = 2
    EnvOps = {"query", "unload"}
    UnloadNames = {NoName}
    MetadataOk = {TRUE}
SPECIFICATION Spec
SYMMETRY MCSymmetry
INVARIANT PortTableConsistent
