\* Concurrent LoadModel and QueryModelOnline calls of three threads, m2 not staged (its loads leak their reservation), no unloads.
CONSTANTS
    m1 = m1
    m2 = m2
    m3 = m3
    r1 = r1
    NoName = NoName
    Submitters = {s1}
    InputParents = {}
    FirstCpuPort = 9001
    ModelOf <- MCModelOf
    Threads = {t1, t2, t3}
    Models = {m1, m2}
    Replicas = {r1}
    Staged = {m1}
    MaxCalls = 6
    MaxTry = 2
    EnvOps = {"load", "query"}
    UnloadNames = {NoName}
    MetadataOk = {TRUE}
SPECIFICATION Spec
SYMMETRY MCSymmetry
INVARIANT TypeOK
INVARIANT NoDuplicateLaunch
