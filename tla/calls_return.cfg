\* Every entry point, offline jobs, named unloads, an unstaged model and metadata failures: every call returns.
CONSTANTS
    m1 = m1
    m2 = m2
    m3 = m3
    r1 = r1
    NoName = NoName
    Submitters = {s1}
    InputParents <- MCAllParents
    FirstCpuPort = 9001
    ModelOf <- MCModelOf
    Threads = {t1, t2}
    Models = {m1, m2}
    Replicas = {r1}
    Staged = {m1}
    MaxCalls = 4
    MaxTry = 2
    EnvOps = {"load", "unload", "query", "offline"}
    UnloadNames = {NoName, m1, r1}
    MetadataOk = {TRUE, FALSE}
SPECIFICATION Spec
PROPERTY CallsReturn
