\* GPU manager built with ENABLE_TRTIS: two callers load and unload one model
\* while the server loads and unloads two versions and status RPCs may fail.
CONSTANTS
    Callers = {c1, c2}
    GpuModels = {g1}
    Versions = {1, 2}
    EnableTRTIS = TRUE
    MaxRetries = 3
    RpcOk = {TRUE, FALSE}
    MaxCalls = 3
SPECIFICATION Spec
PROPERTY ReturnConfirmed
