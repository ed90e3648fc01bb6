-------------------------- MODULE GpuModelManager --------------------------
(***************************************************************************)
(* GpuModelManager of the worker (common_model_util_prev01.cc and, when    *)
(* built with ENABLE_TRTIS, common_model_util_trtis.cc).  The manager      *)
(* keeps no state of its own: LoadModel and UnloadModel poll the TRTIS      *)
(* server's status until the model reaches the wanted ready state or the   *)
(* retries run out.  The server loads and unloads model versions by itself *)
(* (it watches its model repository), so it is modelled as an environment  *)
(* whose actions interleave with the callers' polls.                       *)
(***************************************************************************)
EXTENDS Integers, FiniteSets

CONSTANTS
    Callers,      \* threads calling the manager
    GpuModels,    \* model names the server knows
    Versions,     \* version numbers of a model in the repository
    EnableTRTIS,  \* the build: TRUE when compiled with ENABLE_TRTIS
    MaxRetries,   \* max_retries passed to WaitGpuModelState (10 in the code)
    RpcOk,        \* outcomes of a status RPC: {TRUE} or {TRUE, FALSE}
    MaxCalls      \* bound on LoadModel/UnloadModel calls in a behaviour

ASSUME MaxRetries \in Nat \ {0} /\ MaxCalls \in Nat
ASSUME RpcOk \subseteq BOOLEAN /\ RpcOk # {}

(* ModelReadyState of a version; "absent" means no entry in version_status. *)
States == {"absent", "UNAVAILABLE", "LOADING", "READY"}

VARIABLES
    status,   \* status[m][v]: the server's version_status of model m
    pc,       \* pc[c]: "idle" or "poll"
    ctx,      \* ctx[c]: the model, the wanted state and the retry index i
    ret,      \* ret[c]: what the last call of c returned, or "none"
    calls     \* calls made so far

vars == <<status, pc, ctx, ret, calls>>

Init ==
    /\ status = [m \in GpuModels |-> [v \in Versions |-> "absent"]]
    /\ pc = [c \in Callers |-> "idle"]
    /\ ctx = [c \in Callers |-> [m |-> CHOOSE m \in GpuModels : TRUE,
                                 want |-> "READY", i |-> 0]]
    /\ ret = [c \in Callers |-> "none"]
    /\ calls = 0

-----------------------------------------------------------------------------
(* The TRTIS server, in poll mode: it starts loading a version, finishes   *)
(* or fails the load, and unloads a version the repository dropped.        *)
ServerLoad(m, v) ==
    /\ status[m][v] \in {"absent", "UNAVAILABLE"}
    /\ status' = [status EXCEPT ![m][v] = "LOADING"]

ServerLoaded(m, v) ==
    /\ status[m][v] = "LOADING"
    /\ \E s \in {"READY", "UNAVAILABLE"} : status' = [status EXCEPT ![m][v] = s]

ServerUnload(m, v) ==
    /\ status[m][v] = "READY"
    /\ status' = [status EXCEPT ![m][v] = "UNAVAILABLE"]

Server ==
    /\ \E m \in GpuModels, v \in Versions :
         ServerLoad(m, v) \/ ServerLoaded(m, v) \/ ServerUnload(m, v)
    /\ UNCHANGED <<pc, ctx, ret, calls>>

-----------------------------------------------------------------------------
(* LoadModelTRTIS waits for MODEL_READY, UnloadModelTRTIS for             *)
(* MODEL_UNAVAILABLE.                                                      *)
Desired(op) == IF op = "load" THEN "READY" ELSE "UNAVAILABLE"

(* GpuModelState: the states one status poll can report.  A failed        *)
(* context creation or GetServerStatus returns the initial MODEL_UNAVAILABLE; *)
(* so does a model with no version entry.  Otherwise it reports the state  *)
(* of version_map.begin(), and the iteration order of a protobuf Map is    *)
(* unspecified, so any listed version may be the one read.                 *)
GpuModelState(m) ==
    LET listed == {v \in Versions : status[m][v] # "absent"} IN
    (IF FALSE \in RpcOk THEN {"UNAVAILABLE"} ELSE {})
    \cup (IF listed = {} THEN {"UNAVAILABLE"} ELSE {status[m][v] : v \in listed})

(* LoadModel / UnloadModel: without ENABLE_TRTIS they return -1 at once;  *)
(* with it they enter WaitGpuModelState with retry index 0.                *)
Call(c, m, op) ==
    /\ pc[c] = "idle"
    /\ calls < MaxCalls
    /\ calls' = calls + 1
    /\ \/ /\ ~EnableTRTIS
          /\ ret' = [ret EXCEPT ![c] = -1]
          /\ UNCHANGED <<pc, ctx>>
       \/ /\ EnableTRTIS
          /\ ctx' = [ctx EXCEPT ![c] = [m |-> m, want |-> Desired(op), i |-> 0]]
          /\ pc' = [pc EXCEPT ![c] = "poll"]
          /\ UNCHANGED ret
    /\ UNCHANGED status

(* One iteration of WaitGpuModelState: the wanted state returns 0; else   *)
(* sleep and retry, and return -1 after max_retries polls.                 *)
Poll(c) ==
    LET x == ctx[c] IN
    /\ pc[c] = "poll"
    /\ \E s \in GpuModelState(x.m) :
         \/ /\ s = x.want
            /\ ret' = [ret EXCEPT ![c] = 0]
            /\ pc' = [pc EXCEPT ![c] = "idle"]
            /\ UNCHANGED ctx
         \/ /\ s # x.want
            /\ x.i + 1 < MaxRetries
            /\ ctx' = [ctx EXCEPT ![c].i = x.i + 1]
            /\ UNCHANGED <<pc, ret>>
         \/ /\ s # x.want
            /\ x.i + 1 = MaxRetries
            /\ ret' = [ret EXCEPT ![c] = -1]
            /\ pc' = [pc EXCEPT ![c] = "idle"]
            /\ UNCHANGED ctx
    /\ UNCHANGED <<status, calls>>

Next ==
    \/ Server
    \/ \E c \in Callers :
         \/ \E m \in GpuModels, op \in {"load", "unload"} : Call(c, m, op)
         \/ Poll(c)

Spec == Init /\ [][Next]_vars

-----------------------------------------------------------------------------
Serving(m) == \E v \in Versions : status[m][v] = "READY"

(* UnloadModel returns 0 only when the server no longer serves the model: *)
(* a caller that goes on to drop the model from the metadata store must   *)
(* not leave a ready version behind, and a LoadModel returns 0 only when  *)
(* some version is ready.                                                  *)
ReturnConfirmed ==
    [][\A c \in Callers :
         (pc[c] = "poll" /\ pc'[c] = "idle" /\ ret'[c] = 0)
            => (ctx[c].want = "READY") = Serving(ctx[c].m)]_vars

====
