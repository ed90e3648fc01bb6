---------------------------- MODULE ModelManager ----------------------------
(***************************************************************************)
(* The CPU instance pool of the worker: namespace CpuModelManager of       *)
(* src/src/worker/common_model_util.cc.  Worker threads call LoadModel,    *)
(* UnloadModel, QueryModelOnline and QueryModelOffline concurrently.  Every block the code    *)
(* runs under updatemutex is one action; every step outside the lock      *)
(* (docker commands, metadata-store calls, unlocked reads of the pools)    *)
(* is an action of its own, so other threads interleave between them.     *)
(*                                                                         *)
(* Data is abstracted: instance and model names are model values, docker  *)
(* containers are a partial function from container name to the port it   *)
(* listens on, the metadata store keeps the set of running models and the  *)
(* set of models whose load/unload flag is set.  Request payloads, wire    *)
(* formats and timings are left out: no property is about them.            *)
(***************************************************************************)
EXTENDS Integers, Sequences, SequencesExt, FiniteSets, TLC

CONSTANTS
    Threads,      \* worker threads calling into CpuModelManager
    Models,       \* model variants; QueryModelOnline loads each under its own name
    Replicas,     \* instance names a caller of LoadModel may supply besides those
    ModelOf,      \* ModelOf[n]: the variant served by instance name n
    Staged,       \* variants whose directory local_model_dir/<m>/ exists
    FirstCpuPort, \* first_cpu_port
    MaxCalls,     \* bound: number of entry-point calls callers make in a behaviour
    MaxTry,       \* maxtry of the wait-for-load loops (60 in the code)
    EnvOps,       \* entry points callers use: subset of {"load", "unload", "query", "offline"}
    UnloadNames,  \* container names a caller may pass to UnloadModel
    MetadataOk,   \* outcomes of remove_running_model: {TRUE} or {TRUE, FALSE}
    NoName,       \* the empty container name ""
    Submitters,   \* submitters of offline jobs
    InputParents  \* <<m, s>> whose local_input_dir/<m>_<s> exists beforehand

Names == Models \cup Replicas

ASSUME /\ ModelOf \in [Names -> Models]
       /\ \A m \in Models : ModelOf[m] = m
       /\ Staged \subseteq Models
       /\ MaxTry \in Nat \ {0}
       /\ EnvOps \subseteq {"load", "unload", "query", "offline"}
       /\ UnloadNames \subseteq Names \cup {NoName}
       /\ NoName \notin Names
       /\ InputParents \subseteq Models \X Submitters

\* The scratch directories of offline job <<m, s>>: local_output_dir/<m>_<s>
\* ("out"), local_input_dir/<m>_<s> ("parent") and its leaf "infer" ("in").
Dirs == {"out", "parent", "in"} \X Models \X Submitters

VARIABLES
    modeltonames, \* modeltonames[TRUE] = modeltonamesonline, [FALSE] = modeltonamesoffline
    nametoport,   \* partial function instance name -> port
    usedports,    \* set of ports in use
    running,      \* metadata store: models running on this worker
    loadunload,   \* metadata store: models whose load/unload flag is set
    containers,   \* docker: container name -> port it publishes
    pc,           \* pc[t]: the step thread t executes next
    ctx,          \* ctx[t]: arguments and locals of the call thread t is in
    calls,        \* number of entry-point calls made so far (bounded by MaxCalls)
    dirs          \* the scratch directories that exist on the worker's disk

vars == <<modeltonames, nametoport, usedports, running, loadunload,
          containers, pc, ctx, calls, dirs>>

LowPort == FirstCpuPort - MaxCalls
Ports == LowPort..FirstCpuPort

PCs == {"idle", "ld_reserve", "ld_launch", "ld_publish",
        "ul_remove", "ul_check", "ul_rmrunning", "ul_stop", "ul_unset",
        "qo_check", "qo_pick", "qo_port",
        "qf_mkout", "qf_mkin", "qf_check", "qf_pick", "qf_port",
        "qf_rmout", "qf_rmin", "qf_rmdirout", "qf_rmdirparent", "ub_front"}

\* A call's arguments and locals: model, instance name, foronline, who
\* gets the result of LoadModel or UnloadModel ("env": the entry point
\* returns it), the reserved port, the instance picked, numtry, submitter.
Ctx == [m : Models, name : Names \cup {NoName}, online : BOOLEAN,
        caller : {"env", "online", "offline"}, port : Ports \cup {0},
        inst : Names \cup {NoName}, tries : 0..MaxTry, sub : Submitters]

NoCtx == [m |-> CHOOSE m \in Models : TRUE, name |-> NoName, online |-> TRUE,
          caller |-> "env", port |-> 0, inst |-> NoName, tries |-> 0,
          sub |-> CHOOSE s \in Submitters : TRUE]

Erase(f, k) == [x \in DOMAIN f \ {k} |-> f[x]]

-----------------------------------------------------------------------------
(* The global maps of CpuModelManager start empty; so does docker and the  *)
(* metadata store's view of this worker.  Of the scratch directories, only *)
(* input parents someone made beforehand exist: the code never makes them. *)
Init ==
    /\ modeltonames = [o \in BOOLEAN |-> [m \in Models |-> <<>>]]
    /\ nametoport = <<>>
    /\ usedports = {}
    /\ running = {}
    /\ loadunload = {}
    /\ containers = <<>>
    /\ pc = [t \in Threads |-> "idle"]
    /\ ctx = [t \in Threads |-> NoCtx]
    /\ calls = 0
    /\ dirs = {<<"parent", k[1], k[2]>> : k \in InputParents}

(* Mutant: the next port one above the largest, as the "last port + 1"    *)
(* comment of the code reads.                                              *)
NextPortAbove == IF usedports = {} THEN FirstCpuPort ELSE Max(usedports) + 1

(* usedports is a std::set ordered by std::greater, so begin() is the      *)
(* LARGEST port in use, and the next port is one below it.                 *)
NextPort == IF usedports = {} THEN FirstCpuPort ELSE Max(usedports) - 1

Goto(t, l) == pc' = [pc EXCEPT ![t] = l]

(* The entry point returns to its caller; the thread's locals are gone.    *)
Finish(t) == Goto(t, "idle") /\ ctx' = [ctx EXCEPT ![t] = NoCtx]

\* Where a wait loop goes to pick an instance, and where it polls again.
PickPc(c) == IF c.caller = "online" THEN "qo_pick" ELSE "qf_pick"
CheckPc(c) == IF c.caller = "online" THEN "qo_check" ELSE "qf_check"

(* Mutant: the wait loops forget numtry++ after a "being loaded" answer.  *)
ReturnNoCount(t, r) ==
    LET c == ctx[t] IN
    IF c.caller = "env" \/ r = -1 THEN Finish(t)
    ELSE IF r = 0 THEN Goto(t, PickPc(c)) /\ UNCHANGED ctx
    ELSE Goto(t, CheckPc(c)) /\ UNCHANGED ctx

(* A LoadModel call returns r to its caller.  Both wait loops break out on *)
(* 0, fail on -1, and on 1 sleep, count the try and loop while numtry <    *)
(* maxtry.  After the loop QueryModelOnline times out; QueryModelOffline   *)
(* has no such check and goes on to pick an instance.                      *)
Return(t, r) ==
    LET c == ctx[t] IN
    IF c.caller = "env" \/ r = -1 THEN Finish(t)
    ELSE IF r = 0 THEN Goto(t, PickPc(c)) /\ UNCHANGED ctx
    ELSE IF c.tries + 1 < MaxTry
         THEN /\ ctx' = [ctx EXCEPT ![t].tries = @ + 1]
              /\ Goto(t, CheckPc(c))
    ELSE IF c.caller = "offline"
         THEN /\ ctx' = [ctx EXCEPT ![t].tries = @ + 1]
              /\ Goto(t, "qf_pick")
    ELSE Finish(t)

(* The unwind of a failed launch: under the lock, erase the instance's     *)
(* port entry and its port.                                                *)
Unreserve(n) ==
    IF n \in DOMAIN nametoport
    THEN /\ nametoport' = Erase(nametoport, n)
         /\ usedports' = usedports \ {nametoport[n]}
    ELSE UNCHANGED <<nametoport, usedports>>

-----------------------------------------------------------------------------
(* Mutant: the reservation without the nametoport.find dedup check.       *)
LoadReserveNoDedup(t) ==
    /\ pc[t] = "ld_reserve"
    /\ usedports' = usedports \cup {NextPort}
    /\ nametoport' = (ctx[t].name :> NextPort) @@ nametoport
    /\ ctx' = [ctx EXCEPT ![t].port = NextPort]
    /\ Goto(t, "ld_launch")
    /\ UNCHANGED <<modeltonames, running, loadunload, containers>>

(* LoadModel, first critical section: a name that already has a port is   *)
(* being loaded by someone else (return 1); otherwise reserve a port.      *)
LoadReserve(t) ==
    LET n == ctx[t].name IN
    /\ pc[t] = "ld_reserve"
    /\ \/ /\ n \in DOMAIN nametoport
          /\ Return(t, 1)
          /\ UNCHANGED <<nametoport, usedports>>
       \/ /\ n \notin DOMAIN nametoport
          /\ usedports' = usedports \cup {NextPort}
          /\ nametoport' = (n :> NextPort) @@ nametoport
          /\ ctx' = [ctx EXCEPT ![t].port = NextPort]
          /\ Goto(t, "ld_launch")
    /\ UNCHANGED <<modeltonames, running, loadunload, containers>>

(* LoadModel outside the lock: stage the files, run the container, check  *)
(* it with docker ps.  An absent model directory takes the download path,  *)
(* whose list_s3_path stub lists no keys: return -1 WITHOUT releasing the  *)
(* reservation (as does std::stoi throwing on a missing imgdim: the thread *)
(* leaves LoadModel holding it).  system() returning -1 (or an unsupported framework)       *)
(* unwinds.  docker run fails when the container name or the port is       *)
(* taken, but only -1 is checked, and docker ps finds any container of     *)
(* that name, so a leftover container counts as started.  The readiness    *)
(* waits are stubs that return true.                                       *)
LoadLaunch(t) ==
    LET c == ctx[t]
        fresh == c.name \notin DOMAIN containers /\ c.port \notin Range(containers)
    IN
    /\ pc[t] = "ld_launch"
    /\ \/ /\ c.m \notin Staged
          /\ Return(t, -1)
          /\ UNCHANGED <<nametoport, usedports, containers>>
       \/ /\ c.m \in Staged
          /\ \E cmdfailed \in BOOLEAN :
               IF ~cmdfailed /\ (fresh \/ c.name \in DOMAIN containers)
               THEN /\ containers' = IF fresh THEN (c.name :> c.port) @@ containers
                                     ELSE containers
                    /\ Goto(t, "ld_publish")
                    /\ UNCHANGED <<nametoport, usedports, ctx>>
               ELSE /\ Unreserve(c.name)
                    /\ Return(t, -1)
                    /\ UNCHANGED containers
    /\ UNCHANGED <<modeltonames, running, loadunload>>

(* Mutant: push_front instead of push_back of the new instance.           *)
LoadPublishFront(t) ==
    LET c == ctx[t] IN
    /\ pc[t] = "ld_publish"
    /\ running' = IF modeltonames[c.online][c.m] = <<>> /\ c.online
                  THEN running \cup {c.m} ELSE running
    /\ modeltonames' = [modeltonames EXCEPT ![c.online][c.m] = <<c.name>> \o @]
    /\ Return(t, 0)
    /\ UNCHANGED <<nametoport, usedports, loadunload, containers>>

(* LoadModel, last critical section: the first online instance of a model *)
(* makes it running in the metadata store; then the name is queued.        *)
LoadPublish(t) ==
    LET c == ctx[t] IN
    /\ pc[t] = "ld_publish"
    /\ running' = IF modeltonames[c.online][c.m] = <<>> /\ c.online
                  THEN running \cup {c.m} ELSE running
    /\ modeltonames' = [modeltonames EXCEPT ![c.online][c.m] = Append(@, c.name)]
    /\ Return(t, 0)
    /\ UNCHANGED <<nametoport, usedports, loadunload, containers>>

-----------------------------------------------------------------------------
(* namesqueue.erase(std::find(...)).  When the name is not queued, find    *)
(* returns end() and erase(end()) is undefined; libstdc++'s deque erase    *)
(* then moves nothing and pops the back element.                           *)
DequeErase(q, n) == IF Contains(q, n) THEN RemoveFirst(q, n) ELSE Front(q)

(* UnloadModel, critical section: pick the named instance, or the back of *)
(* the queue, and drop it from the queue and from the port table.          *)
UnloadRemove(t) ==
    LET c == ctx[t]
        q == modeltonames[c.online][c.m]
        n == IF c.name = NoName THEN Last(q) ELSE c.name
    IN
    /\ pc[t] = "ul_remove"
    /\ \/ /\ q = <<>>
          /\ Return(t, 0)
          /\ UNCHANGED <<modeltonames, nametoport, usedports>>
       \/ /\ q # <<>>
          /\ n \notin DOMAIN nametoport
          /\ Return(t, IF Contains(q, n) THEN -1 ELSE 0)
          /\ UNCHANGED <<modeltonames, nametoport, usedports>>
       \/ /\ q # <<>>
          /\ n \in DOMAIN nametoport
          /\ modeltonames' = [modeltonames EXCEPT ![c.online][c.m] = DequeErase(q, n)]
          /\ nametoport' = Erase(nametoport, n)
          /\ usedports' = usedports \ {nametoport[n]}
          /\ ctx' = [ctx EXCEPT ![t].inst = n]
          /\ Goto(t, "ul_check")
    /\ UNCHANGED <<running, loadunload, containers>>

(* UnloadModel after the lock: an online unload first asks the metadata    *)
(* store whether the model runs (if not: return -1, container left up);    *)
(* then, reading the queue without the lock, the last online instance      *)
(* sets the load/unload flag before the running record is removed.         *)
UnloadCheck(t) ==
    LET c == ctx[t] IN
    /\ pc[t] = "ul_check"
    /\ \/ /\ ~c.online
          /\ Goto(t, "ul_stop")
          /\ UNCHANGED <<loadunload, ctx>>
       \/ /\ c.online
          /\ c.m \notin running
          /\ Return(t, -1)
          /\ UNCHANGED loadunload
       \/ /\ c.online
          /\ c.m \in running
          /\ modeltonames[TRUE][c.m] # <<>>
          /\ Goto(t, "ul_stop")
          /\ UNCHANGED <<loadunload, ctx>>
       \/ /\ c.online
          /\ c.m \in running
          /\ modeltonames[TRUE][c.m] = <<>>
          /\ loadunload' = loadunload \cup {c.m}
          /\ Goto(t, "ul_rmrunning")
          /\ UNCHANGED ctx
    /\ UNCHANGED <<modeltonames, nametoport, usedports, running, containers>>

(* remove_running_model; on failure UnloadModel returns -1 with the flag   *)
(* still set and the container still running.                              *)
UnloadRemoveRunning(t) ==
    /\ pc[t] = "ul_rmrunning"
    /\ \E ok \in MetadataOk :
         \/ /\ ok
            /\ running' = running \ {ctx[t].m}
            /\ Goto(t, "ul_stop")
            /\ UNCHANGED ctx
         \/ /\ ~ok
            /\ Return(t, -1)
            /\ UNCHANGED running
    /\ UNCHANGED <<modeltonames, nametoport, usedports, loadunload, containers>>

(* docker stop: its output names the container only if it was running.     *)
UnloadStop(t) ==
    LET n == ctx[t].inst IN
    /\ pc[t] = "ul_stop"
    /\ \/ /\ n \in DOMAIN containers
          /\ containers' = Erase(containers, n)
          /\ Goto(t, "ul_unset")
          /\ UNCHANGED ctx
       \/ /\ n \notin DOMAIN containers
          /\ Return(t, -1)
          /\ UNCHANGED containers
    /\ UNCHANGED <<modeltonames, nametoport, usedports, running, loadunload>>

(* unset_model_load_unload for online unloads; setAvgBatch(m, 0) writes an *)
(* autoscaler counter nothing here reads.                                  *)
UnloadUnset(t) ==
    /\ pc[t] = "ul_unset"
    /\ loadunload' = IF ctx[t].online THEN loadunload \ {ctx[t].m} ELSE loadunload
    /\ Return(t, 0)
    /\ UNCHANGED <<modeltonames, nametoport, usedports, running, containers>>

-----------------------------------------------------------------------------
(* QueryModelOnline wait loop: an online instance exists (read without the *)
(* lock), or call LoadModel(m, containername = m, foronline).              *)
QueryCheck(t) ==
    LET m == ctx[t].m IN
    /\ pc[t] = "qo_check"
    /\ \/ /\ modeltonames[TRUE][m] # <<>>
          /\ Goto(t, "qo_pick")
          /\ UNCHANGED ctx
       \/ /\ modeltonames[TRUE][m] = <<>>
          /\ ctx' = [ctx EXCEPT ![t].name = m, ![t].online = TRUE, ![t].caller = "online"]
          /\ Goto(t, "ld_reserve")
    /\ UNCHANGED <<modeltonames, nametoport, usedports, running, loadunload, containers>>

(* Mutant: push_back of the front without the pop_front.                  *)
RoundRobinNoPop(t, o, next) ==
    LET q == modeltonames[o][ctx[t].m] IN
    \/ /\ q # <<>>
       /\ modeltonames' = [modeltonames EXCEPT ![o][ctx[t].m] = Append(q, Head(q))]
       /\ ctx' = [ctx EXCEPT ![t].inst = Head(q)]
       /\ Goto(t, next)
    \/ /\ q = <<>>
       /\ Goto(t, "ub_front")
       /\ UNCHANGED <<modeltonames, ctx>>

(* Round robin under the lock: take the front, push it to the back.  front *)
(* and pop_front of an empty deque are undefined: the thread goes to       *)
(* "ub_front" and is not followed further.                                 *)
RoundRobin(t, o, next) ==
    LET q == modeltonames[o][ctx[t].m] IN
    \/ /\ q # <<>>
       /\ modeltonames' = [modeltonames EXCEPT ![o][ctx[t].m] = Append(Tail(q), Head(q))]
       /\ ctx' = [ctx EXCEPT ![t].inst = Head(q)]
       /\ Goto(t, next)
    \/ /\ q = <<>>
       /\ Goto(t, "ub_front")
       /\ UNCHANGED <<modeltonames, ctx>>

QueryPick(t) ==
    /\ pc[t] = "qo_pick"
    /\ RoundRobin(t, TRUE, "qo_port")
    /\ UNCHANGED <<nametoport, usedports, running, loadunload, containers>>

(* int portnum = nametoport[instancename], outside the lock: operator[]    *)
(* inserts port 0 for a name unloaded since the pick.                      *)
LookupPort(n) ==
    nametoport' = IF n \in DOMAIN nametoport THEN nametoport ELSE (n :> 0) @@ nametoport

(* The rest of QueryModelOnline sends the request to that port; the reply  *)
(* changes no state of the manager.                                        *)
QueryPort(t) ==
    /\ pc[t] = "qo_port"
    /\ LookupPort(ctx[t].inst)
    /\ Finish(t)
    /\ UNCHANGED <<modeltonames, usedports, running, loadunload, containers>>

-----------------------------------------------------------------------------
(* QueryModelOffline.  Its instance is loaded under the container name     *)
(* modelname, the same name QueryModelOnline uses; its scratch directories *)
(* are named after modelname_submitter.                                    *)
Scratch(kind, t) == <<kind, ctx[t].m, ctx[t].sub>>

(* Offline steps that touch neither the pools nor docker. *)
Disk == <<modeltonames, nametoport, usedports, running, loadunload, containers>>

(* createdir(localoutput): mkdir fails when the directory exists.         *)
OfflineMkOut(t) ==
    /\ pc[t] = "qf_mkout"
    /\ \/ /\ Scratch("out", t) \in dirs
          /\ Finish(t)
          /\ UNCHANGED dirs
       \/ /\ Scratch("out", t) \notin dirs
          /\ dirs' = dirs \cup {Scratch("out", t)}
          /\ Goto(t, "qf_mkin")
          /\ UNCHANGED ctx
    /\ UNCHANGED Disk

(* createdir(localinput), a non-recursive mkdir of local_input_dir/<inst>/ *)
(* infer: it fails unless the parent exists and the leaf does not; the    *)
(* output directory made just before is left behind.                      *)
OfflineMkIn(t) ==
    /\ pc[t] = "qf_mkin"
    /\ \/ /\ Scratch("parent", t) \in dirs
          /\ Scratch("in", t) \notin dirs
          /\ dirs' = dirs \cup {Scratch("in", t)}
          /\ Goto(t, "qf_check")
          /\ UNCHANGED ctx
       \/ /\ Scratch("parent", t) \notin dirs \/ Scratch("in", t) \in dirs
          /\ Finish(t)
          /\ UNCHANGED dirs
    /\ UNCHANGED Disk

(* Wait loop: an offline instance exists (read without the lock), or call *)
(* LoadModel(m, containername = m, offline).                               *)
OfflineCheck(t) ==
    /\ pc[t] = "qf_check"
    /\ Goto(t, IF modeltonames[FALSE][ctx[t].m] # <<>> THEN "qf_pick" ELSE "ld_reserve")
    /\ UNCHANGED <<Disk, ctx, dirs>>

OfflinePick(t) ==
    /\ pc[t] = "qf_pick"
    /\ RoundRobin(t, FALSE, "qf_port")
    /\ UNCHANGED <<nametoport, usedports, running, loadunload, containers, dirs>>

(* The port lookup, then the job: list_s3_path is a stub that lists no     *)
(* inputs, so the batch loop and the load gate never run; listing and      *)
(* uploading the output directory change nothing that is modelled.         *)
OfflinePort(t) ==
    /\ pc[t] = "qf_port"
    /\ LookupPort(ctx[t].inst)
    /\ Goto(t, "qf_rmout")
    /\ UNCHANGED <<modeltonames, usedports, running, loadunload, containers, ctx, dirs>>

(* rm -r localoutput; its errors go to stderr, which exec_cmd drops.      *)
OfflineRmOut(t) ==
    /\ pc[t] = "qf_rmout"
    /\ dirs' = dirs \ {Scratch("out", t)}
    /\ Goto(t, "qf_rmin")
    /\ UNCHANGED <<Disk, ctx>>

(* rm -r localinput.                                                        *)
OfflineRmIn(t) ==
    /\ pc[t] = "qf_rmin"
    /\ dirs' = dirs \ {Scratch("in", t)}
    /\ Goto(t, "qf_rmdirout")
    /\ UNCHANGED <<Disk, ctx>>

(* rmdir(localoutput), of the directory rm -r just removed: it fails and  *)
(* the job returns -1, unless another job of the same name made it again. *)
OfflineRmdirOut(t) ==
    /\ pc[t] = "qf_rmdirout"
    /\ \/ /\ Scratch("out", t) \in dirs
          /\ dirs' = dirs \ {Scratch("out", t)}
          /\ Goto(t, "qf_rmdirparent")
          /\ UNCHANGED ctx
       \/ /\ Scratch("out", t) \notin dirs
          /\ Finish(t)
          /\ UNCHANGED dirs
    /\ UNCHANGED Disk

(* rmdir(local_input_dir/<inst>) fails unless it exists and is empty; on   *)
(* success UnloadModel(modelname, containername = modelname, offline), and *)
(* its result is the job's result.                                          *)
OfflineRmdirParent(t) ==
    /\ pc[t] = "qf_rmdirparent"
    /\ \/ /\ Scratch("parent", t) \in dirs
          /\ Scratch("in", t) \notin dirs
          /\ dirs' = dirs \ {Scratch("parent", t)}
          /\ ctx' = [ctx EXCEPT ![t].name = ctx[t].m, ![t].online = FALSE,
                                ![t].caller = "env"]
          /\ Goto(t, "ul_remove")
       \/ /\ Scratch("parent", t) \notin dirs \/ Scratch("in", t) \in dirs
          /\ Finish(t)
          /\ UNCHANGED dirs
    /\ UNCHANGED Disk

-----------------------------------------------------------------------------
(* Callers: an idle thread enters one of the entry points.                 *)
StartLoad(t) ==
    /\ pc[t] = "idle" /\ "load" \in EnvOps /\ calls < MaxCalls
    /\ calls' = calls + 1
    /\ \E n \in Names, o \in BOOLEAN :
         ctx' = [ctx EXCEPT ![t] = [NoCtx EXCEPT !.m = ModelOf[n], !.name = n, !.online = o]]
    /\ Goto(t, "ld_reserve")
    /\ UNCHANGED <<modeltonames, nametoport, usedports, running, loadunload, containers>>

StartUnload(t) ==
    /\ pc[t] = "idle" /\ "unload" \in EnvOps /\ calls < MaxCalls
    /\ calls' = calls + 1
    /\ \E m \in Models, n \in UnloadNames, o \in BOOLEAN :
         /\ n # NoName => ModelOf[n] = m
         /\ ctx' = [ctx EXCEPT ![t] = [NoCtx EXCEPT !.m = m, !.name = n, !.online = o]]
    /\ Goto(t, "ul_remove")
    /\ UNCHANGED <<modeltonames, nametoport, usedports, running, loadunload, containers>>

StartQuery(t) ==
    /\ pc[t] = "idle" /\ "query" \in EnvOps /\ calls < MaxCalls
    /\ calls' = calls + 1
    /\ \E m \in Models : ctx' = [ctx EXCEPT ![t] = [NoCtx EXCEPT !.m = m]]
    /\ Goto(t, "qo_check")
    /\ UNCHANGED <<modeltonames, nametoport, usedports, running, loadunload, containers>>

StartOffline(t) ==
    /\ pc[t] = "idle" /\ "offline" \in EnvOps /\ calls < MaxCalls
    /\ calls' = calls + 1
    /\ \E m \in Models, s \in Submitters :
         ctx' = [ctx EXCEPT ![t] = [NoCtx EXCEPT !.m = m, !.name = m, !.online = FALSE,
                                                 !.caller = "offline", !.sub = s]]
    /\ Goto(t, "qf_mkout")
    /\ UNCHANGED Disk

(* Once MaxCalls calls were made and every thread has returned, callers   *)
(* stop and the worker sits idle; so it does once every thread is lost in  *)
(* undefined behaviour.                                                    *)
Quiesced ==
    /\ \A t \in Threads : pc[t] \in {"idle", "ub_front"}
    /\ calls = MaxCalls \/ \A t \in Threads : pc[t] = "ub_front"
    /\ UNCHANGED vars

(* The steps of a call in progress. *)
InCall(t) ==
    \/ LoadReserve(t) \/ LoadLaunch(t) \/ LoadPublish(t)
    \/ UnloadRemove(t) \/ UnloadCheck(t) \/ UnloadRemoveRunning(t)
    \/ UnloadStop(t) \/ UnloadUnset(t)
    \/ QueryCheck(t) \/ QueryPick(t) \/ QueryPort(t)

(* The steps of QueryModelOffline of its own. *)
OfflineCall(t) ==
    \/ OfflineMkOut(t) \/ OfflineMkIn(t) \/ OfflineCheck(t) \/ OfflinePick(t)
    \/ OfflinePort(t) \/ OfflineRmOut(t) \/ OfflineRmIn(t)
    \/ OfflineRmdirOut(t) \/ OfflineRmdirParent(t)

Step(t) ==
    \/ (StartLoad(t) \/ StartUnload(t) \/ StartQuery(t)) /\ UNCHANGED dirs
    \/ StartOffline(t) /\ UNCHANGED dirs
    \/ InCall(t) /\ UNCHANGED <<calls, dirs>>
    \/ OfflineCall(t) /\ UNCHANGED calls

Next == (\E t \in Threads : Step(t)) \/ Quiesced

(* Threads are OS threads: each one that can take a step eventually does.  *)
Spec == Init /\ [][Next]_vars /\ \A t \in Threads : WF_vars(Step(t))

-----------------------------------------------------------------------------
TypeOK ==
    /\ modeltonames \in [BOOLEAN -> [Models -> Seq(Names)]]
    /\ DOMAIN nametoport \subseteq Names
    /\ \A n \in DOMAIN nametoport : nametoport[n] \in Ports \cup {0}
    /\ usedports \subseteq Ports
    /\ running \subseteq Models
    /\ loadunload \subseteq Models
    /\ DOMAIN containers \subseteq Names
    /\ \A n \in DOMAIN containers : containers[n] \in Ports
    /\ pc \in [Threads -> PCs]
    /\ ctx \in [Threads -> Ctx]
    /\ calls \in 0..MaxCalls
    /\ dirs \subseteq Dirs

-----------------------------------------------------------------------------
(* Helpers for the properties. *)
Queued(n) == \E o \in BOOLEAN, m \in Models : Contains(modeltonames[o][m], n)
Launching(t) == pc[t] \in {"ld_launch", "ld_publish"}
Slots(n) == MapThenSumSet(LAMBDA om : Cardinality({i \in DOMAIN modeltonames[om[1]][om[2]] :
                                          modeltonames[om[1]][om[2]][i] = n}),
                          BOOLEAN \X Models)
Busy(m) == \E t \in Threads : pc[t] \notin {"idle", "ub_front"} /\ ctx[t].m = m

(* Load deduplication (LoadModel's first critical section): two threads   *)
(* are never both past the reservation of the same instance name, so no    *)
(* name ever has two docker launches in flight.                            *)
NoDuplicateLaunch ==
    \A t1, t2 \in Threads :
        t1 # t2 /\ Launching(t1) /\ Launching(t2) => ctx[t1].name # ctx[t2].name

(* The port table (LoadModel's port choice and every erase): two distinct  *)
(* instance names never hold the same port.                                *)
PortsUnique ==
    \A n1, n2 \in DOMAIN nametoport : n1 # n2 => nametoport[n1] # nametoport[n2]

(* Metadata visibility (LoadModel's first-instance add_running_model and   *)
(* UnloadModel's last-instance remove_running_model): whenever no call on  *)
(* a model is in progress, the store says it runs here exactly when its    *)
(* online queue is non-empty.                                              *)
VisibleIffServing ==
    \A m \in Models :
        ~Busy(m) => (m \in running <=> modeltonames[TRUE][m] # <<>>)

(* The port table against the port set (the erase in UnloadModel and the   *)
(* unwinds use nametoport[n] to pick the port to free): the used ports are *)
(* exactly the ports the table hands out.                                  *)
PortTableConsistent == usedports = Range(nametoport)

(* Queue membership (the "Inconsistency found" branch of UnloadModel):     *)
(* an instance name sits in at most one queue slot, and a queued name has  *)
(* a port entry.                                                           *)
SingleSlot ==
    \A n \in Names :
        /\ Slots(n) <= 1
        /\ Queued(n) => n \in DOMAIN nametoport

(* QueryModelOnline's round robin (front/pop_front under the lock) never   *)
(* runs on an empty online queue.                                          *)
NoEmptyFront == \A t \in Threads : pc[t] # "ub_front"

(* Offline teardown (the UnloadModel at the end of QueryModelOffline):     *)
(* when every thread has returned, no offline instance is left queued.     *)
OfflineUnloaded ==
    (\A t \in Threads : pc[t] \in {"idle", "ub_front"})
        => \A m \in Models : modeltonames[FALSE][m] = <<>>

(* Load deduplication seen from QueryModelOnline: a "being loaded" answer  *)
(* to its LoadModel means the online instance of the model is queued or an *)
(* online load of it is in flight, so waiting for it can succeed.          *)
OnlineWaitJustified ==
    \A t \in Threads :
        LET n == ctx[t].name IN
        pc[t] = "ld_reserve" /\ ctx[t].caller = "online" /\ n \in DOMAIN nametoport
            => \/ Contains(modeltonames[TRUE][ctx[t].m], n)
               \/ \E u \in Threads : Launching(u) /\ ctx[u].name = n /\ ctx[u].online

(* Backends against the pool (LoadModel adopting whatever container docker *)
(* ps finds; UnloadModel releasing the port before docker stop, returning  *)
(* -1 before docker stop when the model no longer runs, and leaving the    *)
(* load/unload flag set when docker stop fails): when every thread has     *)
(* returned, a container runs exactly for each queued instance, on the     *)
(* port the port table gives it, and no load/unload flag is set.           *)
BackendMatchesPool ==
    (\A t \in Threads : pc[t] \in {"idle", "ub_front"})
        => /\ DOMAIN containers = {n \in Names : Queued(n)}
           /\ \A n \in DOMAIN containers :
                 n \in DOMAIN nametoport /\ containers[n] = nametoport[n]
           /\ loadunload = {}

(* The abstract pool: the queues are the pools, and a name is loading when *)
(* it has a port entry but no queue slot.                                  *)
Pool == INSTANCE InstancePool
            WITH pool <- modeltonames,
                 loading <- {n \in DOMAIN nametoport : ~Queued(n)}

(* The pool protocol (LoadModel's reserve/unwind/publish, UnloadModel's    *)
(* deque erase, the round robin): every step of the manager is a step of   *)
(* the abstract pool; a name is claimed only when free, queued only by the *)
(* load that claimed it, removed only from where it sits, and dispatch     *)
(* only rotates a queue.                                                   *)
PoolRefinement == Pool!Spec

(* Termination (the bounded wait loop of QueryModelOnline and the          *)
(* straight-line LoadModel and UnloadModel): every call a thread enters    *)
(* returns, even when another thread holds the reservation for good.       *)
CallsReturn ==
    \A t \in Threads : pc[t] # "idle" ~> pc[t] \in {"idle", "ub_front"}

=============================================================================
