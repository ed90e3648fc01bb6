---------------------------- MODULE InstancePool ----------------------------
(***************************************************************************)
(* What the instance pool of a worker promises, without threads, ports or *)
(* containers.  Per model and mode there is a queue of instance names in   *)
(* serving order.  A name goes from free to loading (its load has claimed *)
(* it), from loading to the back of a queue or back to free, and from a   *)
(* queue back to free.  Dispatch moves the front of a queue to its back.   *)
(* A name is in at most one place at a time.                                *)
(***************************************************************************)
LOCAL INSTANCE Sequences
LOCAL INSTANCE SequencesExt

CONSTANTS
    Names,     \* instance names
    Models,    \* model variants
    ModelOf    \* ModelOf[n]: the variant instance name n serves

VARIABLES
    pool,      \* pool[o][m]: the queue of mode o (TRUE = online) of variant m
    loading    \* names some load has claimed and not yet queued or given up

vars == <<pool, loading>>

Queued(n) == \E o \in BOOLEAN, m \in Models : Contains(pool[o][m], n)

Init ==
    /\ pool = [o \in BOOLEAN |-> [m \in Models |-> <<>>]]
    /\ loading = {}

(* A load claims a free name. *)
Claim(n) ==
    /\ n \notin loading
    /\ ~Queued(n)
    /\ loading' = loading \cup {n}
    /\ UNCHANGED pool

(* A load gives its name up. *)
GiveUp(n) ==
    /\ n \in loading
    /\ loading' = loading \ {n}
    /\ UNCHANGED pool

(* A load that succeeded puts its name at the back of a queue. *)
Publish(n, o) ==
    /\ n \in loading
    /\ loading' = loading \ {n}
    /\ pool' = [pool EXCEPT ![o][ModelOf[n]] = Append(@, n)]

(* An unload takes a queued name out, wherever it sits. *)
Withdraw(n, o) ==
    /\ Contains(pool[o][ModelOf[n]], n)
    /\ pool' = [pool EXCEPT ![o][ModelOf[n]] = RemoveFirst(@, n)]
    /\ UNCHANGED loading

(* Dispatch serves the front of a queue and moves it to the back. *)
Rotate(o, m) ==
    /\ pool[o][m] # <<>>
    /\ pool' = [pool EXCEPT ![o][m] = Append(Tail(@), Head(@))]
    /\ UNCHANGED loading

Next ==
    \/ \E n \in Names : Claim(n) \/ GiveUp(n)
    \/ \E n \in Names, o \in BOOLEAN : Publish(n, o) \/ Withdraw(n, o)
    \/ \E o \in BOOLEAN, m \in Models : Rotate(o, m)

Spec == Init /\ [][Next]_vars

====
