--------------------------- MODULE LifecycleMutex ---------------------------
(***************************************************************************)
(* What the host lifecycle lock promises to the operations that use it,    *)
(* without saying how: at most one attempt holds the host at any time, an  *)
(* attempt is turned away only while another one holds it, nobody waits,   *)
(* and an attempt that dies gives the host back.                           *)
(***************************************************************************)
CONSTANTS Attempt,   \* invocations of host_lifecycle_lock
          None       \* no attempt

VARIABLES holder,    \* the attempt that may mutate the host, or None
          phase      \* how far each attempt is

vars == <<holder, phase>>

Phases == {"trying", "holding", "refused", "over"}

Init == /\ holder = None
        /\ phase = [a \in Attempt |-> "trying"]

\* The lock is free: the attempt gets it at once.
Grant(a) == /\ phase[a] = "trying" /\ holder = None
            /\ holder' = a
            /\ phase' = [phase EXCEPT ![a] = "holding"]

\* The lock is not free: the attempt is turned away, it does not queue.
Refuse(a) == /\ phase[a] = "trying" /\ holder # None
             /\ phase' = [phase EXCEPT ![a] = "refused"]
             /\ UNCHANGED holder

\* The holder is finished, has failed, or has died.
GiveBack(a) == /\ phase[a] = "holding" /\ holder = a
               /\ holder' = None
               /\ phase' = [phase EXCEPT ![a] = "over"]

\* An attempt that holds nothing dies.
Vanish(a) == /\ phase[a] \in {"trying", "refused"}
             /\ phase' = [phase EXCEPT ![a] = "over"]
             /\ UNCHANGED holder

Next == \E a \in Attempt : Grant(a) \/ Refuse(a) \/ GiveBack(a) \/ Vanish(a)

Spec == Init /\ [][Next]_vars
=============================================================================
