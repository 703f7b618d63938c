------------------------------ MODULE HostLock ------------------------------
(***************************************************************************)
(* system.host_lifecycle_lock, step by step: the lock file is opened in    *)
(* append mode, flock(LOCK_EX | LOCK_NB) is tried once, the winner replaces*)
(* the file's contents by a JSON description of itself, runs its body, and *)
(* empties the file before it unlocks; a loser reads the file to say who   *)
(* is in the way.  The kernel drops the flock of a process that dies, but  *)
(* neither the file's contents nor a host command it had started go away.  *)
(*                                                                         *)
(* The lock file's contents are abstracted to the attempt they describe.   *)
(***************************************************************************)
CONSTANTS Attempt,     \* invocations of host_lifecycle_lock
          None,        \* no attempt; an empty lock file
          MayCrash     \* TRUE: a process may be killed at any point

ASSUME NoneAssumption == None \notin Attempt
ASSUME CrashAssumption == MayCrash \in BOOLEAN

VARIABLES pc,          \* where each attempt is
          flock,       \* the attempt whose open file the kernel has locked
          content,     \* the attempt the lock file describes
          report,      \* the holder each refused attempt was told about
          command      \* attempts with a host command (virsh, qemu-img...) running

vars == <<pc, flock, content, report, command>>

Critical == {"locked", "blank", "held", "clear"}
Ended == {"refused", "done", "failed", "crashed"}
PCs == {"start", "opened", "busy"} \cup Critical \cup Ended

Init == /\ pc = [a \in Attempt |-> "start"]
        /\ flock = None
        /\ content = None
        /\ report = [a \in Attempt |-> None]
        /\ command = {}

Goto(a, l) == pc' = [pc EXCEPT ![a] = l]

\* mkdir of the lock directory and open(lock_path, "a+"): nothing is truncated.
Open(a) == /\ pc[a] = "start"
           /\ Goto(a, "opened")
           /\ UNCHANGED <<flock, content, report, command>>

\* Wrong: LOCK_SH for LOCK_EX.
AcquireShared(a) == /\ pc[a] = "opened"
                    /\ flock' = a
                    /\ Goto(a, "locked")
                    /\ UNCHANGED <<content, report, command>>

\* flock succeeds.
Acquire(a) == /\ pc[a] = "opened" /\ flock = None
              /\ flock' = a
              /\ Goto(a, "locked")
              /\ UNCHANGED <<content, report, command>>

\* flock raises BlockingIOError.
FindBusy(a) == /\ pc[a] = "opened" /\ flock # None
               /\ Goto(a, "busy")
               /\ UNCHANGED <<flock, content, report, command>>

\* Wrong: the reader waits for a description to appear.
ReadHolderPatiently(a) == /\ pc[a] = "busy" /\ content # None
                          /\ report' = [report EXCEPT ![a] = content]
                          /\ Goto(a, "refused")
                          /\ UNCHANGED <<flock, content, command>>

\* Wrong: the raw contents are passed on.
ReadHolderRaw(a) == /\ pc[a] = "busy"
                    /\ report' = [report EXCEPT ![a] = <<content>>]
                    /\ Goto(a, "refused")
                    /\ UNCHANGED <<flock, content, command>>

\* _lock_holder_details, a separate read: the holder may have moved on since.
ReadHolder(a) == /\ pc[a] = "busy"
                 /\ report' = [report EXCEPT ![a] = content]
                 /\ Goto(a, "refused")
                 /\ UNCHANGED <<flock, content, command>>

\* seek(0); truncate()
Blank(a) == /\ pc[a] = "locked"
            /\ content' = None
            /\ Goto(a, "blank")
            /\ UNCHANGED <<flock, report, command>>

\* json.dump reaches the file at flush().
Describe(a) == /\ pc[a] = "blank"
               /\ content' = a
               /\ Goto(a, "held")
               /\ UNCHANGED <<flock, report, command>>

\* The dump or the flush raises: leaving the with block closes the file, which
\* drops the flock.
DescribeFails(a) == /\ pc[a] = "blank"
                    /\ flock' = None
                    /\ Goto(a, "failed")
                    /\ UNCHANGED <<content, report, command>>

\* The body of the with statement runs host commands, one after the other.
StartCommand(a) == /\ pc[a] = "held" /\ a \notin command
                   /\ command' = command \cup {a}
                   /\ UNCHANGED <<pc, flock, content, report>>

\* A command ends; it may have outlived the process that started it.
EndCommand(a) == /\ a \in command
                 /\ command' = command \ {a}
                 /\ UNCHANGED <<pc, flock, content, report>>

\* Wrong: the finally clause only unlocks.
EraseNothing(a) == /\ pc[a] = "held" /\ a \notin command
                   /\ Goto(a, "clear")
                   /\ UNCHANGED <<flock, content, report, command>>

\* finally: seek(0); truncate(); flush() -- whether the body returned or raised.
Erase(a) == /\ pc[a] = "held" /\ a \notin command
            /\ content' = None
            /\ Goto(a, "clear")
            /\ UNCHANGED <<flock, report, command>>

\* Wrong: the unlock is left to the garbage collector.
UnlockNever(a) == /\ pc[a] = "clear"
                  /\ Goto(a, "done")
                  /\ UNCHANGED <<flock, content, report, command>>

\* flock(LOCK_UN)
Unlock(a) == /\ pc[a] = "clear"
             /\ flock' = None
             /\ Goto(a, "done")
             /\ UNCHANGED <<content, report, command>>

\* The process is killed: the kernel closes its files, and no finally runs.
Crash(a) == /\ MayCrash
            /\ pc[a] \notin Ended
            /\ flock' = IF flock = a THEN None ELSE flock
            /\ Goto(a, "crashed")
            /\ UNCHANGED <<content, report, command>>

Step(a) == \/ Open(a)    \/ Acquire(a)    \/ FindBusy(a)      \/ ReadHolder(a)
           \/ Blank(a)   \/ Describe(a)   \/ DescribeFails(a) \/ EndCommand(a)
           \/ Erase(a)   \/ Unlock(a)

Next == \E a \in Attempt : Step(a) \/ StartCommand(a) \/ Crash(a)

Spec == Init /\ [][Next]_vars

(***************************************************************************)
(* A runnable process is eventually scheduled, commands terminate, and a   *)
(* body runs finitely many of them: once it may leave again and again, it  *)
(* does (strong fairness on Erase).                                        *)
(***************************************************************************)
Fairness == \A a \in Attempt : WF_vars(Step(a)) /\ SF_vars(Erase(a))

FairSpec == Spec /\ Fairness
-----------------------------------------------------------------------------
(* Type correctness of the lock's state. *)
TypeOK == /\ pc \in [Attempt -> PCs]
          /\ flock \in Attempt \cup {None}
          /\ content \in Attempt \cup {None}
          /\ report \in [Attempt -> Attempt \cup {None}]
          /\ command \subseteq Attempt

(* An attempt between a successful flock and its unlock excludes all others
   from that region (system.host_lifecycle_lock). *)
MutualExclusion ==
    \A a, b \in Attempt : pc[a] \in Critical /\ pc[b] \in Critical => a = b

(* The lock file never describes an attempt that has ended in an orderly way,
   by returning or by raising: what it names is in its body, or was killed
   there (the truncate in the finally clause precedes the unlock). *)
NoStaleDescription ==
    content # None => pc[content] \in {"held", "crashed"}

(* A refused attempt is told of nobody, or of an attempt that holds the lock at
   that moment, or of one that was killed while it held it. *)
ReportExplained ==
    [][\A a \in Attempt : pc[a] = "busy" /\ pc'[a] = "refused" /\ content # None
          => flock = content \/ pc[content] = "crashed"]_vars

(* Every attempt that starts ends, refused attempts included: the lock never
   makes anybody wait. *)
EveryAttemptEnds == \A a \in Attempt : <>(pc[a] \in Ended)

(* The lock as its callers see it. *)
AbstractPhase(a) == CASE pc[a] \in {"start", "opened"} -> "trying"
                      [] pc[a] \in {"busy", "refused"} -> "refused"
                      [] pc[a] \in Critical -> "holding"
                      [] OTHER -> "over"

Mutex == INSTANCE LifecycleMutex
           WITH holder <- flock, phase <- [a \in Attempt |-> AbstractPhase(a)]

(* The step-by-step lock implements the abstract one: it grants only when free,
   refuses only when held, and a crash or a failed write gives the host back. *)
ImplementsMutex == Mutex!Spec

(* The error of a refused attempt says the lock "is currently held by" the
   attempt the file describes (system.VmLifecycleLockError): that attempt holds
   the lock when the file is read. *)
ReportNamesHolder ==
    [][\A a \in Attempt : pc[a] = "busy" /\ pc'[a] = "refused" /\ content # None
          => content = flock]_vars

(* The lock is held "for VM mutations" (system.host_lifecycle_lock): the host
   commands of two attempts never run at the same time. *)
CommandsExclusive == \A a, b \in command : a = b
=============================================================================
