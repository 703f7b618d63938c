--------------------------- MODULE HostLock_proofs ---------------------------
(***************************************************************************)
(* Proofs about the host lifecycle lock, for any set of invocations, finite*)
(* or not, with and without crashes.                                       *)
(***************************************************************************)
EXTENDS HostLock, TLAPS

\* The kernel's lock owner is exactly the attempt inside the locked region.
OwnerInside == \A a \in Attempt : pc[a] \in Critical <=> flock = a

IInv == TypeOK /\ OwnerInside /\ NoStaleDescription

LEMMA InitInv == Init => IInv
  BY NoneAssumption
     DEF Init, IInv, TypeOK, OwnerInside, NoStaleDescription, PCs, Critical, Ended

LEMMA StepInv == IInv /\ [Next]_vars => IInv'
<1>. SUFFICES ASSUME IInv, [Next]_vars PROVE IInv'
  OBVIOUS
<1>. USE NoneAssumption
     DEF IInv, TypeOK, OwnerInside, NoStaleDescription, PCs, Critical, Ended, Goto
<1>1. CASE UNCHANGED vars
  BY <1>1 DEF vars
<1>2. ASSUME NEW a \in Attempt, Step(a) \/ StartCommand(a) \/ Crash(a)
      PROVE  IInv'
  <2>1. CASE Open(a)
    BY <2>1 DEF Open
  <2>2. CASE Acquire(a)
    BY <2>2 DEF Acquire
  <2>3. CASE FindBusy(a)
    BY <2>3 DEF FindBusy
  <2>4. CASE ReadHolder(a)
    BY <2>4 DEF ReadHolder
  <2>5. CASE Blank(a)
    BY <2>5 DEF Blank
  <2>6. CASE Describe(a)
    BY <2>6 DEF Describe
  <2>7. CASE DescribeFails(a)
    BY <2>7 DEF DescribeFails
  <2>8. CASE StartCommand(a)
    BY <2>8 DEF StartCommand
  <2>9. CASE EndCommand(a)
    BY <2>9 DEF EndCommand
  <2>10. CASE Erase(a)
    BY <2>10 DEF Erase
  <2>11. CASE Unlock(a)
    BY <2>11 DEF Unlock
  <2>12. CASE Crash(a)
    BY <2>12 DEF Crash
  <2>. QED
    BY <1>2, <2>1, <2>2, <2>3, <2>4, <2>5, <2>6, <2>7, <2>8, <2>9, <2>10,
       <2>11, <2>12 DEF Step
<1>. QED
  BY <1>1, <1>2 DEF Next

(* The invariant the other theorems rest on: the kernel's owner is the attempt
   inside, and the file never describes an attempt that ended in an orderly way. *)
THEOREM Invariance == Spec => []IInv
  BY InitInv, StepInv, PTL DEF Spec

(* The state of host_lifecycle_lock stays well-typed. *)
THEOREM TypeCorrect == Spec => []TypeOK
  BY Invariance, PTL DEF IInv

(* Two invocations of host_lifecycle_lock are never inside at once. *)
THEOREM Exclusion == Spec => []MutualExclusion
<1>1. IInv => MutualExclusion
  BY DEF IInv, OwnerInside, MutualExclusion
<1>. QED
  BY <1>1, Invariance, PTL

(* The lock file never names an invocation that returned or raised. *)
THEOREM FreshDescription == Spec => []NoStaleDescription
  BY Invariance, PTL DEF IInv

(* A refused invocation is told of the holder, or of one killed inside. *)
THEOREM HonestReport == Spec => ReportExplained
<1>1. IInv /\ [Next]_vars =>
        [\A a \in Attempt : pc[a] = "busy" /\ pc'[a] = "refused" /\ content # None
          => flock = content \/ pc[content] = "crashed"]_vars
  BY DEF IInv, TypeOK, OwnerInside, NoStaleDescription, Critical
<1>. QED
  BY <1>1, Invariance, PTL DEF Spec, ReportExplained

\* What the refinement mapping does to the attempt that moved and to the others.
LEMMA PhaseMove ==
  ASSUME NEW a \in Attempt, NEW l \in PCs, TypeOK, Goto(a, l)
  PROVE  /\ [b \in Attempt |-> AbstractPhase(b)]'
              = [[b \in Attempt |-> AbstractPhase(b)] EXCEPT ![a] =
                   CASE l \in {"start", "opened"} -> "trying"
                     [] l \in {"busy", "refused"} -> "refused"
                     [] l \in Critical -> "holding"
                     [] OTHER -> "over"]
         /\ pc'[a] = l
  BY DEF Goto, TypeOK, AbstractPhase, PCs, Critical, Ended

LEMMA StepRefines == IInv /\ [Next]_vars => [Mutex!Next]_(Mutex!vars)
<1>. SUFFICES ASSUME IInv, [Next]_vars PROVE [Mutex!Next]_(Mutex!vars)
  OBVIOUS
<1>. DEFINE ph == [b \in Attempt |-> AbstractPhase(b)]
<1>0. TypeOK /\ OwnerInside
  BY DEF IInv
<1>1. CASE UNCHANGED vars
  BY <1>1 DEF vars, Mutex!vars, AbstractPhase
<1>2. ASSUME NEW a \in Attempt, Step(a) \/ StartCommand(a) \/ Crash(a)
      PROVE  [Mutex!Next]_(Mutex!vars)
  <2>0. SUFFICES \/ UNCHANGED <<flock, ph>>
                 \/ Mutex!Grant(a) \/ Mutex!Refuse(a)
                 \/ Mutex!GiveBack(a) \/ Mutex!Vanish(a)
    BY DEF Mutex!vars, Mutex!Next
  <2>. USE DEF PCs, Critical, Ended
  <2>1. CASE Open(a)
    BY <1>0, <2>1 DEF Open, AbstractPhase, Goto, TypeOK
  <2>2. CASE Acquire(a)
    <3>0. Goto(a, "locked") /\ "locked" \in PCs
      BY <2>2 DEF Acquire
    <3>1. ph' = [ph EXCEPT ![a] = "holding"]
      BY <1>0, <3>0, PhaseMove
    <3>2. ph[a] = "trying" /\ flock = None /\ flock' = a
      BY <2>2 DEF Acquire, AbstractPhase
    <3>. QED
      BY <3>1, <3>2 DEF Mutex!Grant
  <2>3. CASE FindBusy(a)
    <3>0. Goto(a, "busy") /\ "busy" \in PCs
      BY <2>3 DEF FindBusy
    <3>1. ph' = [ph EXCEPT ![a] = "refused"]
      BY <1>0, <3>0, PhaseMove
    <3>2. ph[a] = "trying" /\ flock # None /\ flock' = flock
      BY <2>3 DEF FindBusy, AbstractPhase
    <3>. QED
      BY <3>1, <3>2 DEF Mutex!Refuse
  <2>4. CASE ReadHolder(a)
    BY <1>0, <2>4 DEF ReadHolder, AbstractPhase, Goto, TypeOK
  <2>5. CASE Blank(a)
    BY <1>0, <2>5 DEF Blank, AbstractPhase, Goto, TypeOK
  <2>6. CASE Describe(a)
    BY <1>0, <2>6 DEF Describe, AbstractPhase, Goto, TypeOK
  <2>7. CASE DescribeFails(a) \/ Unlock(a)
    <3>0. \E l \in {"failed", "done"} : Goto(a, l) /\ l \in PCs
      BY <2>7 DEF DescribeFails, Unlock
    <3>1. ph' = [ph EXCEPT ![a] = "over"]
      BY <1>0, <3>0, PhaseMove
    <3>2. ph[a] = "holding" /\ flock = a /\ flock' = None
      BY <1>0, <2>7 DEF DescribeFails, Unlock, AbstractPhase, OwnerInside
    <3>. QED
      BY <3>1, <3>2 DEF Mutex!GiveBack
  <2>8. CASE StartCommand(a) \/ EndCommand(a)
    BY <2>8 DEF StartCommand, EndCommand, AbstractPhase
  <2>9. CASE Erase(a)
    BY <1>0, <2>9 DEF Erase, AbstractPhase, Goto, TypeOK
  <2>10. CASE Crash(a)
    <3>0. Goto(a, "crashed") /\ "crashed" \in PCs
      BY <2>10 DEF Crash
    <3>1. ph' = [ph EXCEPT ![a] = "over"]
      BY <1>0, <3>0, PhaseMove
    <3>2. CASE pc[a] \in Critical
      <4>1. ph[a] = "holding" /\ flock = a /\ flock' = None
        BY <1>0, <2>10, <3>2 DEF Crash, AbstractPhase, OwnerInside
      <4>. QED
        BY <3>1, <4>1 DEF Mutex!GiveBack
    <3>3. CASE pc[a] \notin Critical
      <4>1. ph[a] \in {"trying", "refused"} /\ flock' = flock
        BY <1>0, <2>10, <3>3 DEF Crash, AbstractPhase, OwnerInside, TypeOK
      <4>. QED
        BY <3>1, <4>1 DEF Mutex!Vanish
    <3>. QED
      BY <3>2, <3>3
  <2>. QED
    BY <1>2, <2>1, <2>2, <2>3, <2>4, <2>5, <2>6, <2>7, <2>8, <2>9, <2>10 DEF Step
<1>. QED
  BY <1>1, <1>2 DEF Next

(* host_lifecycle_lock implements the abstract lock its callers rely on. *)
THEOREM Refinement == Spec => ImplementsMutex
<1>1. Init => Mutex!Init
  <2>. SUFFICES ASSUME Init PROVE Mutex!Init
    OBVIOUS
  <2>1. \A a \in Attempt : AbstractPhase(a) = "trying"
    BY DEF Init, AbstractPhase, Critical
  <2>2. flock = None
    BY DEF Init
  <2>. QED
    BY <2>1, <2>2 DEF Mutex!Init
<1>. QED
  BY <1>1, Invariance, StepRefines, PTL DEF Spec, ImplementsMutex, Mutex!Spec
=============================================================================
