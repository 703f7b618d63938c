-------------------------- MODULE VmLifecycle_proofs --------------------------
(***************************************************************************)
(* Proofs about the lifecycle operations for any set of invocations, VMs   *)
(* and networks, any mix of tasks and any set of faults.                   *)
(***************************************************************************)
EXTENDS VmLifecycleProps, TLAPS

\* The steps of each operation.
CreateAt == {"idle", "prepare", "lock", "save", "write", "read", "nets", "rules", "image",
             "fetch", "disk", "seed", "natnet", "install", "unlock"} \cup Ended
CloneAt == {"idle", "prepare", "check", "lock", "save", "write", "finally", "unlock"}
           \cup Building \cup Cleaning \cup Ended
StartAt == {"idle", "load", "lock", "read", "nets", "rules", "boot", "unlock"} \cup Ended
StopAt == {"idle", "lock", "stop", "stopping", "unlock"} \cup Ended
DestroyAt == {"idle", "lock", "load", "read", "nets", "rules", "unlock"}
             \cup Cleaning \cup Ended
ReconcileAt == {"idle", "read", "rules"} \cup Ended

Fits(op, l) == /\ op = "create" => l \in CreateAt
               /\ op = "clone" => l \in CloneAt
               /\ op = "start" => l \in StartAt
               /\ op = "stop" => l \in StopAt
               /\ op = "destroy" => l \in DestroyAt
               /\ op = "reconcile" => l \in ReconcileAt

LabelsFit == \A a \in Attempt : Fits(Op(a), pc[a])

\* While create or clone builds, the state file it saved first is there.
Builds(a) == /\ Op(a) \in {"create", "clone"}
             /\ pc[a] \in Building \cup {"write", "image", "fetch", "disk"}
Saved == \A a \in Attempt : Builds(a) => state[V(a)] # "none"

\* Past virsh undefine, the domain being cleaned up is gone.
Cleans(a) == pc[a] \in Cleaning \ {"undefine"}
Undefined == "cleanup" \notin Faults =>
               \A a \in Attempt : Cleans(a) => domain[V(a)] = "none"

LockInv == TypeOK /\ LabelsFit /\ LockTracksHolder
IInv == LockInv /\ Saved /\ Undefined /\ DomainHasState

\* One step of one attempt.
Moves(a) == Begin(a) \/ Proceed(a) \/ Breaks(a) \/ Interrupt(a) \/ Crash(a)
-----------------------------------------------------------------------------
LEMMA TaskType ==
  ASSUME TypeOK, NEW a \in Attempt
  PROVE  /\ Op(a) \in Ops /\ task[a].svc \in BOOLEAN
         /\ V(a) \in Vm /\ Src(a) \in Vm
         /\ Mode[V(a)] \in {"group", "nat-auto", "nat-custom"} /\ NetOf[V(a)] \in Net
  BY TaskAssumption, ModeAssumption, NetAssumption DEF TypeOK, Op, V, Src

\* A reconcile works on the networks of its records.
LEMMA DriftedType ==
  ASSUME TypeOK, NEW a \in Attempt
  PROVE  Drifted(a) \subseteq Net /\ \A n : Hosts(a, n) \subseteq Vm
  BY NetAssumption DEF TypeOK, Drifted, Hosts

(* Types: every step leaves every variable in its range. *)
LEMMA TypeStep ==
  ASSUME LockInv, NEW a \in Attempt, Moves(a)
  PROVE  TypeOK'
<1>0. /\ TypeOK /\ Fits(Op(a), pc[a]) /\ Op(a) \in Ops /\ V(a) \in Vm /\ Src(a) \in Vm
      /\ Mode[V(a)] \in {"group", "nat-auto", "nat-custom"} /\ NetOf[V(a)] \in Net
  BY TaskType DEF LockInv, LabelsFit
<1>. USE <1>0, SetsAssumption
     DEF TypeOK, Goto, Advance, Raise, quiet, still, images, nets, host,
         PCs, Locked, Cleaning, Building, Ended
<1>1. CASE Begin(a)
  BY <1>1 DEF Begin, Fits, Ops
<1>2. CASE Check(a)
  BY <1>2 DEF Check
<1>3. CASE LoadForStart(a)
  BY <1>3 DEF LoadForStart, Modes
<1>4. CASE TakeLock(a)
  BY <1>4 DEF TakeLock, Fits, ReconcileAt, Ops, StartNext
<1>5. CASE FindBusy(a)
  BY <1>5 DEF FindBusy
<1>6. CASE Prepare(a)
  BY <1>6 DEF Prepare
<1>7. CASE PrepareFails(a)
  BY <1>7 DEF PrepareFails
<1>8. CASE Save(a)
  BY <1>8 DEF Save
<1>9. CASE Write(a)
  BY <1>9 DEF Write
<1>10. CASE ReadRecords(a)
  BY <1>10 DEF ReadRecords, Records, Live
<1>11. CASE EnsureNet(a)
  BY <1>11, DriftedType DEF EnsureNet
<1>12. CASE EnsureNetFails(a)
  <2>1. PICK n \in Drifted(a) :
          /\ \E up \in {"inactive", "active"} : netUp' = [netUp EXCEPT ![n] = up]
          /\ \/ dhcp' = [dhcp EXCEPT ![n] = Hosts(a, n)]
             \/ \E h \in dhcp[n] \cup Hosts(a, n) :
                  dhcp' = [dhcp EXCEPT ![n] =
                             IF h \in Hosts(a, n) THEN @ \cup {h} ELSE @ \ {h}]
    BY <1>12 DEF EnsureNetFails
  <2>2. n \in Net /\ Hosts(a, n) \subseteq Vm
    BY DriftedType
  <2>3. netUp' \in [Net -> {"absent", "inactive", "active"}]
    BY <2>1, <2>2
  <2>4. dhcp' \in [Net -> SUBSET Vm]
    <3>1. dhcp \in [Net -> SUBSET Vm]
      OBVIOUS
    <3>2. \E s \in SUBSET Vm : dhcp' = [dhcp EXCEPT ![n] = s]
      <4>1. CASE dhcp' = [dhcp EXCEPT ![n] = Hosts(a, n)]
        BY <2>2, <4>1
      <4>2. ASSUME NEW h \in dhcp[n] \cup Hosts(a, n),
                   dhcp' = [dhcp EXCEPT ![n] =
                              IF h \in Hosts(a, n) THEN @ \cup {h} ELSE @ \ {h}]
            PROVE  \E s \in SUBSET Vm : dhcp' = [dhcp EXCEPT ![n] = s]
        <5>1. dhcp[n] \cup {h} \in SUBSET Vm /\ dhcp[n] \ {h} \in SUBSET Vm
          BY <2>2, <3>1
        <5>. QED
          BY <4>2, <5>1
      <4>. QED
        BY <2>1, <4>1, <4>2
    <3>3. PICK s \in SUBSET Vm : dhcp' = [dhcp EXCEPT ![n] = s]
      BY <3>2
    <3>. QED
      BY ONLY <3>1, <3>3, Zenon
  <2>. QED
    BY <1>12, <2>3, <2>4 DEF EnsureNetFails, Handler
<1>13. CASE NetsRaise(a)
  BY <1>13 DEF NetsRaise, Handler
<1>14. CASE NetsDone(a)
  BY <1>14 DEF NetsDone
<1>15. CASE ApplyRules(a)
  BY <1>15 DEF ApplyRules, AfterRules
<1>16. CASE ApplyRulesFails(a)
  BY <1>16 DEF ApplyRulesFails, Handler
<1>17. CASE Image(a)
  <2>1. CASE base = "none"
    BY <1>17, <2>1 DEF Image
  <2>2. CASE base # "none"
    <3>1. UNCHANGED <<base, quiet, images, netUp, dhcp, rules>> /\ Advance(a, "disk")
      BY <1>17, <2>2 DEF Image
    <3>. QED
      BY <3>1
  <2>. QED
    BY <2>1, <2>2
<1>18. CASE Fetched(a)
  BY <1>18 DEF Fetched
<1>19. CASE MakeDisk(a)
  BY <1>19 DEF MakeDisk
<1>20. CASE StopMissing(a)
  BY <1>20 DEF StopMissing, Handler
<1>21. CASE StopStopped(a)
  BY <1>21 DEF StopStopped, AfterStop
<1>22. CASE StopRunning(a)
  BY <1>22 DEF StopRunning, Stoppable
<1>23. CASE StopReturns(a)
  BY <1>23 DEF StopReturns, AfterStop
<1>24. CASE CopyStarts(a)
  BY <1>24 DEF CopyStarts
<1>25. CASE CopyEnds(a)
  BY <1>25 DEF CopyEnds, AfterDisk
<1>26. CASE CopyImpossible(a)
  BY <1>26 DEF CopyImpossible, Handler
<1>27. CASE Seed(a)
  BY <1>27 DEF Seed
<1>28. CASE SeedFails(a)
  BY <1>28 DEF SeedFails, Handler
<1>29. CASE NatNet(a)
  BY <1>29 DEF NatNet, NatNetDefined
<1>30. CASE NatNetFails(a)
  BY <1>30 DEF NatNetFails, NatNetDefined, Handler
<1>31. CASE Install(a)
  BY <1>31 DEF Install
<1>32. CASE Boot(a)
  BY <1>32 DEF Boot, Startable
<1>33. CASE BootFails(a)
  BY <1>33 DEF BootFails
<1>34. CASE NothingToRestart(a)
  BY <1>34 DEF NothingToRestart
<1>35. CASE LoadForDestroy(a)
  BY <1>35 DEF LoadForDestroy, MergedMode, Modes
<1>36. CASE Undefine(a)
  <2>1. CASE domain[V(a)] = "none"
    BY <1>36, <2>1 DEF Undefine
  <2>2. CASE domain[V(a)] # "none"
    <3>1. /\ domain' = [domain EXCEPT ![V(a)] = "none"]
          /\ disk' = [disk EXCEPT ![V(a)] = "none"]
          /\ files' = [files EXCEPT ![V(a)] = @ \ {"seed"}]
      BY <1>36, <2>2 DEF Undefine
    <3>2. UNCHANGED <<still, state, nets>> /\ \E l \in {"netdown", "storage"} : Goto(a, l)
      BY <1>36 DEF Undefine
    <3>. QED
      BY <3>1, <3>2
  <2>. QED
    BY <2>1, <2>2
<1>37. CASE NetDown(a)
  BY <1>37 DEF NetDown
<1>38. CASE RemoveStorage(a)
  BY <1>38 DEF RemoveStorage
<1>39. CASE RemoveArtifacts(a)
  BY <1>39 DEF RemoveArtifacts
<1>40. CASE Forget(a)
  BY <1>40 DEF Forget
<1>41. CASE CleanupFails(a)
  BY <1>41 DEF CleanupFails
<1>42. CASE Unlock(a)
  BY <1>42 DEF Unlock
<1>43. CASE Fails(a)
  BY <1>43 DEF Fails, Handler
<1>44. CASE Interrupt(a)
  BY <1>44 DEF Interrupt
<1>45. CASE Crash(a)
  BY <1>45 DEF Crash
<1>46. CASE ForceOff(a)
  BY <1>46 DEF ForceOff
<1>47. CASE NetStop(a)
  BY <1>47 DEF NetStop
<1>. QED
  BY <1>1, <1>2, <1>3, <1>4, <1>5, <1>6, <1>7, <1>8, <1>9, <1>10, <1>11, <1>12,
     <1>13, <1>14, <1>15, <1>16, <1>17, <1>18, <1>19, <1>20, <1>21, <1>22, <1>23,
     <1>24, <1>25, <1>26, <1>27, <1>28, <1>29, <1>30, <1>31, <1>32, <1>33, <1>34,
     <1>35, <1>36, <1>37, <1>38, <1>39, <1>40, <1>41, <1>42, <1>43, <1>44, <1>45, <1>46,
     <1>47 DEF Moves, Proceed, Breaks

(* Control: every step takes an operation to a step it has. *)
LEMMA LabelStep ==
  ASSUME LockInv, NEW a \in Attempt, Moves(a)
  PROVE  LabelsFit'
<1>0. SUFFICES /\ Fits(Op(a), pc'[a]) /\ task' = task
               /\ \A b \in Attempt \ {a} : pc'[b] = pc[b]
  BY DEF LockInv, LabelsFit, Op
<1>a. pc \in [Attempt -> PCs] /\ Fits(Op(a), pc[a]) /\ Op(a) \in Ops
  BY TaskType DEF LockInv, TypeOK, LabelsFit
<1>. USE <1>a
     DEF Goto, Advance, Raise, quiet, still, images, nets, host,
         Fits, CreateAt, CloneAt, StartAt, StopAt, DestroyAt, ReconcileAt,
         Building, Cleaning, Ended
<1>1. CASE Begin(a)
  BY <1>1 DEF Begin, Ops
<1>2. CASE Check(a)
  BY <1>2 DEF Check
<1>3. CASE LoadForStart(a)
  BY <1>3 DEF LoadForStart
<1>4. CASE TakeLock(a)
  BY <1>4 DEF TakeLock, Ops, StartNext
<1>5. CASE FindBusy(a)
  BY <1>5 DEF FindBusy
<1>6. CASE Prepare(a)
  BY <1>6 DEF Prepare
<1>7. CASE PrepareFails(a)
  BY <1>7 DEF PrepareFails
<1>8. CASE Save(a)
  BY <1>8 DEF Save
<1>9. CASE Write(a)
  BY <1>9 DEF Write
<1>10. CASE ReadRecords(a)
  BY <1>10 DEF ReadRecords, Full
<1>11. CASE EnsureNet(a)
  BY <1>11 DEF EnsureNet
<1>12. CASE EnsureNetFails(a)
  BY <1>12 DEF EnsureNetFails, Handler, InTry
<1>13. CASE NetsRaise(a)
  BY <1>13 DEF NetsRaise, Handler, InTry
<1>14. CASE NetsDone(a)
  BY <1>14 DEF NetsDone
<1>15. CASE ApplyRules(a)
  BY <1>15 DEF ApplyRules, AfterRules
<1>16. CASE ApplyRulesFails(a)
  BY <1>16 DEF ApplyRulesFails, Handler, InTry
<1>17. CASE Image(a)
  BY <1>17 DEF Image
<1>18. CASE Fetched(a)
  BY <1>18 DEF Fetched
<1>19. CASE MakeDisk(a)
  BY <1>19 DEF MakeDisk
<1>20. CASE StopMissing(a)
  BY <1>20 DEF StopMissing, Handler, InTry
<1>21. CASE StopStopped(a)
  BY <1>21 DEF StopStopped, AfterStop
<1>22. CASE StopRunning(a)
  BY <1>22 DEF StopRunning
<1>23. CASE StopReturns(a)
  BY <1>23 DEF StopReturns, AfterStop
<1>24. CASE CopyStarts(a)
  BY <1>24 DEF CopyStarts
<1>25. CASE CopyEnds(a)
  BY <1>25 DEF CopyEnds, AfterDisk
<1>26. CASE CopyImpossible(a)
  BY <1>26 DEF CopyImpossible, Handler, InTry
<1>27. CASE Seed(a)
  BY <1>27 DEF Seed
<1>28. CASE SeedFails(a)
  BY <1>28 DEF SeedFails, Handler, InTry
<1>29. CASE NatNet(a)
  BY <1>29 DEF NatNet
<1>30. CASE NatNetFails(a)
  BY <1>30 DEF NatNetFails, Handler, InTry
<1>31. CASE Install(a)
  BY <1>31 DEF Install
<1>32. CASE Boot(a)
  BY <1>32 DEF Boot, Starting
<1>33. CASE BootFails(a)
  BY <1>33 DEF BootFails, Starting
<1>34. CASE NothingToRestart(a)
  BY <1>34 DEF NothingToRestart
<1>35. CASE LoadForDestroy(a)
  BY <1>35 DEF LoadForDestroy
<1>36. CASE Undefine(a)
  BY <1>36 DEF Undefine
<1>37. CASE NetDown(a)
  BY <1>37 DEF NetDown
<1>38. CASE RemoveStorage(a)
  BY <1>38 DEF RemoveStorage
<1>39. CASE RemoveArtifacts(a)
  BY <1>39 DEF RemoveArtifacts
<1>40. CASE Forget(a)
  BY <1>40 DEF Forget
<1>41. CASE CleanupFails(a)
  BY <1>41 DEF CleanupFails
<1>42. CASE Unlock(a)
  BY <1>42 DEF Unlock
<1>43. CASE Fails(a)
  BY <1>43 DEF Fails, Handler, InTry
<1>44. CASE Interrupt(a)
  BY <1>44 DEF Interrupt, InTry, Outside
<1>45. CASE Crash(a)
  BY <1>45 DEF Crash
<1>46. CASE ForceOff(a)
  BY <1>46 DEF ForceOff
<1>47. CASE NetStop(a)
  BY <1>47 DEF NetStop
<1>. QED
  BY <1>1, <1>2, <1>3, <1>4, <1>5, <1>6, <1>7, <1>8, <1>9, <1>10, <1>11, <1>12,
     <1>13, <1>14, <1>15, <1>16, <1>17, <1>18, <1>19, <1>20, <1>21, <1>22, <1>23,
     <1>24, <1>25, <1>26, <1>27, <1>28, <1>29, <1>30, <1>31, <1>32, <1>33, <1>34,
     <1>35, <1>36, <1>37, <1>38, <1>39, <1>40, <1>41, <1>42, <1>43, <1>44, <1>45, <1>46,
     <1>47 DEF Moves, Proceed, Breaks

(* The lock: a step takes it exactly when it enters the with statement. *)
LEMMA LockStep ==
  ASSUME LockInv, NEW a \in Attempt, Moves(a)
  PROVE  LockTracksHolder'
<1>0. SUFFICES /\ lock' = a <=> ~Outside(a)'
               /\ \A b \in Attempt \ {a} : /\ Outside(b)' = Outside(b)
                                           /\ lock' = b <=> lock = b
  BY DEF LockInv, LockTracksHolder
<1>a. /\ pc \in [Attempt -> PCs] /\ Fits(Op(a), pc[a]) /\ Op(a) \in Ops
      /\ lock = a <=> ~Outside(a)
  BY TaskType DEF LockInv, TypeOK, LabelsFit, LockTracksHolder
<1>b. \A b \in Attempt \ {a} : lock = a => Outside(b)
  BY DEF LockInv, LockTracksHolder
<1>. USE <1>a, <1>b, NoneAssumption
     DEF Goto, Advance, Raise, quiet, still, images, nets, host, Outside, Op,
         Fits, CreateAt, CloneAt, StartAt, StopAt, DestroyAt, ReconcileAt,
         Building, Cleaning, Ended, Ops
<1>1. CASE Begin(a)
  BY <1>1 DEF Begin
<1>2. CASE Check(a)
  BY <1>2 DEF Check
<1>3. CASE LoadForStart(a)
  BY <1>3 DEF LoadForStart
<1>4. CASE TakeLock(a)
  BY <1>4 DEF TakeLock, StartNext
<1>5. CASE FindBusy(a)
  BY <1>5 DEF FindBusy
<1>6. CASE Prepare(a)
  BY <1>6 DEF Prepare
<1>7. CASE PrepareFails(a)
  BY <1>7 DEF PrepareFails
<1>8. CASE Save(a)
  BY <1>8 DEF Save
<1>9. CASE Write(a)
  BY <1>9 DEF Write
<1>10. CASE ReadRecords(a)
  BY <1>10 DEF ReadRecords, Full
<1>11. CASE EnsureNet(a)
  BY <1>11 DEF EnsureNet
<1>12. CASE EnsureNetFails(a)
  BY <1>12 DEF EnsureNetFails, Handler, InTry
<1>13. CASE NetsRaise(a)
  BY <1>13 DEF NetsRaise, Handler, InTry
<1>14. CASE NetsDone(a)
  BY <1>14 DEF NetsDone
<1>15. CASE ApplyRules(a)
  BY <1>15 DEF ApplyRules, AfterRules
<1>16. CASE ApplyRulesFails(a)
  BY <1>16 DEF ApplyRulesFails, Handler, InTry
<1>17. CASE Image(a)
  BY <1>17 DEF Image
<1>18. CASE Fetched(a)
  BY <1>18 DEF Fetched
<1>19. CASE MakeDisk(a)
  BY <1>19 DEF MakeDisk
<1>20. CASE StopMissing(a)
  BY <1>20 DEF StopMissing, Handler, InTry
<1>21. CASE StopStopped(a)
  BY <1>21 DEF StopStopped, AfterStop
<1>22. CASE StopRunning(a)
  BY <1>22 DEF StopRunning
<1>23. CASE StopReturns(a)
  BY <1>23 DEF StopReturns, AfterStop
<1>24. CASE CopyStarts(a)
  BY <1>24 DEF CopyStarts
<1>25. CASE CopyEnds(a)
  BY <1>25 DEF CopyEnds, AfterDisk
<1>26. CASE CopyImpossible(a)
  BY <1>26 DEF CopyImpossible, Handler, InTry
<1>27. CASE Seed(a)
  BY <1>27 DEF Seed
<1>28. CASE SeedFails(a)
  BY <1>28 DEF SeedFails, Handler, InTry
<1>29. CASE NatNet(a)
  BY <1>29 DEF NatNet
<1>30. CASE NatNetFails(a)
  BY <1>30 DEF NatNetFails, Handler, InTry
<1>31. CASE Install(a)
  BY <1>31 DEF Install
<1>32. CASE Boot(a)
  BY <1>32 DEF Boot, Starting
<1>33. CASE BootFails(a)
  BY <1>33 DEF BootFails, Starting
<1>34. CASE NothingToRestart(a)
  BY <1>34 DEF NothingToRestart
<1>35. CASE LoadForDestroy(a)
  BY <1>35 DEF LoadForDestroy
<1>36. CASE Undefine(a)
  BY <1>36 DEF Undefine
<1>37. CASE NetDown(a)
  BY <1>37 DEF NetDown
<1>38. CASE RemoveStorage(a)
  BY <1>38 DEF RemoveStorage
<1>39. CASE RemoveArtifacts(a)
  BY <1>39 DEF RemoveArtifacts
<1>40. CASE Forget(a)
  BY <1>40 DEF Forget
<1>41. CASE CleanupFails(a)
  BY <1>41 DEF CleanupFails
<1>42. CASE Unlock(a)
  BY <1>42 DEF Unlock
<1>43. CASE Fails(a)
  BY <1>43 DEF Fails, Handler, InTry
<1>44. CASE Interrupt(a)
  BY <1>44 DEF Interrupt, InTry
<1>45. CASE Crash(a)
  BY <1>45 DEF Crash
<1>46. CASE ForceOff(a)
  BY <1>46 DEF ForceOff
<1>47. CASE NetStop(a)
  BY <1>47 DEF NetStop
<1>. QED
  BY <1>1, <1>2, <1>3, <1>4, <1>5, <1>6, <1>7, <1>8, <1>9, <1>10, <1>11, <1>12,
     <1>13, <1>14, <1>15, <1>16, <1>17, <1>18, <1>19, <1>20, <1>21, <1>22, <1>23,
     <1>24, <1>25, <1>26, <1>27, <1>28, <1>29, <1>30, <1>31, <1>32, <1>33, <1>34,
     <1>35, <1>36, <1>37, <1>38, <1>39, <1>40, <1>41, <1>42, <1>43, <1>44, <1>45, <1>46,
     <1>47 DEF Moves, Proceed, Breaks

-----------------------------------------------------------------------------
\* Only Forget, the end of a cleanup, takes a state file away.
LEMMA StatesKept ==
  ASSUME TypeOK, NEW a \in Attempt, Moves(a)
  PROVE  Forget(a) \/ \A v \in Vm : state[v] # "none" => state'[v] # "none"
<1>1. CASE Save(a) \/ Write(a)
  BY <1>1 DEF TypeOK, Save, Write
<1>2. CASE Forget(a)
  BY <1>2
<1>3. ASSUME ~(Save(a) \/ Write(a) \/ Forget(a)) PROVE UNCHANGED state
  BY <1>3
     DEF Moves, Proceed, Breaks, quiet, still, images, nets, host,
         Begin, Check, LoadForStart, TakeLock, FindBusy, Prepare, PrepareFails,
         ReadRecords, EnsureNet, EnsureNetFails, NetsRaise, NetsDone, ApplyRules,
         ApplyRulesFails, Image, Fetched, MakeDisk, StopMissing, StopStopped,
         StopRunning, StopReturns, CopyStarts, CopyEnds, CopyImpossible, Seed,
         SeedFails, NatNet, NatNetFails, Install, Boot, BootFails, NothingToRestart,
         LoadForDestroy, ForceOff, Undefine, NetStop, NetDown, RemoveStorage,
         RemoveArtifacts, CleanupFails, Unlock, Fails, Interrupt, Crash
<1>. QED
  BY <1>1, <1>2, <1>3

\* Only Install, the end of a build, makes a domain.
LEMMA DomainsKept ==
  ASSUME TypeOK, NEW a \in Attempt, Moves(a)
  PROVE  Install(a) \/ \A v \in Vm : domain[v] = "none" => domain'[v] = "none"
<1>1. CASE StopRunning(a) \/ Boot(a) \/ ForceOff(a) \/ Undefine(a)
  BY <1>1 DEF TypeOK, StopRunning, Boot, ForceOff, Undefine, images
<1>2. CASE Install(a)
  BY <1>2
<1>3. ASSUME ~(StopRunning(a) \/ Boot(a) \/ ForceOff(a) \/ Undefine(a) \/ Install(a))
      PROVE  UNCHANGED domain
  BY <1>3
     DEF Moves, Proceed, Breaks, quiet, still, images, nets, host,
         Begin, Check, LoadForStart, TakeLock, FindBusy, Prepare, PrepareFails, Save,
         Write, ReadRecords, EnsureNet, EnsureNetFails, NetsRaise, NetsDone,
         ApplyRules, ApplyRulesFails, Image, Fetched, MakeDisk, StopMissing,
         StopStopped, StopReturns, CopyStarts, CopyEnds, CopyImpossible, Seed,
         SeedFails, NatNet, NatNetFails, BootFails, NothingToRestart, LoadForDestroy,
         NetStop, NetDown, RemoveStorage, RemoveArtifacts, Forget, CleanupFails, Unlock,
         Fails, Interrupt, Crash
<1>. QED
  BY <1>1, <1>2, <1>3

\* A build starts by saving the state file.
LEMMA EntersBuilding ==
  ASSUME LockInv, NEW a \in Attempt, Moves(a), Builds(a)', ~Builds(a)
  PROVE  Save(a)
<1>1. /\ pc \in [Attempt -> PCs] /\ Fits(Op(a), pc[a]) /\ Op(a) \in Ops
  BY TaskType DEF LockInv, TypeOK, LabelsFit
<1>2. Op(a) \in {"create", "clone"} /\ task' = task
  BY <1>1 DEF Moves, Builds, Op, Proceed, Breaks, quiet, still,
         Begin, Check, LoadForStart, TakeLock, FindBusy, Prepare, PrepareFails, Save,
         Write, ReadRecords, EnsureNet, EnsureNetFails, NetsRaise, NetsDone,
         ApplyRules, ApplyRulesFails, Image, Fetched, MakeDisk, StopMissing,
         StopStopped, StopRunning, StopReturns, CopyStarts, CopyEnds, CopyImpossible,
         Seed, SeedFails, NatNet, NatNetFails, Install, Boot, BootFails,
         NothingToRestart, LoadForDestroy, ForceOff, Undefine, NetStop, NetDown,
         RemoveStorage, RemoveArtifacts, Forget, CleanupFails, Unlock, Fails, Interrupt,
         Crash
<1>. USE <1>1, <1>2
     DEF Goto, Advance, Raise, Op, Builds,
         Fits, CreateAt, CloneAt, Building, Cleaning, Ended, Ops, Handler, InTry
<1>3. ASSUME \/ Write(a) \/ ReadRecords(a) \/ EnsureNet(a) \/ EnsureNetFails(a)
             \/ NetsRaise(a) \/ NetsDone(a) \/ ApplyRules(a) \/ ApplyRulesFails(a)
             \/ Image(a) \/ Fetched(a) \/ MakeDisk(a) \/ StopMissing(a)
             \/ StopStopped(a) \/ StopRunning(a) \/ StopReturns(a) \/ CopyStarts(a)
             \/ CopyEnds(a) \/ CopyImpossible(a) \/ Seed(a) \/ SeedFails(a)
             \/ NatNet(a) \/ NatNetFails(a) \/ Install(a)
      PROVE FALSE
  BY <1>3 DEF Write, ReadRecords, EnsureNet, EnsureNetFails, NetsRaise, NetsDone,
              ApplyRules, ApplyRulesFails, Image, Fetched, MakeDisk, StopMissing,
              StopStopped, StopRunning, StopReturns, CopyStarts, CopyEnds,
              CopyImpossible, Seed, SeedFails, NatNet, NatNetFails, Install
<1>4. ASSUME \/ Begin(a) \/ Check(a) \/ LoadForStart(a) \/ TakeLock(a)
             \/ FindBusy(a) \/ Prepare(a) \/ PrepareFails(a) \/ Boot(a)
             \/ BootFails(a) \/ NothingToRestart(a) \/ LoadForDestroy(a)
             \/ ForceOff(a) \/ Undefine(a) \/ NetStop(a) \/ NetDown(a)
             \/ RemoveStorage(a) \/ RemoveArtifacts(a) \/ Forget(a)
             \/ CleanupFails(a) \/ Unlock(a) \/ Fails(a) \/ Interrupt(a) \/ Crash(a)
      PROVE FALSE
  BY <1>4 DEF Begin, Check, LoadForStart, TakeLock, FindBusy, Prepare, PrepareFails,
              Boot, BootFails, NothingToRestart, LoadForDestroy, ForceOff, Undefine,
              NetStop, NetDown, RemoveStorage, RemoveArtifacts, Forget, CleanupFails,
              Unlock, Fails, Interrupt, Crash
<1>. QED
  BY <1>3, <1>4 DEF Moves, Proceed, Breaks

\* A cleanup is past virsh undefine only if it has been through it.
LEMMA EntersCleanup ==
  ASSUME LockInv, NEW a \in Attempt, Moves(a), "cleanup" \notin Faults,
         Cleans(a)', ~Cleans(a)
  PROVE  domain'[V(a)] = "none"
<1>1. /\ pc \in [Attempt -> PCs] /\ Fits(Op(a), pc[a]) /\ Op(a) \in Ops /\ V(a) \in Vm
      /\ domain \in [Vm -> {"none", "off", "running"}]
  BY TaskType DEF LockInv, TypeOK, LabelsFit
<1>2. CASE Undefine(a)
  BY <1>1, <1>2 DEF Undefine
<1>. USE <1>1
     DEF Goto, Advance, Raise, Cleans, Cleaning, Building, Ended, Handler, InTry,
         Fits, ReconcileAt, Ops
<1>3. ASSUME \/ Begin(a) \/ Check(a) \/ LoadForStart(a) \/ TakeLock(a)
             \/ FindBusy(a) \/ Prepare(a) \/ PrepareFails(a) \/ Save(a) \/ Write(a)
             \/ ReadRecords(a) \/ EnsureNet(a)
      PROVE FALSE
  BY <1>3 DEF Begin, Check, LoadForStart, TakeLock, FindBusy, Prepare, PrepareFails,
              Save, Write, ReadRecords, EnsureNet, StartNext
<1>4. ASSUME \/ EnsureNetFails(a) \/ NetsRaise(a) \/ NetsDone(a) \/ ApplyRules(a)
             \/ ApplyRulesFails(a) \/ Image(a) \/ Fetched(a) \/ MakeDisk(a)
             \/ StopMissing(a) \/ StopStopped(a) \/ StopRunning(a)
      PROVE FALSE
  BY <1>4 DEF EnsureNetFails, NetsRaise, NetsDone, ApplyRules, ApplyRulesFails, Image,
              Fetched, MakeDisk, StopMissing, StopStopped, StopRunning, AfterRules,
              AfterStop
<1>5. ASSUME \/ StopReturns(a) \/ CopyStarts(a) \/ CopyEnds(a) \/ CopyImpossible(a)
             \/ Seed(a) \/ SeedFails(a) \/ NatNet(a) \/ NatNetFails(a) \/ Install(a)
             \/ Boot(a) \/ BootFails(a)
      PROVE FALSE
  BY <1>5 DEF StopReturns, CopyStarts, CopyEnds, CopyImpossible, Seed, SeedFails,
              NatNet, NatNetFails, Install, Boot, BootFails, AfterStop, AfterDisk
<1>6. ASSUME \/ NothingToRestart(a) \/ LoadForDestroy(a) \/ ForceOff(a)
             \/ NetStop(a) \/ NetDown(a)
             \/ RemoveStorage(a) \/ RemoveArtifacts(a) \/ Forget(a)
             \/ CleanupFails(a) \/ Unlock(a) \/ Fails(a) \/ Interrupt(a) \/ Crash(a)
      PROVE FALSE
  BY <1>6 DEF NothingToRestart, LoadForDestroy, ForceOff, NetStop, NetDown, RemoveStorage,
              RemoveArtifacts, Forget, CleanupFails, Unlock, Fails, Interrupt, Crash
<1>. QED
  BY <1>2, <1>3, <1>4, <1>5, <1>6 DEF Moves, Proceed, Breaks
-----------------------------------------------------------------------------
LEMMA InitInv == Init => IInv
<1>. SUFFICES ASSUME Init PROVE IInv
  OBVIOUS
<1>1. TypeOK
  BY SetsAssumption, NetAssumption
     DEF Init, TypeOK, PCs, Locked, Cleaning, Building, Ended, Modes, Group
<1>2. LabelsFit
  BY DEF Init, LabelsFit, Fits, CreateAt, CloneAt, StartAt, StopAt, DestroyAt, ReconcileAt
<1>3. LockTracksHolder
  BY NoneAssumption DEF Init, LockTracksHolder, Outside
<1>4. Saved /\ Undefined
  BY DEF Init, Saved, Builds, Undefined, Cleans, Building, Cleaning
<1>5. DomainHasState
  BY DEF Init, DomainHasState
<1>. QED
  BY <1>1, <1>2, <1>3, <1>4, <1>5 DEF IInv, LockInv

\* A reboot ends every attempt that has begun.
LEMMA RebootStep ==
  ASSUME IInv, Reboot
  PROVE  IInv'
<1>1. TypeOK'
  BY NoneAssumption
     DEF IInv, LockInv, TypeOK, Reboot, PCs, Locked, Cleaning, Building, Ended
<1>2. \A a \in Attempt : pc'[a] \in Ended \cup {"idle"} /\ Op(a)' = Op(a)
  BY DEF IInv, LockInv, TypeOK, Reboot, Ended, Op
<1>3. LabelsFit' /\ LockTracksHolder'
  BY <1>2, NoneAssumption
     DEF LabelsFit, LockTracksHolder, Outside, Fits, CreateAt, CloneAt, StartAt, StopAt,
         DestroyAt, ReconcileAt, Ended, Reboot
<1>4. Saved' /\ Undefined'
  BY <1>2 DEF Saved, Builds, Undefined, Cleans, Building, Cleaning, Ended
<1>5. DomainHasState'
  BY DEF IInv, LockInv, TypeOK, DomainHasState, Reboot
<1>. QED
  BY <1>1, <1>3, <1>4, <1>5 DEF IInv, LockInv

\* Whoever is not the one that moves is outside while the mover cleans or installs.
LEMMA OthersOutside ==
  ASSUME LockInv, NEW a \in Attempt, NEW b \in Attempt \ {a}, Forget(a) \/ Install(a)
  PROVE  ~Builds(b) /\ ~Cleans(b)
<1>1. lock = a
  BY TaskType DEF LockInv, LockTracksHolder, Outside, LabelsFit, Fits, ReconcileAt,
                  Forget, Install, Ended
<1>2. Outside(b) /\ Fits(Op(b), pc[b])
  BY <1>1 DEF LockInv, LockTracksHolder, LabelsFit
<1>. QED
  BY <1>2 DEF Outside, Builds, Cleans, Building, Cleaning, Ended, Fits, ReconcileAt

LEMMA StateStep ==
  ASSUME IInv, NEW a \in Attempt, Moves(a)
  PROVE  Saved' /\ Undefined' /\ DomainHasState'
<1>0. /\ LockInv /\ TypeOK /\ Saved /\ Undefined /\ DomainHasState
      /\ task' = task /\ \A b \in Attempt \ {a} : pc'[b] = pc[b]
      /\ \A b \in Attempt : V(b) \in Vm /\ V(b)' = V(b) /\ Op(b)' = Op(b)
  <2>1. TypeOK /\ LockInv
    BY DEF IInv, LockInv
  <2>2. task' = task
    BY DEF Moves, Proceed, Breaks, quiet, still,
           Begin, Check, LoadForStart, TakeLock, FindBusy, Prepare, PrepareFails, Save,
           Write, ReadRecords, EnsureNet, EnsureNetFails, NetsRaise, NetsDone,
           ApplyRules, ApplyRulesFails, Image, Fetched, MakeDisk, StopMissing,
           StopStopped, StopRunning, StopReturns, CopyStarts, CopyEnds, CopyImpossible,
           Seed, SeedFails, NatNet, NatNetFails, Install, Boot, BootFails,
           NothingToRestart, LoadForDestroy, ForceOff, Undefine, NetStop, NetDown,
           RemoveStorage, RemoveArtifacts, Forget, CleanupFails, Unlock, Fails,
           Interrupt, Crash
  <2>3. \A b \in Attempt \ {a} : pc'[b] = pc[b]
    BY <2>1 DEF TypeOK, Moves, Proceed, Breaks, Goto, Advance, Raise,
           Begin, Check, LoadForStart, TakeLock, FindBusy, Prepare, PrepareFails, Save,
           Write, ReadRecords, EnsureNet, EnsureNetFails, NetsRaise, NetsDone,
           ApplyRules, ApplyRulesFails, Image, Fetched, MakeDisk, StopMissing,
           StopStopped, StopRunning, StopReturns, CopyStarts, CopyEnds, CopyImpossible,
           Seed, SeedFails, NatNet, NatNetFails, Install, Boot, BootFails,
           NothingToRestart, LoadForDestroy, ForceOff, Undefine, NetStop, NetDown,
           RemoveStorage, RemoveArtifacts, Forget, CleanupFails, Unlock, Fails,
           Interrupt, Crash
  <2>. QED
    BY <2>1, <2>2, <2>3, TaskType DEF IInv, V, Op
<1>1. Saved'
  <2>. SUFFICES ASSUME NEW b \in Attempt, Builds(b)' PROVE state'[V(b)] # "none"
    BY <1>0 DEF Saved
  <2>1. CASE Builds(b)
    <3>1. state[V(b)] # "none"
      BY <1>0, <2>1 DEF Saved
    <3>2. ~Forget(a)
      BY <1>0, <2>1, OthersOutside DEF Forget, Builds, Building
    <3>. QED
      BY <1>0, <3>1, <3>2, StatesKept
  <2>2. CASE ~Builds(b)
    <3>1. b = a
      BY <1>0, <2>2 DEF Builds
    <3>. QED
      BY <1>0, <2>2, <3>1, EntersBuilding DEF Save, TypeOK
  <2>. QED
    BY <2>1, <2>2
<1>2. Undefined'
  <2>. SUFFICES ASSUME "cleanup" \notin Faults, NEW b \in Attempt, Cleans(b)'
                PROVE  domain'[V(b)] = "none"
    BY <1>0 DEF Undefined
  <2>1. CASE Cleans(b)
    <3>1. domain[V(b)] = "none"
      BY <1>0, <2>1 DEF Undefined
    <3>2. ~Install(a)
      BY <1>0, <2>1, OthersOutside DEF Install, Cleans, Cleaning
    <3>. QED
      BY <1>0, <3>1, <3>2, DomainsKept
  <2>2. CASE ~Cleans(b)
    <3>1. b = a
      BY <1>0, <2>2 DEF Cleans
    <3>. QED
      BY <1>0, <2>2, <3>1, EntersCleanup
  <2>. QED
    BY <2>1, <2>2
<1>3. DomainHasState'
  <2>. SUFFICES ASSUME "cleanup" \notin Faults, NEW v \in Vm, domain'[v] # "none"
                PROVE  state'[v] # "none"
    BY DEF DomainHasState
  <2>1. CASE domain[v] # "none"
    <3>1. state[v] # "none"
      BY <1>0, <2>1 DEF DomainHasState
    <3>2. CASE Forget(a)
      <4>1. domain[V(a)] = "none"
        BY <1>0, <3>2 DEF Undefined, Cleans, Cleaning, Forget
      <4>. QED
        BY <1>0, <2>1, <3>1, <3>2, <4>1 DEF Forget, TypeOK
    <3>. QED
      BY <1>0, <3>1, <3>2, StatesKept
  <2>2. CASE domain[v] = "none"
    <3>1. Install(a)
      BY <1>0, <2>2, DomainsKept
    <3>2. v = V(a) /\ state' = state
      BY <1>0, <2>2, <3>1 DEF Install, TypeOK
    <3>3. Builds(a)
      <4>1. pc[a] = "install" /\ Fits(Op(a), pc[a]) /\ Op(a) \in Ops
        BY <1>0, <3>1, TaskType DEF Install, LockInv, LabelsFit
      <4>. QED
        BY <4>1 DEF Builds, Building, Fits, StartAt, StopAt, DestroyAt, ReconcileAt,
                    Cleaning, Ended, Ops
    <3>. QED
      BY <1>0, <3>2, <3>3 DEF Saved
  <2>. QED
    BY <2>1, <2>2
<1>. QED
  BY <1>1, <1>2, <1>3

LEMMA StepInv == IInv /\ [Next]_vars => IInv'
<1>. SUFFICES ASSUME IInv, [Next]_vars PROVE IInv'
  OBVIOUS
<1>1. CASE UNCHANGED vars
  BY <1>1 DEF vars, IInv, LockInv, TypeOK, LabelsFit, LockTracksHolder, Outside, Saved,
              Builds, Undefined, Cleans, DomainHasState, Op, V
<1>2. ASSUME NEW a \in Attempt, Moves(a) PROVE IInv'
  BY <1>2, TypeStep, LabelStep, LockStep, StateStep DEF IInv, LockInv
<1>3. CASE Reboot
  BY <1>3, RebootStep
<1>. QED
  BY <1>1, <1>2, <1>3 DEF Next, Moves
-----------------------------------------------------------------------------
(* The invariant behind the theorems: each operation is at a step it has, the lock
   is held by whoever is inside, builds have saved a state file, and cleanups past
   virsh undefine have no domain left. *)
THEOREM Invariance == Spec => []IInv
  BY InitInv, StepInv, PTL DEF Spec

(* The host's and the attempts' state stay well-typed, under every fault. *)
THEOREM TypeCorrect == Spec => []TypeOK
  BY Invariance, PTL DEF IInv, LockInv

(* Whatever fails, is killed or interrupted, the lifecycle lock is held by exactly
   the attempt inside its with statement, so no two operations are inside at once
   and none is left holding it. *)
THEOREM LockHeldInside == Spec => []LockTracksHolder
  BY Invariance, PTL DEF IInv, LockInv

(* No order of operations, crashes and reboots leaves a libvirt domain without the
   state file that create or clone saved for it. *)
THEOREM DomainsDescribed == Spec => []DomainHasState
  BY Invariance, PTL DEF IInv
=============================================================================
