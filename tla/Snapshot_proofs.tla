---------------------------- MODULE Snapshot_proofs ----------------------------
(***************************************************************************)
(* Proofs about snapshots for any invocations, ids, faults and bound on    *)
(* what guests write: what create, restore, delete, and the operations on  *)
(* the VM beside them, keep of the VM's data and of its restore points.    *)
(***************************************************************************)
EXTENDS SnapshotProps, TLAPS

\* An id is the CLI's or the services', and no service gives one twice; two creates of
\* the CLI in one second have the same.
Snaps == {"create", "restore", "delete"}
OwnIds ==
    \A f \in Tasking, a, b \in Attempt :
        /\ a # b /\ f[a].id = f[b].id
        /\ f[a].op \in Snaps /\ f[b].op \in Snaps
        => /\ f[a].svc = f[b].svc
           /\ f[a].op = "create" /\ f[b].op = "create" => ~f[a].svc

Creating(a) == Op(a) = "create"
Restoring(a) == Op(a) = "restore"
Copies(a) == pc[a] \in {"copy", "copying"}

\* Which operation can be at a label...
LabelsFit(a) ==
    /\ pc[a] \in (InTry \ {"copy", "copying"}) \cup {"mkdir", "drop", "finally"} => Creating(a)
    /\ Copies(a) => Creating(a) \/ Restoring(a)
    /\ pc[a] = "check" => Op(a) \in Snaps
    /\ pc[a] = "sweep" <=> Op(a) = "delete" /\ pc[a] \notin Ended \cup {"idle", "check"}
    /\ pc[a] \in {"dropall", "storage", "artifacts", "forget"} => Op(a) = "destroy"
    /\ pc[a] = "undefine" => Restoring(a) \/ Op(a) = "destroy"
    /\ pc[a] \in {"prepare", "disk", "seed"} => Op(a) = "provision"
    /\ pc[a] \in {"save", "write", "install", "apply", "applying"}
         => Restoring(a) \/ Op(a) = "provision"
    /\ pc[a] \in {"save", "write"} /\ Restoring(a) => ~Svc(a)
    /\ pc[a] \in {"meta", "writing", "halt"} => ~Svc(a)
    /\ pc[a] = "halt" => Restoring(a)
    /\ pc[a] = "boot" => Op(a) = "start" \/ Restoring(a)

\* ...and what it then has in its memory.
Memory(a) ==
    /\ pc[a] = "copying" => part[a] <= Len(Order(a))
    /\ pc[a] \in {"idle", "check", "lock", "mkdir", "stop", "stopping", "dropall", "undefine"}
         => part[a] = 1
    /\ err[a] = "none" \/ pc[a] \in {"drop", "finally", "unlock"} \cup Ended
    /\ pc[a] = "drop" => err[a] # "none"
    /\ ran[a] # "no" => Creating(a)
    /\ ran[a] = "yes" =>
         pc[a] \in (InTry \ {"stop", "stopping"}) \cup {"drop", "finally", "unlock"}
    /\ ran[a] = "waiting" => \/ pc[a] = "stopping"
                             \/ pc[a] \in {"finally", "unlock"} /\ err[a] = "interrupted"
    /\ pc[a] = "stopping" => ran[a] = "waiting"
    /\ seen[a] # NoFile => Restoring(a)
    /\ Restoring(a) /\ pc[a] \in Held \cup {"lock"} => seen[a] # NoFile

\* A key pair has been generated before a disk is made for it.
Keyed(a) ==
    Op(a) = "provision" /\ pc[a] \in {"save", "write", "disk", "seed"} => vm["local"] # NoFile

Base == /\ TypeOK
        /\ \A i \in Id : snap[i]["meta"] \in {NoFile, Torn, Whole}
        /\ \A a \in Attempt : LabelsFit(a) /\ Memory(a) /\ Keyed(a)

\* Keys: every disk there is was built with the present key pair.
OneKey(f) == /\ f["disk"] \in DiskData => f["disk"].key \in {keys, Torn}
             /\ f["local"] \in {NoFile, Torn, keys}
KeyInv ==
    /\ OneKey(vm) /\ \A i \in Id : OneKey(snap[i])
    /\ vm["local"] = NoFile =>
         /\ vm["disk"] = NoFile
         /\ \A i \in Id : snap[i]["disk"] = NoFile /\ snap[i]["local"] = NoFile
    /\ \A a \in Attempt : Op(a) = "destroy" =>
         /\ pc[a] \in {"undefine", "storage", "artifacts", "forget"}
              => \A i \in Id : snap[i] = Empty
         /\ pc[a] \in {"artifacts", "forget"} => vm["disk"] = NoFile

\* A create works in a directory that no listed snapshot has.
Fresh(a) == pc[a] \in {"stop", "stopping", "copy", "copying", "meta"}
NewPoint ==
    \A a \in Attempt : Creating(a) =>
         /\ Fresh(a) => snap[Target(a)]["meta"] = NoFile
         /\ OwnIds /\ pc[a] \notin Ended \cup {"idle"} => record[Target(a)] = NoFile
-----------------------------------------------------------------------------
(* Types, labels and memory. *)
ProcOK ==
    /\ task \in [Attempt -> [op : Ops, svc : BOOLEAN, id : Id]]
    /\ pc \in [Attempt -> PCs]
    /\ err \in [Attempt -> {"none", "raised", "interrupted", "start"}]
    /\ ran \in [Attempt -> {"no", "waiting", "yes"}]
    /\ part \in [Attempt -> 1..6]
    /\ seen = [a \in Attempt |-> seen[a]]
    /\ \A a \in Attempt : seen[a] \in {NoFile} \cup (IF Svc(a) THEN Metadata
                                                  ELSE {Torn, Whole})
    /\ lock \in {None} \cup Attempt
    /\ \A a \in Attempt : lock = a <=> pc[a] \in Held
FilesOK ==
    /\ domain \in {"none", "off", "running"}
    /\ AreFiles(vm, Parts)
    /\ dir \subseteq Id
    /\ snap = [i \in Id |-> snap[i]]
    /\ \A i \in Id : AreFiles(snap[i], Files) /\ snap[i]["meta"] \in {NoFile, Torn, Whole}
    /\ \A i \in Id \ dir : snap[i] = Empty
    /\ record \in [Id -> {NoFile} \cup Metadata]
    /\ keys \in Nat /\ writes \in Nat

\* The base invariant in its parts: what processes have, and what there is on disk.
LEMMA BaseParts ==
    Base <=> ProcOK /\ FilesOK /\ \A a \in Attempt : LabelsFit(a) /\ Memory(a) /\ Keyed(a)
  BY DEF Base, TypeOK, ProcOK, FilesOK

\* A step of an attempt is about its own process...
Own(a) == /\ task' = task
          /\ pc' = [pc EXCEPT ![a] = pc'[a]]
          /\ err' = [err EXCEPT ![a] = err'[a]]
          /\ ran' = [ran EXCEPT ![a] = ran'[a]]
          /\ part' = [part EXCEPT ![a] = part'[a]]
          /\ seen' = [seen EXCEPT ![a] = seen'[a]]
\* ...and takes or gives up the lock as its label says.
Locking(a) == \/ lock' = lock /\ (pc[a] \in Held <=> pc'[a] \in Held)
              \/ lock = None /\ lock' = a /\ pc'[a] \in Held
              \/ lock = a /\ lock' = None /\ pc'[a] \notin Held
OwnOK(a) == /\ pc'[a] \in PCs /\ err'[a] \in {"none", "raised", "interrupted", "start"}
            /\ ran'[a] \in {"no", "waiting", "yes"} /\ part'[a] \in 1..6
            /\ seen'[a] \in {NoFile} \cup (IF Svc(a) THEN Metadata ELSE {Torn, Whole})

\* A step that changes only what its own process has keeps the kinds of all.
LEMMA OwnProc ==
  ASSUME ProcOK, NEW a \in Attempt, Own(a), OwnOK(a), Locking(a)
  PROVE  ProcOK'
<1>1. lock' \in {None} \cup Attempt /\ \A b \in Attempt : lock' = b <=> pc'[b] \in Held
  BY ValueAssumption DEF ProcOK, Own, Locking
<1>2. \A b \in Attempt : seen'[b] \in {NoFile} \cup (IF Svc(b)' THEN Metadata ELSE {Torn, Whole})
  BY DEF ProcOK, Own, OwnOK, Svc
<1>3. /\ pc' \in [Attempt -> PCs] /\ err' \in [Attempt -> {"none", "raised", "interrupted", "start"}]
      /\ ran' \in [Attempt -> {"no", "waiting", "yes"}] /\ part' \in [Attempt -> 1..6]
      /\ seen' = [b \in Attempt |-> seen'[b]] /\ task' = task
  BY DEF ProcOK, Own, OwnOK
<1>. QED
  BY <1>1, <1>2, <1>3 DEF ProcOK

Asks(a) == \/ Begin(a) \/ CheckCreate(a) \/ CheckRestore(a) \/ CheckDelete(a)
           \/ FindBusy(a)
Locks(a) == TakeLock(a) \/ Unlock(a)
Takes(a) == \/ MakeDirectory(a) \/ Stop(a) \/ Stopped(a)
            \/ OpenMetadata(a) \/ WriteMetadata(a) \/ ChangeOwner(a)
Moves(a) == \/ SkipPart(a) \/ PartMissing(a) \/ CopyStarts(a) \/ CopyEnds(a)
            \/ CopyImpossible(a) \/ PartsCopied(a)
Sweeps(a) == RemoveFile(a) \/ RemoveDirectory(a)
Removes(a) == Undefine(a) \/ RemoveStorage(a) \/ RemoveArtifacts(a) \/ Forget(a)
Builds(a) == \/ Prepare(a) \/ ConfigUnreadable(a) \/ OpenState(a) \/ WriteState(a)
             \/ MakeDisk(a) \/ MakeSeed(a) \/ Install(a) \/ InstallRaises(a)
Runs(a) == Halt(a) \/ Boot(a) \/ BootFails(a) \/ NothingToRestart(a)
Stops(a) == Fails(a) \/ Interrupt(a) \/ Crash(a)
Steps(a) == \/ Asks(a) \/ Locks(a) \/ Takes(a) \/ Moves(a) \/ Sweeps(a)
            \/ Removes(a) \/ Builds(a) \/ Runs(a) \/ Stops(a)

\* What there is to copy, in order.
LEMMA OrderLength ==
  ASSUME NEW a \in Attempt
  PROVE  Len(Order(a)) \in Nat /\ Len(Order(a)) <= 5
  BY DEF Order

\* The disk is copied first; a service copies three parts, the CLI five.
LEMMA OrderParts ==
  ASSUME NEW a \in Attempt
  PROVE  /\ Len(Order(a)) = IF Svc(a) THEN 3 ELSE 5
         /\ part[a] = 1 => Part(a) = "disk"
         /\ part[a] \in 2..Len(Order(a)) => Part(a) \in Parts \ {"disk"}
         /\ Svc(a) /\ part[a] \in 1..3 => Part(a) \in {"disk", "seed", "local"}
  BY DEF Order, Part, Parts

\* Every step changes only its own process's label and memory, moves the lock with the label,
\* and leaves the process where its operation can be, with what it can then remember.
LEMMA OwnStep ==
  ASSUME Base, NEW a \in Attempt, Steps(a)
  PROVE  Own(a) /\ OwnOK(a) /\ Locking(a) /\ LabelsFit(a)' /\ Memory(a)'
<1>0. ProcOK /\ FilesOK /\ LabelsFit(a) /\ Memory(a)
  BY BaseParts
<1>. USE DEF Op, Svc, Target, Creating, Restoring, Copies, Goto, Advance, Raise, Handler,
             still, quiet, host, Held, InTry, Ended, Snaps, Exit
<1>1. CASE Asks(a)
  <2>. USE <1>0, <1>1 DEF Asks, Begin, CheckCreate, CheckRestore, CheckDelete, FindBusy,
  Accepts
  <2>1. Own(a)
    BY DEF Own, ProcOK
  <2>2. OwnOK(a)
    BY DEF OwnOK, ProcOK, PCs, Ops, FilesOK, AreFiles, Files, Images, Whole
  <2>3. Locking(a)
    BY ValueAssumption DEF Locking, ProcOK, LabelsFit, Ops
  <2>4. LabelsFit(a)'
    BY DEF LabelsFit, ProcOK, Ops
  <2>5. Memory(a)'
    BY DEF Memory, ProcOK, Order, LabelsFit, Ops
  <2>. QED
    BY <2>1, <2>2, <2>3, <2>4, <2>5
<1>2. CASE Locks(a)
  <2>. USE <1>0, <1>2 DEF Locks, TakeLock, Unlock, Entry
  <2>1. Own(a)
    BY DEF Own, ProcOK
  <2>2. OwnOK(a)
    <3>1. pc'[a] \in PCs
      BY DEF PCs, ProcOK, LabelsFit, Ops
    <3>2. err'[a] \in {"none", "raised", "interrupted", "start"}
      BY DEF ProcOK
    <3>4. ran'[a] \in {"no", "waiting", "yes"}
      BY DEF ProcOK
    <3>5. part'[a] \in 1..6
      BY DEF ProcOK
    <3>3. seen'[a] \in {NoFile} \cup (IF Svc(a) THEN Metadata ELSE {Torn, Whole})
      BY DEF ProcOK
    <3>. QED
      BY <3>1, <3>2, <3>3, <3>4, <3>5 DEF OwnOK
  <2>3. Locking(a)
    BY ValueAssumption DEF Locking, ProcOK, LabelsFit, Ops
  <2>4. LabelsFit(a)'
    BY DEF LabelsFit, ProcOK, Ops
  <2>5. Memory(a)'
    BY DEF Memory, ProcOK, Order, LabelsFit, Ops
  <2>. QED
    BY <2>1, <2>2, <2>3, <2>4, <2>5
<1>3. CASE Takes(a)
  <2>. USE <1>0, <1>3 DEF Takes, MakeDirectory, Stop, Stopped, OpenMetadata,
  WriteMetadata, ChangeOwner
  <2>1. Own(a)
    BY DEF Own, ProcOK
  <2>2. OwnOK(a)
    <3>1. pc'[a] \in PCs
      BY DEF PCs, ProcOK, LabelsFit, Ops
    <3>2. err'[a] \in {"none", "raised", "interrupted", "start"}
      BY DEF ProcOK
    <3>4. ran'[a] \in {"no", "waiting", "yes"}
      BY DEF ProcOK
    <3>5. part'[a] \in 1..6
      BY DEF ProcOK
    <3>3. seen'[a] \in {NoFile} \cup (IF Svc(a) THEN Metadata ELSE {Torn, Whole})
      BY DEF ProcOK
    <3>. QED
      BY <3>1, <3>2, <3>3, <3>4, <3>5 DEF OwnOK
  <2>3. Locking(a)
    BY ValueAssumption DEF Locking, ProcOK, LabelsFit, Ops
  <2>4. LabelsFit(a)'
    BY DEF LabelsFit, ProcOK, Ops
  <2>5. Memory(a)'
    BY DEF Memory, ProcOK, Order, LabelsFit, Ops
  <2>. QED
    BY <2>1, <2>2, <2>3, <2>4, <2>5
<1>4. CASE Moves(a)
  <2>. USE <1>0, <1>4 DEF Moves, SkipPart, PartMissing, CopyStarts, CopyEnds,
  CopyImpossible, PartsCopied, Copying
  <2>1. Own(a)
    BY DEF Own, ProcOK
  <2>2. OwnOK(a)
    <3>1. pc'[a] \in PCs
      BY DEF PCs, ProcOK, LabelsFit, Ops
    <3>2. err'[a] \in {"none", "raised", "interrupted", "start"}
      BY DEF ProcOK
    <3>4. ran'[a] \in {"no", "waiting", "yes"}
      BY DEF ProcOK
    <3>5. part'[a] \in 1..6
      <4>1. part[a] \in 1..6 /\ (part[a] <= Len(Order(a)) \/ part'[a] = part[a])
        BY DEF ProcOK, Memory
      <4>2. part'[a] = part[a] \/ part'[a] = part[a] + 1
        BY DEF ProcOK
      <4>. QED
        BY <4>1, <4>2, OrderLength
    <3>3. seen'[a] \in {NoFile} \cup (IF Svc(a) THEN Metadata ELSE {Torn, Whole})
      BY DEF ProcOK
    <3>. QED
      BY <3>1, <3>2, <3>3, <3>4, <3>5 DEF OwnOK
  <2>3. Locking(a)
    BY ValueAssumption DEF Locking, ProcOK, LabelsFit, Ops
  <2>4. LabelsFit(a)'
    BY DEF LabelsFit, ProcOK, Ops
  <2>5. Memory(a)'
    BY DEF Memory, ProcOK, Order, LabelsFit, Ops
  <2>. QED
    BY <2>1, <2>2, <2>3, <2>4, <2>5
<1>5. CASE Sweeps(a)
  <2>. USE <1>0, <1>5 DEF Sweeps, RemoveFile, RemoveDirectory, AfterSweep
  <2>1. Own(a)
    BY DEF Own, ProcOK
  <2>2. OwnOK(a)
    BY DEF OwnOK, ProcOK, PCs, Ops
  <2>3. Locking(a)
    BY ValueAssumption DEF Locking, ProcOK, LabelsFit, Ops
  <2>4. LabelsFit(a)'
    BY DEF LabelsFit, ProcOK, Ops
  <2>5. Memory(a)'
    BY DEF Memory, ProcOK, Order, LabelsFit, Ops
  <2>. QED
    BY <2>1, <2>2, <2>3, <2>4, <2>5
<1>6. CASE Removes(a)
  <2>. USE <1>0, <1>6 DEF Removes, Undefine, RemoveStorage, RemoveArtifacts, Forget
  <2>1. Own(a)
    BY DEF Own, ProcOK
  <2>2. OwnOK(a)
    BY DEF OwnOK, ProcOK, PCs, Ops
  <2>3. Locking(a)
    BY ValueAssumption DEF Locking, ProcOK, LabelsFit, Ops
  <2>4. LabelsFit(a)'
    BY DEF LabelsFit, ProcOK, Ops
  <2>5. Memory(a)'
    BY DEF Memory, ProcOK, Order, LabelsFit, Ops
  <2>. QED
    BY <2>1, <2>2, <2>3, <2>4, <2>5
<1>7. CASE Builds(a)
  <2>. USE <1>0, <1>7 DEF Builds, Prepare, ConfigUnreadable, OpenState, WriteState,
  MakeDisk, MakeSeed, Install, InstallRaises
  <2>1. Own(a)
    BY DEF Own, ProcOK
  <2>2. OwnOK(a)
    BY DEF OwnOK, ProcOK, PCs, Ops
  <2>3. Locking(a)
    BY ValueAssumption DEF Locking, ProcOK, LabelsFit, Ops
  <2>4. LabelsFit(a)'
    BY DEF LabelsFit, ProcOK, Ops
  <2>5. Memory(a)'
    BY DEF Memory, ProcOK, Order, LabelsFit, Ops
  <2>. QED
    BY <2>1, <2>2, <2>3, <2>4, <2>5
<1>8. CASE Runs(a)
  <2>. USE <1>0, <1>8 DEF Runs, Halt, Boot, BootFails, NothingToRestart, Starting
  <2>1. Own(a)
    BY DEF Own, ProcOK
  <2>2. OwnOK(a)
    BY DEF OwnOK, ProcOK, PCs, Ops
  <2>3. Locking(a)
    BY ValueAssumption DEF Locking, ProcOK, LabelsFit, Ops
  <2>4. LabelsFit(a)'
    BY DEF LabelsFit, ProcOK, Ops
  <2>5. Memory(a)'
    BY DEF Memory, ProcOK, Order, LabelsFit, Ops
  <2>. QED
    BY <2>1, <2>2, <2>3, <2>4, <2>5
<1>9. CASE Stops(a)
  <2>. USE <1>0, <1>9 DEF Stops, Fails, Interrupt, Starting, Crash
  <2>1. Own(a)
    BY DEF Own, ProcOK
  <2>2. OwnOK(a)
    <3>1. pc'[a] \in PCs
      BY DEF PCs, ProcOK, LabelsFit, Ops
    <3>2. err'[a] \in {"none", "raised", "interrupted", "start"}
      BY DEF ProcOK
    <3>4. ran'[a] \in {"no", "waiting", "yes"}
      BY DEF ProcOK
    <3>5. part'[a] \in 1..6
      BY DEF ProcOK
    <3>3. seen'[a] \in {NoFile} \cup (IF Svc(a) THEN Metadata ELSE {Torn, Whole})
      BY DEF ProcOK
    <3>. QED
      BY <3>1, <3>2, <3>3, <3>4, <3>5 DEF OwnOK
  <2>3. Locking(a)
    BY ValueAssumption DEF Locking, ProcOK, LabelsFit, Ops
  <2>4. LabelsFit(a)'
    BY DEF LabelsFit, ProcOK, Ops
  <2>5. Memory(a)'
    BY DEF Memory, ProcOK, Order, LabelsFit, Ops
  <2>. QED
    BY <2>1, <2>2, <2>3, <2>4, <2>5
<1>. QED
  BY <1>1, <1>2, <1>3, <1>4, <1>5, <1>6, <1>7, <1>8, <1>9 DEF Steps
-----------------------------------------------------------------------------
(* Files. *)
Fits(p, x) == IF p = "disk" THEN x \in {NoFile, Torn} \cup DiskData
              ELSE IF p = "meta" THEN x \in {NoFile, Torn, Whole} ELSE x \in Value
SnapsOK == /\ dir \subseteq Id
           /\ snap = [i \in Id |-> snap[i]]
           /\ \A i \in Id : AreFiles(snap[i], Files) /\ snap[i]["meta"] \in {NoFile, Torn, Whole}
           /\ \A i \in Id \ dir : snap[i] = Empty

\* Writing one file of a set keeps the others, and the kinds of all.
LEMMA PutFile ==
  ASSUME NEW f, NEW F \in {Parts, Files}, AreFiles(f, F), NEW p \in F, NEW x, Fits(p, x)
  PROVE  /\ AreFiles([f EXCEPT ![p] = x], F)
         /\ [f EXCEPT ![p] = x][p] = x
         /\ \A q \in F \ {p} : [f EXCEPT ![p] = x][q] = f[q]
<1>. DEFINE g == [f EXCEPT ![p] = x]
<1>1. f = [q \in F |-> f[q]]
  BY DEF AreFiles
<1>2. g = [q \in F |-> IF q = p THEN x ELSE f[q]]
  BY <1>1
<1>3. {"disk"} \subseteq F
  BY DEF Parts, Files
<1>. QED
  BY <1>2, <1>3 DEF AreFiles, Fits, Value, Whole

\* The same for a file of the VM...
LEMMA PutVm ==
  ASSUME AreFiles(vm, Parts), NEW p \in Parts, NEW x, Fits(p, x), vm' = [vm EXCEPT ![p] = x]
  PROVE  AreFiles(vm, Parts)' /\ vm'[p] = x /\ \A q \in Parts \ {p} : vm'[q] = vm[q]
<1>1. AreFiles(vm', Parts)
  BY PutFile
<1>2. AreFiles(vm, Parts)'
  BY <1>1 DEF AreFiles
<1>. QED
  BY <1>2, PutFile

\* ...and for one of a snapshot that has a directory.
LEMMA PutSnap ==
  ASSUME SnapsOK, NEW i \in Id, NEW p \in Files, NEW x, Fits(p, x), x = NoFile \/ i \in dir',
         snap' = [snap EXCEPT ![i][p] = x], dir \subseteq dir', dir' \subseteq Id
  PROVE  /\ SnapsOK' /\ snap'[i][p] = x
         /\ \A q \in Files \ {p} : snap'[i][q] = snap[i][q]
         /\ \A j \in Id \ {i} : snap'[j] = snap[j]
<1>1. snap'[i] = [snap[i] EXCEPT ![p] = x] /\ \A j \in Id \ {i} : snap'[j] = snap[j]
  BY DEF SnapsOK
<1>2. snap' = [j \in Id |-> snap'[j]]
  BY DEF SnapsOK
<1>3. /\ AreFiles(snap'[i], Files) /\ snap'[i][p] = x
      /\ \A q \in Files \ {p} : snap'[i][q] = snap[i][q]
  <2>. DEFINE f == snap[i]
  <2>1. AreFiles(f, Files)
    BY DEF SnapsOK
  <2>. HIDE DEF f
  <2>2. /\ AreFiles([f EXCEPT ![p] = x], Files) /\ [f EXCEPT ![p] = x][p] = x
        /\ \A q \in Files \ {p} : [f EXCEPT ![p] = x][q] = f[q]
    BY <2>1, PutFile
  <2>. QED
    BY <2>2, <1>1 DEF f
<1>4. snap'[i]["meta"] \in {NoFile, Torn, Whole}
  <2>1. CASE p = "meta"
    BY <2>1, <1>3 DEF Fits
  <2>2. CASE p # "meta"
    BY <2>2, <1>3 DEF SnapsOK, Files
  <2>. QED
    BY <2>1, <2>2
<1>5. \A j \in Id : AreFiles(snap[j], Files)' /\ snap'[j]["meta"] \in {NoFile, Torn, Whole}
  BY <1>1, <1>3, <1>4 DEF SnapsOK, AreFiles
<1>6. ASSUME i \notin dir'
      PROVE  snap'[i] = Empty
  <2>1. x = NoFile /\ snap[i] = Empty
    BY <1>6 DEF SnapsOK
  <2>. QED
    BY <2>1, <1>1 DEF Empty
<1>7. \A j \in Id \ dir' : snap'[j] = Empty
  BY <1>1, <1>6 DEF SnapsOK
<1>. QED
  BY <1>1, <1>2, <1>3, <1>5, <1>7 DEF SnapsOK
\* Steps keep files what they are.
VmOK == domain \in {"none", "off", "running"} /\ AreFiles(vm, Parts)
                    /\ keys \in Nat /\ writes \in Nat
RecordOK == record \in [Id -> {NoFile} \cup Metadata]

\* What there is on disk, in its parts.
LEMMA FilesParts == FilesOK <=> SnapsOK /\ VmOK /\ RecordOK
  BY DEF FilesOK, SnapsOK, VmOK, RecordOK

\* What is copied is of the kind of the file it is copied to.
LEMMA SourceFits ==
  ASSUME SnapsOK, VmOK, NEW a \in Attempt, Target(a) \in Id, NEW p \in Parts
  PROVE  Fits(p, Source(a, p))
  BY DEF SnapsOK, VmOK, AreFiles, Source, Fits, Parts, Files

\* What is being copied is a part.
LEMMA PartType ==
  ASSUME ProcOK, NEW a \in Attempt, Copying(a) \/ (Memory(a) /\ pc[a] = "copying")
  PROVE  Part(a) \in Parts
<1>1. part[a] \in 1..6 /\ part[a] <= Len(Order(a))
  BY DEF ProcOK, Copying, Memory
<1>. QED
  BY <1>1 DEF Order, Part, Parts

\* A copy keeps the kinds of all files, of the VM and of the snapshot.
LEMMA PutType ==
  ASSUME SnapsOK, VmOK, NEW a \in Attempt, Target(a) \in Id, NEW p \in Parts, NEW x, Fits(p, x),
         Put(a, p, x), dir \subseteq dir', dir' \subseteq Id,
         Creating(a) => x = NoFile \/ Target(a) \in dir', UNCHANGED <<domain, keys, writes>>
  PROVE  SnapsOK' /\ VmOK'
<1>1. CASE Creating(a)
  <2>1. snap' = [snap EXCEPT ![Target(a)][p] = x] /\ vm' = vm
    BY <1>1 DEF Put, Creating
  <2>2. SnapsOK'
    BY <2>1, <1>1, PutSnap DEF Files
  <2>. QED
    BY <2>1, <2>2 DEF VmOK, AreFiles
<1>2. CASE ~Creating(a)
  <2>1. vm' = [vm EXCEPT ![p] = x] /\ snap' = snap
    BY <1>2 DEF Put, Creating
  <2>2. AreFiles(vm, Parts)'
    BY <2>1, PutVm DEF VmOK
  <2>. QED
    BY <2>1, <2>2 DEF SnapsOK, VmOK, AreFiles
<1>. QED
  BY <1>1, <1>2

\* Copying keeps the kinds of files...
LEMMA MoveFiles ==
  ASSUME Base, NEW a \in Attempt, Moves(a)
  PROVE  SnapsOK' /\ VmOK' /\ RecordOK'
<1>0. ProcOK /\ SnapsOK /\ VmOK /\ RecordOK /\ LabelsFit(a) /\ Memory(a) /\ Target(a) \in Id
  BY BaseParts, FilesParts DEF ProcOK, Target
<1>1. CASE SkipPart(a) \/ CopyImpossible(a) \/ PartsCopied(a)
  BY <1>0, <1>1 DEF SkipPart, CopyImpossible, PartsCopied, host, points, counts, SnapsOK,
       VmOK, RecordOK, AreFiles
<1>2. CASE PartMissing(a)
  <2>1. Part(a) \in Parts /\ Fits(Part(a), NoFile)
    BY <1>0, <1>2, PartType DEF PartMissing, Fits, Value
  <2>2. UNCHANGED <<domain, dir, record, keys, writes>> /\ dir \subseteq Id
    BY <1>0, <1>2 DEF PartMissing, counts, SnapsOK
  <2>3. Put(a, Part(a), NoFile) \/ UNCHANGED <<vm, snap>>
    BY <1>2 DEF PartMissing
  <2>. QED
    BY <2>1, <2>2, <2>3, <1>0, PutType DEF SnapsOK, VmOK, RecordOK, AreFiles
<1>3. CASE CopyStarts(a)
  <2>1. Part(a) \in Parts /\ Fits(Part(a), NoFile) /\ Fits(Part(a), Torn)
    BY <1>0, <1>3, PartType DEF CopyStarts, Fits, Value
  <2>2. /\ UNCHANGED <<domain, record, keys, writes>>
        /\ dir \subseteq dir' /\ dir' \subseteq Id
        /\ Creating(a) => Target(a) \in dir'
    BY <1>0, <1>3 DEF CopyStarts, Opened, counts, SnapsOK, Creating
  <2>3. \E x \in {Torn, NoFile} : Put(a, Part(a), x)
    BY <1>3 DEF CopyStarts
  <2>. QED
    BY <2>1, <2>2, <2>3, <1>0, PutType DEF RecordOK
<1>4. CASE CopyEnds(a)
  <2>. DEFINE p == Part(a)
              x == Arrives(a, Source(a, p))
  <2>1. p \in Parts
    BY <1>0, <1>4, PartType DEF CopyEnds
  <2>2. Fits(p, x)
    BY <2>1, <1>0, SourceFits DEF Arrives, Fits, Value
  <2>3. UNCHANGED <<domain, dir, record, keys, writes>> /\ dir \subseteq Id /\ Put(a, p, x)
    BY <1>0, <1>4 DEF CopyEnds, counts, SnapsOK
  <2>4. Creating(a) => x = NoFile \/ Target(a) \in dir'
    BY <1>0, <2>1, <2>3 DEF Arrives, SnapsOK, Empty, Creating, Files
  <2>. QED
    BY <2>1, <2>2, <2>3, <2>4, <1>0, PutType DEF RecordOK
<1>. QED
  BY <1>1, <1>2, <1>3, <1>4 DEF Moves

\* ...taking and removing snapshots does...
LEMMA SnapFiles ==
  ASSUME Base, NEW a \in Attempt, Takes(a) \/ Sweeps(a)
  PROVE  SnapsOK' /\ VmOK' /\ RecordOK'
<1>0. ProcOK /\ SnapsOK /\ VmOK /\ RecordOK /\ LabelsFit(a) /\ Memory(a) /\ Target(a) \in Id
  BY BaseParts, FilesParts DEF ProcOK, Target
<1>. USE DEF points, host, counts
<1>1. CASE MakeDirectory(a)
  BY <1>0, <1>1 DEF MakeDirectory, SnapsOK, VmOK, RecordOK, AreFiles
<1>2. CASE Stop(a) \/ Stopped(a) \/ ChangeOwner(a)
  BY <1>0, <1>2 DEF Stop, Stopped, ChangeOwner, SnapsOK, VmOK, RecordOK, AreFiles
<1>3. CASE OpenMetadata(a) \/ WriteMetadata(a)
  <2>1. UNCHANGED <<domain, vm, dir, record, keys, writes>>
    BY <1>3 DEF OpenMetadata, WriteMetadata
  <2>2. /\ "meta" \in Files /\ Fits("meta", Torn) /\ Fits("meta", Whole) /\ Fits("meta", NoFile)
        /\ dir \subseteq Id
    BY <1>0 DEF Files, Fits, SnapsOK
  <2>3. \/ snap' = snap
        \/ /\ \E x \in {Torn, Whole, NoFile} : /\ snap' = [snap EXCEPT ![Target(a)]["meta"] = x]
                                               /\ x = NoFile \/ Target(a) \in dir
    <3>1. CASE OpenMetadata(a)
      BY <3>1 DEF OpenMetadata
    <3>2. CASE WriteMetadata(a)
      <4>1. snap' = [snap EXCEPT ![Target(a)]["meta"] =
                       IF snap[Target(a)]["meta"] = NoFile THEN NoFile ELSE Whole]
        BY <3>2, <1>0 DEF WriteMetadata, SnapsOK, AreFiles, Files
      <4>2. snap[Target(a)]["meta"] = NoFile \/ Target(a) \in dir
        BY <1>0 DEF SnapsOK, Empty, Files
      <4>. QED
        BY <4>1, <4>2
    <3>. QED
      BY <3>1, <3>2, <1>3
  <2>. QED
    BY <2>1, <2>2, <2>3, <1>0, PutSnap DEF SnapsOK, VmOK, RecordOK, AreFiles
<1>4. CASE RemoveFile(a)
  <2>1. UNCHANGED <<domain, vm, dir, record, keys, writes>> /\ dir \subseteq Id
    BY <1>4, <1>0 DEF RemoveFile, SnapsOK
  <2>2. PICK i \in Doomed(a), f \in Files : snap' = [snap EXCEPT ![i][f] = NoFile]
    BY <1>4 DEF RemoveFile
  <2>3. i \in Id /\ Fits(f, NoFile)
    BY <1>0, <2>1 DEF Doomed, Fits, Value
  <2>. QED
    BY <2>1, <2>2, <2>3, <1>0, PutSnap DEF VmOK, RecordOK, AreFiles
<1>5. CASE RemoveDirectory(a)
  BY <1>0, <1>5 DEF RemoveDirectory, SnapsOK, VmOK, RecordOK, AreFiles
<1>. QED
  BY <1>1, <1>2, <1>3, <1>4, <1>5 DEF Takes, Sweeps

\* ...defining, building and undefining the VM does...
LEMMA VmFiles ==
  ASSUME Base, NEW a \in Attempt, Removes(a) \/ Builds(a) \/ Runs(a)
  PROVE  SnapsOK' /\ VmOK' /\ RecordOK'
<1>0. ProcOK /\ SnapsOK /\ VmOK /\ RecordOK /\ LabelsFit(a) /\ Memory(a) /\ Keyed(a)
  BY BaseParts, FilesParts
<1>1. UNCHANGED points
  BY DEF Removes, Undefine, RemoveStorage, RemoveArtifacts, Forget, Builds, Prepare,
       ConfigUnreadable, OpenState, WriteState, MakeDisk, MakeSeed, Install,
       InstallRaises, Runs, Halt, Boot, BootFails, NothingToRestart, host
<1>2. SnapsOK' /\ RecordOK'
  BY <1>0, <1>1 DEF SnapsOK, RecordOK, points, AreFiles
<1>3. VmOK'
  <2>. USE DEF VmOK, AreFiles, Parts, Value, counts, Whole
  <2>1. CASE Removes(a)
    BY <2>1, <1>0 DEF Removes, Undefine, RemoveStorage, RemoveArtifacts, Forget
  <2>2. CASE Prepare(a) \/ MakeSeed(a)
    BY <2>2, <1>0 DEF Prepare, MakeSeed
  <2>3. CASE MakeDisk(a)
    BY <2>3, <1>0 DEF MakeDisk, Keyed, LabelsFit, DiskData
  <2>4. CASE OpenState(a) \/ WriteState(a)
    BY <2>4, <1>0 DEF OpenState, WriteState
  <2>5. CASE Install(a) \/ InstallRaises(a) \/ ConfigUnreadable(a) \/ Runs(a)
    BY <2>5, <1>0 DEF ConfigUnreadable, Install, InstallRaises, Runs, Halt, Boot,
         BootFails, NothingToRestart, host
  <2>. QED
    BY <2>1, <2>2, <2>3, <2>4, <2>5 DEF Builds
<1>. QED
  BY <1>2, <1>3

\* ...and the other steps write no file.
LEMMA ProcFiles ==
  ASSUME Base, NEW a \in Attempt, Asks(a) \/ Locks(a) \/ Stops(a)
  PROVE  SnapsOK' /\ VmOK' /\ RecordOK'
<1>0. ProcOK /\ SnapsOK /\ VmOK /\ RecordOK
  BY BaseParts, FilesParts
<1>1. UNCHANGED <<domain, vm, dir, snap, keys, writes>>
  BY DEF Asks, Begin, CheckCreate, CheckRestore, CheckDelete, FindBusy, Locks, TakeLock,
       Unlock, Stops, Fails, Interrupt, Crash, host, points, counts
<1>2. RecordOK'
  <2>1. CASE CheckDelete(a)
    BY <2>1, <1>0 DEF CheckDelete, RecordOK
  <2>2. CASE Unlock(a)
    <3>1. [ran |-> ran[a] = "yes", parts |-> {p \in Parts : snap[Target(a)][p] # NoFile}] \in Metadata
      BY <1>0 DEF ProcOK, Metadata
    <3>. QED
      BY <3>1, <2>2, <1>0 DEF Unlock, RecordOK
  <2>3. CASE ~(CheckDelete(a) \/ Unlock(a))
    BY <2>3, <1>0 DEF Asks, Begin, CheckCreate, CheckRestore, FindBusy, Locks, TakeLock,
         Stops, Fails, Interrupt, Crash, host, points, RecordOK
  <2>. QED
    BY <2>1, <2>2, <2>3
<1>. QED
  BY <1>0, <1>1, <1>2 DEF SnapsOK, VmOK, AreFiles
-----------------------------------------------------------------------------
(* The invariant on types, labels and memory. *)
LEMMA Alone ==
  ASSUME ProcOK, NEW a \in Attempt, pc[a] \in Held, NEW b \in Attempt, pc[b] \in Held
  PROVE  a = b
  BY DEF ProcOK

\* Nothing takes the key pair from a provisioning that has prepared it.
LEMMA KeyedStep ==
  ASSUME Base, NEW a \in Attempt, Steps(a), NEW b \in Attempt
  PROVE  Keyed(b)'
<1>0. ProcOK /\ VmOK /\ LabelsFit(a) /\ Keyed(a) /\ Keyed(b) /\ Own(a)
  BY BaseParts, FilesParts, OwnStep
<1>1. \/ vm["local"] # NoFile => vm'["local"] # NoFile
      \/ RemoveArtifacts(a)
  <2>1. CASE Asks(a) \/ Locks(a) \/ Stops(a) \/ Takes(a) \/ Sweeps(a) \/ Runs(a)
    <3>1. UNCHANGED vm
      BY <2>1 DEF Asks, Begin, CheckCreate, CheckRestore, CheckDelete, FindBusy, Locks,
           TakeLock, Unlock, Stops, Fails, Interrupt, Crash, Takes, MakeDirectory, Stop,
           Stopped, OpenMetadata, WriteMetadata, ChangeOwner, Sweeps, RemoveFile,
           RemoveDirectory, Runs, Halt, Boot, BootFails, NothingToRestart, host, points,
           counts
    <3>. QED
      BY <3>1
  <2>2. CASE Moves(a)
    <3>1. \/ UNCHANGED vm
          \/ /\ Part(a) \in Parts
             /\ \E x : vm' = [vm EXCEPT ![Part(a)] = x] /\ (x # NoFile \/ Part(a) \in Images)
      <4>1. CASE SkipPart(a) \/ CopyImpossible(a) \/ PartsCopied(a)
        BY <4>1 DEF SkipPart, CopyImpossible, PartsCopied, host
      <4>2. CASE PartMissing(a)
        BY <4>2, <1>0, PartType DEF PartMissing, Put
      <4>3. CASE CopyStarts(a)
        BY <4>3, <1>0, PartType, ValueAssumption DEF CopyStarts, Put
      <4>4. CASE CopyEnds(a)
        BY <4>4, <1>0, PartType, BaseParts DEF CopyEnds, Put, Arrives
      <4>. QED
        BY <2>2, <4>1, <4>2, <4>3, <4>4 DEF Moves
    <3>. QED
      BY <3>1, <1>0 DEF VmOK, AreFiles, Images, Parts
  <2>3. CASE Undefine(a) \/ RemoveStorage(a) \/ Forget(a)
    BY <2>3, <1>0 DEF Undefine, RemoveStorage, Forget, VmOK, AreFiles, Parts
  <2>4. CASE Builds(a)
    BY <2>4, <1>0, ValueAssumption DEF Builds, Prepare, ConfigUnreadable, OpenState,
         WriteState, MakeDisk, MakeSeed, Install, InstallRaises, host, VmOK, AreFiles,
         Parts
  <2>. QED
    BY <2>1, <2>2, <2>3, <2>4 DEF Steps, Removes
<1>2. CASE RemoveArtifacts(a)
  <2>1. pc[a] \in Held /\ Op(a) = "destroy"
    BY <1>2, <1>0 DEF RemoveArtifacts, LabelsFit, Held
  <2>2. b # a => pc'[b] \notin Held
    BY <2>1, <1>0, Alone DEF Own, ProcOK
  <2>. QED
    BY <2>1, <2>2, <1>0 DEF Keyed, Own, Held, Op
<1>3. CASE ~RemoveArtifacts(a) /\ b # a
  BY <1>3, <1>1, <1>0 DEF Keyed, Own, Op, ProcOK
<1>4. CASE b = a
  <2>. USE <1>0 DEF Keyed, Own, ProcOK, Op, Goto, Advance, Raise, Handler, LabelsFit,
           Creating, Restoring, Copies, InTry
  <2>1. CASE Builds(a)
    <3>1. CASE Prepare(a)
      <4>1. keys + 1 \in Nat
        BY <1>0 DEF VmOK
      <4>2. keys + 1 # NoFile
        BY ONLY <4>1, ValueAssumption
      <4>3. vm'["local"] # NoFile
        BY <4>2, <3>1 DEF Prepare, VmOK, AreFiles, Parts
      <4>. QED
        BY <4>3, <1>4 DEF Keyed
    <3>2. CASE ConfigUnreadable(a) \/ OpenState(a) \/ InstallRaises(a) \/ Install(a)
      BY <3>2, <1>1, <1>4 DEF ConfigUnreadable, OpenState, Install, InstallRaises,
           RemoveArtifacts
    <3>3. CASE WriteState(a) \/ MakeDisk(a) \/ MakeSeed(a)
      BY <3>3, <1>1, <1>4 DEF WriteState, MakeDisk, MakeSeed, RemoveArtifacts
    <3>. QED
      BY <2>1, <3>1, <3>2, <3>3 DEF Builds
  <2>2. CASE Asks(a) \/ Locks(a) \/ Takes(a) \/ Sweeps(a)
    BY <2>2, <1>4 DEF Asks, Begin, CheckCreate, CheckRestore, CheckDelete, FindBusy,
         Locks, TakeLock, Entry, Unlock, Takes, MakeDirectory, Stop, Stopped,
         OpenMetadata, WriteMetadata, ChangeOwner, Sweeps, RemoveFile, RemoveDirectory,
         AfterSweep, Ops
  <2>3. CASE Moves(a) \/ Removes(a) \/ Runs(a) \/ Stops(a)
    BY <2>3, <1>4 DEF Moves, SkipPart, PartMissing, CopyStarts, CopyEnds, CopyImpossible,
         PartsCopied, Removes, Undefine, RemoveStorage, RemoveArtifacts, Forget, Runs,
         Halt, Boot, BootFails, NothingToRestart, Stops, Fails, Interrupt, Crash
  <2>. QED
    BY <2>1, <2>2, <2>3 DEF Steps
<1>. QED
  BY <1>2, <1>3, <1>4

\* Every step of an attempt keeps the base invariant.
LEMMA BaseStep ==
  ASSUME Base, NEW a \in Attempt, Steps(a)
  PROVE  Base'
<1>1. ProcOK'
  BY OwnStep, OwnProc, BaseParts
<1>2. SnapsOK' /\ VmOK' /\ RecordOK'
  BY MoveFiles, SnapFiles, VmFiles, ProcFiles DEF Steps
<1>3. ASSUME NEW b \in Attempt
      PROVE  (LabelsFit(b) /\ Memory(b))'
  <2>1. CASE b = a
    BY <2>1, OwnStep
  <2>2. CASE b # a
    BY <2>2, OwnStep, BaseParts DEF Own, ProcOK, LabelsFit, Memory, Copies, Creating,
       Restoring, Op, Svc, Order
  <2>. QED
    BY <2>1, <2>2
<1>4. FilesOK'
  BY <1>2 DEF FilesOK, SnapsOK, VmOK, RecordOK
<1>. QED
  BY <1>1, <1>3, <1>4, KeyedStep DEF Base, TypeOK, ProcOK, FilesOK

\* The guest's disk is written to, and nothing else.
LEMMA GuestStep ==
  ASSUME Base, GuestWrites
  PROVE  /\ Base' /\ UNCHANGED <<quiet, pc, err, domain, points, keys>>
         /\ vm'["disk"] = [key |-> vm["disk"].key, ver |-> writes + 1]
         /\ vm["disk"] \in DiskData /\ vm'["disk"] \in DiskData /\ domain = "running"
         /\ writes' = writes + 1
         /\ \A p \in Parts \ {"disk"} : vm'[p] = vm[p]
<1>0. ProcOK /\ SnapsOK /\ VmOK /\ RecordOK
  BY BaseParts, FilesParts
<1>. DEFINE x == [key |-> vm["disk"].key, ver |-> writes + 1]
<1>1. /\ UNCHANGED <<quiet, pc, err, domain, points, keys>> /\ vm' = [vm EXCEPT !["disk"] = x]
      /\ writes' = writes + 1 /\ vm["disk"] \in DiskData /\ domain = "running"
  BY DEF GuestWrites
<1>2. x \in DiskData /\ Fits("disk", x) /\ "disk" \in Parts
  BY <1>0, <1>1 DEF DiskData, VmOK, Fits, Parts
<1>3. AreFiles(vm, Parts)' /\ vm'["disk"] = x /\ \A p \in Parts \ {"disk"} : vm'[p] = vm[p]
  BY <1>0, <1>1, <1>2, PutVm DEF VmOK
<1>4. FilesOK'
  BY <1>0, <1>1, <1>3 DEF FilesOK, SnapsOK, VmOK, RecordOK, points, AreFiles
<1>5. ProcOK'
  BY <1>0, <1>1 DEF ProcOK, quiet, Svc
<1>6. \A b \in Attempt : (LabelsFit(b) /\ Memory(b))'
  BY <1>1, BaseParts DEF quiet, LabelsFit, Memory, Copies, Creating, Restoring, Op, Svc,
       Order
<1>7. \A b \in Attempt : Keyed(b)'
  BY <1>1, <1>3, BaseParts DEF quiet, Keyed, Op, Parts
<1>8. Base'
  BY <1>4, <1>5, <1>6, <1>7 DEF Base, TypeOK, ProcOK, FilesOK
<1>. QED
  BY <1>1, <1>2, <1>3, <1>8

\* A step is of the guest or of one attempt.
LEMMA OneStep ==
  ASSUME Base, Next
  PROVE  GuestWrites \/ \E a \in Attempt : Steps(a)
  BY DEF Next, Proceed, Steps, Asks, Locks, Takes, Moves, Sweeps, Removes, Builds, Runs,
       Stops

\* The base invariant holds to begin with.
LEMMA InitBase ==
  ASSUME Init
  PROVE  Base
<1>1. ProcOK
  BY ValueAssumption, ChoiceAssumption DEF Init, ProcOK, PCs, Held, InTry, Ended, Svc
<1>2. AreFiles(vm, Parts) /\ VmOK
  BY DEF Init, VmOK, AreFiles, Parts, Original, DiskData, Value, Whole
<1>3. PICK origin \in Taken :
         /\ dir = {i \in Id : origin[i] # "none"}
         /\ snap = [i \in Id |-> Snapped(origin[i])]
         /\ record = [i \in Id |-> IF origin[i] = "service"
                                   THEN [ran |-> TRUE, parts |-> {"disk", "seed", "local"}]
                                   ELSE NoFile]
  BY DEF Init
<1>4. RecordOK
  BY <1>3 DEF RecordOK, Metadata, Parts
<1>5. ASSUME NEW i \in Id
      PROVE  /\ AreFiles(snap[i], Files) /\ snap[i]["meta"] \in {NoFile, Torn, Whole}
             /\ origin[i] = "none" => snap[i] = Empty
  <2>1. snap[i] = Snapped(origin[i]) /\ origin[i] \in Origins
    BY <1>3, ChoiceAssumption
  <2>. DEFINE o == origin[i]
              f == snap[i]
  <2>. HIDE DEF o, f
  <2>2. /\ o = "none" => f = [p \in Files |-> NoFile]
        /\ o = "cli" => f = [p \in Files |-> IF p = "meta" THEN Whole ELSE Original(0)[p]]
        /\ o = "service" => f = [p \in Files |-> IF p \in {"disk", "seed", "local"}
                                                 THEN Original(0)[p] ELSE NoFile]
        /\ o = "early" => f = [p \in Files |-> IF p = "disk" THEN Torn ELSE NoFile]
        /\ o = "late" => f = [p \in Files |-> IF p = "meta" THEN Torn ELSE Original(0)[p]]
    BY <2>1 DEF Snapped, o, f
  <2>3. o \in Origins
    BY <2>1 DEF o
  <2>4. AreFiles(f, Files) /\ f["meta"] \in {NoFile, Torn, Whole} /\ (o = "none" => f = Empty)
    BY <2>2, <2>3 DEF Origins, AreFiles, Files, Parts, Original, DiskData, Value, Whole,
         Empty
  <2>. QED
    BY <2>4 DEF o, f
<1>6. SnapsOK
  BY <1>3, <1>5 DEF SnapsOK
<1>7. \A a \in Attempt : LabelsFit(a) /\ Memory(a) /\ Keyed(a)
  BY DEF Init, LabelsFit, Memory, Keyed, InTry, Copies, Held, Ended, Snaps
<1>. QED
  BY <1>1, <1>2, <1>4, <1>6, <1>7, BaseParts, FilesParts

\* Types, what can be at which label, and what is then in memory, hold always.
THEOREM Invariance == Spec => []Base
<1>1. ASSUME Base, [Next]_vars
      PROVE  Base'
  <2>1. CASE Next
    BY <1>1, <2>1, OneStep, BaseStep, GuestStep
  <2>2. CASE UNCHANGED vars
    BY <1>1, <2>2 DEF vars, quiet, counts, points, Base, TypeOK, AreFiles, LabelsFit,
       Memory, Keyed, Copies, Creating, Restoring, Op, Svc, Order
  <2>. QED
    BY <1>1, <2>1, <2>2
<1>. QED
  BY <1>1, InitBase, PTL DEF Spec

\* The values of a snapshot's life are of the right kind throughout, and the lock is
\* with the attempt that is at a step under it.
THEOREM TypeCorrect == Spec => []TypeOK
<1>1. Base => TypeOK
  BY DEF Base
<1>. QED
  BY <1>1, Invariance, PTL
-----------------------------------------------------------------------------
(* What a step writes. *)

\* One file of a snapshot, or of the VM, is written.
Sets(i, p, x) == /\ snap'[i][p] = x
                 /\ \A q \in Files \ {p} : snap'[i][q] = snap[i][q]
                 /\ \A j \in Id \ {i} : snap'[j] = snap[j]
VmSets(p, x) == vm'[p] = x /\ \A q \in Parts \ {p} : vm'[q] = vm[q]
Changes(a, p, x) == IF Creating(a) THEN Sets(Target(a), p, x) /\ UNCHANGED vm
                    ELSE VmSets(p, x) /\ UNCHANGED snap

\* Put changes one file.
LEMMA Putting ==
  ASSUME SnapsOK, VmOK, NEW a \in Attempt, Target(a) \in Id, NEW p \in Parts, NEW x,
         Put(a, p, x)
  PROVE  Changes(a, p, x)
<1>1. CASE Creating(a)
  <2>1. snap' = [snap EXCEPT ![Target(a)][p] = x] /\ vm' = vm
    BY <1>1 DEF Put, Creating
  <2>2. snap'[Target(a)] = [snap[Target(a)] EXCEPT ![p] = x] /\ \A j \in Id \ {Target(a)} : snap'[j] = snap[j]
    BY <2>1 DEF SnapsOK
  <2>3. snap[Target(a)] = [q \in Files |-> snap[Target(a)][q]]
    BY DEF SnapsOK, AreFiles
  <2>4. snap'[Target(a)][p] = x /\ \A q \in Files \ {p} : snap'[Target(a)][q] = snap[Target(a)][q]
    BY <2>2, <2>3 DEF Files
  <2>. QED
    BY <2>1, <2>2, <2>4, <1>1 DEF Changes, Sets
<1>2. CASE ~Creating(a)
  BY <1>2 DEF Put, Creating, VmOK, AreFiles, VmSets, Changes
<1>. QED
  BY <1>1, <1>2

\* Copying is of a create or a restore, and changes the part it has come to: to nothing, to
\* a torn file, or to what its source is.
LEMMA CopyEffect ==
  ASSUME Base, NEW a \in Attempt, Moves(a)
  PROVE  /\ Creating(a) \/ Restoring(a)
         /\ Copies(a)
         /\ \/ UNCHANGED <<vm, snap>>
            \/ /\ Part(a) \in Parts /\ part[a] <= Len(Order(a))
               /\ \E x : /\ Changes(a, Part(a), x)
                         /\ \/ x = NoFile /\ (Creating(a) \/ Part(a) \in Images)
                            \/ Source(a, Part(a)) # NoFile /\ x \in {Torn, Source(a, Part(a))}
<1>0. ProcOK /\ SnapsOK /\ VmOK /\ LabelsFit(a) /\ Memory(a) /\ Target(a) \in Id
  BY BaseParts, FilesParts DEF ProcOK, Target
<1>1. Copies(a) /\ (Creating(a) \/ Restoring(a))
  BY <1>0 DEF Moves, SkipPart, PartMissing, CopyStarts, CopyEnds, CopyImpossible,
     PartsCopied, Copies, LabelsFit
<1>2. CASE SkipPart(a) \/ CopyImpossible(a) \/ PartsCopied(a)
  BY <1>1, <1>2 DEF SkipPart, CopyImpossible, PartsCopied, host, points
<1>3. CASE PartMissing(a)
  <2>1. Part(a) \in Parts /\ part[a] <= Len(Order(a))
    BY <1>0, <1>3, PartType DEF PartMissing, Copying
  <2>2. UNCHANGED <<vm, snap>> \/ (Part(a) \in Images /\ Put(a, Part(a), NoFile))
    BY <1>3 DEF PartMissing
  <2>. QED
    BY <1>0, <1>1, <2>1, <2>2, Putting
<1>4. CASE CopyStarts(a)
  <2>1. Part(a) \in Parts /\ part[a] <= Len(Order(a)) /\ Source(a, Part(a)) # NoFile
    BY <1>0, <1>4, PartType DEF CopyStarts, Copying
  <2>2. PICK x \in {Torn, NoFile} : Put(a, Part(a), x) /\ (x = Torn \/ Part(a) \in Images)
    BY <1>4 DEF CopyStarts
  <2>. QED
    BY <1>0, <1>1, <2>1, <2>2, Putting
<1>5. CASE CopyEnds(a)
  <2>1. /\ Part(a) \in Parts /\ part[a] <= Len(Order(a)) /\ Source(a, Part(a)) # NoFile
        /\ Put(a, Part(a), Arrives(a, Source(a, Part(a))))
    BY <1>0, <1>5, PartType DEF CopyEnds, Memory
  <2>2. \/ Arrives(a, Source(a, Part(a))) = NoFile /\ Creating(a)
        \/ Arrives(a, Source(a, Part(a))) = Source(a, Part(a))
    BY DEF Arrives, Creating
  <2>. QED
    BY <1>0, <1>1, <2>1, <2>2, Putting
<1>. QED
  BY <1>2, <1>3, <1>4, <1>5 DEF Moves

\* Snapshots are written by the create that takes one, and by those that remove some.
Removing(a) == pc[a] \in {"sweep", "drop", "dropall"}
\* What a step does to the snapshots: it removes a file, copies a part, or writes metadata.
LEMMA SnapEffect ==
  ASSUME Base, NEW a \in Attempt, Steps(a)
  PROVE  \/ UNCHANGED snap
         \/ /\ Removing(a) /\ pc' = pc
            /\ \E i \in Id, f \in Files : i \in Doomed(a) /\ Sets(i, f, NoFile)
         \/ /\ Creating(a) /\ Copies(a) /\ Moves(a) /\ UNCHANGED vm
            /\ Part(a) \in Parts /\ part[a] <= Len(Order(a))
            /\ \E x : /\ Sets(Target(a), Part(a), x)
                      /\ x = NoFile \/ (vm[Part(a)] # NoFile /\ x \in {Torn, vm[Part(a)]})
         \/ /\ Creating(a) /\ pc[a] \in {"meta", "writing"}
            /\ OpenMetadata(a) \/ WriteMetadata(a)
            /\ \E x \in {NoFile, Torn, Whole} :
                 Sets(Target(a), "meta", x) /\ (x = NoFile => snap[Target(a)]["meta"] = NoFile)
<1>0. ProcOK /\ SnapsOK /\ VmOK /\ LabelsFit(a) /\ Memory(a) /\ Target(a) \in Id
  BY BaseParts, FilesParts DEF ProcOK, Target
<1>1. CASE Moves(a)
  BY <1>1, CopyEffect DEF Changes, Source, Creating
<1>2. CASE RemoveFile(a)
  <2>1. PICK i \in Doomed(a), f \in Files : snap' = [snap EXCEPT ![i][f] = NoFile]
    BY <1>2 DEF RemoveFile
  <2>2. i \in Id
    BY <1>0 DEF Doomed, SnapsOK
  <2>3. snap'[i] = [snap[i] EXCEPT ![f] = NoFile] /\ \A j \in Id \ {i} : snap'[j] = snap[j]
    BY <1>0, <2>1, <2>2 DEF SnapsOK
  <2>4. snap[i] = [q \in Files |-> snap[i][q]]
    BY <1>0, <2>2 DEF SnapsOK, AreFiles
  <2>5. Sets(i, f, NoFile)
    BY <2>3, <2>4 DEF Sets
  <2>. QED
    BY <2>1, <2>2, <2>5, <1>2 DEF RemoveFile, Removing
<1>3. CASE OpenMetadata(a) \/ WriteMetadata(a)
  <2>1. Creating(a) /\ pc[a] \in {"meta", "writing"}
    BY <1>0, <1>3 DEF OpenMetadata, WriteMetadata, LabelsFit, InTry
  <2>2. snap[Target(a)] = [q \in Files |-> snap[Target(a)][q]] /\ "meta" \in Files
    BY <1>0 DEF SnapsOK, AreFiles, Files
  <2>3. \/ UNCHANGED snap
        \/ \E x \in {NoFile, Torn, Whole} :
             /\ snap' = [snap EXCEPT ![Target(a)]["meta"] = x]
             /\ x = NoFile => snap[Target(a)]["meta"] = NoFile
    <3>1. CASE OpenMetadata(a)
      BY <3>1, ValueAssumption DEF OpenMetadata
    <3>2. CASE WriteMetadata(a)
      <4>1. snap' = [snap EXCEPT ![Target(a)]["meta"] =
                       IF snap[Target(a)]["meta"] = NoFile THEN NoFile ELSE Whole]
        BY <3>2, <1>0, <2>2 DEF WriteMetadata, SnapsOK
      <4>2. Whole # NoFile
        BY ValueAssumption DEF Whole
      <4>. QED
        BY <4>1, <4>2
    <3>. QED
      BY <3>1, <3>2, <1>3
  <2>4. ASSUME NEW x, snap' = [snap EXCEPT ![Target(a)]["meta"] = x]
        PROVE  Sets(Target(a), "meta", x)
    <3>1. /\ snap'[Target(a)] = [snap[Target(a)] EXCEPT !["meta"] = x]
          /\ \A j \in Id \ {Target(a)} : snap'[j] = snap[j]
      BY <1>0, <2>4 DEF SnapsOK
    <3>. QED
      BY <3>1, <2>2 DEF Sets
  <2>. QED
    BY <2>1, <2>3, <2>4, <1>3
<1>4. CASE ~(Moves(a) \/ RemoveFile(a) \/ OpenMetadata(a) \/ WriteMetadata(a))
  BY <1>4 DEF Steps, Asks, Begin, CheckCreate, CheckRestore, CheckDelete, FindBusy,
     Locks, TakeLock, Unlock, Takes, MakeDirectory, Stop, Stopped, ChangeOwner, Sweeps,
     RemoveDirectory, Removes, Undefine, RemoveStorage, RemoveArtifacts, Forget, Builds,
     Prepare, ConfigUnreadable, OpenState, WriteState, MakeDisk, MakeSeed, Install,
     InstallRaises, Runs, Halt, Boot, BootFails, NothingToRestart, Stops, Fails,
     Interrupt, Crash, host, points
<1>. QED
  BY <1>1, <1>2, <1>3, <1>4

\* The VM is changed by the attempt that holds the lock.
LEMMA HolderOnly ==
  ASSUME Base, NEW a \in Attempt, Steps(a), pc[a] \notin Held
  PROVE  UNCHANGED <<domain, vm, keys, writes>>
<1>0. ProcOK /\ LabelsFit(a)
  BY BaseParts
<1>1. Asks(a) \/ Locks(a) \/ Sweeps(a) \/ Stops(a)
  BY DEF Held, InTry, Steps, Takes, MakeDirectory, Stop, Stopped, OpenMetadata,
     WriteMetadata, ChangeOwner, Moves, SkipPart, PartMissing, CopyStarts, CopyEnds,
     CopyImpossible, PartsCopied, Removes, Undefine, RemoveStorage, RemoveArtifacts,
     Forget, Builds, Prepare, ConfigUnreadable, OpenState, WriteState, MakeDisk,
     MakeSeed, Install, InstallRaises, Runs, Halt, Boot, BootFails, NothingToRestart,
     Starting
<1>. QED
  BY <1>1 DEF Asks, Begin, CheckCreate, CheckRestore, CheckDelete, FindBusy, Locks,
     TakeLock, Unlock, Sweeps, RemoveFile, RemoveDirectory, Stops, Fails, Interrupt,
     Crash, host, points, counts

\* What a step does to the VM's files: a restore copies a part, a destroy removes some, a
\* provisioning makes one, and the state file is written.
LEMMA VmEffect ==
  ASSUME Base, NEW a \in Attempt, Steps(a)
  PROVE  \/ UNCHANGED <<vm, keys, writes>>
         \/ /\ Restoring(a) /\ Copies(a) /\ Moves(a) /\ UNCHANGED <<snap, keys, writes, domain>>
            /\ Part(a) \in Parts /\ part[a] <= Len(Order(a))
            /\ \E x : /\ VmSets(Part(a), x)
                      /\ \/ x = NoFile /\ Part(a) \in Images
                         \/ /\ snap[Target(a)][Part(a)] # NoFile
                            /\ x \in {Torn, snap[Target(a)][Part(a)]}
         \/ /\ Op(a) = "destroy" /\ UNCHANGED <<snap, keys, writes>>
            /\ \/ Undefine(a) \/ RemoveStorage(a)
               \/ RemoveArtifacts(a) /\ VmSets("local", NoFile)
               \/ Forget(a) /\ VmSets("state", NoFile)
            /\ \A p \in Parts : vm'[p] \in {vm[p], NoFile}
         \/ /\ Op(a) = "provision" /\ UNCHANGED <<snap, domain>>
            /\ \/ /\ Prepare(a) /\ VmSets("local", keys + 1) /\ keys' = keys + 1
                  /\ vm["local"] = NoFile /\ UNCHANGED writes
               \/ /\ MakeDisk(a) /\ VmSets("disk", [key |-> vm["local"], ver |-> writes + 1])
                  /\ vm["disk"] = NoFile /\ writes' = writes + 1 /\ UNCHANGED keys
               \/ MakeSeed(a) /\ VmSets("seed", vm["local"]) /\ UNCHANGED <<keys, writes>>
         \/ /\ Restoring(a) \/ Op(a) = "provision"
            /\ OpenState(a) \/ WriteState(a)
            /\ \E x : VmSets("state", x)
            /\ UNCHANGED <<snap, keys, writes, domain>>
<1>0. ProcOK /\ SnapsOK /\ VmOK /\ LabelsFit(a) /\ Target(a) \in Id
  BY BaseParts, FilesParts DEF ProcOK, Target
<1>1. CASE Moves(a)
  <2>1. UNCHANGED <<domain, keys, writes>>
    BY <1>1 DEF Moves, SkipPart, PartMissing, CopyStarts, CopyEnds, CopyImpossible,
         PartsCopied, host, counts
  <2>. QED
    BY <1>1, <2>1, CopyEffect DEF Changes, Source, Creating, Restoring
<1>2. CASE Removes(a)
  <2>. USE <1>0 DEF VmOK, AreFiles, Parts, VmSets, counts, points, LabelsFit
  <2>1. CASE Undefine(a)
    BY <2>1 DEF Undefine
  <2>2. CASE RemoveStorage(a)
    BY <2>2 DEF RemoveStorage
  <2>3. CASE RemoveArtifacts(a)
    BY <2>3 DEF RemoveArtifacts
  <2>4. CASE Forget(a)
    BY <2>4 DEF Forget
  <2>. QED
    BY <1>2, <2>1, <2>2, <2>3, <2>4 DEF Removes
<1>3. CASE Builds(a)
  <2>. USE <1>0 DEF VmOK, AreFiles, Parts, VmSets, counts, points, LabelsFit, host
  <2>1. CASE Prepare(a)
    BY <2>1 DEF Prepare
  <2>2. CASE MakeDisk(a) \/ MakeSeed(a)
    BY <2>2 DEF MakeDisk, MakeSeed
  <2>3. CASE OpenState(a) \/ WriteState(a)
    <3>1. Restoring(a) \/ Op(a) = "provision"
      BY <2>3 DEF OpenState, WriteState
    <3>. QED
      BY <2>3, <3>1 DEF OpenState, WriteState
  <2>4. CASE Install(a) \/ InstallRaises(a) \/ ConfigUnreadable(a)
    BY <2>4 DEF Install, InstallRaises, ConfigUnreadable
  <2>. QED
    BY <1>3, <2>1, <2>2, <2>3, <2>4 DEF Builds
<1>4. CASE ~(Moves(a) \/ Removes(a) \/ Builds(a))
  BY <1>4 DEF Steps, Asks, Begin, CheckCreate, CheckRestore, CheckDelete, FindBusy,
     Locks, TakeLock, Unlock, Takes, MakeDirectory, Stop, Stopped, OpenMetadata,
     WriteMetadata, ChangeOwner, Sweeps, RemoveFile, RemoveDirectory, Runs, Halt, Boot,
     BootFails, NothingToRestart, Stops, Fails, Interrupt, Crash, host, counts
<1>. QED
  BY <1>1, <1>2, <1>3, <1>4

\* What a step does to a service's records: a create that returns adds one, a delete removes it.
LEMMA RecordEffect ==
  ASSUME Base, NEW a \in Attempt, Steps(a), NEW j \in Id
  PROVE  \/ record'[j] \in {record[j], NoFile}
         \/ /\ Unlock(a) /\ Creating(a) /\ Svc(a) /\ err[a] = "none" /\ j = Target(a)
            /\ record'[j] = [ran |-> ran[a] = "yes", parts |-> {p \in Parts : snap[j][p] # NoFile}]
<1>0. RecordOK
  BY BaseParts, FilesParts
<1>1. CASE CheckDelete(a) \/ RemoveDirectory(a)
  BY <1>0, <1>1 DEF CheckDelete, RemoveDirectory, RecordOK
<1>2. CASE Unlock(a)
  BY <1>0, <1>2 DEF Unlock, RecordOK, Creating
<1>3. CASE ~(CheckDelete(a) \/ RemoveDirectory(a) \/ Unlock(a))
  BY <1>3 DEF Steps, Asks, Begin, CheckCreate, CheckRestore, FindBusy, Locks, TakeLock,
     Takes, MakeDirectory, Stop, Stopped, OpenMetadata, WriteMetadata, ChangeOwner,
     Moves, SkipPart, PartMissing, CopyStarts, CopyEnds, CopyImpossible, PartsCopied,
     Sweeps, RemoveFile, Removes, Undefine, RemoveStorage, RemoveArtifacts, Forget,
     Builds, Prepare, ConfigUnreadable, OpenState, WriteState, MakeDisk, MakeSeed,
     Install, InstallRaises, Runs, Halt, Boot, BootFails, NothingToRestart, Stops, Fails,
     Interrupt, Crash, host, points
<1>. QED
  BY <1>1, <1>2, <1>3

\* A create comes to work in a directory that it has just made.
LEMMA FreshFrom ==
  ASSUME Base, NEW a \in Attempt, Steps(a), Creating(a), Fresh(a)'
  PROVE  Fresh(a) \/ MakeDirectory(a)
<1>0. ProcOK /\ LabelsFit(a) /\ Own(a)
  BY BaseParts, OwnStep
<1>. USE <1>0 DEF Fresh, Goto, Advance, Raise, Handler, Creating, Restoring, LabelsFit,
ProcOK, Copies, InTry
<1>1. CASE Asks(a) \/ Locks(a) \/ Sweeps(a)
  BY <1>1 DEF Asks, Begin, CheckCreate, CheckRestore, CheckDelete, FindBusy, Locks,
     TakeLock, Entry, Unlock, Sweeps, RemoveFile, RemoveDirectory, AfterSweep
<1>2. CASE Takes(a)
  BY <1>2 DEF Takes, MakeDirectory, Stop, Stopped, OpenMetadata, WriteMetadata,
       ChangeOwner
<1>3. CASE Moves(a)
  BY <1>3 DEF Moves, SkipPart, PartMissing, CopyStarts, CopyEnds, CopyImpossible,
       PartsCopied
<1>4. CASE Removes(a) \/ Runs(a) \/ Stops(a)
  BY <1>4 DEF Removes, Undefine, RemoveStorage, RemoveArtifacts, Forget,
     Runs, Halt, Boot, BootFails, NothingToRestart, Starting, Stops, Fails, Interrupt,
     Crash
<1>5. CASE Builds(a)
  BY <1>5 DEF Builds, Prepare, ConfigUnreadable, OpenState, WriteState, MakeDisk,
       MakeSeed, Install, InstallRaises
<1>. QED
  BY <1>1, <1>2, <1>3, <1>4, <1>5 DEF Steps

\* With one process under the lock, the others can only remove files of snapshots.
LEMMA OthersRemove ==
  ASSUME Base, NEW a \in Attempt, pc[a] \in Held, NEW b \in Attempt, b # a, Steps(b)
  PROVE  /\ pc[b] \notin Held
         /\ UNCHANGED <<domain, vm, keys, writes>>
         /\ \A i \in Id, p \in Files : snap'[i][p] \in {snap[i][p], NoFile}
         /\ pc'[a] = pc[a] /\ err'[a] = err[a] /\ ran'[a] = ran[a] /\ part'[a] = part[a] /\ seen'[a] = seen[a]
         /\ task' = task /\ pc'[b] \notin Held
<1>0. ProcOK /\ ProcOK' /\ Own(b) /\ Locking(b)
  BY BaseParts, OwnStep, OwnProc
<1>1. pc[b] \notin Held
  BY <1>0, Alone
<1>2. /\ pc'[a] = pc[a] /\ err'[a] = err[a] /\ ran'[a] = ran[a] /\ part'[a] = part[a]
      /\ seen'[a] = seen[a] /\ task' = task
  BY <1>0 DEF Own, ProcOK
<1>3. pc'[b] \notin Held
  BY <1>0, <1>2 DEF ProcOK
<1>4. \/ UNCHANGED snap
      \/ \E i \in Id, f \in Files : Sets(i, f, NoFile)
  BY <1>1, SnapEffect DEF Copies, Held, InTry
<1>. QED
  BY <1>1, <1>2, <1>3, <1>4, HolderOnly DEF Sets

\* A create at work holds the lock.
LEMMA FreshHeld ==
  ASSUME NEW a \in Attempt, Fresh(a)
  PROVE  pc[a] \in Held
  BY DEF Fresh, Held, InTry

\* No step lists a snapshot in whose directory a create is at work.
LEMMA NewPointStep ==
  ASSUME Base, task \in Tasking, NewPoint, NEW b \in Attempt, Steps(b)
  PROVE  NewPoint'
<1>0. ProcOK /\ SnapsOK /\ Own(b) /\ RecordOK /\ Base'
  BY BaseParts, FilesParts, OwnStep, BaseStep
<1>1. ASSUME NEW a \in Attempt, Creating(a)'
      PROVE  /\ Fresh(a)' => snap'[Target(a)]["meta"] = NoFile
             /\ OwnIds /\ pc'[a] \notin Ended \cup {"idle"} => record'[Target(a)] = NoFile
  <2>0. Creating(a) /\ Target(a) \in Id /\ task' = task
    BY <1>0, <1>1 DEF Own, Creating, Op, ProcOK, Target
  <2>1. ASSUME Fresh(a)'
        PROVE  snap'[Target(a)]["meta"] = NoFile
    <3>1. CASE a = b
      <4>1. Fresh(a) \/ MakeDirectory(a)
        BY <2>0, <2>1, <3>1, FreshFrom
      <4>2. snap[Target(a)]["meta"] = NoFile
        <5>1. CASE Fresh(a)
          BY <5>1, <2>0 DEF NewPoint
        <5>2. CASE MakeDirectory(a)
          <6>1. pc[a] = "mkdir" /\ a \in Attempt
            BY <5>2 DEF MakeDirectory
          <6>2. Target(a) \notin dir
            BY <5>2, <6>1, <2>1, <1>0 DEF MakeDirectory, Raise, Handler, Goto, ProcOK,
                 Fresh, InTry
          <6>. QED
            BY <6>2, <2>0, <1>0 DEF SnapsOK, Empty, Files
        <5>. QED
          BY <4>1, <5>1, <5>2
      <4>3. "meta" \notin Parts /\ "meta" \in Files
        BY DEF Parts, Files
      <4>4. CASE UNCHANGED snap
        BY <4>2, <4>4
      <4>5. CASE \E i \in Id, f \in Files : Sets(i, f, NoFile)
        BY <4>2, <4>3, <4>5, <2>0 DEF Sets
      <4>6. CASE Part(a) \in Parts /\ \E x : Sets(Target(a), Part(a), x)
        BY <4>2, <4>3, <4>6, <2>0 DEF Sets
      <4>7. CASE OpenMetadata(a) \/ WriteMetadata(a)
        BY <4>7, <2>1, <2>0, <1>0 DEF OpenMetadata, WriteMetadata, Advance, Raise,
             Handler, Goto, ProcOK, Fresh, InTry, Creating
      <4>. QED
        BY <4>4, <4>5, <4>6, <4>7, <3>1, SnapEffect
    <3>2. CASE a # b
      <4>1. Fresh(a)
        BY <2>1, <3>2, <1>0 DEF Own, Fresh, ProcOK
      <4>2. snap'[Target(a)]["meta"] \in {snap[Target(a)]["meta"], NoFile}
        BY <4>1, <3>2, <2>0, OthersRemove, FreshHeld DEF Files
      <4>. QED
        BY <4>1, <4>2, <2>0 DEF NewPoint
    <3>. QED
      BY <3>1, <3>2
  <2>2. ASSUME OwnIds, pc'[a] \notin Ended \cup {"idle"}
        PROVE  record'[Target(a)] = NoFile
    <3>1. CASE pc[a] \in Ended \cup {"idle"}
      <4>1. a = b
        BY <3>1, <2>2, <1>0 DEF Own, ProcOK
      <4>2. Begin(a)
        BY <4>1, <3>1, <2>2, <1>0 DEF Steps, Asks, Begin, CheckCreate, CheckRestore,
           CheckDelete, FindBusy, Locks, TakeLock, Unlock, Takes, MakeDirectory, Stop,
           Stopped, OpenMetadata, WriteMetadata, ChangeOwner, Moves, SkipPart,
           PartMissing, CopyStarts, CopyEnds, CopyImpossible, PartsCopied, Sweeps,
           RemoveFile, RemoveDirectory, Removes, Undefine, RemoveStorage,
           RemoveArtifacts, Forget, Builds, Prepare, ConfigUnreadable, OpenState,
           WriteState, MakeDisk, MakeSeed, Install, InstallRaises, Runs, Halt, Boot,
           BootFails, NothingToRestart, Starting, Stops, Fails, Interrupt, Crash, Ended,
           Held, InTry
      <4>. QED
        BY <4>2, <2>0 DEF Begin, Sensible, host, points, Creating
    <3>2. CASE pc[a] \notin Ended \cup {"idle"}
      <4>1. record[Target(a)] = NoFile
        BY <3>2, <2>2, <2>0 DEF NewPoint
      <4>2. CASE record'[Target(a)] \in {record[Target(a)], NoFile}
        BY <4>1, <4>2
      <4>3. CASE Unlock(b) /\ Creating(b) /\ Svc(b) /\ err[b] = "none" /\ Target(a) = Target(b)
        <5>1. a # b
          BY <4>3, <2>2, <1>0 DEF Unlock, Goto, Ended, ProcOK
        <5>. QED
          BY <5>1, <4>3, <2>0, <2>2 DEF OwnIds, Creating, Op, Svc, Target, Snaps
      <4>. QED
        BY <4>2, <4>3, <2>0, RecordEffect
    <3>. QED
      BY <3>1, <3>2
  <2>. QED
    BY <2>1, <2>2
<1>2. ASSUME NEW a \in Attempt, Creating(a)'
      PROVE  Target(a)' = Target(a)
  BY <1>0 DEF Own, Target
<1>. QED
  BY <1>1, <1>2 DEF NewPoint
-----------------------------------------------------------------------------
(* Keys. *)
Sweeping(a) == pc[a] \in {"undefine", "storage", "artifacts", "forget"}
\* A destroy comes to the VM when the last snapshot has gone, and to the key when the disk has.
LEMMA DestroyFrom ==
  ASSUME Base, NEW a \in Attempt, Steps(a), Op(a) = "destroy", Sweeping(a)'
  PROVE  /\ UNCHANGED snap
         /\ Sweeping(a) \/ (RemoveDirectory(a) /\ pc[a] = "dropall")
         /\ pc'[a] = "artifacts" => RemoveStorage(a)
         /\ pc'[a] = "forget" => pc[a] = "artifacts" /\ RemoveArtifacts(a)
<1>0. ProcOK /\ LabelsFit(a)
  BY BaseParts
<1>. USE <1>0 DEF Sweeping, Goto, Advance, Raise, Handler, Creating, Restoring,
         LabelsFit, ProcOK, InTry, points, host, Copies
<1>1. CASE Asks(a) \/ Locks(a) \/ Sweeps(a)
  BY <1>1 DEF Asks, Begin, CheckCreate, CheckRestore, CheckDelete, FindBusy, Locks,
     TakeLock, Entry, Unlock, Sweeps, RemoveFile, RemoveDirectory, AfterSweep
<1>2. CASE Takes(a)
  BY <1>2 DEF Takes, MakeDirectory, Stop, Stopped, OpenMetadata, WriteMetadata,
       ChangeOwner
<1>3. CASE Moves(a)
  BY <1>3, CopyEffect
<1>4. CASE Removes(a)
  BY <1>4 DEF Removes, Undefine, RemoveStorage, RemoveArtifacts, Forget
<1>5. CASE Runs(a) \/ Stops(a)
  BY <1>5 DEF Runs, Halt, Boot, BootFails, NothingToRestart, Starting, Stops, Fails,
       Interrupt, Crash
<1>6. CASE Builds(a)
  BY <1>6 DEF Builds, Prepare, ConfigUnreadable, OpenState, WriteState, MakeDisk,
       MakeSeed, Install, InstallRaises
<1>. QED
  BY <1>1, <1>2, <1>3, <1>4, <1>5, <1>6 DEF Steps

\* A file that does not exist, or is torn, is no data.
LEMMA NotData == NoFile \notin DiskData /\ Torn \notin DiskData
  BY ValueAssumption DEF DiskData

\* No step leaves a disk, of the VM or of a snapshot, that an earlier key pair opens.
LEMMA KeyStep ==
  ASSUME Base, KeyInv, NEW b \in Attempt, Steps(b)
  PROVE  KeyInv'
<1>0. ProcOK /\ SnapsOK /\ VmOK /\ SnapsOK' /\ Own(b) /\ Keyed(b)
  BY BaseParts, FilesParts, OwnStep, MoveFiles, SnapFiles, VmFiles, ProcFiles DEF Steps
<1>1. "disk" \in Parts /\ "local" \in Parts /\ Parts \subseteq Files /\ "disk" \in Files /\ "local" \in Files
  BY DEF Parts, Files
<1>2. /\ vm["disk"] \in DiskData => vm["disk"].key \in {keys, Torn}
      /\ vm["local"] \in {NoFile, Torn, keys}
      /\ vm["local"] = NoFile => vm["disk"] = NoFile
      /\ \A i \in Id : /\ snap[i]["disk"] \in DiskData => snap[i]["disk"].key \in {keys, Torn}
                       /\ snap[i]["local"] \in {NoFile, Torn, keys}
                       /\ vm["local"] = NoFile => snap[i]["disk"] = NoFile /\ snap[i]["local"] = NoFile
  BY DEF KeyInv, OneKey
<1>3. ASSUME NEW a \in Attempt, Op(a)' = "destroy"
      PROVE  /\ Sweeping(a)' => \A i \in Id : snap'[i] = Empty
             /\ pc'[a] \in {"artifacts", "forget"} => vm'["disk"] = NoFile
  <2>0. Op(a) = "destroy"
    BY <1>0, <1>3 DEF Own, Op
  <2>1. CASE a = b
    <3>1. ASSUME Sweeping(a)', NEW i \in Id
          PROVE  snap'[i] = Empty
      <4>1. UNCHANGED snap /\ (Sweeping(a) \/ (RemoveDirectory(a) /\ pc[a] = "dropall"))
        BY <2>0, <2>1, <3>1, DestroyFrom
      <4>2. CASE Sweeping(a)
        BY <4>1, <4>2, <2>0 DEF KeyInv, Sweeping
      <4>3. CASE RemoveDirectory(a)
        BY <4>1, <4>3, <2>0, <1>0 DEF RemoveDirectory, Doomed, SnapsOK
      <4>. QED
        BY <4>1, <4>2, <4>3
    <3>2. ASSUME pc'[a] = "artifacts"
          PROVE  vm'["disk"] = NoFile
      BY <3>2, <2>0, <2>1, <1>0, DestroyFrom DEF Sweeping, RemoveStorage, VmOK, AreFiles,
           Parts
    <3>3. ASSUME pc'[a] = "forget"
          PROVE  vm'["disk"] = NoFile
      BY <3>3, <2>0, <2>1, <1>0, DestroyFrom DEF Sweeping, RemoveArtifacts, VmOK,
           AreFiles, Parts, KeyInv
    <3>. QED
      BY <3>1, <3>2, <3>3
  <2>2. CASE a # b
    <3>1. ASSUME Sweeping(a)'
          PROVE  Sweeping(a) /\ pc[a] \in Held /\ pc[a] = pc'[a]
      BY <3>1, <2>2, <1>0 DEF Own, ProcOK, Sweeping, Held
    <3>2. ASSUME Sweeping(a)', NEW i \in Id
          PROVE  snap'[i] = Empty
      <4>1. snap[i] = Empty
        BY <3>1, <3>2, <2>0 DEF KeyInv, Sweeping
      <4>2. \A p \in Files : snap'[i][p] \in {snap[i][p], NoFile}
        BY <3>1, <3>2, <2>2, OthersRemove
      <4>3. snap'[i] = [p \in Files |-> snap'[i][p]]
        BY <1>0 DEF SnapsOK, AreFiles
      <4>. QED
        BY <4>1, <4>2, <4>3 DEF Empty
    <3>3. ASSUME pc'[a] \in {"artifacts", "forget"}
          PROVE  vm'["disk"] = NoFile
      <4>1. Sweeping(a)'
        BY <3>3 DEF Sweeping
      <4>2. vm["disk"] = NoFile /\ UNCHANGED vm
        BY <4>1, <3>1, <3>3, <2>0, <2>2, OthersRemove DEF KeyInv
      <4>. QED
        BY <4>2
    <3>. QED
      BY <3>2, <3>3
  <2>. QED
    BY <2>1, <2>2
<1>4. /\ vm'["disk"] \in DiskData => vm'["disk"].key \in {keys', Torn}
      /\ vm'["local"] \in {NoFile, Torn, keys'}
      /\ vm'["local"] = NoFile =>
           /\ vm'["disk"] = NoFile
           /\ \A i \in Id : snap'[i]["disk"] = NoFile /\ snap'[i]["local"] = NoFile
      /\ \A i \in Id : /\ snap'[i]["disk"] \in DiskData => snap'[i]["disk"].key \in {keys', Torn}
                       /\ snap'[i]["local"] \in {NoFile, Torn, keys'}
  <2>0. Target(b) \in Id
    BY <1>0 DEF ProcOK, Target
  <2>1. CASE UNCHANGED <<vm, keys>>
    <3>1. CASE UNCHANGED snap
      BY <2>1, <3>1, <1>2
    <3>2. CASE \E i \in Id, f \in Files : Sets(i, f, NoFile)
      BY <2>1, <3>2, <1>2, <1>1, NotData DEF Sets
    <3>3. CASE /\ Part(b) \in Parts
               /\ \E x : /\ Sets(Target(b), Part(b), x)
                         /\ x = NoFile \/ (vm[Part(b)] # NoFile /\ x \in {Torn, vm[Part(b)]})
      BY <2>0, <2>1, <3>3, <1>2, <1>1, NotData DEF Sets
    <3>4. CASE \E x : Sets(Target(b), "meta", x)
      <4>1. \A i \in Id : snap'[i]["disk"] = snap[i]["disk"] /\ snap'[i]["local"] = snap[i]["local"]
        BY <3>4, <2>0, <1>1 DEF Sets
      <4>. QED
        BY <2>1, <4>1, <1>2
    <3>. QED
      BY <3>1, <3>2, <3>3, <3>4, SnapEffect
  <2>2. CASE /\ Part(b) \in Parts /\ UNCHANGED <<snap, keys>>
             /\ \E x : /\ VmSets(Part(b), x)
                       /\ \/ x = NoFile /\ Part(b) \in Images
                          \/ /\ snap[Target(b)][Part(b)] # NoFile
                             /\ x \in {Torn, snap[Target(b)][Part(b)]}
    BY <2>0, <2>2, <1>2, <1>1, NotData, ValueAssumption DEF VmSets, Images
  <2>3. CASE /\ Op(b) = "destroy" /\ UNCHANGED <<snap, keys>>
             /\ \/ Undefine(b) \/ RemoveStorage(b)
                \/ RemoveArtifacts(b) /\ VmSets("local", NoFile)
                \/ Forget(b) /\ VmSets("state", NoFile)
             /\ \A p \in Parts : vm'[p] \in {vm[p], NoFile}
    <3>1. CASE RemoveArtifacts(b) /\ VmSets("local", NoFile)
      <4>1. vm["disk"] = NoFile /\ \A i \in Id : snap[i] = Empty
        BY <3>1, <2>3 DEF KeyInv, RemoveArtifacts
      <4>. QED
        BY <4>1, <3>1, <2>3, <1>1, <1>2, NotData DEF Empty, VmSets
    <3>2. CASE Undefine(b) \/ RemoveStorage(b) \/ (Forget(b) /\ VmSets("state", NoFile))
      <4>1. vm'["local"] = vm["local"] /\ vm'["disk"] \in {vm["disk"], NoFile}
        BY <3>2, <2>3, <1>0, <1>1 DEF Undefine, RemoveStorage, VmSets, VmOK, AreFiles,
             Parts
      <4>. QED
        BY <4>1, <2>3, <1>2, NotData
    <3>. QED
      BY <3>1, <3>2, <2>3
  <2>4. CASE UNCHANGED snap /\ Prepare(b) /\ VmSets("local", keys + 1) /\ keys' = keys + 1 /\ vm["local"] = NoFile
    <3>1. keys + 1 \in Nat
      BY <1>0 DEF VmOK
    <3>2. keys + 1 # NoFile
      BY ONLY <3>1, ValueAssumption
    <3>. QED
      BY <3>2, <2>4, <1>2, <1>1, NotData DEF VmSets
  <2>5. CASE /\ UNCHANGED <<snap, keys>> /\ MakeDisk(b) /\ Op(b) = "provision"
             /\ VmSets("disk", [key |-> vm["local"], ver |-> writes + 1])
    <3>1. vm["local"] # NoFile
      BY <2>5, <1>0 DEF Keyed, MakeDisk
    <3>. QED
      BY <3>1, <2>5, <1>2, <1>1 DEF VmSets
  <2>6. CASE UNCHANGED <<snap, keys>> /\ \E x : VmSets("seed", x) \/ VmSets("state", x)
    BY <2>6, <1>2, <1>1 DEF VmSets
  <2>. QED
    BY <2>1, <2>2, <2>3, <2>4, <2>5, <2>6, VmEffect
<1>. QED
  BY <1>3, <1>4 DEF KeyInv, OneKey, Sweeping

\* There is one key pair to begin with, and every disk was built with it.
LEMMA InitKeys ==
  ASSUME Init
  PROVE  KeyInv
<1>1. PICK origin \in Taken : snap = [i \in Id |-> Snapped(origin[i])]
  BY DEF Init
<1>2. vm["disk"] = [key |-> 1, ver |-> 1] /\ vm["local"] = 1 /\ keys = 1
  BY DEF Init, Original
<1>3. ASSUME NEW i \in Id
      PROVE  OneKey(snap[i])
  <2>1. /\ snap[i]["disk"] \in {NoFile, Torn, [key |-> 1, ver |-> 0]}
        /\ snap[i]["local"] \in {NoFile, Torn, 1}
    <3>1. origin[i] \in Origins /\ snap[i] = Snapped(origin[i])
      BY <1>1, ChoiceAssumption
    <3>. DEFINE o == origin[i]
                f == snap[i]
    <3>. HIDE DEF o, f
    <3>2. /\ o = "none" => f = [p \in Files |-> NoFile]
          /\ o = "cli" => f = [p \in Files |-> IF p = "meta" THEN Whole ELSE Original(0)[p]]
          /\ o = "service" => f = [p \in Files |-> IF p \in {"disk", "seed", "local"}
                                                   THEN Original(0)[p] ELSE NoFile]
          /\ o = "early" => f = [p \in Files |-> IF p = "disk" THEN Torn ELSE NoFile]
          /\ o = "late" => f = [p \in Files |-> IF p = "meta" THEN Torn ELSE Original(0)[p]]
      BY <3>1 DEF Snapped, o, f
    <3>3. /\ f["disk"] \in {NoFile, Torn, [key |-> 1, ver |-> 0]}
          /\ f["local"] \in {NoFile, Torn, 1}
      BY <3>1, <3>2 DEF o, Origins, Files, Parts, Original
    <3>. QED
      BY <3>3 DEF f
  <2>. QED
    BY <2>1, <1>2, NotData DEF OneKey
<1>4. vm["local"] # NoFile
  BY <1>2, ValueAssumption
<1>. QED
  BY <1>2, <1>3, <1>4 DEF KeyInv, OneKey, Init

\* No restore can bring back a guest that the admin key on the host does not open.
THEOREM KeysFit == Spec => []KeyFits
<1>1. ASSUME Base, KeyInv, [Next]_vars
      PROVE  KeyInv'
  <2>1. CASE GuestWrites
    <3>1. Base /\ GuestWrites
      BY <1>1, <2>1
    <3>2. UNCHANGED <<quiet, pc, snap, keys>> /\ vm'["local"] = vm["local"]
      BY <3>1, GuestStep DEF points, Parts
    <3>3. /\ vm'["disk"].key = vm["disk"].key
          /\ vm["disk"] \in DiskData /\ vm["disk"] # NoFile
      BY <3>1, GuestStep, NotData
    <3>. QED
      BY <3>2, <3>3, <1>1 DEF KeyInv, OneKey, quiet, Op
  <2>2. CASE UNCHANGED vars
    BY <1>1, <2>2 DEF vars, quiet, counts, points, KeyInv, OneKey, Op
  <2>. QED
    BY <1>1, <2>1, <2>2, OneStep, KeyStep
<1>2. KeyInv => KeyFits
  BY ValueAssumption DEF KeyInv, OneKey, KeyFits
<1>. QED
  BY <1>1, <1>2, InitKeys, Invariance, PTL DEF Spec
-----------------------------------------------------------------------------
(* The guest that a create stopped. *)
LEMMA RestartStep ==
  ASSUME Base, SourceRestarted, NEW b \in Attempt, Steps(b)
  PROVE  SourceRestarted'
<1>0. ProcOK /\ Own(b)
  BY BaseParts, OwnStep
<1>1. SUFFICES ASSUME NEW a \in Attempt, Op(a)' = "create", pc'[a] = "unlock",
                      ran'[a] # "no", err'[a] # "start",
                      ~(ran'[a] = "waiting" /\ err'[a] = "interrupted")
               PROVE  domain' = "running"
  BY DEF SourceRestarted
<1>2. Op(a) = "create"
  BY <1>0, <1>1 DEF Own, Op
<1>3. CASE a # b
  <2>1. /\ pc[a] = "unlock" /\ ran[a] # "no" /\ err[a] # "start"
        /\ ~(ran[a] = "waiting" /\ err[a] = "interrupted")
    BY <1>0, <1>1, <1>3 DEF Own, ProcOK
  <2>2. UNCHANGED domain
    BY <2>1, <1>3, OthersRemove DEF Held
  <2>. QED
    BY <2>1, <2>2, <1>2 DEF SourceRestarted
<1>4. CASE a = b
  <2>0. LabelsFit(a) /\ Memory(a)
    BY BaseParts
  <2>. USE <1>0, <1>1, <1>2, <1>4, <2>0 DEF Goto, Advance, Raise, Handler, Creating,
           Restoring, LabelsFit, Memory, ProcOK, InTry, Ended, Held, Copies
  <2>1. CASE Asks(a) \/ Locks(a) \/ Sweeps(a)
    BY <2>1 DEF Asks, Begin, CheckCreate, CheckRestore, CheckDelete, FindBusy, Locks,
       TakeLock, Entry, Unlock, Sweeps, RemoveFile, RemoveDirectory, AfterSweep, still,
       quiet
  <2>2. CASE Takes(a)
    BY <2>2 DEF Takes, MakeDirectory, Stop, Stopped, OpenMetadata, WriteMetadata,
         ChangeOwner, quiet
  <2>3. CASE Moves(a)
    BY <2>3 DEF Moves, SkipPart, PartMissing, CopyStarts, CopyEnds, CopyImpossible,
         PartsCopied
  <2>4. CASE Removes(a)
    BY <2>4 DEF Removes, Undefine, RemoveStorage, RemoveArtifacts, Forget
  <2>5. CASE Runs(a)
    BY <2>5 DEF Runs, Halt, Boot, BootFails, NothingToRestart, Starting, quiet
  <2>6. CASE Stops(a)
    BY <2>6 DEF Stops, Fails, Interrupt, Starting, Crash, Exit, quiet
  <2>7. CASE Builds(a)
    BY <2>7 DEF Builds, Prepare, ConfigUnreadable, OpenState, WriteState, MakeDisk,
         MakeSeed, Install, InstallRaises
  <2>. QED
    BY <2>1, <2>2, <2>3, <2>4, <2>5, <2>6, <2>7 DEF Steps
<1>. QED
  BY <1>3, <1>4

\* A guest that a create has begun to stop runs again when the lock is given up, but for
\* a start that failed or was cut short and for Ctrl-C before stop_vm_domain has returned.
THEOREM Restarted == Spec => []SourceRestarted
<1>1. Init => SourceRestarted
  BY DEF Init, SourceRestarted
<1>2. ASSUME Base, SourceRestarted, [Next]_vars
      PROVE  SourceRestarted'
  <2>1. CASE GuestWrites
    <3>1. Base /\ GuestWrites
      BY <1>2, <2>1
    <3>. QED
      BY <3>1, <1>2, GuestStep DEF SourceRestarted, quiet, Op
  <2>2. CASE UNCHANGED vars
    BY <1>2, <2>2 DEF vars, quiet, SourceRestarted, Op
  <2>. QED
    BY <1>2, <2>1, <2>2, OneStep, RestartStep
<1>. QED
  BY <1>1, <1>2, Invariance, PTL DEF Spec
-----------------------------------------------------------------------------
(* Listed snapshots. *)
Known == Base /\ task \in Tasking /\ NewPoint

\* A create never works in the directory of a listed snapshot.
LEMMA NewPoints == Spec => []Known
<1>1. Init => NewPoint /\ task \in Tasking
  BY DEF Init, NewPoint, Fresh
<1>2. ASSUME Known, [Next]_vars
      PROVE  (task \in Tasking /\ NewPoint)'
  <2>1. CASE GuestWrites
    <3>1. Base /\ GuestWrites
      BY <1>2, <2>1 DEF Known
    <3>2. UNCHANGED <<quiet, pc, snap, record>>
      BY <3>1, GuestStep DEF points
    <3>. QED
      BY <3>2, <1>2 DEF Known, NewPoint, Fresh, quiet, Creating, Op, Target
  <2>2. CASE UNCHANGED vars
    BY <1>2, <2>2 DEF vars, quiet, points, Known, NewPoint, Fresh, Creating, Op, Target
  <2>3. CASE \E b \in Attempt : Steps(b)
    BY <2>3, <1>2, NewPointStep, OwnStep DEF Known, Own
  <2>. QED
    BY <1>2, <2>1, <2>2, <2>3, OneStep DEF Known
<1>. QED
  BY <1>1, <1>2, Invariance, PTL DEF Spec, Known

\* As long as no service gives an id twice, a listed snapshot keeps every file as it
\* was until its directory is being removed.
THEOREM Unchanged ==
  ASSUME OwnIds
  PROVE  Spec => ListedUnchanged
<1>. DEFINE Act == \A i \in Id, p \in Parts :
                     Listed(i) /\ snap[i]["meta"] # Torn /\ snap'[i][p] # snap[i][p]
                       => \E a \in Attempt : /\ pc[a] \in {"sweep", "drop", "dropall"}
                                             /\ i \in Doomed(a)
<1>1. ASSUME Known, Next
      PROVE  Act
  <2>1. CASE GuestWrites
    <3>1. Base /\ GuestWrites
      BY <1>1, <2>1 DEF Known
    <3>. QED
      BY <3>1, GuestStep DEF points
  <2>2. CASE \E b \in Attempt : Steps(b)
    <3>1. PICK b \in Attempt : Steps(b)
      BY <2>2
    <3>2. SUFFICES ASSUME NEW i \in Id, NEW p \in Parts, Listed(i), snap'[i][p] # snap[i][p]
                   PROVE  Removing(b) /\ i \in Doomed(b)
      BY DEF Removing
    <3>3. Base /\ ProcOK /\ Target(b) \in Id /\ p \in Files /\ p # "meta"
      BY <1>1, BaseParts DEF Known, ProcOK, Target, Parts, Files
    <3>4. CASE Removing(b) /\ \E j \in Id, f \in Files : j \in Doomed(b) /\ Sets(j, f, NoFile)
      BY <3>2, <3>3, <3>4 DEF Sets
    <3>5. CASE Creating(b) /\ Copies(b) /\ Part(b) \in Parts /\ \E x : Sets(Target(b), Part(b), x)
      <4>1. i = Target(b)
        BY <3>2, <3>5, <3>3 DEF Sets
      <4>2. ~Listed(Target(b))
        BY <3>5, <1>1 DEF Known, NewPoint, Copies, Fresh, Ended, Listed
      <4>. QED
        BY <4>1, <4>2, <3>2
    <3>6. CASE \E x : Sets(Target(b), "meta", x)
      BY <3>6, <3>2, <3>3 DEF Sets
    <3>7. CASE UNCHANGED snap
      BY <3>7, <3>2
    <3>. QED
      BY <3>4, <3>5, <3>6, <3>7, <3>1, <3>3, SnapEffect
  <2>. QED
    BY <1>1, <2>1, <2>2, OneStep DEF Known
<1>2. ASSUME Known, [Next]_vars
      PROVE  [Act]_vars
  BY <1>1, <1>2
<1>3. Spec => [][Act]_vars
  <2>. HIDE DEF Act
  <2>. QED
    BY <1>2, NewPoints, PTL DEF Spec
<1>. QED
  BY <1>3 DEF ListedUnchanged
-----------------------------------------------------------------------------
(* The data of the VM, as long as nobody removes snapshots. *)
Found == \E i \in Id : Listed(i) /\ snap[i]["disk"] \in DiskData

\* Past the copy of the disk.
Taking(a) == \/ Copies(a) /\ part[a] > 1
             \/ pc[a] \in {"meta", "writing", "chown", "finally", "unlock"}
Pristine ==
    /\ vm["disk"] \in DiskData
    /\ \A i \in Id : ~Listed(i)
    /\ \A a \in Attempt : /\ Restoring(a) => pc[a] \notin Held \cup {"lock"}
                          /\ Creating(a) /\ Taking(a) => snap[Target(a)]["disk"] \in DiskData

\* Either a listed snapshot has the data, or there has been none that a restore could
\* have begun with.
InWork(a) == pc[a] \in InTry \cup {"finally", "unlock"}
DataInv ==
    NothingRemoved =>
      /\ \A i \in Id : record[i] # NoFile => i \in dir
      /\ \A a \in Attempt : Creating(a) =>
           /\ InWork(a) => Target(a) \in dir
           /\ Fresh(a) => record[Target(a)] = NoFile
           /\ pc[a] = "copying" => snap[Target(a)][Part(a)] # NoFile
      /\ Found \/ Pristine

\* An attempt that has ended takes no step, and one that is idle begins.
LEMMA NotEnded ==
  ASSUME NEW a \in Attempt, Steps(a)
  PROVE  pc[a] \notin Ended /\ (pc[a] = "idle" => Begin(a))
  BY DEF Steps, Asks, Begin, CheckCreate, CheckRestore, CheckDelete, FindBusy, Locks,
     TakeLock, Unlock, Takes, MakeDirectory, Stop, Stopped, OpenMetadata, WriteMetadata,
     ChangeOwner, Moves, SkipPart, PartMissing, CopyStarts, CopyEnds, CopyImpossible,
     PartsCopied, Sweeps, RemoveFile, RemoveDirectory, Removes, Undefine, RemoveStorage,
     RemoveArtifacts, Forget, Builds, Prepare, ConfigUnreadable, OpenState, WriteState,
     MakeDisk, MakeSeed, Install, InstallRaises, Runs, Halt, Boot, BootFails,
     NothingToRestart, Starting, Stops, Fails, Interrupt, Crash, Ended, Held, InTry

\* An attempt that has begun is not idle again.
LEMMA NotIdle ==
  ASSUME Base, NEW a \in Attempt, Steps(a)
  PROVE  pc'[a] # "idle"
<1>0. ProcOK /\ LabelsFit(a)
  BY BaseParts
<1>1. CASE RemoveFile(a) \/ SkipPart(a)
  BY <1>0, <1>1 DEF RemoveFile, SkipPart, still
<1>2. CASE TakeLock(a) \/ RemoveDirectory(a)
  <2>1. CASE TakeLock(a)
    <3>1. Op(a) \in Ops \ {"delete"} /\ pc'[a] = Entry[Op(a)]
      BY <1>0, <2>1 DEF TakeLock, Goto, ProcOK, LabelsFit, Ended, Op
    <3>. QED
      BY <3>1 DEF Ops, Entry
  <2>2. CASE RemoveDirectory(a)
    BY <1>0, <2>2 DEF RemoveDirectory, AfterSweep, Goto, ProcOK
  <2>. QED
    BY <1>2, <2>1, <2>2
<1>3. CASE ~(RemoveFile(a) \/ SkipPart(a) \/ TakeLock(a) \/ RemoveDirectory(a))
  <2>. USE <1>0, <1>3 DEF ProcOK, Goto, Advance, Raise, Handler
  <2>1. CASE Asks(a) \/ Locks(a) \/ Takes(a)
    BY <2>1 DEF Asks, Begin, CheckCreate, CheckRestore, CheckDelete, FindBusy, Locks,
       Unlock, Takes, MakeDirectory, Stop, Stopped, OpenMetadata, WriteMetadata,
       ChangeOwner
  <2>2. CASE Moves(a) \/ Sweeps(a) \/ Removes(a)
    BY <2>2 DEF Moves, PartMissing, CopyStarts, CopyEnds, CopyImpossible, PartsCopied,
       Sweeps, Removes, Undefine, RemoveStorage, RemoveArtifacts, Forget
  <2>3. CASE Builds(a) \/ Runs(a) \/ Stops(a)
    BY <2>3 DEF Builds, Prepare, ConfigUnreadable, OpenState, WriteState, MakeDisk,
       MakeSeed, Install, InstallRaises, Runs, Halt, Boot, BootFails, NothingToRestart,
       Stops, Fails, Interrupt, Crash
  <2>. QED
    BY <2>1, <2>2, <2>3 DEF Steps
<1>. QED
  BY <1>1, <1>2, <1>3

\* An exception stays with its attempt until it ends.
LEMMA ErrorStays ==
  ASSUME Base, NEW a \in Attempt, Steps(a), Creating(a), err'[a] = "none", pc'[a] \notin {"failed", "crashed"}
  PROVE  err[a] = "none"
<1>0. ProcOK /\ LabelsFit(a) /\ Memory(a)
  BY BaseParts
<1>1. CASE Unlock(a)
  BY <1>0, <1>1 DEF Unlock, Goto, ProcOK
<1>2. CASE Crash(a)
  BY <1>0, <1>2 DEF Crash, Goto, ProcOK
<1>3. CASE ~(Unlock(a) \/ Crash(a))
  <2>1. err' = err \/ \E x \in {"raised", "interrupted", "start"} : err' = [err EXCEPT ![a] = x]
    BY <1>3 DEF Steps, Asks, Begin, CheckCreate, CheckRestore, CheckDelete, FindBusy,
       Locks, TakeLock, Takes, MakeDirectory, Stop, Stopped, OpenMetadata, WriteMetadata,
       ChangeOwner, Moves, SkipPart, PartMissing, CopyStarts, CopyEnds, CopyImpossible,
       PartsCopied, Sweeps, RemoveFile, RemoveDirectory, Removes, Undefine,
       RemoveStorage, RemoveArtifacts, Forget, Builds, Prepare, ConfigUnreadable,
       OpenState, WriteState, MakeDisk, MakeSeed, Install, InstallRaises, Runs, Halt,
       Boot, BootFails, NothingToRestart, Stops, Fails, Interrupt, still, Advance, Raise
  <2>. QED
    BY <2>1, <1>0 DEF ProcOK
<1>. QED
  BY <1>1, <1>2, <1>3

\* What a step is that leaves nothing removed.
LEMMA Removed ==
  ASSUME Base, NEW b \in Attempt, Steps(b), NothingRemoved'
  PROVE  /\ NothingRemoved
         /\ Op(b) \notin {"delete", "destroy"} /\ ~Removing(b)
         /\ Creating(b) => err[b] = "none" /\ err'[b] = "none" /\ pc'[b] \notin {"failed", "crashed"}
         /\ dir \subseteq dir'
         /\ \A i \in Id : \/ record'[i] = record[i]
                          \/ Unlock(b) /\ Creating(b) /\ Svc(b) /\ i = Target(b)
<1>0. ProcOK /\ RecordOK /\ LabelsFit(b) /\ Memory(b) /\ Own(b)
  BY BaseParts, FilesParts, OwnStep
<1>1. Op(b) \notin {"delete", "destroy"}
  BY <1>0, NotIdle DEF NothingRemoved, Own, Op
<1>2. Creating(b) => err[b] = "none" /\ err'[b] = "none" /\ pc'[b] \notin {"failed", "crashed"}
  BY <1>0, ErrorStays DEF NothingRemoved, Own, Op, Creating
<1>3. ~Removing(b)
  BY <1>0, <1>1, <1>2 DEF Removing, LabelsFit, Memory
<1>4. NothingRemoved
  <2>1. SUFFICES ASSUME NEW a \in Attempt
                 PROVE  /\ Op(a) \in {"delete", "destroy"} => pc[a] = "idle"
                        /\ Op(a) = "create" => err[a] = "none" /\ pc[a] \notin {"failed", "crashed"}
    BY DEF NothingRemoved
  <2>2. CASE a = b
    BY <2>2, <1>1, <1>2, NotEnded DEF Creating, Ended
  <2>3. CASE a # b
    BY <2>3, <1>0 DEF NothingRemoved, Own, ProcOK, Op
  <2>. QED
    BY <2>2, <2>3
<1>5. ~(RemoveFile(b) \/ RemoveDirectory(b)) /\ ~CheckDelete(b)
  BY <1>1, <1>3 DEF RemoveFile, RemoveDirectory, Removing, CheckDelete
<1>6. dir \subseteq dir'
  BY <1>5 DEF Steps, Asks, Begin, CheckCreate, CheckRestore, FindBusy, Locks, TakeLock,
     Unlock, Takes, MakeDirectory, Stop, Stopped, OpenMetadata, WriteMetadata,
     ChangeOwner, Moves, SkipPart, PartMissing, CopyStarts, CopyEnds, CopyImpossible,
     PartsCopied, Opened, Sweeps, Removes, Undefine, RemoveStorage, RemoveArtifacts,
     Forget, Builds, Prepare, ConfigUnreadable, OpenState, WriteState, MakeDisk,
     MakeSeed, Install, InstallRaises, Runs, Halt, Boot, BootFails, NothingToRestart,
     Stops, Fails, Interrupt, Crash, host, points
<1>7. CASE Unlock(b)
  BY <1>0, <1>1, <1>2, <1>3, <1>4, <1>6, <1>7 DEF Unlock, RecordOK, Creating
<1>8. CASE ~Unlock(b)
  <2>1. UNCHANGED record
    BY <1>5, <1>8 DEF Steps, Asks, Begin, CheckCreate, CheckRestore, FindBusy, Locks,
     TakeLock, Takes, MakeDirectory, Stop, Stopped, OpenMetadata, WriteMetadata,
     ChangeOwner, Moves, SkipPart, PartMissing, CopyStarts, CopyEnds, CopyImpossible,
     PartsCopied, Sweeps, Removes, Undefine, RemoveStorage, RemoveArtifacts, Forget,
     Builds, Prepare, ConfigUnreadable, OpenState, WriteState, MakeDisk, MakeSeed,
     Install, InstallRaises, Runs, Halt, Boot, BootFails, NothingToRestart, Stops, Fails,
     Interrupt, Crash, host, points
  <2>. QED
    BY <2>1, <1>1, <1>2, <1>3, <1>4, <1>6
<1>. QED
  BY <1>7, <1>8

\* Where a create at one of its steps has come from.
LEMMA WorkFrom ==
  ASSUME Base, NEW a \in Attempt, Steps(a), Creating(a), InWork(a)', err'[a] = "none"
  PROVE  \/ InWork(a)
         \/ MakeDirectory(a) /\ Target(a) \notin dir /\ dir' = dir \cup {Target(a)}
            /\ UNCHANGED <<snap, record, part>> /\ pc'[a] = "stop"
<1>0. ProcOK /\ LabelsFit(a) /\ Memory(a)
  BY BaseParts
<1>. USE <1>0 DEF InWork, Goto, Advance, Raise, Handler, Creating, Restoring, LabelsFit,
         Memory, ProcOK, Copies, InTry, quiet
<1>1. CASE Asks(a) \/ Locks(a)
  BY <1>1 DEF Asks, Begin, CheckCreate, CheckRestore, CheckDelete, FindBusy, Locks,
       TakeLock, Entry, Unlock
<1>2. CASE Takes(a)
  BY <1>2 DEF Takes, MakeDirectory, Stop, Stopped, OpenMetadata, WriteMetadata,
       ChangeOwner
<1>3. CASE Moves(a)
  BY <1>3, CopyEffect
<1>4. CASE Sweeps(a)
  BY <1>4 DEF Sweeps, RemoveFile, RemoveDirectory, AfterSweep, still
<1>5. CASE Removes(a) \/ Runs(a)
  BY <1>5 DEF Removes, Undefine, RemoveStorage, RemoveArtifacts, Forget,
     Runs, Halt, Boot, BootFails, NothingToRestart, Starting
<1>6. CASE Stops(a)
  BY <1>6 DEF Stops, Fails, Interrupt, Crash
<1>7. CASE Builds(a)
  BY <1>7 DEF Builds, Prepare, ConfigUnreadable, OpenState, WriteState, MakeDisk,
       MakeSeed, Install, InstallRaises
<1>. QED
  BY <1>1, <1>2, <1>3, <1>4, <1>5, <1>6, <1>7 DEF Steps

\* A create at work, or on its way out, holds the lock.
LEMMA WorkHeld ==
  ASSUME NEW a \in Attempt, InWork(a)
  PROVE  pc[a] \in Held
  BY DEF InWork, Held

\* What is on record has a directory, and so has a create at work; what it is copying is there.
LEMMA DirsStep ==
  ASSUME Base, NewPoint, DataInv, NEW b \in Attempt, Steps(b), NothingRemoved'
  PROVE  /\ \A i \in Id : record'[i] # NoFile => i \in dir'
         /\ \A a \in Attempt : Creating(a)' =>
              /\ InWork(a)' => Target(a)' \in dir'
              /\ Fresh(a)' => record'[Target(a)'] = NoFile
              /\ pc'[a] = "copying" => snap'[Target(a)'][Part(a)'] # NoFile
<1>0. /\ ProcOK /\ SnapsOK /\ RecordOK /\ Own(b) /\ LabelsFit(b)
      /\ NothingRemoved /\ dir \subseteq dir' /\ ~Removing(b)
  BY BaseParts, FilesParts, OwnStep, Removed
<1>1. ASSUME NEW i \in Id, record'[i] # NoFile
      PROVE  i \in dir'
  <2>1. CASE record'[i] = record[i]
    BY <1>0, <1>1, <2>1 DEF DataInv
  <2>2. CASE Unlock(b) /\ Creating(b) /\ i = Target(b)
    BY <1>0, <2>2 DEF DataInv, InWork, Unlock
  <2>. QED
    BY <2>1, <2>2, Removed
<1>2. ASSUME NEW a \in Attempt, Creating(a)'
      PROVE  /\ Creating(a) /\ Target(a) \in Id /\ Target(a)' = Target(a)
             /\ (a = b => err'[a] = "none" /\ err[a] = "none")
             /\ (a # b => pc'[a] = pc[a] /\ part'[a] = part[a] /\ Part(a)' = Part(a))
  BY <1>0, <1>2, Removed DEF Own, Creating, Op, Target, ProcOK, Part, Order, Svc
<1>3. ASSUME NEW a \in Attempt, Creating(a)', InWork(a)'
      PROVE  Target(a)' \in dir'
  <2>1. CASE a = b
    BY <1>0, <1>2, <1>3, <2>1, WorkFrom DEF DataInv
  <2>2. CASE a # b
    BY <1>0, <1>2, <1>3, <2>2 DEF DataInv, InWork
  <2>. QED
    BY <2>1, <2>2
<1>4. ASSUME NEW a \in Attempt, Creating(a)', Fresh(a)'
      PROVE  record'[Target(a)'] = NoFile
  <2>1. CASE a = b
    <3>1. InWork(a)'
      BY <1>4 DEF Fresh, InWork, InTry
    <3>2. CASE Fresh(a)
      BY <3>2, <1>0, <1>2, <1>4, <2>1, Removed DEF DataInv, Unlock, Fresh
    <3>3. CASE MakeDirectory(a) /\ Target(a) \notin dir /\ UNCHANGED record
      BY <3>3, <1>0, <1>2, <1>4 DEF DataInv
    <3>. QED
      BY <3>1, <3>2, <3>3, <1>2, <1>4, <2>1, FreshFrom, WorkFrom DEF MakeDirectory,
           InWork, InTry
  <2>2. CASE a # b
    <3>1. Fresh(a) /\ pc[a] \in Held /\ pc[b] \notin Held
      BY <1>0, <1>2, <1>4, <2>2, FreshHeld, Alone DEF Fresh
    <3>2. record'[Target(a)] = record[Target(a)]
      BY <3>1, <1>2, <1>4, Removed DEF Unlock, Held
    <3>. QED
      BY <3>1, <3>2, <1>0, <1>2, <1>4 DEF DataInv
  <2>. QED
    BY <2>1, <2>2
<1>5. ASSUME NEW a \in Attempt, Creating(a)', pc'[a] = "copying"
      PROVE  snap'[Target(a)'][Part(a)'] # NoFile
  <2>1. CASE a = b
    <3>1. InWork(a)'
      BY <1>5 DEF InWork, InTry
    <3>2. CASE CopyStarts(a)
      <4>1. Part(a) \in Parts
        BY <1>0, <3>2, PartType DEF CopyStarts
      <4>2. Put(a, Part(a), Torn)
        BY <1>2, <1>5, <3>2 DEF CopyStarts, Creating
      <4>3. snap'[Target(a)][Part(a)] = Torn
        BY <4>1, <4>2, <1>0, <1>2, <1>5, Putting, BaseParts, FilesParts DEF Changes, Sets
      <4>4. Part(a)' = Part(a)
        BY <1>0, <3>2 DEF CopyStarts, quiet, Part, Order, Svc
      <4>. QED
        BY <4>3, <4>4, <1>2, <1>5, ValueAssumption
    <3>3. CASE ~CopyStarts(a)
      <4>. USE <1>0, <1>2, <1>5, <2>1, <3>3 DEF Goto, Advance, Raise, Handler, Creating,
      Restoring, LabelsFit, ProcOK, Copies, InTry
      <4>1. CASE Asks(a) \/ Locks(a) \/ Sweeps(a)
        BY <4>1 DEF Asks, Begin, CheckCreate, CheckRestore, CheckDelete, FindBusy, Locks,
           TakeLock, Entry, Unlock, Sweeps, RemoveFile, RemoveDirectory, AfterSweep,
           Removing
      <4>2. CASE Takes(a)
        BY <4>2 DEF Takes, MakeDirectory, Stop, Stopped, OpenMetadata, WriteMetadata,
             ChangeOwner
      <4>3. CASE Moves(a)
        BY <4>3 DEF Moves, SkipPart, PartMissing, CopyEnds, CopyImpossible, PartsCopied
      <4>4. CASE Removes(a) \/ Runs(a) \/ Stops(a)
        BY <4>4 DEF Removes, Undefine, RemoveStorage, RemoveArtifacts, Forget,
           Runs, Halt, Boot, BootFails, NothingToRestart, Starting, Stops, Fails,
           Interrupt, Crash
      <4>5. CASE Builds(a)
        BY <4>5 DEF Builds, Prepare, ConfigUnreadable, OpenState, WriteState, MakeDisk,
             MakeSeed, Install, InstallRaises
      <4>. QED
        BY <4>1, <4>2, <4>3, <4>4, <4>5 DEF Steps
    <3>. QED
      BY <3>2, <3>3
  <2>2. CASE a # b
    <3>1. pc[a] = "copying" /\ pc[b] \notin Held
      BY <1>0, <1>2, <1>5, <2>2, Alone DEF Held, InTry
    <3>2. UNCHANGED snap
      BY <3>1, <1>0, SnapEffect DEF Copies, Held, InTry
    <3>. QED
      BY <3>1, <3>2, <1>0, <1>2, <1>5, <2>2 DEF DataInv
  <2>. QED
    BY <2>1, <2>2
<1>. QED
  BY <1>1, <1>3, <1>4, <1>5

\* As long as nothing is removed, a listed snapshot stays listed and keeps its disk.
LEMMA ListedStep ==
  ASSUME Base, NewPoint, DataInv, NEW b \in Attempt, Steps(b), NothingRemoved', NEW i \in Id, Listed(i)
  PROVE  Listed(i)' /\ snap'[i]["disk"] = snap[i]["disk"]
<1>0. /\ ProcOK /\ Target(b) \in Id /\ NothingRemoved /\ ~Removing(b)
      /\ "meta" \in Files /\ "disk" \in Files /\ "meta" \notin Parts
  BY BaseParts, Removed DEF ProcOK, Target, Files, Parts
<1>1. record[i] # NoFile => record'[i] # NoFile
  <2>1. CASE Unlock(b) /\ Creating(b) /\ Svc(b) /\ i = Target(b)
    <3>1. err[b] = "none"
      BY <2>1, Removed
    <3>2. RecordOK
      BY BaseParts, FilesParts
    <3>3. record'[i] = [ran |-> ran[b] = "yes", parts |-> {p \in Parts : snap[i][p] # NoFile}]
      BY <2>1, <3>1, <3>2, <1>0 DEF Unlock, RecordOK, Creating
    <3>4. record'[i] \in Metadata
      BY <3>3, <1>0 DEF Metadata, ProcOK
    <3>. QED
      BY <3>4, ValueAssumption
  <2>2. CASE record'[i] = record[i]
    BY <2>2
  <2>. QED
    BY <2>1, <2>2, Removed
<1>2. /\ snap'[i]["disk"] = snap[i]["disk"]
      /\ snap[i]["meta"] # NoFile => snap'[i]["meta"] # NoFile
  <2>1. CASE UNCHANGED snap
    BY <2>1
  <2>2. CASE Creating(b) /\ Copies(b) /\ Part(b) \in Parts /\ \E x : Sets(Target(b), Part(b), x)
    <3>1. Fresh(b) /\ snap[Target(b)]["meta"] = NoFile /\ record[Target(b)] = NoFile
      BY <2>2, <1>0 DEF NewPoint, DataInv, Copies, Fresh
    <3>2. i # Target(b)
      BY <3>1 DEF Listed
    <3>. QED
      BY <2>2, <3>2 DEF Sets
  <2>3. CASE \E x \in {NoFile, Torn, Whole} :
               Sets(Target(b), "meta", x) /\ (x = NoFile => snap[Target(b)]["meta"] = NoFile)
    BY <2>3, <1>0 DEF Sets
  <2>. QED
    BY <2>1, <2>2, <2>3, <1>0, SnapEffect
<1>. QED
  BY <1>1, <1>2 DEF Listed

\* A restore is under way only after it has found what it requires.
LEMMA RestoreFrom ==
  ASSUME Base, NEW a \in Attempt, Steps(a), Restoring(a), pc'[a] \in Held \cup {"lock"}
  PROVE  \/ pc[a] \in Held \cup {"lock"}
         \/ pc[a] = "check" /\ CheckRestore(a) /\ Accepts(a) /\ pc'[a] = "lock"
            /\ seen'[a] = IF Svc(a) THEN record[Target(a)] ELSE snap[Target(a)]["meta"]
<1>0. ProcOK /\ LabelsFit(a)
  BY BaseParts
<1>1. pc[a] \in PCs /\ pc[a] \notin Ended \cup {"sweep"}
  BY <1>0, NotEnded DEF ProcOK, LabelsFit, Restoring, Ended
<1>2. CASE pc[a] = "idle"
  BY <1>0, <1>2, NotEnded DEF Begin, Goto, ProcOK, Restoring, Held, InTry
<1>3. CASE pc[a] = "check"
  <2>1. CheckRestore(a) \/ Stops(a)
    BY <1>3, <1>0 DEF Steps, Asks, Begin, CheckCreate, CheckDelete, FindBusy, Locks,
     TakeLock, Unlock, Takes, MakeDirectory, Stop, Stopped, OpenMetadata, WriteMetadata,
     ChangeOwner, Moves, SkipPart, PartMissing, CopyStarts, CopyEnds, CopyImpossible,
     PartsCopied, Sweeps, RemoveFile, RemoveDirectory, Removes, Undefine, RemoveStorage,
     RemoveArtifacts, Forget, Builds, Prepare, ConfigUnreadable, OpenState, WriteState,
     MakeDisk, MakeSeed, Install, InstallRaises, Runs, Halt, Boot, BootFails,
     NothingToRestart, Starting, Restoring
  <2>2. CASE CheckRestore(a)
    BY <2>2, <1>0, <1>3 DEF CheckRestore, Goto, ProcOK, Held, InTry
  <2>3. CASE Stops(a)
    BY <2>3, <1>0, <1>3 DEF Stops, Fails, Interrupt, Crash, Held, InTry, Goto, ProcOK
  <2>. QED
    BY <2>1, <2>2, <2>3
<1>. QED
  BY <1>1, <1>2, <1>3 DEF PCs

\* A create goes past the disk by copying it.
LEMMA TakingFrom ==
  ASSUME Base, NEW a \in Attempt, Steps(a), Creating(a), Taking(a)', err'[a] = "none", ~Removing(a)
  PROVE  Taking(a) \/ (CopyEnds(a) /\ part[a] = 1 /\ pc'[a] = "copy")
<1>0. ProcOK /\ LabelsFit(a) /\ Memory(a)
  BY BaseParts
<1>. USE <1>0 DEF Taking, Goto, Advance, Raise, Handler, Creating, Restoring, LabelsFit,
         Memory, ProcOK, Copies, InTry, quiet, Removing, Held, Ended
<1>1. CASE Asks(a) \/ Locks(a)
  BY <1>1 DEF Asks, Begin, CheckCreate, CheckRestore, CheckDelete, FindBusy, Locks,
       TakeLock, Entry, Unlock
<1>2. CASE Takes(a)
  BY <1>2 DEF Takes, MakeDirectory, Stop, Stopped, OpenMetadata, WriteMetadata,
       ChangeOwner
<1>3. CASE Moves(a)
  <2>1. CASE SkipPart(a)
    <3>1. part[a] = 1 => Part(a) = "disk"
      BY OrderParts
    <3>2. Part(a) # "disk"
      BY <2>1 DEF SkipPart, Named, Required
    <3>3. pc[a] = "copy" /\ part[a] \in 1..6 /\ part[a] # 1
      BY <2>1, <3>1, <3>2 DEF SkipPart
    <3>. QED
      BY <3>3
  <2>2. CASE PartMissing(a) \/ CopyStarts(a) \/ CopyImpossible(a)
    BY <2>2 DEF PartMissing, CopyStarts, CopyImpossible
  <2>3. CASE CopyEnds(a)
    BY <2>3 DEF CopyEnds
  <2>4. CASE PartsCopied(a)
    <3>1. part[a] \in Nat /\ part[a] > Len(Order(a)) /\ Len(Order(a)) = (IF Svc(a) THEN 3 ELSE 5) /\ Copies(a)
      BY <2>4, OrderParts DEF PartsCopied
    <3>. QED
      BY <3>1
  <2>. QED
    BY <1>3, <2>1, <2>2, <2>3, <2>4 DEF Moves
<1>4. CASE Sweeps(a)
  BY <1>4 DEF Sweeps, RemoveFile, RemoveDirectory
<1>5. CASE Removes(a) \/ Runs(a)
  BY <1>5 DEF Removes, Undefine, RemoveStorage, RemoveArtifacts, Forget,
     Runs, Halt, Boot, BootFails, NothingToRestart, Starting
<1>6. CASE Stops(a)
  BY <1>6 DEF Stops, Fails, Interrupt, Crash
<1>7. CASE Builds(a)
  BY <1>7 DEF Builds, Prepare, ConfigUnreadable, OpenState, WriteState, MakeDisk,
       MakeSeed, Install, InstallRaises
<1>. QED
  BY <1>1, <1>2, <1>3, <1>4, <1>5, <1>6, <1>7 DEF Steps

\* Only the first part is the disk.
LEMMA CopyPart ==
  ASSUME Base, NEW a \in Attempt, Copies(a), part[a] <= Len(Order(a))
  PROVE  Part(a) \in Parts /\ (Part(a) = "disk" <=> part[a] = 1)
<1>1. part[a] \in 1..6
  BY BaseParts DEF ProcOK
<1>. QED
  BY <1>1, OrderParts, OrderLength DEF Parts

\* A create past the disk holds the lock.
LEMMA TakingHeld ==
  ASSUME NEW a \in Attempt, Taking(a)
  PROVE  pc[a] \in Held
  BY DEF Taking, Copies, Held, InTry

\* While no snapshot has been listed, the VM keeps its disk; with the first one there is one to be found.
LEMMA PristineStep ==
  ASSUME Base, NewPoint, DataInv, NEW b \in Attempt, Steps(b), NothingRemoved', Pristine
  PROVE  Found' \/ Pristine'
<1>0. /\ ProcOK /\ SnapsOK /\ VmOK /\ RecordOK /\ Own(b) /\ LabelsFit(b) /\ Target(b) \in Id
      /\ NothingRemoved /\ ~Removing(b) /\ task' = task /\ DiskData' = DiskData
      /\ "meta" \in Files /\ "disk" \in Files /\ "meta" \notin Parts /\ "disk" \in Parts
  BY BaseParts, FilesParts, OwnStep, Removed DEF Own, ProcOK, Target, Files, Parts
<1>1. vm'["disk"] \in DiskData
  <2>1. ~(Restoring(b) /\ Copies(b))
    BY DEF Pristine, Copies, Held, InTry
  <2>2. Op(b) # "destroy"
    BY Removed
  <2>3. vm["disk"] # NoFile
    BY NotData DEF Pristine
  <2>4. vm'["disk"] = vm["disk"]
    BY <2>1, <2>2, <2>3, <1>0, VmEffect DEF VmSets
  <2>. QED
    BY <2>4 DEF Pristine
<1>2. ASSUME NEW a \in Attempt, Restoring(a)'
      PROVE  pc'[a] \notin Held \cup {"lock"}
  <2>1. Restoring(a) /\ pc[a] \notin Held \cup {"lock"}
    BY <1>0, <1>2 DEF Pristine, Restoring, Op
  <2>2. CASE a = b
    <3>1. ~Listed(Target(a))
      BY <2>2, <1>0 DEF Pristine
    <3>. QED
      BY <2>1, <2>2, <3>1, RestoreFrom DEF Accepts, Listed
  <2>3. CASE a # b
    BY <2>1, <2>3, <1>0 DEF Own, ProcOK
  <2>. QED
    BY <2>2, <2>3
<1>3. ASSUME NEW a \in Attempt, Creating(a)', Taking(a)'
      PROVE  snap'[Target(a)']["disk"] \in DiskData
  <2>0. Creating(a) /\ Target(a)' = Target(a) /\ Target(a) \in Id
    BY <1>0, <1>3 DEF Creating, Op, Target, ProcOK
  <2>1. CASE a = b
    <3>0. err'[a] = "none"
      BY <2>0, <2>1, Removed
    <3>1. CASE Taking(a)
      <4>1. snap[Target(a)]["disk"] \in DiskData
        BY <3>1, <2>0 DEF Pristine
      <4>2. CASE UNCHANGED snap
        BY <4>1, <4>2, <2>0
      <4>3. CASE /\ Creating(a) /\ Copies(a) /\ Part(a) \in Parts /\ part[a] <= Len(Order(a))
                 /\ \E x : Sets(Target(a), Part(a), x)
        <5>1. part[a] > 1
          BY <3>1, <4>3 DEF Taking, Copies
        <5>2. Part(a) # "disk"
          <6>1. part[a] # 1
            BY <5>1
          <6>. QED
            BY <4>3, <6>1, CopyPart
        <5>. QED
          BY <4>1, <4>3, <5>2, <2>0, <1>0 DEF Sets
      <4>4. CASE \E x : Sets(Target(a), "meta", x)
        BY <4>1, <4>4, <2>0, <1>0 DEF Sets
      <4>. QED
        BY <4>2, <4>3, <4>4, <2>1, <1>0, SnapEffect
    <3>2. CASE CopyEnds(a) /\ part[a] = 1
      <4>1. Part(a) = "disk" /\ pc[a] = "copying" /\ Creating(a)
        BY <3>2, <2>0, OrderParts DEF CopyEnds
      <4>2. snap[Target(a)]["disk"] # NoFile
        BY <4>1, <2>0, <1>0 DEF DataInv
      <4>3. Put(a, "disk", vm["disk"])
        BY <3>2, <4>1, <4>2 DEF CopyEnds, Arrives, Source, Creating
      <4>4. Sets(Target(a), "disk", vm["disk"])
        BY <4>1, <4>3, <1>0, <2>0, Putting DEF Changes
      <4>. QED
        BY <4>4, <2>0 DEF Sets, Pristine
    <3>. QED
      BY <3>0, <3>1, <3>2, <1>0, <1>3, <2>0, <2>1, TakingFrom
  <2>2. CASE a # b
    <3>1. Taking(a) /\ pc[a] \in Held /\ pc[b] \notin Held
      BY <2>2, <1>0, <1>3, TakingHeld, Alone DEF Taking, Copies, Own, ProcOK
    <3>2. UNCHANGED snap
      BY <3>1, <1>0, SnapEffect DEF Copies, Held, InTry
    <3>. QED
      BY <3>1, <3>2, <2>0 DEF Pristine
  <2>. QED
    BY <2>1, <2>2
<1>4. ASSUME NEW i \in Id, Listed(i)'
      PROVE  Found'
  <2>1. ~Listed(i)
    BY DEF Pristine
  <2>2. CASE record'[i] # NoFile
    <3>1. Unlock(b) /\ Creating(b) /\ i = Target(b) /\ UNCHANGED snap
      BY <2>1, <2>2, Removed DEF Listed, Unlock
    <3>2. snap[i]["disk"] \in DiskData
      BY <3>1 DEF Pristine, Taking, Unlock
    <3>. QED
      BY <3>1, <3>2, <1>4 DEF Found
  <2>3. CASE record'[i] = NoFile
    <3>1. snap'[i]["meta"] # NoFile /\ snap[i]["meta"] = NoFile
      BY <2>1, <2>3, <1>4 DEF Listed
    <3>2. /\ Creating(b) /\ pc[b] \in {"meta", "writing"} /\ i = Target(b)
          /\ snap'[i]["disk"] = snap[i]["disk"]
      BY <3>1, <1>0, SnapEffect DEF Sets
    <3>3. snap[i]["disk"] \in DiskData
      BY <3>2 DEF Pristine, Taking
    <3>. QED
      BY <3>2, <3>3, <1>4 DEF Found
  <2>. QED
    BY <2>2, <2>3
<1>. QED
  BY <1>1, <1>2, <1>3, <1>4 DEF Pristine

\* Every step of an attempt keeps the invariant on the VM's data.
LEMMA DataStep ==
  ASSUME Base, NewPoint, DataInv, NEW b \in Attempt, Steps(b)
  PROVE  DataInv'
<1>1. ASSUME NothingRemoved', Found
      PROVE  Found'
  BY <1>1, ListedStep DEF Found
<1>2. ASSUME NothingRemoved'
      PROVE  Found' \/ Pristine'
  BY <1>1, <1>2, PristineStep, Removed DEF DataInv
<1>3. ASSUME NothingRemoved'
      PROVE  /\ \A i \in Id : record'[i] # NoFile => i \in dir'
             /\ \A a \in Attempt : Creating(a)' =>
                  /\ InWork(a)' => Target(a)' \in dir'
                  /\ Fresh(a)' => record'[Target(a)'] = NoFile
                  /\ pc'[a] = "copying" => snap'[Target(a)'][Part(a)'] # NoFile
  BY <1>3, DirsStep
<1>. QED
  BY <1>2, <1>3 DEF DataInv

\* The VM has its disk to begin with.
LEMMA InitData ==
  ASSUME Init
  PROVE  DataInv
<1>1. PICK origin \in Taken :
         /\ dir = {i \in Id : origin[i] # "none"}
         /\ snap = [i \in Id |-> Snapped(origin[i])]
         /\ record = [i \in Id |-> IF origin[i] = "service"
                                   THEN [ran |-> TRUE, parts |-> {"disk", "seed", "local"}]
                                   ELSE NoFile]
  BY DEF Init
<1>2. pc = [a \in Attempt |-> "idle"] /\ vm["disk"] \in DiskData
  BY DEF Init, Original, DiskData
<1>3. ASSUME NEW i \in Id
      PROVE  /\ record[i] # NoFile => i \in dir
             /\ Listed(i) => snap[i]["disk"] \in DiskData
  <2>1. origin[i] \in Origins
    BY <1>1, ChoiceAssumption
  <2>2. snap[i]["disk"] = IF origin[i] \in {"cli", "service", "late"} THEN [key |-> 1, ver |-> 0]
                          ELSE IF origin[i] = "early" THEN Torn ELSE NoFile
    <3>. DEFINE o == origin[i]
                f == snap[i]
    <3>1. f = Snapped(o)
      BY <1>1
    <3>. HIDE DEF o, f
    <3>2. /\ o = "none" => f = [p \in Files |-> NoFile]
          /\ o = "cli" => f = [p \in Files |-> IF p = "meta" THEN Whole ELSE Original(0)[p]]
          /\ o = "service" => f = [p \in Files |-> IF p \in {"disk", "seed", "local"}
                                                   THEN Original(0)[p] ELSE NoFile]
          /\ o = "early" => f = [p \in Files |-> IF p = "disk" THEN Torn ELSE NoFile]
          /\ o = "late" => f = [p \in Files |-> IF p = "meta" THEN Torn ELSE Original(0)[p]]
      BY <3>1 DEF Snapped
    <3>3. f["disk"] = IF o \in {"cli", "service", "late"} THEN [key |-> 1, ver |-> 0]
                      ELSE IF o = "early" THEN Torn ELSE NoFile
      BY <2>1, <3>2 DEF o, Origins, Files, Parts, Original
    <3>. QED
      BY <3>3 DEF o, f
  <2>3. snap[i]["meta"] # NoFile => origin[i] \in {"cli", "late"}
    <3>. DEFINE o == origin[i]
                f == snap[i]
    <3>1. f = Snapped(o)
      BY <1>1
    <3>. HIDE DEF o, f
    <3>2. /\ o = "none" => f = [p \in Files |-> NoFile]
          /\ o = "service" => f = [p \in Files |-> IF p \in {"disk", "seed", "local"}
                                                   THEN Original(0)[p] ELSE NoFile]
          /\ o = "early" => f = [p \in Files |-> IF p = "disk" THEN Torn ELSE NoFile]
      BY <3>1 DEF Snapped
    <3>3. f["meta"] # NoFile => o \in {"cli", "late"}
      BY <2>1, <3>2 DEF o, Origins, Files, Parts
    <3>. QED
      BY <3>3 DEF o, f
  <2>4. record[i] # NoFile => origin[i] = "service"
    BY <1>1
  <2>. QED
    BY <1>1, <2>2, <2>3, <2>4 DEF Listed, DiskData
<1>4. Found \/ \A i \in Id : ~Listed(i)
  BY <1>3 DEF Found
<1>5. \A a \in Attempt : ~Taking(a) /\ ~InWork(a) /\ ~Fresh(a) /\ pc[a] = "idle"
  BY <1>2 DEF Taking, InWork, Fresh, Copies, InTry
<1>6. Found \/ Pristine
  BY <1>2, <1>4, <1>5 DEF Pristine, Held, InTry
<1>. QED
  BY <1>3, <1>5, <1>6 DEF DataInv

\* As long as nobody removes a snapshot, wherever a restore stops there is the VM's data
\* in the VM or in a snapshot that can be found again.
THEOREM SourceKept == Spec => []RestoreKeepsSource
<1>1. ASSUME Base, NewPoint, DataInv, [Next]_vars
      PROVE  DataInv'
  <2>1. CASE GuestWrites
    <3>1. Base /\ GuestWrites
      BY <1>1, <2>1
    <3>2. UNCHANGED <<quiet, pc, err, dir, snap, record>> /\ vm'["disk"] \in DiskData
      BY <3>1, GuestStep DEF points
    <3>. QED
      BY <3>2, <1>1 DEF DataInv, NothingRemoved, Found, Pristine, Listed, InWork, Fresh,
         Taking, Copies, Creating, Restoring, Op, Svc, Target, Part, Order, quiet
  <2>2. CASE UNCHANGED vars
    BY <1>1, <2>2 DEF vars, quiet, counts, points, DataInv, NothingRemoved, Found,
       Pristine, Listed, InWork, Fresh, Taking, Copies, Creating, Restoring, Op, Svc,
       Target, Part, Order
  <2>. QED
    BY <1>1, <2>1, <2>2, OneStep, DataStep
<1>2. DataInv => RestoreKeepsSource
  BY DEF DataInv, RestoreKeepsSource, Found, Pristine
<1>. QED
  BY <1>1, <1>2, InitData, NewPoints, PTL DEF Spec, Known
-----------------------------------------------------------------------------
(* What a service has on record, and what a restore has copied. *)
Full == {"disk", "seed", "local"}
Holds(i, P) == snap[i]["conf"] = NoFile /\ \A p \in Parts : snap[i][p] # NoFile => p \in P

\* A record names every file of its snapshot, and so does what a restore has read of
\* it; a snapshot that is taken again is one that came whole from before.
ServiceInv ==
    /\ \A i \in Id : record[i] # NoFile => Holds(i, record[i].parts)
    /\ \A a \in Attempt : Creating(a) /\ Svc(a) /\ InWork(a) /\ err[a] = "none"
                            => snap[Target(a)]["conf"] = NoFile
    /\ \A a \in Attempt : Restoring(a) /\ Svc(a) /\ seen[a] # NoFile
                            => Holds(Target(a), seen[a].parts)
    /\ \A b \in Attempt : Creating(b) /\ Svc(b) /\ pc[b] \notin Ended =>
         /\ record[Target(b)] # NoFile => Full \subseteq record[Target(b)].parts
         /\ \A a \in Attempt : /\ Restoring(a) /\ Svc(a) /\ Target(a) = Target(b)
                               /\ seen[a] # NoFile
                               => Full \subseteq seen[a].parts

\* What a restore remembers is what it accepted.
LEMMA SeenEffect ==
  ASSUME Base, NEW c \in Attempt, Steps(c), NEW a \in Attempt
  PROVE  \/ seen'[a] \in {seen[a], NoFile}
         \/ /\ a = c /\ CheckRestore(a) /\ Accepts(a) /\ UNCHANGED <<snap, record>>
            /\ Restoring(a) /\ seen'[a] = IF Svc(a) THEN record[Target(a)] ELSE snap[Target(a)]["meta"]
<1>0. ProcOK
  BY BaseParts
<1>1. CASE CheckRestore(c)
  BY <1>0, <1>1 DEF CheckRestore, ProcOK, host, points, Restoring
<1>2. CASE Unlock(c) \/ Crash(c)
  BY <1>0, <1>2 DEF Unlock, Crash, Exit, ProcOK
<1>3. CASE ~(CheckRestore(c) \/ Unlock(c) \/ Crash(c))
  BY <1>3 DEF Steps, Asks, Begin, CheckCreate, CheckDelete, FindBusy, Locks, TakeLock,
     Takes, MakeDirectory, Stop, Stopped, OpenMetadata, WriteMetadata, ChangeOwner,
     Moves, SkipPart, PartMissing, CopyStarts, CopyEnds, CopyImpossible, PartsCopied,
     Sweeps, RemoveFile, RemoveDirectory, Removes, Undefine, RemoveStorage,
     RemoveArtifacts, Forget, Builds, Prepare, ConfigUnreadable, OpenState, WriteState,
     MakeDisk, MakeSeed, Install, InstallRaises, Runs, Halt, Boot, BootFails,
     NothingToRestart, Stops, Fails, Interrupt, still, quiet
<1>. QED
  BY <1>1, <1>2, <1>3

\* Snapshots lose files, except that a create adds to its own.
LEMMA SnapParts ==
  ASSUME Base, NEW c \in Attempt, Steps(c), NEW i \in Id, NEW p \in Parts
  PROVE  \/ snap'[i][p] \in {snap[i][p], NoFile}
         \/ Creating(c) /\ Copies(c) /\ i = Target(c) /\ p = Part(c) /\ (Svc(c) => p \in Full)
<1>0. ProcOK /\ Target(c) \in Id /\ p \in Files /\ p # "meta"
  BY BaseParts DEF ProcOK, Target, Parts, Files
<1>1. CASE \E j \in Id, f \in Files : Sets(j, f, NoFile)
  BY <1>0, <1>1 DEF Sets
<1>2. CASE /\ Creating(c) /\ Copies(c) /\ Part(c) \in Parts /\ part[c] <= Len(Order(c))
           /\ \E x : Sets(Target(c), Part(c), x)
  <2>1. CASE i = Target(c) /\ p = Part(c)
    <3>1. Svc(c) => part[c] \in 1..3
      <4>1. part[c] \in 1..6 /\ Len(Order(c)) = IF Svc(c) THEN 3 ELSE 5
        BY <1>0, OrderParts DEF ProcOK
      <4>. QED
        BY <4>1, <1>2
    <3>. QED
      BY <1>2, <2>1, <3>1, OrderParts DEF Full
  <2>2. CASE ~(i = Target(c) /\ p = Part(c))
    BY <1>0, <1>2, <2>2 DEF Sets
  <2>. QED
    BY <2>1, <2>2
<1>3. CASE \E x : Sets(Target(c), "meta", x)
  BY <1>0, <1>3 DEF Sets
<1>4. CASE UNCHANGED snap
  BY <1>4
<1>. QED
  BY <1>1, <1>2, <1>3, <1>4, SnapEffect

\* A snapshot that has no files but those of a record gets no others, except from a create.
LEMMA HoldsStep ==
  ASSUME Base, NEW c \in Attempt, Steps(c), NEW i \in Id, NEW P, Holds(i, P),
         Creating(c) /\ Copies(c) /\ i = Target(c) => Svc(c) /\ Full \subseteq P
  PROVE  Holds(i, P)'
<1>1. "conf" \in Parts /\ "conf" \notin Full
  BY DEF Parts, Full
<1>2. ASSUME NEW p \in Parts, snap'[i][p] \notin {snap[i][p], NoFile}
      PROVE  p \in P /\ p # "conf"
  BY <1>1, <1>2, SnapParts
<1>3. snap'[i]["conf"] = NoFile
  BY <1>1, <1>2 DEF Holds
<1>4. ASSUME NEW p \in Parts, snap'[i][p] # NoFile
      PROVE  p \in P
  BY <1>2, <1>4 DEF Holds
<1>. QED
  BY <1>3, <1>4 DEF Holds

\* A create that is at work with no exception has had none.
LEMMA WorkKeeps ==
  ASSUME Base, NEW a \in Attempt, Steps(a), Creating(a), InWork(a)', err'[a] = "none"
  PROVE  err[a] = "none"
<1>1. pc'[a] \notin {"failed", "crashed"}
  BY DEF InWork, InTry
<1>. QED
  BY <1>1, ErrorStays

\* Every step of an attempt keeps the invariant on what services have on record.
LEMMA ServiceStep ==
  ASSUME OwnIds, Known, ServiceInv, NEW c \in Attempt, Steps(c)
  PROVE  ServiceInv'
<1>0. /\ Base /\ ProcOK /\ SnapsOK /\ RecordOK /\ Own(c) /\ task' = task /\ Memory(c)
      /\ NewPoint /\ task \in Tasking /\ \A a \in Attempt : Target(a) \in Id
  BY BaseParts, FilesParts, OwnStep DEF Known, Own, ProcOK, Target
<1>1. ASSUME NEW a \in Attempt
      PROVE  /\ Creating(a)' = Creating(a) /\ Restoring(a)' = Restoring(a) /\ Svc(a)' = Svc(a)
             /\ Target(a)' = Target(a)
  BY <1>0 DEF Creating, Restoring, Svc, Op, Target
<1>2. ASSUME NEW i \in Id, record'[i] # NoFile
      PROVE  Holds(i, record[i].parts)'
  <2>1. CASE record'[i] = record[i]
    <3>1. Creating(c) /\ Copies(c) => i # Target(c)
      BY <2>1, <1>0, <1>2 DEF NewPoint, Copies, Ended
    <3>2. Holds(i, record[i].parts)
      BY <2>1, <1>2 DEF ServiceInv
    <3>3. PICK P : P = record[i].parts
      OBVIOUS
    <3>4. Holds(i, P)'
      BY <3>1, <3>2, <3>3, <1>0, HoldsStep
    <3>. QED
      BY <3>3, <3>4, <2>1 DEF Holds
  <2>2. CASE /\ Unlock(c) /\ Creating(c) /\ Svc(c) /\ err[c] = "none" /\ i = Target(c)
             /\ record'[i] = [ran |-> ran[c] = "yes", parts |-> {p \in Parts : snap[i][p] # NoFile}]
    <3>1. snap[i]["conf"] = NoFile /\ UNCHANGED snap
      BY <2>2 DEF ServiceInv, InWork, Unlock
    <3>2. record'[i].parts = {p \in Parts : snap[i][p] # NoFile}
      BY <2>2
    <3>. QED
      BY <3>1, <3>2 DEF Holds
  <2>. QED
    BY <2>1, <2>2, <1>0, <1>2, RecordEffect
<1>3. ASSUME NEW a \in Attempt, Creating(a), Svc(a), InWork(a)', err'[a] = "none"
      PROVE  snap'[Target(a)]["conf"] = NoFile
  <2>0. "conf" \in Parts /\ "conf" \in Files /\ "conf" \notin Full
    BY DEF Parts, Files, Full
  <2>1. CASE a = c
    <3>1. CASE InWork(a)
      <4>1. err[a] = "none"
        BY <1>0, <1>3, <2>1, <3>1, WorkKeeps
      <4>. QED
        BY <2>0, <2>1, <3>1, <4>1, <1>0, <1>3, SnapParts DEF ServiceInv
    <3>2. CASE Target(a) \notin dir /\ UNCHANGED snap
      BY <2>0, <3>2, <1>0 DEF SnapsOK, Empty
    <3>. QED
      BY <2>1, <3>1, <3>2, <1>0, <1>3, WorkFrom
  <2>2. CASE a # c
    <3>1. InWork(a) /\ err[a] = "none"
      BY <2>2, <1>0, <1>3 DEF Own, ProcOK, InWork
    <3>2. snap'[Target(a)]["conf"] \in {snap[Target(a)]["conf"], NoFile}
      BY <2>0, <2>2, <3>1, <1>0, WorkHeld, OthersRemove
    <3>. QED
      BY <3>1, <3>2, <1>3 DEF ServiceInv
  <2>. QED
    BY <2>1, <2>2
<1>4. ASSUME NEW a \in Attempt, Restoring(a), Svc(a), seen'[a] # NoFile
      PROVE  Holds(Target(a), seen[a].parts)'
  <2>1. CASE seen'[a] = seen[a]
    <3>1. Creating(c) /\ Copies(c) /\ Target(c) = Target(a) => Svc(c) /\ Full \subseteq seen[a].parts
      <4>1. SUFFICES ASSUME Creating(c), Copies(c), Target(c) = Target(a)
                     PROVE  Svc(c) /\ Full \subseteq seen[a].parts
        OBVIOUS
      <4>2. c # a
        BY <1>4, <4>1 DEF Creating, Restoring
      <4>3. Svc(c)
        BY <1>0, <1>4, <4>1, <4>2 DEF OwnIds, Creating, Restoring, Op, Svc, Target, Snaps
      <4>. QED
        BY <2>1, <4>1, <4>3, <1>4 DEF ServiceInv, Copies, Ended
    <3>2. Holds(Target(a), seen[a].parts)
      BY <2>1, <1>4 DEF ServiceInv
    <3>3. PICK i \in Id : i = Target(a)
      BY <1>0
    <3>4. PICK P : P = seen[a].parts
      OBVIOUS
    <3>5. Holds(i, P)'
      BY <3>1, <3>2, <3>3, <3>4, <1>0, HoldsStep
    <3>. QED
      BY <3>3, <3>4, <3>5, <2>1, <1>1 DEF Holds
  <2>2. CASE Accepts(a) /\ UNCHANGED <<snap, record>> /\ seen'[a] = record[Target(a)]
    BY <2>2, <1>0, <1>1, <1>4 DEF ServiceInv, Holds
  <2>. QED
    BY <2>1, <2>2, <1>0, <1>4, SeenEffect
<1>5. ASSUME NEW b \in Attempt, Creating(b), Svc(b), pc'[b] \notin Ended
      PROVE  /\ record'[Target(b)] # NoFile => Full \subseteq record'[Target(b)].parts
             /\ \A a \in Attempt : /\ Restoring(a) /\ Svc(a) /\ Target(a) = Target(b)
                                   /\ seen'[a] # NoFile
                                   => Full \subseteq seen'[a].parts
  <2>1. pc[b] \notin Ended
    <3>1. CASE b = c
      BY <3>1, NotEnded
    <3>2. CASE b # c
      BY <3>2, <1>0, <1>5 DEF Own, ProcOK
    <3>. QED
      BY <3>1, <3>2
  <2>2. ASSUME record'[Target(b)] # NoFile
        PROVE  Full \subseteq record'[Target(b)].parts
    <3>1. CASE record'[Target(b)] = record[Target(b)]
      BY <2>1, <2>2, <3>1, <1>5 DEF ServiceInv
    <3>2. CASE Unlock(c) /\ Creating(c) /\ Svc(c) /\ Target(b) = Target(c) /\ err[c] = "none"
      <4>1. b # c
        BY <3>2, <1>0, <1>5 DEF Unlock, Goto, Ended, ProcOK
      <4>. QED
        BY <4>1, <3>2, <1>0, <1>5 DEF OwnIds, Creating, Op, Svc, Target, Snaps
    <3>. QED
      BY <3>1, <3>2, <2>2, <1>0, RecordEffect
  <2>3. ASSUME NEW a \in Attempt, Restoring(a), Svc(a), Target(a) = Target(b), seen'[a] # NoFile
        PROVE  Full \subseteq seen'[a].parts
    <3>1. CASE seen'[a] = seen[a]
      BY <2>1, <2>3, <3>1, <1>5 DEF ServiceInv
    <3>2. CASE seen'[a] = record[Target(a)]
      BY <2>1, <2>3, <3>2, <1>5 DEF ServiceInv
    <3>. QED
      BY <3>1, <3>2, <2>3, <1>0, SeenEffect
  <2>. QED
    BY <2>2, <2>3
<1>. QED
  BY <1>1, <1>2, <1>3, <1>4, <1>5 DEF ServiceInv

\* Services have full records to begin with.
LEMMA InitService ==
  ASSUME Init
  PROVE  ServiceInv
<1>1. PICK origin \in Taken :
         /\ snap = [i \in Id |-> Snapped(origin[i])]
         /\ record = [i \in Id |-> IF origin[i] = "service"
                                   THEN [ran |-> TRUE, parts |-> {"disk", "seed", "local"}]
                                   ELSE NoFile]
  BY DEF Init
<1>2. pc = [a \in Attempt |-> "idle"] /\ seen = [a \in Attempt |-> NoFile]
  BY DEF Init
<1>3. ASSUME NEW i \in Id, record[i] # NoFile
      PROVE  Holds(i, record[i].parts) /\ record[i].parts = Full
  <2>1. origin[i] = "service" /\ record[i].parts = Full
    BY <1>1, <1>3 DEF Full
  <2>2. snap[i] = Snapped("service")
    BY <1>1, <2>1
  <2>3. snap[i] = [p \in Files |-> IF p \in {"disk", "seed", "local"} THEN Original(0)[p] ELSE NoFile]
    BY <2>2 DEF Snapped
  <2>. QED
    BY <2>1, <2>3 DEF Holds, Full, Files, Parts
<1>4. \A a \in Attempt : ~InWork(a) /\ seen[a] = NoFile
  BY <1>2 DEF InWork, InTry
<1>5. \A a \in Attempt : Target(a) \in Id
  BY ChoiceAssumption DEF Init, Target
<1>. QED
  BY <1>3, <1>4, <1>5 DEF ServiceInv

\* When a part is copied.
Rank(a) == IF Svc(a) THEN [disk |-> 1, seed |-> 2, local |-> 3, conf |-> 9, state |-> 9]
           ELSE [disk |-> 1, seed |-> 2, conf |-> 3, state |-> 4, local |-> 5]
Back(a, p) == \/ snap[Target(a)][p] \in {NoFile, vm[p]}
              \/ p = "local" /\ ~Svc(a) /\ snap[Target(a)]["state"] # Whole
Copied(a) ==
    Restoring(a) =>
      /\ Copies(a) \/ pc[a] \in {"save", "write", "install"} => domain = "none"
      /\ Copies(a) => \A p \in Parts : Rank(a)[p] < part[a] => Back(a, p)
      /\ pc[a] \in {"save", "write", "install"} => \A p \in Parts \ {"state"} : Back(a, p)

\* Parts are copied in the order of their ranks.
LEMMA RankPart ==
  ASSUME NEW a \in Attempt, part[a] \in 1..6, part[a] <= Len(Order(a)), NEW p \in Parts
  PROVE  /\ Part(a) \in Parts /\ Rank(a)[Part(a)] = part[a]
         /\ Rank(a)[p] \in 1..9 /\ (Rank(a)[p] = part[a] <=> Part(a) = p)
<1>1. CASE Svc(a)
  <2>1. Part(a) = <<"disk", "seed", "local">>[part[a]] /\ part[a] \in 1..3
    BY <1>1 DEF Part, Order
  <2>. QED
    BY <1>1, <2>1 DEF Rank, Parts
<1>2. CASE ~Svc(a)
  <2>1. Part(a) = <<"disk", "seed", "conf", "state", "local">>[part[a]] /\ part[a] \in 1..5
    BY <1>2 DEF Part, Order
  <2>. QED
    BY <1>2, <2>1 DEF Rank, Parts
<1>. QED
  BY <1>1, <1>2

\* A restore goes past a part by copying it, or by passing over one that is not there.
LEMMA CopyFrom ==
  ASSUME Base, NEW a \in Attempt, Steps(a), Restoring(a),
         pc'[a] \in {"copy", "copying", "save", "write", "install"}
  PROVE  \/ Undefine(a) /\ pc'[a] = "copy"
         \/ SkipPart(a) /\ pc'[a] = "copy"
         \/ CopyStarts(a) /\ pc'[a] = "copying"
         \/ CopyEnds(a) /\ pc'[a] = "copy"
         \/ PartsCopied(a) /\ pc'[a] \in {"save", "install"}
         \/ OpenState(a) /\ pc[a] = "save" /\ pc'[a] = "write"
         \/ WriteState(a) /\ pc[a] = "write" /\ pc'[a] = "install"
<1>0. ProcOK /\ LabelsFit(a)
  BY BaseParts
<1>. USE <1>0 DEF Goto, Advance, Raise, Handler, Creating, Restoring, LabelsFit, ProcOK,
Copies, InTry
<1>1. CASE Asks(a) \/ Locks(a)
  BY <1>1 DEF Asks, Begin, CheckCreate, CheckRestore, CheckDelete, FindBusy, Locks,
       TakeLock, Entry, Unlock
<1>2. CASE Takes(a)
  BY <1>2 DEF Takes, MakeDirectory, Stop, Stopped, OpenMetadata, WriteMetadata,
       ChangeOwner
<1>3. CASE Moves(a)
  BY <1>3 DEF Moves, SkipPart, PartMissing, CopyStarts, CopyEnds, CopyImpossible,
       PartsCopied
<1>4. CASE Sweeps(a)
  <2>1. pc[a] \in {"sweep", "drop", "dropall"}
    BY <1>4 DEF Sweeps, RemoveFile, RemoveDirectory
  <2>. QED
    BY <2>1 DEF Ended
<1>5. CASE Removes(a)
  BY <1>5 DEF Removes, Undefine, RemoveStorage, RemoveArtifacts, Forget
<1>6. CASE Builds(a)
  BY <1>6 DEF Builds, Prepare, ConfigUnreadable, OpenState, WriteState, MakeDisk,
       MakeSeed, Install, InstallRaises
<1>7. CASE Runs(a) \/ Stops(a)
  BY <1>7 DEF Runs, Halt, Boot, BootFails, NothingToRestart, Starting, Stops, Fails,
       Interrupt, Crash
<1>. QED
  BY <1>1, <1>2, <1>3, <1>4, <1>5, <1>6, <1>7 DEF Steps

\* Every step of an attempt keeps what a restore has copied.
LEMMA CopiedStep ==
  ASSUME Base, ServiceInv, NEW c \in Attempt, Steps(c), NEW a \in Attempt, Copied(a)
  PROVE  Copied(a)'
<1>0. /\ ProcOK /\ SnapsOK /\ VmOK /\ Own(c) /\ LabelsFit(a) /\ Memory(a) /\ Target(a) \in Id
      /\ Parts \subseteq Files
  BY BaseParts, FilesParts, OwnStep DEF ProcOK, Target, Parts, Files
<1>1. Restoring(a)' = Restoring(a) /\ Target(a)' = Target(a) /\ Svc(a)' = Svc(a) /\ Rank(a)' = Rank(a)
  BY <1>0 DEF Own, Restoring, Op, Target, Svc, Rank
<1>. DEFINE L == {"copy", "copying", "save", "write", "install"}
<1>2. SUFFICES ASSUME Restoring(a), pc'[a] \in L
               PROVE  /\ domain' = "none"
                      /\ Copies(a)' => \A p \in Parts : Rank(a)[p] < part'[a] => Back(a, p)'
                      /\ pc'[a] \in {"save", "write", "install"} => \A p \in Parts \ {"state"} : Back(a, p)'
  BY <1>1 DEF Copied, Copies
<1>3. NoFile # Whole
  BY ValueAssumption DEF Whole
<1>4. ASSUME a # c
      PROVE  /\ domain' = "none"
             /\ Copies(a)' => \A p \in Parts : Rank(a)[p] < part'[a] => Back(a, p)'
             /\ pc'[a] \in {"save", "write", "install"} => \A p \in Parts \ {"state"} : Back(a, p)'
  <2>1. pc[a] = pc'[a]
    BY <1>0, <1>4 DEF Own, ProcOK
  <2>2. pc[a] \in Held
    BY <2>1, <1>2 DEF Held, InTry
  <2>3. /\ UNCHANGED <<domain, vm>> /\ part'[a] = part[a]
        /\ \A p \in Files : snap'[Target(a)][p] \in {snap[Target(a)][p], NoFile}
    BY <2>2, <1>0, <1>4, OthersRemove
  <2>4. ASSUME NEW p \in Parts, Back(a, p)
        PROVE  Back(a, p)'
    <3>1. "state" \in Files /\ p \in Files
      BY <1>0 DEF Files, Parts
    <3>. QED
      BY <3>1, <2>3, <2>4, <1>1, <1>3 DEF Back
  <2>. QED
    BY <2>1, <2>3, <2>4, <1>2 DEF Copied, Copies
<1>5. ASSUME a = c
      PROVE  /\ domain' = "none"
             /\ Copies(a)' => \A p \in Parts : Rank(a)[p] < part'[a] => Back(a, p)'
             /\ pc'[a] \in {"save", "write", "install"} => \A p \in Parts \ {"state"} : Back(a, p)'
  <2>0. Base /\ Steps(a) /\ part[a] \in 1..6
    BY <1>5, <1>0 DEF ProcOK
  <2>1. CASE Undefine(a) /\ pc'[a] = "copy"
    <3>1. part'[a] = 1 /\ domain' = "none"
      BY <2>1, <1>0 DEF Undefine, still, quiet, Memory
    <3>2. \A p \in Parts : ~(Rank(a)[p] < 1)
      BY DEF Rank, Parts
    <3>. QED
      BY <2>1, <3>1, <3>2
  <2>2. CASE SkipPart(a) /\ pc'[a] = "copy"
    <3>1. /\ UNCHANGED <<domain, vm, snap>> /\ part'[a] = part[a] + 1 /\ Copies(a)
          /\ part[a] <= Len(Order(a))
      BY <2>2, <1>0 DEF SkipPart, host, points, ProcOK, Copies, Copying
    <3>2. Back(a, Part(a))
      <4>1. CASE Source(a, Part(a)) = NoFile
        BY <4>1, <1>2 DEF Source, Back, Restoring
      <4>2. CASE Svc(a) /\ ~(Part(a) = "disk" \/ Part(a) \in seen[a].parts)
        <5>1. Part(a) \in Parts /\ seen[a] # NoFile
          BY <2>0, <3>1, <1>0, <1>2, CopyPart DEF Memory, Copies, Held, InTry
        <5>2. snap[Target(a)][Part(a)] = NoFile
          BY <4>2, <5>1, <1>2 DEF ServiceInv, Holds
        <5>. QED
          BY <5>2 DEF Back
      <4>3. CASE ~Svc(a) /\ Part(a) = "local" /\ vm["state"] # Whole
        <5>1. part[a] = 5 /\ Rank(a)["state"] = 4 /\ "state" \in Parts
          BY <2>0, <3>1, <4>3, RankPart DEF Rank, Parts
        <5>2. Back(a, "state")
          BY <5>1, <3>1, <1>2 DEF Copied
        <5>. QED
          BY <5>2, <4>3, <1>3 DEF Back
      <4>. QED
        BY <2>2, <4>1, <4>2, <4>3, <1>2, <1>0 DEF SkipPart, Named, Restoring, ProcOK, Svc
    <3>3. ASSUME NEW p \in Parts, Rank(a)[p] < part[a] + 1
          PROVE  Back(a, p)
      <4>1. Rank(a)[p] < part[a] \/ Part(a) = p
        BY <2>0, <3>1, <3>3, RankPart
      <4>. QED
        BY <3>1, <3>2, <4>1, <1>2 DEF Copied
    <3>4. domain = "none"
      BY <3>1, <1>2 DEF Copied
    <3>. QED
      BY <2>2, <3>1, <3>3, <3>4, <1>1 DEF Back
  <2>3. CASE CopyStarts(a) /\ pc'[a] = "copying"
    <3>1. /\ UNCHANGED <<domain, part>> /\ Copies(a) /\ part[a] <= Len(Order(a))
      BY <2>3 DEF CopyStarts, quiet, Copies, Copying
    <3>2. Part(a) \in Parts /\ \E x : Put(a, Part(a), x)
      BY <2>0, <2>3, <3>1, CopyPart DEF CopyStarts
    <3>3. UNCHANGED snap /\ \A p \in Parts \ {Part(a)} : vm'[p] = vm[p]
      BY <3>2, <1>0, <1>2, Putting DEF Changes, VmSets, Creating, Restoring
    <3>4. ASSUME NEW p \in Parts, Rank(a)[p] < part[a]
          PROVE  Back(a, p)'
      <4>1. p # Part(a)
        BY <2>0, <3>1, <3>4, RankPart
      <4>2. Back(a, p)
        BY <3>1, <3>4, <1>2 DEF Copied
      <4>. QED
        BY <3>3, <4>1, <4>2, <1>1 DEF Back
    <3>5. domain = "none"
      BY <3>1, <1>2 DEF Copied
    <3>. QED
      BY <2>3, <3>1, <3>4, <3>5
  <2>4. CASE CopyEnds(a) /\ pc'[a] = "copy"
    <3>1. /\ UNCHANGED <<domain>> /\ Copies(a) /\ part[a] <= Len(Order(a)) /\ part'[a] = part[a] + 1
      BY <2>4, <1>0 DEF CopyEnds, Copies, Memory, ProcOK
    <3>2. Part(a) \in Parts /\ Put(a, Part(a), snap[Target(a)][Part(a)])
      BY <2>0, <2>4, <3>1, <1>2, CopyPart DEF CopyEnds, Arrives, Source, Restoring
    <3>3. /\ UNCHANGED snap /\ vm'[Part(a)] = snap[Target(a)][Part(a)]
          /\ \A p \in Parts \ {Part(a)} : vm'[p] = vm[p]
      BY <3>2, <1>0, <1>2, Putting DEF Changes, VmSets, Creating, Restoring
    <3>4. ASSUME NEW p \in Parts, Rank(a)[p] < part[a] + 1
          PROVE  Back(a, p)'
      <4>1. CASE p = Part(a)
        BY <3>3, <4>1, <1>1 DEF Back
      <4>2. CASE p # Part(a)
        <5>1. Rank(a)[p] < part[a]
          BY <2>0, <3>1, <3>4, <4>2, RankPart
        <5>2. Back(a, p)
          BY <3>1, <5>1, <1>2 DEF Copied
        <5>. QED
          BY <3>3, <4>2, <5>2, <1>1 DEF Back
      <4>. QED
        BY <4>1, <4>2
    <3>5. domain = "none"
      BY <3>1, <1>2 DEF Copied
    <3>. QED
      BY <2>4, <3>1, <3>4, <3>5
  <2>5. CASE PartsCopied(a) /\ pc'[a] \in {"save", "install"}
    <3>1. UNCHANGED <<domain, vm, snap>> /\ Copies(a) /\ part[a] > Len(Order(a))
      BY <2>5 DEF PartsCopied, host, points, Copies
    <3>2. ASSUME NEW p \in Parts \ {"state"}
          PROVE  Back(a, p)
      <4>1. CASE Svc(a) /\ p = "conf"
        <5>1. seen[a] # NoFile
          BY <3>1, <1>0, <1>2 DEF Memory, Copies, Held, InTry
        <5>. QED
          BY <4>1, <5>1, <1>2 DEF ServiceInv, Holds, Back
      <4>2. CASE ~(Svc(a) /\ p = "conf")
        <5>1. Rank(a)[p] < part[a]
          <6>1. part[a] > (IF Svc(a) THEN 3 ELSE 5)
            BY <3>1, OrderParts
          <6>2. Rank(a)[p] \in 1..(IF Svc(a) THEN 3 ELSE 5)
            BY <4>2 DEF Rank, Parts
          <6>. QED
            BY <6>1, <6>2, <2>0
        <5>. QED
          BY <3>1, <5>1, <1>2 DEF Copied
      <4>. QED
        BY <4>1, <4>2
    <3>3. domain = "none"
      BY <3>1, <1>2 DEF Copied
    <3>. QED
      BY <2>5, <3>1, <3>2, <3>3, <1>1 DEF Back, Copies
  <2>6. CASE (OpenState(a) /\ pc[a] = "save" /\ pc'[a] = "write") \/ (WriteState(a) /\ pc[a] = "write" /\ pc'[a] = "install")
    <3>1. UNCHANGED <<domain, snap>> /\ \A p \in Parts \ {"state"} : vm'[p] = vm[p]
      BY <2>6, <1>0 DEF OpenState, WriteState, points, VmOK, AreFiles
    <3>2. domain = "none" /\ \A p \in Parts \ {"state"} : Back(a, p)
      BY <2>6, <1>2 DEF Copied
    <3>. QED
      BY <2>6, <3>1, <3>2, <1>1 DEF Back, Copies
  <2>. QED
    BY <2>0, <2>1, <2>2, <2>3, <2>4, <2>5, <2>6, <1>2, CopyFrom
<1>. QED
  BY <1>4, <1>5

\* When a restore is about to define the VM, each file of the VM is what the snapshot
\* has of it, as long as no service gives an id twice.
THEOREM RestoresComplete ==
  ASSUME OwnIds
  PROVE  Spec => []RestoreComplete
<1>. DEFINE Parted == \A a \in Attempt : Copied(a)
<1>1. Init => Parted
  BY DEF Init, Copied, Copies
<1>2. ASSUME Known, ServiceInv, Parted, [Next]_vars
      PROVE  ServiceInv' /\ Parted'
  <2>1. CASE GuestWrites
    <3>1. Base /\ GuestWrites
      BY <1>2, <2>1 DEF Known
    <3>2. UNCHANGED <<quiet, pc, err, snap, record, domain>> /\ domain = "running"
      BY <3>1, GuestStep DEF points
    <3>3. ServiceInv'
      BY <3>2, <1>2 DEF ServiceInv, Holds, InWork, Creating, Restoring, Op, Svc, Target,
           quiet
    <3>4. Parted'
      BY <3>2, <1>2 DEF Copied, Copies, Creating, Restoring, Op, Svc, Target, quiet
    <3>. QED
      BY <3>3, <3>4
  <2>2. CASE UNCHANGED vars
    BY <1>2, <2>2 DEF vars, quiet, counts, points, ServiceInv, Holds, InWork, Copied,
       Copies, Back, Rank, Creating, Restoring, Op, Svc, Target
  <2>3. CASE \E c \in Attempt : Steps(c)
    BY <1>2, <2>3, ServiceStep, CopiedStep DEF Known
  <2>. QED
    BY <1>2, <2>1, <2>2, <2>3, OneStep DEF Known
<1>3. Parted => RestoreComplete
  BY DEF Copied, Back, RestoreComplete, Restoring
<1>4. Spec => []Parted
  <2>. HIDE DEF Parted
  <2>. QED
    BY <1>1, <1>2, InitService, NewPoints, PTL DEF Spec
<1>. QED
  BY <1>3, <1>4, PTL
-----------------------------------------------------------------------------
(* Restore points. *)
Now == Disk(vm["disk"])
Point(i) == IF Kept(i) THEN Disk(snap[i]["disk"]) ELSE NoFile

\* An attempt that keeps a restore point although it is not listed.
Keeps(a) ==
    \/ Creating(a) /\ err[a] = "none" /\ pc[a] \in {"meta", "chown", "finally", "unlock"}
    \/ Restoring(a) /\ pc[a] \in {"lock", "undefine", "copy", "copying"}

\* A snapshot is a restore point when it is listed or kept by an attempt.
LEMMA KeptBy ==
  ASSUME NEW i
  PROVE  Kept(i) <=> Listed(i) \/ \E a \in Attempt : Target(a) = i /\ Keeps(a)
  BY DEF Kept, Keeps, Creating, Restoring

\* Data is numbered in the order in which it was written, and a create that has copied
\* the disk keeps it while the guest is off; a restore has no disk before it has its copy.
Later(a) == (Copies(a) /\ part[a] > 1) \/ pc[a] \in {"meta", "writing"}
PointInv ==
    /\ vm["disk"] \in DiskData => vm["disk"].ver <= writes
    /\ \A i \in Id : snap[i]["disk"] \in DiskData => snap[i]["disk"].ver <= writes
    /\ \A a \in Attempt : Creating(a) =>
         /\ pc[a] = "copying" /\ part[a] = 1 => snap[Target(a)]["disk"] \notin DiskData
         /\ Later(a) => domain # "running" /\ snap[Target(a)]["disk"] \in {NoFile, vm["disk"]}
    /\ \A a \in Attempt : Restoring(a) /\ pc[a] = "copying" /\ part[a] = 1
                            => vm["disk"] \notin DiskData

\* What a step does to disks: it removes or tears some, a restore or a create copies one, or a
\* provisioning makes one.
LEMMA DiskEffect ==
  ASSUME Base, NEW c \in Attempt, Steps(c)
  PROVE  \/ UNCHANGED <<writes>> /\ vm'["disk"] \in {vm["disk"], NoFile, Torn}
            /\ \A i \in Id : snap'[i]["disk"] \in {snap[i]["disk"], NoFile, Torn}
         \/ UNCHANGED <<writes, snap>> /\ vm'["disk"] = snap[Target(c)]["disk"]
         \/ UNCHANGED <<writes, vm>> /\ \A i \in Id : snap'[i]["disk"] \in {snap[i]["disk"], vm["disk"]}
         \/ MakeDisk(c) /\ UNCHANGED snap /\ writes' = writes + 1
            /\ vm["disk"] = NoFile /\ vm'["disk"] = [key |-> vm["local"], ver |-> writes + 1]
<1>0. Target(c) \in Id /\ "disk" \in Parts /\ "disk" \in Files /\ "meta" # "disk"
  BY BaseParts DEF ProcOK, Target, Parts, Files
<1>1. CASE UNCHANGED <<vm, keys, writes>>
  <2>1. CASE \E i \in Id, f \in Files : Sets(i, f, NoFile)
    BY <1>0, <1>1, <2>1 DEF Sets
  <2>2. CASE /\ Part(c) \in Parts
             /\ \E x : /\ Sets(Target(c), Part(c), x)
                       /\ x = NoFile \/ (vm[Part(c)] # NoFile /\ x \in {Torn, vm[Part(c)]})
    BY <1>0, <1>1, <2>2 DEF Sets
  <2>3. CASE \E x : Sets(Target(c), "meta", x)
    BY <1>0, <1>1, <2>3 DEF Sets
  <2>. QED
    BY <1>1, <2>1, <2>2, <2>3, SnapEffect
<1>2. CASE /\ UNCHANGED <<snap, writes>> /\ Part(c) \in Parts
           /\ \E x : /\ VmSets(Part(c), x)
                     /\ \/ x = NoFile
                        \/ x \in {Torn, snap[Target(c)][Part(c)]}
  BY <1>0, <1>2 DEF VmSets
<1>3. CASE UNCHANGED <<snap, writes>> /\ \A p \in Parts : vm'[p] \in {vm[p], NoFile}
  BY <1>0, <1>3
<1>4. CASE UNCHANGED <<snap, writes>> /\ \E x : VmSets("local", x) \/ VmSets("seed", x) \/ VmSets("state", x)
  BY <1>0, <1>4 DEF VmSets
<1>5. CASE /\ MakeDisk(c) /\ VmSets("disk", [key |-> vm["local"], ver |-> writes + 1])
           /\ vm["disk"] = NoFile /\ writes' = writes + 1 /\ UNCHANGED snap
  BY <1>5 DEF VmSets
<1>. QED
  BY <1>1, <1>2, <1>3, <1>4, <1>5, VmEffect

\* A step that leaves its process copying has started the copy.
LEMMA CopyingFrom ==
  ASSUME Base, NEW a \in Attempt, Steps(a), pc'[a] = "copying"
  PROVE  CopyStarts(a) /\ part'[a] = part[a]
<1>0. ProcOK /\ LabelsFit(a)
  BY BaseParts
<1>. USE <1>0 DEF Goto, Advance, Raise, Handler, LabelsFit, ProcOK, Copies, InTry
<1>1. CASE Asks(a)
  BY <1>1 DEF Asks, Begin, CheckCreate, CheckRestore, CheckDelete, FindBusy
<1>2. CASE Locks(a)
  <2>1. CASE TakeLock(a)
    <3>1. Op(a) \in Ops \ {"delete"} /\ pc'[a] = Entry[Op(a)]
      BY <2>1 DEF TakeLock, Ended, Op
    <3>. QED
      BY <3>1 DEF Ops, Entry
  <2>2. CASE Unlock(a)
    BY <2>2 DEF Unlock
  <2>. QED
    BY <1>2, <2>1, <2>2 DEF Locks
<1>3. CASE Takes(a)
  BY <1>3 DEF Takes, MakeDirectory, Stop, Stopped, OpenMetadata, WriteMetadata,
       ChangeOwner
<1>4. CASE Moves(a)
  BY <1>4 DEF Moves, SkipPart, PartMissing, CopyStarts, CopyEnds, CopyImpossible,
       PartsCopied, quiet
<1>5. CASE Sweeps(a)
  BY <1>5 DEF Sweeps, RemoveFile, RemoveDirectory, AfterSweep
<1>6. CASE Removes(a) \/ Runs(a)
  BY <1>6 DEF Removes, Undefine, RemoveStorage, RemoveArtifacts, Forget, Runs, Halt,
       Boot, BootFails, NothingToRestart
<1>7. CASE Stops(a)
  BY <1>7 DEF Stops, Fails, Interrupt, Crash
<1>8. CASE Builds(a)
  BY <1>8 DEF Builds, Prepare, ConfigUnreadable, OpenState, WriteState, MakeDisk,
       MakeSeed, Install, InstallRaises
<1>. QED
  BY <1>1, <1>2, <1>3, <1>4, <1>5, <1>6, <1>7, <1>8 DEF Steps

\* A roll-back does not go back to work.
LEMMA DropEnds ==
  ASSUME Base, NEW a \in Attempt, Steps(a), Removing(a), Creating(a)
  PROVE  ~Later(a)'
<1>0. ProcOK /\ LabelsFit(a) /\ pc[a] \notin {"sweep", "dropall"}
  BY BaseParts DEF LabelsFit, Creating, Ended
<1>1. RemoveFile(a) \/ RemoveDirectory(a) \/ Stops(a)
  BY <1>0 DEF Removing, Steps, Asks, Begin, CheckCreate, CheckRestore, CheckDelete,
     FindBusy, Locks, TakeLock, Unlock, Takes, MakeDirectory, Stop, Stopped,
     OpenMetadata, WriteMetadata, ChangeOwner, Moves, SkipPart, PartMissing, CopyStarts,
     CopyEnds, CopyImpossible, PartsCopied, Sweeps, Removes, Undefine, RemoveStorage,
     RemoveArtifacts, Forget, Builds, Prepare, ConfigUnreadable, OpenState, WriteState,
     MakeDisk, MakeSeed, Install, InstallRaises, Runs, Halt, Boot, BootFails,
     NothingToRestart, Starting
<1>. QED
  BY <1>0, <1>1 DEF Removing, RemoveFile, RemoveDirectory, AfterSweep, Stops, Fails,
     Interrupt, Crash, Later, Copies, Goto, Raise, Handler, Creating, ProcOK, InTry

\* A create goes past the disk by copying it, and never returns to before it.
LEMMA LaterFrom ==
  ASSUME Base, NEW a \in Attempt, Steps(a), Creating(a), Later(a)'
  PROVE  Later(a) \/ (CopyEnds(a) /\ part[a] = 1 /\ pc'[a] = "copy")
<1>0. ProcOK /\ LabelsFit(a) /\ Memory(a) /\ Base'
  BY BaseParts, BaseStep
<1>1. Memory(a)' /\ ProcOK'
  BY OwnStep, OwnProc, BaseParts
<1>2. Taking(a)' /\ pc'[a] \notin {"drop", "finally", "unlock"} \cup Ended
  BY DEF Later, Taking, Copies, Ended
<1>3. err'[a] = "none"
  BY <1>1, <1>2 DEF Memory
<1>4. ~Removing(a)
  BY DropEnds
<1>5. Taking(a) \/ (CopyEnds(a) /\ part[a] = 1 /\ pc'[a] = "copy")
  BY <1>2, <1>3, <1>4, TakingFrom
<1>6. ASSUME pc[a] \in {"chown", "finally", "unlock"}
      PROVE  ~Later(a)'
  <2>. USE <1>0, <1>6 DEF Later, Goto, Advance, Raise, Handler, Creating, Restoring,
  LabelsFit, ProcOK, Copies, InTry
  <2>1. CASE Asks(a) \/ Locks(a) \/ Takes(a)
    BY <2>1 DEF Asks, Begin, CheckCreate, CheckRestore, CheckDelete, FindBusy, Locks,
       TakeLock, Unlock, Takes, MakeDirectory, Stop, Stopped, OpenMetadata,
       WriteMetadata, ChangeOwner
  <2>2. CASE Moves(a) \/ Sweeps(a) \/ Removes(a)
    BY <2>2 DEF Moves, SkipPart, PartMissing, CopyStarts, CopyEnds, CopyImpossible,
       PartsCopied, Sweeps, RemoveFile, RemoveDirectory, Removes, Undefine,
       RemoveStorage, RemoveArtifacts, Forget
  <2>3. CASE Builds(a) \/ Runs(a) \/ Stops(a)
    BY <2>3 DEF Builds, Prepare, ConfigUnreadable, OpenState, WriteState, MakeDisk,
       MakeSeed, Install, InstallRaises, Runs, Halt, Boot, BootFails, NothingToRestart,
       Stops, Fails, Interrupt, Crash
  <2>. QED
    BY <2>1, <2>2, <2>3 DEF Steps
<1>. QED
  BY <1>5, <1>6 DEF Taking, Later

\* A create past the disk holds the lock.
LEMMA LaterHeld ==
  ASSUME NEW a \in Attempt, Later(a) \/ Copies(a)
  PROVE  pc[a] \in Held
  BY DEF Later, Copies, Held, InTry

\* Every step of an attempt keeps the invariant on restore points.
LEMMA PointStep ==
  ASSUME Base, PointInv, NEW c \in Attempt, Steps(c)
  PROVE  PointInv'
<1>0. /\ ProcOK /\ SnapsOK /\ VmOK /\ Own(c) /\ LabelsFit(c) /\ \A a \in Attempt : Target(a) \in Id
      /\ "disk" \in Files /\ "disk" \in Parts /\ "meta" # "disk"
  BY BaseParts, FilesParts, OwnStep DEF ProcOK, Target, Files, Parts
<1>1. ASSUME NEW a \in Attempt
      PROVE  Creating(a)' = Creating(a) /\ Restoring(a)' = Restoring(a) /\ Target(a)' = Target(a)
  BY <1>0 DEF Own, Creating, Restoring, Op, Target
<1>2. /\ vm'["disk"] \in DiskData => vm'["disk"].ver <= writes'
      /\ \A i \in Id : snap'[i]["disk"] \in DiskData => snap'[i]["disk"].ver <= writes'
  <2>1. CASE MakeDisk(c) /\ UNCHANGED snap /\ writes' = writes + 1 /\ vm'["disk"] = [key |-> vm["local"], ver |-> writes + 1]
    <3>1. \A i \in Id : snap[i]["disk"] \in DiskData => snap[i]["disk"].ver \in Nat
      BY DEF DiskData
    <3>. QED
      BY <2>1, <3>1, <1>0 DEF VmOK, PointInv
  <2>. QED
    BY <2>1, <1>0, DiskEffect, NotData DEF PointInv
<1>3. ASSUME NEW a \in Attempt, Creating(a), pc'[a] = "copying", part'[a] = 1
      PROVE  snap'[Target(a)]["disk"] \notin DiskData
  <2>1. CASE a = c
    <3>1. CopyStarts(a) /\ part[a] = 1
      BY <1>0, <1>3, <2>1, CopyingFrom
    <3>2. Part(a) = "disk" /\ Put(a, "disk", Torn)
      BY <3>1, <1>3, OrderParts DEF CopyStarts, Creating
    <3>3. snap'[Target(a)]["disk"] = Torn
      BY <3>2, <1>0, <1>3, Putting DEF Changes, Sets
    <3>. QED
      BY <3>3, NotData
  <2>2. CASE a # c
    <3>1. pc[a] = "copying" /\ part[a] = 1 /\ pc[a] \in Held
      BY <2>2, <1>0, <1>3 DEF Own, ProcOK, Held, InTry
    <3>2. snap'[Target(a)]["disk"] \in {snap[Target(a)]["disk"], NoFile}
      BY <2>2, <3>1, <1>0, OthersRemove
    <3>. QED
      BY <3>1, <3>2, <1>3, NotData DEF PointInv
  <2>. QED
    BY <2>1, <2>2
<1>4. ASSUME NEW a \in Attempt, Creating(a), Later(a)'
      PROVE  domain' # "running" /\ snap'[Target(a)]["disk"] \in {NoFile, vm'["disk"]}
  <2>1. CASE a = c
    <3>1. CASE Later(a)
      <4>1. domain # "running" /\ snap[Target(a)]["disk"] \in {NoFile, vm["disk"]}
        BY <3>1, <1>4 DEF PointInv
      <4>2. Moves(a) \/ OpenMetadata(a) \/ WriteMetadata(a) \/ Stops(a)
        BY <2>1, <3>1, <1>0, <1>4 DEF Later, Steps, Asks, Begin, CheckCreate,
           CheckRestore, CheckDelete, FindBusy, Locks, TakeLock, Unlock, Takes,
           MakeDirectory, Stop, Stopped, ChangeOwner, Sweeps, RemoveFile,
           RemoveDirectory, Removes, Undefine, RemoveStorage, RemoveArtifacts, Forget,
           Builds, Prepare, ConfigUnreadable, OpenState, WriteState, MakeDisk, MakeSeed,
           Install, InstallRaises, Runs, Halt, Boot, BootFails, NothingToRestart,
           Starting, Copies
      <4>3. UNCHANGED domain
        BY <4>2 DEF Moves, SkipPart, PartMissing, CopyStarts, CopyEnds, CopyImpossible,
           PartsCopied, OpenMetadata, WriteMetadata, Stops, Fails, Interrupt, Crash, host
      <4>4. UNCHANGED vm /\ snap'[Target(a)]["disk"] = snap[Target(a)]["disk"]
        <5>1. CASE Moves(a)
          <6>1. Part(a) # "disk" \/ UNCHANGED <<vm, snap>>
            BY <5>1, <3>1, <1>0, CopyEffect, CopyPart DEF Later, Copies
          <6>. QED
            BY <5>1, <6>1, <1>0, <1>4, CopyEffect DEF Changes, Sets
        <5>2. CASE OpenMetadata(a) \/ WriteMetadata(a)
          <6>1. ~Copies(a) /\ ~Removing(a) /\ UNCHANGED vm
            BY <5>2 DEF OpenMetadata, WriteMetadata, Copies, Removing
          <6>. QED
            BY <2>1, <5>2, <6>1, <1>0, SnapEffect DEF Sets
        <5>3. CASE Stops(a)
          BY <5>3 DEF Stops, Fails, Interrupt, Crash, host, points
        <5>. QED
          BY <4>2, <5>1, <5>2, <5>3
      <4>. QED
        BY <4>1, <4>3, <4>4
    <3>2. CASE CopyEnds(a) /\ part[a] = 1
      <4>1. /\ Part(a) = "disk" /\ domain # "running" /\ UNCHANGED domain
            /\ Put(a, "disk", Arrives(a, vm["disk"]))
        BY <3>2, <1>4, OrderParts DEF CopyEnds, ImageLocked, Creating, Source
      <4>2. UNCHANGED vm /\ snap'[Target(a)]["disk"] = Arrives(a, vm["disk"])
        BY <4>1, <1>0, <1>4, Putting DEF Changes, Sets
      <4>. QED
        BY <4>1, <4>2 DEF Arrives
    <3>. QED
      BY <2>1, <3>1, <3>2, <1>4, LaterFrom
  <2>2. CASE a # c
    <3>1. Later(a) /\ pc[a] \in Held
      BY <2>2, <1>0, <1>4, LaterHeld DEF Own, ProcOK, Later, Copies
    <3>2. snap'[Target(a)]["disk"] \in {snap[Target(a)]["disk"], NoFile} /\ UNCHANGED <<domain, vm>>
      BY <2>2, <3>1, <1>0, OthersRemove
    <3>. QED
      BY <3>1, <3>2, <1>4 DEF PointInv
  <2>. QED
    BY <2>1, <2>2
<1>5. ASSUME NEW a \in Attempt, Restoring(a), pc'[a] = "copying", part'[a] = 1
      PROVE  vm'["disk"] \notin DiskData
  <2>1. CASE a = c
    <3>1. CopyStarts(a) /\ part[a] = 1
      BY <1>0, <1>5, <2>1, CopyingFrom
    <3>2. Part(a) = "disk" /\ \E x \in {NoFile, Torn} : Put(a, "disk", x)
      BY <3>1, OrderParts DEF CopyStarts
    <3>3. vm'["disk"] \in {NoFile, Torn}
      BY <3>2, <1>0, <1>5, Putting DEF Changes, VmSets, Creating, Restoring
    <3>. QED
      BY <3>3, NotData
  <2>2. CASE a # c
    <3>1. pc[a] = "copying" /\ part[a] = 1 /\ pc[a] \in Held
      BY <2>2, <1>0, <1>5 DEF Own, ProcOK, Held, InTry
    <3>. QED
      BY <2>2, <3>1, <1>5, OthersRemove DEF PointInv
  <2>. QED
    BY <2>1, <2>2
<1>. QED
  BY <1>1, <1>2, <1>3, <1>4, <1>5 DEF PointInv

\* The steps of the abstract specification.
LEMMA Mapped ==
  ASSUME \/ Now' = Now /\ \A i \in Id : Point(i)' \in {Point(i), NoFile}
         \/ /\ Now' = Now /\ Now # NoFile
            /\ \E i \in Id : /\ Point(i) = NoFile /\ Point(i)' = Now
                             /\ \A j \in Id \ {i} : Point(j)' = Point(j)
         \/ /\ \A i \in Id : Point(i)' = Point(i)
            /\ \/ Now' = NoFile
               \/ Now = NoFile /\ \E i \in Id : Point(i) # NoFile /\ Now' = Point(i)
               \/ Now' \in DiskData /\ Now' # Now /\ \A i \in Id : Now' # Point(i)
  PROVE  Points!Next
<1>. DEFINE P == [i \in Id |-> Point(i)]
<1>0. /\ P = [i \in Id |-> IF Kept(i) THEN Disk(snap[i]["disk"]) ELSE NoFile] /\ Now = Disk(vm["disk"])
      /\ P' = [i \in Id |-> IF Kept(i) THEN Disk(snap[i]["disk"]) ELSE NoFile]' /\ Now' = Disk(vm["disk"])'
  BY DEF Point, Now
<1>1. ASSUME Now' = Now, \A i \in Id : Point(i)' \in {Point(i), NoFile}
      PROVE  Points!Next
  <2>. DEFINE I == {i \in Id : Point(i)' = NoFile}
  <2>1. P' = [i \in Id |-> IF i \in I THEN NoFile ELSE P[i]]
    BY <1>1
  <2>2. I \in SUBSET Id
    OBVIOUS
  <2>3. Points!Drop(I)
    <3>. HIDE DEF I
    <3>. QED
      BY <1>0, <1>1, <2>1 DEF Points!Drop, Point, Now
  <2>. QED
    BY <2>2, <2>3 DEF Points!Next
<1>2. ASSUME Now' = Now, Now # NoFile,
             NEW i \in Id, Point(i) = NoFile, Point(i)' = Now, \A j \in Id \ {i} : Point(j)' = Point(j)
      PROVE  Points!Next
  <2>1. P' = [P EXCEPT ![i] = Now]
    BY <1>2
  <2>2. Points!Take(i)
    BY <1>2, <2>1 DEF Points!Take, Point, Now
  <2>. QED
    BY <2>2 DEF Points!Next
<1>3. ASSUME \A i \in Id : Point(i)' = Point(i), Now' = NoFile
      PROVE  Points!Next
  <2>1. P' = P
    BY <1>3
  <2>2. Points!Lose
    BY <1>3, <2>1 DEF Points!Lose, Point, Now
  <2>. QED
    BY <2>2 DEF Points!Next
<1>4. ASSUME \A i \in Id : Point(i)' = Point(i), Now = NoFile, NEW i \in Id, Point(i) # NoFile, Now' = Point(i)
      PROVE  Points!Next
  <2>1. P' = P
    BY <1>4
  <2>2. Points!Return(i)
    BY <1>4, <2>1 DEF Points!Return, Point, Now
  <2>. QED
    BY <2>2 DEF Points!Next
<1>5. ASSUME \A i \in Id : Point(i)' = Point(i), Now' \in DiskData, Now' # Now, \A i \in Id : Now' # Point(i)
      PROVE  Points!Next
  <2>1. P' = P
    BY <1>5
  <2>2. Points!Work
    BY <1>5, <2>1 DEF Points!Work, Point, Now
  <2>. QED
    BY <2>2 DEF Points!Next
<1>. QED
  BY <1>1, <1>2, <1>3, <1>4, <1>5

\* What an attempt keeps, only its own steps change...
LEMMA KeepsOther ==
  ASSUME Base, NEW c \in Attempt, Steps(c), NEW a \in Attempt, a # c
  PROVE  Keeps(a)' <=> Keeps(a)
  BY OwnStep, BaseParts DEF Own, ProcOK, Keeps, Creating, Restoring, Op

\* ...and it only begins to keep what was listed, except when a create has what it wants.
LEMMA KeepsFrom ==
  ASSUME Base, NEW c \in Attempt, Steps(c), Keeps(c)'
  PROVE  \/ Keeps(c)
         \/ Listed(Target(c))
         \/ Creating(c) /\ (PartsCopied(c) \/ WriteMetadata(c))
<1>0. ProcOK /\ LabelsFit(c) /\ Memory(c) /\ Own(c)
  BY BaseParts, OwnStep
<1>1. CASE Restoring(c)
  <2>1. pc'[c] \in {"lock", "undefine", "copy", "copying"}
    BY <1>0, <1>1 DEF Keeps, Own, Creating, Restoring, Op
  <2>2. CASE pc[c] \in Held \cup {"lock"}
    <3>1. CASE pc[c] = "lock"
      BY <1>1, <3>1 DEF Keeps
    <3>2. CASE pc[c] # "lock"
      <4>. USE <1>0, <1>1, <2>1, <2>2, <3>2 DEF Keeps, Goto, Advance, Raise, Handler,
      Creating, Restoring, LabelsFit, ProcOK, Copies, InTry, Held
      <4>1. CASE Asks(c) \/ Locks(c)
        BY <4>1 DEF Asks, Begin, CheckCreate, CheckRestore, CheckDelete, FindBusy, Locks,
             TakeLock, Unlock
      <4>2. CASE Takes(c)
        BY <4>2 DEF Takes, MakeDirectory, Stop, Stopped, OpenMetadata, WriteMetadata,
             ChangeOwner
      <4>3. CASE Moves(c)
        BY <4>3, CopyEffect
      <4>4. CASE Sweeps(c)
        BY <4>4 DEF Sweeps, RemoveFile, RemoveDirectory
      <4>5. CASE Removes(c)
        BY <4>5 DEF Removes, Undefine, RemoveStorage, RemoveArtifacts, Forget
      <4>6. CASE Runs(c) \/ Stops(c)
        BY <4>6 DEF Runs, Halt, Boot, BootFails, NothingToRestart, Stops, Fails,
             Interrupt, Crash
      <4>7. CASE Builds(c)
        BY <4>7 DEF Builds, Prepare, ConfigUnreadable, OpenState, WriteState, MakeDisk,
             MakeSeed, Install, InstallRaises
      <4>. QED
        BY <4>1, <4>2, <4>3, <4>4, <4>5, <4>6, <4>7 DEF Steps
    <3>. QED
      BY <3>1, <3>2
  <2>3. CASE Accepts(c)
    BY <1>1, <2>3 DEF Accepts, Listed
  <2>. QED
    BY <2>1, <2>2, <2>3, <1>1, RestoreFrom DEF Held, InTry
<1>2. CASE Creating(c)
  <2>1. pc'[c] \in {"meta", "chown", "finally", "unlock"} /\ err'[c] = "none"
    BY <1>0, <1>2 DEF Keeps, Own, Creating, Restoring, Op
  <2>2. err[c] = "none"
    BY <1>2, <2>1, ErrorStays
  <2>3. ~Removing(c)
    <3>1. pc[c] # "drop"
      BY <1>0, <2>2 DEF Memory
    <3>. QED
      BY <3>1, <1>0, <1>2 DEF Removing, LabelsFit, Creating, Ended
  <2>. USE <1>0, <1>2, <2>1, <2>2, <2>3 DEF Keeps, Goto, Advance, Raise, Handler,
  Creating, Restoring, LabelsFit, Memory, ProcOK, Copies, InTry, Removing
  <2>4. CASE Asks(c) \/ Locks(c)
    BY <2>4 DEF Asks, Begin, CheckCreate, CheckRestore, CheckDelete, FindBusy, Locks,
         TakeLock, Entry, Unlock
  <2>5. CASE Takes(c)
    BY <2>5 DEF Takes, MakeDirectory, Stop, Stopped, OpenMetadata, WriteMetadata,
         ChangeOwner
  <2>6. CASE Moves(c)
    BY <2>6 DEF Moves, SkipPart, PartMissing, CopyStarts, CopyEnds, CopyImpossible,
         PartsCopied, still
  <2>7. CASE Sweeps(c)
    BY <2>7 DEF Sweeps, RemoveFile, RemoveDirectory
  <2>8. CASE Removes(c) \/ Runs(c)
    BY <2>8 DEF Removes, Undefine, RemoveStorage, RemoveArtifacts, Forget, Runs, Halt,
         Boot, BootFails, NothingToRestart, Starting
  <2>9. CASE Stops(c)
    BY <2>9 DEF Stops, Fails, Interrupt, Crash
  <2>10. CASE Builds(c)
    BY <2>10 DEF Builds, Prepare, ConfigUnreadable, OpenState, WriteState, MakeDisk,
         MakeSeed, Install, InstallRaises
  <2>. QED
    BY <2>4, <2>5, <2>6, <2>7, <2>8, <2>9, <2>10 DEF Steps
<1>. QED
  BY <1>0, <1>1, <1>2 DEF Keeps, Own, Creating, Restoring, Op

\* A snapshot that is listed now was listed or about to be.
LEMMA ListedFrom ==
  ASSUME Base, NEW c \in Attempt, Steps(c), NEW j \in Id, Listed(j)'
  PROVE  Listed(j) \/ (j = Target(c) /\ Keeps(c))
<1>0. Target(c) \in Id /\ "meta" \in Files /\ "meta" \notin Parts /\ Memory(c)
  BY BaseParts DEF ProcOK, Target, Parts, Files
<1>1. CASE record'[j] # NoFile
  <2>1. record[j] # NoFile \/ (Unlock(c) /\ Creating(c) /\ err[c] = "none" /\ j = Target(c))
    BY <1>1, RecordEffect
  <2>. QED
    BY <2>1 DEF Listed, Keeps, Unlock
<1>2. CASE snap'[j]["meta"] # NoFile /\ snap[j]["meta"] = NoFile
  <2>1. /\ Creating(c) /\ j = Target(c) /\ (OpenMetadata(c) \/ WriteMetadata(c))
        /\ \E x : Sets(Target(c), "meta", x)
    BY <1>0, <1>2, SnapEffect DEF Sets
  <2>2. CASE OpenMetadata(c)
    <3>1. pc[c] = "meta" /\ err[c] = "none"
      BY <2>2, <1>0 DEF OpenMetadata, Memory, Ended
    <3>. QED
      BY <2>1, <3>1 DEF Keeps
  <2>3. CASE WriteMetadata(c)
    <3>1. SnapsOK /\ snap' = [snap EXCEPT ![j]["meta"] = IF @ = NoFile THEN @ ELSE Whole]
      BY <2>1, <2>3, BaseParts, FilesParts DEF WriteMetadata
    <3>2. snap'[j]["meta"] = NoFile
      BY <3>1, <1>0, <1>2 DEF SnapsOK, AreFiles
    <3>. QED
      BY <3>2, <1>2
  <2>. QED
    BY <2>1, <2>2, <2>3
<1>. QED
  BY <1>1, <1>2 DEF Listed

\* A snapshot becomes a restore point only when a create has all it wants.
LEMMA KeptFrom ==
  ASSUME Base, NEW c \in Attempt, Steps(c), NEW j \in Id, Kept(j)'
  PROVE  Kept(j) \/ (j = Target(c) /\ Creating(c) /\ (PartsCopied(c) \/ WriteMetadata(c)))
<1>0. task' = task
  BY OwnStep DEF Own
<1>1. CASE Listed(j)'
  BY <1>1, ListedFrom, KeptBy
<1>2. CASE ~Listed(j)'
  <2>1. PICK a \in Attempt : Target(a) = j /\ Keeps(a)'
    BY <1>0, <1>2 DEF Kept, Keeps, Target, Op, Creating, Restoring, Listed
  <2>2. CASE a = c
    BY <2>1, <2>2, KeepsFrom, KeptBy
  <2>3. CASE a # c
    BY <2>1, <2>3, KeepsOther, KeptBy
  <2>. QED
    BY <2>2, <2>3
<1>. QED
  BY <1>1, <1>2

\* A step that changes no snapshot lets go only of what its own attempt kept.
LEMMA KeptStill ==
  ASSUME Base, NEW c \in Attempt, Steps(c), UNCHANGED <<snap, record>>, NEW j \in Id,
         j = Target(c) /\ Keeps(c) => Keeps(c)', Kept(j)
  PROVE  Kept(j)'
<1>0. task' = task
  BY OwnStep DEF Own
<1>1. CASE Listed(j)
  BY <1>1 DEF Listed, Kept
<1>2. CASE ~Listed(j)
  <2>1. PICK a \in Attempt : Target(a) = j /\ Keeps(a)
    BY <1>2, KeptBy
  <2>2. Keeps(a)' /\ Target(a)' = j
    BY <2>1, <1>0, KeepsOther DEF Target
  <2>. QED
    BY <2>2, <1>0 DEF Kept, Keeps, Op, Target, Creating, Restoring
<1>. QED
  BY <1>1, <1>2

\* Data that has just been written is not that of a restore point.
LEMMA FreshData ==
  ASSUME PointInv, VmOK, NEW d \in DiskData, d.ver = writes + 1, NEW j \in Id
  PROVE  d # Point(j)
<1>1. CASE Point(j) = NoFile
  BY <1>1, NotData
<1>2. CASE Point(j) # NoFile
  <2>1. Point(j) = snap[j]["disk"] /\ snap[j]["disk"] \in DiskData
    BY <1>2 DEF Point, Disk
  <2>2. snap[j]["disk"].ver \in Nat /\ snap[j]["disk"].ver <= writes
    BY <2>1 DEF PointInv, DiskData
  <2>. QED
    BY <2>1, <2>2 DEF VmOK
<1>. QED
  BY <1>1, <1>2

\* What a step of an attempt leaves alone, it leaves kept.
LEMMA KeptOther ==
  ASSUME Base, NEW c \in Attempt, Steps(c), NEW j \in Id, j # Target(c), Kept(j),
         snap'[j] = snap[j], record'[j] = record[j]
  PROVE  Kept(j)'
<1>0. task' = task
  BY OwnStep DEF Own
<1>1. CASE Listed(j)
  BY <1>1 DEF Listed, Kept
<1>2. CASE ~Listed(j)
  <2>1. PICK a \in Attempt : Target(a) = j /\ Keeps(a)
    BY <1>2, KeptBy
  <2>2. Keeps(a)' /\ Target(a)' = j
    BY <2>1, <1>0, KeepsOther DEF Target
  <2>. QED
    BY <2>2, <1>0 DEF Kept, Keeps, Op, Target, Creating, Restoring
<1>. QED
  BY <1>1, <1>2

\* A create that has the data of the guest, which is off, offers them as a restore point.
LEMMA TakeMaps ==
  ASSUME Base, PointInv, NEW c \in Attempt, Steps(c), Creating(c), Later(c), UNCHANGED <<vm, record>>,
         \A j \in Id : snap'[j]["disk"] = snap[j]["disk"],
         \A j \in Id \ {Target(c)} : snap'[j] = snap[j], Target(c) \in Id
  PROVE  Points!Next
<1>0. PICK i \in Id : i = Target(c)
  OBVIOUS
<1>1. Now' = Now
  BY DEF Now, Disk
<1>2. \A j \in Id \ {i} : Point(j)' = Point(j)
  BY <1>0, KeptFrom, KeptOther DEF Point
<1>3. Point(i)' \in {NoFile, Disk(snap[i]["disk"])}
  BY DEF Point, Disk
<1>4. Disk(snap[i]["disk"]) \in {NoFile, Now}
  BY <1>0, NotData DEF PointInv, Disk, Now
<1>5. CASE Point(i)' \in {NoFile, Point(i)}
  <2>1. \A j \in Id : Point(j)' \in {Point(j), NoFile}
    BY <1>2, <1>5
  <2>. QED
    BY <1>1, <2>1, Mapped
<1>6. CASE Point(i)' \notin {NoFile, Point(i)}
  <2>1. Point(i) = NoFile /\ Point(i)' = Now /\ Now # NoFile
    BY <1>3, <1>4, <1>6 DEF Point
  <2>. QED
    BY <1>1, <1>2, <2>1, Mapped
<1>. QED
  BY <1>5, <1>6

\* Only the end of a copy puts data into a snapshot.
LEMMA StillDisks ==
  ASSUME Base, NEW c \in Attempt, Steps(c), ~(CopyEnds(c) /\ part[c] = 1), NEW j \in Id
  PROVE  snap'[j]["disk"] \in {snap[j]["disk"], NoFile, Torn}
<1>0. Target(c) \in Id /\ "disk" \in Files /\ "disk" \in Parts /\ ProcOK /\ SnapsOK /\ VmOK
  BY BaseParts, FilesParts DEF ProcOK, Target, Files, Parts
<1>1. CASE \E i \in Id, f \in Files : Sets(i, f, NoFile)
  BY <1>0, <1>1 DEF Sets
<1>2. CASE \E x : Sets(Target(c), "meta", x)
  BY <1>0, <1>2 DEF Sets
<1>3. CASE /\ Creating(c) /\ Copies(c) /\ Moves(c) /\ Part(c) \in Parts /\ part[c] <= Len(Order(c))
           /\ \E x : Sets(Target(c), Part(c), x)
  <2>1. CASE Part(c) # "disk"
    BY <1>0, <1>3, <2>1 DEF Sets
  <2>2. CASE Part(c) = "disk"
    <3>1. part[c] = 1
      BY <1>3, <2>2, CopyPart
    <3>2. CASE CopyStarts(c)
      <4>1. Put(c, "disk", Torn)
        BY <1>3, <2>2, <3>2 DEF CopyStarts, Creating
      <4>. QED
        BY <4>1, <1>0, <1>3, Putting DEF Changes, Sets
    <3>3. CASE PartMissing(c)
      <4>1. Put(c, "disk", NoFile)
        BY <2>2, <3>3 DEF PartMissing, Images
      <4>. QED
        BY <4>1, <1>0, <1>3, Putting DEF Changes, Sets
    <3>4. CASE SkipPart(c) \/ CopyImpossible(c) \/ PartsCopied(c)
      BY <3>4 DEF SkipPart, CopyImpossible, PartsCopied, host, points
    <3>. QED
      BY <1>3, <3>1, <3>2, <3>3, <3>4 DEF Moves
  <2>. QED
    BY <2>1, <2>2
<1>4. CASE UNCHANGED snap
  BY <1>4
<1>. QED
  BY <1>1, <1>2, <1>3, <1>4, SnapEffect

\* A step of an attempt is a step of the abstract specification.
LEMMA AttemptMaps ==
  ASSUME Base, PointInv, NEW c \in Attempt, Steps(c)
  PROVE  Points!Next
<1>0. /\ ProcOK /\ SnapsOK /\ VmOK /\ Own(c) /\ LabelsFit(c) /\ Memory(c) /\ Target(c) \in Id
      /\ "disk" \in Files /\ "disk" \in Parts /\ "meta" # "disk"
  BY BaseParts, FilesParts, OwnStep DEF ProcOK, Target, Files, Parts
<1>1. ASSUME NEW j \in Id, snap'[j]["disk"] \in {snap[j]["disk"], NoFile, Torn}, Kept(j)' => Kept(j)
      PROVE  Point(j)' \in {Point(j), NoFile}
  BY <1>1, NotData DEF Point, Disk
<1>2. CASE Creating(c) /\ PartsCopied(c)
  <2>1. UNCHANGED <<vm, snap, record>> /\ Later(c)
    <3>1. UNCHANGED <<vm, snap, record>> /\ pc[c] = "copy" /\ part[c] > Len(Order(c))
      BY <1>2 DEF PartsCopied, host, points
    <3>2. part[c] \in 1..6 /\ Len(Order(c)) = IF Svc(c) THEN 3 ELSE 5
      BY <1>0, OrderParts DEF ProcOK
    <3>. QED
      BY <3>1, <3>2 DEF Later, Copies
  <2>. QED
    BY <1>0, <1>2, <2>1, TakeMaps
<1>3. CASE Creating(c) /\ WriteMetadata(c)
  <2>1. UNCHANGED <<vm, record>> /\ Later(c) /\ ~Copies(c) /\ ~Removing(c)
    BY <1>3 DEF WriteMetadata, Later, Copies, Removing
  <2>2. UNCHANGED snap \/ \E x : Sets(Target(c), "meta", x)
    BY <2>1, SnapEffect
  <2>3. \A j \in Id : snap'[j]["disk"] = snap[j]["disk"]
    BY <2>2, <1>0 DEF Sets
  <2>4. \A j \in Id \ {Target(c)} : snap'[j] = snap[j]
    BY <2>2 DEF Sets
  <2>. QED
    BY <1>0, <1>3, <2>1, <2>3, <2>4, TakeMaps
<1>4. CASE CopyEnds(c) /\ part[c] = 1
  <2>1. /\ Part(c) = "disk" /\ pc[c] = "copying" /\ Source(c, "disk") # NoFile /\ domain' = domain
        /\ Put(c, "disk", Arrives(c, Source(c, "disk"))) /\ UNCHANGED record
        /\ pc'[c] = "copy" /\ err' = err
    BY <1>0, <1>4, OrderParts DEF CopyEnds, Advance, Goto, ProcOK
  <2>2. CASE Creating(c)
    <3>0. PICK i \in Id : i = Target(c)
      BY <1>0
    <3>1. Sets(i, "disk", Arrives(c, vm["disk"])) /\ UNCHANGED vm
      BY <2>1, <2>2, <1>0, <3>0, Putting DEF Changes, Source, Creating
    <3>2. Point(i) = NoFile
      BY <2>1, <2>2, <1>4, <3>0 DEF PointInv, Point, Disk
    <3>3. Point(i)' \in {NoFile, Now} /\ Now' = Now
      <4>1. snap'[i]["disk"] \in {NoFile, vm["disk"]}
        BY <3>1 DEF Sets, Arrives
      <4>. QED
        BY <4>1, <3>1, NotData DEF Point, Disk, Now
    <3>4. \A j \in Id \ {i} : snap'[j] = snap[j]
      BY <3>1 DEF Sets
    <3>5. ASSUME NEW j \in Id \ {i}
          PROVE  Point(j)' = Point(j)
      <4>1. Kept(j)' => Kept(j)
        BY <3>0, <1>4, KeptFrom DEF CopyEnds, PartsCopied, WriteMetadata
      <4>2. Kept(j) => Kept(j)'
        BY <3>0, <3>4, <2>1, KeptOther
      <4>. QED
        BY <3>4, <4>1, <4>2 DEF Point
    <3>6. CASE Point(i)' = NoFile
      <4>1. \A j \in Id : Point(j)' \in {Point(j), NoFile}
        BY <3>5, <3>6
      <4>. QED
        BY <4>1, <3>3, Mapped
    <3>7. CASE Point(i)' # NoFile
      <4>1. Point(i)' = Now /\ Now # NoFile
        BY <3>3, <3>7
      <4>. QED
        BY <4>1, <3>2, <3>3, <3>5, Mapped
    <3>. QED
      BY <3>6, <3>7
  <2>3. CASE Restoring(c)
    <3>1. VmSets("disk", snap[Target(c)]["disk"]) /\ UNCHANGED snap
      BY <2>1, <2>3, <1>0, Putting DEF Changes, Source, Creating, Restoring, Arrives
    <3>2. Keeps(c) /\ Keeps(c)'
      BY <2>1, <2>3, <1>0 DEF Keeps, Own, Restoring, Op
    <3>3. Point(Target(c)) = Disk(snap[Target(c)]["disk"])
      BY <3>2, KeptBy DEF Point
    <3>4. \A j \in Id : Point(j)' = Point(j)
      BY <3>1, <3>2, <2>1, <2>3, KeptFrom, KeptStill DEF Point, Creating, Restoring
    <3>5. Now = NoFile /\ Now' = Point(Target(c))
      BY <3>1, <3>3, <2>1, <2>3, <1>4 DEF PointInv, Now, Disk, VmSets
    <3>. QED
      BY <3>4, <3>5, <1>0, Mapped
  <2>. QED
    BY <2>1, <2>2, <2>3, <1>0 DEF LabelsFit, Copies
<1>5. CASE /\ ~(Creating(c) /\ (PartsCopied(c) \/ WriteMetadata(c))) /\ ~(CopyEnds(c) /\ part[c] = 1)
           /\ vm'["disk"] = vm["disk"]
  <2>1. \A j \in Id : snap'[j]["disk"] \in {snap[j]["disk"], NoFile, Torn}
    BY <1>5, StillDisks
  <2>2. \A j \in Id : Point(j)' \in {Point(j), NoFile}
    BY <2>1, <1>1, <1>5, KeptFrom
  <2>3. Now' = Now
    BY <1>5 DEF Now, Disk
  <2>. QED
    BY <2>2, <2>3, Mapped
<1>6. CASE /\ ~(Creating(c) /\ (PartsCopied(c) \/ WriteMetadata(c))) /\ ~(CopyEnds(c) /\ part[c] = 1)
           /\ vm'["disk"] # vm["disk"]
  <2>1. CASE /\ Restoring(c) /\ Copies(c) /\ Moves(c) /\ UNCHANGED snap
    <3>1. Part(c) = "disk" /\ part[c] = 1
      <4>1. Part(c) = "disk" /\ part[c] <= Len(Order(c))
        BY <1>6, <2>1, <1>0, CopyEffect DEF Changes, VmSets, Creating, Restoring
      <4>. QED
        BY <4>1, <2>1, CopyPart
    <3>2. CASE CopyStarts(c)
      <4>1. \E x \in {NoFile, Torn} : Put(c, "disk", x)
        BY <3>1, <3>2 DEF CopyStarts
      <4>2. vm'["disk"] \in {NoFile, Torn}
        BY <4>1, <2>1, <1>0, Putting DEF Changes, VmSets, Creating, Restoring
      <4>3. pc'[c] = "copying" /\ err' = err /\ UNCHANGED record
        BY <3>2, <1>0 DEF CopyStarts, Advance, Goto, ProcOK
      <4>4. Keeps(c)'
        BY <4>3, <2>1, <1>0 DEF Keeps, Own, Restoring, Op
      <4>5. \A j \in Id : Point(j)' = Point(j)
        BY <4>3, <4>4, <2>1, KeptFrom, KeptStill DEF Point, Creating, Restoring
      <4>6. Now' = NoFile
        BY <4>2, NotData DEF Now, Disk
      <4>. QED
        BY <4>5, <4>6, Mapped
    <3>3. CASE PartMissing(c)
      <4>1. snap[Target(c)]["disk"] = NoFile /\ Put(c, "disk", NoFile) /\ UNCHANGED record
        BY <3>1, <3>3, <2>1 DEF PartMissing, Source, Restoring, Images
      <4>2. vm'["disk"] = NoFile
        BY <4>1, <2>1, <1>0, Putting DEF Changes, VmSets, Creating, Restoring
      <4>3. ASSUME NEW j \in Id, j # Target(c)
            PROVE  Point(j)' = Point(j)
        BY <4>1, <4>3, <2>1, KeptFrom, KeptStill DEF Point, Creating, Restoring
      <4>4. ASSUME NEW j \in Id, j = Target(c)
            PROVE  Point(j)' = Point(j)
        <5>1. snap'[j]["disk"] = NoFile /\ snap[j]["disk"] = NoFile
          BY <4>1, <4>4, <2>1
        <5>. QED
          BY <5>1, NotData DEF Point, Disk
      <4>5. Now' = NoFile
        BY <4>2, NotData DEF Now, Disk
      <4>. QED
        BY <4>3, <4>4, <4>5, Mapped
    <3>4. CASE SkipPart(c) \/ CopyImpossible(c) \/ PartsCopied(c)
      BY <3>4, <1>6 DEF SkipPart, CopyImpossible, PartsCopied, host
    <3>. QED
      BY <2>1, <1>6, <3>1, <3>2, <3>3, <3>4 DEF Moves
  <2>2. CASE Op(c) = "destroy" /\ UNCHANGED snap /\ Removes(c) /\ \A p \in Parts : vm'[p] \in {vm[p], NoFile}
    <3>1. UNCHANGED record /\ ~Keeps(c)
      BY <2>2 DEF Removes, Undefine, RemoveStorage, RemoveArtifacts, Forget, points,
           Keeps, Creating, Restoring
    <3>2. \A j \in Id : Point(j)' = Point(j)
      BY <3>1, <2>2, KeptFrom, KeptStill DEF Point, Creating
    <3>3. Now' = NoFile
      BY <1>6, <1>0, <2>2, NotData DEF Now, Disk
    <3>. QED
      BY <3>2, <3>3, Mapped
  <2>3. CASE /\ Op(c) = "provision" /\ UNCHANGED snap /\ MakeDisk(c) /\ vm["disk"] = NoFile
             /\ VmSets("disk", [key |-> vm["local"], ver |-> writes + 1])
    <3>1. UNCHANGED record /\ ~Keeps(c)
      BY <2>3 DEF MakeDisk, points, Keeps, Creating, Restoring
    <3>2. \A j \in Id : Point(j)' = Point(j)
      BY <3>1, <2>3, KeptFrom, KeptStill DEF Point, Creating
    <3>3. vm'["disk"] \in DiskData /\ vm'["disk"].ver = writes + 1
      <4>1. AreFiles(vm, Parts)'
        BY VmFiles, <2>3 DEF VmOK, Builds
      <4>2. vm'["disk"] = [key |-> vm["local"], ver |-> writes + 1]
        BY <2>3 DEF VmSets
      <4>3. vm["local"] # NoFile /\ vm["local"] \in Value
        BY <2>3, <1>0, BaseParts DEF Keyed, MakeDisk, VmOK, AreFiles, Parts
      <4>. QED
        BY <4>2, <4>3, <1>0 DEF DiskData, Value, VmOK
    <3>4. Now' \in DiskData /\ Now = NoFile /\ Now'.ver = writes + 1
      BY <3>3, <2>3, NotData DEF Now, Disk
    <3>5. ASSUME NEW j \in Id
          PROVE  Now' # Point(j)
      BY <3>4, <1>0, FreshData DEF Point, VmOK
    <3>. QED
      BY <3>2, <3>4, <3>5, NotData, Mapped
  <2>. QED
    BY <1>6, <1>0, <2>1, <2>2, <2>3, VmEffect DEF VmSets, Removes
<1>. QED
  BY <1>2, <1>3, <1>4, <1>5, <1>6

\* To begin with nothing is being copied, and no disk is newer than the last write.
LEMMA InitPoint ==
  ASSUME Init
  PROVE  PointInv
<1>1. PICK origin \in Taken : snap = [i \in Id |-> Snapped(origin[i])]
  BY DEF Init
<1>2. pc = [a \in Attempt |-> "idle"] /\ vm["disk"] = [key |-> 1, ver |-> 1] /\ writes = 1
  BY DEF Init, Original
<1>3. ASSUME NEW i \in Id
      PROVE  snap[i]["disk"] \in {NoFile, Torn, [key |-> 1, ver |-> 0]}
  <2>. DEFINE o == origin[i]
              f == snap[i]
  <2>1. o \in Origins
    BY <1>1, ChoiceAssumption
  <2>2. f = Snapped(o)
    BY <1>1
  <2>. HIDE DEF o, f
  <2>3. /\ o = "none" => f = [p \in Files |-> NoFile]
        /\ o = "cli" => f = [p \in Files |-> IF p = "meta" THEN Whole ELSE Original(0)[p]]
        /\ o = "service" => f = [p \in Files |-> IF p \in {"disk", "seed", "local"}
                                                 THEN Original(0)[p] ELSE NoFile]
        /\ o = "early" => f = [p \in Files |-> IF p = "disk" THEN Torn ELSE NoFile]
        /\ o = "late" => f = [p \in Files |-> IF p = "meta" THEN Torn ELSE Original(0)[p]]
    BY <2>2 DEF Snapped
  <2>4. f["disk"] \in {NoFile, Torn, [key |-> 1, ver |-> 0]}
    BY <2>1, <2>3 DEF Origins, Files, Parts, Original
  <2>. QED
    BY <2>4 DEF f
<1>4. ASSUME NEW i \in Id, snap[i]["disk"] \in DiskData
      PROVE  snap[i]["disk"].ver <= writes
  BY <1>2, <1>3, <1>4, NotData
<1>5. \A a \in Attempt : pc[a] # "copying" /\ ~Later(a)
  BY <1>2 DEF Later, Copies
<1>. QED
  BY <1>2, <1>4, <1>5 DEF PointInv

\* The guest writes data that no restore point holds.
LEMMA GuestMaps ==
  ASSUME Base, PointInv, GuestWrites
  PROVE  PointInv' /\ Points!Next
<1>0. /\ UNCHANGED <<quiet, pc, err, domain, points, keys>> /\ domain = "running"
      /\ vm["disk"] \in DiskData /\ vm'["disk"] \in DiskData /\ writes' = writes + 1
      /\ vm'["disk"] = [key |-> vm["disk"].key, ver |-> writes + 1] /\ VmOK
  BY GuestStep, BaseParts, FilesParts
<1>1. vm'["disk"].ver = writes + 1 /\ vm["disk"].ver \in Nat /\ writes \in Nat
  BY <1>0 DEF VmOK, DiskData
<1>2. PointInv'
  <2>1. \A i \in Id : snap[i]["disk"] \in DiskData => snap[i]["disk"].ver \in Nat
    BY DEF DiskData
  <2>2. \A a \in Attempt : Creating(a) => ~Later(a)
    BY <1>0 DEF PointInv
  <2>3. \A a \in Attempt : /\ Creating(a)' = Creating(a) /\ Later(a)' = Later(a)
                           /\ Restoring(a)' = Restoring(a) /\ Target(a)' = Target(a)
    BY <1>0 DEF quiet, Creating, Restoring, Op, Later, Copies, Target
  <2>4. ASSUME NEW a \in Attempt, Restoring(a), pc[a] = "copying", part[a] = 1
        PROVE  FALSE
    BY <1>0, <2>4 DEF PointInv
  <2>5. snap' = snap /\ pc' = pc /\ part' = part /\ DiskData' = DiskData
    BY <1>0 DEF points, quiet, DiskData
  <2>6. vm'["disk"].ver <= writes'
    BY <1>0, <1>1
  <2>7. \A i \in Id : snap'[i]["disk"] \in DiskData => snap'[i]["disk"].ver <= writes'
    BY <1>0, <1>1, <2>1, <2>5 DEF PointInv
  <2>8. ASSUME NEW a \in Attempt, Creating(a)', pc'[a] = "copying", part'[a] = 1
        PROVE  (snap[Target(a)]["disk"])' \notin DiskData
    BY <2>3, <2>5, <2>8 DEF PointInv
  <2>. QED
    BY <2>2, <2>3, <2>4, <2>5, <2>6, <2>7, <2>8 DEF PointInv
<1>3. \A i \in Id : Point(i)' = Point(i)
  BY <1>0 DEF Point, Kept, Listed, Op, Target, quiet, points, Disk
<1>4. Now' = vm'["disk"] /\ Now = vm["disk"]
  BY <1>0 DEF Now, Disk
<1>5. Now' # Now
  BY <1>0, <1>1, <1>4 DEF PointInv
<1>6. \A j \in Id : Now' # Point(j)
  BY <1>0, <1>1, <1>4, FreshData
<1>. QED
  BY <1>0, <1>2, <1>3, <1>4, <1>5, <1>6, Mapped

\* Snapshots are the restore points of RestorePoints: each holds the data of one moment,
\* and what a VM gets back is such data, never a mixture and never half of it.
THEOREM Refines == Spec => ImplementsRestorePoints
<1>1. ASSUME Base, PointInv, [Next]_vars
      PROVE  PointInv' /\ [Points!Next]_(Points!vars)
  <2>1. CASE UNCHANGED vars
    <3>1. UNCHANGED <<task, pc, err, part, domain, vm, snap, record, writes>>
      BY <2>1 DEF vars, counts
    <3>2. PointInv'
      BY <1>1, <3>1 DEF PointInv, Creating, Restoring, Op, Target, Later, Copies
    <3>3. UNCHANGED Points!vars
      BY <3>1 DEF Points!vars, Kept, Listed, Op, Target, Disk
    <3>. QED
      BY <3>2, <3>3
  <2>. QED
    BY <1>1, <2>1, OneStep, GuestMaps, PointStep, AttemptMaps
<1>2. ASSUME Init
      PROVE  Points!Init
  <2>1. \A d : Disk(d) \in DiskData \cup {NoFile}
    BY DEF Disk
  <2>. QED
    BY <2>1 DEF Points!Init, Points!Some
<1>. QED
  BY <1>1, <1>2, InitPoint, Invariance, PTL DEF Spec, ImplementsRestorePoints, Points!Spec
=============================================================================
