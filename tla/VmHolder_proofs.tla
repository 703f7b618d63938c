---------------------------- MODULE VmHolder_proofs ----------------------------
(***************************************************************************)
(* Proofs of what the lifecycle operations promise about the host.  All of *)
(* them rest on one observation: domains, disks, state files and networks  *)
(* are only touched by the attempt that holds the lock, so that what it has*)
(* established at one of its steps still holds at the next.                *)
(***************************************************************************)
EXTENDS VmLifecycle_proofs

\* Hypotheses on what the invocations are asked to do.
NoService == \A f \in Tasking, a \in Attempt : ~f[a].svc
NoReconcile == \A f \in Tasking, a \in Attempt : f[a].op # "reconcile"
Make == {"create", "clone"}
GroupsConfigured ==
    \A f \in Tasking, a \in Attempt :
        f[a].op \in Make /\ f[a].vm \in Group => f[a].vm \in Configured
NoAutoDestroyed ==
    \A f \in Tasking, a \in Attempt :
        f[a].op = "destroy" => Mode[f[a].vm] # "nat-auto"

Makes(a) == Op(a) \in Make
Leaving == Cleaning \cup {"finally", "unlock"} \cup Ended

\* An attempt on its own: where it can have an exception in flight, where a clone
\* can have stopped its source, where nothing has been installed yet.
Control(a) ==
    /\ \/ pc[a] \notin Leaving \/ pc[a] \in {"refused", "done"}
       \/ Op(a) = "destroy" /\ pc[a] \in Cleaning
       => err[a] = "none"
    /\ Op(a) = "clone" /\ pc[a] \in Cleaning => err[a] # "none" /\ ~task[a].svc
    /\ Op(a) = "clone" /\ ran[a] # "no" => InTry(a) \/ pc[a] \in Leaving
    /\ Op(a) = "clone" /\ err[a] \in {"interrupted", "start"}
         => pc[a] \in {"finally", "unlock"} \cup Ended
    /\ Op(a) = "clone" /\ ran[a] = "waiting" =>
         \/ pc[a] \in {"stopping"} \cup Ended
         \/ pc[a] \in {"finally", "unlock"} /\ err[a] = "interrupted"
    /\ pc[a] \in {"idle", "check", "load", "lock", "prepare", "stop", "stopping", "copy",
                  "copying"}
         => stage[a] = "pre"

\* Where the network of the VM that is being built has been seen to.
Networked(a) == \/ pc[a] = "install"
                \/ pc[a] = "seed" /\ Op(a) = "clone"
                \/ /\ pc[a] \in {"rules", "image", "fetch", "disk", "copy", "copying", "seed"}
                   /\ V(a) \in Group

\* What the holder of the lock has established when it is building a VM...
Built(a) ==
    /\ pc[a] = "disk" => base # "none"
    /\ pc[a] \in {"seed", "natnet", "install"} =>
         /\ disk[V(a)] # "none"
         /\ Op(a) = "clone" => disk[V(a)] = disk[Src(a)]
    /\ \/ pc[a] = "install"
       \/ pc[a] = "natnet" /\ Op(a) = "create"
       => {"data", "seed"} \subseteq files[V(a)]
Wired(a) ==
    GroupsConfigured /\ Makes(a) =>
         /\ pc[a] = "nets" => V(a) \in plan[a].recs
         /\ Networked(a) => netUp[NetOf[V(a)]] = "active"
Keyed(a) ==
    ~task[a].svc /\ (Builds(a) \/ (Makes(a) /\ pc[a] = "save")) => "key" \in files[V(a)]

\* The end of a cleanup that went through.
Tail(a) == \/ /\ Op(a) = "destroy"
              /\ \/ pc[a] \in {"read", "nets", "rules"}
                 \/ pc[a] = "unlock" /\ err[a] = "none"
           \/ /\ Op(a) = "clone" /\ pc[a] = "finally" /\ ~task[a].svc
              /\ err[a] = "raised" /\ state[V(a)] = "none"
From(a, labels) == pc[a] \in labels \/ Tail(a)

\* ...when it is cleaning one up: what it took the network to be...
Judged(a) ==
    /\ pc[a] = "netdown" => TakesNetDown(a)
    /\ Op(a) = "clone" /\ (pc[a] \in Cleaning \/ (pc[a] = "save" /\ stage[a] = "post"))
         => state[V(a)] # "none"
    /\ Op(a) = "destroy" /\ From(a, Cleaning) =>
         /\ V(a) \notin Group => seen[a] # "group"
         /\ pc[a] = "nets" => seen[a] = "group"
         /\ V(a) \in Group /\ TakesNetDown(a) => state[V(a)] # "saved"
         /\ V(a) \notin Group /\ ~TakesNetDown(a) => ~Discovered(V(a))

\* ...and what it has removed...
Swept(a) ==
    /\ From(a, Cleaning \ {"undefine"}) => domain[V(a)] = "none"
    /\ From(a, {"storage", "artifacts", "forget"}) /\ TakesNetDown(a)
         => netUp[NetOf[V(a)]] = "absent"
    /\ From(a, {"artifacts", "forget"}) => disk[V(a)] = "none" /\ "seed" \notin files[V(a)]
    /\ NoService /\ From(a, {"forget"})
         => files[V(a)] \subseteq (IF FindsData(a) THEN {} ELSE {"data"})
    /\ Tail(a) => state[V(a)] = "none"

\* ...and when it is starting one.
Started(a) ==
    /\ Op(a) = "start" /\ seen[a] \in {"group", "nat-custom"} /\ V(a) \in Live =>
         /\ pc[a] \in {"nets", "rules"} => V(a) \in plan[a].live
         /\ NoReconcile /\ (pc[a] = "boot" \/ (pc[a] = "unlock" /\ err[a] = "none"))
              => V(a) \in rules
    /\ Op(a) = "start" /\ pc[a] = "unlock" /\ err[a] = "none" => domain[V(a)] = "running"
    /\ Op(a) = "clone" /\ pc[a] = "unlock" /\ ran[a] = "yes" /\ err[a] # "start"
         => domain[Src(a)] = "running"

Here(a) == /\ Built(a) /\ Wired(a) /\ Keyed(a) /\ Judged(a) /\ Started(a)
           /\ "cleanup" \notin Faults => Swept(a)
HolderInv == /\ IInv
             /\ NoService => DomainHasKey
             /\ \A a \in Attempt : Control(a) /\ (~Outside(a) => Here(a))

\* Nothing has failed so far.
Clear == \A a \in Attempt : pc[a] \notin {"failed", "crashed"} /\ err[a] = "none"
Converged == rules = Live /\ \A v \in Vm : state[v] # "torn"
\* What the holder of the lock knows of the policy while nothing has failed.
Untouched(a) == \/ Op(a) \in {"start", "stop"}
                \/ Op(a) = "destroy" /\ pc[a] \in Cleaning \cup {"load", "unlock"}
                \/ Makes(a) /\ pc[a] \in {"prepare", "finally", "unlock"}
                \/ Makes(a) /\ pc[a] = "save" /\ stage[a] = "pre"
Policed(a) ==
    /\ Untouched(a) => Converged
    /\ pc[a] \in {"nets", "rules"} => plan[a].live = Live
    /\ \A v \in Vm : state[v] = "torn" => pc[a] = "write" /\ v = V(a)
    /\ Op(a) = "destroy" /\ pc[a] \in Cleaning /\ seen[a] \notin {"group", "nat", "nat-custom"}
         => state[V(a)] = "none"
PolicyInv == "reboot" \notin Faults /\ NoReconcile /\ NoAutoDestroyed /\ Clear =>
               /\ lock = None => Converged
               /\ \A a \in Attempt : lock = a => Policed(a)

-----------------------------------------------------------------------------
\* The steps of an attempt, by what they are about.
Enters(a) == \/ Begin(a) \/ Check(a) \/ LoadForStart(a) \/ TakeLock(a) \/ FindBusy(a)
             \/ Prepare(a) \/ PrepareFails(a)
Saves(a) == Save(a) \/ Write(a)
Reconciles(a) == \/ ReadRecords(a) \/ EnsureNet(a) \/ EnsureNetFails(a) \/ NetsRaise(a)
                 \/ NetsDone(a) \/ ApplyRules(a) \/ ApplyRulesFails(a)
Copying(a) == \/ StopMissing(a) \/ StopStopped(a) \/ StopRunning(a) \/ StopReturns(a)
              \/ CopyStarts(a) \/ CopyEnds(a) \/ CopyImpossible(a)
Making(a) == \/ Image(a) \/ Fetched(a) \/ MakeDisk(a) \/ Seed(a) \/ SeedFails(a)
             \/ NatNet(a) \/ NatNetFails(a) \/ Install(a)
Boots(a) == Boot(a) \/ BootFails(a) \/ NothingToRestart(a)
Removes(a) == \/ LoadForDestroy(a) \/ ForceOff(a) \/ Undefine(a) \/ NetStop(a)
              \/ NetDown(a) \/ RemoveStorage(a) \/ RemoveArtifacts(a) \/ Forget(a)
              \/ CleanupFails(a)
Ends(a) == Unlock(a) \/ Fails(a) \/ Interrupt(a) \/ Crash(a)

\* Every step is of one of these kinds.
LEMMA MoveCases ==
  ASSUME NEW a \in Attempt, Moves(a)
  PROVE  \/ Enters(a) \/ Saves(a) \/ Reconciles(a) \/ Copying(a) \/ Making(a)
         \/ Boots(a) \/ Removes(a) \/ Ends(a)
  BY DEF Moves, Proceed, Breaks, Enters, Saves, Reconciles, Copying, Making, Boots,
         Removes, Ends

\* What an attempt is and where it stands.
LEMMA Standing ==
  ASSUME LockInv, NEW a \in Attempt
  PROVE  /\ pc \in [Attempt -> PCs] /\ Fits(Op(a), pc[a]) /\ Op(a) \in Ops
         /\ task[a].svc \in BOOLEAN /\ V(a) \in Vm /\ Src(a) \in Vm
         /\ err \in [Attempt -> {"none", "raised", "interrupted", "start"}]
         /\ stage \in [Attempt -> {"pre", "post"}]
         /\ ran \in [Attempt -> {"no", "waiting", "yes"}] /\ named \in [Attempt -> BOOLEAN]
         /\ lock = a <=> ~Outside(a)
  BY TaskType DEF LockInv, TypeOK, LabelsFit, LockTracksHolder

\* No step changes what an attempt was asked to do.
LEMMA TaskKept ==
  ASSUME NEW a \in Attempt, Moves(a)
  PROVE  task' = task
<1>. USE DEF quiet, still, images, nets, host
<1>1. CASE Enters(a) \/ Saves(a) \/ Reconciles(a) \/ Copying(a)
  BY <1>1 DEF Enters, Begin, Check, LoadForStart, TakeLock, FindBusy, Prepare,
       PrepareFails, Saves, Save, Write, Reconciles, ReadRecords, EnsureNet,
       EnsureNetFails, NetsRaise, NetsDone, ApplyRules, ApplyRulesFails, Copying,
       StopMissing, StopStopped, StopRunning, StopReturns, CopyStarts, CopyEnds,
       CopyImpossible
<1>2. CASE Making(a) \/ Boots(a) \/ Removes(a) \/ Ends(a)
  BY <1>2 DEF Making, Image, Fetched, MakeDisk, Seed, SeedFails, NatNet, NatNetFails,
       Install, Boots, Boot, BootFails, NothingToRestart, Removes, LoadForDestroy,
       ForceOff, Undefine, NetStop, NetDown, RemoveStorage, RemoveArtifacts, Forget,
       CleanupFails, Ends, Unlock, Fails, Interrupt, Crash
<1>. QED
  BY <1>1, <1>2, MoveCases

\* A step leaves the other attempts as they are.
LEMMA OthersKept ==
  ASSUME LockInv, NEW a \in Attempt, Moves(a), NEW b \in Attempt \ {a}
  PROVE  /\ pc'[b] = pc[b] /\ err'[b] = err[b] /\ stage'[b] = stage[b]
         /\ ran'[b] = ran[b] /\ seen'[b] = seen[b] /\ named'[b] = named[b]
         /\ plan'[b] = plan[b]
<1>0. /\ pc \in [Attempt -> PCs] /\ DOMAIN err = Attempt /\ DOMAIN stage = Attempt
      /\ DOMAIN ran = Attempt /\ DOMAIN seen = Attempt /\ DOMAIN plan = Attempt
      /\ DOMAIN named = Attempt
  BY DEF LockInv, TypeOK
<1>. USE <1>0 DEF Goto, Advance, Raise, quiet, still, images, nets, host
<1>1. CASE Enters(a) \/ Saves(a) \/ Reconciles(a) \/ Copying(a)
  BY <1>1 DEF Enters, Begin, Check, LoadForStart, TakeLock, FindBusy, Prepare,
       PrepareFails, Saves, Save, Write, Reconciles, ReadRecords, EnsureNet,
       EnsureNetFails, NetsRaise, NetsDone, ApplyRules, ApplyRulesFails, Copying,
       StopMissing, StopStopped, StopRunning, StopReturns, CopyStarts, CopyEnds,
       CopyImpossible
<1>2. CASE Making(a) \/ Boots(a) \/ Removes(a) \/ Ends(a)
  BY <1>2 DEF Making, Image, Fetched, MakeDisk, Seed, SeedFails, NatNet, NatNetFails,
       Install, Boots, Boot, BootFails, NothingToRestart, Removes, LoadForDestroy,
       ForceOff, Undefine, NetStop, NetDown, RemoveStorage, RemoveArtifacts, Forget,
       CleanupFails, Ends, Unlock, Fails, Interrupt, Crash
<1>. QED
  BY <1>1, <1>2, MoveCases

\* Without the lock an attempt does nothing to domains, disks, state files and
\* networks; a service may add a key, and only a reconcile replaces the policy.
LEMMA OutsideQuiet ==
  ASSUME LockInv, NEW a \in Attempt, Moves(a), Outside(a)
  PROVE  /\ UNCHANGED <<domain, disk, state, netUp, dhcp, base>>
         /\ UNCHANGED files \/ task[a].svc
         /\ \A v \in Vm : /\ files[v] \subseteq files'[v]
                          /\ files'[v] \subseteq files[v] \cup {"key"}
         /\ UNCHANGED rules \/ Op(a) = "reconcile"
<1>0. files \in [Vm -> SUBSET {"key", "data", "seed"}]
  BY DEF LockInv, TypeOK
<1>. USE Standing, <1>0
     DEF quiet, still, images, nets, host, Outside, Fits, ReconcileAt, Ended, Ops
<1>1. CASE Enters(a)
  BY <1>1 DEF Enters, Begin, Check, LoadForStart, TakeLock, FindBusy, Prepare,
       PrepareFails
<1>2. CASE Saves(a)
  BY <1>2 DEF Saves, Save, Write
<1>3. CASE Reconciles(a)
  BY <1>3 DEF Reconciles, ReadRecords, EnsureNet, EnsureNetFails, NetsRaise, NetsDone,
              ApplyRules, ApplyRulesFails
<1>4. CASE Copying(a)
  BY <1>4 DEF Copying, StopMissing, StopStopped, StopRunning, StopReturns, CopyStarts,
              CopyEnds, CopyImpossible
<1>5. CASE Making(a)
  BY <1>5 DEF Making, Image, Fetched, MakeDisk, Seed, SeedFails, NatNet, NatNetFails,
       Install
<1>6. CASE Boots(a)
  BY <1>6 DEF Boots, Boot, BootFails, NothingToRestart, Starting
<1>7. CASE Removes(a)
  BY <1>7 DEF Removes, LoadForDestroy, ForceOff, Undefine, NetStop, NetDown,
              RemoveStorage, RemoveArtifacts, Forget, CleanupFails
<1>8. CASE Ends(a)
  BY <1>8 DEF Ends, Unlock, Fails, Interrupt, Crash
<1>. QED
  BY <1>1, <1>2, <1>3, <1>4, <1>5, <1>6, <1>7, <1>8, MoveCases
-----------------------------------------------------------------------------
(* Control *)

\* The control facts hold after each step of the attempt.
LEMMA ControlStep ==
  ASSUME LockInv, NEW a \in Attempt, Moves(a), Control(a)
  PROVE  Control(a)'
<1>0. task' = task
  BY TaskKept
<1>. USE Standing, <1>0
     DEF Goto, Advance, Raise, quiet, still, images, nets, host, Control, Op, V, InTry,
         Handler, Leaving, Building, Cleaning, Ended, Fits, CreateAt, CloneAt, StartAt,
         StopAt, DestroyAt, ReconcileAt, Ops
<1>1. CASE Enters(a)
  <2>1. CASE Begin(a) \/ TakeLock(a)
    BY <2>1 DEF Begin, TakeLock, StartNext
  <2>2. CASE Check(a)
    BY <2>2 DEF Check
  <2>4. CASE LoadForStart(a)
    BY <2>4 DEF LoadForStart
  <2>5. CASE FindBusy(a)
    BY <2>5 DEF FindBusy
  <2>3. CASE Prepare(a) \/ PrepareFails(a)
    BY <2>3 DEF Prepare, PrepareFails
  <2>. QED
    BY <1>1, <2>1, <2>2, <2>3, <2>4, <2>5 DEF Enters
<1>2. CASE Saves(a)
  BY <1>2 DEF Saves, Save, Write
<1>3. CASE Reconciles(a)
  BY <1>3 DEF Reconciles, ReadRecords, EnsureNet, EnsureNetFails, NetsRaise, NetsDone,
              ApplyRules, ApplyRulesFails, AfterRules
<1>4. CASE Copying(a)
  BY <1>4 DEF Copying, StopMissing, StopStopped, StopRunning, StopReturns, CopyStarts,
              CopyEnds, CopyImpossible, AfterStop, AfterDisk
<1>5. CASE Making(a)
  BY <1>5 DEF Making, Image, Fetched, MakeDisk, Seed, SeedFails, NatNet, NatNetFails,
       Install
<1>6. CASE Boots(a)
  BY <1>6 DEF Boots, Boot, BootFails, NothingToRestart, Starting
<1>7. CASE Removes(a)
  <2>1. CASE LoadForDestroy(a)
    BY <2>1 DEF LoadForDestroy
  <2>3. CASE ForceOff(a) \/ Undefine(a)
    BY <2>3 DEF ForceOff, Undefine
  <2>4. CASE CleanupFails(a)
    BY <2>4 DEF CleanupFails
  <2>2. CASE \/ NetStop(a) \/ NetDown(a) \/ RemoveStorage(a) \/ RemoveArtifacts(a)
             \/ Forget(a)
    BY <2>2 DEF NetStop, NetDown, RemoveStorage, RemoveArtifacts, Forget
  <2>. QED
    BY <1>7, <2>1, <2>2, <2>3, <2>4 DEF Removes
<1>8. CASE Ends(a)
  BY <1>8 DEF Ends, Unlock, Fails, Interrupt, Starting, Crash, Outside
<1>. QED
  BY <1>1, <1>2, <1>3, <1>4, <1>5, <1>6, <1>7, <1>8, MoveCases
-----------------------------------------------------------------------------
(* Building *)

\* An attempt comes by the lock by taking it.
LEMMA ComesIn ==
  ASSUME LockInv, NEW a \in Attempt, Moves(a), Outside(a), ~Outside(a)'
  PROVE  TakeLock(a)
<1>0. task' = task
  BY TaskKept
<1>. USE Standing, <1>0
     DEF Goto, Advance, Raise, quiet, still, images, nets, host, Outside, Op, V, InTry,
         Handler, Building, Cleaning, Ended, Fits, ReconcileAt, Ops
<1>1. CASE Enters(a)
  BY <1>1 DEF Enters, Begin, Check, LoadForStart, FindBusy, Prepare, PrepareFails
<1>2. CASE Saves(a) \/ Making(a)
  BY <1>2 DEF Saves, Save, Write, Making, Image, Fetched, MakeDisk, Seed, SeedFails,
              NatNet, NatNetFails, Install
<1>3. CASE Reconciles(a)
  BY <1>3 DEF Reconciles, ReadRecords, EnsureNet, EnsureNetFails, NetsRaise, NetsDone,
              ApplyRules, ApplyRulesFails, AfterRules, Full
<1>4. CASE Copying(a) \/ Boots(a)
  BY <1>4 DEF Copying, StopMissing, StopStopped, StopRunning, StopReturns, CopyStarts,
              CopyEnds, CopyImpossible, Boots, Boot, BootFails, NothingToRestart, Starting
<1>5. CASE Removes(a) \/ Ends(a)
  BY <1>5 DEF Removes, LoadForDestroy, ForceOff, Undefine, NetStop, NetDown,
              RemoveStorage, RemoveArtifacts, Forget, CleanupFails, Ends, Unlock, Fails,
              Interrupt, Crash
<1>. QED
  BY <1>1, <1>2, <1>3, <1>4, <1>5, MoveCases

\* The base image comes before the disk, the disk before seed, network and install.
LEMMA BuiltStep ==
  ASSUME LockInv, NEW a \in Attempt, Moves(a), ~Outside(a) => Built(a), ~Outside(a)'
  PROVE  Built(a)'
<1>0. /\ task' = task /\ disk \in [Vm -> {"none", "partial", "whole"}]
      /\ base \in {"none", "partial", "whole"}
      /\ files \in [Vm -> SUBSET {"key", "data", "seed"}]
  BY TaskKept DEF LockInv, TypeOK
<1>. USE Standing, <1>0
     DEF Goto, Advance, Raise, quiet, still, images, nets, host, Built, Op, V, Src, InTry,
         Handler, Building, Cleaning, Ended, Fits, CreateAt, CloneAt, ReconcileAt, Ops
<1>1. CASE TakeLock(a)
  BY <1>1 DEF TakeLock, StartNext
<1>2. SUFFICES ASSUME Built(a) PROVE Built(a)'
  BY <1>1, ComesIn
<1>3. CASE Enters(a) \/ Saves(a)
  BY <1>1, <1>2, <1>3 DEF Enters, Begin, Check, LoadForStart, FindBusy, Prepare,
     PrepareFails, Saves, Save, Write
<1>4. CASE Reconciles(a)
  BY <1>2, <1>4 DEF Reconciles, ReadRecords, EnsureNet, EnsureNetFails, NetsRaise,
              NetsDone, ApplyRules, ApplyRulesFails, AfterRules
<1>5. CASE Copying(a)
  BY <1>2, <1>5 DEF Copying, StopMissing, StopStopped, StopRunning, StopReturns,
              CopyStarts, CopyEnds, CopyImpossible, AfterStop, AfterDisk
<1>6. CASE Making(a)
  BY <1>2, <1>6 DEF Making, Image, Fetched, MakeDisk, Seed, SeedFails, NatNet,
              NatNetFails, Install
<1>7. CASE Boots(a) \/ Removes(a) \/ Ends(a)
  BY <1>7 DEF Boots, Boot, BootFails, NothingToRestart, Removes, LoadForDestroy,
              ForceOff, Undefine, NetStop, NetDown, RemoveStorage, RemoveArtifacts,
              Forget, CleanupFails, Ends, Unlock, Fails, Interrupt, Crash
<1>. QED
  BY <1>3, <1>4, <1>5, <1>6, <1>7, MoveCases

\* The key comes before everything else of a build, and a build removes nothing.
LEMMA KeyedStep ==
  ASSUME LockInv, NEW a \in Attempt, Moves(a), ~Outside(a) => Keyed(a), ~Outside(a)'
  PROVE  Keyed(a)'
<1>. SUFFICES ASSUME ~task[a].svc PROVE Keyed(a)'
  BY TaskKept DEF Keyed
<1>0. /\ task' = task /\ files \in [Vm -> SUBSET {"key", "data", "seed"}]
  BY TaskKept DEF LockInv, TypeOK
<1>. USE Standing, <1>0
     DEF Goto, Advance, Raise, quiet, still, images, nets, host, Keyed, Builds, Makes,
         Make, Op, V, Src, InTry, Handler, Building, Cleaning, Ended, Fits, CreateAt,
         CloneAt, Ops
<1>1. CASE TakeLock(a)
  BY <1>1 DEF TakeLock, StartNext
<1>2. SUFFICES ASSUME Keyed(a) PROVE Keyed(a)'
  BY <1>1, ComesIn
<1>3. CASE Enters(a) \/ Saves(a)
  BY <1>1, <1>2, <1>3 DEF Enters, Begin, Check, LoadForStart, FindBusy, Prepare,
     PrepareFails, Saves, Save, Write
<1>4. CASE Reconciles(a)
  BY <1>2, <1>4 DEF Reconciles, ReadRecords, EnsureNet, EnsureNetFails, NetsRaise,
              NetsDone, ApplyRules, ApplyRulesFails, AfterRules
<1>5. CASE Copying(a)
  BY <1>2, <1>5 DEF Copying, StopMissing, StopStopped, StopRunning, StopReturns,
              CopyStarts, CopyEnds, CopyImpossible, AfterStop, AfterDisk
<1>6. CASE Making(a)
  BY <1>2, <1>6 DEF Making, Image, Fetched, MakeDisk, Seed, SeedFails, NatNet,
              NatNetFails, Install
<1>7. CASE Boots(a) \/ Removes(a) \/ Ends(a)
  BY <1>7 DEF Boots, Boot, BootFails, NothingToRestart, Removes, LoadForDestroy,
              ForceOff, Undefine, NetStop, NetDown, RemoveStorage, RemoveArtifacts,
              Forget, CleanupFails, Ends, Unlock, Fails, Interrupt, Crash
<1>. QED
  BY <1>3, <1>4, <1>5, <1>6, <1>7, MoveCases

\* A grouped VM's network is up from the end of the reconcile on, a standalone VM's
\* from natnet on.
LEMMA WiredStep ==
  ASSUME LockInv, NEW a \in Attempt, Moves(a), ~Outside(a) => Wired(a), ~Outside(a)'
  PROVE  Wired(a)'
<1>. SUFFICES ASSUME GroupsConfigured, Makes(a) PROVE Wired(a)'
  BY TaskKept DEF Wired, Makes, Op
<1>0. /\ task' = task /\ netUp \in [Net -> {"absent", "inactive", "active"}]
      /\ NetOf \in [Vm -> Net] /\ DOMAIN plan = Attempt
  BY TaskKept, NetAssumption DEF LockInv, TypeOK
<1>a. V(a) \in Group => V(a) \in Records
  BY DEF LockInv, TypeOK, GroupsConfigured, Makes, Make, Op, V, Records, Group
<1>. USE Standing, <1>0, <1>a
     DEF Goto, Advance, Raise, quiet, still, images, nets, host, Wired, Makes, Make, Op,
         V, Src, Networked, InTry, Handler, Building, Cleaning, Ended, Fits, CreateAt,
         CloneAt
<1>1. CASE TakeLock(a)
  BY <1>1 DEF TakeLock
<1>2. SUFFICES ASSUME Wired(a) PROVE Wired(a)'
  BY <1>1, ComesIn
<1>3. CASE Enters(a) \/ Saves(a)
  BY <1>1, <1>2, <1>3 DEF Enters, Begin, Check, LoadForStart, FindBusy, Prepare,
     PrepareFails, Saves, Save, Write
<1>4. CASE Reconciles(a)
  <2>1. CASE ReadRecords(a)
    BY <1>2, <2>1 DEF ReadRecords, Full
  <2>2. CASE EnsureNet(a) \/ EnsureNetFails(a) \/ NetsRaise(a) \/ ApplyRulesFails(a)
    BY <1>2, <2>2 DEF EnsureNet, EnsureNetFails, NetsRaise, ApplyRulesFails
  <2>3. CASE NetsDone(a)
    BY <1>2, <2>3 DEF NetsDone, Drifted
  <2>4. CASE ApplyRules(a)
    BY <1>2, <2>4 DEF ApplyRules, AfterRules
  <2>. QED
    BY <1>4, <2>1, <2>2, <2>3, <2>4 DEF Reconciles
<1>5. CASE Copying(a)
  BY <1>2, <1>5 DEF Copying, StopMissing, StopStopped, StopRunning, StopReturns,
              CopyStarts, CopyEnds, CopyImpossible, AfterStop, AfterDisk
<1>6. CASE Making(a)
  BY <1>2, <1>6 DEF Making, Image, Fetched, MakeDisk, Seed, SeedFails, NatNet,
              NatNetFails, NatNetDefined, Install
<1>7. CASE Boots(a) \/ Removes(a) \/ Ends(a)
  BY <1>7 DEF Boots, Boot, BootFails, NothingToRestart, Removes, LoadForDestroy,
              ForceOff, Undefine, NetStop, NetDown, RemoveStorage, RemoveArtifacts,
              Forget, CleanupFails, Ends, Unlock, Fails, Interrupt, Crash
<1>. QED
  BY <1>3, <1>4, <1>5, <1>6, <1>7, MoveCases
-----------------------------------------------------------------------------
(* Cleaning up and starting *)

\* A destroy decides about the network from the files and networks it finds under the
\* lock, and they stay as it found them.
LEMMA JudgedStep ==
  ASSUME IInv, NEW a \in Attempt, Moves(a), Control(a),
         ~Outside(a) => Judged(a), ~Outside(a)'
  PROVE  Judged(a)'
<1>0. /\ task' = task /\ state \in [Vm -> {"none", "torn", "saved"}]
      /\ seen \in [Attempt -> Modes] /\ LockInv
      /\ Builds(a) => state[V(a)] # "none"
  BY TaskKept DEF IInv, LockInv, TypeOK, Saved
<1>. USE Standing, <1>0
     DEF Goto, Advance, Raise, quiet, still, images, nets, host, Judged, From, Tail,
         TakesNetDown, OwnNetMode, Discovered, Builds, Op, V, Src, InTry, Handler,
         Building, Cleaning, Ended, Fits, CreateAt, CloneAt, StartAt, StopAt, DestroyAt,
         ReconcileAt, Ops
<1>1. CASE TakeLock(a)
  BY <1>1 DEF TakeLock, StartNext, Control
<1>2. SUFFICES ASSUME Judged(a) PROVE Judged(a)'
  BY <1>1, ComesIn
<1>3. CASE Enters(a) \/ Saves(a)
  BY <1>1, <1>2, <1>3 DEF Enters, Begin, Check, LoadForStart, FindBusy, Prepare,
     PrepareFails, Saves, Save, Write, Control
<1>4. CASE Reconciles(a)
  <2>1. CASE ReadRecords(a) \/ EnsureNet(a) \/ NetsDone(a)
    BY <1>2, <2>1 DEF ReadRecords, Full, EnsureNet, NetsDone
  <2>2. CASE EnsureNetFails(a) \/ NetsRaise(a) \/ ApplyRulesFails(a)
    BY <1>2, <2>2 DEF EnsureNetFails, NetsRaise, ApplyRulesFails
  <2>3. CASE ApplyRules(a)
    BY <1>2, <2>3 DEF ApplyRules, AfterRules
  <2>. QED
    BY <1>4, <2>1, <2>2, <2>3 DEF Reconciles
<1>5. CASE Copying(a)
  BY <1>2, <1>5 DEF Copying, StopMissing, StopStopped, StopRunning, StopReturns,
              CopyStarts, CopyEnds, CopyImpossible, AfterStop, AfterDisk
<1>6. CASE Making(a)
  BY <1>2, <1>6 DEF Making, Image, Fetched, MakeDisk, Seed, SeedFails, NatNet,
              NatNetFails, NatNetDefined, Install
<1>7. CASE Boots(a)
  BY <1>2, <1>7 DEF Boots, Boot, BootFails, NothingToRestart, Starting
<1>8. CASE Removes(a)
  <2>1. CASE LoadForDestroy(a)
    BY <2>1 DEF LoadForDestroy, MergedMode, Group, Modes
  <2>2. CASE ForceOff(a) \/ Undefine(a) \/ CleanupFails(a)
    BY <1>2, <2>2 DEF ForceOff, Undefine, CleanupFails
  <2>3. CASE NetStop(a) \/ NetDown(a)
    BY <1>2, <2>3 DEF NetStop, NetDown
  <2>4. CASE RemoveStorage(a) \/ RemoveArtifacts(a)
    BY <1>2, <2>4 DEF RemoveStorage, RemoveArtifacts
  <2>5. CASE Forget(a)
    BY <1>2, <2>5 DEF Forget
  <2>. QED
    BY <1>8, <2>1, <2>2, <2>3, <2>4, <2>5 DEF Removes
<1>9. CASE Ends(a)
  BY <1>2, <1>9 DEF Ends, Unlock, Fails, Interrupt, Crash
<1>. QED
  BY <1>3, <1>4, <1>5, <1>6, <1>7, <1>8, <1>9, MoveCases

\* What a cleanup has removed stays removed until it leaves.
LEMMA SweptStep ==
  ASSUME LockInv, NEW a \in Attempt, Moves(a), Control(a), "cleanup" \notin Faults,
         ~Outside(a) => Judged(a) /\ Swept(a), ~Outside(a)'
  PROVE  Swept(a)'
<1>0. /\ task' = task /\ netUp \in [Net -> {"absent", "inactive", "active"}]
      /\ domain \in [Vm -> {"none", "off", "running"}]
      /\ disk \in [Vm -> {"none", "partial", "whole"}]
      /\ files \in [Vm -> SUBSET {"key", "data", "seed"}]
      /\ state \in [Vm -> {"none", "torn", "saved"}] /\ NetOf[V(a)] \in Net
  BY TaskKept, TaskType DEF LockInv, TypeOK
<1>. USE Standing, <1>0
     DEF Goto, Advance, Raise, quiet, still, images, nets, host, Swept, From, Tail,
         FindsData, TakesNetDown, OwnNetMode, Op, V, Src, InTry, Handler, Building,
         Cleaning, Ended, Fits, CreateAt, CloneAt, StartAt, StopAt, DestroyAt,
         ReconcileAt, Ops
<1>1. CASE TakeLock(a)
  BY <1>1 DEF TakeLock, StartNext, Control, Leaving
<1>2. SUFFICES ASSUME Judged(a), Swept(a) PROVE Swept(a)'
  BY <1>1, ComesIn
<1>3. CASE Enters(a) \/ Saves(a)
  BY <1>1, <1>2, <1>3 DEF Enters, Begin, Check, LoadForStart, FindBusy, Prepare,
     PrepareFails, Saves, Save, Write
<1>4. CASE Reconciles(a)
  <2>1. CASE ReadRecords(a) \/ NetsDone(a)
    BY <1>2, <2>1 DEF ReadRecords, Full, NetsDone
  <2>2. CASE EnsureNet(a)
    BY <1>2, <2>2 DEF EnsureNet, Judged
  <2>3. CASE EnsureNetFails(a) \/ NetsRaise(a) \/ ApplyRulesFails(a)
    BY <1>2, <2>3 DEF EnsureNetFails, NetsRaise, ApplyRulesFails
  <2>4. CASE ApplyRules(a)
    BY <1>2, <2>4 DEF ApplyRules, AfterRules, Control, Leaving
  <2>. QED
    BY <1>4, <2>1, <2>2, <2>3, <2>4 DEF Reconciles
<1>5. CASE Copying(a)
  BY <1>2, <1>5 DEF Copying, StopMissing, StopStopped, StopRunning, StopReturns,
              CopyStarts, CopyEnds, CopyImpossible, AfterStop, AfterDisk
<1>6. CASE Making(a)
  BY <1>2, <1>6 DEF Making, Image, Fetched, MakeDisk, Seed, SeedFails, NatNet,
              NatNetFails, NatNetDefined, Install
<1>7. CASE Boots(a)
  BY <1>2, <1>7 DEF Boots, Boot, BootFails, NothingToRestart, Starting
<1>8. CASE Removes(a)
  <2>1. CASE LoadForDestroy(a) \/ CleanupFails(a)
    BY <2>1 DEF LoadForDestroy, CleanupFails
  <2>2. CASE ForceOff(a) \/ Undefine(a)
    BY <1>2, <2>2 DEF ForceOff, Undefine
  <2>3. CASE NetStop(a) \/ NetDown(a)
    BY <1>2, <2>3 DEF NetStop, NetDown
  <2>4. CASE RemoveStorage(a) \/ RemoveArtifacts(a)
    BY <1>2, <2>4 DEF RemoveStorage, RemoveArtifacts
  <2>5. CASE Forget(a)
    BY <1>2, <2>5 DEF Forget
  <2>. QED
    BY <1>8, <2>1, <2>2, <2>3, <2>4, <2>5 DEF Removes
<1>9. CASE Ends(a)
  BY <1>2, <1>9 DEF Ends, Unlock, Fails, Interrupt, Crash, Judged
<1>. QED
  BY <1>3, <1>4, <1>5, <1>6, <1>7, <1>8, <1>9, MoveCases

\* The policy is applied before the domain is booted.
LEMMA StartedStep ==
  ASSUME LockInv, NEW a \in Attempt, Moves(a), Control(a),
         ~Outside(a) => Started(a), ~Outside(a)'
  PROVE  Started(a)'
<1>0. /\ task' = task /\ domain \in [Vm -> {"none", "off", "running"}]
      /\ DOMAIN plan = Attempt
  BY TaskKept DEF LockInv, TypeOK
<1>. USE Standing, <1>0
     DEF Goto, Advance, Raise, quiet, still, images, nets, host, Started, Op, V, Src,
         InTry, Handler, Building, Cleaning, Ended, Fits, CreateAt, CloneAt, StartAt,
         StopAt, DestroyAt, ReconcileAt, Ops
<1>a. Op(a) = "start" => Live' = Live
  <2>1. Op(a) = "start" => UNCHANGED state
    <3>1. CASE Saves(a) \/ Removes(a)
      BY <3>1 DEF Saves, Save, Write, Removes, LoadForDestroy, ForceOff, Undefine,
                  NetStop, NetDown, RemoveStorage, RemoveArtifacts, Forget, CleanupFails
    <3>. QED
      BY <3>1, MoveCases
         DEF Enters, Begin, Check, LoadForStart, TakeLock, FindBusy, Prepare,
           PrepareFails, Reconciles, ReadRecords, EnsureNet, EnsureNetFails, NetsRaise,
           NetsDone, ApplyRules, ApplyRulesFails, Copying, StopMissing, StopStopped,
           StopRunning, StopReturns, CopyStarts, CopyEnds, CopyImpossible, Making, Image,
           Fetched, MakeDisk, Seed, SeedFails, NatNet, NatNetFails, Install, Boots, Boot,
           BootFails, NothingToRestart, Ends, Unlock, Fails, Interrupt, Crash
  <2>. QED
    BY <2>1 DEF Live, Records
<1>1. CASE TakeLock(a)
  BY <1>1 DEF TakeLock, StartNext
<1>2. SUFFICES ASSUME Started(a) PROVE Started(a)'
  BY <1>1, ComesIn
<1>3. CASE Enters(a) \/ Saves(a)
  BY <1>1, <1>2, <1>3 DEF Enters, Begin, Check, LoadForStart, FindBusy, Prepare,
     PrepareFails, Saves, Save, Write, Control, Leaving
<1>4. CASE Reconciles(a)
  <2>1. CASE ReadRecords(a) \/ EnsureNet(a) \/ NetsDone(a)
    BY <1>a, <1>2, <2>1 DEF ReadRecords, EnsureNet, NetsDone
  <2>2. CASE EnsureNetFails(a) \/ NetsRaise(a) \/ ApplyRulesFails(a)
    BY <1>a, <1>2, <2>2 DEF EnsureNetFails, NetsRaise, ApplyRulesFails
  <2>3. CASE ApplyRules(a)
    BY <1>a, <1>2, <2>3 DEF ApplyRules, AfterRules
  <2>. QED
    BY <1>4, <2>1, <2>2, <2>3 DEF Reconciles
<1>5. CASE Copying(a)
  BY <1>2, <1>5 DEF Copying, StopMissing, StopStopped, StopRunning, StopReturns,
              CopyStarts, CopyEnds, CopyImpossible, AfterStop, AfterDisk
<1>6. CASE Making(a)
  BY <1>2, <1>6 DEF Making, Image, Fetched, MakeDisk, Seed, SeedFails, NatNet,
              NatNetFails, NatNetDefined, Install
<1>7. CASE Boots(a)
  BY <1>a, <1>2, <1>7 DEF Boots, Boot, BootFails, NothingToRestart, Starting, Startable
<1>8. CASE Removes(a)
  BY <1>2, <1>8 DEF Removes, LoadForDestroy, ForceOff, Undefine, NetStop, NetDown,
              RemoveStorage, RemoveArtifacts, Forget, CleanupFails
<1>9. CASE Ends(a)
  BY <1>a, <1>2, <1>9 DEF Ends, Unlock, Fails, Interrupt, Starting, Crash, Control,
              Leaving, Outside
<1>. QED
  BY <1>3, <1>4, <1>5, <1>6, <1>7, <1>8, <1>9, MoveCases
-----------------------------------------------------------------------------
(* The holder's knowledge as an invariant. *)

\* Nobody else touches what the holder of the lock knows.
LEMMA HereKept ==
  ASSUME LockInv, NEW a \in Attempt, NEW b \in Attempt \ {a}, Moves(b),
         ~Outside(a), Here(a)
  PROVE  Here(a)'
<1>1. lock = a /\ Outside(b)
  BY DEF LockInv, LockTracksHolder
<1>2. /\ UNCHANGED <<domain, disk, state, netUp, dhcp, base>>
      /\ NoService => UNCHANGED files
      /\ \A v \in Vm : /\ files[v] \subseteq files'[v]
                       /\ files'[v] \subseteq files[v] \cup {"key"}
      /\ NoReconcile => UNCHANGED rules
  BY <1>1, OutsideQuiet DEF LockInv, TypeOK, NoService, NoReconcile, Op
<1>3. /\ task' = task /\ V(a) \in Vm /\ pc'[a] = pc[a] /\ err'[a] = err[a]
      /\ stage'[a] = stage[a] /\ ran'[a] = ran[a] /\ seen'[a] = seen[a]
      /\ plan'[a] = plan[a] /\ named'[a] = named[a]
  BY TaskKept, OthersKept, Standing
<1>4. Op(a)' = Op(a) /\ V(a)' = V(a) /\ Src(a)' = Src(a) /\ Live' = Live
  BY <1>2, <1>3 DEF Op, V, Src, Live, Records
<1>. USE <1>2, <1>3, <1>4
<1>5. Built(a)' /\ Keyed(a)'
  BY DEF Here, Built, Keyed, Builds, Makes
<1>6. Wired(a)'
  BY DEF Here, Wired, Makes, Networked
<1>7. /\ Tail(a)' = Tail(a) /\ TakesNetDown(a)' = TakesNetDown(a)
      /\ FindsData(a)' = FindsData(a)
  BY DEF Tail, TakesNetDown, OwnNetMode, FindsData
<1>8. Judged(a)'
  BY <1>7 DEF Here, Judged, From, Discovered
<1>9. Started(a)'
  BY DEF Here, Started
<1>10. ASSUME Swept(a) PROVE Swept(a)'
  BY <1>7, <1>10 DEF Swept, From
<1>. QED
  BY <1>5, <1>6, <1>8, <1>9, <1>10 DEF Here

\* Only a cleanup that has undefined the domain removes the key.
LEMMA KeyStep ==
  ASSUME IInv, NEW a \in Attempt, Moves(a), ~Outside(a) => Here(a),
         DomainHasKey, NoService
  PROVE  DomainHasKey'
<1>. SUFFICES ASSUME "cleanup" \notin Faults, NEW v \in Vm, domain'[v] # "none"
              PROVE  "key" \in files'[v]
  BY DEF DomainHasKey
<1>0. /\ LockInv /\ files \in [Vm -> SUBSET {"key", "data", "seed"}]
      /\ domain \in [Vm -> {"none", "off", "running"}] /\ V(a) \in Vm
  BY Standing DEF IInv, LockInv, TypeOK
<1>1. CASE Install(a)
  <2>1. pc[a] = "install" /\ Builds(a) /\ ~Outside(a)
    BY <1>0, <1>1, Standing DEF Install, Builds, Building, Outside, Fits, StartAt, StopAt,
       DestroyAt, ReconcileAt, Cleaning, Ended, Ops
  <2>2. "key" \in files[V(a)]
    BY <1>0, <2>1 DEF Here, Keyed, NoService, LockInv, TypeOK
  <2>. QED
    BY <1>0, <1>1, <2>2 DEF Install, DomainHasKey
<1>2. CASE ~Install(a)
  <2>1. domain[v] # "none" /\ "key" \in files[v]
    BY <1>0, <1>2, DomainsKept DEF DomainHasKey, LockInv
  <2>2. CASE RemoveArtifacts(a)
    <3>1. domain[V(a)] = "none"
      BY <2>2 DEF RemoveArtifacts, IInv, Undefined, Cleans, Cleaning
    <3>. QED
      BY <1>0, <2>1, <2>2, <3>1 DEF RemoveArtifacts
  <2>3. CASE \/ Prepare(a) \/ PrepareFails(a) \/ Seed(a) \/ SeedFails(a)
             \/ ForceOff(a) \/ Undefine(a) \/ RemoveStorage(a)
    BY <1>0, <2>1, <2>3 DEF Prepare, PrepareFails, Seed, SeedFails, ForceOff, Undefine,
         RemoveStorage
  <2>4. CASE ~ (\/ Prepare(a) \/ PrepareFails(a) \/ Seed(a) \/ SeedFails(a)
                \/ ForceOff(a) \/ Undefine(a) \/ RemoveStorage(a) \/ RemoveArtifacts(a))
    <3>1. UNCHANGED files
      BY <2>4, MoveCases
         DEF quiet, still, images, nets, host, Enters, Begin, Check, LoadForStart,
           TakeLock, FindBusy, Saves, Save, Write, Reconciles, ReadRecords, EnsureNet,
           EnsureNetFails, NetsRaise, NetsDone, ApplyRules, ApplyRulesFails, Copying,
           StopMissing, StopStopped, StopRunning, StopReturns, CopyStarts, CopyEnds,
           CopyImpossible, Making, Image, Fetched, MakeDisk, NatNet, NatNetFails,
           Install, Boots, Boot, BootFails, NothingToRestart, Removes, LoadForDestroy,
           NetStop, NetDown, Forget, CleanupFails, Ends, Unlock, Fails, Interrupt, Crash
    <3>. QED
      BY <2>1, <3>1
  <2>. QED
    BY <2>2, <2>3, <2>4
<1>. QED
  BY <1>1, <1>2

\* To begin with nobody is inside.
LEMMA HolderInit == Init => HolderInv
<1>. SUFFICES ASSUME Init PROVE HolderInv
  OBVIOUS
<1>1. IInv
  BY InitInv
<1>2. DomainHasKey
  BY DEF Init, DomainHasKey
<1>3. \A a \in Attempt : Control(a) /\ Outside(a)
  BY DEF Init, Control, Leaving, Cleaning, Ended, Outside
<1>. QED
  BY <1>1, <1>2, <1>3 DEF HolderInv

\* A step of the holder, of somebody outside, or a reboot that puts everybody outside.
LEMMA HolderStep == HolderInv /\ [Next]_vars => HolderInv'
<1>. SUFFICES ASSUME HolderInv, [Next]_vars PROVE HolderInv'
  OBVIOUS
<1>0. IInv /\ IInv' /\ LockInv
  <2>1. IInv
    BY DEF HolderInv
  <2>2. IInv'
    BY <2>1, StepInv
  <2>. QED
    BY <2>1, <2>2 DEF IInv
<1>1. CASE UNCHANGED vars
  <2>1. \A a \in Attempt : Control(a)' = Control(a) /\ Outside(a)' = Outside(a)
    BY <1>1 DEF vars, Control, InTry, Outside, Op
  <2>2. DomainHasKey' = DomainHasKey
    BY <1>1 DEF vars, DomainHasKey
  <2>3. \A a \in Attempt : Here(a)' = Here(a)
    BY <1>1 DEF vars, Here, Built, Wired, Keyed, Judged, Swept, Started, Makes, Builds,
         Networked, From, Tail, FindsData, TakesNetDown, OwnNetMode, Discovered, Live,
         Records, Op, V, Src
  <2>. QED
    BY <1>0, <2>1, <2>2, <2>3 DEF HolderInv
<1>2. ASSUME NEW a \in Attempt, Moves(a) PROVE HolderInv'
  <2>1. Control(a) /\ (~Outside(a) => Here(a))
    BY DEF HolderInv
  <2>2. NoService => DomainHasKey'
    BY <1>0, <1>2, <2>1, KeyStep DEF HolderInv
  <2>3. Control(a)'
    BY <1>0, <1>2, <2>1, ControlStep
  <2>4. ASSUME ~Outside(a)' PROVE Here(a)'
    BY <1>0, <1>2, <2>1, <2>4, BuiltStep, WiredStep, KeyedStep, JudgedStep, SweptStep,
       StartedStep DEF Here
  <2>5. ASSUME NEW b \in Attempt \ {a} PROVE Control(b)' /\ Outside(b)' = Outside(b)
    <3>1. /\ task' = task /\ pc'[b] = pc[b] /\ err'[b] = err[b] /\ stage'[b] = stage[b]
          /\ ran'[b] = ran[b]
      BY <1>0, <1>2, TaskKept, OthersKept
    <3>. QED
      BY <3>1 DEF HolderInv, Control, InTry, Outside, Op
  <2>6. ASSUME NEW b \in Attempt \ {a}, ~Outside(b) PROVE Here(b)'
    BY <1>0, <1>2, <2>6, HereKept DEF HolderInv
  <2>. QED
    BY <1>0, <2>2, <2>3, <2>4, <2>5, <2>6 DEF HolderInv
<1>3. CASE Reboot
  <2>1. ASSUME NEW a \in Attempt PROVE Control(a)' /\ Outside(a)'
    <3>1. /\ pc'[a] = (IF pc[a] \in Ended \cup {"idle"} THEN pc[a] ELSE "crashed")
          /\ UNCHANGED <<task, err, stage, ran>> /\ Control(a)
      BY <1>3 DEF Reboot, HolderInv
    <3>. QED
      BY <3>1 DEF Control, InTry, Outside, Op, Leaving, Cleaning, Building, Ended
  <2>2. NoService => DomainHasKey'
    BY <1>0, <1>3 DEF HolderInv, IInv, LockInv, TypeOK, DomainHasKey, Reboot
  <2>. QED
    BY <1>0, <2>1, <2>2 DEF HolderInv
<1>. QED
  BY <1>1, <1>2, <1>3 DEF Next, Moves
-----------------------------------------------------------------------------
(* What the holder of the lock knows, an invariant for any tasks and any faults. *)
THEOREM HolderKnows == Spec => []HolderInv
  BY HolderInit, HolderStep, PTL DEF Spec

(* Whatever fails or is interrupted, a clone that has begun to stop its source leaves
   it running, but for a start that failed or was cut short and for Ctrl-C before
   stop_vm_domain has returned. *)
THEOREM SourcesRestored == Spec => []SourceRestored
<1>1. HolderInv => SourceRestored
  <2>. SUFFICES ASSUME HolderInv, NEW a \in Attempt, pc[a] = "unlock", Op(a) = "clone",
                       ran[a] # "no", err[a] # "start"
                PROVE  \/ domain[Src(a)] = "running"
                       \/ ran[a] = "waiting" /\ err[a] = "interrupted"
    BY DEF SourceRestored
  <2>1. CASE ran[a] = "waiting"
    BY <2>1 DEF HolderInv, Control, Ended
  <2>2. CASE ran[a] = "yes"
    <3>1. Here(a)
      BY DEF HolderInv, Outside, Ended
    <3>. QED
      BY <2>2, <3>1 DEF Here, Started
  <2>. QED
    BY <2>1, <2>2, Standing DEF HolderInv, IInv
<1>. QED
  BY <1>1, HolderKnows, PTL

(* Where the grouped VMs that are built are the configured ones, virt-install of a
   new domain finds its network active, its disk there and, of a clone, as complete
   as the source's, its seed and data there and, of the CLI, its key, whatever an
   attempt that failed or was killed has left. *)
THEOREM InstallsReady ==
  ASSUME GroupsConfigured
  PROVE  Spec => []InstallReady
<1>1. HolderInv => InstallReady
  <2>. SUFFICES ASSUME HolderInv, NEW a \in Attempt, pc[a] = "install"
                PROVE  /\ Bootable(V(a))
                       /\ Op(a) = "clone" => disk[V(a)] = disk[Src(a)]
                       /\ {"data", "seed"} \subseteq files[V(a)]
                       /\ ~task[a].svc => "key" \in files[V(a)]
    BY DEF InstallReady
  <2>1. Op(a) \in Make /\ ~Outside(a)
    BY Standing
       DEF HolderInv, IInv, Make, Outside, Ended, Fits, StartAt, StopAt, DestroyAt,
           ReconcileAt, Cleaning, Ops
  <2>2. Built(a) /\ Wired(a) /\ Keyed(a)
    BY <2>1 DEF HolderInv, Here
  <2>3. Bootable(V(a))
    BY <2>1, <2>2 DEF Built, Wired, Makes, Networked, Bootable
  <2>4. Builds(a)
    BY <2>1 DEF Builds, Building, Make
  <2>. QED
    BY <2>2, <2>3, <2>4 DEF Built, Keyed
<1>. QED
  BY <1>1, HolderKnows, PTL

(* Where no service prepares a key outside the lock, every domain has its key. *)
THEOREM DomainsHaveKeys ==
  ASSUME NoService
  PROVE  Spec => []DomainHasKey
<1>1. HolderInv => DomainHasKey
  BY DEF HolderInv
<1>. QED
  BY <1>1, HolderKnows, PTL

(* Where no service adds a key outside the lock, a destroy that succeeds leaves
   nothing, from whatever state failed and killed operations have left, but for a data
   directory that only the state file a killed create has emptied would have named. *)
THEOREM DestroysComplete ==
  ASSUME NoService
  PROVE  Spec => []DestroyComplete
<1>1. HolderInv => DestroyComplete
  <2>. SUFFICES ASSUME HolderInv, "cleanup" \notin Faults, NEW a \in Attempt,
                       pc[a] = "unlock", Op(a) = "destroy", err[a] = "none"
                PROVE  /\ domain[V(a)] = "none" /\ disk[V(a)] = "none"
                       /\ state[V(a)] = "none"
                       /\ files[V(a)] \subseteq (IF V(a) \in CustomDir /\ ~named[a]
                                                 THEN {"data"} ELSE {})
                       /\ ~(V(a) \notin Group /\ Discovered(V(a)))
    BY DEF DestroyComplete
  <2>1. Judged(a) /\ Swept(a) /\ Tail(a)
    BY DEF HolderInv, Here, Outside, Ended, Tail
  <2>. QED
    BY <2>1 DEF Judged, Swept, From, FindsData, Discovered
<1>. QED
  BY <1>1, HolderKnows, PTL

(* Where no service adds a key outside the lock, a roll back that has gone through
   leaves nothing of the target, its own network included. *)
THEOREM RollbacksComplete ==
  ASSUME NoService
  PROVE  Spec => []RollbackComplete
<1>1. HolderInv => RollbackComplete
  <2>. SUFFICES ASSUME HolderInv, "cleanup" \notin Faults, NEW a \in Attempt, Tail(a),
                       Op(a) = "clone", pc[a] = "finally"
                PROVE  /\ Gone(V(a))
                       /\ V(a) \notin Group => netUp[NetOf[V(a)]] = "absent"
    BY DEF RollbackComplete, Tail
  <2>1. Swept(a)
    BY DEF HolderInv, Here, Outside, Ended
  <2>. QED
    BY <2>1 DEF Swept, From, Gone, FindsData, TakesNetDown, OwnNetMode
<1>. QED
  BY <1>1, HolderKnows, PTL

(* Where nothing reconciles outside the lock and cleanup commands succeed, a start
   ends with the VM running and in the policy, after crashes and reboots too. *)
THEOREM StartsRestorePolicy ==
  ASSUME NoReconcile, "cleanup" \notin Faults
  PROVE  Spec => []StartRestoresPolicy
<1>1. HolderInv => StartRestoresPolicy
  <2>. SUFFICES ASSUME HolderInv, NEW a \in Attempt,
                       pc[a] = "unlock", Op(a) = "start", err[a] = "none",
                       seen[a] \in {"group", "nat-custom"}, V(a) \in Configured,
                       V(a) \in Group \/ state[V(a)] = "saved"
                PROVE  domain[V(a)] = "running" /\ V(a) \in rules
    BY DEF StartRestoresPolicy
  <2>1. Started(a) /\ domain[V(a)] = "running"
    BY DEF HolderInv, Here, Started, Outside, Ended
  <2>2. V(a) \in Vm /\ state[V(a)] \in {"none", "torn", "saved"}
    BY Standing DEF HolderInv, IInv, LockInv, TypeOK
  <2>3. state[V(a)] # "none"
    BY <2>1, <2>2 DEF HolderInv, IInv, DomainHasState
  <2>4. V(a) \in Live
    BY <2>2, <2>3 DEF Live, Records
  <2>. QED
    BY <2>1, <2>4 DEF Started
<1>. QED
  BY <1>1, HolderKnows, PTL

(* Only a destroy that finds no state file takes down a network that a running VM of
   its group uses: a standalone VM's own network is nobody else's, and a destroy that
   finds a grouped VM's file leaves the group's network to the reconcile. *)
THEOREM GroupNetworksKept == Spec => GroupNetworkKept
<1>1. ASSUME HolderInv, [Next]_vars,
             NEW n \in Net, NEW w \in Group, NetOf[w] = n, netUp[n] = "active",
             netUp'[n] # "active"
      PROVE  \E a \in Attempt : /\ pc[a] = "netdown" /\ lock = a
                                /\ Op(a) = "destroy" /\ state[V(a)] # "saved"
  <2>1. LockInv /\ netUp \in [Net -> {"absent", "inactive", "active"}]
    BY <1>1 DEF HolderInv, IInv, LockInv, TypeOK
  <2>2. PICK a \in Attempt : Moves(a)
    BY <1>1 DEF Next, Moves, Reboot, vars
  <2>3. (NetStop(a) \/ NetDown(a)) /\ NetOf[V(a)] = n
    <3>1. CASE Reconciles(a) \/ Making(a)
      BY <1>1, <2>1, <3>1
         DEF quiet, still, images, nets, host, Reconciles, ReadRecords, EnsureNet,
             EnsureNetFails, NetsRaise, NetsDone, ApplyRules, ApplyRulesFails, Making,
             Image, Fetched, MakeDisk, Seed, SeedFails, NatNet, NatNetFails,
             NatNetDefined, Install
    <3>2. CASE Enters(a) \/ Saves(a) \/ Copying(a)
      BY <1>1, <3>2
         DEF quiet, still, images, nets, host, Enters, Begin, Check, LoadForStart,
             TakeLock, FindBusy, Prepare, PrepareFails, Saves, Save, Write, Copying,
             StopMissing, StopStopped, StopRunning, StopReturns, CopyStarts, CopyEnds,
             CopyImpossible
    <3>3. CASE Boots(a) \/ Removes(a) \/ Ends(a)
      BY <1>1, <2>1, <3>3
         DEF quiet, still, images, nets, host, Boots, Boot, BootFails,
             NothingToRestart, Removes, LoadForDestroy, ForceOff, Undefine, NetStop,
             NetDown, RemoveStorage, RemoveArtifacts, Forget, CleanupFails, Ends, Unlock,
             Fails, Interrupt, Crash
    <3>. QED
      BY <2>2, <3>1, <3>2, <3>3, MoveCases
  <2>4. pc[a] = "netdown" /\ lock = a /\ ~Outside(a) /\ V(a) \in Vm
        /\ Op(a) \in {"clone", "destroy"}
    BY <2>1, <2>3, Standing
       DEF NetStop, NetDown, Goto, Outside, Ended, Fits, CreateAt, StartAt, StopAt,
            ReconcileAt, Ops
  <2>5. Judged(a) /\ TakesNetDown(a)
    BY <1>1, <2>4 DEF HolderInv, Here, Judged
  <2>6. V(a) \in Group
    BY <1>1, <2>3, <2>4, NetAssumption DEF Group
  <2>7. Op(a) = "destroy"
    BY <2>4, <2>5, <2>6 DEF TakesNetDown, OwnNetMode
  <2>8. state[V(a)] # "saved"
    BY <2>4, <2>5, <2>6, <2>7 DEF Judged, From, Cleaning
  <2>. QED
    BY <2>4, <2>7, <2>8
<1>2. HolderInv /\ [Next]_vars
        => [\A n \in Net, w \in Group :
              /\ NetOf[w] = n /\ domain[w] = "running" /\ domain'[w] = "running"
              /\ netUp[n] = "active"
              => \/ netUp'[n] = "active"
                 \/ \E a \in Attempt : /\ pc[a] = "netdown" /\ lock = a
                                       /\ Op(a) = "destroy" /\ state[V(a)] # "saved"]_vars
  BY <1>1
<1>. QED
  BY <1>2, HolderKnows, PTL DEF Spec, GroupNetworkKept
-----------------------------------------------------------------------------
(* The policy *)

\* What has failed or died stays so.
LEMMA StaysClear ==
  ASSUME LockInv, NEW a \in Attempt, Moves(a),
         pc'[a] \notin {"failed", "crashed"}, err'[a] = "none"
  PROVE  pc[a] \notin {"failed", "crashed"} /\ err[a] = "none"
<1>. USE Standing DEF Goto, Advance, Raise, quiet, still, images, nets, host, Ended
<1>1. CASE Enters(a) \/ Saves(a)
  BY <1>1 DEF Enters, Begin, Check, LoadForStart, TakeLock, FindBusy, Prepare,
              PrepareFails, Saves, Save, Write
<1>2. CASE Reconciles(a) \/ Copying(a)
  BY <1>2 DEF Reconciles, ReadRecords, EnsureNet, EnsureNetFails, NetsRaise, NetsDone,
              ApplyRules, ApplyRulesFails, Copying, StopMissing, StopStopped,
              StopRunning, StopReturns, CopyStarts, CopyEnds, CopyImpossible
<1>3. CASE Making(a) \/ Boots(a)
  BY <1>3 DEF Making, Image, Fetched, MakeDisk, Seed, SeedFails, NatNet, NatNetFails,
              Install, Boots, Boot, BootFails, NothingToRestart, Starting
<1>4. CASE Removes(a) \/ Ends(a)
  BY <1>4 DEF Removes, LoadForDestroy, ForceOff, Undefine, NetStop, NetDown,
              RemoveStorage, RemoveArtifacts, Forget, CleanupFails, Ends, Unlock, Fails,
              Interrupt, Crash
<1>. QED
  BY <1>1, <1>2, <1>3, <1>4, MoveCases

\* A holder that neither fails nor dies leaves by unlocking.
LEMMA GoesOut ==
  ASSUME LockInv, NEW a \in Attempt, Moves(a), ~Outside(a), Outside(a)',
         err'[a] = "none", pc'[a] # "crashed"
  PROVE  Unlock(a)
<1>0. task' = task
  BY TaskKept
<1>. USE Standing, <1>0
     DEF Goto, Advance, Raise, quiet, still, images, nets, host, Outside, Op, V,
         Ended, Fits, CreateAt, CloneAt, StartAt, StopAt, DestroyAt, ReconcileAt,
         Building, Cleaning, Ops
<1>1. CASE Enters(a) \/ Saves(a)
  BY <1>1 DEF Enters, Begin, Check, LoadForStart, TakeLock, FindBusy, Prepare,
              PrepareFails, Saves, Save, Write
<1>2. CASE Reconciles(a)
  BY <1>2 DEF Reconciles, ReadRecords, EnsureNet, EnsureNetFails, NetsRaise, NetsDone,
              ApplyRules, ApplyRulesFails, AfterRules
<1>3. CASE Copying(a)
  BY <1>3 DEF Copying, StopMissing, StopStopped, StopRunning, StopReturns, CopyStarts,
              CopyEnds, CopyImpossible, AfterStop, AfterDisk
<1>4. CASE Making(a) \/ Boots(a)
  BY <1>4 DEF Making, Image, Fetched, MakeDisk, Seed, SeedFails, NatNet, NatNetFails,
              Install, Boots, Boot, BootFails, NothingToRestart, Starting
<1>5. CASE Removes(a) \/ Ends(a)
  BY <1>5 DEF Removes, LoadForDestroy, ForceOff, Undefine, NetStop, NetDown,
              RemoveStorage, RemoveArtifacts, Forget, CleanupFails, Ends, Unlock, Fails,
              Interrupt, Crash
<1>. QED
  BY <1>1, <1>2, <1>3, <1>4, <1>5, MoveCases

\* The step of a holder that goes well.
LEMMA PolicedStep ==
  ASSUME HolderInv, NoAutoDestroyed, NEW a \in Attempt, Moves(a), ~Outside(a),
         Policed(a), err[a] = "none", err'[a] = "none", pc'[a] # "crashed"
  PROVE  Policed(a)'
<1>0. /\ LockInv /\ Control(a) /\ task' = task
      /\ state \in [Vm -> {"none", "torn", "saved"}] /\ DOMAIN plan = Attempt
      /\ DOMAIN seen = Attempt /\ rules \subseteq Vm
      /\ Mode[V(a)] \in {"group", "nat-auto", "nat-custom"}
  BY TaskKept, TaskType DEF HolderInv, IInv, LockInv, TypeOK
<1>a. UNCHANGED state => Live' = Live
  BY DEF Live, Records
<1>b. Op(a) = "destroy" => Mode[V(a)] # "nat-auto"
  BY <1>0 DEF LockInv, TypeOK, NoAutoDestroyed, Op, V
<1>. USE Standing, <1>0, <1>a
     DEF Goto, Advance, Raise, quiet, still, images, nets, host, Policed, Untouched,
         Converged, Makes, Make, Op, V, Src, Building, Cleaning, Ended,
         Fits, CreateAt, CloneAt, StartAt, StopAt, DestroyAt, ReconcileAt, Ops
<1>1. CASE Enters(a)
  BY <1>1 DEF Enters, Begin, Check, LoadForStart, TakeLock, FindBusy, Prepare,
              PrepareFails, Outside
<1>2. CASE Save(a)
  BY <1>2 DEF Save
<1>3. CASE Write(a)
  BY <1>3 DEF Write
<1>4. CASE Reconciles(a)
  <2>1. CASE ReadRecords(a)
    BY <2>1 DEF ReadRecords
  <2>2. CASE EnsureNet(a) \/ NetsDone(a)
    BY <2>2 DEF EnsureNet, NetsDone
  <2>3. CASE EnsureNetFails(a) \/ NetsRaise(a) \/ ApplyRulesFails(a)
    BY <2>3 DEF EnsureNetFails, NetsRaise, ApplyRulesFails
  <2>4. CASE ApplyRules(a)
    BY <2>4 DEF ApplyRules, AfterRules
  <2>. QED
    BY <1>4, <2>1, <2>2, <2>3, <2>4 DEF Reconciles
<1>5. CASE Copying(a)
  BY <1>5 DEF Copying, StopMissing, StopStopped, StopRunning, StopReturns, CopyStarts,
              CopyEnds, CopyImpossible, AfterStop, AfterDisk
<1>6. CASE Making(a)
  BY <1>6 DEF Making, Image, Fetched, MakeDisk, Seed, SeedFails, NatNet,
              NatNetFails, Install
<1>7. CASE Boots(a)
  BY <1>7 DEF Boots, Boot, BootFails, NothingToRestart, Starting
<1>8. CASE Removes(a)
  <2>1. CASE LoadForDestroy(a)
    BY <1>b, <2>1 DEF LoadForDestroy, MergedMode
  <2>2. CASE \/ ForceOff(a) \/ Undefine(a) \/ NetStop(a) \/ NetDown(a)
             \/ RemoveStorage(a) \/ RemoveArtifacts(a) \/ CleanupFails(a)
    BY <2>2 DEF ForceOff, Undefine, NetStop, NetDown, RemoveStorage, RemoveArtifacts,
         CleanupFails, Control
  <2>3. CASE Forget(a)
    BY <2>3 DEF Forget, Control
  <2>. QED
    BY <1>8, <2>1, <2>2, <2>3 DEF Removes
<1>9. CASE Ends(a)
  BY <1>9 DEF Ends, Unlock, Fails, Interrupt, Crash
<1>. QED
  BY <1>1, <1>2, <1>3, <1>4, <1>5, <1>6, <1>7, <1>8, <1>9, MoveCases DEF Saves

\* Steps of the others leave policy and state files alone, the holder's are PolicedStep.
LEMMA PolicyStep ==
  ASSUME HolderInv, PolicyInv, NEW a \in Attempt, Moves(a)
  PROVE  PolicyInv'
<1>. SUFFICES ASSUME "reboot" \notin Faults, NoReconcile, NoAutoDestroyed, Clear'
              PROVE  /\ lock' = None => Converged'
                     /\ \A b \in Attempt : lock' = b => Policed(b)'
  BY DEF PolicyInv
<1>0. LockInv /\ LockTracksHolder /\ LockTracksHolder' /\ task' = task
  <2>1. LockInv
    BY DEF HolderInv, IInv
  <2>. QED
    BY <2>1, LockStep, TaskKept DEF LockInv
<1>1. Clear
  BY <1>0, StaysClear, OthersKept DEF Clear
<1>2. /\ lock = None => Converged
      /\ \A b \in Attempt : lock = b => Policed(b)
  BY <1>1 DEF PolicyInv
<1>3. \A b \in Attempt \ {a} : Outside(b)' = Outside(b)
  BY <1>0, OthersKept DEF Outside, Op
<1>4. lock \in Attempt \cup {None} /\ lock' \in Attempt \cup {None}
  BY <1>0, TypeStep DEF LockInv, TypeOK
<1>5. CASE Outside(a)
  <2>1. UNCHANGED <<state, rules>> /\ Live' = Live
    BY <1>0, <1>5, OutsideQuiet DEF LockInv, TypeOK, NoReconcile, Op, Live, Records
  <2>2. CASE TakeLock(a)
    <3>1. lock' = a /\ Converged /\ pc'[a] \notin {"nets", "rules"} \cup Cleaning
      BY <1>0, <1>2, <2>2, Standing
         DEF TakeLock, StartNext, Goto, Fits, ReconcileAt, Ended, Ops, Cleaning
    <3>. QED
      BY <1>0, <2>1, <3>1, NoneAssumption DEF Policed, Converged
  <2>3. CASE ~TakeLock(a)
    <3>1. Outside(a)'
      BY <1>0, <1>5, <2>3, ComesIn
    <3>2. lock' = lock
      BY <1>0, <1>3, <1>4, <1>5, <3>1, NoneAssumption DEF LockTracksHolder
    <3>3. ASSUME NEW b \in Attempt, lock = b PROVE Policed(b)'
      <4>1. b # a /\ Policed(b)
        BY <1>0, <1>2, <1>5, <3>3 DEF LockTracksHolder
      <4>2. /\ pc'[b] = pc[b] /\ stage'[b] = stage[b] /\ seen'[b] = seen[b]
            /\ plan'[b] = plan[b]
        BY <1>0, <4>1, OthersKept
      <4>. QED
        BY <1>0, <2>1, <4>1, <4>2 DEF Policed, Untouched, Converged, Makes, Op, V
    <3>. QED
      BY <1>2, <2>1, <3>2, <3>3 DEF Converged
  <2>. QED
    BY <2>2, <2>3
<1>6. CASE ~Outside(a)
  <2>1. lock = a /\ Policed(a)
    BY <1>0, <1>2, <1>6 DEF LockTracksHolder
  <2>2. \A b \in Attempt \ {a} : lock' # b
    BY <1>0, <1>3, <2>1 DEF LockTracksHolder
  <2>3. Policed(a)'
    BY <1>1, <1>6, <2>1, PolicedStep DEF Clear
  <2>4. ASSUME lock' = None PROVE Converged'
    <3>1. Outside(a)'
      BY <1>0, <2>4, NoneAssumption DEF LockTracksHolder
    <3>2. Unlock(a)
      BY <1>0, <1>1, <1>6, <3>1, GoesOut DEF Clear
    <3>3. UNCHANGED <<rules, state>> /\ pc[a] = "unlock" /\ Fits(Op(a), pc[a])
      BY <1>0, <3>2, Standing DEF Unlock, host, images, nets
    <3>4. Untouched(a)
      BY <1>0, <3>3, Standing
         DEF Untouched, Makes, Make, Fits, ReconcileAt, Ended, Ops
    <3>. QED
      BY <2>1, <3>3, <3>4 DEF Policed, Converged, Live, Records
  <2>. QED
    BY <2>2, <2>3, <2>4
<1>. QED
  BY <1>5, <1>6

(* Whenever no operation is under way and none has failed, the policy is the one for
   the live VMs: unless a nat-auto VM is destroyed, a reconcile runs outside the lock
   or the host reboots. *)
THEOREM PolicyFollows ==
  ASSUME "reboot" \notin Faults, NoReconcile, NoAutoDestroyed
  PROVE  Spec => []PolicyConverges
<1>1. Init => PolicyInv
  <2>. SUFFICES ASSUME Init PROVE Converged /\ \A a \in Attempt : lock # a
    BY DEF PolicyInv
  <2>. QED
    BY SetsAssumption, NoneAssumption DEF Init, Converged, Live, Records
<1>2. HolderInv /\ PolicyInv /\ [Next]_vars => PolicyInv'
  <2>1. CASE UNCHANGED vars
    BY <2>1 DEF vars, PolicyInv, Clear, Converged, Policed, Untouched, Live, Records,
                Makes, Op, V
  <2>. QED
    BY <2>1, PolicyStep DEF Next, Moves, Reboot
<1>3. HolderInv /\ PolicyInv => PolicyConverges
  <2>. SUFFICES ASSUME HolderInv, PolicyInv, \A a \in Attempt : Settled(a)
                PROVE  rules = Live
    BY DEF PolicyConverges
  <2>1. ASSUME NEW a \in Attempt
        PROVE  /\ pc[a] \notin {"failed", "crashed"} /\ err[a] = "none" /\ lock # a
    <3>1. Control(a) /\ (lock = a <=> ~Outside(a))
      BY DEF HolderInv, IInv, LockInv, LockTracksHolder
    <3>. QED
      BY <3>1 DEF Settled, Control, Leaving, Cleaning, Ended, Outside
  <2>2. lock = None
    BY <2>1 DEF HolderInv, IInv, LockInv, TypeOK
  <2>. QED
    BY <2>1, <2>2 DEF PolicyInv, Clear, Converged
<1>. QED
  BY <1>1, <1>2, <1>3, HolderKnows, PTL DEF Spec
-----------------------------------------------------------------------------
(* Disks *)

\* The two ways a disk comes to be half written.
FromBase == base = "partial" /\ \A a \in Attempt : pc[a] # "fetch"
FromCopy(v) == \/ \E a \in Attempt : Halfway(a) /\ V(a) = v
               \/ /\ \E a \in Attempt : Abandons(a)
                  /\ \E b \in Attempt : Op(b) = "clone" /\ V(b) = v
BaseExplained == base = "partial" => \E a \in Attempt :
                   Op(a) = "create" /\ (pc[a] \in {"fetch", "crashed"} \/ err[a] # "none")
\* No clone gets past its check with its source for a target.
Distinct == \A a \in Attempt : Op(a) = "clone" /\ Src(a) = V(a)
                                 => Outside(a) /\ pc[a] # "lock"
PartialInv == /\ BaseExplained /\ Distinct
              /\ \A v \in Vm : disk[v] = "partial" => FromBase \/ FromCopy(v)

\* A clone of a VM to its own name is refused.
LEMMA DistinctStep ==
  ASSUME LockInv, NEW a \in Attempt, Moves(a), Op(a) = "clone", Src(a) = V(a),
         Outside(a), pc[a] # "lock"
  PROVE  Outside(a)' /\ pc'[a] # "lock"
<1>0. task' = task
  BY TaskKept
<1>1. Outside(a)'
  BY ComesIn DEF TakeLock
<1>. USE Standing, <1>0
     DEF Goto, Advance, Raise, quiet, still, images, nets, host, Outside, Op, V, Src,
         InTry, Handler, Ended, Fits, CloneAt, Building, Cleaning, Ops
<1>2. CASE Enters(a) \/ Saves(a)
  BY <1>2 DEF Enters, Begin, Check, LoadForStart, TakeLock, FindBusy, Prepare,
              PrepareFails, Saves, Save, Write
<1>3. CASE Reconciles(a) \/ Copying(a)
  BY <1>3 DEF Reconciles, ReadRecords, EnsureNet, EnsureNetFails, NetsRaise, NetsDone,
              ApplyRules, ApplyRulesFails, Copying, StopMissing, StopStopped,
              StopRunning, StopReturns, CopyStarts, CopyEnds, CopyImpossible
<1>4. CASE Making(a) \/ Boots(a)
  BY <1>4 DEF Making, Image, Fetched, MakeDisk, Seed, SeedFails, NatNet, NatNetFails,
              Install, Boots, Boot, BootFails, NothingToRestart, Starting
<1>5. CASE Removes(a) \/ Ends(a)
  BY <1>5 DEF Removes, LoadForDestroy, ForceOff, Undefine, NetStop, NetDown,
              RemoveStorage, RemoveArtifacts, Forget, CleanupFails, Ends, Unlock, Fails,
              Interrupt, Crash
<1>. QED
  BY <1>1, <1>2, <1>3, <1>4, <1>5, MoveCases

\* Which steps write a disk image.
LEMMA DiskWriters ==
  ASSUME NEW a \in Attempt, Moves(a)
  PROVE  \/ UNCHANGED disk
         \/ MakeDisk(a) \/ CopyStarts(a) \/ CopyEnds(a) \/ Undefine(a) \/ RemoveStorage(a)
<1>. USE DEF quiet, still, images, nets, host
<1>1. CASE Enters(a) \/ Saves(a) \/ Reconciles(a)
  BY <1>1 DEF Enters, Begin, Check, LoadForStart, TakeLock, FindBusy, Prepare,
       PrepareFails, Saves, Save, Write, Reconciles, ReadRecords, EnsureNet,
       EnsureNetFails, NetsRaise, NetsDone, ApplyRules, ApplyRulesFails
<1>2. CASE Copying(a) \/ Making(a)
  BY <1>2 DEF Copying, StopMissing, StopStopped, StopRunning, StopReturns,
       CopyImpossible, Making, Image, Fetched, Seed, SeedFails, NatNet, NatNetFails,
       Install
<1>3. CASE Boots(a) \/ Removes(a) \/ Ends(a)
  BY <1>3 DEF Boots, Boot, BootFails, NothingToRestart, Removes, LoadForDestroy,
       ForceOff, NetStop, NetDown, RemoveArtifacts, Forget, CleanupFails, Ends, Unlock,
       Fails, Interrupt, Crash
<1>. QED
  BY <1>1, <1>2, <1>3, MoveCases

\* Only a create's download writes the base image.
LEMMA BaseWriters ==
  ASSUME NEW a \in Attempt, Moves(a)
  PROVE  UNCHANGED base \/ Image(a) \/ Fetched(a)
<1>. USE DEF quiet, still, images, nets, host
<1>1. CASE Enters(a) \/ Saves(a) \/ Reconciles(a)
  BY <1>1 DEF Enters, Begin, Check, LoadForStart, TakeLock, FindBusy, Prepare,
       PrepareFails, Saves, Save, Write, Reconciles, ReadRecords, EnsureNet,
       EnsureNetFails, NetsRaise, NetsDone, ApplyRules, ApplyRulesFails
<1>2. CASE Copying(a) \/ Making(a)
  BY <1>2 DEF Copying, StopMissing, StopStopped, StopRunning, StopReturns,
       CopyStarts, CopyEnds, CopyImpossible, Making, MakeDisk, Seed, SeedFails, NatNet,
       NatNetFails, Install
<1>3. CASE Boots(a) \/ Removes(a) \/ Ends(a)
  BY <1>3 DEF Boots, Boot, BootFails, NothingToRestart, Removes, LoadForDestroy,
       ForceOff, Undefine, NetStop, NetDown, RemoveStorage, RemoveArtifacts, Forget,
       CleanupFails, Ends, Unlock, Fails, Interrupt, Crash
<1>. QED
  BY <1>1, <1>2, <1>3, MoveCases

\* Exceptions are not forgotten, nothing happens after death, a download ends well or
\* badly, and a clone that gave up, or was half way, goes on being so.
LEMMA Unwinds ==
  ASSUME LockInv, NEW a \in Attempt, Moves(a), Control(a)
  PROVE  /\ err[a] # "none" => err'[a] # "none"
         /\ pc[a] # "crashed"
         /\ pc[a] = "fetch" => Fetched(a) \/ pc'[a] = "crashed" \/ err'[a] # "none"
         /\ pc'[a] = "fetch" => Image(a) /\ base = "none"
         /\ Abandons(a) => Abandons(a)'
         /\ Halfway(a) => Halfway(a)' \/ Abandons(a)' \/ CopyEnds(a) \/ RemoveStorage(a)
<1>0. task' = task
  BY TaskKept
<1>. USE Standing, <1>0
     DEF Goto, Advance, Raise, quiet, still, images, nets, host, Halfway, Abandons, Op,
         Handler, InTry, Control, Building, Cleaning, Ended, Leaving, Fits, CloneAt,
         CreateAt, StartAt, StopAt, DestroyAt, ReconcileAt, Ops
<1>1. CASE Enters(a)
  BY <1>1 DEF Enters, Begin, Check, LoadForStart, TakeLock, FindBusy, Prepare,
              PrepareFails, StartNext
<1>2. CASE Saves(a)
  BY <1>2 DEF Saves, Save, Write
<1>3. CASE Reconciles(a)
  BY <1>3 DEF Reconciles, ReadRecords, EnsureNet, EnsureNetFails, NetsRaise, NetsDone,
              ApplyRules, ApplyRulesFails, AfterRules
<1>4. CASE Copying(a)
  BY <1>4 DEF Copying, StopMissing, StopStopped, StopRunning, StopReturns, CopyStarts,
              CopyEnds, CopyImpossible, AfterStop, AfterDisk
<1>5. CASE Making(a)
  BY <1>5 DEF Making, Image, Fetched, MakeDisk, Seed, SeedFails, NatNet, NatNetFails,
              Install
<1>6. CASE Boots(a)
  BY <1>6 DEF Boots, Boot, BootFails, NothingToRestart, Starting
<1>7. CASE Removes(a)
  BY <1>7 DEF Removes, LoadForDestroy, ForceOff, Undefine, NetStop, NetDown,
              RemoveStorage, RemoveArtifacts, Forget, CleanupFails
<1>8. CASE Ends(a)
  BY <1>8 DEF Ends, Unlock, Fails, Interrupt, Crash, Outside
<1>. QED
  BY <1>1, <1>2, <1>3, <1>4, <1>5, <1>6, <1>7, <1>8, MoveCases

\* A step keeps every half written image explained: a disk gets to be one from the base
\* image, from the copy that starts or from a source that is half written itself.
LEMMA PartialStep ==
  ASSUME HolderInv, PartialInv, NEW a \in Attempt, Moves(a)
  PROVE  PartialInv'
<1>0. /\ LockInv /\ LockTracksHolder /\ task' = task /\ Control(a)
      /\ disk \in [Vm -> {"none", "partial", "whole"}]
      /\ base \in {"none", "partial", "whole"}
      /\ \A b \in Attempt : /\ V(b) \in Vm /\ Src(b) \in Vm /\ Op(b)' = Op(b)
                            /\ V(b)' = V(b) /\ Src(b)' = Src(b)
  BY TaskKept, TaskType DEF HolderInv, IInv, LockInv, TypeOK, Op, V, Src
<1>1. BaseExplained /\ Distinct
      /\ \A v \in Vm : disk[v] = "partial" => FromBase \/ FromCopy(v)
  BY DEF PartialInv
<1>2. ASSUME NEW b \in Attempt \ {a}
      PROVE  /\ pc'[b] = pc[b] /\ err'[b] = err[b] /\ Outside(b)' = Outside(b)
             /\ Halfway(b)' = Halfway(b) /\ Abandons(b)' = Abandons(b)
  BY <1>0, OthersKept DEF Halfway, Abandons, Outside, Op
<1>3. \A b \in Attempt : Halfway(b) \/ pc[b] \in {"fetch", "disk", "image"} => ~Outside(b)
  BY <1>0, Standing DEF Halfway, Outside, Ended, Fits, ReconcileAt
<1>4. BaseExplained'
  <2>. SUFFICES ASSUME base' = "partial"
                PROVE  \E b \in Attempt : /\ Op(b)' = "create"
                                          /\ \/ pc'[b] \in {"fetch", "crashed"}
                                             \/ err'[b] # "none"
    BY DEF BaseExplained
  <2>1. CASE base = "partial"
    <3>1. PICK b \in Attempt : Op(b) = "create" /\ (\/ pc[b] \in {"fetch", "crashed"}
                                                    \/ err[b] # "none")
      BY <1>1, <2>1 DEF BaseExplained
    <3>2. ~Fetched(a)
      BY DEF Fetched
    <3>. QED
      BY <1>0, <1>2, <3>1, <3>2, Unwinds
  <2>2. CASE base # "partial"
    <3>1. Image(a) /\ pc'[a] = "fetch" /\ Op(a) = "create"
      BY <1>0, <2>2, BaseWriters, Standing
         DEF Image, Fetched, Advance, Goto, Fits, CloneAt, StartAt, StopAt, DestroyAt,
             ReconcileAt, Building, Cleaning, Ended, Ops
    <3>. QED
      BY <1>0, <3>1
  <2>. QED
    BY <2>1, <2>2
<1>5. Distinct'
  BY <1>0, <1>1, <1>2, DistinctStep DEF Distinct
<1>6. FromBase => FromBase'
  <2>1. ASSUME FromBase PROVE base' = "partial" /\ pc'[a] # "fetch"
    BY <1>0, <2>1, BaseWriters, Unwinds DEF FromBase, Image, Fetched
  <2>. QED
    BY <1>2, <2>1 DEF FromBase
<1>7. ASSUME NEW b \in Attempt, Abandons(b) PROVE Abandons(b)'
  BY <1>0, <1>2, <1>7, Unwinds
<1>8. ASSUME NEW v \in Vm, disk'[v] = "partial" PROVE FromBase' \/ FromCopy(v)'
  <2>1. CASE FromBase
    BY <1>6, <2>1
  <2>2. CASE CopyEnds(a) /\ V(a) = v
    <3>1. /\ pc[a] = "copying" /\ Op(a) = "clone" /\ ~Outside(a) /\ err[a] = "none"
      BY <1>0, <2>2, Standing
         DEF CopyEnds, Control, Outside, Leaving, Ended, Fits, CreateAt, StartAt, StopAt,
             DestroyAt, ReconcileAt, Cleaning, Ops
    <3>2. Src(a) # V(a) /\ disk[Src(a)] = "partial"
      BY <1>0, <1>1, <1>8, <2>2, <3>1 DEF CopyEnds, Distinct
    <3>3. CASE FromBase
      BY <1>6, <3>3
    <3>4. CASE FromCopy(Src(a))
      <4>1. ~\E b \in Attempt : Halfway(b) /\ V(b) = Src(a)
        BY <1>0, <1>3, <3>1, <3>2 DEF LockTracksHolder
      <4>2. PICK b \in Attempt : Abandons(b)
        BY <3>4, <4>1 DEF FromCopy
      <4>. QED
        BY <1>0, <1>7, <2>2, <3>1, <4>2 DEF FromCopy
    <3>. QED
      BY <1>0, <1>1, <3>2, <3>3, <3>4
  <2>3. CASE disk[v] = "partial" /\ ~(CopyEnds(a) /\ V(a) = v) /\ FromCopy(v)
    <3>1. CASE \E b \in Attempt : Halfway(b) /\ V(b) = v
      <4>1. PICK b \in Attempt : Halfway(b) /\ V(b) = v
        BY <3>1
      <4>2. CASE b # a
        BY <1>0, <1>2, <4>1, <4>2 DEF FromCopy
      <4>3. CASE b = a
        <5>1. ~RemoveStorage(a)
          BY <1>0, <1>8, <4>1, <4>3 DEF RemoveStorage
        <5>. QED
          BY <1>0, <2>3, <4>1, <4>3, <5>1, Unwinds DEF FromCopy, Halfway
      <4>. QED
        BY <4>2, <4>3
    <3>2. CASE /\ \E b \in Attempt : Abandons(b)
               /\ \E b \in Attempt : Op(b) = "clone" /\ V(b) = v
      BY <1>0, <1>7, <3>2 DEF FromCopy
    <3>. QED
      BY <2>3, <3>1, <3>2 DEF FromCopy
  <2>4. CASE disk[v] # "partial" /\ ~(CopyEnds(a) /\ V(a) = v)
    <3>1. ~Undefine(a) /\ ~RemoveStorage(a) /\ ~CopyEnds(a)
      BY <1>0, <1>8, <2>4 DEF Undefine, RemoveStorage, CopyEnds
    <3>2. CASE MakeDisk(a)
      <4>1. base = "partial" /\ base' = "partial" /\ pc[a] = "disk" /\ pc'[a] = "seed"
        BY <1>0, <1>8, <2>4, <3>2, Standing
           DEF MakeDisk, Advance, Goto, nets
      <4>2. \A b \in Attempt : pc[b] # "fetch"
        BY <1>0, <1>3, <4>1 DEF LockTracksHolder
      <4>. QED
        BY <1>6, <4>1, <4>2 DEF FromBase
    <3>3. CASE CopyStarts(a)
      <4>1. V(a) = v /\ pc'[a] = "copying" /\ Op(a) = "clone"
        BY <1>0, <1>8, <2>4, <3>3, Standing
           DEF CopyStarts, Advance, Goto, Fits, CreateAt, StartAt, StopAt, DestroyAt,
               ReconcileAt, Cleaning, Ended, Ops
      <4>. QED
        BY <1>0, <4>1 DEF FromCopy, Halfway
    <3>. QED
      BY <1>8, <2>4, <3>1, <3>2, <3>3, DiskWriters
  <2>. QED
    BY <1>1, <2>1, <2>2, <2>3, <2>4
<1>. QED
  BY <1>4, <1>5, <1>8 DEF PartialInv

(* Whatever fails, dies or is interrupted, a half written image is the doing of a
   create that is downloading, died or failed, or of a clone that is half way, was
   killed or interrupted, is a service's or could not clean up; and no operation that
   ended well, or CLI clone that failed and rolled back, leaves one of its own. *)
THEOREM PartialsExplained == Spec => []PartialExplained
<1>1. Init => PartialInv
  <2>. SUFFICES ASSUME Init PROVE PartialInv
    OBVIOUS
  <2>1. base # "partial" /\ \A v \in Vm : disk[v] # "partial"
    BY DEF Init
  <2>2. \A a \in Attempt : pc[a] = "idle"
    BY DEF Init
  <2>. QED
    BY <2>1, <2>2 DEF PartialInv, BaseExplained, Distinct, Outside
<1>2. HolderInv /\ PartialInv /\ [Next]_vars => PartialInv'
  <2>. SUFFICES ASSUME HolderInv, PartialInv, [Next]_vars PROVE PartialInv'
    OBVIOUS
  <2>1. CASE UNCHANGED vars
    BY <2>1 DEF vars, PartialInv, BaseExplained, Distinct, FromBase, FromCopy, Halfway,
                Abandons, Outside, Op, V, Src
  <2>2. CASE Reboot
    <3>1. \A a \in Attempt :
            /\ pc'[a] = (IF pc[a] \in Ended \cup {"idle"} THEN pc[a] ELSE "crashed")
            /\ Op(a)' = Op(a) /\ V(a)' = V(a) /\ Src(a)' = Src(a) /\ err'[a] = err[a]
      BY <2>2 DEF Reboot, Op, V, Src
    <3>2. UNCHANGED <<task, disk, base>>
      BY <2>2 DEF Reboot
    <3>3. \A a \in Attempt : /\ Outside(a)' /\ pc'[a] # "lock" /\ pc'[a] # "fetch"
                             /\ Abandons(a) \/ Halfway(a) => Abandons(a)'
                             /\ Halfway(a) => Op(a) = "clone"
                             /\ pc[a] \in {"fetch", "crashed"} => pc'[a] = "crashed"
      BY <3>1, <3>2 DEF Outside, Ended, Abandons, Halfway
    <3>4. BaseExplained' /\ Distinct'
      BY <3>1, <3>2, <3>3 DEF PartialInv, BaseExplained, Distinct
    <3>5. ASSUME NEW v \in Vm, disk[v] = "partial" PROVE FromBase' \/ FromCopy(v)'
      BY <3>1, <3>2, <3>3, <3>5 DEF PartialInv, FromBase, FromCopy
    <3>. QED
      BY <3>2, <3>4, <3>5 DEF PartialInv
  <2>. QED
    BY <2>1, <2>2, PartialStep DEF Next, Moves
<1>3. PartialInv => PartialExplained
  BY DEF PartialInv, PartialExplained, BaseExplained, FromBase, FromCopy
<1>. QED
  BY <1>1, <1>2, <1>3, HolderKnows, PTL DEF Spec
=============================================================================
