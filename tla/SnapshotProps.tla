---------------------------- MODULE SnapshotProps ----------------------------
(* What snapshots are for, over every interleaving of the operations of      *)
(* Snapshot and over the faults that may strike between their steps.         *)
EXTENDS Snapshot

\* A listed snapshot, or one that a service has on record.
Listed(i) == snap[i]["meta"] # NoFile \/ record[i] # NoFile

\* Nobody has been asked to delete a snapshot or to destroy the VM, and no create
\* has begun to roll back.
NothingRemoved ==
    \A a \in Attempt :
        /\ Op(a) \in {"delete", "destroy"} => pc[a] = "idle"
        /\ Op(a) = "create" => err[a] = "none" /\ pc[a] \notin {"failed", "crashed"}

\* Values of the right kind throughout, and the lock with an attempt that is at a
\* step under it.
TypeOK ==
    /\ task \in [Attempt -> [op : Ops, svc : BOOLEAN, id : Id]]
    /\ pc \in [Attempt -> PCs]
    /\ err \in [Attempt -> {"none", "raised", "interrupted", "start"}]
    /\ ran \in [Attempt -> {"no", "waiting", "yes"}]
    /\ part \in [Attempt -> 1..6]
    /\ seen = [a \in Attempt |-> seen[a]]
    /\ \A a \in Attempt : seen[a] \in {NoFile} \cup (IF Svc(a) THEN Metadata
                                                  ELSE {Torn, Whole})
    /\ lock \in {None} \cup Attempt
    /\ \A a \in Attempt : lock = a <=> pc[a] \in Held
    /\ domain \in {"none", "off", "running"}
    /\ AreFiles(vm, Parts)
    /\ dir \subseteq Id
    /\ snap = [i \in Id |-> snap[i]]
    /\ \A i \in Id : AreFiles(snap[i], Files)
    /\ \A i \in Id \ dir : snap[i] = Empty
    /\ record \in [Id -> {NoFile} \cup Metadata]
    /\ keys \in Nat /\ writes \in Nat

\* A restore removes the VM's disk before it has another one; wherever it stops,
\* a whole disk is left in the VM or in a snapshot that can be found again
\* (snapshot_restore, cli.py:1108; what it checks first, cli.py:1119).
RestoreKeepsSource ==
    NothingRemoved =>
        \/ vm["disk"] \in DiskData
        \/ \E i \in Id : Listed(i) /\ snap[i]["disk"] \in DiskData

\* A guest that a snapshot create has begun to stop is running again when the lock is
\* given up, on success, after a roll back and after Ctrl-C at any later step alike
\* (the finally clause, cli.py:1017).  Two ways out are exempt: the start failed or was
\* cut short, and Ctrl-C during the wait for the guest to power off, before
\* stop_vm_domain has returned and source_was_running is assigned.
SourceRestarted ==
    \A a \in Attempt : Op(a) = "create" /\ pc[a] = "unlock" /\ ran[a] # "no" =>
        \/ domain = "running"
        \/ err[a] = "start"
        \/ ran[a] = "waiting" /\ err[a] = "interrupted"

\* When a restore is about to define the VM, each file of the VM is what the
\* snapshot has of it (cli.py:1130-1172).  The CLI finds the place of the local
\* artifacts in the state file of the snapshot, and passes them over if that is torn.
RestoreComplete ==
    \A a \in Attempt :
        Op(a) = "restore" /\ pc[a] = "install"
            => \A p \in Parts \ {"state"} :
                 \/ snap[Target(a)][p] \in {NoFile, vm[p]}
                 \/ p = "local" /\ ~Svc(a) /\ snap[Target(a)]["state"] # Whole

\* No restore can bring back a guest that the admin key on the host does not open:
\* neither the VM that is defined nor a listed snapshot is of an earlier VM of that
\* name, because a destroy removes the snapshots before it touches the key
\* (cleanup_vm_snapshots, service_workflows.py:372).  A guest that was built with
\* what an interrupted restore had left of the key pair is a guest without a key.
KeyFits ==
    vm["local"] \in Nat =>
        /\ domain # "none" /\ vm["disk"] \in DiskData
             => vm["disk"].key \in {vm["local"], Torn}
        /\ \A i \in Id : Listed(i) /\ snap[i]["disk"] \in DiskData
                           => snap[i]["disk"].key \in {vm["local"], Torn}

\* Outside the moments when its directory is being removed, a listed snapshot
\* keeps every file as it was: two creates in one second do not share a directory,
\* and neither a restore nor a retry writes to it (mkdir, cli.py:941).
ListedUnchanged ==
    [][\A i \in Id, p \in Parts :
         Listed(i) /\ snap[i]["meta"] # Torn /\ snap'[i][p] # snap[i][p]
             => \E a \in Attempt : /\ pc[a] \in {"sweep", "drop", "dropall"}
                                   /\ i \in Doomed(a)]_vars
-----------------------------------------------------------------------------
(* The promise of RestorePoints.  A snapshot is a restore point from the time   *)
(* its parts are copied, as long as its disk is there and it is listed or a     *)
(* restore has accepted it.                                                     *)
Kept(i) ==
    \/ Listed(i)
    \/ \E a \in Attempt :
         /\ Target(a) = i
         /\ \/ /\ Op(a) = "create" /\ err[a] = "none"
               /\ pc[a] \in {"meta", "chown", "finally", "unlock"}
            \/ Op(a) = "restore" /\ pc[a] \in {"lock", "undefine", "copy", "copying"}

Disk(d) == IF d \in DiskData THEN d ELSE NoFile

Points == INSTANCE RestorePoints WITH
    Data <- DiskData, Nothing <- NoFile, now <- Disk(vm["disk"]),
    point <- [i \in Id |-> IF Kept(i) THEN Disk(snap[i]["disk"]) ELSE NoFile]

\* Every snapshot holds the VM's data of one moment, and the only old data a VM
\* ever gets back is a snapshot's: no mixture, no half-written disk.
ImplementsRestorePoints == Points!Spec
-----------------------------------------------------------------------------
(* Statements that the code does not keep; see the README. *)

\* Snapshot create starts a guest that was running again, whatever ends it short of a
\* failing start (the finally clause, cli.py:1017).
StoppedRestarted ==
    \A a \in Attempt :
        Op(a) = "create" /\ pc[a] = "unlock" /\ ran[a] # "no" /\ err[a] # "start"
            => domain = "running"

\* tests/test_snapshot_service.py:406: "Should restore snapshot with all artifacts
\* and restart if source was running", with no command failing.
ServiceRestoreRestarts ==
    \A a \in Attempt :
        Op(a) = "restore" /\ Svc(a) /\ pc[a] = "unlock" /\ seen[a].ran
            => domain = "running"

\* A snapshot that list shows can be restored.
ListedRestorable ==
    \A a \in Attempt : Op(a) = "restore" => pc[a] # "failed"

\* A restore that finds it cannot copy the disk has not removed the VM's.
FailedRestoreKeepsDisk ==
    [][\A a \in Attempt :
         Op(a) = "restore" /\ pc[a] = "copy" /\ pc'[a] = "unlock"
             => vm'["disk"] = vm["disk"]]_vars

\* A guest is never booted from an image that was not written to the end.
BootsWholeDisk == domain = "running" => vm["disk"] # Torn
=============================================================================
