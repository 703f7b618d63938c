------------------------------ MODULE Snapshot ------------------------------
(***************************************************************************)
(* Restore points of one VM: `vmctl snapshot create|restore|delete` and    *)
(* their service-mode counterparts, as sequences of file copies by         *)
(* concurrent processes, together with the create, start and destroy of    *)
(* the VM itself.  Creating and restoring hold the lifecycle lock,         *)
(* deleting does not; what they check first they check before they lock.   *)
(*                                                                         *)
(* A file is absent, torn (a copy or a write did not finish) or holds its  *)
(* contents: a disk the admin key its guest accepts and the version of its *)
(* data, a seed image and the local artifacts (the admin key pair and the  *)
(* data directory) a key, the config and the state file that they are      *)
(* complete.  Networks are left out: a step that works on one may raise.   *)
(***************************************************************************)
EXTENDS Naturals, Sequences

CONSTANTS Attempt,    \* invocations of a command or service entry point
          Id,         \* snapshot ids: seconds of the clock, or ids of a service
          None,       \* nobody holds the lock
          NoFile,     \* the value of a file that does not exist
          Torn,       \* the value of a file that was not written to the end
          Tasking,    \* what each invocation may be asked to do
          Taken,      \* how each snapshot may have been taken to begin with
          Faults,     \* the faults that may strike
          MaxWrites   \* bound on what guests write

Ops == {"create", "restore", "delete", "provision", "start", "destroy"}
FaultKinds == {"raise", "cleanup", "crash", "interrupt"}
Origins == {"none", "cli", "service", "early", "late"}
Parts == {"disk", "seed", "conf", "state", "local"}
Metadata == [ran : BOOLEAN, parts : SUBSET Parts]

ASSUME ValueAssumption ==
    /\ None \notin Attempt
    /\ NoFile # Torn /\ NoFile \notin Metadata
    /\ {NoFile, Torn} \cap Nat = {}
    /\ {NoFile, Torn} \cap [key : Nat \cup {Torn}, ver : Nat] = {}
ASSUME ChoiceAssumption ==
    /\ Tasking \subseteq [Attempt -> [op : Ops, svc : BOOLEAN, id : Id]]
    /\ Taken \subseteq [Id -> Origins]
    /\ Faults \subseteq FaultKinds
    /\ MaxWrites \in Nat

VARIABLES
  task,     \* the invocation each attempt carries out
  pc,       \* the next step of each attempt
  err,      \* the exception an attempt is unwinding with
  ran,      \* source_was_running, of a create: "waiting" once it has begun to stop
            \* the guest, "yes" when stop_vm_domain has returned that it ran
  part,     \* how many parts an attempt has copied, and one
  seen,     \* the metadata a restore read before it locked
  lock,     \* the attempt that holds the lifecycle lock
  domain,   \* the VM in libvirt
  vm,       \* the VM's files
  dir,      \* the snapshots that have a directory
  snap,     \* the files in it
  record,   \* the metadata a service was given
  keys,     \* admin keys generated so far
  writes    \* versions written so far

vars == <<task, pc, err, ran, part, seen, lock, domain, vm, dir, snap, record,
          keys, writes>>
\* What most steps leave alone, for the UNCHANGED conjuncts.
quiet == <<task, ran, part, seen, lock>>
still == <<quiet, err>>
counts == <<keys, writes>>
points == <<dir, snap, record>>
host == <<domain, vm, points, counts>>

Whole == 0
Files == Parts \cup {"meta"}
Images == {"disk", "seed"}
Empty == [f \in Files |-> NoFile]

DiskData == [key : Nat \cup {Torn}, ver : Nat]
Value == {NoFile, Torn} \cup Nat
AreFiles(f, F) == /\ f = [p \in F |-> f[p]]
                  /\ f["disk"] \in {NoFile, Torn} \cup DiskData
                  /\ \A p \in F \ {"disk"} : f[p] \in Value

Op(a) == task[a].op
Svc(a) == task[a].svc
Target(a) == task[a].id

\* The try statement of create, and the steps of the operations that write.
InTry == {"stop", "stopping", "copy", "copying", "meta", "writing", "chown"}
Ended == {"refused", "done", "failed", "crashed"}
Held == InTry \cup {"mkdir", "drop", "finally", "undefine", "save", "write",
                    "install", "halt", "apply", "applying", "boot", "prepare",
                    "disk", "seed", "dropall", "storage", "artifacts", "forget",
                    "unlock"}
PCs == Held \cup Ended \cup {"idle", "check", "lock", "sweep"}
-----------------------------------------------------------------------------
\* The VM has been created, a snapshot may have been taken of it and the guest
\* has written since; or the directory is left of a create that was killed early,
\* copying the disk, or late, writing the metadata.
Original(ver) == [disk |-> [key |-> 1, ver |-> ver], seed |-> 1, conf |-> Whole,
                  state |-> Whole, local |-> 1]
Snapped(origin) ==
    [f \in Files |->
       CASE origin = "none" -> NoFile
         [] origin = "cli" -> IF f = "meta" THEN Whole ELSE Original(0)[f]
         [] origin = "service" -> IF f \in {"disk", "seed", "local"}
                                  THEN Original(0)[f] ELSE NoFile
         [] origin = "early" -> IF f = "disk" THEN Torn ELSE NoFile
         [] origin = "late" -> IF f = "meta" THEN Torn ELSE Original(0)[f]]

Init ==
    /\ task \in Tasking
    /\ pc = [a \in Attempt |-> "idle"]
    /\ err = [a \in Attempt |-> "none"]
    /\ ran = [a \in Attempt |-> "no"]
    /\ part = [a \in Attempt |-> 1]
    /\ seen = [a \in Attempt |-> NoFile]
    /\ lock = None
    /\ domain \in {"off", "running"}
    /\ vm = Original(1)
    /\ \E origin \in Taken :
         /\ dir = {i \in Id : origin[i] # "none"}
         /\ snap = [i \in Id |-> Snapped(origin[i])]
         /\ record = [i \in Id |-> IF origin[i] = "service"
                                   THEN [ran |-> TRUE, parts |-> {"disk", "seed", "local"}]
                                   ELSE NoFile]
    /\ keys = 1
    /\ writes = 1
-----------------------------------------------------------------------------
Goto(a, l) == pc' = [pc EXCEPT ![a] = l]
Advance(a, l) == Goto(a, l) /\ UNCHANGED err

\* create's except clause removes the directory it has made; mkdir comes before
\* the try statement, and nothing else rolls back.
Handler(a) == IF Op(a) = "delete" THEN "failed"
              ELSE IF Op(a) = "create" /\ pc[a] \in InTry THEN "drop"
              ELSE "unlock"

\* The memory of a process ends with it.
Exit(a) == /\ err' = [err EXCEPT ![a] = "none"]
           /\ ran' = [ran EXCEPT ![a] = "no"]
           /\ part' = [part EXCEPT ![a] = 1]
           /\ seen' = [seen EXCEPT ![a] = NoFile]

Raise(a) == /\ err' = [err EXCEPT ![a] = "raised"]
            /\ Goto(a, Handler(a))

\* A delete is asked of a snapshot that was listed, or of one on record; a service
\* does not take a second snapshot under an id it has on record.
Sensible(a) ==
    CASE Op(a) = "delete" -> IF Svc(a) THEN record[Target(a)] # NoFile
                             ELSE snap[Target(a)]["meta"] # NoFile
      [] Op(a) = "create" -> record[Target(a)] = NoFile
      [] OTHER -> TRUE

Begin(a) ==
    /\ pc[a] = "idle"
    /\ Sensible(a)
    /\ Goto(a, IF Op(a) \in {"create", "restore", "delete"} THEN "check" ELSE "lock")
    /\ UNCHANGED <<still, host>>

\* The CLI needs a readable state file and config; both need a disk.
CheckCreate(a) ==
    /\ pc[a] = "check" /\ Op(a) = "create"
    /\ Goto(a, IF /\ vm["disk"] # NoFile
                  /\ Svc(a) \/ (vm["state"] = Whole /\ vm["conf"] = Whole)
               THEN "lock" ELSE "refused")
    /\ UNCHANGED <<still, host>>

\* Wrong: any snapshot directory is taken for a snapshot.
AcceptsDirectory(a) == Target(a) \in dir

\* What a restore requires to exist: the metadata file or record, the disk, the
\* config (CLI), the seed (the CLI always, a service when it is on record).
Accepts(a) ==
    LET s == snap[Target(a)]
    IN  /\ s["disk"] # NoFile
        /\ IF Svc(a)
           THEN /\ record[Target(a)] # NoFile
                /\ "seed" \in record[Target(a)].parts => s["seed"] # NoFile
           ELSE NoFile \notin {s["meta"], s["conf"], s["seed"]}

\* A torn metadata file that is still YAML is read as an empty one.
CheckRestore(a) ==
    /\ pc[a] = "check" /\ Op(a) = "restore"
    /\ \/ ~Accepts(a) /\ Goto(a, "refused") /\ UNCHANGED seen
       \/ snap[Target(a)]["meta"] = Torn /\ Goto(a, "refused") /\ UNCHANGED seen
       \/ /\ Accepts(a) /\ Goto(a, "lock")
          /\ seen' = [seen EXCEPT ![a] = IF Svc(a) THEN record[Target(a)]
                                         ELSE snap[Target(a)]["meta"]]
    /\ UNCHANGED <<task, err, ran, part, lock, host>>

\* A service's delete of what is already gone succeeds, and takes it off record.
CheckDelete(a) ==
    /\ pc[a] = "check" /\ Op(a) = "delete"
    /\ Goto(a, IF Target(a) \in dir THEN "sweep" ELSE IF Svc(a) THEN "done" ELSE "refused")
    /\ record' = [record EXCEPT ![Target(a)] =
                    IF Svc(a) /\ Target(a) \notin dir THEN NoFile ELSE @]
    /\ UNCHANGED <<still, domain, vm, dir, snap, counts>>

Entry == [create |-> "mkdir", restore |-> "undefine", start |-> "boot",
          provision |-> "prepare", destroy |-> "dropall"]

TakeLock(a) ==
    /\ pc[a] = "lock" /\ lock = None
    /\ lock' = a
    /\ Goto(a, Entry[Op(a)])
    /\ UNCHANGED <<task, err, ran, part, seen, host>>

FindBusy(a) ==
    /\ pc[a] = "lock" /\ lock # None
    /\ Goto(a, "refused")
    /\ UNCHANGED <<still, host>>

Unlock(a) ==
    /\ pc[a] = "unlock"
    /\ lock' = None
    /\ Goto(a, IF err[a] = "none" THEN "done" ELSE "failed")
    \* Only a call that returns hands its service the metadata.
    /\ record' = [record EXCEPT ![Target(a)] =
                    IF Op(a) = "create" /\ Svc(a) /\ err[a] = "none"
                    THEN [ran |-> ran[a] = "yes",
                          parts |-> {p \in Parts : snap[Target(a)][p] # NoFile}]
                    ELSE @]
    /\ Exit(a)
    /\ UNCHANGED <<task, domain, vm, dir, snap, counts>>
-----------------------------------------------------------------------------
(* Taking a snapshot. *)

\* Wrong: mkdir(exist_ok=True).
MakeOrUse(a) ==
    /\ pc[a] = "mkdir"
    /\ dir' = dir \cup {Target(a)}
    /\ Advance(a, "stop")
    /\ UNCHANGED <<quiet, domain, vm, snap, record, counts>>

\* mkdir(exist_ok=False): of two creates in one second the second one fails.
MakeDirectory(a) ==
    /\ pc[a] = "mkdir"
    /\ IF Target(a) \in dir THEN Raise(a) /\ UNCHANGED dir
       ELSE dir' = dir \cup {Target(a)} /\ Advance(a, "stop")
    /\ UNCHANGED <<quiet, domain, vm, snap, record, counts>>

\* stop_vm_domain, for a domain there is.  A guest that does not power off is
\* forced off; that command is not checked.
Stop(a) ==
    /\ pc[a] = "stop"
    /\ IF domain = "running"
       THEN /\ domain' \in {"off"} \cup (IF "cleanup" \in Faults THEN {domain} ELSE {})
            /\ ran' = [ran EXCEPT ![a] = "waiting"]
            /\ Advance(a, "stopping")
       ELSE Advance(a, "copy") /\ UNCHANGED <<domain, ran>>
    /\ UNCHANGED <<task, part, seen, lock, vm, points, counts>>

\* Only now does the caller learn that the guest ran.
Stopped(a) ==
    /\ pc[a] = "stopping"
    /\ ran' = [ran EXCEPT ![a] = "yes"]
    /\ Advance(a, "copy")
    /\ UNCHANGED <<task, part, seen, lock, host>>

\* What is copied, in order, by a create into the snapshot and by a restore out
\* of it.  A service passes the config and the state along.
Order(a) == IF Svc(a) THEN <<"disk", "seed", "local">>
            ELSE <<"disk", "seed", "conf", "state", "local">>
Part(a) == Order(a)[part[a]]
Copying(a) == pc[a] \in {"copy", "copying"} /\ part[a] <= Len(Order(a))

Source(a, p) == IF Op(a) = "create" THEN vm[p] ELSE snap[Target(a)][p]
Put(a, p, x) == IF Op(a) = "create"
                THEN snap' = [snap EXCEPT ![Target(a)][p] = x] /\ UNCHANGED vm
                ELSE vm' = [vm EXCEPT ![p] = x] /\ UNCHANGED snap

\* Parts that must be there to be copied; one that need not be is skipped.  The
\* local artifacts are found through the state file, or a service's record.
Required(a, p) == \/ p \in {"disk", "conf"}
                  \/ p = "seed" /\ Op(a) = "restore" /\ Svc(a) /\ "seed" \in seen[a].parts
Named(a, p) ==
    /\ Op(a) = "restore" /\ Svc(a) => p = "disk" \/ p \in seen[a].parts
    /\ p = "local" /\ Svc(a) = (Op(a) = "create") => vm["state"] = Whole

\* The image of a running guest is locked.
\* Wrong: it is read nevertheless (qemu-img convert --force-share).
NeverLocked(a) == FALSE
ImageLocked(a) == Op(a) = "create" /\ Part(a) = "disk" /\ domain = "running"

\* Without metadata the restored config is its own target.
SameFile(a) == /\ Op(a) = "restore" /\ ~Svc(a) /\ seen[a] = Torn
               /\ Part(a) = "conf"

\* A copy of an image does not make the directory of its target, which a delete may
\* have removed in the meantime; that of a file does.
Blocked(a) == \/ SameFile(a)
              \/ Op(a) = "create" /\ Part(a) \in Images /\ Target(a) \notin dir
Opened(a) == IF Op(a) = "create" THEN dir \cup {Target(a)} ELSE dir

SkipPart(a) ==
    /\ pc[a] = "copy" /\ Copying(a)
    /\ ~Named(a, Part(a)) \/ (Source(a, Part(a)) = NoFile /\ ~Required(a, Part(a)))
    /\ part' = [part EXCEPT ![a] = @ + 1]
    /\ UNCHANGED <<task, pc, err, ran, seen, lock, host>>

\* An image that cannot be copied has been removed from the target by then.
PartMissing(a) ==
    /\ pc[a] = "copy" /\ Copying(a) /\ Named(a, Part(a))
    /\ Source(a, Part(a)) = NoFile /\ Required(a, Part(a))
    /\ IF Part(a) \in Images THEN Put(a, Part(a), NoFile) ELSE UNCHANGED <<vm, snap>>
    /\ Raise(a)
    /\ UNCHANGED <<quiet, domain, dir, record, counts>>

\* Wrong: like create_vm_disk, a disk that is there is used.
CopyWhenAbsent(a) ==
    /\ pc[a] = "copy" /\ Copying(a) /\ Named(a, Part(a))
    /\ Source(a, Part(a)) # NoFile /\ ~Blocked(a)
    /\ IF Op(a) = "restore" /\ vm[Part(a)] # NoFile
       THEN part' = [part EXCEPT ![a] = @ + 1] /\ UNCHANGED <<pc, err, vm, snap>>
       ELSE Put(a, Part(a), Torn) /\ Advance(a, "copying") /\ UNCHANGED part
    /\ dir' = Opened(a)
    /\ UNCHANGED <<task, ran, seen, lock, domain, record, counts>>

\* rm -f and qemu-img convert or cp; or copy2, which truncates its target.  In a
\* new directory there is nothing to remove.
CopyStarts(a) ==
    /\ pc[a] = "copy" /\ Copying(a) /\ Named(a, Part(a))
    /\ Source(a, Part(a)) # NoFile /\ ~Blocked(a)
    /\ \E x \in {Torn} \cup (IF Op(a) = "restore" /\ Part(a) \in Images
                            THEN {NoFile} ELSE {}) :
         Put(a, Part(a), x)
    /\ dir' = Opened(a)
    /\ Advance(a, "copying")
    /\ UNCHANGED <<quiet, domain, record, counts>>

\* A file that a delete has unlinked in the meantime stays unlinked.
Arrives(a, x) == IF Op(a) = "create" /\ snap[Target(a)][Part(a)] = NoFile
                 THEN NoFile ELSE x

CopyEnds(a) ==
    /\ pc[a] = "copying"
    /\ Source(a, Part(a)) # NoFile /\ ~ImageLocked(a)
    /\ Put(a, Part(a), Arrives(a, Source(a, Part(a))))
    /\ part' = [part EXCEPT ![a] = @ + 1]
    /\ Advance(a, "copy")
    /\ UNCHANGED <<task, ran, seen, lock, domain, dir, record, counts>>

CopyImpossible(a) ==
    /\ \/ pc[a] = "copying" /\ (Source(a, Part(a)) = NoFile \/ ImageLocked(a))
       \/ /\ pc[a] = "copy" /\ Copying(a) /\ Named(a, Part(a))
          /\ Source(a, Part(a)) # NoFile /\ Blocked(a)
    /\ Raise(a)
    /\ UNCHANGED <<quiet, host>>

\* The CLI writes metadata.yaml last; a service's create returns it.
PartsCopied(a) ==
    /\ pc[a] = "copy" /\ part[a] > Len(Order(a))
    /\ Advance(a, IF Op(a) = "create" THEN (IF Svc(a) THEN "chown" ELSE "meta")
                  ELSE IF Svc(a) THEN "install" ELSE "save")
    /\ UNCHANGED <<quiet, host>>

OpenMetadata(a) ==
    /\ pc[a] = "meta"
    /\ IF Target(a) \in dir
       THEN snap' = [snap EXCEPT ![Target(a)]["meta"] = Torn] /\ Advance(a, "writing")
       ELSE Raise(a) /\ UNCHANGED snap
    /\ UNCHANGED <<quiet, domain, vm, dir, record, counts>>

WriteMetadata(a) ==
    /\ pc[a] = "writing"
    /\ snap' = [snap EXCEPT ![Target(a)]["meta"] = IF @ = NoFile THEN @ ELSE Whole]
    /\ Advance(a, "chown")
    /\ UNCHANGED <<quiet, domain, vm, dir, record, counts>>

ChangeOwner(a) ==
    /\ pc[a] = "chown"
    /\ IF Target(a) \in dir THEN Advance(a, "finally") ELSE Raise(a)
    /\ UNCHANGED <<quiet, host>>
-----------------------------------------------------------------------------
(* Removing snapshots: shutil.rmtree unlinks one file after the other. *)

\* Wrong: a destroy leaves the snapshots behind.
DoomedKept(a) == IF Op(a) = "destroy" THEN {} ELSE {Target(a)} \cap dir

\* What an attempt is about to remove: a failed create its own snapshot, a delete
\* the one it names, a destroy every one there is.
Doomed(a) == IF Op(a) = "destroy" THEN dir ELSE {Target(a)} \cap dir

\* Wrong: nothing after the except clause: the guest is not restarted.
AfterSweepNoFinally ==
    [sweep |-> "done", drop |-> "unlock", dropall |-> "undefine"]

AfterSweep == [sweep |-> "done", drop |-> "finally", dropall |-> "undefine"]

RemoveFile(a) ==
    /\ pc[a] \in {"sweep", "drop", "dropall"}
    /\ \E i \in Doomed(a), f \in Files :
         /\ snap[i][f] # NoFile
         /\ snap' = [snap EXCEPT ![i][f] = NoFile]
    /\ UNCHANGED <<still, pc, domain, vm, dir, record, counts>>

RemoveDirectory(a) ==
    /\ pc[a] \in {"sweep", "drop", "dropall"}
    /\ \A i \in Doomed(a) : snap[i] = Empty
    /\ dir' = dir \ Doomed(a)
    /\ record' = IF pc[a] = "sweep" /\ Svc(a)
                 THEN [record EXCEPT ![Target(a)] = NoFile] ELSE record
    /\ Goto(a, AfterSweep[pc[a]])
    /\ UNCHANGED <<still, domain, vm, snap, counts>>
-----------------------------------------------------------------------------
(* Restoring one, and what else is done to the VM. *)

\* cleanup_vm_runtime_definition; a destroy has the storage removed as well.
Undefine(a) ==
    /\ pc[a] = "undefine"
    /\ domain' = "none"
    /\ vm' = IF Op(a) = "destroy" /\ domain # "none"
             THEN [vm EXCEPT !["disk"] = NoFile, !["seed"] = NoFile] ELSE vm
    /\ Goto(a, IF Op(a) = "destroy" THEN "storage" ELSE "copy")
    /\ UNCHANGED <<still, points, counts>>

RemoveStorage(a) ==
    /\ pc[a] = "storage"
    /\ vm' = [vm EXCEPT !["disk"] = NoFile, !["seed"] = NoFile]
    /\ Goto(a, "artifacts")
    /\ UNCHANGED <<still, domain, points, counts>>

RemoveArtifacts(a) ==
    /\ pc[a] = "artifacts"
    /\ vm' = [vm EXCEPT !["local"] = NoFile]
    /\ Goto(a, "forget")
    /\ UNCHANGED <<still, domain, points, counts>>

Forget(a) ==
    /\ pc[a] = "forget"
    /\ vm' = [vm EXCEPT !["state"] = NoFile]
    /\ Goto(a, "unlock")
    /\ UNCHANGED <<still, domain, points, counts>>

\* prepare_vm_definition: a key pair is generated unless there is one.
Prepare(a) ==
    /\ pc[a] = "prepare" /\ vm["conf"] = Whole
    /\ IF vm["local"] = NoFile
       THEN /\ keys' = keys + 1
            /\ vm' = [vm EXCEPT !["local"] = keys + 1]
       ELSE UNCHANGED <<keys, vm>>
    /\ Goto(a, "save")
    /\ UNCHANGED <<still, domain, points, writes>>

\* load_config of what an interrupted restore left of the config.
ConfigUnreadable(a) ==
    /\ pc[a] = "prepare" \/ (pc[a] = "save" /\ Op(a) = "restore")
    /\ vm["conf"] # Whole
    /\ Raise(a)
    /\ UNCHANGED <<quiet, host>>

\* save_vm_state, before the domain is installed and once more afterwards.
OpenState(a) ==
    /\ pc[a] = "apply" \/ (pc[a] = "save" /\ vm["conf"] = Whole)
    /\ vm' = [vm EXCEPT !["state"] = Torn]
    /\ Goto(a, IF pc[a] = "save" THEN "write" ELSE "applying")
    /\ UNCHANGED <<still, domain, points, counts>>

\* Only a service restarts what it has restored.
WriteState(a) ==
    /\ pc[a] \in {"write", "applying"}
    /\ vm' = [vm EXCEPT !["state"] = Whole]
    /\ Goto(a, IF pc[a] = "write"
               THEN (IF Op(a) = "provision" THEN "disk" ELSE "install")
               ELSE IF Op(a) = "restore" /\ Svc(a) /\ seen[a].ran THEN "boot" ELSE "unlock")
    /\ UNCHANGED <<still, domain, points, counts>>

\* create_vm_disk: a new image, unless there is one.
MakeDisk(a) ==
    /\ pc[a] = "disk"
    /\ IF vm["disk"] = NoFile
       THEN /\ writes' = writes + 1
            /\ vm' = [vm EXCEPT !["disk"] = [key |-> vm["local"], ver |-> writes + 1]]
       ELSE UNCHANGED <<writes, vm>>
    /\ Advance(a, "seed")
    /\ UNCHANGED <<quiet, domain, points, keys>>

MakeSeed(a) ==
    /\ pc[a] = "seed"
    /\ vm' = [vm EXCEPT !["seed"] = vm["local"]]
    /\ Advance(a, "install")
    /\ UNCHANGED <<quiet, domain, points, counts>>

Bootable == vm["disk"] # NoFile /\ vm["seed"] # NoFile

\* A service restore passes virt_install the memory as "memory_mb"; virt_install
\* reads "ram_mb" and raises, unless the domain exists and it has nothing to do.
Installs(a) == Bootable /\ ~(Op(a) = "restore" /\ Svc(a))

Install(a) ==
    /\ pc[a] = "install"
    /\ domain # "none" \/ Installs(a)
    /\ domain' = IF domain = "none" THEN "running" ELSE domain
    /\ Advance(a, IF Op(a) = "restore" /\ ~Svc(a) THEN "halt" ELSE "apply")
    /\ UNCHANGED <<quiet, vm, points, counts>>

InstallRaises(a) ==
    /\ pc[a] = "install" /\ domain = "none" /\ ~Installs(a)
    /\ Raise(a)
    /\ UNCHANGED <<quiet, host>>

\* stop_vm_domain: the CLI leaves a restored VM powered off.
Halt(a) ==
    /\ pc[a] = "halt"
    /\ domain' \in {"off"} \cup (IF "cleanup" \in Faults THEN {domain} ELSE {})
    /\ Advance(a, "apply")
    /\ UNCHANGED <<quiet, vm, points, counts>>

\* start_vm_domain: of a start, of a service restore, of create's finally clause.
Starting(a) == pc[a] = "boot" \/ (pc[a] = "finally" /\ ran[a] = "yes")

Boot(a) ==
    /\ Starting(a)
    /\ domain = "running" \/ (domain = "off" /\ Bootable)
    /\ domain' = "running"
    /\ Advance(a, "unlock")
    /\ UNCHANGED <<quiet, vm, points, counts>>

BootFails(a) ==
    /\ Starting(a) /\ domain # "running"
    /\ "raise" \in Faults \/ domain = "none" \/ ~Bootable
    /\ err' = [err EXCEPT ![a] = "start"]
    /\ Goto(a, "unlock")
    /\ UNCHANGED <<quiet, host>>

NothingToRestart(a) ==
    /\ pc[a] = "finally" /\ ran[a] # "yes"
    /\ Advance(a, "unlock")
    /\ UNCHANGED <<quiet, host>>
-----------------------------------------------------------------------------
(* The guest, and faults. *)

GuestWrites ==
    /\ domain = "running" /\ vm["disk"] \in DiskData /\ writes < MaxWrites
    /\ writes' = writes + 1
    /\ vm' = [vm EXCEPT !["disk"] = [key |-> vm["disk"].key, ver |-> writes + 1]]
    /\ UNCHANGED <<quiet, pc, err, domain, points, keys>>

\* A checked command, a file operation or a networking step raises.
Fails(a) ==
    /\ "raise" \in Faults
    /\ pc[a] \in (InTry \ {"stop", "stopping"}) \cup
         {"mkdir", "sweep", "dropall", "artifacts", "forget", "prepare", "save",
          "write", "disk", "seed", "install", "apply", "applying"}
    /\ Raise(a)
    /\ UNCHANGED <<quiet, host>>

\* Ctrl-C passes create's except clause by; in its finally clause it cuts the
\* restart short.
Interrupt(a) ==
    /\ "interrupt" \in Faults
    /\ pc[a] \in (Held \cup {"sweep"}) \ {"unlock"}
    /\ err' = [err EXCEPT ![a] = IF Starting(a) /\ pc[a] = "finally" THEN "start"
                                                             ELSE "interrupted"]
    /\ Goto(a, IF pc[a] = "sweep" THEN "failed"
               ELSE IF Op(a) = "create" /\ pc[a] \in InTry \cup {"drop"}
               THEN "finally" ELSE "unlock")
    /\ UNCHANGED <<quiet, host>>

\* The process is killed; the kernel drops its lock.
Crash(a) ==
    /\ "crash" \in Faults
    /\ pc[a] \notin Ended \cup {"idle"}
    /\ Goto(a, "crashed")
    /\ lock' = IF lock = a THEN None ELSE lock
    /\ Exit(a)
    /\ UNCHANGED <<task, host>>

Proceed(a) ==
    \/ Begin(a) \/ CheckCreate(a) \/ CheckRestore(a) \/ CheckDelete(a)
    \/ TakeLock(a) \/ FindBusy(a) \/ Unlock(a)
    \/ MakeDirectory(a) \/ Stop(a) \/ Stopped(a)
    \/ SkipPart(a) \/ PartMissing(a) \/ CopyStarts(a) \/ CopyEnds(a)
    \/ CopyImpossible(a) \/ PartsCopied(a)
    \/ OpenMetadata(a) \/ WriteMetadata(a) \/ ChangeOwner(a)
    \/ RemoveFile(a) \/ RemoveDirectory(a)
    \/ Undefine(a) \/ RemoveStorage(a) \/ RemoveArtifacts(a) \/ Forget(a)
    \/ Prepare(a) \/ ConfigUnreadable(a) \/ OpenState(a) \/ WriteState(a)
    \/ MakeDisk(a) \/ MakeSeed(a) \/ Install(a) \/ InstallRaises(a) \/ Halt(a)
    \/ Boot(a) \/ BootFails(a) \/ NothingToRestart(a)

Next == \/ \E a \in Attempt : Proceed(a) \/ Fails(a)
                              \/ Interrupt(a) \/ Crash(a)
        \/ GuestWrites

Spec == Init /\ [][Next]_vars
=============================================================================
