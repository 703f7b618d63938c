# Verification of homelab-vm-provisioner

TLA+ models of `homelab_vm_provisioner`, model-checked with TLC, with proofs
checked by TLAPS. Paths below are relative to the repository; line numbers are
those the map in `PROJECT.json` names for every definition.

## 1. The system

`vmctl` (cli.py) and a service facade (service_mode.py) run short-lived
processes that create, clone, start, stop, destroy, snapshot and reconcile
libvirt VMs on one host. There is no daemon and no database: everything that
lasts is kept by libvirt, by nftables, in the file system, and in one lock file.

| part | state it keeps | operations | interacts by |
|---|---|---|---|
| host lifecycle lock (system.py) | `flock` on one file, JSON description of the holder in it | take without waiting, report the holder, release | every lifecycle operation runs inside it; reconcile and ssh-admin do not |
| lifecycle operations (cli.py, service_workflows.py, service_mode.py, runtime_observation.py) | the process's own variables | create, clone, start, stop, destroy, from a config file, stdin or a service payload | host commands; the lock; state files; reconcile |
| provisioning (provision.py) | base image cache, disks, seed images, keys, per-VM NAT networks | download, copy, seed, virt-install, cleanups | called step by step by the operations |
| state files (config.py) | `vm/state/<name>.yaml` | save (truncate, write), load, delete | read by reconcile as its records |
| network reconciler (reconciler.py) | libvirt networks | plan, safety check, recreate, net-update, activate | by create/clone/start/destroy under the lock, by `vmctl reconcile` and the service without |
| managed tables (managed_nftables.py) | tables `hvp_filter`, `hvp_nat`, `hvp_bridge_filter` | look, replace in one batch, verify | last step of every reconcile |
| rule plan (reconciler.py 288-787) | none: records to ordered rules | build | what the tables do to packets |
| subnet allocation (network.py 26-126, cli.py 161-176) | none of its own: it reads routes and networks, and what it picks ends in a state file and a libvirt network | walk the third octets, pick the first free /24 | create and clone, before the lock in service mode; destroy frees |
| snapshots (snapshot_service.py, cli.py 724-1349) | one directory per snapshot: disk, seed, config, state, keys and data, `metadata.yaml` (a service keeps the metadata itself) | create, restore, delete, list | stop/start, cleanup, virt-install and apply of the operations; create and restore lock, delete does not; destroy removes them |
| configuration and data layout (config.py) | global and VM YAML; the data root, and what older versions left in the project directory | resolve, validate; move the old layout to the data root | every command migrates, several times, without the lock |

What is hard here: processes interleave between any two host commands; a
process may be killed or interrupted anywhere and leaves what it had done;
most cleanups ignore failures; a query that fails reads as "nothing there";
reconcile does not take the lock and works on records it read earlier; the
order of overlapping firewall rules decides; a reboot keeps some of the state.
The `hazards` of `PROJECT.json` list these, each at its line.

What makes each part correct, and is stated below: the lock excludes, never
gets stuck and never lies more than it must; a domain always has what it needs
(state file, key, complete disk, active network); a failed clone and a finished
destroy leave nothing; a snapshot is the VM's data of one moment, never changes,
and a restore gives it back whole or leaves a way to try again; no two VMs are
given one subnet, and what is recorded of a network is what it is; moving the old
layout loses, overwrites and brings back nothing; tables and
networks converge to the records and running
VMs keep their network on the way; a VM sends exactly what its flags allow.

## 2. Modules

| module | what it is |
|---|---|
| `LifecycleMutex` | abstract lock: one holder, grant when free, refuse when held, holders may vanish |
| `HostLock` | `host_lifecycle_lock` step by step: open, flock, truncate, describe, body with its host commands, erase, unlock, crash. Refines `LifecycleMutex` |
| `HostLock_proofs` | its proofs |
| `VmLifecycle` | create, clone, start, stop, destroy (CLI and service variants) and `reconcile --policy-only`, by host commands and file operations, some of which are merged (below) |
| `VmLifecycleProps` | what they promise, and claims the code does not keep |
| `VmLifecycle_proofs` | proofs about every task: types, the lock, the state file of a domain |
| `VmHolder_proofs` | proofs about the task that holds the lock: what it has established still holds at its next step |
| `Reconcile` | `reconcile_networking_records`, one action per virsh or nft command |
| `Reconcile_proofs` | its proofs, for reconciles under the lock |
| `NftPolicy` | the rule plan, judged packet by packet, with conntrack and table replacement |
| `NftPolicy_proofs` | its proofs: the ordered rules say of every packet what the flags say |
| `RestorePoints` | abstract snapshots: points of the VM's data that never change; the data is only ever brought back to one of them |
| `Snapshot` | create, restore and delete of snapshots by the CLI and by a service, file by file, with the create, start and destroy of the VM beside them |
| `SnapshotProps` | what they promise, the refinement of `RestorePoints`, and claims the code does not keep |
| `Snapshot_proofs` | their proofs, the refinement among them |
| `SubnetAlloc` | the subnets of nat-auto VMs: the walk of `pick_free_subnet` query by query, record, definition, start and removal of the network, with its properties |
| `SubnetAlloc_proofs` | their proofs |
| `DataLayout` | the migration of the old layout to the data root, entry by entry, beside a save or a removal of a record, with its properties |
| `DataLayout_proofs` | their proofs |
| `MC*` | instances for TLC |

`VmLifecycle` takes the lock as one variable; `HostLock` shows that the file
lock gives that. `VmLifecycle` lets a reconcile handle one network per step and
identifies the tables with the VMs they were rendered for; `Reconcile` takes
that step apart, and `NftPolicy` says what the rendered rules do. `Snapshot` and
`SubnetAlloc` follow other state through the same operations, under the same
lock: the first the contents of a VM's files, the second the subnets of networks.

### State and code

*HostLock.* `pc` is the position in `host_lifecycle_lock`, `flock` the kernel's
lock, `content` the holder the file describes, `report` what
`_lock_holder_details` returned, `command` the child processes. `Crash` is
SIGKILL: the kernel drops the lock, nobody empties the file, a child runs on.

*VmLifecycle.* `task` fixes what each invocation (`Attempt`) does; `pc` is its
next step. Per VM: `domain` (libvirt), `disk` (none, partial, whole), `files`
(key, rendered data, seed), `state` (none, torn between truncate and write,
saved). Per network: `netUp`, `dhcp`. `base` is the cached image, `rules` the VMs
the tables were rendered for. `plan` is what a reconcile read and may have become
stale; `seen` the network mode a start or destroy decided on, `named` whether it found
a state file that names the data directory; a VM of `CustomDir` has a
`paths.vm_data_dir` of its own, which a cleanup only removes if it is named
(`FindsData`). `ran` is `source_was_running`, with a third value, "waiting", from the
moment the guest is told to stop until stop_vm_domain has returned: only then is the
Python variable assigned. `Raise` and `Handler` are the except and finally clauses:
the CLI clone rolls back and restarts its source, the service clone only
restarts it, create has neither. `Interrupt` is Ctrl-C, which no
`except Exception` sees. `MergedMode` is `merged_vm_network` with what
`discover_vm_network` finds.

An action of `VmLifecycle` is a host command or a file operation with the queries in
front of it, and where several commands are one action, a failure in between is an
action beside it that leaves what the first of them did: net-define and net-start
(`NatNet`, `NatNetFails`), the rendered data and the seed image (`Seed`, `SeedFails`),
the batch and its verification (`ApplyRules`, `ApplyRulesFails`), a reconcile's work on
one network (`EnsureNet`, `EnsureNetFails`; `Reconcile` takes it apart). Without such an
action are the shutdown of a guest, which ends it or at last forces it off
(`StopRunning`), the removals of the two images (`RemoveStorage`), those of keys and
data (`RemoveArtifacts`), and net-undefine with those of left-over bridges (`NetDown`):
a crash falls before or after each. virsh destroy and undefine (`ForceOff`, `Undefine`),
net-destroy and net-undefine (`NetStop`, `NetDown`) are steps of their own.

*Reconcile.* `want` are the configuration files, `net` libvirt's networks as their
structure and DHCP hosts, `running` the VMs, `cut` those of them whose bridge was
deleted, `tables` the record sets in force. `goal`, `todo`, `cur`, `act`, `diff`, `old`
are local variables of an invocation. With `"query"` among the faults, `Dumped`, `Seen`,
`LookAtTables` and `Activate` may be told less than there is, as `capture_or_none` and
its callers make it. net-destroy and net-undefine are unchecked (`NetDestroy`,
`NetUndefine`): they may fail and the recreate goes on. `verify_tables` may fail after
the batch has replaced the tables (`Apply`). The source handles groups in the order of
the records; the model in any order.

*NftPolicy.* `pol` are the live records' flags and forwarded ports, `conn` the conntrack
entry, `pkt`/`passed` the last packet and its fate. `InputRules`, `BridgeRules`,
`GroupRules`, `ServiceRules` are the rules in the order the plan appends them; a rule
whose set would be empty matches nothing, as the omitted rule would. `brnf` is whether
br_netfilter is loaded, which a reconcile tries (managed_nftables.py 127-139): with it,
packets that a bridge only switches meet the prerouting hook and the forward chain as
well. conntrack calls a connection established once it has been `answered`; `granted` is
a history variable: the flags let the client address the host when it opened the
connection. tcp and udp are not told apart, and private addresses are taken to include
every managed subnet.

*Snapshot.* `vm` and `snap` are the files of the VM and of each snapshot: absent,
torn, or their contents. A disk's contents are the version of the data (`writes`
counts versions; the guest makes new ones while it runs) and the admin key its
guest accepts; the local artifacts (key pair, data directory) are one file whose
contents is the key. `dir` are the snapshot directories, `record` the metadata a
service was given when its create returned. `seen` is the metadata a restore read
before it locked, `part` the number of the part being copied, `ran`
`source_was_running`. `Handler` and `Interrupt` are the except and finally
clauses of create; `sweep`, `drop` and `dropall` are the same `rmtree` in a delete,
in create's rollback and in a destroy, one file per step and in any order.
`CopyStarts` leaves the target torn, or absent for the images, whose copy begins
with `rm -f`; a copy whose source is unlinked half way is taken to fail, and one whose
target is, to leave nothing (`Arrives`). The directory that a delete has removed under a
create is missing for an image and for the metadata, and made again for any other file
(`Blocked`, `Opened`).
`qemu-img` cannot read an image that a running guest has locked. In the instances
a snapshot may exist to begin with, or be what a create left that was killed.

*SubnetAlloc.* `octet` is the loop variable, and then the subnet picked; `seen` is what
`ip route` or a discovery answered and is still to be used. `lan` are the subnets in
routes that are not libvirt's, `net` the networks as subnet and whether they are up (a
network that is up has a route), `rec` the subnets in the state files, or `Torn`:
`save_vm_state` empties the file (`Save`, `Apply`) and then writes it (`Write`,
`Rewrite`), before anything is made and again after virt-install. `again` is a history
variable: the VMs on which create was run while their network stood. A service's create
begins at the walk, the CLI's at the lock. `Start` fails on a subnet in use because
libvirt's net-start does.

*DataLayout.* `disk` says of every file and folder what lies at its place in the
project directory (`"old"`) and at the data root (`"new"`): nothing, a folder, what
an older version wrote (`"legacy"`), what a command of this one wrote (`"own"`), or a
part of either (`"torn"`). `work` is the call stack of `_merge_directory_contents` as
the list of things still to do; a process takes the first one per step, and the order
in which a folder is read is open. `Script` are the getters of paths that
`save_vm_state` and `delete_vm_state` call, each of which migrates. `across` says
that the data root is on another file system, where `shutil.move` copies and then
removes; a folder that has appeared at its target in between receives the source
inside of it (the places named by folders). `first` (the initial trees) and `alone`
(no other command was at work) are history variables.

## 3. Runs

| run | instance | faults | checks |
|---|---|---|---|
| `lock` | 3 invocations | crash, failing write | type, exclusion, no stale description, honest report, termination, refinement |
| `vm_cli` | 3 CLI invocations, any of 9 tasks each (no two build one VM), 3 VMs: two in a group, one nat-custom | commands raise | `RollbackComplete`, `PolicyConverges` |
| `vm_crash` | same tasks and the start of the nat-custom VM, races included | raise, crash, Ctrl-C, reboot | type, `DomainHasState`, `DomainHasKey`, `DestroyComplete`, `StartRestoresPolicy`, `GroupNetworkKept` |
| `vm_hostile` | 2 invocations, CLI and service, with a reconcile outside the lock and a nat-auto VM, no cached image | raise, failing cleanups, crash, Ctrl-C | `LockTracksHolder`, `SourceRestored`, `InstallReady`, `PartialExplained` |
| `vm_live` | create, clone, destroy | raise, crash, reboot | `OperationsEnd` under fairness |
| `net_locked` | 2 full reconciles under the lock, one allowed to be destructive, 2 networks, 3 VMs, 3 configurations | commands fail, crash, reboot | `Achieved`, `TablesReplaced`, `NoneCutUnasked` |
| `net_live` | 2 full reconciles, one without the lock, 1 network, 2 VMs | queries fail | `ReconcilesEnd` under fairness |
| `nft_filter` | 2 groups, 3 VMs, one with every combination of flags, br_netfilter loaded or not | - | `Confined`, `Unblocked` |
| `snap` | 2 invocations of one surface, one VM, 2 snapshot ids, at most one snapshot to begin with (whole, killed early, killed late, a service's), guests write up to version 2 | raise, a forced stop that fails, crash, Ctrl-C | `RestoreKeepsSource`, `SourceRestarted`, `RestoreComplete`, `KeyFits`, `ListedUnchanged`, `ImplementsRestorePoints` |
| `subnet` | 3 invocations, 2 VMs, third octets 100 to 102, a foreign route at 101 | commands raise, crash | type, `OneNetworkPerSubnet`, `RecordInEffect`, `FullOnlyWhenTaken` |
| `layout` | 2 commands, each of look, save, forget; vmctl.yaml and vm/state with two records; 2 old trees, 5 trees at the data root, one or two file systems | crash | `NothingLost`, `Migrated`, `ForgottenStays`, `RecoversAlone`, `NothingOverwritten` |

The type invariants of `Reconcile`, `NftPolicy`, `SnapshotProps` and `DataLayout` hold
on the same instances (the properties of the configuration replaced by `INVARIANT
TypeOK`), but are not among the runs' properties, which say more. Those of the other
modules are part of the runs, and proved.

Bounds: two invocations suffice for every pairwise interleaving, and the lock lets only
one of them be inside, so a third adds only further refusals; the lock itself is checked
with three, a holder, its successor and a reader that sees both. Two VMs of a group and
one outside let shared and own networks meet. One reboot is enough to meet every step.
In `Reconcile` two networks let a failure fall between them. In `Snapshot` two
invocations are the one inside the lock and one outside it (a check before the lock, or
a delete), on a snapshot that may be there already, so that what would take a third, the
create of that snapshot, is in the initial states. In `SubnetAlloc` three invocations
let a subnet be freed and taken while a third walks; the range has one subnet more than
there are VMs, which the foreign route can take, so that it can fill up; 151 octets add
nothing to three, since the walk only tells the last one from the others, and the
theorems hold for every range. In `DataLayout` a folder in a folder is where the merge
descends, one entry of either kind is absent or present at the target, and two commands
are a migration and the one it races with. In `NftPolicy` one connection at a time is
enough, since no rule relates two.

`CHECK_DEADLOCK FALSE` is set where the system stops: invocations end and are
not repeated. `NftPolicy` never stops and is checked for deadlock.

Liveness. `FairSpec` is weak fairness per invocation on its own steps: a process
that has started is scheduled, and its host commands return (the code puts a
60 second limit on its own wait and none on commands). Nothing is assumed of
command failures, crashes, interrupts, or an invocation's start; in particular the
convergence of a network's DHCP hosts must end by itself and not because a command
happens to fail (`Breaks` is outside the fairness). In `HostLock` strong fairness
on `Erase` says that a body runs finitely many commands. Next to that, `net_live`
shows two reconciles that undo each other's work both end, because each only
carries out one plan per network.

### Where code and words disagree

One run expects a violation; its finding in `PROJECT.json` quotes the line.

* `nft_return`: the answer of a forwarded service to a LAN client is rejected
  unless the VM may use the private LAN (default: trusted VMs only), or to anybody
  if it has no internet access; the rule that accepts returns is never reached.

More were met while modelling. Each has its property and a configuration that
makes TLC show it (`tlc -config <file> <module>`), some of them a change of another
one:

| configuration | property | what happens |
|---|---|---|
| `MCHostLock_stale_report` | `ReportNamesHolder` | a refusal names an operation that was killed long ago |
| `MCHostLock_orphan` | `CommandsExclusive` | a killed holder's child command runs beside the next holder's |
| `MCVmLifecycle_clone_target` | `CloneTargetIsNew` | a clone builds on a VM created after its check, and a rollback would remove it |
| `MCVmLifecycle_nat_auto_policy` | `DestroyDropsPolicy` | destroying a nat-auto VM leaves its rules |
| `MCVmLifecycle_stale_reconcile` | `DestroyDropsPolicy` | a reconcile without the lock writes a destroyed VM's rules back |
| `MCVmLifecycle_stdin_ports` | `PortsForwarded` | a VM created from stdin is not among the records its own create reconciles |
| `MCVmLifecycle_partial_image` | `DomainHasDisk` | a download that fails half way is taken for the base image; what remains true of partial images is `PartialExplained` |
| `MCVmLifecycle_clone_target`, with `Tasking <- DataDirTasks` and `Faults = {"raise", "crash"}` | `DestroyRemovesData` | destroy is said to remove the generated files under the VM's data directory (README.md:290), which a config may put anywhere (README.md:512). If a create is killed between truncating and writing the state file, a destroy does not know where that is: it looks in the default place, succeeds, and leaves the directory |
| `MCVmLifecycle_clone_target`, with `Faults = {"interrupt"}` | `StoppedRestarted` | Ctrl-C while clone waits for its source to stop: `source_was_running` is not assigned yet, and the source stays off |
| `MCVmLifecycle_service_key` | `DomainHasKey` | the service prepares the key before the lock; a destroy in between removes it |
| `MCReconcile_unlocked_cut` | `NoneCutUnasked` | a VM starts between the safety check and net-destroy |
| `MCReconcile_unlocked_cut`, with `Locked = {}`, `PolicyOnly = {r1, r2}`, `Faults = {"reboot"}` and `TablesReplaced` for its invariant | `TablesReplaced` | two unlocked reconciles after a reboot leave both their rules |
| `MCReconcile_query_cut` | `NoneCutUnasked` | a `virsh` query that fails reads as "no such network", "no domains" or "not active", and the bridge of running VMs is deleted without the flag that should be needed |
| `MCVmLifecycle_shared_network` | `SharedNetworkKept` | a destroy repeated after the state file is gone takes the group's network for the VM's own |
| `MCVmLifecycle_stdin_ports`, with `Configured <- AutoVms`, `Provisioned = {g1, u}`, `Tasking <- StartTasks`, `Faults = {"reboot"}` | `PortsForwarded` | after a reboot, starting a nat-auto VM does not bring its port rules back |
| `MCSnapshot_service` | `ServiceRestoreRestarts` | a service restore of a VM that ran undefines it, copies the files back, and calls `virt_install` without the `ram_mb` it reads (provision.py:472): `KeyError`, and no VM, although tests/test_snapshot_service.py:406 says "restart if source was running" (its `virt_install` is a mock). No fault is needed |
| `MCSnapshot_service`, with `Tasking <- Creates` and `Faults = {"interrupt"}` | `StoppedRestarted` | the same in a snapshot create |
| `MCSnapshot_torn_metadata` | `ListedRestorable` | metadata cut short reads as an empty mapping; the restore fails on copying the config onto itself, with the VM gone |
| `MCSnapshot_delete_race` | `FailedRestoreKeepsDisk` | a delete, which takes no lock, removes the snapshot after the restore's check: the disk is removed and there is nothing to copy |
| `MCSnapshot_delete_race`, with `Attempt <- Three`, `Tasking <- RestoreAndRebuild` | `FailedRestoreKeepsDisk` | the same with a destroy and a create between the check and the lock: the new VM's disk is removed |
| `MCSnapshot_delete_race`, with `Attempt = {a1, a2, a3, a4}`, `Id = {s1}`, `Tasking <- ServiceReuse`, `Taken <- FromService` | `ListedUnchanged` | of two deletes of one id the second one removes the directory of a create that used the id again; that create returns its metadata, and a third writes into its snapshot |
| `MCSnapshot_partial_boot` | `BootsWholeDisk` | a restore killed while it copies leaves part of a disk, which the next create takes for the VM's disk and boots |
| `MCNftPolicy_return`, with `Choices <- HostChoices` | `OnlyHostLetIn` | what is established is accepted before the host reject ("let host in", reconciler.py:534): a VM goes on with a connection to the host it opened while `allow_host_access` was on |
| `MCSubnetAlloc_again` | `RecordAlwaysInEffect` | create run again on a nat-auto VM picks and records another subnet than its network has; virt-install finds the VM and the create succeeds |
| `MCSubnetAlloc_query` | `SubnetsApart` | `ip route` or `virsh` fails, nothing seems in use, and two networks are defined on one subnet |
| `MCSubnetAlloc_service` | `SubnetsApart` | two services pick the same subnet before they lock; the second network cannot be started, after its record was saved |
| `MCDataLayout_race` | `LookSucceeds` | of two commands that migrate at once one finds a source gone, and fails whatever it was to do |
| `MCDataLayout_race`, with `Trees <- MCTrees`, `Tasking <- AnyTasks` and `RecordGone` for its invariant | `RecordGone` | both layouts have a record of a VM: a destroy removes the new one, and the next command brings the old one back |
| `MCDataLayout_torn` | `MigratedWhole` | (other file system) a migration killed in a copy leaves part of a file, which later ones take for the file: they leave the whole one in the project directory |
| `MCDataLayout_torn`, with `NotBuried` for its invariant | `NotBuried` | (other file system) `vm` appears at the data root between the look and the move, and the copy goes to `vm/vm`, where nobody looks |

## 4. Proofs

Each of the eight `_proofs` modules is checked by tlapm to the last leaf. The theorems
hold for every set of invocations, VMs, networks, tasks and faults that satisfies the
named assumptions, those on subnets for every range of octets, those on the rules
for every assignment of groups, flags and ports, those on snapshots for every set of ids
and any bound on what guests write, those on the data layout for every finite tree of
files and folders. What a theorem
assumes beyond that stands in its statement, and is one of the properties below that
the instances of the runs have too.

*HostLock.* The inductive invariant `IInv` adds to type correctness: a process in
its critical section is the one that has `flock`, and the content of the file is
None, or its author is at a label at which it has written and not yet erased, or
has crashed. From it follow `TypeOK`, `MutualExclusion`, `NoStaleDescription`,
`ReportExplained`, and, step by step, that the lock implements `LifecycleMutex`
(`ImplementsMutex`): opening and reading the file are stutters.

*VmLifecycle.* `DomainHasState` is not inductive: that the state file is there
when virt-install runs follows from the position of the process and from nobody
else being inside. `IInv` is the conjunction of

* `TypeOK`;
* `LabelsFit`: which labels an operation can be at (a start is never at
  "install", a reconcile never at a label that holds the lock...);
* `LockTracksHolder`: the lock is held by exactly the attempt inside;
* `Saved`: an attempt between its save and its end has written its state file, so
  a domain it installs has one;
* `Undefined`: an attempt about to delete the state file has undefined the domain;
* `DomainHasState`.

`Saved` and `Undefined` survive the steps of others because of `LockTracksHolder`.
The theorems `LockHeldInside` and `DomainsDescribed` are those two properties for
every instance; the latter, like its property, is about unchecked commands that
succeed.

*VmHolder.* The other properties of `VmLifecycleProps` are about what one task does
over many steps, while others come and go. `HolderInv` adds to `IInv`

* `Control(a)`, for every task: where an exception can be in flight, where a clone can
  have stopped its source, where nothing has been installed yet;
* `Here(a)`, for a task inside the lock: what its position says of the VM it works on.
  `Built` (image and disk), `Wired` (the network) and `Keyed` for a VM being built,
  `Judged` and `Swept` (what is already gone) for one being cleaned up, `Started` (the
  rules and the domain) for one being started or a clone's source;
* `DomainHasKey`, if no service is among the tasks.

The steps of others keep `Here`, because they are outside the lock and there can change
plans and, a service, keys only; that is `HolderStep`, one case per kind of step.
`PolicyInv` says in the same way how far the task inside has come with tables and state
files (`Policed`), and that they agree when nobody is inside. `PartialInv` says whose
doing a partial base image or disk is, at every step of a download, a copy, a roll back
or a cleanup; with it `PartialsExplained` needs no hypothesis. The hypotheses of the
theorems, each with what shows that it is needed:

| theorem | property | hypothesis | without it |
|---|---|---|---|
| `SourcesRestored` | `SourceRestored` | none (the property exempts Ctrl-C in the stop wait) | `StoppedRestarted` does not hold |
| `PartialsExplained` | `PartialExplained` | none | |
| `GroupNetworksKept` | `GroupNetworkKept` | none | |
| `InstallsReady` | `InstallReady` | a VM created or cloned in a group has a configuration file | as in `MCVmLifecycle_stdin_ports` its own reconcile does not see it |
| `DomainsHaveKeys` | `DomainHasKey` | no service | `MCVmLifecycle_service_key` |
| `DestroysComplete`, `RollbacksComplete` | `DestroyComplete`, `RollbackComplete` | no service (the former exempts a custom data directory that no state file names: `DestroyRemovesData` does not hold) | a service may write the key back, before it locks |
| `StartsRestorePolicy` | `StartRestoresPolicy` | no reconcile outside the lock, no cleanup that fails | an older reading of the records overwrites the tables |
| `PolicyFollows` | `PolicyConverges` | no reboot, no reconcile outside the lock, no nat-auto VM destroyed | `MCVmLifecycle_stale_reconcile`, `MCVmLifecycle_nat_auto_policy` |

The proof attempt of `StartsRestorePolicy` found that the property had been too
strong: a start reads the state file before it takes the lock
(service_workflows.py:331). If a create of the same nat-custom VM is killed in between,
after it truncated the file, the start boots the VM and renders the tables from records
in which it is missing. The instance had no start of such a VM; it has now, and the
property exempts it.

*Reconcile.* The theorems other than `TypeCorrect` assume `Serial`, that every reconcile
takes the lock, as those of create, clone, start and destroy do and `vmctl reconcile`
does not; `OneRulesetAtATime` and `NobodyCut` assume `Answered` too, that queries do not
fail. `MCReconcile_unlocked_cut`, both ways, and `MCReconcile_query_cut`
show that they are needed. `GoalAchieved` needs no answers: a plan made from wrong
answers does not report success without the networks it wanted. `IInv` says of the
reconcile inside the lock that the networks it has ticked off are as its records want
them and stay so (`Ticked`), how much of its plan for the present one has been done
(`Underway`), that nobody runs on the network it is about to delete unless that was
allowed (`Careful`), and that a batch which deletes no tables finds none (`Looked`).

*NftPolicy.* `IInv` is `TypeOK`, `Confined`, `Unblocked` and `Granted` (a VM's
connection to the host is to the DNS port, or the flags allowed it when it was opened):
the last packet judged passed if and only if the flags allow it, or it is one more of an
answered connection to the host that they allowed when it was opened (`GoesOn`). What
carries the proof is not the induction but the lemma `RulesMeanFlags`: for every packet
of a managed VM, from or to a host, a neighbour, another group, the private LAN or the
internet, first or later of its connection, rewritten or not, with br_netfilter or
without, the first rule that matches of the chains it goes through has the verdict of
its flags. `FirstMatch` says what a chain with a given first match does, and there is
one lemma per chain. The assumption on addresses (`AddrAssumption`) is that no VM is a
host, the LAN or the internet, and no group has the name of one of these.

*SubnetAlloc.* The assumptions are that the range is one of natural numbers that is
not empty, that foreign routes are counted within it, and that None is neither an
invocation, a number nor a network. `IInv` is the conjunction of

* `TypeOK`, which includes that whoever works on the host holds the lock;
* `HoldersWork`: the holder is at a step under the lock, and a CLI walk is one;
* `PassedIsTaken`: what a walk under the lock has passed, and what it was told is in
  use, is in use. Only holders define or remove networks and foreign routes do not
  go away in the model, so the steps of others keep it; `GivesUpWhenFull` is its
  last case;
* `PickIsFree`: without failing queries, the subnet a CLI create has picked is in no
  network until it defines its own;
* `PickIsRecorded` and `DomainHasNetwork`: what a create installs is recorded, empty only
  between the two steps of the second save or after its end there, and a destroy removes
  the domain before the network;
* `OneNetworkPerSubnet` and `RecordInEffect`.

That two networks on one subnet never both run, which is all that is left for
services, follows from `Start` alone; that they are never even defined without a
service needs `PickIsFree`, and so the lock around the whole walk.

*Snapshot.* `Base` is `TypeOK` with what can be at which step (`LabelsFit`), what it
then has in memory (`Memory`) and that a disk is made with a key (`Keyed`). On it rest
five invariants, one per question; each has a step lemma (`...Step`), and the lemmas
`SnapEffect`, `VmEffect`, `CopyEffect`, `RecordEffect` and `DiskEffect` say once what any
step can do to a file, so that the step lemmas need not go through the actions.

* `NewPoint`: a create works in a directory that no listed snapshot has. With it
  `Unchanged` proves `ListedUnchanged`.
* `DataInv`, for `SourceKept`: as long as nothing has been removed, there is a listed
  snapshot with a whole disk (`Found`), or none is listed yet, no restore has begun, and
  the VM has its disk (`Pristine`). What is on record has a directory, and what a create
  is copying is there.
* `KeyInv`, for `KeysFit`: there is one key at a time. Every disk was built with the
  present one, no disk is left when there is none, and a destroy that has come to the VM
  has removed every snapshot, one that has come to the key every disk.
* `ServiceInv` and `Copied`, for `RestoresComplete`: a record names every file of its
  snapshot, and so does what a restore has read of it; the parts that a restore has
  passed are, in their order, what the snapshot has or had.
* `PointInv`, for `Refines`: no data is newer than the last write; the guest is off and
  the disk it will go on with is the one copied while a create is past its disk; a
  restore that is copying the disk has removed the old one.

`Refines` shows that every step is one of `RestorePoints` or a stutter. The lemma
`Mapped` lists the shapes a step of the two mapped variables may have, `KeptFrom` and
`KeptStill` say when a snapshot begins and goes on being a restore point, and
`AttemptMaps` divides the steps: a create takes its point when it has its last part (or,
if the snapshot was listed without a disk, when its disk arrives), a restore returns to
one when the disk does, and everything else drops points or loses the VM's data. It
needs no hypothesis, nor do `SourceKept`, `Restarted` (whose property exempts Ctrl-C in
the stop wait) and `KeysFit`. `Unchanged` and `RestoresComplete` assume `OwnIds`: an id
is the CLI's or the services', and no service gives one twice. The code leaves that to
the services (`payload["snapshot_id"]`, snapshot_service.py:70); a service that does
give one twice is in the table above, and a restore could then have read the record of
another snapshot than it copies.

The proof attempts corrected the model and two properties. A delete may remove the
directory under a create, which then fails at an image and goes on at any other file; a
guest may be built with what an interrupted restore left of the key pair, and has no key
then (`KeyFits`); and the CLI cannot find the place of the local artifacts when the
snapshot's state file is torn (`RestoreComplete`).

*DataLayout.* The assumptions are that the layout is a finite tree (`LayoutAssumption`),
that the roots are what lies in no folder, each once, and the record a file in its folder
(`RootsAssumption`), and that what is there at first is there with its folders
(`StartAssumption`). The work of a process is a stack, so that what carries the proof is
what the items of a stack say of each other and of the disk. `IInv` is the conjunction of

* `TypeOK` and `Work`: which commands have work left, and who has the lock;
* `Closed`: nothing lies in a folder that is not there, in either layout;
* `Placed`: what each item takes for granted (`ItemOK`), that an item on the stack has
  nothing in common with later ones (`Before`), and that every copy has its removal after it;
* `Renaming`: a rename whose source is still there has no target, although the look at the
  target was a step before. Nobody but a save can create that target, and a save has a
  migration behind it (`InSight`), so that the source is gone or the target there already;
* `Undisturbed`: the items of a command that nobody runs beside are as it put them
  (`Sound`); of a removal it says that what it will remove is at the data root or about to
  be copied there, for as long as copies are ahead of it on the stack;
* `InSight`: what a migration that goes on has not yet moved lies below one of its items,
  or is at the data root. With the lock this includes the record, as nobody else removes it;
* `Kept`: the contents of old files, for `NothingLost`;
* `OneRecord`: a record that is in both layouts is about to be removed from the old one.

`Kinds` reduces the actions to sixteen kinds of steps with what each does to the disk
and to the stack (`Visits`, `Lists`, `Hauls`, `Renames`, `Copies`, ...), and each
conjunct has its lemma (`...Kept`), with one step per kind. `Renaming` and `InSight`
need each other. From them follow the six theorems, among them the action property
`NothingOverwritten`. Like the properties they speak of any number of commands that
rename and of commands that copy one at a time (`Orderly`); why that is needed shows
`MCDataLayout_torn` with `NotBuried`. To be reasoned about, the model says of children
and of the layout what it took from the instance before: `Children` is now defined by
the folders a node lies in.

Only model-checked: what is temporal under fairness (`EveryAttemptEnds`,
`OperationsEnd`, `ReconcilesEnd`), which is out of the prover's reach. Every invariant and
every action property of the passing runs has its theorem, under the hypotheses given
above.

## 5. Not modelled

* Bridged networks: no reconciler work and no managed rules; their create is the
  group create without networks.
* Records handed in by a service caller (`reconcile_payload`, `vm_records`) and
  `persist_state=False`; planned, see below.
* In `SubnetAlloc`: the same steps inside a clone; a snapshot restore that takes a
  network down and defines it again on the recorded subnet; nat-custom, whose
  subnet the user gives; a virsh undefine or net-undefine that
  fails silently (virsh undefine does in `VmLifecycle`); routes that go away;
  a foreign route wider than a /24, whose text `pick_free_subnet` does not match.
* In `Snapshot`: networks, rules and host services (a step that works on one may
  raise); the unchecked commands of `cleanup_vm_runtime_definition`, which are taken
  to succeed, and a rollback's `rmtree(ignore_errors=True)`, taken to remove
  everything. `RestoreKeepsSource` speaks of schedules without a removal (delete,
  destroy, a create that rolls back): with one the code loses the disk, as
  `MCSnapshot_delete_race` shows.
* The second copies of the service's snapshot functions in cli.py (1024-1105,
  1227-1324, 1337-1349), which nothing calls.
* In `DataLayout`: the record of the oldest layout (`.build/<vm>/state.yaml`), which
  save_vm_state never writes and nothing migrates; links; a file where the other
  layout has a folder; two
  writers of one file, whose bytes could mix. Its properties are stated for any
  number of commands that rename, and for commands that copy one at a time
  (`Orderly`): copies at the same time keep none of `NothingLost`,
  `NothingOverwritten`, `Migrated` and `ForgottenStays`.
* In `NftPolicy` a packet is judged by its addresses after translation, as the chains see
  it: that a VM's connection to the internet is rewritten to another VM, where the flags
  forbid it, and so rejected, does not violate `Unblocked`.
* Guest side (cloud-init templates), ssh-admin, printing, path resolution and
  validation: text and I/O without interleavings of their own.
* adapters.py, services.py, domain.py: a second surface over the same commands.
* Two reboots, two connections, and concurrent tcp and udp services on one port.

## 6. Plan

1. Clone and snapshot restore in `SubnetAlloc`, and its composition with `Reconcile`
   for the drift that the reconciler refuses (reconciler.py 1000).
2. Records from a service caller in `VmLifecycle`.
