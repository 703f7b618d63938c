----------------------------- MODULE SubnetAlloc -----------------------------
(***************************************************************************)
(* How VMs with `mode: nat-auto` come by their subnets.  A create walks the*)
(* range of third octets and takes the first whose prefix is neither in the*)
(* host's routes nor in a libvirt network, records it, and defines and     *)
(* starts the VM's network; a destroy removes the network it discovers.    *)
(* `vmctl create` walks under the lifecycle lock, a service before it asks *)
(* for the lock.  Commands that touch no network may raise where they run; *)
(* that unchecked ones may fail silently is left to VmLifecycle.           *)
(***************************************************************************)
EXTENDS Naturals

CONSTANTS Attempt,      \* invocations of create or destroy
          Vm,           \* VMs, all of them nat-auto; each names its own network
          First, Last,  \* the third octets pick_free_subnet walks
          Foreign,      \* subnets that routes of other interfaces may name
          None,         \* no lock holder, subnet or network
          Torn,         \* a state file that has been opened and not written
          Tasking,      \* what each invocation may be asked to do
          Faults        \* the faults that may strike

Subnets == First .. Last
Ops == {"create", "destroy"}

ASSUME RangeAssumption == /\ First \in Nat /\ Last \in Nat /\ First <= Last
                          /\ Foreign \subseteq Subnets
ASSUME NoneAssumption == /\ None \notin Attempt \cup Nat \cup [sub : Nat, up : BOOLEAN]
                         /\ Torn \notin Nat \cup {None}
ASSUME ChoiceAssumption ==
    /\ Tasking \subseteq [Attempt -> [op : Ops, vm : Vm, svc : BOOLEAN]]
    /\ Faults \subseteq {"raise", "crash", "query"}

VARIABLES
  task,    \* the invocation each attempt carries out
  pc,      \* the next step of each attempt
  octet,   \* the third octet a create looks at, and in the end picks
  seen,    \* what a create or destroy was told is in use
  lock,    \* the attempt that holds the lifecycle lock
  lan,     \* those that such a route names
  net,     \* the libvirt network of each VM
  domain,  \* the VMs in libvirt
  rec,     \* the subnet in each VM's state file
  again    \* history: VMs that a create was run on while their network stood

vars == <<task, pc, octet, seen, lock, lan, net, domain, rec, again>>
walk == <<octet, seen>>
host == <<lan, net, domain, rec, again>>

Network == [sub : Subnets, up : BOOLEAN]
Ended == {"refused", "done", "failed", "full", "crashed"}
Making == {"save", "write", "define", "start", "install", "apply", "rewrite"}
Removing == {"look", "undefine", "down", "drop", "forget"}
Walking == {"routes", "networks"}
PCs == Making \cup Removing \cup Walking \cup Ended \cup {"lock", "unlock", "unwind"}

Own(a) == task[a].vm
Svc(a) == task[a].svc
Defined == {v \in Vm : net[v] # None}
Up == {v \in Defined : net[v].up}
SubnetsOf(V) == {net[v].sub : v \in V}

Init ==
    /\ task \in Tasking
    /\ pc = [a \in Attempt |-> IF task[a].op = "create" /\ Svc(a) THEN "routes" ELSE "lock"]
    /\ octet = [a \in Attempt |-> First]
    /\ seen = [a \in Attempt |-> {}]
    /\ lock = None
    /\ lan \in SUBSET Foreign
    /\ net = [v \in Vm |-> None]
    /\ domain = {}
    /\ rec = [v \in Vm |-> None]
    /\ again = {}
-----------------------------------------------------------------------------
\* A query that fails prints nothing, and nothing is what is taken to be in use.
Answers(S) == {S} \cup IF "query" \in Faults THEN {{}} ELSE {}
Routes == lan \cup SubnetsOf(Up)
ListedActive == SubnetsOf(Up)  \* mutant: net-list without --all
Listed == SubnetsOf(Defined)

\* range(100, 251) ends at 250.
EndsEarly(a) == octet[a] >= Last - 1  \* mutant: off by one
AtEnd(a) == octet[a] = Last

Goto(a, l) == pc' = [pc EXCEPT ![a] = l]

\* The memory of a process ends with it, and its lock.
Leave(a, l) == /\ Goto(a, l)
               /\ lock' = IF lock = a THEN None ELSE lock
               /\ octet' = [octet EXCEPT ![a] = First]
               /\ seen' = [seen EXCEPT ![a] = {}]

\* The lock does not wait.
Unguarded == TRUE  \* mutant: the lock refuses nobody
LockFree == lock = None
Lock(a) ==
    /\ pc[a] = "lock"
    /\ IF LockFree
       THEN /\ lock' = a
            /\ Goto(a, IF task[a].op = "destroy" THEN "look"
                       ELSE IF Svc(a) THEN "save" ELSE "routes")
            /\ UNCHANGED walk
       ELSE Leave(a, "refused")
    /\ UNCHANGED <<task, host>>

\* pick_free_subnet asks for the routes and for every network anew at each octet.
ReadRoutes(a) ==
    /\ pc[a] = "routes"
    /\ \E s \in Answers(Routes) : seen' = [seen EXCEPT ![a] = s]
    /\ Goto(a, "networks")
    /\ UNCHANGED <<task, octet, lock, host>>

Found(a) == /\ Goto(a, IF Svc(a) THEN "lock" ELSE "save")
            /\ seen' = [seen EXCEPT ![a] = {}]
            /\ UNCHANGED <<octet, lock>>
NextOctet(a) == /\ octet' = [octet EXCEPT ![a] = @ + 1]
                /\ seen' = [seen EXCEPT ![a] = {}]
                /\ Goto(a, "routes")
                /\ UNCHANGED lock

ReadNetworks(a) ==
    /\ pc[a] = "networks"
    /\ \E s \in Answers(Listed) :
         CASE octet[a] \notin seen[a] \cup s -> Found(a)
           [] octet[a] \in seen[a] \cup s /\ AtEnd(a) -> Leave(a, "full")
           [] octet[a] \in seen[a] \cup s /\ ~AtEnd(a) -> NextOctet(a)
    /\ UNCHANGED <<task, host>>
-----------------------------------------------------------------------------
Step(a, from, to) == /\ pc[a] = from
                     /\ Goto(a, to)
                     /\ UNCHANGED <<task, walk, lock, lan>>

\* save_vm_state opens the file for writing, which empties it, and then dumps the state.
Empties(a) == rec' = [rec EXCEPT ![Own(a)] = Torn]
Record(a) == rec' = [rec EXCEPT ![Own(a)] = octet[a]]

\* The first time before anything is made.
Save(a) == /\ Step(a, "save", "write")
           /\ Empties(a)
           /\ again' = again \cup ({Own(a)} \cap Defined)
           /\ UNCHANGED <<net, domain>>

Write(a) == /\ Step(a, "write", "define")
            /\ Record(a)
            /\ UNCHANGED <<net, domain, again>>

\* A network of that name is kept as it is, whatever its subnet.
Define(a) == /\ Step(a, "define", "start")
             /\ net' = IF Own(a) \in Defined THEN net
                       ELSE [net EXCEPT ![Own(a)] = [sub |-> octet[a], up |-> FALSE]]
             /\ UNCHANGED <<domain, rec, again>>

\* libvirt starts no network whose subnet another interface has.
InUse(v) == lan \cup SubnetsOf(Up \ {v})
Start(a) == /\ LET v == Own(a) IN
               IF net[v] # None /\ (net[v].up \/ net[v].sub \notin InUse(v))
               THEN /\ Step(a, "start", "install")
                    /\ net' = [net EXCEPT ![v].up = TRUE]
               ELSE Step(a, "start", "unwind") /\ UNCHANGED net
            /\ UNCHANGED <<domain, rec, again>>

\* virt_install returns at once when the VM exists.
Install(a) == /\ Step(a, "install", "apply")
              /\ domain' = domain \cup {Own(a)}
              /\ UNCHANGED <<net, rec, again>>

\* apply_runtime_networking saves the state once more.
Apply(a) == /\ Step(a, "apply", "rewrite")
            /\ Empties(a)
            /\ UNCHANGED <<net, domain, again>>

Rewrite(a) == /\ Step(a, "rewrite", "unlock")
              /\ Record(a)
              /\ UNCHANGED <<net, domain, again>>
-----------------------------------------------------------------------------
\* merged_vm_network: the state file alone says nat-auto, which is not a mode
\* that has its network removed; a network that is discovered says nat.
Look(a) == /\ pc[a] = "look"
           /\ \E s \in Answers(SubnetsOf({Own(a)} \cap Defined)) :
                seen' = [seen EXCEPT ![a] = s]
           /\ Goto(a, "undefine")
           /\ UNCHANGED <<task, octet, lock, host>>

Undefine(a) == /\ Step(a, "undefine", IF seen[a] = {} THEN "forget" ELSE "down")
               /\ domain' = domain \ {Own(a)}
               /\ UNCHANGED <<net, rec, again>>

NetDestroy(a) == /\ Step(a, "down", "drop")
                 /\ net' = [net EXCEPT ![Own(a)] =
                              IF @ = None THEN None ELSE [@ EXCEPT !.up = FALSE]]
                 /\ UNCHANGED <<domain, rec, again>>

NetUndefine(a) == /\ Step(a, "drop", "forget")
                  /\ net' = [net EXCEPT ![Own(a)] = None]
                  /\ again' = again \ {Own(a)}
                  /\ UNCHANGED <<domain, rec>>

Forget(a) == /\ Step(a, "forget", "unlock")
             /\ rec' = [rec EXCEPT ![Own(a)] = None]
             /\ UNCHANGED <<net, domain, again>>

Unlock(a) == /\ pc[a] \in {"unlock", "unwind"}
             /\ Leave(a, IF pc[a] = "unlock" THEN "done" ELSE "failed")
             /\ UNCHANGED <<task, host>>
-----------------------------------------------------------------------------
\* A command of the step fails, or one before it; nothing is rolled back.
Raise(a) == /\ "raise" \in Faults
            /\ pc[a] \in Making \cup Removing
            /\ Goto(a, "unwind")
            /\ UNCHANGED <<task, walk, lock, host>>

Crash(a) == /\ "crash" \in Faults
            /\ pc[a] \notin Ended
            /\ Leave(a, "crashed")
            /\ UNCHANGED <<task, host>>

\* Another interface, a VPN say, gets a route.
RouteAppears == /\ \E s \in Foreign \ lan : lan' = lan \cup {s}
                /\ UNCHANGED <<task, pc, walk, lock, net, domain, rec, again>>

Create(a) == \/ Save(a) \/ Write(a) \/ Define(a) \/ Start(a) \/ Install(a)
             \/ Apply(a) \/ Rewrite(a)
Destroy(a) == \/ Look(a) \/ Undefine(a) \/ NetDestroy(a) \/ NetUndefine(a) \/ Forget(a)

Next == \/ \E a \in Attempt : \/ Lock(a) \/ Unlock(a)
                              \/ ReadRoutes(a) \/ ReadNetworks(a)
                              \/ Create(a) \/ Destroy(a)
                              \/ Raise(a) \/ Crash(a)
        \/ RouteAppears

Spec == Init /\ [][Next]_vars
-----------------------------------------------------------------------------
TypeOK ==
    /\ task \in Tasking
    /\ pc \in [Attempt -> PCs]
    /\ octet \in [Attempt -> Subnets]
    /\ seen \in [Attempt -> SUBSET Subnets]
    /\ lock \in Attempt \cup {None}
    /\ \A a \in Attempt : pc[a] \in Making \cup Removing => lock = a
    /\ lan \in SUBSET Foreign
    /\ net \in [Vm -> Network \cup {None}]
    /\ domain \subseteq Vm
    /\ rec \in [Vm -> Subnets \cup {None, Torn}]
    /\ again \subseteq Vm

\* "Pick an unused 192.168.X.0/24 subnet" (pick_free_subnet): whatever fails or
\* dies between its queries and the start of the network, a CLI create never
\* defines one on the subnet of another VM; a service, which picks before it
\* locks, may, and then libvirt refuses to start the second.
OneNetworkPerSubnet ==
    "query" \notin Faults =>
        \A v, w \in Defined :
            v # w /\ net[v].sub = net[w].sub =>
                /\ {v, w} \cap Up # {v, w}
                /\ \E a \in Attempt : Svc(a) /\ Own(a) \in {v, w}

\* A create of v is saving the state of the installed VM, or failed or was killed.
CutShort(v) == \E a \in Attempt :
    /\ Own(a) = v /\ task[a].op = "create"
    /\ pc[a] \in {"rewrite", "unwind", "failed", "crashed"}

\* "Build the effective network settings for a VM" (build_network_config): a VM has
\* the network its state file describes, which is the one the nftables rules are
\* rendered for, unless a create was run while that network stood; and the file of an
\* installed VM is empty only while apply_runtime_networking rewrites it, or after a
\* create that was killed or failed.
RecordInEffect ==
    \A v \in domain \ again :
        /\ v \in Defined
        /\ rec[v] = net[v].sub \/ (rec[v] = Torn /\ CutShort(v))

\* pick_free_subnet gives up ("Could not find free 192.168.X.0/24 subnet") only when
\* every subnet of the range, the last included, is taken at that moment.  Under
\* the lock; the walk of a service may meet each one in somebody's brief use.
FullOnlyWhenTaken ==
    [][\A a \in Attempt : pc'[a] # pc[a] /\ pc'[a] = "full" /\ lock = a
                           => Subnets \subseteq lan \cup Listed]_vars

\* No two VMs' networks on one subnet, whoever creates and whatever fails: the code
\* does not keep it (README, section 3).
SubnetsApart == \A v, w \in Defined : v # w => net[v].sub # net[w].sub

\* A VM that nobody works on has the network its state file describes, also after
\* a create was run on it again: the code does not keep it (README, section 3).
RecordAlwaysInEffect ==
    \A v \in domain : (\A a \in Attempt : Own(a) = v => lock # a)
                        => v \in Defined /\ rec[v] = net[v].sub
=============================================================================
