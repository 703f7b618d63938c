---------------------------- MODULE MCSubnetAlloc ----------------------------
(* Instances of SubnetAlloc for TLC: two VMs that share a range of three. *)
EXTENDS SubnetAlloc, TLC

CONSTANTS a1, a2, a3, v1, v2

Three == {a1, a2, a3}
Vms == {v1, v2}
Symmetry == Permutations(Attempt) \cup Permutations(Vm)

Do(op, svc) == [op : {op}, vm : Vm, svc : {svc}]

\* What the attempts do: destroys are alike in the CLI and in a service.
AnyTasks == [Attempt -> Do("create", FALSE) \cup Do("create", TRUE) \cup Do("destroy", FALSE)]
CliCreates == [Attempt -> Do("create", FALSE)]
ServiceCreates == [Attempt -> Do("create", TRUE)]
=============================================================================
