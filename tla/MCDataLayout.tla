----------------------------- MODULE MCDataLayout -----------------------------
\* vmctl.yaml, and vm/state with the records of two VMs.
EXTENDS DataLayout

CONSTANTS p1, p2, vmctl, vm, state, a, b

Two == {p1, p2}
Nodes == {vmctl, vm, state, a, b}
Folders == {vm, state}
MCAbove == [n \in Nodes |-> IF n \in {vmctl, vm} THEN {} ELSE IF n = state THEN {vm} ELSE {vm, state}]
MCRoots == <<vmctl, vm>>

\* All of the old layout or the record alone; a data root that is new, has the
\* folders, or has records of its own, which may be the same VM's.
MCTrees ==
    [old : {Nodes, {vm, state, a}},
     new : {{}, {vm}, {vm, state}, {vm, state, b}, {vmctl, vm, state, a}}]

\* Both layouts know the VM only in the runs that ask for that.
Apart == {t \in MCTrees : a \notin t.new}

Looks == {[p \in Two |-> "look"]}
AnyTasks == [Two -> Task]
=============================================================================
