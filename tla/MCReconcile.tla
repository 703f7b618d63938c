----------------------------- MODULE MCReconcile -----------------------------
\* v1 and v2 share the network n1, v3 has n2 to itself.
EXTENDS Reconcile

CONSTANTS r1, r2, v1, v2, v3, n1, n2, s1, s2

Two == {r1, r2}
Vms == {v1, v2, v3}
Nets == {n1, n2}
Shapes == {s1, s2}
MCNetOf == [v \in Vm |-> IF v = v3 THEN n2 ELSE n1]

Want(s, h1, h2) == [n \in Net |-> IF n = n1 THEN [shape |-> s, hosts |-> h1]
                                  ELSE [shape |-> s1, hosts |-> h2]]

\* Two VMs on one network, v3 and n2 out of the picture.
PairNets == {n1}
PairVms == {v1, v2}
PairWants == {Want(s1, {v1}, {}), Want(s1, {v1, v2}, {}), Want(s2, {v1}, {})}

MCWants == {Want(s1, {v1}, {v3}), Want(s1, {v1, v2}, {}), Want(s2, {v1}, {v3})}
=============================================================================
