---------------------------- MODULE RestorePoints ----------------------------
(***************************************************************************)
(* What snapshots promise.  A VM has data, which its guest keeps changing; *)
(* a restore point is the data as it was at one moment.  Points are taken  *)
(* of the data there is, never change, and may be dropped; the data may be *)
(* lost and brought back, but only to a point, never to a mixture.         *)
(***************************************************************************)
CONSTANTS Id,      \* names of restore points
          Data,    \* what a disk may hold
          Nothing  \* no data

VARIABLES now,     \* the VM's data
          point    \* the data of each restore point

vars == <<now, point>>

Some == Data \cup {Nothing}

Init == now \in Some /\ point \in [Id -> Some]

\* The guest writes, or the VM is built: data that no restore point holds.
Work == /\ now' \in Data \ ({now} \cup {point[i] : i \in Id})
        /\ UNCHANGED point

Take(i) == /\ point[i] = Nothing /\ now # Nothing
           /\ point' = [point EXCEPT ![i] = now]
           /\ UNCHANGED now

Drop(I) == /\ point' = [i \in Id |-> IF i \in I THEN Nothing ELSE point[i]]
           /\ UNCHANGED now

Lose == now' = Nothing /\ UNCHANGED point

Return(i) == /\ now = Nothing /\ point[i] # Nothing
             /\ now' = point[i]
             /\ UNCHANGED point

Next == \/ Work \/ Lose
        \/ \E i \in Id : Take(i) \/ Return(i)
        \/ \E I \in SUBSET Id : Drop(I)

Spec == Init /\ [][Next]_vars
=============================================================================
