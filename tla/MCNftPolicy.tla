----------------------------- MODULE MCNftPolicy -----------------------------
\* a and b share a group, c is in another; a has every combination of flags, port 1
\* is the gateway's service, 2 the one a and c forward, to 3.
EXTENDS NftPolicy

CONSTANTS a, b, c, g1, g2

MCVm == {a, b, c}
MCGroup == {g1, g2}
MCGroupOf == [v \in Vm |-> IF v = c THEN g2 ELSE g1]
MCRank == [v \in Vm |-> CASE v = a -> 1 [] v = b -> 2 [] v = c -> 3]
MCPort == 1..3

Open4(fwd) == [live |-> TRUE, same |-> TRUE, host |-> TRUE, lan |-> TRUE, inet |-> TRUE,
               fwd |-> fwd]
Closed(fwd) == [live |-> TRUE, same |-> FALSE, host |-> FALSE, lan |-> FALSE, inet |-> FALSE,
                fwd |-> fwd]
Gone == [Closed({}) EXCEPT !.live = FALSE]

MCChoices ==
    [v \in Vm |->
       CASE v = a -> [live : {TRUE}, same : BOOLEAN, host : BOOLEAN, lan : BOOLEAN,
                      inet : BOOLEAN, fwd : {{}, {<<2, 3>>}}]
         [] v = b -> {Open4({}), Closed({}), Gone}
         [] v = c -> {Open4({<<2, 3>>}), Closed({<<2, 2>>}), Gone}]

\* The default record of an untrusted VM, with a port forwarded and without.
Untrusted(fwd) == [Open4(fwd) EXCEPT !.lan = FALSE]
DefaultChoices == [v \in Vm |-> {Untrusted({}), Untrusted({<<2, 3>>})}]

\* The host access of each VM is withdrawn and given again.
HostChoices == [v \in Vm |-> {Untrusted({}), [Untrusted({}) EXCEPT !.host = FALSE]}]
=============================================================================
