------------------------------- MODULE NftPolicy -------------------------------
(***************************************************************************)
(* What the managed nftables tables (reconciler.build_nftables_plan, as    *)
(* rendered by managed_nftables.render_ruleset) do to the packets of a     *)
(* connection while reconciles replace the tables under it.                *)
(*                                                                         *)
(* The plan has three chains that judge: bridge forward for frames between *)
(* VMs of one bridge, forward for what is routed, input for what is meant  *)
(* for the host; the first rule that matches decides and a packet no rule  *)
(* matches is accepted.  Prerouting rewrites the destination of a new      *)
(* connection to a forwarded port; conntrack remembers that, who opened    *)
(* it and whether it was answered, across a replacement of the tables.     *)
(* Where br_netfilter is loaded, as apply_ruleset tries to, the frames a   *)
(* bridge switches meet prerouting and forward as well.                    *)
(*                                                                         *)
(* An address is a VM, a group's gateway (the group itself), the host's    *)
(* own address, a host of the private LAN or one of the internet.  Every   *)
(* group's subnet is private, as the subnets the program picks are.        *)
(***************************************************************************)
EXTENDS Naturals, Sequences

CONSTANTS Vm, Group,
          GroupOf,    \* GroupOf[v]: the network group of v
          Rank,       \* Rank[v]: the place of v by group id and name
          Port, Dns,  \* port numbers; the gateway's service ports among them
          Choices,    \* Choices[v]: the records v may have
          None        \* no connection, no packet

Flags == [live : BOOLEAN, same : BOOLEAN, host : BOOLEAN, lan : BOOLEAN, inet : BOOLEAN,
          fwd : SUBSET (Port \X Port)]

ASSUME GroupAssumption == GroupOf \in [Vm -> Group]
ASSUME RankAssumption == /\ Rank \in [Vm -> Nat]
                         /\ \A v, w \in Vm : Rank[v] = Rank[w] => v = w
ASSUME PortAssumption == Port \subseteq Nat /\ Dns \subseteq Port
ASSUME ChoicesAssumption == \A v \in Vm : Choices[v] \subseteq Flags

VARIABLES pol,    \* pol[v]: the record of v the tables were rendered from
          brnf,   \* br_netfilter is loaded
          conn,   \* the connection conntrack knows
          pkt,    \* the last packet
          passed  \* what became of it

vars == <<pol, brnf, conn, pkt, passed>>

Host == Group \cup {"host"}
Addr == Vm \cup Host \cup {"lan", "net"}
Private == Addr \ {"net"}
Subnet(g) == {g} \cup {v \in Vm : GroupOf[v] = g}

\* granted: history, the flags let the client address the host when it opened it.
Conn == [client : Addr, server : Addr, port : Port, dnat : BOOLEAN,
         answered : BOOLEAN, granted : BOOLEAN]
\* Port 0 stands for the client's, which no rule looks at.
Packet == [src : Addr, dst : Addr, sport : Port \cup {0}, dport : Port \cup {0},
           est : BOOLEAN, dnat : BOOLEAN]

ASSUME NoneAssumption == None \notin Conn \cup Packet
ASSUME AddrAssumption == /\ Vm \cap (Host \cup {"lan", "net"}) = {}
                         /\ Group \cap {"host", "lan", "net"} = {}

Init ==
    /\ pol \in [Vm -> UNION {Choices[v] : v \in Vm}]
    /\ \A v \in Vm : pol[v] \in Choices[v]
    /\ brnf \in BOOLEAN
    /\ conn = None
    /\ pkt = None
    /\ passed = FALSE
-----------------------------------------------------------------------------
(* The plan.  A rule is a condition on the packet at hand and a verdict. *)

Rule(when, verdict) == [when |-> when, verdict |-> verdict]

\* The first rule that matches decides; the chains' policy is accept.
Accepted(chain) ==
    LET hits == {i \in DOMAIN chain : chain[i].when}
    IN  hits = {} \/ chain[CHOOSE i \in hits : \A j \in hits : i <= j].verdict = "accept"

\* The sets of a group's rules: its live VMs, by their flags.
Members(g) == {v \in Vm : GroupOf[v] = g /\ pol[v].live}
HostAllow(g) == {v \in Members(g) : pol[v].host}
SameAllow(g) == {v \in Members(g) : pol[v].same}
LanAllow(g) == {v \in Members(g) : pol[v].lan}
InetReject(g) == {v \in Members(g) : ~pol[v].inet}
CrossGroup(g) == UNION {Subnet(o) : o \in Group \ {g}}

\* The guest services the forwarded ports lead to.
Services == {s \in Vm \X Port : pol[s[1]].live /\ \E f \in pol[s[1]].fwd : f[2] = s[2]}

\* Wrong: the host's own connections are forgotten.
InputRulesDeaf(g, p) ==
    << Rule(p.src \in Members(g) /\ p.dst = g /\ p.dport \in Dns, "accept"),
       Rule(p.src \in Members(g) \ HostAllow(g), "reject"),
       Rule(p.src \in HostAllow(g), "accept") >>

InputRules(g, p) ==
    << Rule(p.src \in Members(g) /\ p.dst = g /\ p.dport \in Dns, "accept"),
       Rule(p.src \in Members(g) \ HostAllow(g) /\ p.est, "accept"),
       Rule(p.src \in Members(g) \ HostAllow(g), "reject"),
       Rule(p.src \in HostAllow(g), "accept") >>

BridgeRules(g, p) ==
    << Rule(p.src \in SameAllow(g) /\ p.dst \in Subnet(g), "accept"),
       Rule(p.src \in Members(g) \ SameAllow(g) /\ p.dst \in Subnet(g), "reject") >>

\* Wrong: private addresses are sorted out before the other groups'.
GroupRulesLanFirst(g, p) ==
    << Rule(p.src \in HostAllow(g) /\ p.dst = g, "accept"),
       Rule(p.src \in SameAllow(g) /\ p.dst \in Subnet(g), "accept"),
       Rule(p.src \in Members(g) \ SameAllow(g) /\ p.dst \in Subnet(g), "reject"),
       Rule(p.src \in LanAllow(g) /\ p.dst \in Private, "accept"),
       Rule(p.src \in Members(g) \ LanAllow(g) /\ p.dst \in Private, "reject"),
       Rule(p.src \in Members(g) /\ p.dst \in CrossGroup(g), "reject"),
       Rule(p.src \in InetReject(g), "reject") >>

GroupRules(g, p) ==
    << Rule(p.src \in HostAllow(g) /\ p.dst = g, "accept"),
       Rule(p.src \in SameAllow(g) /\ p.dst \in Subnet(g), "accept"),
       Rule(p.src \in Members(g) \ SameAllow(g) /\ p.dst \in Subnet(g), "reject"),
       Rule(p.src \in Members(g) /\ p.dst \in CrossGroup(g), "reject"),
       Rule(p.src \in LanAllow(g) /\ p.dst \in Private, "accept"),
       Rule(p.src \in Members(g) \ LanAllow(g) /\ p.dst \in Private, "reject"),
       Rule(p.src \in InetReject(g), "reject") >>

ServiceRules(p) ==
    << Rule(p.dnat /\ <<p.dst, p.dport>> \in Services, "accept"),
       Rule(p.dnat /\ <<p.src, p.sport>> \in Services, "accept") >>

\* A group's rules name its bridge as the input interface, so a packet only meets
\* those of the bridge it comes in by.  Between VMs of a bridge a packet is switched,
\* or, once it is translated, routed; with br_netfilter it is treated as both.
Judged(p) ==
    LET g == GroupOf[p.src]
    IN  IF p.src \in Host THEN TRUE          \* output: the tables have no such chain
        ELSE IF p.src \notin Vm
        THEN p.dst \in Host \/ Accepted(ServiceRules(p))
        ELSE IF p.dst \in Host THEN Accepted(InputRules(g, p))
        ELSE IF p.dst \in Vm /\ GroupOf[p.dst] = g
        THEN /\ ~p.dnat \/ brnf => Accepted(BridgeRules(g, p))
             /\ p.dnat \/ brnf => Accepted(GroupRules(g, p) \o ServiceRules(p))
        ELSE Accepted(GroupRules(g, p) \o ServiceRules(p))
-----------------------------------------------------------------------------
(* Prerouting: the first rule for a port wins; rules are sorted by VM, then by
   guest port, and match whatever the packet is addressed to. *)
Forwards(port) == {s \in Vm \X Port : pol[s[1]].live /\ <<port, s[2]>> \in pol[s[1]].fwd}

Translate(dst, port) ==
    IF Forwards(port) = {} THEN [dst |-> dst, port |-> port, dnat |-> FALSE]
    ELSE LET s == CHOOSE s \in Forwards(port) : \A o \in Forwards(port) :
                     Rank[s[1]] < Rank[o[1]] \/ (s[1] = o[1] /\ s[2] <= o[2])
         IN  [dst |-> s[1], port |-> s[2], dnat |-> TRUE]

\* Prerouting does not see what the host sends, nor what a bridge switches but with
\* br_netfilter.
Hooked(c, d) == /\ c \notin Host
                /\ c \in Vm /\ d \in Vm /\ GroupOf[c] = GroupOf[d] => brnf

Prerouted(c, d, port) == IF Hooked(c, d) THEN Translate(d, port)
                         ELSE [dst |-> d, port |-> port, dnat |-> FALSE]

Send(s, d, sp, dp, est, dnat) ==
    /\ pkt' = [src |-> s, dst |-> d, sport |-> sp, dport |-> dp, est |-> est, dnat |-> dnat]
    /\ passed' = Judged(pkt')

\* Who may address whom: a VM anybody, the host its VMs, outsiders the host.
Targets(c) == CASE c \in Vm -> Addr \ {c}
                [] c = "host" -> Vm
                [] c \in {"lan", "net"} -> {"host"}
                [] OTHER -> {}

\* The flags let v address the host, or the tables do not know v.
MayAddressHost(v) == v \in Vm /\ pol[v].live => pol[v].host

\* The first packet of a connection.  One that is sent back into the client's own
\* bridge gets no answer it would recognise, unless br_netfilter translates it back,
\* and is not followed up.
Open ==
    /\ conn = None
    /\ \E c \in Addr : \E d \in Targets(c) : \E port \in Port :
         LET t == Prerouted(c, d, port)
         IN  /\ Send(c, t.dst, 0, t.port, FALSE, t.dnat)
             /\ conn' = IF passed' /\ (t.dnat => Hooked(c, t.dst))
                        THEN [client |-> c, server |-> t.dst, port |-> t.port,
                              dnat |-> t.dnat, answered |-> FALSE,
                              granted |-> MayAddressHost(c)]
                        ELSE None
    /\ UNCHANGED <<pol, brnf>>

\* The server answers; conntrack sees that before a chain judges it.
Reply ==
    /\ conn # None
    /\ Send(conn.server, conn.client, conn.port, 0, TRUE, conn.dnat)
    /\ conn' = [conn EXCEPT !.answered = TRUE]
    /\ UNCHANGED <<pol, brnf>>

\* The client goes on, or tries once more what nobody has answered.
Continue ==
    /\ conn # None
    /\ Send(conn.client, conn.server, 0, conn.port, conn.answered, conn.dnat)
    /\ UNCHANGED <<pol, brnf, conn>>

Close ==
    /\ conn # None
    /\ conn' = None
    /\ pkt' = None /\ passed' = FALSE
    /\ UNCHANGED <<pol, brnf>>

\* A reconcile replaces the tables for a record that has changed, after it has tried
\* to load br_netfilter.
Reconcile ==
    /\ \E v \in Vm : \E f \in Choices[v] \ {pol[v]} : pol' = [pol EXCEPT ![v] = f]
    /\ brnf' \in {brnf, TRUE}
    /\ pkt' = None /\ passed' = FALSE
    /\ UNCHANGED conn

Next == Open \/ Reply \/ Continue \/ Close \/ Reconcile

Spec == Init /\ [][Next]_vars
-----------------------------------------------------------------------------
(* Type correctness; conntrack only ever translates to a VM. *)
TypeOK ==
    /\ DOMAIN pol = Vm /\ \A v \in Vm : pol[v] \in Choices[v]
    /\ brnf \in BOOLEAN
    /\ conn # None => conn \in Conn /\ (conn.dnat => conn.server \in Vm)
    /\ pkt \in Packet \cup {None}
    /\ passed \in BOOLEAN

\* What the flags of its record let a VM send, said once and without an order.  The
\* host may always open a connection to a VM, which then answers it.
Answer(p) == p.est /\ p.dport = 0
Allowed(p) ==
    LET f == pol[p.src]
        g == GroupOf[p.src]
    IN  CASE p.dst \in Vm -> GroupOf[p.dst] = g /\ f.same
          [] p.dst \in Host -> f.host \/ Answer(p) \/ (p.dst = g /\ p.dport \in Dns)
          [] p.dst = "lan" -> f.lan
          [] p.dst = "net" -> f.inet

\* A packet of a VM the tables know.
Managed(p) == p # None /\ p.src \in Vm /\ pol[p.src].live

\* The VM goes on with a connection to the host that its flags allowed when it was
\* opened and that the host has answered.
GoesOn(p) == p.est /\ p.dst \in Host /\ p.sport = 0 /\ conn # None /\ conn.granted

(* A VM with a record sends nothing its flags forbid: not as a first packet, not as
   an answer, not through a forwarded port, and on a connection opened under other
   flags only if that leads to the host, was allowed when it was opened and has been
   answered (the per-group rules of build_nftables_plan, their order, and the accept
   of what is established before the host reject). *)
Confined == Managed(pkt) /\ passed => Allowed(pkt) \/ GoesOn(pkt)

(* And what its flags allow is never rejected by a rule meant for something else. *)
Unblocked == Managed(pkt) /\ Allowed(pkt) => passed

(* What is accepted before the host reject is the host's own: "host reject (let host
   in)", the comment of that rule (reconciler.py).  The code does not keep it: a VM's
   own connection to the host outlives the flag that allowed it. *)
OnlyHostLetIn == Managed(pkt) /\ pkt.dst \in Host /\ passed => Allowed(pkt)

(* A service behind a forwarded port answers: as long as the port is published its
   return packets pass ("managed tcp port-forwards return", reconciler.py). *)
ReturnsPass ==
    Managed(pkt) /\ pkt.est /\ pkt.dnat /\ <<pkt.src, pkt.sport>> \in Services => passed
=============================================================================
