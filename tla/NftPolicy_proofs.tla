---------------------------- MODULE NftPolicy_proofs ----------------------------
(***************************************************************************)
(* Proofs about the managed tables for any VMs, groups, records and ports: *)
(* the ordered rules of a plan let a packet of a managed VM through exactly *)
(* if the flags of its record do.                                          *)
(***************************************************************************)
EXTENDS NftPolicy, TLAPS, WellFoundedInduction, SequenceTheorems

\* A VM whose connection to the host is up was granted it, or it leads to a service
\* of the gateway.
Granted == conn # None /\ conn.client \in Vm /\ conn.server \in Host =>
             conn.granted \/ (conn.server = GroupOf[conn.client] /\ conn.port \in Dns)

\* The last packet of a managed VM passed exactly if the flags allow it, or allowed
\* its connection to the host.
IInv == TypeOK /\ Granted /\ Confined /\ Unblocked
-----------------------------------------------------------------------------
(* Chains: the first rule that matches decides. *)
LEMMA FirstMatch ==
  ASSUME NEW chain, DOMAIN chain \subseteq Nat, NEW n \in DOMAIN chain, chain[n].when,
         \A j \in DOMAIN chain : j < n => ~chain[j].when
  PROVE  Accepted(chain) <=> chain[n].verdict = "accept"
<1>. DEFINE hits == {i \in DOMAIN chain : chain[i].when}
            first == CHOOSE i \in hits : \A j \in hits : i <= j
<1>1. n \in hits /\ \A j \in hits : n <= j
  OBVIOUS
<1>2. first \in hits /\ \A j \in hits : first <= j
  BY <1>1
<1>3. first = n
  BY <1>1, <1>2
<1>. QED
  BY <1>1, <1>3 DEF Accepted

(* What no rule matches is accepted. *)
LEMMA NoMatch ==
  ASSUME NEW chain, \A j \in DOMAIN chain : ~chain[j].when
  PROVE  Accepted(chain)
  BY DEF Accepted

(* A packet of a managed VM for the host's side meets the input rules. *)
LEMMA InputDecides ==
  ASSUME TypeOK, NEW p \in Packet, p.src \in Vm, pol[p.src].live
  PROVE  Accepted(InputRules(GroupOf[p.src], p)) <=>
           \/ pol[p.src].host \/ p.est
           \/ p.dst = GroupOf[p.src] /\ p.dport \in Dns
<1>. DEFINE g == GroupOf[p.src]
            chain == InputRules(g, p)
            dns == p.dst = g /\ p.dport \in Dns
            host == pol[p.src].host
<1>0. p.src \in Members(g) /\ (p.src \in HostAllow(g) <=> host)
  BY DEF Members, HostAllow
<1>1. DOMAIN chain = 1..4
  BY DEF InputRules
<1>2. (chain[1].when <=> dns) /\ chain[1].verdict = "accept"
  BY <1>0 DEF InputRules, Rule
<1>3. (chain[2].when <=> ~host /\ p.est) /\ chain[2].verdict = "accept"
  BY <1>0 DEF InputRules, Rule
<1>4. (chain[3].when <=> ~host) /\ chain[3].verdict = "reject"
  BY <1>0 DEF InputRules, Rule
<1>5. (chain[4].when <=> host) /\ chain[4].verdict = "accept"
  BY <1>0 DEF InputRules, Rule
<1>. HIDE DEF chain, dns, host
<1>6. Accepted(chain) <=> host \/ p.est \/ dns
  <2>1. CASE dns
    BY <1>1, <1>2, <2>1, FirstMatch
  <2>2. CASE ~dns /\ ~host /\ p.est
    BY <1>1, <1>2, <1>3, <2>2, FirstMatch
  <2>3. CASE ~dns /\ ~host /\ ~p.est
    BY <1>1, <1>2, <1>3, <1>4, <2>3, FirstMatch
  <2>4. CASE ~dns /\ host
    BY <1>1, <1>2, <1>3, <1>4, <1>5, <2>4, FirstMatch
  <2>. QED
    BY <2>1, <2>2, <2>3, <2>4
<1>. QED
  BY <1>6 DEF chain, dns, host

(* A packet a bridge switches to a VM of the group meets the bridge rules. *)
LEMMA BridgeDecides ==
  ASSUME TypeOK, NEW p \in Packet, p.src \in Vm, pol[p.src].live,
         p.dst \in Subnet(GroupOf[p.src])
  PROVE  Accepted(BridgeRules(GroupOf[p.src], p)) <=> pol[p.src].same
<1>. DEFINE g == GroupOf[p.src]
            chain == BridgeRules(g, p)
            same == pol[p.src].same
<1>0. p.src \in Members(g) /\ (p.src \in SameAllow(g) <=> same)
  BY DEF Members, SameAllow
<1>1. DOMAIN chain = 1..2
  BY DEF BridgeRules
<1>2. (chain[1].when <=> same) /\ chain[1].verdict = "accept"
  BY <1>0 DEF BridgeRules, Rule
<1>3. (chain[2].when <=> ~same) /\ chain[2].verdict = "reject"
  BY <1>0 DEF BridgeRules, Rule
<1>. HIDE DEF chain, same
<1>4. Accepted(chain) <=> same
  <2>1. CASE same
    BY <1>1, <1>2, <2>1, FirstMatch
  <2>2. CASE ~same
    BY <1>1, <1>2, <1>3, <2>2, FirstMatch
  <2>. QED
    BY <2>1, <2>2
<1>. QED
  BY <1>4 DEF chain, same

\* Seven rules of the group, then two of the services.
LEMMA NineRules ==
  ASSUME NEW a1, NEW a2, NEW a3, NEW a4, NEW a5, NEW a6, NEW a7, NEW b1, NEW b2
  PROVE  LET one == <<a1, a2, a3, a4, a5, a6, a7>>
             two == <<b1, b2>>
         IN  /\ DOMAIN (one \o two) = 1..9
             /\ \A i \in 1..7 : (one \o two)[i] = one[i]
             /\ \A i \in 8..9 : (one \o two)[i] = two[i - 7]
<1>. DEFINE R == {a1, a2, a3, a4, a5, a6, a7, b1, b2}
            one == <<a1, a2, a3, a4, a5, a6, a7>>
            two == <<b1, b2>>
            cat == one \o two
<1>1. one \in Seq(R) /\ Len(one) = 7
  OBVIOUS
<1>2. two \in Seq(R) /\ Len(two) = 2
  OBVIOUS
<1>. HIDE DEF one, two, R
<1>3. /\ one \o two \in Seq(R)
      /\ Len(one \o two) = Len(one) + Len(two)
      /\ \A i \in 1..(Len(one) + Len(two)) :
           (one \o two)[i] = IF i <= Len(one) THEN one[i] ELSE two[i - Len(one)]
  BY <1>1, <1>2, ConcatProperties, Zenon
<1>. HIDE DEF cat
<1>4. /\ DOMAIN cat = 1..9
      /\ \A i \in 1..9 : cat[i] = IF i <= 7 THEN one[i] ELSE two[i - 7]
  BY <1>1, <1>2, <1>3 DEF cat
<1>5. /\ DOMAIN cat = 1..9
      /\ \A i \in 1..7 : cat[i] = one[i]
      /\ \A i \in 8..9 : cat[i] = two[i - 7]
  BY <1>4
<1>. QED
  BY <1>5 DEF one, two, cat

(* What is routed meets the group's rules, in their order, and then the rules of the
   forwarded ports, which only accept. *)
LEMMA RouteDecides ==
  ASSUME TypeOK, NEW p \in Packet, p.src \in Vm, pol[p.src].live, p.dst \notin Host
  PROVE  Accepted(GroupRules(GroupOf[p.src], p) \o ServiceRules(p)) <=>
           CASE p.dst \in Vm -> GroupOf[p.dst] = GroupOf[p.src] /\ pol[p.src].same
             [] p.dst = "lan" -> pol[p.src].lan
             [] p.dst = "net" -> pol[p.src].inet
<1>. DEFINE g == GroupOf[p.src]
            one == GroupRules(g, p)
            two == ServiceRules(p)
            chain == one \o two
            near == p.dst \in Vm /\ GroupOf[p.dst] = g
            far == p.dst \in Vm /\ GroupOf[p.dst] # g
            same == pol[p.src].same
            lan == pol[p.src].lan
            inet == pol[p.src].inet
<1>0. /\ p.src \in Members(g)
      /\ p.src \in SameAllow(g) <=> same
      /\ p.src \in LanAllow(g) <=> lan
      /\ p.src \in InetReject(g) <=> ~inet
      /\ g \in Group
  BY GroupAssumption DEF Members, SameAllow, LanAllow, InetReject
<1>1. /\ p.dst \in Subnet(g) <=> near
      /\ p.dst \in CrossGroup(g) <=> far
      /\ p.dst \in Private <=> p.dst # "net"
      /\ p.dst # g
      /\ p.dst \in Vm \cup {"lan", "net"}
      /\ p.dst \in Vm => p.dst \notin {"lan", "net"}
  <2>1. p.dst \in Vm \cup {"lan", "net"} /\ p.dst \notin Group /\ p.dst # g
    BY <1>0 DEF Packet, Addr, Host
  <2>2. p.dst \in Subnet(g) <=> near
    BY <2>1 DEF Subnet
  <2>3. p.dst \in CrossGroup(g) <=> far
    BY <2>1, GroupAssumption DEF CrossGroup, Subnet
  <2>4. p.dst \in Private <=> p.dst # "net"
    BY DEF Private, Packet
  <2>. QED
    BY <2>1, <2>2, <2>3, <2>4, AddrAssumption
<1>2. /\ DOMAIN chain = 1..9
      /\ \A i \in 1..7 : chain[i] = one[i]
      /\ \A i \in 8..9 : chain[i] = two[i - 7]
  BY NineRules DEF GroupRules, ServiceRules
<1>3. ~one[1].when
  BY <1>1 DEF GroupRules, Rule
<1>4. (one[2].when <=> same /\ near) /\ one[2].verdict = "accept"
  BY <1>0, <1>1 DEF GroupRules, Rule
<1>5. (one[3].when <=> ~same /\ near) /\ one[3].verdict = "reject"
  BY <1>0, <1>1 DEF GroupRules, Rule
<1>6. (one[4].when <=> far) /\ one[4].verdict = "reject"
  BY <1>0, <1>1 DEF GroupRules, Rule
<1>7. (one[5].when <=> lan /\ p.dst # "net") /\ one[5].verdict = "accept"
  BY <1>0, <1>1 DEF GroupRules, Rule
<1>8. (one[6].when <=> ~lan /\ p.dst # "net") /\ one[6].verdict = "reject"
  BY <1>0, <1>1 DEF GroupRules, Rule
<1>9. (one[7].when <=> ~inet) /\ one[7].verdict = "reject"
  BY <1>0, <1>1 DEF GroupRules, Rule
<1>10. two[1].verdict = "accept" /\ two[2].verdict = "accept"
  BY DEF ServiceRules, Rule
<1>. HIDE DEF chain, one, two, same, lan, inet
<1>11. ASSUME near PROVE Accepted(chain) <=> same
  <2>1. CASE same
    BY <1>2, <1>3, <1>4, <1>11, <2>1, FirstMatch
  <2>2. CASE ~same
    BY <1>2, <1>3, <1>4, <1>5, <1>11, <2>2, FirstMatch
  <2>. QED
    BY <2>1, <2>2
<1>12. ASSUME far PROVE ~Accepted(chain)
  BY <1>2, <1>3, <1>4, <1>5, <1>6, <1>12, FirstMatch
<1>13. ASSUME p.dst = "lan" PROVE Accepted(chain) <=> lan
  <2>1. CASE lan
    BY <1>1, <1>2, <1>3, <1>4, <1>5, <1>6, <1>7, <1>13, <2>1, FirstMatch
  <2>2. CASE ~lan
    BY <1>1, <1>2, <1>3, <1>4, <1>5, <1>6, <1>7, <1>8, <1>13, <2>2, FirstMatch
  <2>. QED
    BY <2>1, <2>2
<1>14. ASSUME p.dst = "net" PROVE Accepted(chain) <=> inet
  <2>. ~one[2].when /\ ~one[3].when /\ ~one[4].when /\ ~one[5].when /\ ~one[6].when
    BY <1>1, <1>4, <1>5, <1>6, <1>7, <1>8, <1>14
  <2>1. CASE ~inet
    BY <1>2, <1>3, <1>9, <2>1, FirstMatch
  <2>2. CASE inet /\ two[1].when
    BY <1>2, <1>3, <1>9, <1>10, <2>2, FirstMatch
  <2>3. CASE inet /\ ~two[1].when /\ two[2].when
    BY <1>2, <1>3, <1>9, <1>10, <2>3, FirstMatch
  <2>4. CASE inet /\ ~two[1].when /\ ~two[2].when
    BY <1>2, <1>3, <1>9, <2>4, NoMatch
  <2>. QED
    BY <2>1, <2>2, <2>3, <2>4
<1>. QED
  BY <1>1, <1>11, <1>12, <1>13, <1>14 DEF chain, one, two, same, lan, inet

(* The rules of a plan, in their order, let a packet of a managed VM through exactly
   if the flags of its record do, or it is on a connection to the host that stands. *)
LEMMA RulesMeanFlags ==
  ASSUME TypeOK, NEW p \in Packet, p.src \in Vm, pol[p.src].live
  PROVE  Judged(p) <=> Allowed(p) \/ (p.est /\ p.dst \in Host)
<1>0. /\ p.src \notin Host
      /\ p.dst \in Vm \cup Host \cup {"lan", "net"}
      /\ Vm \cap (Host \cup {"lan", "net"}) = {}
      /\ Host \cap {"lan", "net"} = {}
  BY AddrAssumption DEF Packet, Addr, Host
<1>1. CASE p.dst \in Host
  BY <1>0, <1>1, InputDecides DEF Judged, Allowed, Answer
<1>2. CASE p.dst \in Vm /\ GroupOf[p.dst] = GroupOf[p.src]
  <2>1. p.dst \in Subnet(GroupOf[p.src])
    BY <1>2 DEF Subnet
  <2>2. Accepted(BridgeRules(GroupOf[p.src], p)) <=> pol[p.src].same
    BY <2>1, BridgeDecides
  <2>3. Accepted(GroupRules(GroupOf[p.src], p) \o ServiceRules(p)) <=> pol[p.src].same
    BY <1>0, <1>2, RouteDecides
  <2>4. p.dst \notin Host
    BY <1>0, <1>2
  <2>5. Judged(p) <=> /\ ~p.dnat \/ brnf => Accepted(BridgeRules(GroupOf[p.src], p))
                      /\ p.dnat \/ brnf =>
                            Accepted(GroupRules(GroupOf[p.src], p) \o ServiceRules(p))
    BY <1>0, <1>2, <2>4 DEF Judged
  <2>. QED
    BY <1>0, <1>2, <2>2, <2>3, <2>4, <2>5 DEF Allowed
<1>3. CASE p.dst \notin Host /\ ~(p.dst \in Vm /\ GroupOf[p.dst] = GroupOf[p.src])
  <2>1. Judged(p) <=> Accepted(GroupRules(GroupOf[p.src], p) \o ServiceRules(p))
    BY <1>0, <1>3 DEF Judged
  <2>. QED
    BY <1>0, <1>3, <2>1, RouteDecides DEF Allowed
<1>. QED
  BY <1>1, <1>2, <1>3
-----------------------------------------------------------------------------
(* Natural numbers: a set of them that is not empty has a least one. *)
LEMMA LeastNat ==
  ASSUME NEW S \in SUBSET Nat, S # {}
  PROVE  \E m \in S : \A n \in S : m <= n
<1>1. PICK m \in S : \A n \in S : ~(<<n, m>> \in OpToRel(<, Nat))
  BY WFMin, NatLessThanWellFounded
<1>2. \A n \in S : ~(n < m)
  BY <1>1 DEF OpToRel
<1>. QED
  BY <1>2

(* A forwarded port has a first rule: the least VM that forwards it and the least
   guest port of that VM. *)
LEMMA FirstForward ==
  ASSUME NEW port \in Port, Forwards(port) # {}
  PROVE  \E s \in Forwards(port) : \A o \in Forwards(port) :
           Rank[s[1]] < Rank[o[1]] \/ (s[1] = o[1] /\ s[2] <= o[2])
<1>. DEFINE F == Forwards(port)
            ranks == {Rank[s[1]] : s \in F}
<1>1. \A s \in F : s[1] \in Vm /\ s[2] \in Port /\ s = <<s[1], s[2]>>
  BY DEF Forwards
<1>a. F # {}
  OBVIOUS
<1>. HIDE DEF F
<1>b. ranks \in SUBSET Nat /\ ranks # {}
  BY <1>1, <1>a, RankAssumption
<1>2. PICK s \in F : \A o \in F : Rank[s[1]] <= Rank[o[1]]
  <2>1. PICK m \in ranks : \A n \in ranks : m <= n
    BY <1>b, LeastNat
  <2>. QED
    BY <2>1
<1>. DEFINE ports == {o[2] : o \in {q \in F : q[1] = s[1]}}
<1>3. ports \in SUBSET Nat /\ ports # {}
  BY <1>1, PortAssumption
<1>4. PICK t \in {q \in F : q[1] = s[1]} : \A n \in ports : t[2] <= n
  BY <1>3, LeastNat
<1>5. ASSUME NEW o \in F PROVE Rank[t[1]] < Rank[o[1]] \/ (t[1] = o[1] /\ t[2] <= o[2])
  BY <1>1, <1>2, <1>4, RankAssumption
<1>. QED
  BY <1>4, <1>5 DEF F

(* What prerouting makes of a destination is an address and a port, and an address it
   has translated is a VM's. *)
LEMMA TranslateType ==
  ASSUME NEW d \in Addr, NEW port \in Port
  PROVE  LET t == Translate(d, port)
         IN  /\ t.dst \in Addr /\ t.port \in Port /\ t.dnat \in BOOLEAN
             /\ t.dnat => t.dst \in Vm
<1>1. CASE Forwards(port) = {}
  BY <1>1 DEF Translate
<1>2. CASE Forwards(port) # {}
  <2>. DEFINE F == Forwards(port)
              least(s) == \A o \in F : Rank[s[1]] < Rank[o[1]] \/ (s[1] = o[1] /\ s[2] <= o[2])
              c == CHOOSE s \in F : least(s)
  <2>1. c \in F
    BY <1>2, FirstForward
  <2>2. \A s \in F : s[1] \in Vm /\ s[2] \in Port
    BY DEF Forwards
  <2>3. Translate(d, port) = [dst |-> c[1], port |-> c[2], dnat |-> TRUE]
    BY <1>2 DEF Translate
  <2>. HIDE DEF c, F
  <2>. QED
    BY <2>1, <2>2, <2>3 DEF Addr
<1>. QED
  BY <1>1, <1>2

\* The far ends a connection can name are places.
LEMMA TargetsType ==
  ASSUME NEW c \in Addr
  PROVE  Targets(c) \subseteq Addr
<1>1. CASE c \in Vm
  BY <1>1, AddrAssumption DEF Targets, Addr, Host
<1>2. CASE c = "host"
  BY <1>2, AddrAssumption DEF Targets, Addr, Host
<1>3. CASE c \in {"lan", "net"}
  BY <1>3, AddrAssumption DEF Targets, Addr, Host
<1>4. CASE c \notin Vm \cup {"host", "lan", "net"}
  BY <1>4 DEF Targets
<1>. QED
  BY <1>1, <1>2, <1>3, <1>4

\* Before the first packet nothing has been let through or stopped.
LEMMA InitInv == Init => IInv
  BY NoneAssumption DEF Init, IInv, TypeOK, Granted, Confined, Unblocked, Managed

(* A packet that is sent is a packet and is judged by the tables in force. *)
LEMMA SendType ==
  ASSUME NEW s \in Addr, NEW d \in Addr, NEW sp \in Port \cup {0}, NEW dp \in Port \cup {0},
         NEW est \in BOOLEAN, NEW dnat \in BOOLEAN, Send(s, d, sp, dp, est, dnat)
  PROVE  pkt' \in Packet /\ passed' = Judged(pkt')
  BY DEF Send, Packet

\* The tables let a packet through or they do not.
LEMMA JudgedType ==
  ASSUME NEW p
  PROVE  Judged(p) \in BOOLEAN
  BY DEF Judged, Accepted

\* Why an established packet of a VM may reach the host.
Due(s, d, sp, dp) == \/ dp = 0
                     \/ d = GroupOf[s] /\ dp \in Dns
                     \/ sp = 0 /\ conn # None /\ conn.granted

(* Sending: whoever the packet is from, it is judged as the flags say, if what is
   established and meant for the host answers it or was granted. *)
LEMMA SendStep ==
  ASSUME TypeOK, UNCHANGED pol,
         NEW s \in Addr, NEW d \in Addr, NEW sp \in Port \cup {0}, NEW dp \in Port \cup {0},
         NEW est \in BOOLEAN, NEW dnat \in BOOLEAN, Send(s, d, sp, dp, est, dnat),
         s \in Vm /\ d \in Host /\ est => Due(s, d, sp, dp)'
  PROVE  /\ pkt' \in Packet /\ passed' \in BOOLEAN
         /\ Confined' /\ Unblocked'
<1>1. pkt' \in Packet /\ passed' = Judged(pkt') /\ passed' \in BOOLEAN
  BY SendType, JudgedType
<1>2. /\ pkt'.src = s /\ pkt'.dst = d /\ pkt'.sport = sp /\ pkt'.dport = dp
      /\ pkt'.est = est
  BY DEF Send
<1>3. ASSUME Managed(pkt)'
      PROVE  /\ Allowed(pkt)' => passed'
             /\ passed' => Allowed(pkt)' \/ GoesOn(pkt)'
  <2>1. pkt'.src \in Vm /\ pol[pkt'.src].live
    BY <1>3 DEF Managed
  <2>2. Judged(pkt') <=> Allowed(pkt') \/ (est /\ d \in Host)
    BY <1>1, <1>2, <2>1, RulesMeanFlags
  <2>3. Allowed(pkt)' <=> Allowed(pkt')
    BY DEF Allowed, Answer
  <2>4. d \in Host => d \notin Vm
    BY AddrAssumption
  <2>5. ASSUME est, d \in Host PROVE Allowed(pkt') \/ GoesOn(pkt)'
    <3>1. CASE dp = 0 \/ (d = GroupOf[s] /\ dp \in Dns)
      BY <1>2, <2>4, <2>5, <3>1, AddrAssumption DEF Allowed, Answer, Host
    <3>2. CASE sp = 0 /\ conn' # None /\ conn'.granted
      BY <1>2, <2>5, <3>2 DEF GoesOn
    <3>. QED
      BY <1>2, <2>1, <2>5, <3>1, <3>2 DEF Due
  <2>. QED
    BY <1>1, <2>2, <2>3, <2>5
<1>. QED
  BY <1>1, <1>3 DEF Confined, Unblocked

\* A first packet to the host passes if the VM is granted that or asks the gateway.
LEMMA FirstPacket ==
  ASSUME TypeOK, NEW p \in Packet, p.src \in Vm, p.dst \in Host, ~p.est, Judged(p)
  PROVE  MayAddressHost(p.src) \/ (p.dst = GroupOf[p.src] /\ p.dport \in Dns)
<1>1. CASE ~pol[p.src].live
  BY <1>1 DEF MayAddressHost
<1>2. CASE pol[p.src].live
  BY <1>2, InputDecides, AddrAssumption DEF Judged, MayAddressHost
<1>. QED
  BY <1>1, <1>2

\* A new connection: its first packet, rewritten if a port forward matches it.
LEMMA OpenStep == IInv /\ Open => IInv'
<1>. SUFFICES ASSUME IInv, Open PROVE IInv'
  OBVIOUS
<1>. DEFINE up(c, t) == [client |-> c, server |-> t.dst, port |-> t.port, dnat |-> t.dnat,
                         answered |-> FALSE, granted |-> MayAddressHost(c)]
<1>1. PICK c \in Addr, d \in Addr, port \in Port :
        LET t == Prerouted(c, d, port)
        IN  /\ Send(c, t.dst, 0, t.port, FALSE, t.dnat)
            /\ conn' = None \/ (passed' /\ conn' = up(c, t))
  BY TargetsType DEF Open
<1>. DEFINE t == Prerouted(c, d, port)
<1>2. /\ t.dst \in Addr /\ t.port \in Port /\ t.dnat \in BOOLEAN
      /\ t.dnat => t.dst \in Vm
  BY TranslateType DEF Prerouted
<1>3. /\ Send(c, t.dst, 0, t.port, FALSE, t.dnat)
      /\ conn' = None \/ (passed' /\ conn' = up(c, t))
  BY <1>1
<1>4. pol' = pol /\ brnf' = brnf /\ TypeOK
  BY DEF Open, IInv
<1>. HIDE DEF t
<1>5. pkt' \in Packet /\ passed' \in BOOLEAN /\ Confined' /\ Unblocked'
  BY <1>2, <1>3, <1>4, SendStep
<1>6. conn' # None => conn' \in Conn /\ (conn'.dnat => conn'.server \in Vm)
  <2>1. MayAddressHost(c) \in BOOLEAN
    BY DEF MayAddressHost
  <2>2. up(c, t) \in Conn /\ up(c, t).dnat = t.dnat /\ up(c, t).server = t.dst
    BY <1>2, <2>1 DEF Conn
  <2>. QED
    BY <1>2, <1>3, <2>2
<1>7. Granted'
  <2>. SUFFICES ASSUME conn' # None, c \in Vm, t.dst \in Host
                PROVE  MayAddressHost(c) \/ (t.dst = GroupOf[c] /\ t.port \in Dns)
    BY <1>3 DEF Granted
  <2>1. /\ pkt' \in Packet /\ pkt'.src = c /\ pkt'.dst = t.dst /\ pkt'.dport = t.port
        /\ pkt'.est = FALSE /\ passed'
    BY <1>3, <1>5 DEF Send
  <2>2. Judged(pkt')
    BY <1>3, <2>1 DEF Send
  <2>. QED
    BY <1>4, <2>1, <2>2, FirstPacket
<1>. QED
  BY <1>4, <1>5, <1>6, <1>7 DEF IInv, TypeOK

\* Both ends of a connection go on talking.
LEMMA FollowUpStep == IInv /\ (Reply \/ Continue) => IInv'
<1>. SUFFICES ASSUME IInv, Reply \/ Continue PROVE IInv'
  OBVIOUS
<1>0. conn' = conn \/ conn' = [conn EXCEPT !.answered = TRUE]
  BY DEF Reply, Continue
<1>1. conn \in Conn /\ conn # None /\ pol' = pol /\ brnf' = brnf /\ TypeOK
  BY DEF Reply, Continue, IInv, TypeOK
<1>2. /\ conn.client \in Addr /\ conn.server \in Addr
      /\ conn.port \in Port /\ conn.dnat \in BOOLEAN /\ conn.answered \in BOOLEAN
  BY <1>1 DEF Conn
<1>3. /\ conn' \in Conn /\ conn' # None
      /\ conn'.client = conn.client /\ conn'.server = conn.server
      /\ conn'.port = conn.port /\ conn'.dnat = conn.dnat /\ conn'.granted = conn.granted
  <2>1. conn' \in Conn /\ conn.client = conn'.client /\ conn.server = conn'.server
        /\ conn'.port = conn.port /\ conn'.dnat = conn.dnat /\ conn'.granted = conn.granted
    BY <1>0, <1>1 DEF Conn
  <2>. QED
    BY <2>1, NoneAssumption
<1>4. pkt' \in Packet /\ passed' \in BOOLEAN /\ Confined' /\ Unblocked'
  <2>1. CASE Reply
    <3>1. Send(conn.server, conn.client, conn.port, 0, TRUE, conn.dnat)
      BY <2>1 DEF Reply
    <3>. QED
      BY <1>1, <1>2, <3>1, SendStep DEF Due
  <2>2. CASE Continue
    <3>1. conn.client \in Vm /\ conn.server \in Host =>
            conn.granted \/ (conn.server = GroupOf[conn.client] /\ conn.port \in Dns)
      BY <1>1, NoneAssumption DEF IInv, Granted
    <3>2. Send(conn.client, conn.server, 0, conn.port, conn.answered, conn.dnat)
      BY <2>2 DEF Continue
    <3>3. CASE conn.answered = TRUE
      <4>1. Send(conn.client, conn.server, 0, conn.port, TRUE, conn.dnat)
        BY <3>2, <3>3
      <4>. QED
        BY <1>1, <1>2, <1>3, <3>1, <4>1, SendStep DEF Due
    <3>4. CASE conn.answered = FALSE
      <4>1. Send(conn.client, conn.server, 0, conn.port, FALSE, conn.dnat)
        BY <3>2, <3>4
      <4>. QED
        BY <1>1, <1>2, <4>1, SendStep
    <3>. QED
      BY <1>2, <3>3, <3>4
  <2>. QED
    BY <2>1, <2>2
<1>5. Granted'
  BY <1>1, <1>3 DEF IInv, Granted
<1>. QED
  BY <1>1, <1>3, <1>4, <1>5 DEF IInv, TypeOK

\* Without a packet there is nothing to judge.
LEMMA QuietStep == IInv /\ (Close \/ Reconcile) => IInv'
<1>. SUFFICES ASSUME IInv, Close \/ Reconcile PROVE IInv'
  OBVIOUS
<1>1. pkt' = None /\ passed' = FALSE /\ conn' \in {conn, None}
  BY DEF Close, Reconcile
<1>2. (DOMAIN pol' = Vm /\ \A v \in Vm : pol'[v] \in Choices[v]) /\ brnf' \in BOOLEAN
  BY DEF Close, Reconcile, IInv, TypeOK
<1>. QED
  BY <1>1, <1>2 DEF IInv, TypeOK, Granted, Confined, Unblocked, Managed
-----------------------------------------------------------------------------
(* The types, and what the last packet's verdict says of the flags: inductive because
   a verdict is passed in the step that sends the packet. *)
THEOREM Invariance == Spec => []IInv
<1>1. IInv /\ UNCHANGED vars => IInv'
  <2>. SUFFICES ASSUME IInv, UNCHANGED vars PROVE IInv'
    OBVIOUS
  <2>1. TypeOK' /\ Granted' /\ (Managed(pkt)' <=> Managed(pkt)) /\ passed' = passed
    BY DEF vars, IInv, TypeOK, Granted, Managed
  <2>2. Allowed(pkt)' = Allowed(pkt) /\ GoesOn(pkt)' = GoesOn(pkt)
    BY DEF vars, Allowed, Answer, GoesOn
  <2>. QED
    BY <2>1, <2>2 DEF IInv, Confined, Unblocked
<1>2. IInv /\ [Next]_vars => IInv'
  BY <1>1, OpenStep, FollowUpStep, QuietStep DEF Next
<1>. QED
  BY <1>2, InitInv, PTL DEF Spec

(* Records, connections and packets stay what they are; only a VM is ever the target
   of a translation. *)
THEOREM TypeCorrect == Spec => []TypeOK
  BY Invariance, PTL DEF IInv

(* Whatever the records and the ports forwarded: a managed VM sends nothing the flags
   of its record forbid, also on connections opened under other flags, but for one to
   the host that it was granted when it opened it and that was answered. *)
THEOREM NothingForbidden == Spec => []Confined
  BY Invariance, PTL DEF IInv

(* And none of its packets that its flags allow is rejected. *)
THEOREM NothingBlocked == Spec => []Unblocked
  BY Invariance, PTL DEF IInv
=============================================================================
