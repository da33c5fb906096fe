-------------------------------- MODULE Media --------------------------------
(***************************************************************************)
(* How interfaces are wired to VirtualSwitch and VirtualLink objects       *)
(* (src/src/simulation/virtual_link.py, connect_switch and connect_link of *)
(* src/src/nodes/base_node.py), and which queues a frame sent out of an    *)
(* interface goes to.                                                      *)
(***************************************************************************)
EXTENDS Naturals, Sequences

CONSTANTS
  Iface,       \* the nodes' interfaces; an interface stands for its MAC address
  Switch,      \* the VirtualSwitch objects
  Link,        \* the VirtualLink objects
  Wiring,      \* connect_switch / connect_link calls in order: [iface, medium, port]
  Groups,      \* isolation groups of every switch, sets of ports
  Dst          \* destination MACs: interfaces, and others no switch knows

Medium == Switch \cup Link
Calls == DOMAIN Wiring
PortAt(c) == <<Wiring[c].medium, Wiring[c].port>>
Port == {PortAt(c) : c \in Calls}

ASSUME MediaAssumption ==
  /\ Switch \cap Link = {}
  /\ Wiring \in Seq([iface : Iface, medium : Medium, port : Nat \cup Iface])
  /\ Groups \in [Switch -> SUBSET SUBSET Nat]

-----------------------------------------------------------------------------
(* What the wiring calls leave behind.                                     *)

LastOf(calls) == CHOOSE c \in calls : \A d \in calls : d <= c

CallsOn(i, media) == {c \in Calls : Wiring[c].iface = i /\ Wiring[c].medium \in media}

\* A second call overwrites the interface's switch and port; a switch wins over a link.
SwitchOrLink(i) == IF CallsOn(i, Switch) # {} THEN CallsOn(i, Switch) ELSE CallsOn(i, Link)
WiredIfaces == {i \in Iface : SwitchOrLink(i) # {}}
Wired(i) == i \in WiredIfaces
NoPort == <<"none", 0>>
PortOf == [i \in Iface |-> IF Wired(i) THEN PortAt(LastOf(SwitchOrLink(i))) ELSE NoPort]

\* _mac_table: add_port writes it, nothing else does; the last call for a MAC stays.
Knows(s, mac) == CallsOn(mac, {s}) # {}
MacTable(s, mac) == PortAt(LastOf(CallsOn(mac, {s})))

\* The elements of s that are in S, in their order.
Among(s, S) ==
  LET upTo[k \in 0..Len(s)] ==
        IF k = 0 THEN <<>>
        ELSE IF s[k] \in S THEN Append(upTo[k - 1], s[k]) ELSE upTo[k - 1]
  IN upTo[Len(s)]

\* The ports of a medium in the order of the dictionary: by the first call for each.
FirstCalls(m) ==
  {c \in Calls : Wiring[c].medium = m /\ \A d \in 1..(c - 1) : PortAt(d) # PortAt(c)}
Members(m) ==
  LET first == Among([c \in Calls |-> c], FirstCalls(m))
  IN [k \in DOMAIN first |-> PortAt(first[k])]

\* Mutant: the groups are not asked.
CanForwardUngrouped(s, p, q) == p # q

CanForward(s, p, q) ==
  /\ p # q
  /\ Groups[s] = {} \/ \E g \in Groups[s] : {p[2], q[2]} \subseteq g

\* The queues a frame sent out of i for dst goes to, in the order it is put.
Targets ==
  [i \in Iface |-> [dst \in Dst |->
     LET p == PortOf[i]
         m == p[1]
         permitted == {q \in Port : CanForward(m, p, q)}
     IN IF ~Wired(i) THEN <<>>
        ELSE IF m \in Link THEN Among(Members(m), Port \ {p})
        ELSE IF Knows(m, dst) THEN Among(<<MacTable(m, dst)>>, permitted)
        ELSE Among(Members(m), permitted)]]
=============================================================================
