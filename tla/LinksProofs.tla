----------------------------- MODULE LinksProofs ------------------------------
(***************************************************************************)
(* The media keep their promises for any nodes, wiring, isolation groups,  *)
(* queue lengths and numbers of frames: types and queue lengths, isolation *)
(* of the switch ports, the order of the frames, and no frame lost.        *)
(*                                                                         *)
(* The order at a loop (Ordered) is not inductive: it says nothing of a    *)
(* send that is suspended, and when that send goes on its frame arrives    *)
(* behind whatever the queue has received meanwhile.  LinksInv adds where  *)
(* a suspended send stands: its frame is its task's newest (Pending), all  *)
(* the task has put before is earlier (Ahead), and what waits or has been  *)
(* read was sent, to that port (Waiting, Heard).  NothingLost adds where   *)
(* every frame of a lossless medium is.                                    *)
(***************************************************************************)
EXTENDS Links, SequenceTheorems, WellFoundedInduction, TLAPS

-----------------------------------------------------------------------------
(* Least elements.                                                          *)

\* A non-empty set of naturals has a least element.
LEMMA LeastOfNat ==
  ASSUME NEW T \in SUBSET Nat, T # {}
  PROVE  \E x \in T : \A y \in T : x <= y
<1>1. PICK x \in T : \A y \in T : ~(<<y, x>> \in OpToRel(<, Nat))
  BY NatLessThanWellFounded, WFMin
<1>2. \A y \in T : ~(y < x)
  BY <1>1 DEF OpToRel
<1>. QED BY <1>2

\* A non-empty set of naturals up to n has a greatest element.
LEMMA GreatestUpTo ==
  ASSUME NEW n \in Nat, NEW T \in SUBSET (1..n), T # {}
  PROVE  \E x \in T : \A y \in T : y <= x
<1>. DEFINE U == {n - x : x \in T}
<1>1. U \in SUBSET Nat /\ U # {}
  <2>1. \A x \in T : x \in 1..n
    OBVIOUS
  <2>2. \A x \in T : n - x \in Nat
    BY <2>1
  <2>. QED BY <2>2
<1>2. PICK u \in U : \A v \in U : u <= v
  BY <1>1, LeastOfNat
<1>3. PICK x \in T : u = n - x
  OBVIOUS
<1>4. \A y \in T : n - x <= n - y
  BY <1>2, <1>3
<1>5. \A y \in T : y <= x
  BY <1>4
<1>. QED BY <1>5
-----------------------------------------------------------------------------
(* Selecting from a sequence.                                               *)

\* No element of a sequence occurs twice.
Distinct(s) == \A j, k \in DOMAIN s : j # k => s[j] # s[k]

\* The recursion of Among: its value at k, from its values F below k.
Step(s, S, F, k) ==
  IF k = 0 THEN <<>> ELSE IF s[k] \in S THEN Append(F[k - 1], s[k]) ELSE F[k - 1]

\* The recursion of Among has a solution up to every length.
LEMMA AmongExists ==
  ASSUME NEW s, NEW S, NEW n \in Nat
  PROVE  \E F : F = [k \in 0..n |-> Step(s, S, F, k)]
<1>. DEFINE T == {m \in Nat : ~\E F : F = [k \in 0..m |-> Step(s, S, F, k)]}
<1>. SUFFICES ASSUME T # {} PROVE FALSE
  OBVIOUS
<1>1. PICK m \in T : \A y \in T : m <= y
  BY LeastOfNat
<1>2. m # 0
  <2>1. \E F : F = [k \in 0..0 |-> <<>>]
    OBVIOUS
  <2>2. PICK F : F = [k \in 0..0 |-> <<>>]
    BY <2>1
  <2>3. F = [k \in 0..0 |-> Step(s, S, F, k)]
    BY <2>2 DEF Step
  <2>. QED BY <2>3
<1>3. m - 1 \in Nat /\ m - 1 \notin T
  BY <1>1, <1>2
<1>4. PICK F : F = [k \in 0..(m - 1) |-> Step(s, S, F, k)]
  BY <1>3
<1>. DEFINE G == [k \in 0..m |-> IF k = m THEN Step(s, S, F, m) ELSE F[k]]
<1>5. G = [k \in 0..m |-> Step(s, S, G, k)]
  <2>1. ASSUME NEW k \in 0..m PROVE G[k] = Step(s, S, G, k)
    <3>1. CASE k = m
      <4>1. G[m - 1] = F[m - 1]
        BY <1>2
      <4>. QED BY <3>1, <4>1, <1>2 DEF Step
    <3>2. CASE k # m /\ k = 0
      BY <3>2, <1>4 DEF Step
    <3>3. CASE k # m /\ k # 0
      <4>1. G[k - 1] = F[k - 1] /\ G[k] = F[k] /\ k \in 0..(m - 1)
        BY <3>3
      <4>2. F[k] = Step(s, S, F, k)
        BY <4>1, <1>4
      <4>. QED BY <4>1, <4>2 DEF Step
    <3>. QED BY <3>1, <3>2, <3>3
  <2>. HIDE DEF G
  <2>2. G = [k \in 0..m |-> G[k]]
    BY DEF G
  <2>. QED BY <2>1, <2>2
<1>. HIDE DEF G
<1>6. m \notin T
  BY <1>5
<1>. QED BY <1>6

\* So the recursive function inside Among satisfies its equation at every length.
LEMMA AmongEquation ==
  ASSUME NEW X, NEW s \in Seq(X), NEW S
  PROVE  \E F : F = [k \in 0..Len(s) |-> Step(s, S, F, k)] /\ Among(s, S) = F[Len(s)]
<1>. DEFINE F == CHOOSE F : F = [k \in 0..Len(s) |-> Step(s, S, F, k)]
<1>1. F = [k \in 0..Len(s) |-> Step(s, S, F, k)]
  <2>. HIDE DEF F
  <2>1. Len(s) \in Nat
    BY LenProperties
  <2>2. \E H : H = [k \in 0..Len(s) |-> Step(s, S, H, k)]
    BY <2>1, AmongExists
  <2>. QED BY <2>2 DEF F
<1>2. Among(s, S) = F[Len(s)]
  BY DEF Among, Step
<1>. QED BY <1>1, <1>2

\* Among keeps exactly the elements that are in S, each as often as it was there.
LEMMA AmongFacts ==
  ASSUME NEW X, NEW s \in Seq(X), NEW S
  PROVE  /\ Among(s, S) \in Seq(X)
         /\ SeqSet(Among(s, S)) = SeqSet(s) \cap S
         /\ Distinct(s) => Distinct(Among(s, S))
<1>1. PICK F : F = [k \in 0..Len(s) |-> Step(s, S, F, k)] /\ Among(s, S) = F[Len(s)]
  BY AmongEquation
<1>. DEFINE P(k) == /\ F[k] \in Seq(X)
                    /\ SeqSet(F[k]) = {s[j] : j \in 1..k} \cap S
                    /\ Distinct(s) => Distinct(F[k])
            T == {k \in 0..Len(s) : ~P(k)}
<1>2. Len(s) \in Nat /\ DOMAIN s = 1..Len(s) /\ \A j \in 1..Len(s) : s[j] \in X
  BY LenProperties
<1>3. T = {}
  <2>. SUFFICES ASSUME T # {} PROVE FALSE
    OBVIOUS
  <2>. HIDE DEF P
  <2>0. T \in SUBSET Nat
    BY <1>2
  <2>1. PICK m \in T : \A y \in T : m <= y
    <3>. HIDE DEF T
    <3>. QED BY <2>0, LeastOfNat
  <2>2. m \in 0..Len(s) /\ ~P(m)
    OBVIOUS
  <2>3. CASE m = 0
    <3>1. F[m] = <<>>
      BY <1>1, <1>2, <2>2, <2>3 DEF Step
    <3>. QED BY <3>1, <2>2, <2>3 DEF P, SeqSet, Distinct
  <2>4. CASE m # 0
    <3>1. m - 1 \in 0..Len(s) /\ m - 1 \notin T /\ m \in 1..Len(s)
      BY <2>1, <2>2, <2>4, <1>2
    <3>2. P(m - 1)
      BY <3>1
    <3>3. F[m] = IF s[m] \in S THEN Append(F[m - 1], s[m]) ELSE F[m - 1]
      BY <1>1, <2>2, <2>4 DEF Step
    <3>. DEFINE q == F[m - 1]
    <3>4. /\ q \in Seq(X) /\ SeqSet(q) = {s[j] : j \in 1..(m - 1)} \cap S
          /\ Distinct(s) => Distinct(q)
      BY <3>2 DEF P
    <3>. HIDE DEF q
    <3>5. {s[j] : j \in 1..m} = {s[j] : j \in 1..(m - 1)} \cup {s[m]}
      BY <3>1
    <3>6. CASE s[m] \notin S
      <4>1. F[m] = q
        BY <3>3, <3>6 DEF q
      <4>. QED BY <4>1, <3>4, <3>5, <3>6, <2>2 DEF P
    <3>7. CASE s[m] \in S
      <4>1. F[m] = Append(q, s[m])
        BY <3>3, <3>7 DEF q
      <4>2. s[m] \in X
        BY <3>1, <1>2
      <4>3. /\ F[m] \in Seq(X) /\ Len(F[m]) = Len(q) + 1
            /\ \A i \in 1..Len(q) : F[m][i] = q[i]
            /\ F[m][Len(q) + 1] = s[m]
        BY <4>1, <4>2, <3>4, AppendProperties
      <4>4. Len(q) \in Nat /\ DOMAIN q = 1..Len(q) /\ DOMAIN F[m] = 1..(Len(q) + 1)
        BY <4>3, <3>4, LenProperties
      <4>5. SeqSet(F[m]) = SeqSet(q) \cup {s[m]}
        BY <4>3, <4>4 DEF SeqSet
      <4>6. Distinct(s) => Distinct(F[m])
        <5>. SUFFICES ASSUME Distinct(s) PROVE Distinct(F[m])
          OBVIOUS
        <5>1. s[m] \notin SeqSet(q)
          BY <3>1, <3>4, <1>2 DEF Distinct
        <5>2. \A j \in 1..Len(q) : q[j] # s[m]
          BY <5>1, <4>4 DEF SeqSet
        <5>3. Distinct(q)
          BY <3>4
        <5>. QED BY <5>2, <5>3, <4>3, <4>4 DEF Distinct
      <4>. QED BY <4>3, <4>5, <4>6, <3>4, <3>5, <3>7, <2>2 DEF P
    <3>. QED BY <3>6, <3>7
  <2>. QED BY <2>3, <2>4
<1>. HIDE DEF P
<1>4. P(Len(s))
  BY <1>2, <1>3
<1>. QED BY <1>1, <1>2, <1>4 DEF SeqSet, P
-----------------------------------------------------------------------------
(* The media.                                                               *)

\* A call of connect_switch or connect_link.
Call == [iface : Iface, medium : Medium, port : Nat \cup Iface]

\* The wiring calls are numbered from 1 on.
LEMMA CallsNumbered ==
  /\ Len(Wiring) \in Nat /\ Calls = 1..Len(Wiring)
  /\ \A c \in Calls : Wiring[c] \in Call
<1>1. Wiring \in Seq(Call)
  BY MediaAssumption DEF Call
<1>. HIDE DEF Call
<1>2. QED BY <1>1, LenProperties, ElementOfSeq DEF Calls

\* The last of some calls is one of them.
LEMMA LastOfIsOne ==
  ASSUME NEW calls \in SUBSET Calls, calls # {}
  PROVE  LastOf(calls) \in calls
<1>1. \E c \in calls : \A d \in calls : d <= c
  BY CallsNumbered, GreatestUpTo
<1>. QED BY <1>1 DEF LastOf

\* A wired interface is at a port, of the medium of one of its calls.
LEMMA WiredPort ==
  ASSUME NEW i \in Iface, Wired(i)
  PROVE  PortOf[i] \in Port /\ PortOf[i][1] \in Medium
<1>1. SwitchOrLink(i) \in SUBSET Calls /\ SwitchOrLink(i) # {}
  BY DEF Wired, WiredIfaces, SwitchOrLink, CallsOn
<1>2. PICK c \in Calls : PortOf[i] = PortAt(c)
  BY <1>1, LastOfIsOne DEF PortOf
<1>. QED BY <1>2, CallsNumbered DEF Port, PortAt, Call

\* The port in the MAC table is a port of the switch, of a call for that MAC.
LEMMA MacTablePort ==
  ASSUME NEW s \in Switch, NEW mac, Knows(s, mac)
  PROVE  /\ MacTable(s, mac) \in Port
         /\ \E c \in CallsOn(mac, {s}) : PortAt(c) = MacTable(s, mac)
<1>1. CallsOn(mac, {s}) \in SUBSET Calls /\ CallsOn(mac, {s}) # {}
  BY DEF Knows, CallsOn
<1>2. LastOf(CallsOn(mac, {s})) \in CallsOn(mac, {s})
  BY <1>1, LastOfIsOne
<1>. QED BY <1>1, <1>2 DEF MacTable, Port

\* The ports of a medium, each once.
LEMMA MembersFacts ==
  ASSUME NEW m \in Medium
  PROVE  /\ Members(m) \in Seq(Port) /\ Distinct(Members(m))
         /\ \A p \in SeqSet(Members(m)) : p[1] = m
<1>. DEFINE all == [c \in Calls |-> c]
            first == Among(all, FirstCalls(m))
<1>1. all \in Seq(Calls)
  BY CallsNumbered
<1>2. SeqSet(all) = Calls /\ Distinct(all)
  BY DEF SeqSet, Distinct
<1>. HIDE DEF all
<1>3. first \in Seq(Calls) /\ Distinct(first) /\ SeqSet(first) = Calls \cap FirstCalls(m)
  BY <1>1, <1>2, AmongFacts
<1>4. Members(m) = [k \in DOMAIN first |-> PortAt(first[k])]
  BY DEF Members, all
<1>. HIDE DEF first
<1>5. /\ Len(first) \in Nat /\ DOMAIN first = 1..Len(first)
      /\ \A k \in 1..Len(first) : first[k] \in Calls /\ first[k] \in FirstCalls(m)
  BY <1>3, LenProperties DEF SeqSet
<1>6. Members(m) \in Seq(Port)
  BY <1>4, <1>5 DEF Port
<1>7. Distinct(Members(m))
  <2>. SUFFICES ASSUME NEW j \in DOMAIN first, NEW k \in DOMAIN first, j # k,
                       PortAt(first[j]) = PortAt(first[k])
                PROVE  FALSE
    BY <1>4 DEF Distinct
  <2>1. first[j] # first[k]
    BY <1>3 DEF Distinct
  <2>2. first[j] \in 1..Len(Wiring) /\ first[k] \in 1..Len(Wiring) /\ Len(Wiring) \in Nat
    BY <1>5, CallsNumbered
  <2>3. first[j] \in 1..(first[k] - 1) \/ first[k] \in 1..(first[j] - 1)
    BY <2>1, <2>2
  <2>. QED BY <1>5, <2>3 DEF FirstCalls
<1>8. \A k \in DOMAIN first : PortAt(first[k])[1] = m
  BY <1>5 DEF FirstCalls, PortAt
<1>. QED BY <1>4, <1>6, <1>7, <1>8 DEF SeqSet

\* What VirtualSwitch and VirtualLink permit: a frame from i for d in the queue of p.
Legal(i, d, p) ==
  /\ Wired(i) /\ p[1] = PortOf[i][1] /\ p # PortOf[i]
  /\ p[1] \in Switch =>
       /\ CanForward(p[1], PortOf[i], p)
       /\ Knows(p[1], d) => p = MacTable(p[1], d)

\* A frame is put once into each of some queues, of the sender's medium, that
\* _can_forward and the MAC table permit.
LEMMA TargetsFacts ==
  ASSUME NEW i \in Iface, NEW d \in Dst
  PROVE  /\ Targets[i][d] \in Seq(Port) /\ Distinct(Targets[i][d])
         /\ \A p \in SeqSet(Targets[i][d]) : p \in Port /\ Legal(i, d, p)
<1>. DEFINE o == PortOf[i]
            m == o[1]
            permitted == {q \in Port : CanForward(m, o, q)}
<1>0. Targets[i][d] =
        IF ~Wired(i) THEN <<>>
        ELSE IF m \in Link THEN Among(Members(m), Port \ {o})
        ELSE IF Knows(m, d) THEN Among(<<MacTable(m, d)>>, permitted)
        ELSE Among(Members(m), permitted)
  BY DEF Targets
<1>1. CASE ~Wired(i)
  BY <1>0, <1>1 DEF Distinct, SeqSet
<1>2. CASE Wired(i) /\ m \in Link
  <2>1. m \in Medium /\ m \notin Switch
    BY <1>2, WiredPort, MediaAssumption
  <2>2. Targets[i][d] = Among(Members(m), Port \ {o})
    BY <1>0, <1>2
  <2>. HIDE DEF m, o
  <2>3. /\ Targets[i][d] \in Seq(Port) /\ Distinct(Targets[i][d])
        /\ SeqSet(Targets[i][d]) = SeqSet(Members(m)) \cap (Port \ {o})
    BY <2>1, <2>2, MembersFacts, AmongFacts
  <2>4. \A p \in SeqSet(Targets[i][d]) : p \in Port /\ p # o /\ p[1] = m
    BY <2>1, <2>3, MembersFacts
  <2>. QED BY <1>2, <2>1, <2>3, <2>4 DEF Legal, m, o
<1>3. CASE Wired(i) /\ m \notin Link
  <2>1. m \in Medium /\ m \in Switch
    BY <1>3, WiredPort DEF Medium
  <2>2. CASE Knows(m, d)
    <3>. DEFINE one == <<MacTable(m, d)>>
    <3>1. Targets[i][d] = Among(one, permitted)
      BY <1>0, <1>3, <2>2
    <3>. HIDE DEF m, o
    <3>2. MacTable(m, d) \in Port /\ MacTable(m, d)[1] = m
      BY <2>1, <2>2, MacTablePort DEF CallsOn, PortAt
    <3>3. one \in Seq(Port) /\ Distinct(one) /\ SeqSet(one) = {MacTable(m, d)}
      BY <3>2 DEF Distinct, SeqSet
    <3>. HIDE DEF one
    <3>4. /\ Targets[i][d] \in Seq(Port) /\ Distinct(Targets[i][d])
          /\ SeqSet(Targets[i][d]) = {MacTable(m, d)} \cap permitted
      BY <3>1, <3>3, AmongFacts
    <3>. QED BY <1>3, <3>2, <3>4 DEF Legal, CanForward, m, o
  <2>3. CASE ~Knows(m, d)
    <3>1. Targets[i][d] = Among(Members(m), permitted)
      BY <1>0, <1>3, <2>3
    <3>. HIDE DEF m, o
    <3>2. /\ Targets[i][d] \in Seq(Port) /\ Distinct(Targets[i][d])
          /\ SeqSet(Targets[i][d]) = SeqSet(Members(m)) \cap permitted
      BY <2>1, <3>1, MembersFacts, AmongFacts
    <3>3. \A p \in SeqSet(Members(m)) : p[1] = m
      BY <2>1, MembersFacts
    <3>. QED BY <1>3, <2>3, <3>2, <3>3 DEF Legal, CanForward, m, o
  <2>. QED BY <2>2, <2>3
<1>. QED BY <1>1, <1>2, <1>3
-----------------------------------------------------------------------------
(* What a send or a resumed send does to the queues.                        *)

\* There is a number of targets that can be served before the first full queue.
LEMMA FittingFacts ==
  ASSUME NEW targets \in Seq(Port)
  PROVE  /\ Fitting(targets) \in 0..Len(targets)
         /\ \A j \in 1..Fitting(targets) : Room(targets[j])
<1>. DEFINE T == {k \in 0..Len(targets) : k < Len(targets) => ~Room(targets[k + 1])}
<1>1. Len(targets) \in Nat
  BY LenProperties
<1>2. T \in SUBSET Nat /\ T # {}
  <2>1. Len(targets) \in T
    BY <1>1
  <2>. QED BY <1>1, <2>1
<1>3. PICK k \in T : \A j \in T : k <= j
  <2>. HIDE DEF T
  <2>. QED BY <1>2, LeastOfNat
<1>4. ASSUME NEW j \in 1..k PROVE Room(targets[j])
  <2>0. k \in 0..Len(targets)
    OBVIOUS
  <2>1. j - 1 \in 0..Len(targets) /\ j - 1 < Len(targets) /\ j - 1 \notin T
    <3>. HIDE DEF T
    <3>. QED BY <1>1, <1>3, <2>0
  <2>2. Room(targets[(j - 1) + 1]) /\ (j - 1) + 1 = j
    BY <2>1
  <2>. QED BY <2>2
<1>5. k \in 0..Len(targets) /\ (k < Len(targets) => ~Room(targets[k + 1]))
  OBVIOUS
<1>. HIDE DEF T
<1>. QED BY <1>4, <1>5 DEF Fitting

\* The targets that get the frame when k of them are served, and those that wait.
Served(targets, k) == {targets[j] : j \in 1..k}
Left(targets, k) == {targets[j] : j \in (k + 1)..Len(targets)}

\* Positions after the first k of n.
LEMMA SplitAt ==
  ASSUME NEW n \in Nat, NEW k \in 0..n
  PROVE  /\ n - k = IF k + 1 <= n THEN n - (k + 1) + 1 ELSE 0
         /\ n - k = 0 <=> k = n
  OBVIOUS

\* Serving the first k of some distinct targets: they get the frame, the others wait.
LEMMA ServeFacts ==
  ASSUME NEW t \in Task, NEW f, NEW targets \in Seq(Port), Distinct(targets),
         NEW k \in 0..Len(targets), LinksTypeOK, Serve(t, f, targets, k)
  PROVE  /\ queue' = [p \in Port |-> IF p \in Served(targets, k)
                                    THEN Append(queue[p], f) ELSE queue[p]]
         /\ out' = [out EXCEPT ![t] = IF k = Len(targets) THEN NoFrame ELSE f]
         /\ todo' \in [Task -> Seq(Port)]
         /\ \A s \in Task \ {t} : todo'[s] = todo[s]
         /\ SeqSet(todo'[t]) = Left(targets, k) /\ Distinct(todo'[t])
         /\ todo'[t] = <<>> <=> k = Len(targets)
         /\ Served(targets, k) \cap Left(targets, k) = {}
         /\ Served(targets, k) \cup Left(targets, k) = SeqSet(targets)
<1>. DEFINE first == SubSeq(targets, 1, k)
            rest == SubSeq(targets, k + 1, Len(targets))
<1>1. /\ Len(targets) \in Nat /\ DOMAIN targets = 1..Len(targets) /\ k \in Nat
      /\ \A j \in 1..Len(targets) : targets[j] \in Port
  BY LenProperties, ElementOfSeq
<1>2. /\ first \in Seq(Port) /\ Len(first) = k
      /\ \A j \in 1..k : first[j] = targets[j]
  BY <1>1, SubSeqProperties
<1>3. /\ rest \in Seq(Port) /\ Len(rest) = Len(targets) - k
      /\ \A j \in 1..(Len(targets) - k) : rest[j] = targets[k + j]
  <2>1. \A j \in (k + 1)..Len(targets) : targets[j] \in Port
    BY <1>1
  <2>2. /\ rest \in Seq(Port) /\ Len(rest) = IF k + 1 <= Len(targets) THEN Len(targets) - (k + 1) + 1 ELSE 0
        /\ \A j \in 1..(Len(targets) - (k + 1) + 1) : rest[j] = targets[(k + 1) + j - 1]
    BY <1>1, <2>1, SubSeqProperties
  <2>3. Len(rest) = Len(targets) - k
    <3>. HIDE DEF rest
    <3>. QED BY <1>1, <2>2, SplitAt
  <2>4. ASSUME NEW j \in 1..(Len(targets) - k) PROVE rest[j] = targets[k + j]
    <3>1. j \in 1..(Len(targets) - (k + 1) + 1) /\ (k + 1) + j - 1 = k + j
      BY <1>1
    <3>. HIDE DEF rest
    <3>. QED BY <2>2, <3>1
  <2>. QED BY <2>2, <2>3, <2>4
<1>4. /\ queue' = [p \in Port |-> IF \E j \in DOMAIN first : first[j] = p
                                  THEN Append(queue[p], f) ELSE queue[p]]
      /\ todo' = [todo EXCEPT ![t] = rest]
      /\ out' = [out EXCEPT ![t] = IF k = Len(targets) THEN NoFrame ELSE f]
  BY DEF Serve, Put
<1>. HIDE DEF first, rest
<1>5. DOMAIN first = 1..k /\ DOMAIN rest = 1..(Len(targets) - k)
  BY <1>1, <1>2, <1>3, LenProperties
<1>6. \A p : (\E j \in DOMAIN first : first[j] = p) <=> p \in Served(targets, k)
  BY <1>2, <1>5 DEF Served
<1>7. todo' \in [Task -> Seq(Port)] /\ todo'[t] = rest
  BY <1>3, <1>4 DEF LinksTypeOK
<1>8. SeqSet(rest) = Left(targets, k)
  <2>1. \A j \in (k + 1)..Len(targets) : j - k \in 1..(Len(targets) - k) /\ k + (j - k) = j
    BY <1>1
  <2>2. \A j \in 1..(Len(targets) - k) : k + j \in (k + 1)..Len(targets)
    BY <1>1
  <2>3. ASSUME NEW p \in SeqSet(rest) PROVE p \in Left(targets, k)
    BY <1>3, <1>5, <2>2, <2>3 DEF SeqSet, Left
  <2>4. ASSUME NEW p \in Left(targets, k) PROVE p \in SeqSet(rest)
    <3>1. PICK j \in (k + 1)..Len(targets) : p = targets[j]
      BY <2>4 DEF Left
    <3>2. rest[j - k] = p
      BY <1>3, <2>1, <3>1
    <3>. QED BY <1>5, <2>1, <3>2 DEF SeqSet
  <2>. QED BY <2>3, <2>4
<1>9. Distinct(rest)
  <2>. SUFFICES ASSUME NEW i \in 1..(Len(targets) - k), NEW j \in 1..(Len(targets) - k), i # j
                PROVE  targets[k + i] # targets[k + j]
    BY <1>3, <1>5 DEF Distinct
  <2>1. k + i \in DOMAIN targets /\ k + j \in DOMAIN targets /\ k + i # k + j
    BY <1>1
  <2>. QED BY <2>1 DEF Distinct
<1>10. rest = <<>> <=> k = Len(targets)
  <2>1. rest = <<>> <=> Len(rest) = 0
    BY <1>3, EmptySeq
  <2>2. Len(targets) - k = 0 <=> k = Len(targets)
    BY <1>1, SplitAt
  <2>. QED BY <1>3, <2>1, <2>2
<1>11. /\ Served(targets, k) \cap Left(targets, k) = {}
       /\ Served(targets, k) \cup Left(targets, k) = SeqSet(targets)
  BY <1>1 DEF Served, Left, SeqSet, Distinct
<1>. QED BY <1>4, <1>6, <1>7, <1>8, <1>9, <1>10, <1>11 DEF LinksTypeOK
-----------------------------------------------------------------------------
(* The inductive invariant.                                                 *)

\* A suspended send is its task's last one, and has targets of that frame before it.
Pending(t) ==
  out[t] # NoFrame =>
    /\ out[t].from = t /\ out[t].no = Len(sent[t])
    /\ SeqSet(todo[t]) \subseteq SeqSet(Targets[out[t].via][out[t].dst])
    /\ Distinct(todo[t])

\* A frame that does not come from t, or was sent before its n-th.
Below(f, t, n) == f.from = t => f.no < n

\* What waits at a port: frames that were sent, to this port.
Waiting(p) ==
  \A k \in DOMAIN queue[p] :
    LET f == queue[p][k] IN
    /\ f.no <= Len(sent[f.from])
    /\ p \in SeqSet(Targets[f.via][f.dst])

\* What a loop has been given: frames that were sent.
Heard(i) == \A k \in DOMAIN log[i] : log[i][k].no <= Len(sent[log[i][k].from])

\* Frames that are already at a port are earlier than the one being put there.
Ahead(t) ==
  out[t] # NoFrame => \A p \in SeqSet(todo[t]) :
    /\ \A k \in DOMAIN queue[p] : Below(queue[p][k], t, out[t].no)
    /\ \A i \in Iface : Reads(i, p) => \A k \in DOMAIN log[i] : Below(log[i][k], t, out[t].no)

\* The frames of every sender, in the order they were sent.
Rising(s) == \A j, k \in DOMAIN s : j < k /\ s[j].from = s[k].from => s[j].no < s[k].no

\* Ordered, taken apart: the log, the queue, and the one before the other.
InOrder ==
  /\ \A p \in Port : Rising(queue[p])
  /\ \A i \in Iface : Rising(log[i])
  /\ \A i \in Iface : Wired(i) =>
       \A j \in DOMAIN log[i], k \in DOMAIN queue[PortOf[i]] :
         log[i][j].from = queue[PortOf[i]][k].from => log[i][j].no < queue[PortOf[i]][k].no

\* The inductive invariant.
LinksInv ==
  /\ LinksTypeOK
  /\ \A t \in Task : Pending(t) /\ Ahead(t)
  /\ \A p \in Port : Waiting(p)
  /\ \A i \in Iface : Heard(i)
  /\ InOrder

-----------------------------------------------------------------------------
(* Its steps.                                                               *)

\* What Send and Resume have in common: a task puts its newest frame, which is
\* later than all of its frames at the targets, into the first k of the targets.
Puts(t, f, targets, k) ==
  /\ f \in Frame /\ f.from = t
  /\ targets \in Seq(Port) /\ Distinct(targets)
  /\ SeqSet(targets) \subseteq SeqSet(Targets[f.via][f.dst])
  /\ k \in 0..Len(targets) /\ \A j \in 1..k : Room(targets[j])
  /\ \A p \in SeqSet(targets) :
       /\ \A j \in DOMAIN queue[p] : Below(queue[p][j], t, f.no)
       /\ \A i \in Iface : Reads(i, p) => \A j \in DOMAIN log[i] : Below(log[i][j], t, f.no)
  /\ Serve(t, f, targets, k)
  /\ sent' \in [Task -> Seq(Frame)] /\ f.no = Len(sent'[t])
  /\ \A s \in Task : Len(sent[s]) <= Len(sent'[s])
  /\ \A s \in Task \ {t} : sent'[s] = sent[s]
  /\ UNCHANGED <<busy, live, log>>

\* What a put does to queues and tasks.
LEMMA PutFacts ==
  ASSUME LinksTypeOK, NEW t \in Task, NEW f, NEW targets, NEW k, Puts(t, f, targets, k)
  PROVE  /\ queue' = [p \in Port |-> IF p \in Served(targets, k)
                                    THEN Append(queue[p], f) ELSE queue[p]]
         /\ out' = [out EXCEPT ![t] = IF k = Len(targets) THEN NoFrame ELSE f]
         /\ todo' \in [Task -> Seq(Port)]
         /\ \A s \in Task \ {t} : todo'[s] = todo[s]
         /\ SeqSet(todo'[t]) = Left(targets, k) /\ Distinct(todo'[t])
         /\ todo'[t] = <<>> <=> k = Len(targets)
         /\ Served(targets, k) \cap Left(targets, k) = {}
         /\ Served(targets, k) \cup Left(targets, k) = SeqSet(targets)
<1>1. /\ targets \in Seq(Port) /\ Distinct(targets) /\ k \in 0..Len(targets)
      /\ Serve(t, f, targets, k)
  BY DEF Puts
<1>. QED BY <1>1, ServeFacts

\* The queues after a put: a served port has the frame at its end.
LEMMA QueueAfter ==
  ASSUME LinksTypeOK, NEW t \in Task, NEW f, NEW targets, NEW k, Puts(t, f, targets, k),
         NEW p \in Port
  PROVE  /\ queue'[p] \in Seq(Frame) /\ Len(queue[p]) \in Nat
         /\ DOMAIN queue[p] = 1..Len(queue[p]) /\ DOMAIN queue'[p] = 1..Len(queue'[p])
         /\ p \notin Served(targets, k) => queue'[p] = queue[p]
         /\ p \in Served(targets, k) =>
              /\ p \in SeqSet(targets) /\ Len(queue[p]) < Capacity
              /\ Len(queue'[p]) = Len(queue[p]) + 1
              /\ \A j \in 1..Len(queue[p]) : queue'[p][j] = queue[p][j]
              /\ queue'[p][Len(queue[p]) + 1] = f
<1>1. /\ queue[p] \in Seq(Frame) /\ Len(queue[p]) \in Nat
      /\ DOMAIN queue[p] = 1..Len(queue[p])
  <2>1. queue[p] \in Seq(Frame)
    BY DEF LinksTypeOK
  <2>. QED BY <2>1, LenProperties
<1>2. queue'[p] = IF p \in Served(targets, k) THEN Append(queue[p], f) ELSE queue[p]
  <2>1. queue' = [q \in Port |-> IF q \in Served(targets, k)
                                THEN Append(queue[q], f) ELSE queue[q]]
    BY PutFacts
  <2>. QED BY <2>1
<1>3. f \in Frame
  BY DEF Puts
<1>4. CASE p \notin Served(targets, k)
  BY <1>1, <1>2, <1>4
<1>5. CASE p \in Served(targets, k)
  <2>1. queue'[p] = Append(queue[p], f)
    BY <1>2, <1>5
  <2>2. /\ queue'[p] \in Seq(Frame) /\ Len(queue'[p]) = Len(queue[p]) + 1
        /\ \A j \in 1..Len(queue[p]) : queue'[p][j] = queue[p][j]
        /\ queue'[p][Len(queue[p]) + 1] = f
    BY <1>1, <1>3, <2>1, AppendProperties
  <2>3. DOMAIN queue'[p] = 1..Len(queue'[p])
    BY <2>2, LenProperties
  <2>4. p \in SeqSet(targets)
    BY <1>5, PutFacts
  <2>5. Len(queue[p]) < Capacity
    BY <1>5 DEF Puts, Served, Room
  <2>. QED BY <1>1, <1>5, <2>2, <2>3, <2>4, <2>5
<1>. QED BY <1>4, <1>5

\* A put keeps the types, and no queue ever holds more than Capacity.
LEMMA PutTypes ==
  ASSUME LinksTypeOK, NEW t \in Task, NEW f, NEW targets, NEW k, Puts(t, f, targets, k)
  PROVE  LinksTypeOK'
<1>1. /\ queue' = [p \in Port |-> queue'[p]]
      /\ out' = [out EXCEPT ![t] = IF k = Len(targets) THEN NoFrame ELSE f]
      /\ todo' \in [Task -> Seq(Port)]
      /\ \A s \in Task \ {t} : todo'[s] = todo[s]
      /\ todo'[t] = <<>> <=> k = Len(targets)
  BY PutFacts
<1>2. \A p \in Port : queue'[p] \in Seq(Frame)
  BY QueueAfter
<1>3. \A p \in Port : Len(queue'[p]) <= Capacity
  <2>. TAKE p \in Port
  <2>1. Len(queue[p]) <= Capacity
    BY DEF LinksTypeOK
  <2>2. Capacity \in Nat
    BY LinksAssumption
  <2>3. CASE p \in Served(targets, k)
    BY <2>2, <2>3, QueueAfter
  <2>4. CASE p \notin Served(targets, k)
    BY <2>1, <2>4, QueueAfter
  <2>. QED BY <2>3, <2>4
<1>4. f \in Frame /\ f # NoFrame
  BY LinksAssumption DEF Puts, Frame
<1>5. out' \in [Task -> Frame \cup {NoFrame}]
  BY <1>1, <1>4 DEF LinksTypeOK
<1>6. \A s \in Task : out'[s] = NoFrame <=> todo'[s] = <<>>
  BY <1>1, <1>4 DEF LinksTypeOK
<1>7. /\ busy' \subseteq Iface /\ live' \subseteq Task /\ sent' \in [Task -> Seq(Frame)]
      /\ log' \in [Iface -> Seq(Frame)]
  BY DEF LinksTypeOK, Puts
<1>8. queue' \in [Port -> Seq(Frame)]
  BY <1>1, <1>2
<1>. QED BY <1>1, <1>3, <1>5, <1>6, <1>7, <1>8 DEF LinksTypeOK

\* A put leaves every suspended send behind the frames its task has put before.
LEMMA PutPending ==
  ASSUME LinksInv, NEW t \in Task, NEW f, NEW targets, NEW k, Puts(t, f, targets, k)
  PROVE  \A s \in Task : Pending(s)' /\ Ahead(s)'
<1>0. LinksTypeOK /\ f \in Frame /\ f # NoFrame /\ f.from = t
  BY LinksAssumption DEF Puts, Frame, LinksInv
<1>1. /\ out' = [out EXCEPT ![t] = IF k = Len(targets) THEN NoFrame ELSE f]
      /\ \A s \in Task \ {t} : todo'[s] = todo[s]
      /\ SeqSet(todo'[t]) = Left(targets, k) /\ Distinct(todo'[t])
      /\ Served(targets, k) \cap Left(targets, k) = {}
      /\ Served(targets, k) \cup Left(targets, k) = SeqSet(targets)
  BY <1>0, PutFacts
<1>2. out \in [Task -> Frame \cup {NoFrame}] /\ todo \in [Task -> Seq(Port)]
  BY <1>0 DEF LinksTypeOK
<1>3. /\ f.no = Len(sent'[t]) /\ \A s \in Task \ {t} : sent'[s] = sent[s]
      /\ SeqSet(targets) \subseteq SeqSet(Targets[f.via][f.dst]) /\ log' = log
      /\ targets \in Seq(Port)
  BY DEF Puts
<1>4. ASSUME NEW s \in Task, s # t, out'[s] # NoFrame
      PROVE  Pending(s)' /\ Ahead(s)'
  <2>1. out'[s] = out[s] /\ todo'[s] = todo[s] /\ sent'[s] = sent[s]
    BY <1>1, <1>2, <1>3, <1>4
  <2>2. Pending(s) /\ Ahead(s)
    BY DEF LinksInv
  <2>3. Pending(s)'
    BY <2>1, <2>2 DEF Pending
  <2>4. ASSUME NEW p \in SeqSet(todo[s]), NEW j \in DOMAIN queue'[p]
        PROVE  Below(queue'[p][j], s, out[s].no)
    <3>1. p \in Port
      <4>1. todo[s] \in Seq(Port)
        BY <1>2
      <4>. QED BY <2>4, <4>1, LenProperties DEF SeqSet
    <3>2. \A m \in DOMAIN queue[p] : Below(queue[p][m], s, out[s].no)
      BY <2>2, <1>4, <2>1, <2>4 DEF Ahead
    <3>3. CASE j \in DOMAIN queue[p]
      <4>1. queue'[p][j] = queue[p][j]
        BY <1>0, <3>1, <3>3, QueueAfter
      <4>. QED BY <3>2, <3>3, <4>1
    <3>4. CASE j \notin DOMAIN queue[p]
      <4>1. queue'[p][j] = f
        BY <1>0, <2>4, <3>1, <3>4, QueueAfter
      <4>. QED BY <1>0, <1>4, <4>1 DEF Below
    <3>. QED BY <3>3, <3>4
  <2>5. Ahead(s)'
    BY <2>1, <2>2, <2>4, <1>3, <1>4 DEF Ahead, Reads
  <2>. QED BY <2>3, <2>5
<1>5. ASSUME out'[t] # NoFrame
      PROVE  Pending(t)' /\ Ahead(t)'
  <2>1. out'[t] = f
    BY <1>1, <1>2, <1>5
  <2>2. Pending(t)'
    BY <1>0, <1>1, <1>3, <2>1 DEF Pending
  <2>3. ASSUME NEW p \in SeqSet(todo'[t])
        PROVE  /\ \A j \in DOMAIN queue'[p] : Below(queue'[p][j], t, f.no)
               /\ \A i \in Iface : Reads(i, p) => \A j \in DOMAIN log[i] : Below(log[i][j], t, f.no)
    <3>1. p \in SeqSet(targets) /\ p \notin Served(targets, k)
      BY <1>1
    <3>2. p \in Port
      BY <3>1, <1>3, LenProperties DEF SeqSet
    <3>3. queue'[p] = queue[p]
      BY <1>0, <3>1, <3>2, QueueAfter
    <3>. QED BY <3>1, <3>3 DEF Puts
  <2>4. Ahead(t)'
    BY <2>1, <2>3, <1>3 DEF Ahead, Reads
  <2>. QED BY <2>2, <2>4
<1>6. \A s \in Task : out'[s] = NoFrame => Pending(s)' /\ Ahead(s)'
  BY DEF Pending, Ahead
<1>. QED BY <1>4, <1>5, <1>6

\* What waits after a put was sent, and to the port where it waits.
LEMMA PutWaiting ==
  ASSUME LinksInv, NEW t \in Task, NEW f, NEW targets, NEW k, Puts(t, f, targets, k)
  PROVE  /\ \A p \in Port : Waiting(p)'
         /\ \A i \in Iface : Heard(i)'
<1>0. /\ LinksTypeOK /\ f \in Frame /\ f.from = t /\ f.no = Len(sent'[t]) /\ log' = log
      /\ \A s \in Task : Len(sent[s]) <= Len(sent'[s])
      /\ SeqSet(targets) \subseteq SeqSet(Targets[f.via][f.dst])
      /\ sent' \in [Task -> Seq(Frame)]
  BY DEF Puts, LinksInv
<1>1. \A s \in Task : Len(sent[s]) \in Nat /\ Len(sent'[s]) \in Nat
  <2>. TAKE s \in Task
  <2>1. sent[s] \in Seq(Frame) /\ sent'[s] \in Seq(Frame)
    BY <1>0 DEF LinksTypeOK
  <2>. QED BY <2>1, LenProperties
<1>2. ASSUME NEW p \in Port PROVE Waiting(p)'
  <2>. SUFFICES ASSUME NEW j \in DOMAIN queue'[p]
                PROVE  /\ queue'[p][j].no <= Len(sent'[queue'[p][j].from])
                       /\ p \in SeqSet(Targets[queue'[p][j].via][queue'[p][j].dst])
    BY DEF Waiting
  <2>1. CASE j \in DOMAIN queue[p]
    <3>1. queue'[p][j] = queue[p][j]
      BY <1>0, <2>1, QueueAfter
    <3>2. queue[p][j] \in Frame
      BY <1>0, <2>1, QueueAfter, ElementOfSeq DEF LinksTypeOK
    <3>3. queue[p][j].no <= Len(sent[queue[p][j].from]) /\ queue[p][j].from \in Task /\ queue[p][j].no \in Nat
          /\ p \in SeqSet(Targets[queue[p][j].via][queue[p][j].dst])
      BY <2>1, <3>2 DEF LinksInv, Waiting, Frame
    <3>. QED BY <1>0, <1>1, <3>1, <3>3
  <2>2. CASE j \notin DOMAIN queue[p]
    <3>1. queue'[p][j] = f /\ p \in SeqSet(targets)
      BY <1>0, <2>2, QueueAfter
    <3>. QED BY <1>0, <1>1, <3>1
  <2>. QED BY <2>1, <2>2
<1>3. ASSUME NEW i \in Iface PROVE Heard(i)'
  <2>. SUFFICES ASSUME NEW j \in DOMAIN log[i]
                PROVE  log[i][j].no <= Len(sent'[log[i][j].from])
    BY <1>0 DEF Heard
  <2>1. log[i][j] \in Frame
    <3>1. log[i] \in Seq(Frame)
      BY <1>0 DEF LinksTypeOK
    <3>. QED BY <3>1, LenProperties
  <2>2. log[i][j].no <= Len(sent[log[i][j].from]) /\ log[i][j].from \in Task /\ log[i][j].no \in Nat
    BY <2>1 DEF LinksInv, Heard, Frame
  <2>. QED BY <1>0, <1>1, <2>2
<1>. QED BY <1>2, <1>3

\* A put is behind everything of its task that its targets have seen.
LEMMA PutInOrder ==
  ASSUME LinksInv, NEW t \in Task, NEW f, NEW targets, NEW k, Puts(t, f, targets, k)
  PROVE  InOrder'
<1>0. /\ LinksTypeOK /\ InOrder /\ f \in Frame /\ f.from = t /\ log' = log
  BY DEF Puts, LinksInv
<1>1. \A p \in SeqSet(targets) :
        /\ \A j \in DOMAIN queue[p] : Below(queue[p][j], t, f.no)
        /\ \A i \in Iface : Reads(i, p) => \A j \in DOMAIN log[i] : Below(log[i][j], t, f.no)
  BY DEF Puts
<1>2. ASSUME NEW p \in Port PROVE Rising(queue'[p])
  <2>1. Rising(queue[p])
    BY <1>0 DEF InOrder
  <2>2. CASE p \notin Served(targets, k)
    BY <1>0, <2>1, <2>2, QueueAfter
  <2>3. CASE p \in Served(targets, k)
    <3>. SUFFICES ASSUME NEW i \in DOMAIN queue'[p], NEW j \in DOMAIN queue'[p], i < j,
                         queue'[p][i].from = queue'[p][j].from
                  PROVE  queue'[p][i].no < queue'[p][j].no
      BY DEF Rising
    <3>1. /\ Len(queue[p]) \in Nat /\ DOMAIN queue[p] = 1..Len(queue[p])
          /\ DOMAIN queue'[p] = 1..(Len(queue[p]) + 1)
          /\ p \in SeqSet(targets)
          /\ \A m \in 1..Len(queue[p]) : queue'[p][m] = queue[p][m]
          /\ queue'[p][Len(queue[p]) + 1] = f
      BY <1>0, <2>3, QueueAfter
    <3>2. i \in 1..Len(queue[p]) /\ (j \in 1..Len(queue[p]) \/ j = Len(queue[p]) + 1)
      BY <3>1
    <3>3. CASE j \in 1..Len(queue[p])
      BY <2>1, <3>1, <3>2, <3>3 DEF Rising
    <3>4. CASE j = Len(queue[p]) + 1
      BY <1>0, <1>1, <3>1, <3>2, <3>4 DEF Below
    <3>. QED BY <3>2, <3>3, <3>4
  <2>. QED BY <2>2, <2>3
<1>3. ASSUME NEW i \in Iface, Wired(i), NEW j \in DOMAIN log[i],
             NEW m \in DOMAIN queue'[PortOf[i]],
             log[i][j].from = queue'[PortOf[i]][m].from
      PROVE  log[i][j].no < queue'[PortOf[i]][m].no
  <2>. DEFINE p == PortOf[i]
  <2>1. p \in Port
    BY <1>3, WiredPort
  <2>. HIDE DEF p
  <2>2. \A n \in DOMAIN queue[p] : log[i][j].from = queue[p][n].from => log[i][j].no < queue[p][n].no
    BY <1>0, <1>3 DEF InOrder, p
  <2>3. m \in DOMAIN queue'[p] /\ log[i][j].from = queue'[p][m].from
    BY <1>3 DEF p
  <2>4. CASE m \in DOMAIN queue[p]
    <3>1. queue'[p][m] = queue[p][m]
      BY <1>0, <2>1, <2>4, QueueAfter
    <3>. QED BY <2>2, <2>3, <2>4, <3>1 DEF p
  <2>5. CASE m \notin DOMAIN queue[p]
    <3>1. queue'[p][m] = f /\ p \in SeqSet(targets)
      BY <1>0, <2>1, <2>3, <2>5, QueueAfter
    <3>2. Reads(i, p)
      BY <1>3 DEF Reads, p
    <3>. QED BY <1>0, <1>1, <1>3, <2>3, <3>1, <3>2 DEF Below, p
  <2>. QED BY <2>4, <2>5
<1>. QED BY <1>0, <1>2, <1>3 DEF InOrder

\* Any put keeps the invariant.
LEMMA PutKeeps ==
  ASSUME LinksInv, NEW t \in Task, NEW f, NEW targets, NEW k, Puts(t, f, targets, k)
  PROVE  LinksInv'
<1>1. LinksTypeOK'
  BY PutTypes DEF LinksInv
<1>. QED BY <1>1, PutPending, PutWaiting, PutInOrder DEF LinksInv

\* send_frame is a put: the frame is its task's newest, its targets are among those
\* the medium names, whatever a lossy link forgets of them.
LEMMA SendPuts ==
  ASSUME LinksInv, NEW t \in Task, NEW i \in Iface, NEW d \in Dst, Send(t, i, d)
  PROVE  LET f == [from |-> t, no |-> Len(sent[t]) + 1, via |-> i, dst |-> d]
         IN \E lost \in SUBSET SeqSet(Targets[i][d]) : \E targets, k :
              /\ Puts(t, f, targets, k)
              /\ ~OnMedium(i, Lossy) => lost = {}
              /\ SeqSet(targets) = SeqSet(Targets[i][d]) \ lost
              /\ out[t] = NoFrame /\ sent' = [sent EXCEPT ![t] = Append(@, f)]
<1>. DEFINE f == [from |-> t, no |-> Len(sent[t]) + 1, via |-> i, dst |-> d]
            all == Targets[i][d]
<1>1. PICK lost \in (IF OnMedium(i, Lossy) THEN SUBSET SeqSet(all) ELSE {{}}) :
        Serve(t, f, Among(all, SeqSet(all) \ lost),
              IF OnMedium(i, Slow) THEN 0 ELSE Fitting(Among(all, SeqSet(all) \ lost)))
  BY DEF Send
<1>. DEFINE targets == Among(all, SeqSet(all) \ lost)
            k == IF OnMedium(i, Slow) THEN 0 ELSE Fitting(targets)
<1>2. LinksTypeOK /\ sent[t] \in Seq(Frame) /\ Len(sent[t]) \in Nat
  <2>1. LinksTypeOK /\ sent[t] \in Seq(Frame)
    BY DEF LinksInv, LinksTypeOK
  <2>. QED BY <2>1, LenProperties
<1>3. f \in Frame /\ f.from = t /\ f.no = Len(sent[t]) + 1
  BY <1>2 DEF Frame
<1>4. /\ targets \in Seq(Port) /\ Distinct(targets)
      /\ SeqSet(targets) = SeqSet(all) \ lost
  <2>1. all \in Seq(Port) /\ Distinct(all)
    BY TargetsFacts
  <2>. HIDE DEF all
  <2>. QED BY <2>1, AmongFacts
<1>5. Serve(t, f, targets, k)
  BY <1>1
<1>6. /\ sent' = [sent EXCEPT ![t] = Append(@, f)] /\ out[t] = NoFrame
      /\ UNCHANGED <<busy, live, log>>
  BY DEF Send
<1>7. lost \in SUBSET SeqSet(all) /\ (~OnMedium(i, Lossy) => lost = {})
  BY <1>1
<1>. HIDE DEF targets
<1>8. k \in 0..Len(targets) /\ \A j \in 1..k : Room(targets[j])
  <2>1. Len(targets) \in Nat
    BY <1>4, LenProperties
  <2>. QED BY <2>1, <1>4, FittingFacts
<1>. HIDE DEF k
<1>9. f.via = i /\ f.dst = d
  OBVIOUS
<1>. HIDE DEF f
<1>10. /\ sent' \in [Task -> Seq(Frame)] /\ f.no = Len(sent'[t])
       /\ \A s \in Task : Len(sent[s]) <= Len(sent'[s])
       /\ \A s \in Task \ {t} : sent'[s] = sent[s]
  <2>1. /\ Append(sent[t], f) \in Seq(Frame)
        /\ Len(Append(sent[t], f)) = Len(sent[t]) + 1
    BY <1>2, <1>3, AppendProperties
  <2>2. sent'[t] = Append(sent[t], f) /\ \A s \in Task \ {t} : sent'[s] = sent[s]
    BY <1>2, <1>6 DEF LinksTypeOK
  <2>3. \A s \in Task : Len(sent[s]) \in Nat
    <3>. TAKE s \in Task
    <3>1. sent[s] \in Seq(Frame)
      BY <1>2 DEF LinksTypeOK
    <3>. QED BY <3>1, LenProperties
  <2>4. \A s \in Task : Len(sent[s]) <= Len(sent'[s])
    BY <1>2, <2>1, <2>2, <2>3
  <2>5. sent' \in [Task -> Seq(Frame)]
    BY <1>2, <1>6, <2>1 DEF LinksTypeOK
  <2>. QED BY <1>3, <2>1, <2>2, <2>4, <2>5
<1>11. \A p \in SeqSet(targets) :
        /\ \A j \in DOMAIN queue[p] : Below(queue[p][j], t, f.no)
        /\ \A h \in Iface : Reads(h, p) => \A j \in DOMAIN log[h] : Below(log[h][j], t, f.no)
  <2>1. \A p \in Port : \A j \in DOMAIN queue[p] : Below(queue[p][j], t, f.no)
    <3>. TAKE p \in Port
    <3>. TAKE j \in DOMAIN queue[p]
    <3>1. queue[p] \in Seq(Frame)
      BY <1>2 DEF LinksTypeOK
    <3>2. queue[p][j] \in Frame
      BY <3>1, LenProperties, ElementOfSeq
    <3>3. queue[p][j].no <= Len(sent[queue[p][j].from])
      BY DEF LinksInv, Waiting
    <3>. QED BY <1>2, <1>3, <3>2, <3>3 DEF Below, Frame
  <2>2. \A h \in Iface : \A j \in DOMAIN log[h] : Below(log[h][j], t, f.no)
    <3>. TAKE h \in Iface
    <3>. TAKE j \in DOMAIN log[h]
    <3>1. log[h] \in Seq(Frame)
      BY <1>2 DEF LinksTypeOK
    <3>2. log[h][j] \in Frame
      BY <3>1, LenProperties, ElementOfSeq
    <3>3. log[h][j].no <= Len(sent[log[h][j].from])
      BY DEF LinksInv, Heard
    <3>. QED BY <1>2, <1>3, <3>2, <3>3 DEF Below, Frame
  <2>3. SeqSet(targets) \subseteq Port
    BY <1>4, LenProperties DEF SeqSet
  <2>. QED BY <2>1, <2>2, <2>3
<1>12. Puts(t, f, targets, k)
  BY <1>3, <1>4, <1>5, <1>6, <1>8, <1>9, <1>10, <1>11 DEF Puts
<1>. QED BY <1>4, <1>6, <1>7, <1>12 DEF f

\* A send that goes on is a put of the same frame to the targets it has left.
LEMMA ResumePuts ==
  ASSUME LinksInv, NEW t \in Task, Resume(t)
  PROVE  /\ \E k : Puts(t, out[t], todo[t], k)
         /\ sent' = sent
<1>. DEFINE k == IF OnMedium(out[t].via, Slow) THEN 1 ELSE Fitting(todo[t])
<1>1. /\ out[t] # NoFrame /\ Fitting(todo[t]) > 0 /\ Serve(t, out[t], todo[t], k)
      /\ UNCHANGED <<busy, live, sent, log>>
  BY DEF Resume
<1>2. /\ LinksTypeOK /\ out[t] \in Frame /\ todo[t] \in Seq(Port) /\ Pending(t) /\ Ahead(t)
      /\ sent \in [Task -> Seq(Frame)]
  BY <1>1 DEF LinksInv, LinksTypeOK
<1>3. k \in 0..Len(todo[t]) /\ \A j \in 1..k : Room(todo[t][j])
  <2>1. Len(todo[t]) \in Nat
    BY <1>2, LenProperties
  <2>. QED BY <1>1, <1>2, <2>1, FittingFacts
<1>. HIDE DEF k
<1>4. /\ out[t].from = t /\ out[t].no = Len(sent[t]) /\ Distinct(todo[t])
      /\ SeqSet(todo[t]) \subseteq SeqSet(Targets[out[t].via][out[t].dst])
  BY <1>1, <1>2 DEF Pending
<1>5. \A s \in Task : Len(sent[s]) <= Len(sent[s])
  <2>. TAKE s \in Task
  <2>1. Len(sent[s]) \in Nat
    BY <1>2, LenProperties
  <2>. QED BY <2>1
<1>6. \A p \in SeqSet(todo[t]) :
        /\ \A j \in DOMAIN queue[p] : Below(queue[p][j], t, out[t].no)
        /\ \A h \in Iface : Reads(h, p) => \A j \in DOMAIN log[h] : Below(log[h][j], t, out[t].no)
  BY <1>1, <1>2 DEF Ahead
<1>7. Puts(t, out[t], todo[t], k)
  BY <1>1, <1>2, <1>3, <1>4, <1>5, <1>6 DEF Puts
<1>. QED BY <1>1, <1>7

\* The queue and the log of a loop that has been given the first frame of its queue.
LEMMA ReceiveFacts ==
  ASSUME LinksTypeOK, NEW i \in Iface, Receive(i)
  PROVE  LET p == PortOf[i] IN
         /\ p \in Port /\ Wired(i) /\ UNCHANGED <<out, todo, live, sent>>
         /\ busy' = busy \cup {i}
         /\ \A q \in Port \ {p} : queue'[q] = queue[q]
         /\ \A h \in Iface \ {i} : log'[h] = log[h]
         /\ queue' \in [Port -> Seq(Frame)] /\ log' \in [Iface -> Seq(Frame)]
         /\ Len(queue[p]) \in Nat \ {0} /\ Len(queue'[p]) = Len(queue[p]) - 1
         /\ DOMAIN queue[p] = 1..Len(queue[p]) /\ DOMAIN queue'[p] = 1..(Len(queue[p]) - 1)
         /\ \A k \in 1..(Len(queue[p]) - 1) : queue'[p][k] = queue[p][k + 1]
         /\ Len(log[i]) \in Nat /\ DOMAIN log[i] = 1..Len(log[i])
         /\ DOMAIN log'[i] = 1..(Len(log[i]) + 1)
         /\ \A k \in 1..Len(log[i]) : log'[i][k] = log[i][k]
         /\ log'[i][Len(log[i]) + 1] = queue[p][1]
<1>. DEFINE p == PortOf[i]
<1>1. /\ Wired(i) /\ queue[p] # <<>> /\ UNCHANGED <<out, todo, live, sent>>
      /\ queue' = [queue EXCEPT ![p] = Tail(@)]
      /\ log' = [log EXCEPT ![i] = Append(@, Head(queue[p]))]
      /\ busy' = busy \cup {i}
  BY DEF Receive
<1>2. p \in Port
  BY <1>1, WiredPort
<1>. HIDE DEF p
<1>3. /\ queue \in [Port -> Seq(Frame)] /\ log \in [Iface -> Seq(Frame)]
      /\ queue[p] \in Seq(Frame) /\ log[i] \in Seq(Frame)
  BY <1>2 DEF LinksTypeOK
<1>4. Len(queue[p]) \in Nat \ {0} /\ DOMAIN queue[p] = 1..Len(queue[p])
  BY <1>1, <1>3, EmptySeq, LenProperties
<1>5. /\ Tail(queue[p]) \in Seq(Frame) /\ Len(Tail(queue[p])) = Len(queue[p]) - 1
      /\ \A k \in 1..Len(Tail(queue[p])) : Tail(queue[p])[k] = queue[p][k + 1]
      /\ Head(queue[p]) \in Frame
  BY <1>1, <1>3, HeadTailProperties
<1>6. Head(queue[p]) = queue[p][1]
  BY <1>3, <1>4
<1>7. /\ Append(log[i], Head(queue[p])) \in Seq(Frame)
      /\ Len(Append(log[i], Head(queue[p]))) = Len(log[i]) + 1
      /\ \A k \in 1..Len(log[i]) : Append(log[i], Head(queue[p]))[k] = log[i][k]
      /\ Append(log[i], Head(queue[p]))[Len(log[i]) + 1] = Head(queue[p])
  BY <1>3, <1>5, AppendProperties
<1>8. queue'[p] = Tail(queue[p]) /\ log'[i] = Append(log[i], Head(queue[p]))
  BY <1>1, <1>2, <1>3
<1>9. Len(log[i]) \in Nat /\ DOMAIN log[i] = 1..Len(log[i])
  BY <1>3, LenProperties
<1>10. DOMAIN queue'[p] = 1..(Len(queue[p]) - 1)
  BY <1>5, <1>8, LenProperties
<1>11. DOMAIN log'[i] = 1..(Len(log[i]) + 1)
  BY <1>7, <1>8, LenProperties
<1>12. queue' \in [Port -> Seq(Frame)] /\ log' \in [Iface -> Seq(Frame)]
  BY <1>1, <1>2, <1>3, <1>5, <1>7
<1>13. /\ \A q \in Port \ {p} : queue'[q] = queue[q]
       /\ \A h \in Iface \ {i} : log'[h] = log[h]
  BY <1>1, <1>3
<1>. QED BY <1>1, <1>2, <1>4, <1>5, <1>6, <1>7, <1>8, <1>9, <1>10, <1>11, <1>12, <1>13 DEF p

\* recv_frame moves the first frame of a queue to the end of what its loop has seen.
LEMMA ReceiveKeeps ==
  ASSUME LinksInv, NEW i \in Iface, Receive(i)
  PROVE  LinksInv'
<1>. DEFINE p == PortOf[i]
            n == Len(queue[p])
            m == Len(log[i])
<1>0. LinksTypeOK /\ InOrder
  BY DEF LinksInv
<1>1. /\ p \in Port /\ Wired(i) /\ UNCHANGED <<out, todo, live, sent>> /\ busy' = busy \cup {i}
      /\ \A q \in Port \ {p} : queue'[q] = queue[q]
      /\ \A h \in Iface \ {i} : log'[h] = log[h]
      /\ queue' \in [Port -> Seq(Frame)] /\ log' \in [Iface -> Seq(Frame)]
      /\ n \in Nat \ {0} /\ Len(queue'[p]) = n - 1
      /\ DOMAIN queue[p] = 1..n /\ DOMAIN queue'[p] = 1..(n - 1)
      /\ \A k \in 1..(n - 1) : queue'[p][k] = queue[p][k + 1]
      /\ m \in Nat /\ DOMAIN log[i] = 1..m /\ DOMAIN log'[i] = 1..(m + 1)
      /\ \A k \in 1..m : log'[i][k] = log[i][k]
      /\ log'[i][m + 1] = queue[p][1]
  BY <1>0, ReceiveFacts
<1>. HIDE DEF p, n, m
<1>2. /\ \A k \in DOMAIN queue'[p] : k + 1 \in DOMAIN queue[p] /\ queue'[p][k] = queue[p][k + 1]
      /\ 1 \in DOMAIN queue[p]
      /\ \A k \in DOMAIN log'[i] : \/ k \in DOMAIN log[i] /\ log'[i][k] = log[i][k]
                                   \/ k \notin DOMAIN log[i] /\ log'[i][k] = queue[p][1]
                                      /\ \A j \in DOMAIN log'[i] : j <= k
  BY <1>1
<1>3. LinksTypeOK'
  <2>1. \A q \in Port : Len(queue'[q]) <= Capacity
    <3>. TAKE q \in Port
    <3>1. Len(queue[q]) <= Capacity /\ Capacity \in Nat
      BY <1>0, LinksAssumption DEF LinksTypeOK
    <3>2. CASE q = p
      <4>1. n <= Capacity
        BY <3>1, <3>2 DEF n
      <4>. QED BY <1>1, <3>1, <3>2, <4>1
    <3>. QED BY <1>1, <3>1, <3>2
  <2>. QED BY <1>0, <1>1, <2>1 DEF LinksTypeOK
<1>4. ASSUME NEW s \in Task PROVE Pending(s)' /\ Ahead(s)'
  <2>1. Pending(s) /\ Ahead(s) /\ UNCHANGED <<out, todo, sent>>
    BY <1>1 DEF LinksInv
  <2>2. ASSUME out[s] # NoFrame, NEW q \in SeqSet(todo[s])
        PROVE  /\ \A k \in DOMAIN queue'[q] : Below(queue'[q][k], s, out[s].no)
               /\ \A h \in Iface : Reads(h, q) => \A k \in DOMAIN log'[h] : Below(log'[h][k], s, out[s].no)
    <3>0. q \in Port
      <4>1. todo[s] \in Seq(Port)
        BY <1>0 DEF LinksTypeOK
      <4>. QED BY <2>2, <4>1, LenProperties DEF SeqSet
    <3>1. /\ \A k \in DOMAIN queue[q] : Below(queue[q][k], s, out[s].no)
          /\ \A h \in Iface : Reads(h, q) => \A k \in DOMAIN log[h] : Below(log[h][k], s, out[s].no)
      BY <2>1, <2>2 DEF Ahead
    <3>2. \A k \in DOMAIN queue'[q] : Below(queue'[q][k], s, out[s].no)
      <4>1. CASE q = p
        BY <1>2, <3>1, <4>1
      <4>2. CASE q # p
        BY <1>1, <3>0, <3>1, <4>2
      <4>. QED BY <4>1, <4>2
    <3>3. ASSUME NEW h \in Iface, Reads(h, q), NEW k \in DOMAIN log'[h]
          PROVE  Below(log'[h][k], s, out[s].no)
      <4>1. CASE h = i
        <5>1. q = p
          BY <3>3, <4>1 DEF Reads, p
        <5>. QED BY <1>2, <3>1, <3>3, <4>1, <5>1
      <4>2. CASE h # i
        BY <1>1, <3>1, <3>3, <4>2
      <4>. QED BY <4>1, <4>2
    <3>. QED BY <3>2, <3>3
  <2>. QED BY <2>1, <2>2 DEF Pending, Ahead, Reads
<1>5. ASSUME NEW q \in Port PROVE Waiting(q)'
  <2>1. Waiting(q) /\ UNCHANGED sent
    BY <1>1 DEF LinksInv
  <2>2. CASE q = p
    BY <1>2, <2>1, <2>2 DEF Waiting
  <2>3. CASE q # p
    BY <1>1, <2>1, <2>3 DEF Waiting
  <2>. QED BY <2>2, <2>3
<1>6. ASSUME NEW h \in Iface PROVE Heard(h)'
  <2>1. Heard(h) /\ UNCHANGED sent /\ Waiting(p)
    BY <1>1 DEF LinksInv
  <2>2. CASE h = i
    BY <1>2, <2>1, <2>2 DEF Heard, Waiting
  <2>3. CASE h # i
    BY <1>1, <2>1, <2>3 DEF Heard
  <2>. QED BY <2>2, <2>3
<1>7. InOrder'
  <2>1. ASSUME NEW q \in Port PROVE Rising(queue'[q])
    <3>1. Rising(queue[q])
      BY <1>0 DEF InOrder
    <3>2. CASE q = p
      <4>. SUFFICES ASSUME NEW j \in DOMAIN queue'[p], NEW k \in DOMAIN queue'[p], j < k,
                           queue'[p][j].from = queue'[p][k].from
                    PROVE  queue'[p][j].no < queue'[p][k].no
        BY <3>2 DEF Rising
      <4>1. j + 1 < k + 1
        BY <1>1
      <4>. QED BY <1>2, <3>1, <3>2, <4>1 DEF Rising
    <3>3. CASE q # p
      BY <1>1, <3>1, <3>3
    <3>. QED BY <3>2, <3>3
  <2>2. \A j \in DOMAIN log[i], k \in DOMAIN queue[p] :
          log[i][j].from = queue[p][k].from => log[i][j].no < queue[p][k].no
    BY <1>0, <1>1 DEF InOrder, p
  <2>3. Rising(queue[p])
    BY <1>0, <1>1 DEF InOrder
  <2>4. ASSUME NEW h \in Iface PROVE Rising(log'[h])
    <3>1. Rising(log[h])
      BY <1>0 DEF InOrder
    <3>2. CASE h = i
      <4>. SUFFICES ASSUME NEW j \in DOMAIN log'[i], NEW k \in DOMAIN log'[i], j < k,
                           log'[i][j].from = log'[i][k].from
                    PROVE  log'[i][j].no < log'[i][k].no
        BY <3>2 DEF Rising
      <4>1. j \in DOMAIN log[i] /\ log'[i][j] = log[i][j]
        BY <1>1
      <4>2. CASE k \in DOMAIN log[i]
        BY <1>2, <3>1, <3>2, <4>1, <4>2 DEF Rising
      <4>3. CASE k \notin DOMAIN log[i]
        BY <1>2, <2>2, <4>1, <4>3
      <4>. QED BY <4>2, <4>3
    <3>3. CASE h # i
      BY <1>1, <3>1, <3>3
    <3>. QED BY <3>2, <3>3
  <2>5. ASSUME NEW h \in Iface, Wired(h), NEW j \in DOMAIN log'[h],
               NEW k \in DOMAIN queue'[PortOf[h]],
               log'[h][j].from = queue'[PortOf[h]][k].from
        PROVE  log'[h][j].no < queue'[PortOf[h]][k].no
    <3>. DEFINE q == PortOf[h]
    <3>0. q \in Port
      BY <2>5, WiredPort
    <3>. HIDE DEF q
    <3>1. \A b \in DOMAIN log[h], c \in DOMAIN queue[q] :
            log[h][b].from = queue[q][c].from => log[h][b].no < queue[q][c].no
      BY <1>0, <2>5 DEF InOrder, q
    <3>2. k \in DOMAIN queue'[q] /\ log'[h][j].from = queue'[q][k].from
      BY <2>5 DEF q
    <3>3. PICK c \in DOMAIN queue[q] :
            queue'[q][k] = queue[q][c] /\ (q = p => c = k + 1)
      <4>1. CASE q = p
        BY <1>2, <3>2, <4>1
      <4>2. CASE q # p
        BY <1>1, <3>0, <3>2, <4>2
      <4>. QED BY <4>1, <4>2
    <3>4. CASE h # i
      <4>1. log'[h] = log[h]
        BY <1>1, <3>4
      <4>2. j \in DOMAIN log[h] /\ log[h][j].from = queue[q][c].from
        BY <2>5, <3>2, <3>3, <4>1
      <4>3. log[h][j].no < queue[q][c].no
        BY <3>1, <4>2
      <4>. QED BY <3>3, <4>1, <4>3 DEF q
    <3>5. CASE h = i
      <4>1. q = p
        BY <3>5 DEF q, p
      <4>2. CASE j \in DOMAIN log[i]
        <5>1. log'[h][j] = log[h][j]
          BY <1>1, <3>5, <4>2
        <5>2. log[h][j].no < queue[q][c].no
          BY <3>1, <3>2, <3>3, <3>5, <4>2, <5>1
        <5>. QED BY <3>3, <5>1, <5>2 DEF q
      <4>3. CASE j \notin DOMAIN log[i]
        <5>1. log'[h][j] = queue[p][1]
          BY <1>2, <2>5, <3>5, <4>3
        <5>2. 1 < c
          BY <1>1, <3>2, <3>3, <4>1
        <5>. QED BY <1>2, <2>3, <3>2, <3>3, <4>1, <5>1, <5>2 DEF Rising, q
      <4>. QED BY <4>2, <4>3
    <3>. QED BY <3>4, <3>5
  <2>. QED BY <2>1, <2>4, <2>5 DEF InOrder
<1>. QED BY <1>3, <1>4, <1>5, <1>6, <1>7 DEF LinksInv

\* The end of a handler and the cancellation of tasks touch no queue.
LEMMA RestKeeps ==
  ASSUME LinksInv, UNCHANGED <<queue, sent, log>>,
         busy' \subseteq busy, live' \subseteq live,
         out' \in [Task -> Frame \cup {NoFrame}], todo' \in [Task -> Seq(Port)],
         \A t \in Task : \/ out'[t] = out[t] /\ todo'[t] = todo[t]
                         \/ out'[t] = NoFrame /\ todo'[t] = <<>>
  PROVE  LinksInv'
<1>1. LinksTypeOK'
  BY DEF LinksInv, LinksTypeOK
<1>2. \A t \in Task : Pending(t)' /\ Ahead(t)'
  BY DEF LinksInv, Pending, Ahead, Reads
<1>3. (\A p \in Port : Waiting(p)') /\ (\A i \in Iface : Heard(i)') /\ InOrder'
  BY DEF LinksInv, Waiting, Heard, InOrder
<1>. QED BY <1>1, <1>2, <1>3 DEF LinksInv

\* Nothing is sent, waiting or read at first.
LEMMA LinksInvInit == ASSUME LinksInit PROVE LinksInv
<1>1. LinksTypeOK
  <2>1. <<>> \in Seq(Frame) /\ <<>> \in Seq(Port) /\ Len(<<>>) = 0 /\ Capacity \in Nat
    BY LinksAssumption
  <2>. QED BY <2>1 DEF LinksInit, LinksTypeOK, Task
<1>2. \A t \in Task : Pending(t) /\ Ahead(t)
  BY DEF LinksInit, Pending, Ahead
<1>3. (\A p \in Port : Waiting(p)) /\ (\A i \in Iface : Heard(i))
  BY DEF LinksInit, Waiting, Heard
<1>4. InOrder
  BY WiredPort DEF LinksInit, InOrder, Rising
<1>. QED BY <1>1, <1>2, <1>3, <1>4 DEF LinksInv

\* Every step keeps the invariant.
LEMMA LinksInvStep == ASSUME LinksInv, [LinksNext]_linkVars PROVE LinksInv'
<1>0. out \in [Task -> Frame \cup {NoFrame}] /\ todo \in [Task -> Seq(Port)]
  BY DEF LinksInv, LinksTypeOK
<1>1. CASE UNCHANGED linkVars
  <2>1. UNCHANGED <<queue, out, todo, busy, live, sent, log>>
    BY <1>1 DEF linkVars
  <2>. QED BY <1>0, <2>1, RestKeeps
<1>2. ASSUME NEW t \in Task, NEW i \in Iface, NEW d \in Dst, Send(t, i, d) PROVE LinksInv'
  BY <1>2, SendPuts, PutKeeps
<1>3. ASSUME NEW t \in Task, Resume(t) PROVE LinksInv'
  BY <1>3, ResumePuts, PutKeeps
<1>4. ASSUME NEW S \in SUBSET Task, NEW K \in SUBSET Task, Cancel(S, K) PROVE LinksInv'
  <2>. DEFINE T == S \ K
  <2>1. /\ live' = live \ T /\ busy' = busy \ T /\ UNCHANGED <<queue, sent, log>>
        /\ out' = [t \in Task |-> IF t \in T THEN NoFrame ELSE out[t]]
        /\ todo' = [t \in Task |-> IF t \in T THEN <<>> ELSE todo[t]]
    BY <1>4 DEF Cancel
  <2>. HIDE DEF T
  <2>2. out' \in [Task -> Frame \cup {NoFrame}] /\ todo' \in [Task -> Seq(Port)]
    BY <1>0, <2>1
  <2>3. \A t \in Task : \/ out'[t] = out[t] /\ todo'[t] = todo[t]
                        \/ out'[t] = NoFrame /\ todo'[t] = <<>>
    BY <2>1
  <2>4. busy' \subseteq busy /\ live' \subseteq live
    BY <2>1
  <2>. QED BY <2>1, <2>2, <2>3, <2>4, RestKeeps
<1>5. ASSUME NEW i \in Iface, Receive(i) PROVE LinksInv'
  BY <1>5, ReceiveKeeps
<1>6. ASSUME NEW i \in Iface, Return(i) PROVE LinksInv'
  <2>1. busy' \subseteq busy /\ UNCHANGED <<queue, out, todo, live, sent, log>>
    BY <1>6 DEF Return
  <2>. QED BY <1>0, <2>1, RestKeeps
<1>. QED BY <1>1, <1>2, <1>3, <1>4, <1>5, <1>6 DEF LinksNext

\* Types, queue lengths and the order of the frames, for any nodes, wiring and bounds.
LEMMA LinksInvAlways == LinksSpec => []LinksInv
  BY LinksInvInit, LinksInvStep, PTL DEF LinksSpec
-----------------------------------------------------------------------------
(* The theorems.                                                            *)

\* No queue ever holds more than Capacity frames (asyncio.Queue(maxsize=1000)), and
\* a send is suspended exactly while it has targets left.
THEOREM LinksTypes == LinksSpec => []LinksTypeOK
<1>1. LinksInv => LinksTypeOK
  BY DEF LinksInv
<1>. QED BY <1>1, LinksInvAlways, PTL

\* VirtualSwitch.send: what waits at a switch port was sent from another port of that
\* switch which shares a group with it, and to the MAC the table has there, if any.
THEOREM LinksIsolated == LinksSpec => []Isolated
<1>1. LinksInv => Isolated
  <2>. SUFFICES ASSUME LinksInv, NEW p \in Port, p[1] \in Switch, NEW f \in SeqSet(queue[p])
                PROVE  /\ Wired(f.via) /\ PortOf[f.via][1] = p[1] /\ PortOf[f.via] # p
                       /\ Groups[p[1]] # {} =>
                            \E g \in Groups[p[1]] : p[2] \in g /\ PortOf[f.via][2] \in g
                       /\ Knows(p[1], f.dst) => \E c \in CallsOn(f.dst, {p[1]}) : PortAt(c) = p
    BY DEF Isolated
  <2>1. f.via \in Iface /\ f.dst \in Dst
    <3>1. queue[p] \in Seq(Frame)
      BY DEF LinksInv, LinksTypeOK
    <3>2. f \in Frame
      BY <3>1, LenProperties DEF SeqSet
    <3>. QED BY <3>2 DEF Frame
  <2>2. p \in SeqSet(Targets[f.via][f.dst])
    BY DEF LinksInv, Waiting, SeqSet
  <2>3. Legal(f.via, f.dst, p)
    BY <2>1, <2>2, TargetsFacts
  <2>. QED BY <2>3, MacTablePort DEF Legal, CanForward
<1>. QED BY <1>1, LinksInvAlways, PTL

\* A loop is given the frames of one sender in the order they were sent, each at most
\* once, whatever sends have been suspended, cancelled or overtaken by others.
THEOREM LinksOrdered == LinksSpec => []Ordered
<1>1. LinksInv => Ordered
  <2>. SUFFICES ASSUME LinksInv, NEW i \in Iface, Wired(i),
                       NEW j \in DOMAIN (log[i] \o queue[PortOf[i]]),
                       NEW k \in DOMAIN (log[i] \o queue[PortOf[i]]), j < k,
                       (log[i] \o queue[PortOf[i]])[j].from = (log[i] \o queue[PortOf[i]])[k].from
                PROVE  (log[i] \o queue[PortOf[i]])[j].no < (log[i] \o queue[PortOf[i]])[k].no
    BY DEF Ordered
  <2>. DEFINE l == log[i]
              q == queue[PortOf[i]]
              s == l \o q
  <2>1. l \in Seq(Frame) /\ q \in Seq(Frame)
    BY WiredPort DEF LinksInv, LinksTypeOK
  <2>2. Rising(l) /\ Rising(q)
    BY WiredPort DEF LinksInv, InOrder
  <2>3. \A a \in DOMAIN l, b \in DOMAIN q : l[a].from = q[b].from => l[a].no < q[b].no
    BY DEF LinksInv, InOrder
  <2>. HIDE DEF l, q
  <2>4. /\ Len(l) \in Nat /\ Len(q) \in Nat /\ DOMAIN l = 1..Len(l) /\ DOMAIN q = 1..Len(q)
    BY <2>1, LenProperties
  <2>5. /\ s \in Seq(Frame) /\ Len(s) = Len(l) + Len(q)
        /\ \A a \in 1..(Len(l) + Len(q)) : s[a] = IF a <= Len(l) THEN l[a] ELSE q[a - Len(l)]
    BY <2>1, ConcatProperties
  <2>6. DOMAIN s = 1..(Len(l) + Len(q))
    BY <2>5, LenProperties
  <2>7. j \in DOMAIN s /\ k \in DOMAIN s /\ j < k /\ s[j].from = s[k].from
    BY DEF l, q
  <2>. HIDE DEF s
  <2>8. CASE k <= Len(l)
    <3>1. j \in DOMAIN l /\ k \in DOMAIN l /\ s[j] = l[j] /\ s[k] = l[k]
      BY <2>4, <2>5, <2>6, <2>7, <2>8
    <3>2. s[j].no < s[k].no
      BY <2>2, <2>7, <3>1 DEF Rising
    <3>. QED BY <3>2 DEF s, l, q
  <2>9. CASE j <= Len(l) /\ ~(k <= Len(l))
    <3>1. j \in DOMAIN l /\ k - Len(l) \in DOMAIN q /\ s[j] = l[j] /\ s[k] = q[k - Len(l)]
      BY <2>4, <2>5, <2>6, <2>7, <2>9
    <3>2. s[j].no < s[k].no
      BY <2>3, <2>7, <3>1
    <3>. QED BY <3>2 DEF s, l, q
  <2>10. CASE ~(j <= Len(l))
    <3>1. /\ j - Len(l) \in DOMAIN q /\ k - Len(l) \in DOMAIN q /\ j - Len(l) < k - Len(l)
          /\ s[j] = q[j - Len(l)] /\ s[k] = q[k - Len(l)]
      BY <2>4, <2>5, <2>6, <2>7, <2>10
    <3>2. s[j].no < s[k].no
      BY <2>2, <2>7, <3>1 DEF Rising
    <3>. QED BY <3>2 DEF s, l, q
  <2>. QED BY <2>8, <2>9, <2>10
<1>. QED BY <1>1, LinksInvAlways, PTL

\* Where a frame of a lossless medium is, as long as its sender lives (NoFrameLost).
Kept(t, f, p) ==
  \/ \E j \in DOMAIN queue[p] : queue[p][j] = f
  \/ \E i \in Iface : Reads(i, p) /\ \E j \in DOMAIN log[i] : log[i][j] = f
  \/ out[t] = f /\ p \in SeqSet(todo[t])

\* Every frame of a lossless medium is kept for each of its targets.
NothingLost ==
  \A t \in live : \A k \in DOMAIN sent[t] :
    ~OnMedium(sent[t][k].via, Lossy) =>
      \A p \in SeqSet(Targets[sent[t][k].via][sent[t][k].dst]) : Kept(t, sent[t][k], p)

\* A put takes nothing away: what the sender had before it is before it still, or waiting.
LEMMA PutLosesNothing ==
  ASSUME LinksTypeOK, NEW t \in Task, NEW f, NEW targets, NEW k, Puts(t, f, targets, k),
         NEW s \in Task, NEW g, NEW p \in Port,
         \/ s # t /\ Kept(s, g, p)
         \/ s = t /\ f # g /\ out[t] # g /\ Kept(s, g, p)
         \/ s = t /\ f = g /\ p \in SeqSet(targets)
         \/ s = t /\ f = g /\ Kept(s, g, p) /\ targets = todo[t]
  PROVE  Kept(s, g, p)'
<1>1. /\ out' = [out EXCEPT ![t] = IF k = Len(targets) THEN NoFrame ELSE f]
      /\ todo' \in [Task -> Seq(Port)]
      /\ \A r \in Task \ {t} : todo'[r] = todo[r]
      /\ SeqSet(todo'[t]) = Left(targets, k)
      /\ todo'[t] = <<>> <=> k = Len(targets)
      /\ Served(targets, k) \cup Left(targets, k) = SeqSet(targets)
  BY PutFacts
<1>2. log' = log
  BY DEF Puts
<1>3. out \in [Task -> Frame \cup {NoFrame}]
  BY DEF LinksTypeOK
<1>4. ASSUME NEW j \in DOMAIN queue[p], queue[p][j] = g
      PROVE  \E m \in DOMAIN queue'[p] : queue'[p][m] = g
  <2>1. j \in DOMAIN queue'[p] /\ queue'[p][j] = queue[p][j]
    BY <1>4, QueueAfter
  <2>. QED BY <1>4, <2>1
<1>5. ASSUME s = t, f = g, p \in SeqSet(targets) PROVE Kept(s, g, p)'
  <2>1. CASE p \in Served(targets, k)
    <3>1. /\ queue'[p][Len(queue[p]) + 1] = f /\ Len(queue[p]) \in Nat
          /\ DOMAIN queue'[p] = 1..(Len(queue[p]) + 1)
      BY <2>1, QueueAfter
    <3>. QED BY <1>5, <3>1 DEF Kept
  <2>2. CASE p \in Left(targets, k)
    <3>1. p \in SeqSet(todo'[t])
      BY <1>1, <2>2
    <3>2. todo'[t] # <<>>
      BY <3>1 DEF SeqSet
    <3>3. out'[t] = f
      BY <1>1, <1>3, <3>2
    <3>. QED BY <1>5, <3>1, <3>3 DEF Kept
  <2>. QED BY <1>1, <1>5, <2>1, <2>2
<1>6. ASSUME Kept(s, g, p), ~(out[s] = g /\ p \in SeqSet(todo[s])) PROVE Kept(s, g, p)'
  BY <1>2, <1>4, <1>6 DEF Kept, Reads
<1>7. ASSUME s # t, out[s] = g, p \in SeqSet(todo[s]) PROVE Kept(s, g, p)'
  <2>1. out'[s] = out[s] /\ todo'[s] = todo[s]
    BY <1>1, <1>3, <1>7
  <2>. QED BY <1>7, <2>1 DEF Kept
<1>. QED BY <1>5, <1>6, <1>7

\* The frames of a task, and the ports they go to.
LEMMA SentFacts ==
  ASSUME LinksTypeOK, NEW t \in Task, NEW k \in DOMAIN sent[t]
  PROVE  /\ sent[t][k] \in Frame /\ Len(sent[t]) \in Nat /\ DOMAIN sent[t] = 1..Len(sent[t])
         /\ \A p \in SeqSet(Targets[sent[t][k].via][sent[t][k].dst]) : p \in Port
<1>1. sent[t] \in Seq(Frame)
  BY DEF LinksTypeOK
<1>2. sent[t][k] \in Frame /\ Len(sent[t]) \in Nat /\ DOMAIN sent[t] = 1..Len(sent[t])
  BY <1>1, LenProperties
<1>. QED BY <1>2, TargetsFacts DEF Frame

\* send_frame: the new frame is kept for all of its targets, unless the medium is lossy.
LEMMA SendLosesNothing ==
  ASSUME LinksInv, NothingLost, NEW t \in Task, NEW i \in Iface, NEW d \in Dst, Send(t, i, d)
  PROVE  NothingLost'
<1>. DEFINE f == [from |-> t, no |-> Len(sent[t]) + 1, via |-> i, dst |-> d]
<1>0. PICK lost \in SUBSET SeqSet(Targets[i][d]) : \E targets, k :
        /\ Puts(t, f, targets, k)
        /\ ~OnMedium(i, Lossy) => lost = {}
        /\ SeqSet(targets) = SeqSet(Targets[i][d]) \ lost
        /\ out[t] = NoFrame /\ sent' = [sent EXCEPT ![t] = Append(@, f)]
  BY SendPuts
<1>1. PICK targets, k :
        /\ Puts(t, f, targets, k)
        /\ ~OnMedium(i, Lossy) => lost = {}
        /\ SeqSet(targets) = SeqSet(Targets[i][d]) \ lost
        /\ out[t] = NoFrame /\ sent' = [sent EXCEPT ![t] = Append(@, f)]
  BY <1>0
<1>2. f.via = i /\ f.dst = d
  OBVIOUS
<1>. HIDE DEF f
<1>3. LinksTypeOK /\ live' = live /\ live \subseteq Task /\ f \in Frame
  BY <1>1 DEF LinksInv, LinksTypeOK, Puts
<1>4. ASSUME NEW s \in live, NEW j \in DOMAIN sent'[s], NEW g, g = sent'[s][j],
             ~OnMedium(g.via, Lossy), NEW p \in SeqSet(Targets[g.via][g.dst])
      PROVE  Kept(s, g, p)'
  <2>1. sent[s] \in Seq(Frame) /\ Len(sent[s]) \in Nat /\ DOMAIN sent[s] = 1..Len(sent[s])
    <3>1. sent[s] \in Seq(Frame)
      BY <1>3 DEF LinksTypeOK
    <3>. QED BY <3>1, LenProperties
  <2>2. CASE j \in DOMAIN sent[s]
    <3>1. sent'[s][j] = sent[s][j]
      <4>1. CASE s = t
        <5>1. sent'[s] = Append(sent[s], f)
          BY <1>1, <1>3, <4>1 DEF LinksTypeOK
        <5>. QED BY <1>3, <2>1, <2>2, <5>1, AppendProperties
      <4>2. CASE s # t
        BY <1>1, <1>3, <4>2 DEF LinksTypeOK
      <4>. QED BY <4>1, <4>2
    <3>2. g \in Frame /\ p \in Port /\ s \in Task
      BY <1>3, <1>4, <2>2, <3>1, SentFacts
    <3>3. Kept(s, g, p)
      BY <1>4, <2>2, <3>1 DEF NothingLost
    <3>4. NoFrame \notin Frame
      BY LinksAssumption DEF Frame
    <3>5. g = f => p \in SeqSet(targets)
      BY <1>1, <1>2, <1>4
    <3>. QED BY <1>1, <1>3, <3>2, <3>3, <3>4, <3>5, PutLosesNothing
  <2>3. CASE j \notin DOMAIN sent[s]
    <3>1. s = t
      BY <1>1, <1>3, <1>4, <2>3 DEF LinksTypeOK
    <3>2. sent'[s] = Append(sent[s], f)
      BY <1>1, <1>3, <3>1 DEF LinksTypeOK
    <3>3. /\ sent'[s] \in Seq(Frame) /\ Len(sent'[s]) = Len(sent[s]) + 1
          /\ sent'[s][Len(sent[s]) + 1] = f
      BY <1>3, <2>1, <3>2, AppendProperties
    <3>4. DOMAIN sent'[s] = 1..(Len(sent[s]) + 1)
      BY <3>3, LenProperties
    <3>5. g = f
      BY <1>4, <2>1, <2>3, <3>3, <3>4
    <3>6. p \in SeqSet(targets)
      BY <1>1, <1>2, <1>4, <3>5
    <3>7. p \in Port /\ s \in Task
      <4>1. targets \in Seq(Port)
        BY <1>1 DEF Puts
      <4>. QED BY <3>1, <3>6, <4>1, LenProperties DEF SeqSet
    <3>. QED BY <1>1, <1>3, <3>1, <3>5, <3>6, <3>7, PutLosesNothing
  <2>. QED BY <2>2, <2>3
<1>. QED BY <1>3, <1>4 DEF NothingLost

\* A send that goes on serves, or keeps before it, the targets it had before it.
LEMMA ResumeLosesNothing ==
  ASSUME LinksInv, NothingLost, NEW t \in Task, Resume(t)
  PROVE  NothingLost'
<1>1. PICK k : Puts(t, out[t], todo[t], k)
  BY ResumePuts
<1>2. LinksTypeOK /\ live' = live /\ live \subseteq Task /\ sent' = sent
  BY DEF LinksInv, LinksTypeOK, Resume
<1>3. ASSUME NEW s \in live, NEW j \in DOMAIN sent[s], NEW g, g = sent[s][j],
             ~OnMedium(g.via, Lossy), NEW p \in SeqSet(Targets[g.via][g.dst])
      PROVE  Kept(s, g, p)'
  <2>1. g \in Frame /\ p \in Port /\ s \in Task
    BY <1>2, <1>3, SentFacts
  <2>2. Kept(s, g, p)
    BY <1>3 DEF NothingLost
  <2>. QED BY <1>1, <1>2, <2>1, <2>2, PutLosesNothing
<1>. QED BY <1>2, <1>3 DEF NothingLost

\* A frame taken out of a queue is in the log of a loop that reads there.
LEMMA ReceiveLosesNothing ==
  ASSUME LinksInv, NothingLost, NEW i \in Iface, Receive(i)
  PROVE  NothingLost'
<1>. DEFINE p == PortOf[i]
            n == Len(queue[p])
            m == Len(log[i])
<1>0. LinksTypeOK
  BY DEF LinksInv
<1>1. /\ p \in Port /\ Wired(i) /\ UNCHANGED <<out, todo, live, sent>>
      /\ \A q \in Port \ {p} : queue'[q] = queue[q]
      /\ \A h \in Iface \ {i} : log'[h] = log[h]
      /\ n \in Nat \ {0} /\ DOMAIN queue[p] = 1..n /\ DOMAIN queue'[p] = 1..(n - 1)
      /\ \A k \in 1..(n - 1) : queue'[p][k] = queue[p][k + 1]
      /\ m \in Nat /\ DOMAIN log[i] = 1..m /\ DOMAIN log'[i] = 1..(m + 1)
      /\ \A k \in 1..m : log'[i][k] = log[i][k]
      /\ log'[i][m + 1] = queue[p][1]
  BY <1>0, ReceiveFacts
<1>. HIDE DEF p, n, m
<1>2. ASSUME NEW g, NEW q \in Port, NEW k \in DOMAIN queue[q], queue[q][k] = g
      PROVE  \/ \E j \in DOMAIN queue'[q] : queue'[q][j] = g
             \/ Reads(i, q) /\ \E j \in DOMAIN log'[i] : log'[i][j] = g
  <2>1. CASE q # p
    BY <1>1, <1>2, <2>1
  <2>2. CASE q = p /\ k # 1
    <3>1. k - 1 \in 1..(n - 1) /\ (k - 1) + 1 = k
      BY <1>1, <1>2, <2>2
    <3>2. queue'[q][k - 1] = g
      BY <1>1, <1>2, <2>2, <3>1
    <3>. QED BY <1>1, <2>2, <3>1, <3>2
  <2>3. CASE q = p /\ k = 1
    <3>1. Reads(i, q)
      BY <1>1, <2>3 DEF Reads, p
    <3>2. m + 1 \in DOMAIN log'[i] /\ log'[i][m + 1] = g
      BY <1>1, <1>2, <2>3
    <3>. QED BY <3>1, <3>2
  <2>. QED BY <2>1, <2>2, <2>3
<1>3. ASSUME NEW g, NEW h \in Iface, NEW k \in DOMAIN log[h], log[h][k] = g
      PROVE  \E j \in DOMAIN log'[h] : log'[h][j] = g
  <2>1. k \in DOMAIN log'[h] /\ log'[h][k] = log[h][k]
    <3>1. CASE h = i
      <4>1. k \in 1..m
        BY <1>1, <1>3, <3>1
      <4>2. k \in 1..(m + 1)
        BY <1>1, <4>1
      <4>. QED BY <1>1, <3>1, <4>1, <4>2
    <3>2. CASE h # i
      BY <1>1, <1>3, <3>2
    <3>. QED BY <3>1, <3>2
  <2>. QED BY <1>3, <2>1
<1>4. ASSUME NEW s \in Task, NEW g, NEW q \in Port, Kept(s, g, q)
      PROVE  Kept(s, g, q)'
  <2>1. CASE \E k \in DOMAIN queue[q] : queue[q][k] = g
    BY <1>2, <2>1 DEF Kept, Reads
  <2>2. CASE \E h \in Iface : Reads(h, q) /\ \E k \in DOMAIN log[h] : log[h][k] = g
    BY <1>3, <2>2 DEF Kept, Reads
  <2>3. CASE out[s] = g /\ q \in SeqSet(todo[s])
    BY <1>1, <2>3 DEF Kept
  <2>. QED BY <1>4, <2>1, <2>2, <2>3 DEF Kept
<1>5. live \subseteq Task
  BY <1>0 DEF LinksTypeOK
<1>. QED BY <1>0, <1>1, <1>4, <1>5, SentFacts DEF NothingLost

\* The end of a handler loses nothing, and a cancellation only what its own tasks had left.
LEMMA RestLosesNothing ==
  ASSUME LinksInv, NothingLost, UNCHANGED <<queue, sent, log>>, live' \subseteq live,
         \A t \in live' : out'[t] = out[t] /\ todo'[t] = todo[t]
  PROVE  NothingLost'
  BY DEF NothingLost, Kept, Reads

\* Every step loses nothing.
LEMMA NothingLostStep ==
  ASSUME LinksInv, NothingLost, [LinksNext]_linkVars
  PROVE  NothingLost'
<1>0. live \subseteq Task
  BY DEF LinksInv, LinksTypeOK
<1>1. CASE UNCHANGED linkVars
  <2>1. UNCHANGED <<queue, out, todo, busy, live, sent, log>>
    BY <1>1 DEF linkVars
  <2>. QED BY <2>1, RestLosesNothing
<1>2. ASSUME NEW S \in SUBSET Task, NEW K \in SUBSET Task, Cancel(S, K) PROVE NothingLost'
  <2>. DEFINE T == S \ K
  <2>1. /\ live' = live \ T /\ UNCHANGED <<queue, sent, log>>
        /\ out' = [t \in Task |-> IF t \in T THEN NoFrame ELSE out[t]]
        /\ todo' = [t \in Task |-> IF t \in T THEN <<>> ELSE todo[t]]
    BY <1>2 DEF Cancel
  <2>. HIDE DEF T
  <2>2. \A t \in live' : out'[t] = out[t] /\ todo'[t] = todo[t]
    BY <1>0, <2>1
  <2>. QED BY <2>1, <2>2, RestLosesNothing
<1>3. ASSUME NEW i \in Iface, Return(i) PROVE NothingLost'
  <2>1. UNCHANGED <<queue, out, todo, live, sent, log>>
    BY <1>3 DEF Return
  <2>. QED BY <2>1, RestLosesNothing
<1>. QED
  BY <1>1, <1>2, <1>3, SendLosesNothing, ResumeLosesNothing, ReceiveLosesNothing DEF LinksNext

\* A lossless medium loses no frame of a task that has not been cancelled: it has been
\* read, is waiting in its queue, or its sender still has that queue before it.
THEOREM LinksLoseNothing == LinksSpec => []NoFrameLost
<1>1. LinksInit => NothingLost
  BY DEF LinksInit, NothingLost
<1>2. LinksInv /\ NothingLost /\ [LinksNext]_linkVars => NothingLost'
  BY NothingLostStep
<1>3. LinksInv /\ NothingLost => NoFrameLost
  <2>. SUFFICES ASSUME LinksInv, NothingLost, NEW t \in live, NEW k \in DOMAIN sent[t],
                       ~OnMedium(sent[t][k].via, Lossy),
                       NEW p \in SeqSet(Targets[sent[t][k].via][sent[t][k].dst])
                PROVE  \/ sent[t][k] \in SeqSet(queue[p]) \cup ReadAt(p)
                       \/ out[t] = sent[t][k] /\ p \in SeqSet(todo[t])
    BY DEF NoFrameLost
  <2>1. Kept(t, sent[t][k], p)
    BY DEF NothingLost
  <2>. QED BY <2>1 DEF Kept, ReadAt, SeqSet
<1>. QED BY <1>1, <1>2, <1>3, LinksInvAlways, PTL DEF LinksSpec
=============================================================================
