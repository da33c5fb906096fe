---------------------------- MODULE ProbesProofs -----------------------------
(***************************************************************************)
(* Theorems about Probes and ProbeDevice, for any peers, targets,          *)
(* coroutines, plans and bounds.                                           *)
(***************************************************************************)
EXTENDS ProbeDevice, SequenceTheorems, FiniteSetTheorems, TLAPS

-----------------------------------------------------------------------------
(* Sums over finite sets, counted in tokens.                               *)

LEMMA TokensFinite ==
  ASSUME NEW S, IsFiniteSet(S), NEW n, \A x \in S : n[x] \in Nat
  PROVE  IsFiniteSet(Tokens(n, S)) /\ Total(n, S) \in Nat
<1> DEFINE F == [x \in S |-> {x} \X (1..n[x])]
           T == {F[x] : x \in S}
<1>1. F \in Surjection(S, T)
  BY DEF Surjection
<1>2. ASSUME NEW x \in S PROVE IsFiniteSet(F[x])
  <2>1. IsFiniteSet({x}) /\ n[x] \in Nat
    BY FS_Singleton
  <2>2. IsFiniteSet(1..n[x])
    BY <2>1, FS_Interval
  <2>3. IsFiniteSet({x} \X (1..n[x]))
    BY <2>1, <2>2, FS_Product
  <2> QED
    BY <2>3
<1>3. Tokens(n, S) = UNION T
  BY DEF Tokens
<1> HIDE DEF F
<1>4. IsFiniteSet(T)
  BY <1>1, FS_Surjection
<1>5. \A U \in T : IsFiniteSet(U)
  BY <1>2
<1> HIDE DEF T
<1>6. IsFiniteSet(Tokens(n, S))
  BY <1>3, <1>4, <1>5, FS_UNION
<1> QED
  BY <1>6, FS_CardinalityType DEF Total

LEMMA TokenMember ==
  ASSUME NEW S, NEW n, NEW e
  PROVE  e \in Tokens(n, S) <=> \E x \in S : \E j \in 1..n[x] : e = <<x, j>>
BY DEF Tokens

LEMMA TotalSame ==
  ASSUME NEW S, NEW n, NEW m, \A x \in S : n[x] = m[x]
  PROVE  Total(n, S) = Total(m, S)
<1>1. Tokens(n, S) = Tokens(m, S)
  BY DEF Tokens
<1> QED
  BY <1>1 DEF Total

LEMMA TotalZero ==
  ASSUME NEW S, NEW n, \A x \in S : n[x] = 0
  PROVE  Total(n, S) = 0
<1>1. \A x \in S : 1..n[x] = {}
  OBVIOUS
<1>2. Tokens(n, S) = {}
  BY <1>1 DEF Tokens
<1> QED
  BY <1>2, FS_EmptySet DEF Total

\* The sum grows with the value of one member.
LEMMA TotalBump ==
  ASSUME NEW S, IsFiniteSet(S), NEW n, \A x \in S : n[x] \in Nat,
         NEW m, NEW a \in S, m[a] = n[a] + 1, \A x \in S : x # a => m[x] = n[x]
  PROVE  Total(m, S) = Total(n, S) + 1
<1>1. Tokens(m, S) = Tokens(n, S) \cup {<<a, n[a] + 1>>}
  <2>1. ASSUME NEW x \in S, NEW j \in 1..m[x]
        PROVE  (j \in 1..n[x]) \/ (x = a /\ j = n[a] + 1)
    OBVIOUS
  <2>2. ASSUME NEW x \in S PROVE 1..n[x] \subseteq 1..m[x]
    <3>1. n[x] \in Nat /\ m[x] \in Nat /\ n[x] <= m[x]
      OBVIOUS
    <3> QED
      BY <3>1
  <2>3. n[a] + 1 \in 1..m[a]
    OBVIOUS
  <2>4. Tokens(m, S) \subseteq Tokens(n, S) \cup {<<a, n[a] + 1>>}
    <3> SUFFICES ASSUME NEW e \in Tokens(m, S) PROVE e \in Tokens(n, S) \cup {<<a, n[a] + 1>>}
      OBVIOUS
    <3>1. PICK x \in S : \E j \in 1..m[x] : e = <<x, j>>
      BY TokenMember
    <3>2. PICK j \in 1..m[x] : e = <<x, j>>
      BY <3>1
    <3> QED
      BY <2>1, <3>2, TokenMember
  <2>5. Tokens(n, S) \cup {<<a, n[a] + 1>>} \subseteq Tokens(m, S)
    <3> SUFFICES ASSUME NEW e \in Tokens(n, S) \cup {<<a, n[a] + 1>>} PROVE e \in Tokens(m, S)
      OBVIOUS
    <3>1. CASE e = <<a, n[a] + 1>>
      BY <2>3, <3>1, TokenMember
    <3>2. CASE e \in Tokens(n, S)
      <4>1. PICK x \in S : \E j \in 1..n[x] : e = <<x, j>>
        BY <3>2, TokenMember
      <4>2. PICK j \in 1..n[x] : e = <<x, j>>
        BY <4>1
      <4> QED
        BY <2>2, <4>2, TokenMember
    <3> QED
      BY <3>1, <3>2
  <2> QED
    BY <2>4, <2>5
<1>2. <<a, n[a] + 1>> \notin Tokens(n, S)
  <2> SUFFICES ASSUME NEW x \in S, NEW j \in 1..n[x], <<a, n[a] + 1>> = <<x, j>> PROVE FALSE
    BY TokenMember
  <2>1. x = a /\ j = n[a] + 1 /\ n[a] \in Nat
    OBVIOUS
  <2> QED
    BY <2>1
<1>3. IsFiniteSet(Tokens(n, S))
  BY TokensFinite
<1> QED
  BY <1>1, <1>2, <1>3, FS_AddElement DEF Total

\* A member that leaves takes its value with it.
LEMMA TotalRemove ==
  ASSUME NEW S, IsFiniteSet(S), NEW n, \A x \in S : n[x] \in Nat, NEW a \in S
  PROVE  Total(n, S) = Total(n, S \ {a}) + n[a]
<1> DEFINE A == {a} \X (1..n[a])
           B == Tokens(n, S \ {a})
<1>1. Tokens(n, S) = B \cup A
  BY DEF Tokens
<1>2. IsFiniteSet({a}) /\ Cardinality({a}) = 1
  BY FS_Singleton
<1>3. IsFiniteSet(1..n[a]) /\ Cardinality(1..n[a]) = n[a]
  <2>1. n[a] \in Nat
    OBVIOUS
  <2>2. IsFiniteSet(1..n[a]) /\ Cardinality(1..n[a]) = IF 1 > n[a] THEN 0 ELSE n[a] - 1 + 1
    BY <2>1, FS_Interval
  <2> QED
    BY <2>1, <2>2
<1>4. IsFiniteSet(A) /\ Cardinality(A) = 1 * n[a]
  BY <1>2, <1>3, FS_Product
<1>5. IsFiniteSet(S \ {a})
  BY FS_RemoveElement
<1>6. IsFiniteSet(B) /\ Cardinality(B) \in Nat
  <2>1. IsFiniteSet(B)
    BY <1>5, TokensFinite
  <2> QED
    BY <2>1, FS_CardinalityType
<1>7. B \cap A = {}
  BY DEF Tokens
<1> HIDE DEF A, B
<1>8. Cardinality(B \cup A) = Cardinality(B) + Cardinality(A) - Cardinality(B \cap A)
  BY <1>4, <1>6, FS_Union
<1>9. Cardinality(B \cap A) = 0
  BY <1>7, FS_EmptySet
<1>10. Cardinality(A) = n[a] /\ n[a] \in Nat
  BY <1>4
<1>11. Cardinality(B \cup A) = Cardinality(B) + n[a]
  BY <1>6, <1>8, <1>9, <1>10
<1> QED
  BY <1>1, <1>11 DEF Total, B

-----------------------------------------------------------------------------
(* The flows.                                                              *)

Typed(fs) == DOMAIN fs \subseteq FlowId /\ \A id \in DOMAIN fs : fs[id] \in FlowStats
SentIn(fs, id) == IF id \in DOMAIN fs THEN fs[id].sent ELSE 0
RecvIn(fs, id) == IF id \in DOMAIN fs THEN fs[id].recv ELSE 0

LEMMA WithFlowTypes ==
  ASSUME NEW fs, Typed(fs), NEW id \in FlowId
  PROVE  /\ Typed(WithFlow(fs, id)) /\ DOMAIN WithFlow(fs, id) = DOMAIN fs \cup {id}
         /\ \A x : /\ SentIn(WithFlow(fs, id), x) = SentIn(fs, x)
                   /\ RecvIn(WithFlow(fs, id), x) = RecvIn(fs, x)
<1>1. NewFlow \in FlowStats /\ NewFlow.sent = 0 /\ NewFlow.recv = 0
  BY DEF NewFlow, FlowStats
<1> QED
  BY <1>1 DEF Typed, WithFlow, SentIn, RecvIn

\* A packet that is sent is counted in its flow and nowhere else.
LEMMA BumpSent ==
  ASSUME NEW fs, Typed(fs), NEW id \in FlowId
  PROVE  /\ Typed(Bump(fs, id, "sent")) /\ DOMAIN Bump(fs, id, "sent") = DOMAIN fs \cup {id}
         /\ SentIn(Bump(fs, id, "sent"), id) = SentIn(fs, id) + 1
         /\ \A x : x # id => SentIn(Bump(fs, id, "sent"), x) = SentIn(fs, x)
         /\ \A x : RecvIn(Bump(fs, id, "sent"), x) = RecvIn(fs, x)
<1> SUFFICES ASSUME NEW g, g = Bump(fs, id, "sent")
             PROVE  /\ Typed(g) /\ DOMAIN g = DOMAIN fs \cup {id}
                    /\ SentIn(g, id) = SentIn(fs, id) + 1
                    /\ \A x : x # id => SentIn(g, x) = SentIn(fs, x)
                    /\ \A x : RecvIn(g, x) = RecvIn(fs, x)
  OBVIOUS
<1> DEFINE w == WithFlow(fs, id)
<1>1. Typed(w) /\ DOMAIN w = DOMAIN fs \cup {id}
      /\ \A x : SentIn(w, x) = SentIn(fs, x) /\ RecvIn(w, x) = RecvIn(fs, x)
  BY WithFlowTypes
<1>2. g = [w EXCEPT ![id] = [sent |-> w[id].sent + 1, recv |-> w[id].recv]]
  <2>1. w[id] \in FlowStats
    BY <1>1 DEF Typed
  <2>2. g = [w EXCEPT ![id] = [w[id] EXCEPT !["sent"] = w[id]["sent"] + 1]]
    BY DEF Bump
  <2>3. [w[id] EXCEPT !["sent"] = w[id]["sent"] + 1] = [sent |-> w[id].sent + 1, recv |-> w[id].recv]
    BY <2>1 DEF FlowStats
  <2> QED
    BY <2>2, <2>3
<1> HIDE DEF w
<1>3. w[id] \in FlowStats /\ id \in DOMAIN w
  BY <1>1 DEF Typed
<1>4. [sent |-> w[id].sent + 1, recv |-> w[id].recv] \in FlowStats
  BY <1>3 DEF FlowStats
<1> QED
  BY <1>1, <1>2, <1>3, <1>4 DEF Typed, SentIn, RecvIn

LEMMA BumpRecv ==
  ASSUME NEW fs, Typed(fs), NEW id \in FlowId
  PROVE  /\ Typed(Bump(fs, id, "recv")) /\ DOMAIN Bump(fs, id, "recv") = DOMAIN fs \cup {id}
         /\ RecvIn(Bump(fs, id, "recv"), id) = RecvIn(fs, id) + 1
         /\ \A x : x # id => RecvIn(Bump(fs, id, "recv"), x) = RecvIn(fs, x)
         /\ \A x : SentIn(Bump(fs, id, "recv"), x) = SentIn(fs, x)
<1> SUFFICES ASSUME NEW g, g = Bump(fs, id, "recv")
             PROVE  /\ Typed(g) /\ DOMAIN g = DOMAIN fs \cup {id}
                    /\ RecvIn(g, id) = RecvIn(fs, id) + 1
                    /\ \A x : x # id => RecvIn(g, x) = RecvIn(fs, x)
                    /\ \A x : SentIn(g, x) = SentIn(fs, x)
  OBVIOUS
<1> DEFINE w == WithFlow(fs, id)
<1>1. Typed(w) /\ DOMAIN w = DOMAIN fs \cup {id}
      /\ \A x : SentIn(w, x) = SentIn(fs, x) /\ RecvIn(w, x) = RecvIn(fs, x)
  BY WithFlowTypes
<1>2. g = [w EXCEPT ![id] = [sent |-> w[id].sent, recv |-> w[id].recv + 1]]
  <2>1. w[id] \in FlowStats
    BY <1>1 DEF Typed
  <2>2. g = [w EXCEPT ![id] = [w[id] EXCEPT !["recv"] = w[id]["recv"] + 1]]
    BY DEF Bump
  <2>3. [w[id] EXCEPT !["recv"] = w[id]["recv"] + 1] = [sent |-> w[id].sent, recv |-> w[id].recv + 1]
    BY <2>1 DEF FlowStats
  <2> QED
    BY <2>2, <2>3
<1> HIDE DEF w
<1>3. w[id] \in FlowStats /\ id \in DOMAIN w
  BY <1>1 DEF Typed
<1>4. [sent |-> w[id].sent, recv |-> w[id].recv + 1] \in FlowStats
  BY <1>3 DEF FlowStats
<1> QED
  BY <1>1, <1>2, <1>3, <1>4 DEF Typed, SentIn, RecvIn

LEMMA FlowNames ==
  ASSUME NEW part \in Kind \X (Peer \cup Target)
  PROVE  /\ OwnFlow(part) \in FlowId /\ SendFlow(part) \in FlowId
         /\ SendFlow(part)[1] \notin {"latency", "probe", "rid-echo", "bw-recv"}
         /\ SendFlow(part)[2] = part[2]
         /\ part[1] = "latency" => OwnFlow(part) = <<"latency", part[2]>>
<1>1. part[1] \in {"latency", "bandwidth", "forwarding"} /\ part[2] \in Peer \cup Target
  BY DEF Kind
<1>2. CASE part[1] = "latency"
  BY <1>1, <1>2 DEF OwnFlow, SendFlow, FlowId, Purpose
<1>3. CASE part[1] = "bandwidth"
  BY <1>1, <1>3 DEF OwnFlow, SendFlow, FlowId, Purpose
<1>4. CASE part[1] = "forwarding"
  BY <1>1, <1>4 DEF OwnFlow, SendFlow, FlowId, Purpose
<1> QED
  BY <1>1, <1>2, <1>3, <1>4

\* Two parts never count in the same flow.
LEMMA SendFlowInjective ==
  ASSUME NEW p \in Kind \X (Peer \cup Target), NEW q \in Kind \X (Peer \cup Target),
         SendFlow(p) = SendFlow(q)
  PROVE  p = q
<1>1. p = <<p[1], p[2]>> /\ q = <<q[1], q[2]>>
      /\ p[1] \in {"latency", "bandwidth", "forwarding"} /\ q[1] \in {"latency", "bandwidth", "forwarding"}
  BY DEF Kind
<1>2. p[2] = q[2]
  BY FlowNames
<1>3. SendFlow(p)[1] = IF p[1] = "latency" THEN "aid-probe" ELSE IF p[1] = "bandwidth" THEN "bw-test" ELSE "rid-probe"
  BY <1>1 DEF SendFlow
<1>4. SendFlow(q)[1] = IF q[1] = "latency" THEN "aid-probe" ELSE IF q[1] = "bandwidth" THEN "bw-test" ELSE "rid-probe"
  BY <1>1 DEF SendFlow
<1>5. p[1] = q[1]
  BY <1>1, <1>3, <1>4
<1> QED
  BY <1>1, <1>2, <1>5

\* What the start of a part does to the flows.
BegunFlows(fs, part) ==
  LET id == OwnFlow(part) w == WithFlow(fs, id)
  IN IF part[1] = "latency" THEN [w EXCEPT ![id] = NewFlow] ELSE w

LEMMA BegunFlowsCount ==
  ASSUME NEW fs, Typed(fs), NEW part \in Kind \X (Peer \cup Target)
  PROVE  /\ Typed(BegunFlows(fs, part)) /\ DOMAIN BegunFlows(fs, part) = DOMAIN fs \cup {OwnFlow(part)}
         /\ \A x : x[1] # "latency" => /\ SentIn(BegunFlows(fs, part), x) = SentIn(fs, x)
                                      /\ RecvIn(BegunFlows(fs, part), x) = RecvIn(fs, x)
<1> SUFFICES ASSUME NEW g, g = BegunFlows(fs, part)
             PROVE  /\ Typed(g) /\ DOMAIN g = DOMAIN fs \cup {OwnFlow(part)}
                    /\ \A x : x[1] # "latency" => /\ SentIn(g, x) = SentIn(fs, x)
                                                 /\ RecvIn(g, x) = RecvIn(fs, x)
  OBVIOUS
<1> DEFINE id == OwnFlow(part)
           w == WithFlow(fs, id)
<1>1. id \in FlowId /\ (part[1] = "latency" => id[1] = "latency")
  BY FlowNames
<1>2. Typed(w) /\ DOMAIN w = DOMAIN fs \cup {id}
      /\ \A x : SentIn(w, x) = SentIn(fs, x) /\ RecvIn(w, x) = RecvIn(fs, x)
  BY <1>1, WithFlowTypes
<1>3. g = IF part[1] = "latency" THEN [w EXCEPT ![id] = NewFlow] ELSE w
  BY DEF BegunFlows
<1>4. NewFlow \in FlowStats
  BY DEF NewFlow, FlowStats
<1> HIDE DEF id, w
<1>5. Typed(g) /\ DOMAIN g = DOMAIN w
  BY <1>2, <1>3, <1>4 DEF Typed
<1>6. ASSUME NEW x, x[1] # "latency"
      PROVE  SentIn(g, x) = SentIn(w, x) /\ RecvIn(g, x) = RecvIn(w, x)
  <2>1. x # id \/ part[1] # "latency"
    BY <1>1, <1>6
  <2>2. x \in DOMAIN w => g[x] = w[x]
    BY <1>3, <2>1
  <2> QED
    BY <1>5, <2>2 DEF SentIn, RecvIn
<1> QED
  BY <1>2, <1>5, <1>6 DEF id

-----------------------------------------------------------------------------
(* Types.                                                                  *)

PartOf == Kind \X (Peer \cup Target)
Phase == {"idle", "begin", "send", "await", "cancelled"}
Coroutine == [plan : Seq(PartOf), next : 0..Packets, phase : Phase]

\* A coroutine as TypeOK has it, given the flows.
WellFormed(r, fs) ==
  /\ r \in Coroutine
  /\ r.plan = <<>> <=> r.phase = "idle"
  /\ r.phase \in {"send", "await"} => OwnFlow(Head(r.plan)) \in DOMAIN fs
  /\ r.phase = "await" => r.next < Packets

LEMMA CoroutinesWellFormed ==
  (/\ runner \in [Runner -> [plan : Seq(Kind \X (Peer \cup Target)), next : 0..Packets,
                            phase : {"idle", "begin", "send", "await", "cancelled"}]]
   /\ \A t \in Runner :
       /\ runner[t].plan = <<>> <=> runner[t].phase = "idle"
       /\ runner[t].phase \in {"send", "await"} => OwnFlow(Part(t)) \in DOMAIN flows
       /\ runner[t].phase = "await" => runner[t].next < Packets)
  <=> runner = [t \in Runner |-> runner[t]] /\ \A t \in Runner : WellFormed(runner[t], flows)
BY DEF WellFormed, Coroutine, PartOf, Phase, Part

Report1 == [kind : Kind, of : Peer \cup Target, sent : Nat, recv : Nat]

LEMMA TypesSplit ==
  TypeOK <=>
    /\ Typed(flows)
    /\ counts \in [{"aid_rx", "rid_rx", "probe_rx"} -> Nat]
    /\ recorded \in Nat /\ monitor \in BOOLEAN /\ starts \in 0..MaxStarts
    /\ heard \in [AnyFrame -> Nat]
    /\ reports \in Seq(Report1)
    /\ runner = [t \in Runner |-> runner[t]]
    /\ \A t \in Runner : WellFormed(runner[t], flows)
BY CoroutinesWellFormed DEF TypeOK, Typed, Report1

LEMMA TypesSplitNext ==
  TypeOK' <=>
    /\ Typed(flows')
    /\ counts' \in [{"aid_rx", "rid_rx", "probe_rx"} -> Nat]
    /\ recorded' \in Nat /\ monitor' \in BOOLEAN /\ starts' \in 0..MaxStarts
    /\ heard' \in [AnyFrame -> Nat]
    /\ reports' \in Seq(Report1)
    /\ runner' = [t \in Runner |-> runner'[t]]
    /\ \A t \in Runner : WellFormed(runner'[t], flows')
<1>1. (/\ runner' \in [Runner -> [plan : Seq(Kind \X (Peer \cup Target)), next : 0..Packets,
                            phase : {"idle", "begin", "send", "await", "cancelled"}]]
       /\ \A t \in Runner :
           /\ runner'[t].plan = <<>> <=> runner'[t].phase = "idle"
           /\ runner'[t].phase \in {"send", "await"} => OwnFlow(Head(runner'[t].plan)) \in DOMAIN flows'
           /\ runner'[t].phase = "await" => runner'[t].next < Packets)
      <=> runner' = [t \in Runner |-> runner'[t]] /\ \A t \in Runner : WellFormed(runner'[t], flows')
  BY DEF WellFormed, Coroutine, PartOf, Phase
<1> QED
  BY <1>1 DEF TypeOK, Typed, Report1, Part

LEMMA PartType ==
  ASSUME TypeOK, NEW t \in Runner, runner[t].phase # "idle"
  PROVE  /\ Part(t) \in PartOf /\ runner[t].plan \in Seq(PartOf) /\ runner[t].plan # <<>>
         /\ runner[t].next \in 0..Packets
<1>1. runner[t].plan \in Seq(PartOf) /\ runner[t].plan # <<>> /\ runner[t].next \in 0..Packets
  BY TypesSplit DEF WellFormed, Coroutine
<1>2. Head(runner[t].plan) \in PartOf
  BY <1>1, HeadTailProperties
<1> QED
  BY <1>1, <1>2 DEF Part

\* One coroutine moves on; the flows may grow meanwhile.
LEMMA CoroutineMoves ==
  ASSUME TypeOK, NEW t \in Runner, NEW r, runner' = [runner EXCEPT ![t] = r],
         NEW fs, DOMAIN flows \subseteq DOMAIN fs, WellFormed(r, fs)
  PROVE  /\ runner' = [u \in Runner |-> runner'[u]]
         /\ \A u \in Runner : WellFormed(runner'[u], fs)
<1>1. \A u \in Runner : WellFormed(runner[u], fs)
  BY TypesSplit DEF WellFormed
<1>2. runner = [u \in Runner |-> runner[u]]
  BY TypesSplit
<1> QED
  BY <1>1, <1>2

LEMMA InitTypeOK == Init => TypeOK
<1> SUFFICES ASSUME Init PROVE TypeOK
  OBVIOUS
<1>1. Typed(flows)
  BY DEF Init, Typed
<1>2. \A t \in Runner : WellFormed(runner[t], flows)
  <2>1. <<>> \in Seq(PartOf)
    BY EmptySeq
  <2>2. 0 \in 0..Packets
    BY ProbesAssumption
  <2> QED
    BY <2>1, <2>2 DEF Init, Idle, WellFormed, Coroutine, Phase
<1>3. reports \in Seq(Report1) /\ starts \in 0..MaxStarts
  BY EmptySeq, ProbesAssumption DEF Init
<1>4. counts \in [{"aid_rx", "rid_rx", "probe_rx"} -> Nat]
  BY DEF Init
<1>5. heard \in [AnyFrame -> Nat] /\ runner = [t \in Runner |-> runner[t]]
  BY DEF Init
<1>6. recorded \in Nat /\ monitor \in BOOLEAN
  BY DEF Init
<1> QED
  BY <1>1, <1>2, <1>3, <1>4, <1>5, <1>6, TypesSplit

LEMMA StartTypes ==
  ASSUME TypeOK, NEW t \in Runner, NEW plan \in Plans, NEW monitored \in BOOLEAN, Start(t, plan, monitored)
  PROVE  TypeOK'
<1> DEFINE r == [plan |-> plan, next |-> 0, phase |-> "begin"]
<1>1. plan \in Seq(PartOf) /\ plan # <<>> /\ 0 \in 0..Packets
  BY ProbesAssumption DEF PartOf
<1>2. WellFormed(r, flows)
  BY <1>1 DEF WellFormed, Coroutine, Phase
<1>3. runner' = [runner EXCEPT ![t] = r]
  BY DEF Start
<1> HIDE DEF r
<1>4. runner' = [u \in Runner |-> runner'[u]] /\ \A u \in Runner : WellFormed(runner'[u], flows)
  BY <1>2, <1>3, CoroutineMoves
<1>5. starts' \in 0..MaxStarts
  BY ProbesAssumption, TypesSplit DEF Start
<1> QED
  BY <1>4, <1>5, TypesSplit, TypesSplitNext DEF Start

LEMMA BeginTypes ==
  ASSUME TypeOK, NEW t \in Runner, Begin(t)
  PROVE  TypeOK' /\ flows' = BegunFlows(flows, Part(t))
<1> DEFINE r == [plan |-> runner[t].plan, next |-> runner[t].next, phase |-> "send"]
<1>1. Part(t) \in PartOf /\ runner[t].plan # <<>>
  BY PartType DEF Begin
<1>2. flows' = BegunFlows(flows, Part(t))
  BY DEF Begin, BegunFlows
<1>3. Typed(flows') /\ DOMAIN flows' = DOMAIN flows \cup {OwnFlow(Part(t))}
  BY <1>1, <1>2, BegunFlowsCount, TypesSplit DEF PartOf
<1>4. runner[t] \in Coroutine
  BY TypesSplit DEF WellFormed
<1>5. WellFormed(r, flows')
  BY <1>1, <1>3, <1>4 DEF WellFormed, Coroutine, Phase, Part
<1>6. runner' = [runner EXCEPT ![t] = r]
  <2>1. runner' = [runner EXCEPT ![t] = [runner[t] EXCEPT !.phase = "send"]]
    BY DEF Begin
  <2>2. [runner[t] EXCEPT !.phase = "send"] = r
    BY <1>4 DEF Coroutine
  <2> QED
    BY <2>1, <2>2
<1> HIDE DEF r
<1>7. runner' = [u \in Runner |-> runner'[u]] /\ \A u \in Runner : WellFormed(runner'[u], flows')
  BY <1>3, <1>5, <1>6, CoroutineMoves
<1> QED
  BY <1>2, <1>3, <1>7, TypesSplit, TypesSplitNext DEF Begin

LEMMA SendTypes ==
  ASSUME TypeOK, NEW t \in Runner, SendPacket(t)
  PROVE  TypeOK'
<1> DEFINE r == [plan |-> runner[t].plan, next |-> runner[t].next, phase |-> "await"]
<1>1. runner[t] \in Coroutine /\ WellFormed(runner[t], flows)
  BY TypesSplit DEF WellFormed
<1>2. WellFormed(r, flows)
  BY <1>1 DEF SendPacket, WellFormed, Coroutine, Phase
<1>3. runner' = [runner EXCEPT ![t] = r]
  <2>1. runner' = [runner EXCEPT ![t] = [runner[t] EXCEPT !.phase = "await"]]
    BY DEF SendPacket
  <2>2. [runner[t] EXCEPT !.phase = "await"] = r
    BY <1>1 DEF Coroutine
  <2> QED
    BY <2>1, <2>2
<1> HIDE DEF r
<1>4. runner' = [u \in Runner |-> runner'[u]] /\ \A u \in Runner : WellFormed(runner'[u], flows)
  BY <1>2, <1>3, CoroutineMoves
<1> QED
  BY <1>4, TypesSplit, TypesSplitNext DEF SendPacket

LEMMA CountTypes ==
  ASSUME TypeOK, NEW t \in Runner, Count(t)
  PROVE  TypeOK'
<1> DEFINE r == [plan |-> runner[t].plan, next |-> runner[t].next + 1, phase |-> "send"]
<1>1. runner[t] \in Coroutine /\ WellFormed(runner[t], flows)
  BY TypesSplit DEF WellFormed
<1>2. Part(t) \in PartOf
  BY PartType DEF Count
<1>3. Typed(flows') /\ DOMAIN flows \subseteq DOMAIN flows'
  <2>1. SendFlow(Part(t)) \in FlowId /\ Typed(flows)
    BY <1>2, FlowNames, TypesSplit DEF PartOf
  <2>2. flows' = Bump(flows, SendFlow(Part(t)), "sent")
    BY DEF Count
  <2> QED
    BY <2>1, <2>2, BumpSent
<1>4. runner[t].next + 1 \in 0..Packets
  BY <1>1, ProbesAssumption DEF Count, WellFormed, Coroutine
<1>5. WellFormed(r, flows')
  BY <1>1, <1>3, <1>4 DEF Count, WellFormed, Coroutine, Phase
<1>6. runner' = [runner EXCEPT ![t] = r]
  <2>1. runner' = [runner EXCEPT ![t] = [runner[t] EXCEPT !.phase = "send", !.next = @ + 1]]
    BY DEF Count
  <2>2. [runner[t] EXCEPT !.phase = "send"]
          = [plan |-> runner[t].plan, next |-> runner[t].next, phase |-> "send"]
    BY <1>1 DEF Coroutine
  <2>3. [runner[t] EXCEPT !.phase = "send", !.next = @ + 1] = r
    <3>1. [runner[t] EXCEPT !.phase = "send", !.next = @ + 1]
            = [[runner[t] EXCEPT !.phase = "send"] EXCEPT !.next = runner[t].next + 1]
      BY <1>1 DEF Coroutine
    <3>2. ASSUME NEW p, NEW n, NEW m
          PROVE  [[plan |-> p, next |-> n, phase |-> "send"] EXCEPT !.next = m]
                   = [plan |-> p, next |-> m, phase |-> "send"]
      OBVIOUS
    <3>3. [[plan |-> runner[t].plan, next |-> runner[t].next, phase |-> "send"]
             EXCEPT !.next = runner[t].next + 1] = r
      BY <3>2
    <3> HIDE DEF r
    <3> QED
      BY <2>2, <3>1, <3>3
  <2> QED
    BY <2>1, <2>3
<1> HIDE DEF r
<1>7. runner' = [u \in Runner |-> runner'[u]] /\ \A u \in Runner : WellFormed(runner'[u], flows')
  BY <1>3, <1>5, <1>6, CoroutineMoves
<1> QED
  BY <1>3, <1>7, TypesSplit, TypesSplitNext DEF Count

LEMMA ReportTypes ==
  ASSUME TypeOK, NEW t \in Runner, Report(t)
  PROVE  TypeOK'
<1> DEFINE r == IF Len(runner[t].plan) = 1 THEN Idle
                ELSE [plan |-> Tail(runner[t].plan), next |-> 0, phase |-> "begin"]
<1>1. WellFormed(runner[t], flows) /\ runner[t].phase = "send" /\ Typed(flows)
  BY TypesSplit DEF Report
<1>2. Part(t) \in PartOf /\ runner[t].plan \in Seq(PartOf) /\ runner[t].plan # <<>>
  BY <1>1, PartType
<1>3. Result(Part(t)) \in Report1
  <2>1. OwnFlow(Part(t)) \in DOMAIN flows
    BY <1>1 DEF WellFormed, Part
  <2>2. flows[OwnFlow(Part(t))] \in FlowStats
    BY <1>1, <2>1 DEF Typed
  <2>3. Part(t)[1] \in Kind /\ Part(t)[2] \in Peer \cup Target
    BY <1>2 DEF PartOf
  <2> QED
    BY <2>2, <2>3, ProbesAssumption DEF Result, Report1, FlowStats
<1>4. reports' \in Seq(Report1)
  <2>1. reports \in Seq(Report1) /\ reports' = Append(reports, Result(Part(t)))
    BY TypesSplit DEF Report
  <2> QED
    BY <1>3, <2>1, AppendProperties
<1>5. WellFormed(r, flows)
  <2>1. 0 \in 0..Packets /\ <<>> \in Seq(PartOf)
    BY ProbesAssumption, EmptySeq
  <2>2. CASE Len(runner[t].plan) = 1
    BY <2>1, <2>2 DEF Idle, WellFormed, Coroutine, Phase
  <2>3. CASE Len(runner[t].plan) # 1
    <3>1. Tail(runner[t].plan) \in Seq(PartOf) /\ Len(Tail(runner[t].plan)) = Len(runner[t].plan) - 1
      BY <1>2, HeadTailProperties
    <3>2. Len(runner[t].plan) \in Nat /\ Len(runner[t].plan) # 0
      BY <1>2, LenProperties, EmptySeq
    <3>3. Len(Tail(runner[t].plan)) # 0
      BY <2>3, <3>1, <3>2
    <3>4. Tail(runner[t].plan) # <<>>
      BY <3>1, <3>3, EmptySeq
    <3> QED
      BY <2>1, <2>3, <3>1, <3>4 DEF WellFormed, Coroutine, Phase
  <2> QED
    BY <2>2, <2>3
<1>6. runner' = [runner EXCEPT ![t] = r]
  BY DEF Report
<1> HIDE DEF r
<1>7. runner' = [u \in Runner |-> runner'[u]] /\ \A u \in Runner : WellFormed(runner'[u], flows)
  BY <1>5, <1>6, CoroutineMoves
<1> QED
  BY <1>4, <1>7, TypesSplit, TypesSplitNext DEF Report

\* What a frame does to the counts and flows.
LEMMA FrameFlow ==
  ASSUME NEW f \in AnyFrame, RecvFlow(f) # {}
  PROVE  /\ (CHOOSE id \in RecvFlow(f) : TRUE) \in FlowId
         /\ RecvFlow(f) = {CHOOSE id \in RecvFlow(f) : TRUE}
<1>1. f.src \in Peer \cup Target
  BY DEF AnyFrame, AIDFrame, RIDFrame
<1>2. \E id \in FlowId : RecvFlow(f) = {id}
  BY <1>1 DEF RecvFlow, FlowId, Purpose
<1> QED
  BY <1>2

LEMMA FrameTypes ==
  ASSUME TypeOK, NEW f \in AnyFrame, NEW inNode \in BOOLEAN, OnFrame(f, inNode)
  PROVE  TypeOK'
<1>1. counts' \in [{"aid_rx", "rid_rx", "probe_rx"} -> Nat]
  BY TypesSplit DEF OnFrame
<1>2. recorded' \in Nat
  BY TypesSplit DEF OnFrame, RecordRecv
<1>3. heard' \in [AnyFrame -> Nat]
  BY TypesSplit DEF OnFrame
<1>4. Typed(flows') /\ DOMAIN flows \subseteq DOMAIN flows'
  <2>1. CASE RecvFlow(f) = {}
    BY <2>1, TypesSplit DEF OnFrame
  <2>2. CASE RecvFlow(f) # {}
    <3>1. flows' = Bump(flows, CHOOSE id \in RecvFlow(f) : TRUE, "recv")
      BY <2>2 DEF OnFrame
    <3>2. (CHOOSE id \in RecvFlow(f) : TRUE) \in FlowId /\ Typed(flows)
      BY <2>2, FrameFlow, TypesSplit
    <3> QED
      BY <3>1, <3>2, BumpRecv
  <2> QED
    BY <2>1, <2>2
<1>5. \A t \in Runner : WellFormed(runner[t], flows')
  BY <1>4, TypesSplit DEF WellFormed
<1> QED
  BY <1>1, <1>2, <1>3, <1>4, <1>5, TypesSplit, TypesSplitNext DEF OnFrame

LEMMA CancelTypes ==
  ASSUME TypeOK, CancelAll
  PROVE  TypeOK'
<1>1. \A t \in Runner : WellFormed(runner'[t], flows)
  <2> SUFFICES ASSUME NEW t \in Runner PROVE WellFormed(runner'[t], flows)
    OBVIOUS
  <2>1. WellFormed(runner[t], flows)
    BY TypesSplit
  <2>2. CASE runner[t].phase = "idle"
    BY <2>1, <2>2 DEF CancelAll
  <2>3. CASE runner[t].phase # "idle"
    <3>1. runner'[t] = [plan |-> runner[t].plan, next |-> runner[t].next, phase |-> "cancelled"]
      BY <2>1, <2>3 DEF CancelAll, WellFormed, Coroutine
    <3> QED
      BY <2>1, <2>3, <3>1 DEF WellFormed, Coroutine, Phase
  <2> QED
    BY <2>2, <2>3
<1>2. runner' = [t \in Runner |-> runner'[t]]
  BY DEF CancelAll
<1> QED
  BY <1>1, <1>2, TypesSplit, TypesSplitNext DEF CancelAll

LEMMA NextTypeOK == TypeOK /\ [Next]_vars => TypeOK'
<1> SUFFICES ASSUME TypeOK, [Next]_vars PROVE TypeOK'
  OBVIOUS
<1>1. ASSUME NEW t \in Runner, NEW plan \in Plans, NEW monitored \in BOOLEAN,
             Start(t, plan, monitored)
      PROVE  TypeOK'
  BY <1>1, StartTypes
<1>2. ASSUME NEW t \in Runner, Begin(t) \/ SendPacket(t) \/ Count(t) \/ Report(t) PROVE TypeOK'
  BY <1>2, BeginTypes, SendTypes, CountTypes, ReportTypes
<1>3. ASSUME NEW f \in AnyFrame, NEW inNode \in BOOLEAN, OnFrame(f, inNode) PROVE TypeOK'
  BY <1>3, FrameTypes
<1>4. CASE CancelAll
  BY <1>4, CancelTypes
<1>5. CASE StartMonitor \/ StopMonitor
  BY <1>5, TypesSplit, TypesSplitNext DEF StartMonitor, StopMonitor
<1>6. CASE UNCHANGED vars
  BY <1>6, TypesSplit, TypesSplitNext DEF vars
<1> QED
  BY <1>1, <1>2, <1>3, <1>4, <1>5, <1>6 DEF Next

\* What the coroutines and the monitor of the test server are, whatever they do.
THEOREM ProbesTypes == Spec => []TypeOK
<1> QED
  BY InitTypeOK, NextTypeOK, PTL DEF Spec

\* No counter of a flow is set back, but those of the latency test's own flow.
LEMMA GrowsWith ==
  ASSUME NEW fs, Typed(fs), NEW g, Typed(g), DOMAIN fs \subseteq DOMAIN g,
         NEW id \in DOMAIN fs, SentIn(g, id) >= SentIn(fs, id), RecvIn(g, id) >= RecvIn(fs, id)
  PROVE  g[id].sent >= fs[id].sent /\ g[id].recv >= fs[id].recv
BY DEF SentIn, RecvIn

LEMMA CountsAreNat ==
  ASSUME NEW fs, Typed(fs), NEW id
  PROVE  SentIn(fs, id) \in Nat /\ RecvIn(fs, id) \in Nat
BY DEF Typed, FlowStats, SentIn, RecvIn

LEMMA FlowsGrow ==
  ASSUME TypeOK, [Next]_vars, NEW id \in DOMAIN flows, id[1] # "latency"
  PROVE  flows'[id].sent >= flows[id].sent /\ flows'[id].recv >= flows[id].recv
<1>1. Typed(flows) /\ Typed(flows')
  <2>1. TypeOK'
    BY NextTypeOK
  <2> QED
    BY <2>1, TypesSplit, TypesSplitNext
<1>2. SentIn(flows, id) \in Nat /\ RecvIn(flows, id) \in Nat
  BY <1>1, CountsAreNat
<1>3. SUFFICES DOMAIN flows \subseteq DOMAIN flows'
               /\ SentIn(flows', id) >= SentIn(flows, id) /\ RecvIn(flows', id) >= RecvIn(flows, id)
  BY <1>1, GrowsWith
<1>4. ASSUME NEW t \in Runner, Begin(t)
      PROVE  DOMAIN flows \subseteq DOMAIN flows'
             /\ SentIn(flows', id) = SentIn(flows, id) /\ RecvIn(flows', id) = RecvIn(flows, id)
  <2>1. Part(t) \in PartOf /\ flows' = BegunFlows(flows, Part(t))
    BY <1>4, BeginTypes, PartType DEF Begin
  <2>2. /\ DOMAIN BegunFlows(flows, Part(t)) = DOMAIN flows \cup {OwnFlow(Part(t))}
        /\ SentIn(BegunFlows(flows, Part(t)), id) = SentIn(flows, id)
        /\ RecvIn(BegunFlows(flows, Part(t)), id) = RecvIn(flows, id)
    BY <1>1, <2>1, BegunFlowsCount DEF PartOf
  <2> QED
    BY <2>1, <2>2
<1>5. ASSUME NEW t \in Runner, Count(t)
      PROVE  DOMAIN flows \subseteq DOMAIN flows'
             /\ SentIn(flows', id) >= SentIn(flows, id) /\ RecvIn(flows', id) >= RecvIn(flows, id)
  <2>1. SendFlow(Part(t)) \in FlowId /\ flows' = Bump(flows, SendFlow(Part(t)), "sent")
    BY <1>5, PartType, FlowNames DEF Count, PartOf
  <2>2. /\ DOMAIN Bump(flows, SendFlow(Part(t)), "sent") = DOMAIN flows \cup {SendFlow(Part(t))}
        /\ SentIn(flows', id) = SentIn(flows, id) \/ SentIn(flows', id) = SentIn(flows, id) + 1
        /\ RecvIn(flows', id) = RecvIn(flows, id)
    BY <1>1, <2>1, BumpSent
  <2> QED
    BY <1>2, <2>1, <2>2
<1>6. ASSUME NEW f \in AnyFrame, NEW inNode \in BOOLEAN, OnFrame(f, inNode)
      PROVE  DOMAIN flows \subseteq DOMAIN flows'
             /\ SentIn(flows', id) >= SentIn(flows, id) /\ RecvIn(flows', id) >= RecvIn(flows, id)
  <2>1. CASE RecvFlow(f) = {}
    BY <1>2, <1>6, <2>1 DEF OnFrame
  <2>2. CASE RecvFlow(f) # {}
    <3> DEFINE own == CHOOSE x \in RecvFlow(f) : TRUE
    <3>1. own \in FlowId /\ flows' = Bump(flows, own, "recv")
      BY <1>6, <2>2, FrameFlow DEF OnFrame
    <3> HIDE DEF own
    <3>2. /\ DOMAIN Bump(flows, own, "recv") = DOMAIN flows \cup {own}
          /\ RecvIn(flows', id) = RecvIn(flows, id) \/ RecvIn(flows', id) = RecvIn(flows, id) + 1
          /\ SentIn(flows', id) = SentIn(flows, id)
      BY <1>1, <3>1, BumpRecv
    <3> QED
      BY <1>2, <3>1, <3>2
  <2> QED
    BY <2>1, <2>2
<1>7. ASSUME flows' = flows
      PROVE  DOMAIN flows \subseteq DOMAIN flows'
             /\ SentIn(flows', id) >= SentIn(flows, id) /\ RecvIn(flows', id) >= RecvIn(flows, id)
  BY <1>2, <1>7
<1>8. \/ \E t \in Runner : Begin(t) \/ Count(t)
      \/ \E f \in AnyFrame, inNode \in BOOLEAN : OnFrame(f, inNode)
      \/ flows' = flows
  BY DEF Next, Start, SendPacket, Report, CancelAll, StartMonitor, StopMonitor, vars
<1> QED
  BY <1>2, <1>4, <1>5, <1>6, <1>7, <1>8

THEOREM CountersOnlyGrowAlways == Spec => CountersOnlyGrow
<1>1. TypeOK /\ [Next]_vars =>
        [\A id \in DOMAIN flows : id[1] # "latency" =>
           flows'[id].sent >= flows[id].sent /\ flows'[id].recv >= flows[id].recv]_vars
  BY FlowsGrow
<1> QED
  BY <1>1, ProbesTypes, PTL DEF Spec, CountersOnlyGrow

-----------------------------------------------------------------------------
(* Every packet is counted once.                                           *)

\* One member changes its value, joins or leaves.
LEMMA TotalSwap ==
  ASSUME NEW S, IsFiniteSet(S), NEW n, \A x \in S : n[x] \in Nat,
         NEW R, IsFiniteSet(R), NEW m, \A x \in R : m[x] \in Nat,
         NEW a, S \ {a} = R \ {a}, \A x \in S \ {a} : n[x] = m[x]
  PROVE  /\ Total(n, S) \in Nat /\ Total(m, R) \in Nat
         /\ Total(m, R) + (IF a \in S THEN n[a] ELSE 0)
              = Total(n, S) + (IF a \in R THEN m[a] ELSE 0)
<1>1. Total(n, S \ {a}) = Total(m, R \ {a})
  BY TotalSame
<1>2. /\ IsFiniteSet(S \ {a}) /\ IsFiniteSet(R \ {a})
      /\ Total(n, S \ {a}) \in Nat /\ Total(n, S) \in Nat /\ Total(m, R) \in Nat
  <2>1. IsFiniteSet(S \ {a}) /\ IsFiniteSet(R \ {a})
    BY FS_RemoveElement
  <2> QED
    BY <2>1, TokensFinite
<1>3. Total(n, S) = Total(n, S \ {a}) + (IF a \in S THEN n[a] ELSE 0)
  <2>1. CASE a \in S
    BY <2>1, TotalRemove
  <2>2. CASE a \notin S
    <3>1. S \ {a} = S
      BY <2>2
    <3> QED
      BY <1>2, <2>2, <3>1
  <2> QED
    BY <2>1, <2>2
<1>4. Total(m, R) = Total(m, R \ {a}) + (IF a \in R THEN m[a] ELSE 0)
  <2>1. CASE a \in R
    BY <2>1, TotalRemove
  <2>2. CASE a \notin R
    <3>1. R \ {a} = R
      BY <2>2
    <3> QED
      BY <1>1, <1>2, <2>2, <3>1
  <2> QED
    BY <2>1, <2>2
<1>5. (IF a \in S THEN n[a] ELSE 0) \in Nat /\ (IF a \in R THEN m[a] ELSE 0) \in Nat
  OBVIOUS
<1> DEFINE x == Total(n, S \ {a})
           y == IF a \in S THEN n[a] ELSE 0
           z == IF a \in R THEN m[a] ELSE 0
<1>6. x \in Nat /\ y \in Nat /\ z \in Nat /\ Total(n, S) = x + y /\ Total(m, R) = x + z
  BY <1>1, <1>2, <1>3, <1>4, <1>5
<1> HIDE DEF x, y, z
<1>7. Total(m, R) + y = Total(n, S) + z
  BY <1>6
<1> QED
  BY <1>2, <1>7 DEF y, z

\* SendsCounted of given flows, reports and coroutines.
NextOf(run) == [t \in Runner |-> run[t].next]
RunningIn(run, part) == {t \in Runner : run[t].phase # "idle" /\ Head(run[t].plan) = part}
FinishedIn(rep, part) == {j \in DOMAIN rep : <<rep[j].kind, rep[j].of>> = part}
OnTheWay(run, part) == Total(NextOf(run), RunningIn(run, part))
Share(r, part) == IF r.phase # "idle" /\ Head(r.plan) = part THEN r.next ELSE 0

Counted(fs, rep, run) ==
  \A part \in PartOf :
    SentIn(fs, SendFlow(part)) = Packets * Cardinality(FinishedIn(rep, part)) + OnTheWay(run, part)

LEMMA SendsCountedIs == SendsCounted <=> Counted(flows, reports, runner)
BY DEF SendsCounted, Counted, Sent, SentIn, Finished, FinishedIn, Running, RunningIn,
       OnTheWay, NextOf, Part, PartOf

LEMMA SendsCountedIsNext == SendsCounted' <=> Counted(flows', reports', runner')
BY DEF SendsCounted, Counted, Sent, SentIn, Finished, FinishedIn, Running, RunningIn,
       OnTheWay, NextOf, Part, PartOf

\* One coroutine moves: what is on the way changes by its share.
LEMMA MoveTotal ==
  ASSUME NEW run, \A t \in Runner : run[t] \in Coroutine,
         NEW t \in Runner, NEW r \in Coroutine, NEW run1,
         run1[t] = r, \A u \in Runner : u # t => run1[u] = run[u],
         NEW part
  PROVE  /\ OnTheWay(run, part) \in Nat /\ OnTheWay(run1, part) \in Nat
         /\ OnTheWay(run1, part) + Share(run[t], part) = OnTheWay(run, part) + Share(r, part)
<1> DEFINE S == RunningIn(run, part)
           R == RunningIn(run1, part)
           n == NextOf(run)
           m == NextOf(run1)
<1>1. S \in SUBSET Runner /\ R \in SUBSET Runner
  BY DEF RunningIn
<1>2. IsFiniteSet(S) /\ IsFiniteSet(R)
  BY <1>1, ProbesAssumption, FS_Subset
<1>3. \A u \in Runner : n[u] \in Nat /\ m[u] \in Nat
  BY ProbesAssumption DEF NextOf, Coroutine
<1>4. S \ {t} = R \ {t} /\ \A u \in S \ {t} : n[u] = m[u]
  BY DEF RunningIn, NextOf
<1>5. /\ Share(run[t], part) = IF t \in S THEN n[t] ELSE 0
      /\ Share(r, part) = IF t \in R THEN m[t] ELSE 0
  BY DEF Share, RunningIn, NextOf
<1>6. OnTheWay(run, part) = Total(n, S) /\ OnTheWay(run1, part) = Total(m, R)
  BY DEF OnTheWay
<1> HIDE DEF S, R, n, m
<1>7. /\ Total(n, S) \in Nat /\ Total(m, R) \in Nat
      /\ Total(m, R) + (IF t \in S THEN n[t] ELSE 0) = Total(n, S) + (IF t \in R THEN m[t] ELSE 0)
  BY <1>1, <1>2, <1>3, <1>4, TotalSwap
<1> QED
  BY <1>5, <1>6, <1>7

LEMMA CoroutineTypes ==
  ASSUME TypeOK
  PROVE  \A t \in Runner : runner[t] \in Coroutine
BY TypesSplit DEF WellFormed

\* MoveTotal of the step of one coroutine.
LEMMA RunnerMoves ==
  ASSUME TypeOK, NEW t \in Runner, NEW r \in Coroutine,
         runner' = [runner EXCEPT ![t] = r], NEW part
  PROVE  /\ OnTheWay(runner, part) \in Nat /\ OnTheWay(runner', part) \in Nat
         /\ OnTheWay(runner', part) + Share(runner[t], part) = OnTheWay(runner, part) + Share(r, part)
<1>1. \A u \in Runner : runner[u] \in Coroutine
  BY CoroutineTypes
<1>2. runner'[t] = r /\ \A u \in Runner : u # t => runner'[u] = runner[u]
  BY TypesSplit
<1> DEFINE old == runner
           new == runner'
<1>3. /\ \A u \in Runner : old[u] \in Coroutine
      /\ new[t] = r /\ \A u \in Runner : u # t => new[u] = old[u]
  BY <1>1, <1>2
<1> HIDE DEF old, new
<1>4. /\ OnTheWay(old, part) \in Nat /\ OnTheWay(new, part) \in Nat
      /\ OnTheWay(new, part) + Share(old[t], part) = OnTheWay(old, part) + Share(r, part)
  BY <1>3, MoveTotal
<1> QED
  BY <1>4 DEF old, new

\* A coroutine whose share stays the same, with nothing reported and no packet counted.
LEMMA ShareKept ==
  ASSUME TypeOK, SendsCounted, NEW t \in Runner, NEW r \in Coroutine,
         runner' = [runner EXCEPT ![t] = r], reports' = reports,
         \A part \in PartOf : Share(r, part) = Share(runner[t], part),
         \A part \in PartOf : SentIn(flows', SendFlow(part)) = SentIn(flows, SendFlow(part))
  PROVE  SendsCounted'
<1>1. ASSUME NEW part \in PartOf PROVE OnTheWay(runner', part) = OnTheWay(runner, part)
  <2>1. /\ OnTheWay(runner, part) \in Nat /\ OnTheWay(runner', part) \in Nat
        /\ OnTheWay(runner', part) + Share(runner[t], part) = OnTheWay(runner, part) + Share(r, part)
    BY RunnerMoves
  <2>2. Share(r, part) = Share(runner[t], part) /\ Share(r, part) \in Nat
    BY ProbesAssumption DEF Share, Coroutine
  <2> QED
    BY <2>1, <2>2
<1>2. Counted(flows, reports, runner)
  BY SendsCountedIs
<1>3. Counted(flows', reports', runner')
  BY <1>1, <1>2 DEF Counted
<1> QED
  BY <1>3, SendsCountedIsNext

LEMMA StartCounts ==
  ASSUME TypeOK, SendsCounted, NEW t \in Runner, NEW plan \in Plans, NEW monitored \in BOOLEAN, Start(t, plan, monitored)
  PROVE  SendsCounted'
<1> DEFINE r == [plan |-> plan, next |-> 0, phase |-> "begin"]
<1>1. r \in Coroutine
  BY ProbesAssumption DEF Coroutine, PartOf, Phase
<1>2. runner' = [runner EXCEPT ![t] = r] /\ reports' = reports /\ flows' = flows
  BY DEF Start
<1>3. \A part \in PartOf : Share(r, part) = Share(runner[t], part)
  BY DEF Start, Share, Idle
<1> HIDE DEF r
<1> QED
  BY <1>1, <1>2, <1>3, ShareKept

LEMMA BeginCounts ==
  ASSUME TypeOK, SendsCounted, NEW t \in Runner, Begin(t)
  PROVE  SendsCounted'
<1> DEFINE r == [runner[t] EXCEPT !.phase = "send"]
<1>1. runner[t] \in Coroutine /\ Part(t) \in PartOf
  BY CoroutineTypes, PartType DEF Begin
<1>2. r \in Coroutine
  BY <1>1 DEF Coroutine, Phase
<1>3. runner' = [runner EXCEPT ![t] = r] /\ reports' = reports
  BY DEF Begin
<1>4. \A part \in PartOf : Share(r, part) = Share(runner[t], part)
  BY <1>1 DEF Begin, Share, Coroutine
<1>5. \A part \in PartOf : SentIn(flows', SendFlow(part)) = SentIn(flows, SendFlow(part))
  <2> SUFFICES ASSUME NEW part \in PartOf
               PROVE  SentIn(flows', SendFlow(part)) = SentIn(flows, SendFlow(part))
    OBVIOUS
  <2>1. SendFlow(part)[1] # "latency"
    BY FlowNames DEF PartOf
  <2>2. flows' = BegunFlows(flows, Part(t)) /\ Typed(flows)
    BY BeginTypes, TypesSplit
  <2>3. SentIn(BegunFlows(flows, Part(t)), SendFlow(part)) = SentIn(flows, SendFlow(part))
    BY <1>1, <2>1, <2>2, BegunFlowsCount DEF PartOf
  <2> QED
    BY <2>2, <2>3
<1> HIDE DEF r
<1> QED
  BY <1>2, <1>3, <1>4, <1>5, ShareKept

LEMMA SendCounts ==
  ASSUME TypeOK, SendsCounted, NEW t \in Runner, SendPacket(t)
  PROVE  SendsCounted'
<1> DEFINE r == [runner[t] EXCEPT !.phase = "await"]
<1>1. runner[t] \in Coroutine
  BY CoroutineTypes
<1>2. r \in Coroutine
  BY <1>1 DEF Coroutine, Phase
<1>3. runner' = [runner EXCEPT ![t] = r] /\ reports' = reports /\ flows' = flows
  BY DEF SendPacket
<1>4. \A part \in PartOf : Share(r, part) = Share(runner[t], part)
  BY <1>1 DEF SendPacket, Share, Coroutine
<1> HIDE DEF r
<1> QED
  BY <1>2, <1>3, <1>4, ShareKept

LEMMA CountCounts ==
  ASSUME TypeOK, SendsCounted, NEW t \in Runner, Count(t)
  PROVE  SendsCounted'
<1> DEFINE r == [runner[t] EXCEPT !.phase = "send", !.next = @ + 1]
<1>1. runner[t] \in Coroutine /\ WellFormed(runner[t], flows) /\ Typed(flows)
  BY TypesSplit DEF WellFormed
<1>2. r \in Coroutine /\ r.phase = "send" /\ r.next = runner[t].next + 1 /\ r.plan = runner[t].plan
  <2>1. runner[t].next + 1 \in 0..Packets
    BY <1>1, ProbesAssumption DEF Count, WellFormed, Coroutine
  <2> QED
    BY <1>1, <2>1 DEF Coroutine, Phase
<1>3. runner' = [runner EXCEPT ![t] = r] /\ reports' = reports
  BY DEF Count
<1> HIDE DEF r
<1>4. Part(t) \in PartOf
  BY PartType DEF Count
<1>5. flows' = Bump(flows, SendFlow(Part(t)), "sent") /\ SendFlow(Part(t)) \in FlowId
  BY <1>4, FlowNames DEF Count, PartOf
<1>6. Counted(flows, reports, runner)
  BY SendsCountedIs
<1>7. ASSUME NEW part \in PartOf
      PROVE  SentIn(flows', SendFlow(part))
               = Packets * Cardinality(FinishedIn(reports', part)) + OnTheWay(runner', part)
  <2>1. /\ OnTheWay(runner, part) \in Nat /\ OnTheWay(runner', part) \in Nat
        /\ OnTheWay(runner', part) + Share(runner[t], part) = OnTheWay(runner, part) + Share(r, part)
    BY <1>2, <1>3, RunnerMoves
  <2>2. SentIn(flows, SendFlow(part))
          = Packets * Cardinality(FinishedIn(reports, part)) + OnTheWay(runner, part)
    BY <1>6 DEF Counted
  <2>3. Packets * Cardinality(FinishedIn(reports, part)) \in Nat
    <3>1. Cardinality(FinishedIn(reports, part)) \in Nat
      <4>1. reports \in Seq(Report1)
        BY TypesSplit
      <4>2. DOMAIN reports = 1..Len(reports) /\ Len(reports) \in Nat
        BY <4>1, LenProperties
      <4>3. IsFiniteSet(1..Len(reports))
        BY <4>2, FS_Interval
      <4>4. FinishedIn(reports, part) \in SUBSET (1..Len(reports))
        BY <4>2 DEF FinishedIn
      <4> QED
        BY <4>3, <4>4, FS_Subset, FS_CardinalityType
    <3> QED
      BY <3>1, ProbesAssumption
  <2>4. CASE part = Part(t)
    <3>1. SentIn(flows', SendFlow(part)) = SentIn(flows, SendFlow(part)) + 1
      BY <1>1, <1>5, <2>4, BumpSent
    <3>2. Share(runner[t], part) = runner[t].next /\ Share(r, part) = runner[t].next + 1
      BY <1>2, <2>4 DEF Share, Count, Part
    <3>3. runner[t].next \in Nat
      BY <1>1, ProbesAssumption DEF Coroutine
    <3>4. OnTheWay(runner', part) = OnTheWay(runner, part) + 1
      BY <2>1, <3>2, <3>3
    <3> QED
      BY <1>3, <2>1, <2>2, <2>3, <3>1, <3>4
  <2>5. CASE part # Part(t)
    <3>1. SendFlow(part) # SendFlow(Part(t))
      BY <1>4, <2>5, SendFlowInjective DEF PartOf
    <3>2. SentIn(flows', SendFlow(part)) = SentIn(flows, SendFlow(part))
      BY <1>1, <1>5, <3>1, BumpSent
    <3>3. Share(runner[t], part) = 0 /\ Share(r, part) = 0
      BY <1>2, <2>5 DEF Share, Part
    <3> QED
      BY <1>3, <2>1, <2>2, <3>2, <3>3
  <2> QED
    BY <2>4, <2>5
<1>8. Counted(flows', reports', runner')
  BY <1>7 DEF Counted
<1> QED
  BY <1>8, SendsCountedIsNext

\* A report more.
LEMMA FinishedAppend ==
  ASSUME NEW rep \in Seq(Report1), NEW e \in Report1, NEW part
  PROVE  /\ Cardinality(FinishedIn(rep, part)) \in Nat
         /\ Cardinality(FinishedIn(Append(rep, e), part))
              = Cardinality(FinishedIn(rep, part)) + (IF <<e.kind, e.of>> = part THEN 1 ELSE 0)
<1> DEFINE A == FinishedIn(rep, part)
           k == Len(rep) + 1
<1>1. Len(rep) \in Nat /\ DOMAIN rep = 1..Len(rep)
  BY LenProperties
<1>2. IsFiniteSet(A)
  <2>1. IsFiniteSet(1..Len(rep)) /\ A \in SUBSET (1..Len(rep))
    BY <1>1, FS_Interval DEF FinishedIn
  <2> QED
    BY <2>1, FS_Subset
<1>3. DOMAIN Append(rep, e) = 1..k /\ Append(rep, e)[k] = e
      /\ \A j \in 1..Len(rep) : Append(rep, e)[j] = rep[j]
  <2>1. Append(rep, e) \in Seq(Report1) /\ Len(Append(rep, e)) = k
    BY AppendProperties
  <2> QED
    BY <1>1, <2>1, AppendProperties, LenProperties
<1>4. FinishedIn(Append(rep, e), part) = IF <<e.kind, e.of>> = part THEN A \cup {k} ELSE A
  <2>1. 1..k = (1..Len(rep)) \cup {k} /\ k \notin 1..Len(rep)
    BY <1>1
  <2> QED
    BY <1>1, <1>3, <2>1 DEF FinishedIn
<1>5. k \notin A
  BY <1>1 DEF FinishedIn
<1> HIDE DEF A, k
<1>6. Cardinality(A) \in Nat
  BY <1>2, FS_CardinalityType
<1>7. Cardinality(A \cup {k}) = Cardinality(A) + 1
  BY <1>2, <1>5, FS_AddElement
<1> QED
  BY <1>4, <1>6, <1>7 DEF A

LEMMA OneMore ==
  ASSUME NEW n \in Nat, NEW k \in Nat
  PROVE  n * k \in Nat /\ n * (k + 1) = n * k + n
OBVIOUS

LEMMA ReportCounts ==
  ASSUME TypeOK, SendsCounted, NEW t \in Runner, Report(t)
  PROVE  SendsCounted'
<1> DEFINE r == IF Len(runner[t].plan) = 1 THEN Idle
                ELSE [plan |-> Tail(runner[t].plan), next |-> 0, phase |-> "begin"]
           e == Result(Part(t))
<1>1. WellFormed(runner[t], flows) /\ Typed(flows) /\ reports \in Seq(Report1)
  BY TypesSplit
<1>2. Part(t) \in PartOf
  BY PartType DEF Report
<1>3. runner' = [runner EXCEPT ![t] = r] /\ flows' = flows /\ reports' = Append(reports, e)
  BY DEF Report
<1>4. runner'[t] = r /\ \A u \in Runner : u # t => runner'[u] = runner[u]
  BY <1>3, TypesSplit
<1>5. r \in Coroutine
  <2>1. TypeOK'
    BY ReportTypes
  <2> QED
    BY <1>4, <2>1, TypesSplitNext DEF WellFormed
<1>6. \A part : Share(r, part) = 0
  BY DEF Share, Idle
<1>7. e \in Report1 /\ <<e.kind, e.of>> = Part(t)
  <2>1. OwnFlow(Part(t)) \in DOMAIN flows
    BY <1>1 DEF WellFormed, Part, Report
  <2>2. flows[OwnFlow(Part(t))] \in FlowStats
    BY <1>1, <2>1 DEF Typed
  <2>3. Part(t) = <<Part(t)[1], Part(t)[2]>> /\ Part(t)[1] \in Kind /\ Part(t)[2] \in Peer \cup Target
    BY <1>2 DEF PartOf
  <2> QED
    BY <2>2, <2>3, ProbesAssumption DEF Result, Report1, FlowStats
<1> HIDE DEF r, e
<1>8. Counted(flows, reports, runner)
  BY SendsCountedIs
<1>9. ASSUME NEW part \in PartOf
      PROVE  SentIn(flows', SendFlow(part))
               = Packets * Cardinality(FinishedIn(reports', part)) + OnTheWay(runner', part)
  <2> DEFINE k == Cardinality(FinishedIn(reports, part))
             k1 == Cardinality(FinishedIn(reports', part))
  <2>1. /\ OnTheWay(runner, part) \in Nat /\ OnTheWay(runner', part) \in Nat
        /\ OnTheWay(runner', part) + Share(runner[t], part) = OnTheWay(runner, part) + Share(r, part)
    BY <1>3, <1>5, RunnerMoves
  <2>2. SentIn(flows, SendFlow(part)) = Packets * k + OnTheWay(runner, part)
    BY <1>8 DEF Counted
  <2>3. k \in Nat /\ k1 = k + (IF Part(t) = part THEN 1 ELSE 0)
    <3>1. /\ Cardinality(FinishedIn(reports, part)) \in Nat
          /\ Cardinality(FinishedIn(Append(reports, e), part))
              = Cardinality(FinishedIn(reports, part)) + (IF <<e.kind, e.of>> = part THEN 1 ELSE 0)
      BY <1>1, <1>7, FinishedAppend
    <3> QED
      BY <1>3, <1>7, <3>1
  <2> HIDE DEF k, k1
  <2>4. CASE part = Part(t)
    <3>1. Share(runner[t], part) = Packets
      BY <2>4 DEF Share, Report, Part
    <3>2. Share(r, part) = 0
      BY <1>6
    <3>3. Packets * k1 = Packets * k + Packets /\ Packets * k \in Nat /\ Packets \in Nat
      BY <2>3, <2>4, OneMore, ProbesAssumption
    <3>4. Packets * k + OnTheWay(runner, part) = Packets * k1 + OnTheWay(runner', part)
      <4> DEFINE a == Packets * k
                 b == Packets * k1
                 x == OnTheWay(runner, part)
                 y == OnTheWay(runner', part)
      <4>1. y + Packets = x + 0 /\ b = a + Packets /\ a \in Nat /\ x \in Nat /\ y \in Nat /\ Packets \in Nat
        BY <2>1, <3>1, <3>2, <3>3
      <4> HIDE DEF a, b, x, y
      <4>2. a + x = b + y
        BY <4>1
      <4> QED
        BY <4>2 DEF a, b, x, y
    <3> QED
      BY <1>3, <2>2, <3>4 DEF k1
  <2>5. CASE part # Part(t)
    <3>1. Share(runner[t], part) = 0 /\ Share(r, part) = 0
      BY <1>6, <2>5 DEF Share, Part
    <3>2. k1 = k /\ OnTheWay(runner', part) = OnTheWay(runner, part)
      BY <2>1, <2>3, <2>5, <3>1
    <3> QED
      BY <1>3, <2>2, <3>2 DEF k1
  <2> QED
    BY <2>4, <2>5
<1>10. Counted(flows', reports', runner')
  BY <1>9 DEF Counted
<1> QED
  BY <1>10, SendsCountedIsNext

LEMMA CancelCounts ==
  ASSUME TypeOK, SendsCounted, CancelAll
  PROVE  SendsCounted'
<1>1. \A t \in Runner : /\ runner'[t].next = runner[t].next /\ runner'[t].plan = runner[t].plan
                        /\ runner'[t].phase = "idle" <=> runner[t].phase = "idle"
  <2> SUFFICES ASSUME NEW t \in Runner
               PROVE  /\ runner'[t].next = runner[t].next /\ runner'[t].plan = runner[t].plan
                      /\ runner'[t].phase = "idle" <=> runner[t].phase = "idle"
    OBVIOUS
  <2>1. runner[t] \in Coroutine
    BY CoroutineTypes
  <2> QED
    BY <2>1 DEF CancelAll, Coroutine
<1>2. \A part : RunningIn(runner', part) = RunningIn(runner, part)
  BY <1>1 DEF RunningIn
<1>3. NextOf(runner') = NextOf(runner)
  BY <1>1 DEF NextOf
<1>4. Counted(flows, reports, runner)
  BY SendsCountedIs
<1>5. Counted(flows', reports', runner')
  BY <1>2, <1>3, <1>4 DEF Counted, OnTheWay, CancelAll
<1> QED
  BY <1>5, SendsCountedIsNext

\* A frame is counted in a flow no packet is sent under.
LEMMA FrameNames ==
  ASSUME NEW f \in AnyFrame, RecvFlow(f) # {}
  PROVE  (CHOOSE x \in RecvFlow(f) : TRUE)[1] \in {"probe", "bw-recv", "rid-echo"}
<1>1. \A x \in RecvFlow(f) : x[1] \in {"probe", "bw-recv", "rid-echo"}
  BY DEF RecvFlow
<1> QED
  BY <1>1, FrameFlow

LEMMA FrameCounts ==
  ASSUME TypeOK, SendsCounted, NEW f \in AnyFrame, NEW inNode \in BOOLEAN, OnFrame(f, inNode)
  PROVE  SendsCounted'
<1>1. \A x : SentIn(flows', x) = SentIn(flows, x)
  <2>1. CASE RecvFlow(f) = {}
    BY <2>1 DEF OnFrame
  <2>2. CASE RecvFlow(f) # {}
    <3> DEFINE own == CHOOSE x \in RecvFlow(f) : TRUE
    <3>1. own \in FlowId /\ flows' = Bump(flows, own, "recv") /\ Typed(flows)
      BY <2>2, FrameFlow, TypesSplit DEF OnFrame
    <3> HIDE DEF own
    <3>2. \A x : SentIn(Bump(flows, own, "recv"), x) = SentIn(flows, x)
      BY <3>1, BumpRecv
    <3> QED
      BY <3>1, <3>2
  <2> QED
    BY <2>1, <2>2
<1>2. runner' = runner /\ reports' = reports
  BY DEF OnFrame
<1>3. Counted(flows', reports', runner')
  BY <1>1, <1>2, SendsCountedIs DEF Counted
<1> QED
  BY <1>3, SendsCountedIsNext

LEMMA InitCounts == Init => SendsCounted
<1> SUFFICES ASSUME Init, NEW part \in PartOf
             PROVE  SentIn(flows, SendFlow(part))
                      = Packets * Cardinality(FinishedIn(reports, part)) + OnTheWay(runner, part)
  BY SendsCountedIs DEF Counted
<1>1. SentIn(flows, SendFlow(part)) = 0
  BY DEF Init, SentIn
<1>2. FinishedIn(reports, part) = {}
  BY DEF Init, FinishedIn
<1>3. Cardinality(FinishedIn(reports, part)) = 0
  BY <1>2, FS_EmptySet
<1>4. \A t \in Runner : NextOf(runner)[t] = 0
  BY DEF Init, Idle, NextOf
<1>5. \A t \in RunningIn(runner, part) : NextOf(runner)[t] = 0
  BY <1>4 DEF RunningIn
<1>6. OnTheWay(runner, part) = 0
  BY <1>5, TotalZero DEF OnTheWay
<1> QED
  BY <1>1, <1>3, <1>6, ProbesAssumption

LEMMA NextCounts == TypeOK /\ SendsCounted /\ [Next]_vars => SendsCounted'
<1> SUFFICES ASSUME TypeOK, SendsCounted, [Next]_vars PROVE SendsCounted'
  OBVIOUS
<1>1. ASSUME NEW t \in Runner, NEW plan \in Plans, NEW monitored \in BOOLEAN,
             Start(t, plan, monitored)
      PROVE  SendsCounted'
  BY <1>1, StartCounts
<1>2. ASSUME NEW t \in Runner, Begin(t) \/ SendPacket(t) \/ Count(t) \/ Report(t) PROVE SendsCounted'
  BY <1>2, BeginCounts, SendCounts, CountCounts, ReportCounts
<1>3. ASSUME NEW f \in AnyFrame, NEW inNode \in BOOLEAN, OnFrame(f, inNode) PROVE SendsCounted'
  BY <1>3, FrameCounts
<1>4. CASE CancelAll
  BY <1>4, CancelCounts
<1>5. CASE flows' = flows /\ reports' = reports /\ runner' = runner
  BY <1>5, SendsCountedIs, SendsCountedIsNext
<1>6. CASE StartMonitor \/ StopMonitor \/ UNCHANGED vars
  BY <1>5, <1>6 DEF StartMonitor, StopMonitor, vars
<1> QED
  BY <1>1, <1>2, <1>3, <1>4, <1>6 DEF Next

\* Every packet of every test is counted exactly once under its peer, for any number of
\* coroutines whose tests and awaits interleave, cancelled or not.
THEOREM SendsCountedAlways == Spec => []SendsCounted
<1> QED
  BY InitCounts, NextCounts, ProbesTypes, PTL DEF Spec

-----------------------------------------------------------------------------
(* The monitor's totals.                                                   *)

LEMMA FramesFinite ==
  IsFiniteSet(AnyFrame) /\ IsFiniteSet(Unparsed) /\ IsFiniteSet(Peer \cup Target)
<1>1. IsFiniteSet(Peer \cup Target)
  BY ProbesAssumption, FS_Union
<1>2. IsFiniteSet(Text)
  <2>1. \A x, y : IsFiniteSet({x, y})
    <3> SUFFICES ASSUME NEW x, NEW y PROVE IsFiniteSet({x, y})
      OBVIOUS
    <3>1. IsFiniteSet({x} \cup {y})
      BY FS_Singleton, FS_AddElement
    <3>2. {x} \cup {y} = {x, y}
      OBVIOUS
    <3> QED
      BY <3>1, <3>2
  <2>2. IsFiniteSet({"probe", "rid-probe"} \cup {"bad-probe", "bw"})
    BY <2>1, FS_Union
  <2>3. IsFiniteSet({"other", "damaged"} \cup {"bw", "bad-rid-probe"})
    BY <2>1, FS_Union
  <2>4. IsFiniteSet(({"probe", "rid-probe"} \cup {"bad-probe", "bw"}) \cup ({"other", "damaged"} \cup {"bw", "bad-rid-probe"}))
    BY <2>2, <2>3, FS_Union
  <2>5. Text = ({"probe", "rid-probe"} \cup {"bad-probe", "bw"}) \cup ({"other", "damaged"} \cup {"bw", "bad-rid-probe"})
    BY DEF Text
  <2> QED
    BY <2>4, <2>5
<1>3. ASSUME NEW net, NEW S, IsFiniteSet(S)
      PROVE  IsFiniteSet([net : {net}, text : Text, src : S])
  <2> DEFINE F == [e \in Text \X S |-> [net |-> net, text |-> e[1], src |-> e[2]]]
             R == [net : {net}, text : Text, src : S]
  <2>1. IsFiniteSet(Text \X S)
    BY <1>2, <1>3, FS_Product
  <2>2. F \in Surjection(Text \X S, R)
    <3>1. F \in [Text \X S -> R]
      OBVIOUS
    <3>2. ASSUME NEW f \in R PROVE \E e \in Text \X S : F[e] = f
      <4>1. <<f.text, f.src>> \in Text \X S /\ F[<<f.text, f.src>>] = f
        OBVIOUS
      <4> QED
        BY <4>1
    <3> QED
      BY <3>1, <3>2 DEF Surjection
  <2> QED
    BY <2>1, <2>2, FS_Surjection
<1>4. IsFiniteSet(AIDFrame) /\ IsFiniteSet(RIDFrame)
  BY <1>3, ProbesAssumption DEF AIDFrame, RIDFrame
<1>5. IsFiniteSet(AnyFrame)
  BY <1>4, FS_Union DEF AnyFrame
<1>6. IsFiniteSet(Unparsed)
  BY <1>5, FS_Subset DEF Unparsed
<1> QED
  BY <1>1, <1>5, <1>6

\* TalliesAgree of given counts, flows and frames.
ProbesIn(fs) == [p \in Peer \cup Target |-> RecvIn(fs, <<"probe", p>>) + RecvIn(fs, <<"rid-echo", p>>)]
Tallied(cs, fs, hd) ==
  /\ cs.aid_rx + cs.rid_rx = Total(hd, AnyFrame)
  /\ cs.probe_rx = Total(ProbesIn(fs), Peer \cup Target) + Total(hd, Unparsed)
  /\ cs.probe_rx <= cs.aid_rx + cs.rid_rx

LEMMA TalliesAgreeIs == TalliesAgree <=> Tallied(counts, flows, heard)
BY DEF TalliesAgree, Tallied, ProbesFrom, ProbesIn, Recv, RecvIn

LEMMA TalliesAgreeIsNext == TalliesAgree' <=> Tallied(counts', flows', heard')
BY DEF TalliesAgree, Tallied, ProbesFrom, ProbesIn, Recv, RecvIn

LEMMA ProbesInNat ==
  ASSUME NEW fs, Typed(fs)
  PROVE  \A p \in Peer \cup Target : ProbesIn(fs)[p] \in Nat
BY CountsAreNat DEF ProbesIn

\* Nothing but a frame touches what is received, the latency flows aside.
LEMMA ReceivedKept ==
  ASSUME TalliesAgree, counts' = counts, heard' = heard,
         \A x : x[1] # "latency" => RecvIn(flows', x) = RecvIn(flows, x)
  PROVE  TalliesAgree'
<1>1. ProbesIn(flows') = ProbesIn(flows)
  BY DEF ProbesIn
<1>2. Tallied(counts', flows', heard')
  BY <1>1, TalliesAgreeIs DEF Tallied
<1> QED
  BY <1>2, TalliesAgreeIsNext

LEMMA FrameTallies ==
  ASSUME TypeOK, TalliesAgree, NEW f \in AnyFrame, NEW inNode \in BOOLEAN, OnFrame(f, inNode)
  PROVE  TalliesAgree'
<1>1. /\ counts \in [{"aid_rx", "rid_rx", "probe_rx"} -> Nat] /\ Typed(flows)
      /\ heard \in [AnyFrame -> Nat]
  BY TypesSplit
<1>2. f.src \in Peer \cup Target /\ f.net \in {"aid", "rid"} /\ f.text \in Text
  BY DEF AnyFrame, AIDFrame, RIDFrame
<1>3. heard' = [heard EXCEPT ![f] = @ + 1]
  BY DEF OnFrame
<1>4. /\ heard' \in [AnyFrame -> Nat] /\ heard'[f] = heard[f] + 1
      /\ \A x \in AnyFrame : x # f => heard'[x] = heard[x]
  BY <1>1, <1>3
<1>5. Total(heard', AnyFrame) = Total(heard, AnyFrame) + 1
  BY <1>1, <1>4, FramesFinite, TotalBump
<1>6. Unparsed \subseteq AnyFrame
  BY DEF Unparsed, AnyFrame
<1>7. Total(heard', Unparsed) = Total(heard, Unparsed) + (IF f \in Unparsed THEN 1 ELSE 0)
  <2>1. \A x \in Unparsed : heard[x] \in Nat
    BY <1>1, <1>6
  <2>2. Total(heard, Unparsed) \in Nat
    BY <2>1, FramesFinite, TokensFinite
  <2>3. CASE f \in Unparsed
    BY <1>4, <1>6, <2>1, <2>3, FramesFinite, TotalBump
  <2>4. CASE f \notin Unparsed
    <3>1. \A x \in Unparsed : heard'[x] = heard[x]
      BY <1>4, <1>6, <2>4
    <3>2. Total(heard', Unparsed) = Total(heard, Unparsed)
      BY <3>1, TotalSame
    <3> QED
      BY <2>2, <2>4, <3>2
  <2> QED
    BY <2>3, <2>4
<1> DEFINE parsed == \/ f.net = "aid" /\ f.text \in {"probe", "rid-probe"}
                     \/ f.net = "rid" /\ f.text = "rid-probe"
<1>8. Total(ProbesIn(flows'), Peer \cup Target)
        = Total(ProbesIn(flows), Peer \cup Target) + (IF parsed THEN 1 ELSE 0)
  <2> DEFINE own == CHOOSE x \in RecvFlow(f) : TRUE
             P == Peer \cup Target
  <2>1. \A p \in P : ProbesIn(flows)[p] \in Nat
    BY <1>1, ProbesInNat
  <2>2. Total(ProbesIn(flows), P) \in Nat
    BY <2>1, FramesFinite, TokensFinite
  <2>3. CASE parsed
    <3>1. RecvFlow(f) # {} /\ own = (IF f.net = "aid" THEN <<"probe", f.src>> ELSE <<"rid-echo", f.src>>)
      <4>1. RecvFlow(f) = {IF f.net = "aid" THEN <<"probe", f.src>> ELSE <<"rid-echo", f.src>>}
        BY <2>3 DEF RecvFlow
      <4> QED
        BY <4>1
    <3>2. own \in FlowId /\ flows' = Bump(flows, own, "recv")
      BY <3>1, FrameFlow DEF OnFrame
    <3> HIDE DEF own
    <3>3. /\ RecvIn(flows', own) = RecvIn(flows, own) + 1
          /\ \A x : x # own => RecvIn(flows', x) = RecvIn(flows, x)
      <4>1. /\ RecvIn(Bump(flows, own, "recv"), own) = RecvIn(flows, own) + 1
            /\ \A x : x # own => RecvIn(Bump(flows, own, "recv"), x) = RecvIn(flows, x)
        BY <1>1, <3>2, BumpRecv
      <4> QED
        BY <3>2, <4>1
    <3>4. \A p \in P : /\ <<"probe", p>> # <<"rid-echo", p>>
                       /\ p # f.src => <<"probe", p>> # own /\ <<"rid-echo", p>> # own
      BY <3>1
    <3>5. \A p \in P : p # f.src => ProbesIn(flows')[p] = ProbesIn(flows)[p]
      BY <3>3, <3>4 DEF ProbesIn
    <3>6. RecvIn(flows, <<"probe", f.src>>) \in Nat /\ RecvIn(flows, <<"rid-echo", f.src>>) \in Nat
      BY <1>1, CountsAreNat
    <3>7. ProbesIn(flows')[f.src] = ProbesIn(flows)[f.src] + 1
      <4>1. \/ /\ RecvIn(flows', <<"probe", f.src>>) = RecvIn(flows, <<"probe", f.src>>) + 1
               /\ RecvIn(flows', <<"rid-echo", f.src>>) = RecvIn(flows, <<"rid-echo", f.src>>)
            \/ /\ RecvIn(flows', <<"probe", f.src>>) = RecvIn(flows, <<"probe", f.src>>)
               /\ RecvIn(flows', <<"rid-echo", f.src>>) = RecvIn(flows, <<"rid-echo", f.src>>) + 1
        BY <1>2, <3>1, <3>3, <3>4
      <4> QED
        BY <1>2, <3>6, <4>1 DEF ProbesIn
    <3> HIDE DEF P
    <3>8. Total(ProbesIn(flows'), P) = Total(ProbesIn(flows), P) + 1
      BY <1>2, <2>1, <3>5, <3>7, FramesFinite, TotalBump DEF P
    <3> QED
      BY <2>3, <3>8 DEF P
  <2>4. CASE ~parsed
    <3>1. \A p \in P : /\ RecvIn(flows', <<"probe", p>>) = RecvIn(flows, <<"probe", p>>)
                       /\ RecvIn(flows', <<"rid-echo", p>>) = RecvIn(flows, <<"rid-echo", p>>)
      <4>1. CASE RecvFlow(f) = {}
        BY <4>1 DEF OnFrame
      <4>2. CASE RecvFlow(f) # {}
        <5>1. RecvFlow(f) = {<<"bw-recv", f.src>>}
          BY <1>2, <2>4, <4>2 DEF RecvFlow
        <5>2. own = <<"bw-recv", f.src>>
          BY <5>1
        <5>3. own \in FlowId /\ flows' = Bump(flows, own, "recv")
          BY <4>2, FrameFlow DEF OnFrame
        <5> HIDE DEF own
        <5>4. \A x : x # own => RecvIn(Bump(flows, own, "recv"), x) = RecvIn(flows, x)
          BY <1>1, <5>3, BumpRecv
        <5>5. \A p \in P : <<"probe", p>> # own /\ <<"rid-echo", p>> # own
          BY <5>2
        <5> QED
          BY <5>3, <5>4, <5>5
      <4> QED
        BY <4>1, <4>2
    <3>2. ProbesIn(flows') = ProbesIn(flows)
      BY <3>1 DEF ProbesIn
    <3> QED
      BY <2>2, <2>4, <3>2
  <2> QED
    BY <2>3, <2>4
<1>9. /\ counts'.aid_rx + counts'.rid_rx = counts.aid_rx + counts.rid_rx + 1
      /\ counts'.probe_rx = counts.probe_rx + (IF IsProbe(f) THEN 1 ELSE 0)
  <2>1. CASE f.net = "aid"
    <3>1. counts' = [counts EXCEPT !["aid_rx"] = @ + 1, !["probe_rx"] = IF IsProbe(f) THEN @ + 1 ELSE @]
      BY <2>1 DEF OnFrame
    <3> QED
      BY <1>1, <3>1
  <2>2. CASE f.net = "rid"
    <3>1. counts' = [counts EXCEPT !["rid_rx"] = @ + 1, !["probe_rx"] = IF IsProbe(f) THEN @ + 1 ELSE @]
      BY <2>2 DEF OnFrame
    <3> QED
      BY <1>1, <3>1
  <2> QED
    BY <1>2, <2>1, <2>2
<1>10. (IF IsProbe(f) THEN 1 ELSE 0) = (IF parsed THEN 1 ELSE 0) + (IF f \in Unparsed THEN 1 ELSE 0)
  <2>1. f \in Unparsed <=> f.text = "bad-rid-probe" \/ (f.net = "aid" /\ f.text = "bad-probe")
    BY DEF Unparsed, AnyFrame, AIDFrame, RIDFrame
  <2>2. IsProbe(f) <=> parsed \/ f \in Unparsed
    BY <1>2, <2>1 DEF IsProbe
  <2>3. ~(parsed /\ f \in Unparsed)
    BY <2>1
  <2> HIDE DEF parsed
  <2> QED
    BY <2>2, <2>3
<1> HIDE DEF parsed
<1>11. Tallied(counts, flows, heard)
  BY TalliesAgreeIs
<1>12. /\ counts.aid_rx \in Nat /\ counts.rid_rx \in Nat /\ counts.probe_rx \in Nat
       /\ Total(ProbesIn(flows), Peer \cup Target) \in Nat /\ Total(heard, Unparsed) \in Nat
  <2>1. \A x \in Unparsed : heard[x] \in Nat
    BY <1>1, <1>6
  <2> QED
    BY <1>1, <2>1, ProbesInNat, FramesFinite, TokensFinite
<1>13. Tallied(counts', flows', heard')
  <2>1. counts'.aid_rx + counts'.rid_rx = Total(heard', AnyFrame)
    BY <1>5, <1>9, <1>11 DEF Tallied
  <2>2. counts'.probe_rx = Total(ProbesIn(flows'), Peer \cup Target) + Total(heard', Unparsed)
    <3> DEFINE x == Total(ProbesIn(flows), Peer \cup Target)
               y == Total(heard, Unparsed)
               b == IF parsed THEN 1 ELSE 0
               c == IF f \in Unparsed THEN 1 ELSE 0
    <3>1. /\ counts'.probe_rx = counts.probe_rx + (b + c) /\ counts.probe_rx = x + y
          /\ Total(ProbesIn(flows'), Peer \cup Target) = x + b /\ Total(heard', Unparsed) = y + c
          /\ x \in Nat /\ y \in Nat /\ b \in Nat /\ c \in Nat
      BY <1>7, <1>8, <1>9, <1>10, <1>11, <1>12 DEF Tallied
    <3> HIDE DEF x, y, b, c
    <3> QED
      BY <3>1
  <2>3. counts'.probe_rx <= counts'.aid_rx + counts'.rid_rx
    BY <1>9, <1>11, <1>12 DEF Tallied
  <2> QED
    BY <2>1, <2>2, <2>3 DEF Tallied
<1> QED
  BY <1>13, TalliesAgreeIsNext

LEMMA InitTallies == Init => TalliesAgree
<1> SUFFICES ASSUME Init PROVE Tallied(counts, flows, heard)
  BY TalliesAgreeIs
<1>1. \A f \in AnyFrame : heard[f] = 0
  BY DEF Init
<1>2. Total(heard, AnyFrame) = 0
  BY <1>1, TotalZero
<1>3. \A f \in Unparsed : heard[f] = 0
  BY <1>1 DEF Unparsed, AnyFrame
<1>4. Total(heard, Unparsed) = 0
  BY <1>3, TotalZero
<1>5. \A p \in Peer \cup Target : ProbesIn(flows)[p] = 0
  BY DEF Init, ProbesIn, RecvIn
<1>6. Total(ProbesIn(flows), Peer \cup Target) = 0
  BY <1>5, TotalZero
<1>7. counts.aid_rx = 0 /\ counts.rid_rx = 0 /\ counts.probe_rx = 0
  BY DEF Init
<1> QED
  BY <1>2, <1>4, <1>6, <1>7 DEF Tallied

LEMMA NextTallies == TypeOK /\ TalliesAgree /\ [Next]_vars => TalliesAgree'
<1> SUFFICES ASSUME TypeOK, TalliesAgree, [Next]_vars PROVE TalliesAgree'
  OBVIOUS
<1>1. ASSUME NEW f \in AnyFrame, NEW inNode \in BOOLEAN, OnFrame(f, inNode) PROVE TalliesAgree'
  BY <1>1, FrameTallies
<1>2. ASSUME NEW t \in Runner, Begin(t) PROVE TalliesAgree'
  <2>1. Part(t) \in PartOf /\ flows' = BegunFlows(flows, Part(t)) /\ Typed(flows)
    BY <1>2, BeginTypes, PartType, TypesSplit DEF Begin
  <2>2. \A x : x[1] # "latency" => RecvIn(BegunFlows(flows, Part(t)), x) = RecvIn(flows, x)
    BY <2>1, BegunFlowsCount DEF PartOf
  <2> QED
    BY <1>2, <2>1, <2>2, ReceivedKept DEF Begin
<1>3. ASSUME NEW t \in Runner, Count(t) PROVE TalliesAgree'
  <2>1. SendFlow(Part(t)) \in FlowId /\ flows' = Bump(flows, SendFlow(Part(t)), "sent") /\ Typed(flows)
    BY <1>3, PartType, FlowNames, TypesSplit DEF Count, PartOf
  <2>2. \A x : RecvIn(Bump(flows, SendFlow(Part(t)), "sent"), x) = RecvIn(flows, x)
    BY <2>1, BumpSent
  <2> QED
    BY <1>3, <2>1, <2>2, ReceivedKept DEF Count
<1>4. CASE flows' = flows /\ counts' = counts /\ heard' = heard
  BY <1>4, ReceivedKept
<1>5. \/ \E f \in AnyFrame, inNode \in BOOLEAN : OnFrame(f, inNode)
      \/ \E t \in Runner : Begin(t) \/ Count(t)
      \/ flows' = flows /\ counts' = counts /\ heard' = heard
  BY DEF Next, Start, SendPacket, Report, CancelAll, StartMonitor, StopMonitor, vars
<1> QED
  BY <1>1, <1>2, <1>3, <1>4, <1>5

\* The monitor's totals and the flows agree, however frames and tests interleave.
THEOREM TalliesAgreeAlways == Spec => []TalliesAgree
<1> QED
  BY InitTallies, NextTallies, ProbesTypes, PTL DEF Spec

-----------------------------------------------------------------------------
(* The processes.                                                          *)

LEMMA FramesKept ==
  ASSUME frames \in Seq(AnyFrame), [DeviceNext]_allVars
  PROVE  frames' \in Seq(AnyFrame)
<1>1. ASSUME NEW f \in AnyFrame, NEW mine \in BOOLEAN, Read(f, mine) PROVE frames' \in Seq(AnyFrame)
  BY <1>1, AppendProperties DEF Read
<1>2. ASSUME Handle PROVE frames' \in Seq(AnyFrame)
  BY <1>2, HeadTailProperties DEF Handle
<1>3. ASSUME Exit PROVE frames' \in Seq(AnyFrame)
  BY <1>3, EmptySeq DEF Exit
<1>4. \/ \E f \in AnyFrame, mine \in BOOLEAN : Read(f, mine)
      \/ Handle \/ Exit \/ frames' = frames
  BY DEF DeviceNext, allVars, deviceVars, Open, Hear, Ready, TapReady, TapStop, AutoStop,
         Close, Call, RunTest, Monitoring
<1> QED
  BY <1>1, <1>2, <1>3, <1>4

LEMMA DeviceStep == frames \in Seq(AnyFrame) /\ [DeviceNext]_allVars => [Next]_vars
<1> SUFFICES ASSUME frames \in Seq(AnyFrame), [DeviceNext]_allVars PROVE [Next]_vars
  OBVIOUS
<1>1. ASSUME Handle PROVE Next
  <2>1. Head(frames) \in AnyFrame
    BY <1>1, HeadTailProperties DEF Handle
  <2>2. OnFrame(Head(frames), FALSE)
    BY <1>1 DEF Handle
  <2> QED
    BY <2>1, <2>2 DEF Next
<1>2. ASSUME NEW f \in AnyFrame, Hear(f) PROVE Next
  BY <1>2 DEF Hear, Next
<1>3. ASSUME Ready PROVE Next
  BY <1>3, DeviceAssumption DEF Ready, Next
<1>4. ASSUME NEW t \in Runner, NEW plan \in Plans, Call(t, plan) PROVE Next
  BY <1>4 DEF Call, Next
<1>5. ASSUME NEW t \in Runner, RunTest(t) PROVE Next
  BY <1>5 DEF RunTest, Next
<1>6. ASSUME Exit \/ Monitoring PROVE Next
  BY <1>6 DEF Exit, Monitoring, Next
<1>7. \/ Handle \/ Ready \/ Exit \/ Monitoring
      \/ \E f \in AnyFrame : Hear(f)
      \/ \E t \in Runner : RunTest(t)
      \/ \E t \in Runner, plan \in Plans : Call(t, plan)
      \/ UNCHANGED vars
  BY DEF DeviceNext, allVars, Open, Read, TapReady, TapStop, AutoStop, Close
<1> QED
  BY <1>1, <1>2, <1>3, <1>4, <1>5, <1>6, <1>7

\* The theorems of Probes carry over: to its variables the order of the frames' tasks,
\* the readers that close and the cancellation at the end make no difference.
LEMMA ProbesCarryOver == DeviceSpec => Spec
<1>1. DeviceInit => Init /\ frames \in Seq(AnyFrame)
  BY EmptySeq DEF DeviceInit
<1>2. frames \in Seq(AnyFrame) /\ [DeviceNext]_allVars => (frames \in Seq(AnyFrame))'
  BY FramesKept
<1> QED
  BY <1>1, <1>2, DeviceStep, PTL DEF DeviceSpec, Spec

\* The same for every process that runs a test server.
THEOREM DeviceTypes == DeviceSpec => []TypeOK
BY ProbesCarryOver, ProbesTypes, PTL

THEOREM DeviceSendsCounted == DeviceSpec => []SendsCounted
BY ProbesCarryOver, SendsCountedAlways, PTL

THEOREM DeviceTalliesAgree == DeviceSpec => []TalliesAgree
BY ProbesCarryOver, TalliesAgreeAlways, PTL

THEOREM DeviceCountersOnlyGrow == DeviceSpec => CountersOnlyGrow
BY ProbesCarryOver, CountersOnlyGrowAlways, PTL
=============================================================================
