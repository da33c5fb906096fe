---------------------------- MODULE JourneyProofs -----------------------------
(***************************************************************************)
(* Proof, for every deployment of Network, every payload size and any      *)
(* number of requests and logins, that every image in a queue is what      *)
(* serialize makes of a packet that was sent or of a signal, so that       *)
(* deserialize returns that packet: what comes out has the size it had.    *)
(* And proof, for every deployment in which each configured address leads  *)
(* to the right node, that a packet comes out once at most and only at the *)
(* node it is for.                                                         *)
(***************************************************************************)
EXTENDS Journey, SequenceTheorems, TLAPS

\* An AID packet with the size of the request of its number in log, the
\* sequence of the requests so far.
SentPacket(p, log) ==
  /\ p = AidPacket(p.no, p.dst, p.ttl, p.size)
  /\ p.no \in DOMAIN log /\ p.size = log[p.no].size /\ p.size \in Nat
  /\ p.ttl \in 1..TTL

AidImage(w, log) == w = SerializeAid(w.packet) /\ SentPacket(w.packet, log)

SignalImage(w) ==
  /\ w = EncodeSignal(w.type, w.user, w.success, w.source)
  /\ w.type \in {"request", "response", "alert"}
  /\ w.type = "request" => w.user \in Host

RidImage(w, log) ==
  /\ w = SerializeRid(w.dst, w.space, w.ttl, w.load) /\ w.ttl \in 1..TTL
  /\ AidImage(w.load, log) \/ SignalImage(w.load)

\* What may be in a frame, and with a length that struct.pack has accepted.
Image(w, log) == AidImage(w, log) \/ RidImage(w, log)
PackedImage(w, log) == Image(w, log) /\ Packs(w.length)

\* A queue of such images, and sends of such images.
IsSequence(q) == q \in Seq(Range(q))
IntactQueue(q, log) == IsSequence(q) /\ \A w \in Range(q) : PackedImage(w, log)
IntactSends(sends, log) == \A s \in sends : PackedImage(s.frame.image, log)

JourneyInv ==
  /\ net \in Nets /\ queue = [i \in Network[net].iface |-> queue[i]]
  /\ \A i \in DOMAIN queue : IntactQueue(queue[i], sent)
  /\ IsSequence(sent)
  /\ pending \in [AP -> Host \cup {None}]
  /\ login \in [Host -> {"none", "waiting", "returned"}]
  /\ accepted \subseteq Host /\ verified \subseteq Host
  /\ damaged = {}
-----------------------------------------------------------------------------
(* Sequences.                                                               *)

LEMMA SequenceOfRange ==
  ASSUME NEW S, NEW q \in Seq(S)
  PROVE  IsSequence(q)
<1>1. Len(q) \in Nat /\ q \in [1..Len(q) -> S]
  BY LenProperties
<1>2. q \in [1..Len(q) -> Range(q)]
  BY <1>1 DEF Range
<1> QED
  BY <1>1, <1>2, IsASeq DEF IsSequence

LEMMA AppendRange ==
  ASSUME NEW q, IsSequence(q), NEW e
  PROVE  /\ IsSequence(Append(q, e)) /\ Range(Append(q, e)) = Range(q) \cup {e}
         /\ DOMAIN q \subseteq DOMAIN Append(q, e)
         /\ \A k \in DOMAIN q : Append(q, e)[k] = q[k]
         /\ Len(q) + 1 \in DOMAIN Append(q, e) /\ Append(q, e)[Len(q) + 1] = e
         /\ \A k \in DOMAIN Append(q, e) : k \in DOMAIN q \/ k = Len(q) + 1
<1> DEFINE r == Append(q, e)
<1>1. q \in Seq(Range(q) \cup {e}) /\ Len(q) \in Nat /\ DOMAIN q = 1..Len(q)
  <2>1. q \in Seq(Range(q))
    BY DEF IsSequence
  <2>2. Len(q) \in Nat /\ q \in [1..Len(q) -> Range(q)]
    BY <2>1, LenProperties
  <2>3. q \in [1..Len(q) -> Range(q) \cup {e}]
    BY <2>2
  <2> QED
    BY <2>2, <2>3, IsASeq
<1>2. /\ r \in Seq(Range(q) \cup {e}) /\ Len(r) = Len(q) + 1
      /\ DOMAIN r = 1..(Len(q) + 1)
      /\ \A k \in 1..Len(q) : r[k] = q[k]
      /\ r[Len(q) + 1] = e
  BY <1>1, AppendProperties, LenProperties
<1> HIDE DEF r
<1>3. Range(r) = Range(q) \cup {e}
  <2>1. \A k \in DOMAIN r : k = Len(q) + 1 \/ k \in 1..Len(q)
    BY <1>1, <1>2
  <2> QED
    BY <1>1, <1>2, <2>1 DEF Range
<1>4. IsSequence(r)
  BY <1>2, SequenceOfRange
<1>5. \A k \in DOMAIN r : k \in DOMAIN q \/ k = Len(q) + 1
  BY <1>1, <1>2
<1> QED
  BY <1>1, <1>2, <1>3, <1>4, <1>5 DEF r

LEMMA TailRange ==
  ASSUME NEW q, IsSequence(q), q # <<>>
  PROVE  /\ IsSequence(Tail(q)) /\ Range(Tail(q)) \subseteq Range(q)
         /\ Head(q) \in Range(q)
<1>1. q \in Seq(Range(q))
  BY DEF IsSequence
<1>2. Head(q) \in Range(q) /\ Tail(q) \in Seq(Range(q))
  BY <1>1, HeadTailProperties
<1>3. IsSequence(Tail(q))
  BY <1>2, SequenceOfRange
<1>4. \A k \in DOMAIN Tail(q) : Tail(q)[k] \in Range(q)
  BY <1>2, ElementOfSeq, LenProperties
<1> QED
  BY <1>2, <1>3, <1>4 DEF Range

LEMMA TailEntries ==
  ASSUME NEW q, IsSequence(q), q # <<>>
  PROVE  /\ 1 \in DOMAIN q /\ Head(q) = q[1]
         /\ \A k \in DOMAIN Tail(q) : /\ k \in Nat \ {0} /\ k + 1 \in DOMAIN q
                                      /\ Tail(q)[k] = q[k + 1]
<1>1. q \in Seq(Range(q))
  BY DEF IsSequence
<1>2. Len(q) \in Nat \ {0} /\ DOMAIN q = 1..Len(q)
  BY <1>1, EmptySeq, LenProperties
<1>3. /\ Head(q) = q[1] /\ DOMAIN Tail(q) = 1..(Len(q) - 1)
      /\ \A k \in 1..(Len(q) - 1) : Tail(q)[k] = q[k + 1]
  <2>1. Head(q) = q[1]
    BY <1>1
  <2>2. Tail(q) \in Seq(Range(q)) /\ Len(Tail(q)) = Len(q) - 1
    BY <1>1, HeadTailProperties
  <2>3. DOMAIN Tail(q) = 1..(Len(q) - 1)
    BY <2>2, LenProperties
  <2>4. \A k \in 1..Len(Tail(q)) : Tail(q)[k] = q[k + 1]
    BY <1>1, HeadTailProperties
  <2> QED
    BY <2>1, <2>2, <2>3, <2>4
<1> QED
  BY <1>2, <1>3
-----------------------------------------------------------------------------
(* Images.                                                                  *)

LEMMA MinOfSame ==
  ASSUME NEW a \in Int
  PROVE  Min({a, a}) = a
  BY DEF Min

\* deserialize undoes serialize.
LEMMA AidRoundTrip ==
  ASSUME NEW log, NEW w, AidImage(w, log)
  PROVE  /\ DeserializeAid(w) = w.packet /\ IsAidFrame(w) /\ w.type = "aid"
         /\ w.length \in Nat /\ w.bytes \in Nat
<1>1. /\ w.type = "aid" /\ w.length = w.packet.size /\ w.bytes = AidHeader + w.packet.size
      /\ w.packet.size \in Nat
  BY DEF AidImage, SerializeAid, SentPacket
<1>2. Min({w.length, w.bytes - AidHeader}) = w.packet.size
  <2>1. w.bytes - AidHeader = w.packet.size
    BY <1>1 DEF AidHeader
  <2> QED
    BY <1>1, <2>1, MinOfSame
<1>3. [w.packet EXCEPT !.size = w.packet.size] = w.packet
  <2>1. \A n, d, t, s : [AidPacket(n, d, t, s) EXCEPT !.size = s] = AidPacket(n, d, t, s)
    BY DEF AidPacket
  <2>2. w.packet = AidPacket(w.packet.no, w.packet.dst, w.packet.ttl, w.packet.size)
    BY DEF AidImage, SentPacket
  <2> QED
    BY <2>1, <2>2
<1> QED
  BY <1>1, <1>2, <1>3 DEF DeserializeAid, IsAidFrame, AidHeader

LEMMA LoadBytes ==
  ASSUME NEW log, NEW w, AidImage(w, log) \/ SignalImage(w)
  PROVE  w.bytes \in Nat /\ [w EXCEPT !.bytes = w.bytes] = w
<1>1. CASE AidImage(w, log)
  <2>1. \A p : [SerializeAid(p) EXCEPT !.bytes = SerializeAid(p).bytes] = SerializeAid(p)
    BY DEF SerializeAid
  <2> QED
    BY <1>1, <2>1, AidRoundTrip DEF AidImage
<1>2. CASE SignalImage(w)
  <2>1. \A t, u, ok, r :
           /\ [EncodeSignal(t, u, ok, r) EXCEPT !.bytes = EncodeSignal(t, u, ok, r).bytes]
                = EncodeSignal(t, u, ok, r)
           /\ EncodeSignal(t, u, ok, r).bytes \in Nat
    BY DEF EncodeSignal, SignalBytes
  <2> QED
    BY <1>2, <2>1 DEF SignalImage
<1> QED
  BY <1>1, <1>2

LEMMA RidRoundTrip ==
  ASSUME NEW log, NEW w, RidImage(w, log)
  PROVE  /\ DeserializeRid(w).load = w.load /\ DeserializeRid(w).dst = w.dst
         /\ DeserializeRid(w).space = w.space
         /\ ~IsAidFrame(w) /\ w.type = "rid"
         /\ w.length \in Nat /\ w.bytes \in Nat
<1>1. w.type = "rid" /\ w.length = w.load.bytes /\ w.bytes = RidHeader + w.load.bytes
  BY DEF RidImage, SerializeRid
<1>2. w.load.bytes \in Nat /\ [w.load EXCEPT !.bytes = w.load.bytes] = w.load
  BY LoadBytes DEF RidImage
<1>3. Min({w.length, w.bytes - RidHeader}) = w.load.bytes
  <2>1. w.bytes - RidHeader = w.load.bytes
    BY <1>1, <1>2 DEF RidHeader
  <2> QED
    BY <1>1, <1>2, <2>1, MinOfSame
<1> QED
  BY <1>1, <1>2, <1>3 DEF DeserializeRid, IsAidFrame, RidHeader

\* A router or an AP that wraps a packet, or sends it on, sends an image.
LEMMA SerializedAid ==
  ASSUME NEW log, NEW p, SentPacket(p, log)
  PROVE  AidImage(SerializeAid(p), log)
<1>1. SerializeAid(p).packet = p
  BY DEF SerializeAid
<1> QED
  BY <1>1 DEF AidImage

LEMMA SerializedRid ==
  ASSUME NEW log, NEW load, AidImage(load, log) \/ SignalImage(load),
         NEW dst, NEW space, NEW t \in 1..TTL
  PROVE  RidImage(SerializeRid(dst, space, t, load), log)
<1> DEFINE w == SerializeRid(dst, space, t, load)
<1>1. w.dst = dst /\ w.space = space /\ w.ttl = t /\ w.load = load
  BY DEF SerializeRid
<1> HIDE DEF w
<1>2. w = SerializeRid(w.dst, w.space, w.ttl, w.load)
  BY <1>1 DEF w
<1>3. RidImage(w, log)
  BY <1>1, <1>2 DEF RidImage
<1> QED
  BY <1>3 DEF w

LEMMA SignalIsImage ==
  ASSUME NEW type \in {"request", "response", "alert"}, NEW user, NEW ok,
         NEW source, type = "request" => user \in Host
  PROVE  SignalImage(EncodeSignal(type, user, ok, source))
<1> DEFINE w == EncodeSignal(type, user, ok, source)
<1>1. w.type = type /\ w.user = user /\ w.success = ok /\ w.source = source
  BY DEF EncodeSignal
<1> QED
  BY <1>1 DEF SignalImage

\* A hop less.
LEMMA HopLess ==
  ASSUME NEW log, NEW p, SentPacket(p, log), Alive(p)
  PROVE  SentPacket(Decremented(p), log) /\ Decremented(p).dst = p.dst
<1>1. /\ p = AidPacket(p.no, p.dst, p.ttl, p.size) /\ p.ttl \in 1..TTL /\ p.ttl > 1
  BY DEF SentPacket, Alive
<1>2. \A n, d, t, s : [AidPacket(n, d, t, s) EXCEPT !.ttl = t - 1] = AidPacket(n, d, t - 1, s)
  BY DEF AidPacket
<1>3. Decremented(p) = AidPacket(p.no, p.dst, p.ttl - 1, p.size)
  BY <1>1, <1>2 DEF Decremented
<1> DEFINE g == AidPacket(p.no, p.dst, p.ttl - 1, p.size)
<1>4. g.no = p.no /\ g.dst = p.dst /\ g.ttl = p.ttl - 1 /\ g.size = p.size
  BY DEF AidPacket
<1>5. p.ttl - 1 \in 1..TTL
  BY <1>1, JourneyAssumption
<1> HIDE DEF g
<1>6. g = AidPacket(g.no, g.dst, g.ttl, g.size)
  BY <1>4 DEF g
<1> QED
  BY <1>3, <1>4, <1>5, <1>6 DEF SentPacket, g

LEMMA RidHopLess ==
  ASSUME NEW log, NEW w, RidImage(w, log), Alive(w)
  PROVE  RidImage([w EXCEPT !.ttl = @ - 1], log)
<1>1. /\ w = SerializeRid(w.dst, w.space, w.ttl, w.load) /\ w.ttl \in 1..TTL /\ w.ttl > 1
  BY DEF RidImage, Alive
<1>2. \A d, s, t, load : [SerializeRid(d, s, t, load) EXCEPT !.ttl = t - 1]
                           = SerializeRid(d, s, t - 1, load)
  BY DEF SerializeRid
<1>3. [w EXCEPT !.ttl = @ - 1] = SerializeRid(w.dst, w.space, w.ttl - 1, w.load)
  BY <1>1, <1>2
<1>4. w.ttl - 1 \in 1..TTL
  BY <1>1, JourneyAssumption
<1> QED
  BY <1>3, <1>4, SerializedRid DEF RidImage
-----------------------------------------------------------------------------
(* What the nodes send.                                                     *)

\* Send leaves out what struct.pack refuses.
LEMMA SendIntact ==
  ASSUME NEW log, NEW node, NEW port, NEW image, Image(image, log)
  PROVE  IntactSends(Send(node, port, image), log)
<1>1. ASSUME NEW s \in Send(node, port, image)
      PROVE  PackedImage(s.frame.image, log)
  <2>1. Packs(image.length) /\ s.frame.image = image
    BY <1>1 DEF Send, FrameFor
  <2> QED
    BY <2>1 DEF PackedImage
<1> QED
  BY <1>1 DEF IntactSends

LEMMA NoSends ==
  ASSUME NEW log
  PROVE  IntactSends({}, log)
BY DEF IntactSends

LEMMA UnionIntact ==
  ASSUME NEW log, NEW T, \A sends \in T : IntactSends(sends, log)
  PROVE  IntactSends(UNION T, log)
BY DEF IntactSends

LEMMA AidImageIs ==
  ASSUME NEW log, NEW p, SentPacket(p, log)
  PROVE  Image(SerializeAid(p), log)
BY SerializedAid DEF Image

\* A packet in a RID packet, and a signal in one, as a node sends them first.
LEMMA WrappedIs ==
  ASSUME NEW log, NEW load, AidImage(load, log) \/ SignalImage(load), NEW dst, NEW space
  PROVE  Image(SerializeRid(dst, space, TTL, load), log)
<1>1. TTL \in 1..TTL
  BY JourneyAssumption
<1>2. RidImage(SerializeRid(dst, space, TTL, load), log)
  BY <1>1, SerializedRid
<1> QED
  BY <1>2 DEF Image

LEMMA SignalIntact ==
  ASSUME NEW log, NEW node, NEW port, NEW dst, NEW type \in {"request", "response", "alert"},
         NEW user, NEW ok, type = "request" => user \in Host
  PROVE  IntactSends(Signal(node, port, dst, type, user, ok), log)
<1>1. SignalImage(EncodeSignal(type, user, ok, SourceRid(node)))
  BY SignalIsImage
<1>2. Image(SerializeRid(dst, 0, TTL, EncodeSignal(type, user, ok, SourceRid(node))), log)
  BY <1>1, WrappedIs
<1> QED
  BY <1>2, SendIntact DEF Signal

LEMMA ReplyIntact ==
  ASSUME NEW log, NEW w, NEW u
  PROVE  IntactSends(Reply(w, u), log)
<1> DEFINE ports == {k \in Here.iface : Owner(k) = "cs"}
           reply(j) == Signal("cs", Via(Broadcast, j[2]), w.load.source, "response", u, Authentic(u))
<1>1. \A j : IntactSends(reply(j), log)
  BY SignalIntact
<1>2. Reply(w, u) = UNION {reply(j) : j \in ports}
  BY DEF Reply
<1> HIDE DEF reply, ports
<1> QED
  BY <1>1, <1>2 DEF IntactSends

LEMMA AnswerIntact ==
  ASSUME NEW log, NEW a, NEW user, NEW ok
  PROVE  IntactSends(Answer(a, user, ok), log)
BY SignalIntact DEF Answer

LEMMA ForwardRidIntact ==
  ASSUME NEW log, NEW c, NEW rid, NEW space, NEW image, Image(image, log)
  PROVE  IntactSends(ForwardRid(c, rid, space, image), log)
<1>1. \A nb \in UNION NextHops(c, rid, space) : IntactSends(Send(c, nb, image), log)
  BY SendIntact
<1> QED
  BY <1>1 DEF ForwardRid, IntactSends

LEMMA ToAPIntact ==
  ASSUME NEW log, NEW c, NEW a, NEW image, Image(image, log)
  PROVE  IntactSends(ToAP(c, a, image), log)
BY SendIntact DEF ToAP

LEMMA ServingAPIntact ==
  ASSUME NEW log, NEW c, NEW p, SentPacket(p, log)
  PROVE  IntactSends(ServingAP(c, p), log)
BY AidImageIs, ToAPIntact, NoSends DEF ServingAP

LEMMA DeliverLocalIntact ==
  ASSUME NEW log, NEW c, NEW p, SentPacket(p, log)
  PROVE  IntactSends(DeliverLocal(c, p), log)
BY AidImageIs, SendIntact, ServingAPIntact DEF DeliverLocal

\* _handle_aid.
LEMMA CRAidIntact ==
  ASSUME NEW log, NEW c, NEW w, AidImage(w, log)
  PROVE  IntactSends(CRAid(c, w), log)
<1> DEFINE p == Decremented(DeserializeAid(w))
           image(m) == SerializeRid(m.mapped_rid, SpaceFor(c, m), TTL, SerializeAid(p))
           forwarded == {ForwardRid(c, m.mapped_rid, SpaceFor(c, m), image(m)) :
                           m \in Mapping(c, p.dst)}
<1>1. CASE ~Alive(DeserializeAid(w))
  BY <1>1, NoSends DEF CRAid
<1>2. CASE Alive(DeserializeAid(w))
  <2>1. SentPacket(p, log)
    BY <1>2, AidRoundTrip, HopLess DEF AidImage
  <2> HIDE DEF p
  <2>2. AidImage(SerializeAid(p), log)
    BY <2>1, SerializedAid
  <2>3. \A m : Image(image(m), log)
    BY <2>2, WrappedIs
  <2> HIDE DEF image
  <2>4. \A sends \in forwarded : IntactSends(sends, log)
    BY <2>3, ForwardRidIntact
  <2>5. IntactSends(UNION forwarded, log)
    <3> HIDE DEF forwarded
    <3> QED
      BY <2>4, UnionIntact
  <2>6. IntactSends(DeliverLocal(c, p), log)
    BY <2>1, DeliverLocalIntact
  <2> QED
    BY <1>2, <2>5, <2>6 DEF CRAid, p, image
<1> QED
  BY <1>1, <1>2

LEMMA AlertIntact ==
  ASSUME NEW log, NEW c, NEW u
  PROVE  IntactSends(Alert(c, u), log)
<1> DEFINE cs == {m \in Here.cr[c].route_neighbors : m.space_id = 0}
           image(nb) == SerializeRid(nb.rid, 0, TTL, EncodeSignal("alert", u, TRUE, Here.cr[c].rid))
<1>1. SignalImage(EncodeSignal("alert", u, TRUE, Here.cr[c].rid))
  BY SignalIsImage
<1>2. \A nb : Image(image(nb), log)
  BY <1>1, WrappedIs
<1> HIDE DEF image
<1>3. \A nb \in cs : IntactSends(Send(c, nb, image(nb)), log)
  BY <1>2, SendIntact
<1>4. IntactSends(UNION {Send(c, nb, image(nb)) : nb \in cs}, log)
  BY <1>3 DEF IntactSends
<1> QED
  BY <1>4 DEF Alert, image

LEMMA RedirectIntact ==
  ASSUME NEW log, NEW c, NEW p, SentPacket(p, log)
  PROVE  IntactSends(Redirect(c, p), log)
<1> DEFINE image(m) == SerializeRid(m.remote_cr_rid, m.space_id, TTL, SerializeAid(p))
           away(m) == ForwardRid(c, m.remote_cr_rid, m.space_id, image(m)) \cup Alert(c, p.dst)
<1>1. \A m : Image(image(m), log)
  BY SerializedAid, WrappedIs
<1> HIDE DEF image
<1>2. \A m : IntactSends(ForwardRid(c, m.remote_cr_rid, m.space_id, image(m)), log)
  BY <1>1, ForwardRidIntact
<1>3. IntactSends(Alert(c, p.dst), log)
  BY AlertIntact
<1>4. \A m : IntactSends(away(m), log)
  BY <1>2, <1>3 DEF IntactSends
<1> HIDE DEF away
<1>5. IntactSends(UNION {away(m) : m \in Mapping(c, p.dst)}, log)
  BY <1>4 DEF IntactSends
<1> QED
  BY <1>5 DEF Redirect, away, image

\* _decapsulate_and_forward, of a RID packet that carries no signal.
LEMMA DecapsulateIntact ==
  ASSUME NEW log, NEW c, NEW r, AidImage(r.load, log)
  PROVE  IntactSends(Decapsulate(c, r), log)
<1> DEFINE p == DeserializeAid(r.load)
<1>1. SentPacket(p, log)
  BY AidRoundTrip DEF AidImage
<1> HIDE DEF p
<1>2. IntactSends(ServingAP(c, p), log) /\ IntactSends(Redirect(c, p), log)
  BY <1>1, ServingAPIntact, RedirectIntact
<1>3. CASE Status(c, p.dst) = "ONLINE"
  BY <1>2, <1>3 DEF Decapsulate, p
<1>4. CASE Status(c, p.dst) = "MOVED_AWAY"
  BY <1>2, <1>4 DEF Decapsulate, p
<1>5. CASE Status(c, p.dst) # "ONLINE" /\ Status(c, p.dst) # "MOVED_AWAY"
  BY <1>5, NoSends DEF Decapsulate, p
<1> QED
  BY <1>3, <1>4, <1>5

LEMMA ForwardControlIntact ==
  ASSUME NEW log, NEW c, NEW r, NEW image, Image(image, log)
  PROVE  IntactSends(ForwardControl(c, r, image), log)
<1>1. IntactSends(ForwardRid(c, r.dst, r.space, image), log)
  BY ForwardRidIntact
<1>2. \A nb \in Neighbors(c, r.dst) : IntactSends(Send(c, nb, image), log)
  BY SendIntact
<1>3. IntactSends(UNION {Send(c, nb, image) : nb \in Neighbors(c, r.dst)}, log)
  BY <1>2 DEF IntactSends
<1> QED
  BY <1>1, <1>3 DEF ForwardControl

\* The payload of a RID packet is an AID image or a signal, by its type.
LEMMA LoadByType ==
  ASSUME NEW log, NEW w, RidImage(w, log)
  PROVE  /\ IsControl(DeserializeRid(w)) <=> ~AidImage(w.load, log)
         /\ w.load.type = "aid" => AidImage(w.load, log)
         /\ w.load.type # "aid" => SignalImage(w.load)
<1>1. DeserializeRid(w).load = w.load
  BY RidRoundTrip
<1>2. AidImage(w.load, log) => w.load.type = "aid"
  BY AidRoundTrip
<1>3. SignalImage(w.load) => w.load.type # "aid"
  BY DEF SignalImage
<1> QED
  BY <1>1, <1>2, <1>3 DEF IsControl, RidImage

\* _handle_rid.
LEMMA CRRidIntact ==
  ASSUME NEW log, NEW c, NEW w, RidImage(w, log)
  PROVE  IntactSends(CRRid(c, w), log)
<1> DEFINE r == DeserializeRid(w)
           image == [w EXCEPT !.ttl = @ - 1]
           toAPs == UNION {ToAP(c, a, image) : a \in LocalAPs(c, r.dst)}
           own == IF IsControl(r) THEN {} ELSE Decapsulate(c, r)
           onward == IF ~InSpacesIn[net][c, r.dst] THEN ForwardRid(c, r.dst, r.space, image)
                     ELSE IF IsControl(r) THEN ForwardControl(c, r, image)
                     ELSE Decapsulate(c, r)
<1>1. CASE ~Alive(w)
  BY <1>1, NoSends DEF CRRid
<1>2. CASE Alive(w)
  <2>1. Image(image, log)
    BY <1>2, RidHopLess DEF Image
  <2>2. ~IsControl(r) => AidImage(r.load, log)
    BY LoadByType, RidRoundTrip
  <2> HIDE DEF r, image
  <2>3. \A a \in LocalAPs(c, r.dst) : IntactSends(ToAP(c, a, image), log)
    BY <2>1, ToAPIntact
  <2>4. IntactSends(toAPs, log)
    BY <2>3 DEF IntactSends
  <2>5. ~IsControl(r) => IntactSends(Decapsulate(c, r), log)
    BY <2>2, DecapsulateIntact
  <2>6. IntactSends(own, log)
    BY <2>5, NoSends
  <2>7. IntactSends(onward, log)
    BY <2>1, <2>5, ForwardRidIntact, ForwardControlIntact
  <2> HIDE DEF toAPs, own, onward
  <2>8. CRRid(c, w) = IF LocalAPs(c, r.dst) # {} THEN toAPs
                      ELSE IF r.dst = Here.cr[c].rid THEN own ELSE onward
    <3>1. CASE LocalAPs(c, r.dst) # {}
      BY <1>2, <3>1 DEF CRRid, r, image, toAPs
    <3>2. CASE LocalAPs(c, r.dst) = {} /\ r.dst = Here.cr[c].rid
      BY <1>2, <3>2 DEF CRRid, r, own
    <3>3. CASE LocalAPs(c, r.dst) = {} /\ r.dst # Here.cr[c].rid
      BY <1>2, <3>3 DEF CRRid, r, image, onward
    <3> QED
      BY <3>1, <3>2, <3>3
  <2> QED
    BY <2>4, <2>6, <2>7, <2>8
<1> QED
  BY <1>1, <1>2

\* An AID frame is an AID image, any other a RID image.
LEMMA FrameByType ==
  ASSUME NEW log, NEW w, Image(w, log)
  PROVE  /\ IsAidFrame(w) => AidImage(w, log)
         /\ ~IsAidFrame(w) => RidImage(w, log)
BY AidRoundTrip, RidRoundTrip DEF Image

LEMMA CRSendsIntact ==
  ASSUME NEW log, NEW c, NEW w, Image(w, log)
  PROVE  IntactSends(CRSends(c, w), log)
BY FrameByType, CRAidIntact, CRRidIntact DEF CRSends

LEMMA ToUserIntact ==
  ASSUME NEW log, NEW a, NEW p, SentPacket(p, log)
  PROVE  IntactSends(ToUser(a, p), log)
BY AidImageIs, SendIntact, NoSends DEF ToUser

\* on_frame of an AP, but for signals.
LEMMA APSendsIntact ==
  ASSUME NEW log, NEW a, NEW w, Image(w, log), SignalOf(w) \in {"none", "aid"}
  PROVE  IntactSends(APSends(a, w), log)
<1>1. CASE IsAidFrame(w)
  <2>1. SentPacket(DeserializeAid(w), log)
    BY <1>1, FrameByType, AidRoundTrip DEF AidImage
  <2>2. /\ IntactSends(ToUser(a, DeserializeAid(w)), log)
        /\ IntactSends(Send(a, CRPort(a), SerializeAid(DeserializeAid(w))), log)
    BY <2>1, ToUserIntact, AidImageIs, SendIntact
  <2> QED
    BY <1>1, <2>2 DEF APSends
<1>2. CASE ~IsAidFrame(w)
  <2>1. RidImage(w, log)
    BY <1>2, FrameByType
  <2>2. AidImage(w.load, log)
    <3>1. w.load.type \in {"none", "aid"}
      BY <1>2 DEF SignalOf
    <3>2. ~SignalImage(w.load)
      BY <3>1 DEF SignalImage
    <3> QED
      BY <2>1, <3>2 DEF RidImage
  <2>3. SentPacket(DeserializeAid(DeserializeRid(w).load), log)
    BY <2>1, <2>2, RidRoundTrip, AidRoundTrip DEF AidImage
  <2> QED
    BY <1>2, <2>3, ToUserIntact DEF APSends
<1> QED
  BY <1>1, <1>2

\* A request that a node takes names a host.
LEMMA RequestOfHost ==
  ASSUME NEW log, NEW w, Image(w, log), SignalOf(w) = "request"
  PROVE  w.load.user \in Host
<1>1. ~IsAidFrame(w) /\ w.load.type = "request"
  BY DEF SignalOf
<1>2. SignalImage(w.load)
  BY <1>1, FrameByType, LoadByType
<1> QED
  BY <1>1, <1>2 DEF SignalImage
-----------------------------------------------------------------------------
(* Queues.                                                                  *)

LEMMA DeliverIntact ==
  ASSUME NEW log, NEW q, \A j \in DOMAIN q : IntactQueue(q[j], log),
         NEW sends, IntactSends(sends, log)
  PROVE  /\ DOMAIN Deliver(q, sends) = DOMAIN q
         /\ Deliver(q, sends) = [j \in DOMAIN q |-> Deliver(q, sends)[j]]
         /\ \A j \in DOMAIN q : IntactQueue(Deliver(q, sends)[j], log)
<1>1. /\ DOMAIN Deliver(q, sends) = DOMAIN q
      /\ Deliver(q, sends) = [j \in DOMAIN q |-> Deliver(q, sends)[j]]
  BY DEF Deliver
<1>2. ASSUME NEW j \in DOMAIN q
      PROVE  IntactQueue(Deliver(q, sends)[j], log)
  <2> DEFINE s == CHOOSE t \in sends : Hears(j, t)
  <2>1. CASE \E t \in sends : Hears(j, t)
    <3>1. s \in sends
      BY <2>1
    <3>2. PackedImage(s.frame.image, log)
      BY <3>1 DEF IntactSends
    <3>3. Deliver(q, sends)[j] = Append(q[j], s.frame.image)
      BY <2>1 DEF Deliver
    <3> HIDE DEF s
    <3>4. IntactQueue(q[j], log)
      OBVIOUS
    <3>5. /\ IsSequence(Append(q[j], s.frame.image))
          /\ Range(Append(q[j], s.frame.image)) = Range(q[j]) \cup {s.frame.image}
      BY <3>4, AppendRange DEF IntactQueue
    <3> QED
      BY <3>2, <3>3, <3>4, <3>5 DEF IntactQueue
  <2>2. CASE ~\E t \in sends : Hears(j, t)
    BY <2>2 DEF Deliver
  <2> QED
    BY <2>1, <2>2
<1> QED
  BY <1>1, <1>2

\* The frame that Turn takes, and what it leaves.
LEMMA TurnIntact ==
  ASSUME JourneyInv, NEW i \in DOMAIN queue, NEW nodes, NEW sends, Turn(i, nodes, sends),
         IntactSends(sends, sent)
  PROVE  /\ queue' = [j \in DOMAIN queue |-> queue'[j]]
         /\ DOMAIN queue' = DOMAIN queue
         /\ \A j \in DOMAIN queue' : IntactQueue(queue'[j], sent)
<1> DEFINE q == [queue EXCEPT ![i] = Tail(@)]
<1>1. queue[i] # <<>> /\ queue' = Deliver(q, sends)
  BY DEF Turn, Ready
<1>2. DOMAIN q = DOMAIN queue
  OBVIOUS
<1>3. ASSUME NEW j \in DOMAIN q
      PROVE  IntactQueue(q[j], sent)
  <2>1. IntactQueue(queue[i], sent) /\ IntactQueue(queue[j], sent)
    BY <1>2 DEF JourneyInv
  <2>2. j = i => q[j] = Tail(queue[i])
    BY <1>2
  <2>3. j # i => q[j] = queue[j]
    BY <1>2
  <2>4. /\ IsSequence(Tail(queue[i])) /\ Range(Tail(queue[i])) \subseteq Range(queue[i])
    BY <1>1, <2>1, TailRange DEF IntactQueue
  <2> QED
    BY <2>1, <2>2, <2>3, <2>4 DEF IntactQueue
<1> HIDE DEF q
<1> QED
  BY <1>1, <1>2, <1>3, DeliverIntact

LEMMA HeadIsImage ==
  ASSUME JourneyInv, NEW i \in DOMAIN queue, Ready(i)
  PROVE  PackedImage(Head(queue[i]), sent)
<1>1. IntactQueue(queue[i], sent) /\ queue[i] # <<>>
  BY DEF JourneyInv, Ready
<1>2. Head(queue[i]) \in Range(queue[i])
  BY <1>1, TailRange DEF IntactQueue
<1> QED
  BY <1>1, <1>2 DEF IntactQueue

\* A further request leaves the images of the others what they are.
LEMMA LogGrows ==
  ASSUME NEW log, IsSequence(log), NEW r, NEW w, PackedImage(w, log)
  PROVE  PackedImage(w, Append(log, r))
<1>1. \A p : SentPacket(p, log) => SentPacket(p, Append(log, r))
  BY AppendRange DEF SentPacket
<1>2. \A v : AidImage(v, log) => AidImage(v, Append(log, r))
  BY <1>1 DEF AidImage
<1> QED
  BY <1>2 DEF PackedImage, Image, RidImage
-----------------------------------------------------------------------------
(* The invariant.                                                           *)

THEOREM JourneyInit == Init => JourneyInv
<1> SUFFICES ASSUME Init PROVE JourneyInv
  OBVIOUS
<1>1. IsSequence(<<>>) /\ Range(<<>>) = {}
  <2>1. <<>> \in Seq({}) /\ DOMAIN <<>> = {}
    OBVIOUS
  <2>2. Range(<<>>) = {}
    BY <2>1 DEF Range
  <2> QED
    BY <2>1, <2>2, SequenceOfRange
<1>2. \A i \in DOMAIN queue : queue[i] = <<>>
  BY DEF Init
<1>3. \A i \in DOMAIN queue : IntactQueue(queue[i], sent)
  BY <1>1, <1>2 DEF IntactQueue
<1>4. net \in Nets /\ queue = [i \in Network[net].iface |-> queue[i]]
  BY DEF Init
<1>5. pending \in [AP -> Host \cup {None}] /\ login \in [Host -> {"none", "waiting", "returned"}]
  BY DEF Init
<1>6. IsSequence(sent) /\ accepted \subseteq Host /\ verified \subseteq Host /\ damaged = {}
  BY <1>1 DEF Init
<1> QED
  BY <1>3, <1>4, <1>5, <1>6 DEF JourneyInv

\* The queues after a step that does not log a request.
LEMMA SameLog ==
  ASSUME JourneyInv, UNCHANGED <<net, sent, damaged>>,
         queue' = [j \in DOMAIN queue |-> queue'[j]],
         \A j \in DOMAIN queue' : IntactQueue(queue'[j], sent),
         pending' \in [AP -> Host \cup {None}],
         login' \in [Host -> {"none", "waiting", "returned"}],
         accepted' \subseteq Host, verified' \subseteq Host
  PROVE  JourneyInv'
<1>1. DOMAIN queue = Network[net'].iface
  BY DEF JourneyInv
<1>2. queue' = [i \in Network[net'].iface |-> queue'[i]]
  BY <1>1
<1>3. net' \in Nets /\ damaged' = {} /\ IsSequence(sent')
  BY DEF JourneyInv
<1>4. \A j \in DOMAIN queue' : IntactQueue(queue'[j], sent')
  OBVIOUS
<1> QED
  BY <1>2, <1>3, <1>4 DEF JourneyInv

\* Frames that a node sends of its own accord.
LEMMA SendsIntact ==
  ASSUME JourneyInv, NEW sends, IntactSends(sends, sent), queue' = Deliver(queue, sends)
  PROVE  /\ queue' = [j \in DOMAIN queue |-> queue'[j]]
         /\ \A j \in DOMAIN queue' : IntactQueue(queue'[j], sent)
BY DeliverIntact DEF JourneyInv

LEMMA RequestStep ==
  ASSUME JourneyInv, NEW n, NEW dst, NEW size \in Sizes, Request(n, dst, size)
  PROVE  JourneyInv'
<1> DEFINE p == AidPacket(Len(sent) + 1, dst, TTL, size)
           mac == IF n \in Host THEN Here.host[n].ap_mac ELSE Broadcast
           sends == Send(n, Via(mac, 0), SerializeAid(p))
           row == [from |-> n, dst |-> dst, size |-> size]
<1>1. /\ sent' = Append(sent, row) /\ queue' = Deliver(queue, sends)
      /\ UNCHANGED <<net, users, pending, login, accepted, verified, arrived, damaged>>
  BY DEF Request
<1>2. /\ IsSequence(sent') /\ Len(sent) + 1 \in DOMAIN sent' /\ sent'[Len(sent) + 1] = row
  BY <1>1, AppendRange DEF JourneyInv
<1>3. SentPacket(p, sent')
  <2>1. p.no = Len(sent) + 1 /\ p.dst = dst /\ p.ttl = TTL /\ p.size = size
    BY DEF AidPacket
  <2>2. p = AidPacket(p.no, p.dst, p.ttl, p.size)
    BY <2>1
  <2>3. size \in Nat /\ TTL \in 1..TTL /\ row.size = size
    BY JourneyAssumption
  <2> HIDE DEF p, row
  <2> QED
    BY <1>2, <2>1, <2>2, <2>3 DEF SentPacket
<1> HIDE DEF p, row
<1>4. IntactSends(sends, sent')
  BY <1>3, AidImageIs, SendIntact
<1> HIDE DEF sends
<1>5. \A j \in DOMAIN queue : IntactQueue(queue[j], sent')
  <2>1. \A w : PackedImage(w, sent) => PackedImage(w, sent')
    BY <1>1, LogGrows DEF JourneyInv
  <2> QED
    BY <2>1 DEF JourneyInv, IntactQueue
<1>6. /\ queue' = [j \in DOMAIN queue |-> queue'[j]]
      /\ \A j \in DOMAIN queue' : IntactQueue(queue'[j], sent')
  BY <1>1, <1>4, <1>5, DeliverIntact
<1>7. queue' = [i \in Network[net'].iface |-> queue'[i]]
  <2>1. DOMAIN queue = Network[net'].iface
    BY <1>1 DEF JourneyInv
  <2> QED
    BY <1>6, <2>1
<1>8. /\ net' \in Nets /\ damaged' = {} /\ accepted' \subseteq Host /\ verified' \subseteq Host
      /\ pending' \in [AP -> Host \cup {None}]
      /\ login' \in [Host -> {"none", "waiting", "returned"}]
  BY <1>1 DEF JourneyInv
<1> QED
  BY <1>2, <1>6, <1>7, <1>8 DEF JourneyInv

LEMMA AuthenticateStep ==
  ASSUME JourneyInv, NEW h \in Host, Authenticate(h)
  PROVE  JourneyInv'
<1> DEFINE sends == Signal(h, Via(Here.host[h].ap_mac, 0), RID(0, 0), "request", h, FALSE)
<1>1. /\ login' = [login EXCEPT ![h] = "waiting"] /\ queue' = Deliver(queue, sends)
      /\ UNCHANGED <<net, pending, accepted, verified, sent, damaged>>
  BY DEF Authenticate
<1>2. IntactSends(sends, sent)
  BY SignalIntact
<1> HIDE DEF sends
<1>3. /\ queue' = [j \in DOMAIN queue |-> queue'[j]]
      /\ \A j \in DOMAIN queue' : IntactQueue(queue'[j], sent)
  BY <1>1, <1>2, SendsIntact
<1>4. login' \in [Host -> {"none", "waiting", "returned"}]
  BY <1>1 DEF JourneyInv
<1>5. /\ pending' \in [AP -> Host \cup {None}]
      /\ accepted' \subseteq Host /\ verified' \subseteq Host
  BY <1>1 DEF JourneyInv
<1> QED
  BY <1>1, <1>3, <1>4, <1>5, SameLog

\* Steps that leave the queues alone.
LEMMA SameQueues ==
  ASSUME JourneyInv, queue' = queue
  PROVE  /\ queue' = [j \in DOMAIN queue |-> queue'[j]]
         /\ \A j \in DOMAIN queue' : IntactQueue(queue'[j], sent)
BY DEF JourneyInv

LEMMA AnsweredTypes ==
  ASSUME JourneyInv, NEW h \in Host, NEW ok, Answered(h, ok)
  PROVE  login' \in [Host -> {"none", "waiting", "returned"}] /\ accepted' \subseteq Host
<1>1. CASE login[h] = "waiting"
  <2>1. /\ login' = [login EXCEPT ![h] = "returned"]
        /\ accepted' = IF ok THEN accepted \cup {h} ELSE accepted \ {h}
    BY <1>1 DEF Answered
  <2>2. login \in [Host -> {"none", "waiting", "returned"}] /\ accepted \subseteq Host
    BY DEF JourneyInv
  <2> QED
    BY <2>1, <2>2
<1>2. CASE login[h] # "waiting"
  BY <1>2 DEF Answered, JourneyInv
<1> QED
  BY <1>1, <1>2

LEMMA HostTimeoutStep ==
  ASSUME JourneyInv, NEW h \in Host, HostTimeout(h)
  PROVE  JourneyInv'
<1>1. Answered(h, FALSE) /\ UNCHANGED <<net, queue, pending, verified, sent, damaged>>
  BY DEF HostTimeout
<1>2. login' \in [Host -> {"none", "waiting", "returned"}] /\ accepted' \subseteq Host
  BY <1>1, AnsweredTypes
<1>3. pending' \in [AP -> Host \cup {None}] /\ verified' \subseteq Host
  BY <1>1 DEF JourneyInv
<1> QED
  BY <1>1, <1>2, <1>3, SameQueues, SameLog

LEMMA OverrideStep ==
  ASSUME JourneyInv, NEW h \in Host, Override(h)
  PROVE  JourneyInv'
<1>1. accepted' = accepted \cup {h} /\ UNCHANGED <<net, queue, pending, login, verified, sent, damaged>>
  BY DEF Override
<1>2. /\ pending' \in [AP -> Host \cup {None}] /\ verified' \subseteq Host
      /\ login' \in [Host -> {"none", "waiting", "returned"}] /\ accepted' \subseteq Host
  BY <1>1 DEF JourneyInv
<1> QED
  BY <1>1, <1>2, SameQueues, SameLog

LEMMA APTimeoutStep ==
  ASSUME JourneyInv, NEW a \in AP, APTimeout(a)
  PROVE  JourneyInv'
<1>1. /\ queue' = Deliver(queue, Answer(a, pending[a], FALSE))
      /\ pending' = [pending EXCEPT ![a] = None]
      /\ UNCHANGED <<net, login, accepted, verified, sent, damaged>>
  BY DEF APTimeout
<1>2. /\ queue' = [j \in DOMAIN queue |-> queue'[j]]
      /\ \A j \in DOMAIN queue' : IntactQueue(queue'[j], sent)
  BY <1>1, AnswerIntact, SendsIntact
<1>3. pending' \in [AP -> Host \cup {None}]
  BY <1>1 DEF JourneyInv
<1>4. /\ login' \in [Host -> {"none", "waiting", "returned"}]
      /\ accepted' \subseteq Host /\ verified' \subseteq Host
  BY <1>1 DEF JourneyInv
<1> QED
  BY <1>1, <1>2, <1>3, <1>4, SameLog

\* A turn that sends images and changes neither calls nor what has come out.
LEMMA PlainTurn ==
  ASSUME JourneyInv, NEW i \in DOMAIN queue, NEW nodes, NEW sends, Turn(i, nodes, sends),
         IntactSends(sends, sent), UNCHANGED <<net, login, accepted, sent, damaged>>,
         pending' \in [AP -> Host \cup {None}], verified' \subseteq Host
  PROVE  JourneyInv'
<1>1. /\ login' \in [Host -> {"none", "waiting", "returned"}] /\ accepted' \subseteq Host
  BY DEF JourneyInv
<1>2. /\ queue' = [j \in DOMAIN queue |-> queue'[j]]
      /\ \A j \in DOMAIN queue' : IntactQueue(queue'[j], sent)
  BY TurnIntact
<1> QED
  BY <1>1, <1>2, SameLog

\* A host or the test server takes a frame: what comes out is the packet sent.
LEMMA EndTurnStep ==
  ASSUME JourneyInv, NEW i \in DOMAIN queue, Ready(i), EndTurn(i)
  PROVE  JourneyInv'
<1> DEFINE w == Head(queue[i])
<1>1. /\ Turn(i, Host \cup {"ts"}, {}) /\ UNCHANGED <<net, pending, verified, sent>>
      /\ IsAidFrame(w) => Arrives(Owner(i), w)
      /\ ~IsAidFrame(w) => damaged' = damaged
      /\ \/ Owner(i) \in Host /\ Answered(Owner(i), w.load.success)
         \/ UNCHANGED <<login, accepted>>
  BY DEF EndTurn
<1>2. Image(w, sent)
  BY HeadIsImage DEF PackedImage
<1> HIDE DEF w
<1>3. damaged' = damaged
  <2>1. CASE IsAidFrame(w)
    <3>1. AidImage(w, sent)
      BY <1>2, <2>1, FrameByType
    <3>2. DeserializeAid(w).size = sent[DeserializeAid(w).no].size
      BY <3>1, AidRoundTrip DEF AidImage, SentPacket
    <3> QED
      BY <1>1, <2>1, <3>2 DEF Arrives
  <2> QED
    BY <1>1, <2>1
<1>4. login' \in [Host -> {"none", "waiting", "returned"}] /\ accepted' \subseteq Host
  BY <1>1, AnsweredTypes DEF JourneyInv
<1>5. /\ queue' = [j \in DOMAIN queue |-> queue'[j]]
      /\ \A j \in DOMAIN queue' : IntactQueue(queue'[j], sent)
  BY <1>1, NoSends, TurnIntact
<1>6. pending' \in [AP -> Host \cup {None}] /\ verified' \subseteq Host
  BY <1>1 DEF JourneyInv
<1> QED
  BY <1>1, <1>3, <1>4, <1>5, <1>6, SameLog

LEMMA LoopTurnStep ==
  ASSUME JourneyInv, NEW i \in DOMAIN queue, LoopTurn(i)
  PROVE  JourneyInv'
<1> DEFINE w == Head(queue[i])
<1>1. Ready(i) /\ Image(w, sent)
  BY HeadIsImage DEF LoopTurn, PackedImage
<1>2. pending \in [AP -> Host \cup {None}] /\ verified \subseteq Host
  BY DEF JourneyInv
<1>3. CASE RouterTurn(i)
  <2>1. /\ Turn(i, CR, CRSends(Owner(i), w))
        /\ UNCHANGED <<net, pending, login, accepted, verified, sent, damaged>>
    BY <1>3 DEF RouterTurn
  <2> HIDE DEF w
  <2>2. IntactSends(CRSends(Owner(i), w), sent)
    BY <1>1, CRSendsIntact
  <2> QED
    BY <1>2, <2>1, <2>2, PlainTurn
<1>4. CASE EndTurn(i)
  BY <1>1, <1>4, EndTurnStep
<1>5. CASE CSTurn(i)
  <2> DEFINE asked == Requesters(w)
             reply(u) == Reply(w, u)
             replies == UNION {reply(u) : u \in asked}
  <2>1. /\ Turn(i, {"cs"}, replies) /\ verified' = verified \cup asked
        /\ UNCHANGED <<net, pending, login, accepted, sent, damaged>>
    BY <1>5 DEF CSTurn
  <2> HIDE DEF w
  <2>2. asked \subseteq Host
    BY <1>1, RequestOfHost DEF Requesters
  <2>3. \A u : IntactSends(reply(u), sent)
    BY ReplyIntact
  <2> HIDE DEF reply
  <2>4. IntactSends(replies, sent)
    BY <2>3 DEF IntactSends
  <2> HIDE DEF replies, asked
  <2> QED
    BY <1>2, <2>1, <2>2, <2>4, PlainTurn
<1>6. CASE APTurn(i)
  <2>1. /\ SignalOf(w) \in {"none", "aid"} /\ Turn(i, AP, APSends(Owner(i), w))
        /\ UNCHANGED <<net, pending, login, accepted, verified, sent, damaged>>
    BY <1>6 DEF APTurn
  <2> HIDE DEF w
  <2>2. IntactSends(APSends(Owner(i), w), sent)
    BY <1>1, <2>1, APSendsIntact
  <2> QED
    BY <1>2, <2>1, <2>2, PlainTurn
<1>7. CASE APProxies(i)
  <2> DEFINE a == Owner(i)
             sends == Signal(a, CRPort(a), RCS, "request", w.load.user, FALSE)
  <2>1. /\ SignalOf(w) = "request" /\ Turn(i, AP, sends)
        /\ pending' = [pending EXCEPT ![a] = w.load.user]
        /\ UNCHANGED <<net, login, accepted, verified, sent, damaged>>
    BY <1>7 DEF APProxies
  <2> HIDE DEF w
  <2>2. w.load.user \in Host
    BY <1>1, <2>1, RequestOfHost
  <2>3. IntactSends(sends, sent)
    BY <2>2, SignalIntact
  <2>4. pending' \in [AP -> Host \cup {None}] /\ verified' \subseteq Host
    BY <1>2, <2>1, <2>2
  <2> HIDE DEF sends
  <2> QED
    BY <2>1, <2>3, <2>4, PlainTurn
<1>8. CASE APIgnores(i)
  <2>1. /\ Turn(i, AP, {})
        /\ UNCHANGED <<net, pending, login, accepted, verified, sent, damaged>>
    BY <1>8 DEF APIgnores
  <2> QED
    BY <1>2, <2>1, NoSends, PlainTurn
<1> QED
  BY <1>3, <1>4, <1>5, <1>6, <1>7, <1>8 DEF LoopTurn

THEOREM JourneyStep == JourneyInv /\ [Next]_vars => JourneyInv'
<1> SUFFICES ASSUME JourneyInv, [Next]_vars PROVE JourneyInv'
  OBVIOUS
<1>1. CASE \E r \in Requests[net], s \in Sizes : Request(r[1], r[2], s)
  BY <1>1, RequestStep
<1>2. CASE \E h \in Host : Authenticate(h) \/ HostTimeout(h) \/ Override(h)
  BY <1>2, AuthenticateStep, HostTimeoutStep, OverrideStep
<1>3. CASE \E a \in AP : APTimeout(a)
  BY <1>3, APTimeoutStep
<1>4. CASE \E i \in DOMAIN queue : LoopTurn(i)
  BY <1>4, LoopTurnStep
<1>5. CASE UNCHANGED vars
  <2>1. UNCHANGED <<net, queue, pending, login, accepted, verified, sent, damaged>>
    BY <1>5 DEF vars
  <2>2. /\ pending' \in [AP -> Host \cup {None}] /\ verified' \subseteq Host
        /\ login' \in [Host -> {"none", "waiting", "returned"}] /\ accepted' \subseteq Host
    BY <2>1 DEF JourneyInv
  <2> QED
    BY <2>1, <2>2, SameQueues, SameLog
<1> QED
  BY <1>1, <1>2, <1>3, <1>4, <1>5 DEF Next
-----------------------------------------------------------------------------
(* What it implies.                                                         *)

LEMMA ImageTypes ==
  ASSUME NEW log, NEW w, PackedImage(w, log)
  PROVE  /\ w.length \in 0..MaxLength /\ w.bytes \in Nat
         /\ w.type = "rid" => w.ttl \in 1..TTL
         /\ \A p \in IF w.type = "aid" THEN {w.packet}
                     ELSE IF w.load.type = "aid" THEN {w.load.packet} ELSE {} :
              p.no \in DOMAIN log /\ p.ttl \in 1..TTL
<1>1. Image(w, log) /\ w.length <= MaxLength
  BY DEF PackedImage, Packs
<1> MaxLength \in Nat
  BY DEF MaxLength
<1>2. CASE AidImage(w, log)
  <2>1. w.type = "aid" /\ w.length \in Nat /\ w.bytes \in Nat
    BY <1>2, AidRoundTrip
  <2>2. w.length \in 0..MaxLength
    BY <1>1, <2>1
  <2>3. w.packet.no \in DOMAIN log /\ w.packet.ttl \in 1..TTL
    BY <1>2 DEF AidImage, SentPacket
  <2> QED
    BY <2>1, <2>2, <2>3
<1>3. CASE RidImage(w, log)
  <2>1. w.type = "rid" /\ w.length \in Nat /\ w.bytes \in Nat /\ w.ttl \in 1..TTL
    BY <1>3, RidRoundTrip DEF RidImage
  <2>2. w.length \in 0..MaxLength
    BY <1>1, <2>1
  <2>3. w.load.type = "aid" =>
          w.load.packet.no \in DOMAIN log /\ w.load.packet.ttl \in 1..TTL
    BY <1>3, LoadByType DEF AidImage, SentPacket
  <2> QED
    BY <2>1, <2>2, <2>3
<1> QED
  BY <1>1, <1>2, <1>3 DEF Image

LEMMA InvTypes == JourneyInv => JourneyTypeOK
<1> SUFFICES ASSUME JourneyInv PROVE JourneyTypeOK
  OBVIOUS
<1>1. net \in Nets /\ DOMAIN queue = Here.iface
  BY DEF JourneyInv, Here
<1>2. \A i \in DOMAIN queue : \A k \in DOMAIN queue[i] : PackedImage(queue[i][k], sent)
  BY DEF JourneyInv, IntactQueue, Range
<1>3. /\ \A a \in AP : pending[a] \in Host \cup {None}
      /\ login \in [Host -> {"none", "waiting", "returned"}]
      /\ accepted \subseteq Host /\ verified \subseteq Host
  BY DEF JourneyInv
<1> QED
  BY <1>1, <1>2, <1>3, ImageTypes DEF JourneyTypeOK

\* Types: no frame that waits has used up its hops, in either header, or is longer
\* than struct.pack lets a payload length be.
THEOREM JourneyTypeCorrect == JourneySpec => []JourneyTypeOK
<1> QED
  BY JourneyInit, JourneyStep, InvTypes, PTL DEF JourneySpec

\* A payload comes out with the size it was sent with, over any number of APs and
\* routers that wrap, unwrap, redirect and wrap it again.
THEOREM IntactAlways == JourneySpec => []Intact
<1>1. JourneyInv => Intact
  BY DEF JourneyInv, Intact
<1> QED
  BY <1>1, JourneyInit, JourneyStep, PTL DEF JourneySpec
-----------------------------------------------------------------------------
(* One copy, where addresses are configured (Unicast).  At any time there is *)
(* at most one image of a packet, and none once it has come out; every      *)
(* handler sends what it takes to one interface.  Who that is depends on    *)
(* the users that an AP adds, hence on the logins it hears of: those of its *)
(* own hosts, since no router passes a request to an AP.                    *)

Ends == Host \cup {"ts"}
Asked(n) == {r[2] : r \in Requests[n]}

\* The packet in an image, and its number.
PacketOf(w) ==
  IF w.type = "aid" THEN {w.packet}
  ELSE IF w.load.type = "aid" THEN {w.load.packet} ELSE {}
Nos(w) == {p.no : p \in PacketOf(w)}

\* In deployment n, w may be at interface i: a packet at a host or the test server is
\* for it, a request at an AP comes from one of its hosts, one at a router is for the CS.
Lands(n, w, i, log) ==
  /\ \A p \in PacketOf(w) :
       /\ p.no \in DOMAIN log /\ p.dst = log[p.no].dst
       /\ Owner(i) \in Ends => Owner(i) = Addressee(n, p.dst)
  /\ SignalOf(w) = "request" =>
       /\ Owner(i) \in AP => Owner(i) = Owner(Network[n].host[w.load.user].ap_mac)
       /\ Owner(i) \in CR => w.dst = RCS

QueuesLand(n, q, log) == \A i \in DOMAIN q : \A w \in Range(q[i]) : Lands(n, w, i, log)

\* No two images of queues q have the same packet; and none has packet k.
Unique(q) ==
  \A i, j \in DOMAIN q : \A a \in DOMAIN q[i], b \in DOMAIN q[j] :
    (\E k : k \in Nos(q[i][a]) /\ k \in Nos(q[j][b])) => i = j /\ a = b
Free(q, k) == \A i \in DOMAIN q : \A w \in Range(q[i]) : k \notin Nos(w)

\* What an AP keeps for a user that packets are for leads to it.
UsersLead(n, table) ==
  \A a \in AP : \A u \in Asked(n) \cap DOMAIN table[a] :
    Leads(n, <<a, 0>>, table[a][u], {Addressee(n, u)})

\* An AP waits for the CS's answer about a host of its own.
PendingHome(n, waits) ==
  \A a \in AP : waits[a] # None => Owner(Network[n].host[waits[a]].ap_mac) = a

\* A packet has come out once at most, at the node it is for, and then is nowhere else.
ArrivedOnce(n, came, q, log) ==
  /\ came \in [1..MaxRequests[n] -> [Node -> {0, 1}]]
  /\ \A k \in DOMAIN came : \A m \in Node :
       came[k][m] # 0 => /\ k \in DOMAIN log /\ m = Addressee(n, log[k].dst)
                         /\ Free(q, k)

CopyInv ==
  /\ QueuesLand(net, queue, sent) /\ Unique(queue)
  /\ users = [a \in AP |-> users[a]] /\ UsersLead(net, users)
  /\ PendingHome(net, pending)
  /\ Len(sent) <= MaxRequests[net] /\ \A k \in DOMAIN sent : sent[k].dst \in Asked(net)
  /\ ArrivedOnce(net, arrived, queue, sent)
-----------------------------------------------------------------------------
(* What an image carries.                                                   *)

LEMMA AidCargo ==
  ASSUME NEW p
  PROVE  PacketOf(SerializeAid(p)) = {p} /\ SignalOf(SerializeAid(p)) = "none"
<1>1. SerializeAid(p).type = "aid" /\ SerializeAid(p).packet = p
  BY DEF SerializeAid
<1> QED
  BY <1>1 DEF PacketOf, SignalOf, IsAidFrame

LEMMA RidCargo ==
  ASSUME NEW dst, NEW space, NEW t, NEW load, NEW w, w = SerializeRid(dst, space, t, load)
  PROVE  /\ w.dst = dst /\ w.load = load /\ SignalOf(w) = load.type
         /\ load.type # "aid" => PacketOf(w) = {}
         /\ load.type = "aid" => PacketOf(w) = {load.packet}
<1>1. w.type = "rid" /\ w.dst = dst /\ w.load = load
  BY DEF SerializeRid
<1> QED
  BY <1>1 DEF PacketOf, SignalOf, IsAidFrame

\* A signal in a RID packet carries no packet.
LEMMA SignalCargo ==
  ASSUME NEW dst, NEW type \in {"request", "response", "alert"}, NEW user, NEW ok,
         NEW source, NEW w, w = SerializeRid(dst, 0, TTL, EncodeSignal(type, user, ok, source))
  PROVE  PacketOf(w) = {} /\ SignalOf(w) = type /\ w.dst = dst /\ w.load.user = user
<1>1. /\ EncodeSignal(type, user, ok, source).type = type
      /\ EncodeSignal(type, user, ok, source).user = user
  BY DEF EncodeSignal
<1>2. type # "aid"
  OBVIOUS
<1> QED
  BY <1>1, <1>2, RidCargo

\* v carries what w carries: its packet, up to hops, or its request; or nothing.
SameCargo(v, w) ==
  /\ \A q \in PacketOf(v) : \E p \in PacketOf(w) : q.no = p.no /\ q.dst = p.dst
  /\ SignalOf(v) = "request" =>
       SignalOf(w) = "request" /\ v.dst = w.dst /\ v.load = w.load

\* A packet of w, wrapped or not.
LEMMA AidSameCargo ==
  ASSUME NEW w, NEW p \in PacketOf(w), NEW q, q.no = p.no, q.dst = p.dst
  PROVE  SameCargo(SerializeAid(q), w)
BY AidCargo DEF SameCargo

LEMMA WrappedSameCargo ==
  ASSUME NEW w, NEW p \in PacketOf(w), NEW q, q.no = p.no, q.dst = p.dst,
         NEW dst, NEW space
  PROVE  SameCargo(SerializeRid(dst, space, TTL, SerializeAid(q)), w)
<1>1. SerializeAid(q).type = "aid" /\ SerializeAid(q).packet = q
  BY DEF SerializeAid
<1> DEFINE v == SerializeRid(dst, space, TTL, SerializeAid(q))
<1>2. v = SerializeRid(dst, space, TTL, SerializeAid(q))
  OBVIOUS
<1> HIDE DEF v
<1>3. PacketOf(v) = {q} /\ SignalOf(v) = "aid"
  BY <1>1, <1>2, RidCargo
<1>4. SameCargo(v, w)
  BY <1>3 DEF SameCargo
<1> QED
  BY <1>2, <1>4

LEMMA HopSameCargo ==
  ASSUME NEW log, NEW w, RidImage(w, log)
  PROVE  SameCargo([w EXCEPT !.ttl = @ - 1], w)
<1> DEFINE v == SerializeRid(w.dst, w.space, w.ttl - 1, w.load)
<1>1. w = SerializeRid(w.dst, w.space, w.ttl, w.load)
  BY DEF RidImage
<1>2. \A d, s, t, load : [SerializeRid(d, s, t, load) EXCEPT !.ttl = t - 1]
                           = SerializeRid(d, s, t - 1, load)
  BY DEF SerializeRid
<1>3. [w EXCEPT !.ttl = @ - 1] = v
  BY <1>1, <1>2
<1>4. \E t : v = SerializeRid(w.dst, w.space, t, w.load)
  OBVIOUS
<1> HIDE DEF v
<1>5. /\ v.dst = w.dst /\ v.load = w.load /\ SignalOf(v) = w.load.type
      /\ PacketOf(v) = IF w.load.type = "aid" THEN {w.load.packet} ELSE {}
  <2>1. PICK t : v = SerializeRid(w.dst, w.space, t, w.load)
    BY <1>4
  <2>2. /\ v.dst = w.dst /\ v.load = w.load /\ SignalOf(v) = w.load.type
        /\ w.load.type # "aid" => PacketOf(v) = {}
        /\ w.load.type = "aid" => PacketOf(v) = {w.load.packet}
    BY <2>1, RidCargo
  <2> QED
    BY <2>2
<1>6. /\ SignalOf(w) = w.load.type
      /\ PacketOf(w) = IF w.load.type = "aid" THEN {w.load.packet} ELSE {}
  BY <1>1, RidCargo
<1>7. SameCargo(v, w)
  BY <1>5, <1>6 DEF SameCargo
<1> QED
  BY <1>3, <1>7
-----------------------------------------------------------------------------
(* Where it goes.                                                           *)

\* What is sent carries what w carries, and is heard by j only, at one of these nodes.
Goes(sends, w, j, nodes) ==
  \A s \in sends :
    /\ SameCargo(s.frame.image, w)
    /\ \A k : Hears(k, s) => k = j /\ Owner(k) \in nodes

LEMMA SendGoes ==
  ASSUME NEW w, NEW image, SameCargo(image, w), NEW node, NEW port, NEW nodes,
         Leads(net, <<node, port.iface>>, port.mac, nodes)
  PROVE  Goes(Send(node, port, image), w, port.mac, nodes)
<1> SUFFICES ASSUME NEW s \in Send(node, port, image)
             PROVE  /\ SameCargo(s.frame.image, w)
                    /\ \A k : Hears(k, s) => k = port.mac /\ Owner(k) \in nodes
  BY DEF Goes
<1>1. s.via = <<node, port.iface>> /\ s.frame.mac = port.mac /\ s.frame.image = image
  BY DEF Send, FrameFor
<1>2. Heard[net][s.via, s.frame.mac] \subseteq {port.mac} /\ Owner(port.mac) \in nodes
  BY <1>1 DEF Leads
<1> QED
  BY <1>1, <1>2 DEF Hears

LEMMA NothingGoes ==
  ASSUME NEW w, NEW j, NEW nodes
  PROVE  Goes({}, w, j, nodes)
BY DEF Goes

LEMMA WiderGoes ==
  ASSUME NEW sends, NEW w, NEW j, NEW nodes, NEW more, Goes(sends, w, j, nodes),
         nodes \subseteq more
  PROVE  Goes(sends, w, j, more)
BY DEF Goes

\* The address of a router's one route neighbour.
Core(c) == (CHOOSE nb \in Here.cr[c].route_neighbors : TRUE).mac

LEMMA NeighborGoes ==
  ASSUME Unicast(net), NEW c \in CR, NEW nb \in Here.cr[c].route_neighbors,
         NEW w, NEW image, SameCargo(image, w)
  PROVE  Goes(Send(c, nb, image), w, Core(c), CR)
<1>1. nb.mac = Core(c)
  <2>1. \A ob \in Here.cr[c].route_neighbors : nb = ob
    BY DEF Unicast, Here
  <2> QED
    BY <2>1 DEF Core
<1>2. Leads(net, <<c, nb.iface>>, nb.mac, CR)
  BY DEF Unicast, Here
<1> QED
  BY <1>1, <1>2, SendGoes

LEMMA ForwardRidGoes ==
  ASSUME Unicast(net), NEW c \in CR, NEW rid, NEW space, NEW w, NEW image, SameCargo(image, w)
  PROVE  Goes(ForwardRid(c, rid, space, image), w, Core(c), CR)
<1>1. UNION NextHops(c, rid, space) \subseteq Here.cr[c].route_neighbors
  BY DEF NextHops, Neighbors
<1>2. \A nb \in UNION NextHops(c, rid, space) : Goes(Send(c, nb, image), w, Core(c), CR)
  BY <1>1, NeighborGoes
<1> QED
  BY <1>2 DEF ForwardRid, Goes

LEMMA ToAPGoes ==
  ASSUME Unicast(net), NEW c \in CR, NEW a \in DOMAIN Here.cr[c].aps,
         NEW w, NEW image, SameCargo(image, w)
  PROVE  Goes(ToAP(c, a, image), w, Here.cr[c].access_neighbors[a].mac, AP)
<1> DEFINE port == [iface |-> Here.cr[c].aps[a].iface, mac |-> Here.cr[c].access_neighbors[a].mac]
<1>1. /\ a \in DOMAIN Here.cr[c].access_neighbors
      /\ Leads(net, <<c, Here.cr[c].aps[a].iface>>, Here.cr[c].access_neighbors[a].mac, AP)
  BY DEF Unicast, Here
<1>2. ToAP(c, a, image) = Send(c, port, image)
  BY <1>1 DEF ToAP
<1>3. port.iface = Here.cr[c].aps[a].iface /\ port.mac = Here.cr[c].access_neighbors[a].mac
  OBVIOUS
<1> HIDE DEF port
<1> QED
  BY <1>1, <1>2, <1>3, SendGoes

LEMMA ServingAPGoes ==
  ASSUME Unicast(net), NEW c \in CR, NEW p, NEW w, SameCargo(SerializeAid(p), w)
  PROVE  \E j : Goes(ServingAP(c, p), w, j, AP)
<1>1. CASE Here.cr[c].users[p.dst].ap_aid \in DOMAIN Here.cr[c].aps
  BY <1>1, ToAPGoes DEF ServingAP
<1>2. CASE Here.cr[c].users[p.dst].ap_aid \notin DOMAIN Here.cr[c].aps
  BY <1>2, NothingGoes DEF ServingAP
<1> QED
  BY <1>1, <1>2

\* A node that the router's frames may go to; the users that packets are for included.
Around(n, dst) == AP \cup CR \cup {Addressee(n, dst)}

LEMMA DeliverLocalGoes ==
  ASSUME Unicast(net), NEW c \in CR, NEW p, p.dst \in Asked(net),
         NEW w, SameCargo(SerializeAid(p), w)
  PROVE  \E j : Goes(DeliverLocal(c, p), w, j, Around(net, p.dst))
<1>1. CASE p.dst \in DOMAIN Here.cr[c].access_neighbors
  <2> DEFINE port == Here.cr[c].access_neighbors[p.dst]
  <2>1. Leads(net, <<c, port.iface>>, port.mac, {Addressee(net, p.dst)})
    BY <1>1 DEF Unicast, Here, Asked
  <2>2. DeliverLocal(c, p) = Send(c, port, SerializeAid(p))
    BY <1>1 DEF DeliverLocal
  <2> HIDE DEF port
  <2>3. Goes(DeliverLocal(c, p), w, port.mac, {Addressee(net, p.dst)})
    BY <2>1, <2>2, SendGoes
  <2> QED
    BY <2>3, WiderGoes DEF Around
<1>2. CASE p.dst \notin DOMAIN Here.cr[c].access_neighbors
  <2>1. DeliverLocal(c, p) = ServingAP(c, p)
    BY <1>2 DEF DeliverLocal
  <2>2. PICK j : Goes(ServingAP(c, p), w, j, AP)
    BY ServingAPGoes
  <2> QED
    BY <2>1, <2>2, WiderGoes DEF Around
<1> QED
  BY <1>1, <1>2

LEMMA CRAidGoes ==
  ASSUME Unicast(net), NEW c \in CR, NEW log, NEW w, AidImage(w, log),
         w.packet.dst \in Asked(net)
  PROVE  \E j : Goes(CRAid(c, w), w, j, Around(net, w.packet.dst))
<1> DEFINE p == Decremented(DeserializeAid(w))
           image(m) == SerializeRid(m.mapped_rid, SpaceFor(c, m), TTL, SerializeAid(p))
           forwarded == {ForwardRid(c, m.mapped_rid, SpaceFor(c, m), image(m)) :
                           m \in Mapping(c, p.dst)}
<1>1. CASE ~Alive(DeserializeAid(w))
  BY <1>1, NothingGoes DEF CRAid
<1>2. CASE Alive(DeserializeAid(w))
  <2>1. DeserializeAid(w) = w.packet /\ PacketOf(w) = {w.packet}
    BY AidRoundTrip DEF PacketOf
  <2>2. p.no = w.packet.no /\ p.dst = w.packet.dst
    <3>1. w.packet = AidPacket(w.packet.no, w.packet.dst, w.packet.ttl, w.packet.size)
      BY DEF AidImage, SentPacket
    <3>2. \A n, d, t, z : /\ Decremented(AidPacket(n, d, t, z)).no = n
                          /\ Decremented(AidPacket(n, d, t, z)).dst = d
      BY DEF Decremented, AidPacket
    <3> QED
      BY <2>1, <3>1, <3>2
  <2> HIDE DEF p
  <2>3. SameCargo(SerializeAid(p), w)
    BY <2>1, <2>2, AidSameCargo
  <2>4. \A m : SameCargo(image(m), w)
    BY <2>1, <2>2, WrappedSameCargo
  <2> HIDE DEF image
  <2>5. \A sends \in forwarded : Goes(sends, w, Core(c), CR)
    BY <2>4, ForwardRidGoes
  <2>6. Goes(UNION forwarded, w, Core(c), CR)
    <3> HIDE DEF forwarded
    <3> QED
      BY <2>5 DEF Goes
  <2>7. \E j : Goes(DeliverLocal(c, p), w, j, Around(net, w.packet.dst))
    BY <2>2, <2>3, DeliverLocalGoes
  <2>8. CASE Status(c, p.dst) = "ONLINE"
    BY <1>2, <2>7, <2>8 DEF CRAid, p
  <2>9. CASE Status(c, p.dst) # "ONLINE"
    <3>1. CRAid(c, w) = UNION forwarded
      BY <1>2, <2>9 DEF CRAid, p, image
    <3> HIDE DEF forwarded
    <3> QED
      BY <2>6, <3>1, WiderGoes DEF Around
  <2> QED
    BY <2>8, <2>9
<1> QED
  BY <1>1, <1>2

LEMMA AlertGoes ==
  ASSUME Unicast(net), NEW c \in CR, NEW u, NEW w
  PROVE  Goes(Alert(c, u), w, Core(c), CR)
<1> DEFINE image(nb) == SerializeRid(nb.rid, 0, TTL, EncodeSignal("alert", u, TRUE, Here.cr[c].rid))
<1>1. \A nb : SameCargo(image(nb), w)
  <2> TAKE nb
  <2> DEFINE v == image(nb)
  <2>1. \E ok, r : v = SerializeRid(nb.rid, 0, TTL, EncodeSignal("alert", u, ok, r))
    OBVIOUS
  <2> HIDE DEF v
  <2>2. PacketOf(v) = {} /\ SignalOf(v) = "alert"
    BY <2>1, SignalCargo
  <2>3. SameCargo(v, w)
    BY <2>2 DEF SameCargo
  <2> QED
    BY <2>3 DEF v
<1> HIDE DEF image
<1>2. \A nb \in Here.cr[c].route_neighbors : Goes(Send(c, nb, image(nb)), w, Core(c), CR)
  BY <1>1, NeighborGoes
<1>3. Goes(UNION {Send(c, nb, image(nb)) :
                    nb \in {m \in Here.cr[c].route_neighbors : m.space_id = 0}}, w, Core(c), CR)
  BY <1>2 DEF Goes
<1> QED
  BY <1>3 DEF Alert, image

LEMMA RedirectGoes ==
  ASSUME Unicast(net), NEW c \in CR, NEW w, NEW p \in PacketOf(w)
  PROVE  Goes(Redirect(c, p), w, Core(c), CR)
<1> DEFINE image(m) == SerializeRid(m.remote_cr_rid, m.space_id, TTL, SerializeAid(p))
           away(m) == ForwardRid(c, m.remote_cr_rid, m.space_id, image(m)) \cup Alert(c, p.dst)
<1>1. \A m : SameCargo(image(m), w)
  BY WrappedSameCargo
<1> HIDE DEF image
<1>2. \A m : Goes(ForwardRid(c, m.remote_cr_rid, m.space_id, image(m)), w, Core(c), CR)
  BY <1>1, ForwardRidGoes
<1>3. Goes(Alert(c, p.dst), w, Core(c), CR)
  BY AlertGoes
<1>4. \A m : Goes(away(m), w, Core(c), CR)
  BY <1>2, <1>3 DEF Goes
<1> HIDE DEF away
<1>5. Goes(UNION {away(m) : m \in Mapping(c, p.dst)}, w, Core(c), CR)
  BY <1>4 DEF Goes
<1> QED
  BY <1>5 DEF Redirect, away, image

\* A RID image with a packet.
LEMMA DecapsulateGoes ==
  ASSUME Unicast(net), NEW c \in CR, NEW log, NEW w, RidImage(w, log), AidImage(w.load, log)
  PROVE  \E j : Goes(Decapsulate(c, DeserializeRid(w)), w, j, AP \cup CR)
<1> DEFINE p == DeserializeAid(DeserializeRid(w).load)
<1>1. p = w.load.packet /\ w.load.type = "aid" /\ w.type = "rid"
  BY RidRoundTrip, AidRoundTrip
<1>2. p \in PacketOf(w)
  BY <1>1 DEF PacketOf
<1> HIDE DEF p
<1>3. SameCargo(SerializeAid(p), w)
  BY <1>2, AidSameCargo
<1>4. CASE Status(c, p.dst) = "ONLINE"
  <2>1. PICK j : Goes(ServingAP(c, p), w, j, AP)
    BY <1>3, ServingAPGoes
  <2>2. Goes(ServingAP(c, p), w, j, AP \cup CR)
    BY <2>1, WiderGoes
  <2> QED
    BY <1>4, <2>2 DEF Decapsulate, p
<1>5. CASE Status(c, p.dst) = "MOVED_AWAY"
  <2>1. Goes(Redirect(c, p), w, Core(c), AP \cup CR)
    BY <1>2, RedirectGoes, WiderGoes
  <2> QED
    BY <1>5, <2>1 DEF Decapsulate, p
<1>6. CASE Status(c, p.dst) # "ONLINE" /\ Status(c, p.dst) # "MOVED_AWAY"
  <2>1. Decapsulate(c, DeserializeRid(w)) = {}
    BY <1>6 DEF Decapsulate, p
  <2> QED
    BY <2>1, NothingGoes
<1> QED
  BY <1>4, <1>5, <1>6

LEMMA ForwardControlGoes ==
  ASSUME Unicast(net), NEW c \in CR, NEW r, NEW w, NEW image, SameCargo(image, w)
  PROVE  Goes(ForwardControl(c, r, image), w, Core(c), CR)
<1>1. Goes(ForwardRid(c, r.dst, r.space, image), w, Core(c), CR)
  BY ForwardRidGoes
<1>2. \A nb \in Neighbors(c, r.dst) : Goes(Send(c, nb, image), w, Core(c), CR)
  BY NeighborGoes DEF Neighbors
<1>3. Goes(UNION {Send(c, nb, image) : nb \in Neighbors(c, r.dst)}, w, Core(c), CR)
  BY <1>2 DEF Goes
<1> QED
  BY <1>1, <1>3 DEF ForwardControl

\* A request for the CS does not get to an AP.
LEMMA CRRidGoes ==
  ASSUME Unicast(net), NEW c \in CR, NEW log, NEW w, RidImage(w, log),
         SignalOf(w) = "request" => w.dst = RCS
  PROVE  \E j : Goes(CRRid(c, w), w, j, IF SignalOf(w) = "request" THEN CR ELSE AP \cup CR)
<1> DEFINE r == DeserializeRid(w)
           image == [w EXCEPT !.ttl = @ - 1]
           nodes == IF SignalOf(w) = "request" THEN CR ELSE AP \cup CR
           toAPs == UNION {ToAP(c, a, image) : a \in LocalAPs(c, r.dst)}
           own == IF IsControl(r) THEN {} ELSE Decapsulate(c, r)
           onward == IF ~InSpacesIn[net][c, r.dst] THEN ForwardRid(c, r.dst, r.space, image)
                     ELSE IF IsControl(r) THEN ForwardControl(c, r, image)
                     ELSE Decapsulate(c, r)
<1>1. CASE ~Alive(w)
  BY <1>1, NothingGoes DEF CRRid
<1>2. CASE Alive(w)
  <2>1. SameCargo(image, w)
    BY HopSameCargo
  <2>2. r.dst = w.dst /\ r.load = w.load /\ SignalOf(w) = w.load.type
    BY RidRoundTrip DEF SignalOf
  <2>3. ~IsControl(r) => nodes = AP \cup CR /\ \E j : Goes(Decapsulate(c, r), w, j, AP \cup CR)
    <3>1. ASSUME ~IsControl(r)
          PROVE  SignalOf(w) # "request" /\ AidImage(w.load, log)
      BY <2>2, <3>1, LoadByType DEF IsControl
    <3> QED
      BY <3>1, DecapsulateGoes
  <2> HIDE DEF r, image
  <2>4. \E j : Goes(toAPs, w, j, nodes)
    <3>1. CASE LocalAPs(c, r.dst) = {}
      <4>1. toAPs = {}
        BY <3>1
      <4> QED
        BY <4>1, NothingGoes
    <3>2. ASSUME NEW a \in LocalAPs(c, r.dst)
          PROVE  \E j : Goes(toAPs, w, j, nodes)
      <4>1. a \in DOMAIN Here.cr[c].aps /\ Here.cr[c].aps[a].rid = r.dst
        BY <3>2 DEF LocalAPs
      <4>2. \A b \in LocalAPs(c, r.dst) : b = a
        BY <4>1 DEF LocalAPs, Unicast, Here
      <4>3. toAPs = ToAP(c, a, image)
        BY <3>2, <4>2
      <4>4. SignalOf(w) # "request"
        BY <2>2, <4>1 DEF Unicast, Here
      <4>5. Goes(ToAP(c, a, image), w, Here.cr[c].access_neighbors[a].mac, AP)
        BY <2>1, <4>1, ToAPGoes
      <4> HIDE DEF toAPs
      <4> QED
        BY <4>3, <4>4, <4>5, WiderGoes
    <3> QED
      BY <3>1, <3>2
  <2>5. \E j : Goes(own, w, j, nodes)
    BY <2>3, NothingGoes
  <2>6. \E j : Goes(onward, w, j, nodes)
    <3>1. Goes(ForwardRid(c, r.dst, r.space, image), w, Core(c), nodes)
      BY <2>1, ForwardRidGoes, WiderGoes
    <3>2. Goes(ForwardControl(c, r, image), w, Core(c), nodes)
      BY <2>1, ForwardControlGoes, WiderGoes
    <3> QED
      BY <2>3, <3>1, <3>2
  <2> HIDE DEF toAPs, own, onward, nodes
  <2>7. CRRid(c, w) = IF LocalAPs(c, r.dst) # {} THEN toAPs
                      ELSE IF r.dst = Here.cr[c].rid THEN own ELSE onward
    <3>1. CASE LocalAPs(c, r.dst) # {}
      BY <1>2, <3>1 DEF CRRid, r, image, toAPs
    <3>2. CASE LocalAPs(c, r.dst) = {} /\ r.dst = Here.cr[c].rid
      BY <1>2, <3>2 DEF CRRid, r, own
    <3>3. CASE LocalAPs(c, r.dst) = {} /\ r.dst # Here.cr[c].rid
      BY <1>2, <3>3 DEF CRRid, r, image, onward
    <3> QED
      BY <3>1, <3>2, <3>3
  <2>8. \E j : Goes(CRRid(c, w), w, j, nodes)
    BY <2>4, <2>5, <2>6, <2>7
  <2> QED
    BY <2>8 DEF nodes
<1> QED
  BY <1>1, <1>2

\* Where a router's or an AP's frames may go: a request to routers only.
Onward(n, w) ==
  IF SignalOf(w) = "request" THEN CR
  ELSE AP \cup CR \cup {Addressee(n, p.dst) : p \in PacketOf(w)}

LEMMA CRSendsGoes ==
  ASSUME Unicast(net), NEW c \in CR, NEW log, NEW w, Image(w, log),
         \A p \in PacketOf(w) : p.dst \in Asked(net),
         SignalOf(w) = "request" => w.dst = RCS
  PROVE  \E j : Goes(CRSends(c, w), w, j, Onward(net, w))
<1>1. CASE IsAidFrame(w)
  <2>1. AidImage(w, log) /\ PacketOf(w) = {w.packet} /\ SignalOf(w) = "none"
    BY <1>1, FrameByType, AidRoundTrip DEF PacketOf, SignalOf
  <2>2. PICK j : Goes(CRAid(c, w), w, j, Around(net, w.packet.dst))
    BY <2>1, CRAidGoes
  <2>3. Around(net, w.packet.dst) \subseteq Onward(net, w)
    BY <2>1 DEF Around, Onward
  <2>4. Goes(CRAid(c, w), w, j, Onward(net, w))
    BY <2>2, <2>3, WiderGoes
  <2> QED
    BY <1>1, <2>4 DEF CRSends
<1>2. CASE ~IsAidFrame(w)
  <2> DEFINE nodes == IF SignalOf(w) = "request" THEN CR ELSE AP \cup CR
  <2>1. RidImage(w, log)
    BY <1>2, FrameByType
  <2>2. PICK j : Goes(CRRid(c, w), w, j, nodes)
    BY <2>1, CRRidGoes
  <2>3. nodes \subseteq Onward(net, w)
    BY DEF Onward
  <2> HIDE DEF nodes
  <2>4. Goes(CRRid(c, w), w, j, Onward(net, w))
    BY <2>2, <2>3, WiderGoes
  <2> QED
    BY <1>2, <2>4 DEF CRSends
<1> QED
  BY <1>1, <1>2

LEMMA ToUserGoes ==
  ASSUME UsersLead(net, users), NEW a \in AP, NEW w, NEW p \in PacketOf(w),
         p.dst \in Asked(net)
  PROVE  \E j : Goes(ToUser(a, p), w, j, {Addressee(net, p.dst)})
<1>1. SameCargo(SerializeAid(p), w)
  BY AidSameCargo
<1>2. CASE p.dst \in DOMAIN users[a]
  <2> DEFINE port == Via(users[a][p.dst], 0)
  <2>1. port.mac = users[a][p.dst] /\ port.iface = 0
    BY DEF Via
  <2>2. ToUser(a, p) = Send(a, port, SerializeAid(p))
    BY <1>2 DEF ToUser
  <2> HIDE DEF port
  <2>3. Leads(net, <<a, port.iface>>, port.mac, {Addressee(net, p.dst)})
    BY <1>2, <2>1 DEF UsersLead
  <2> QED
    BY <1>1, <2>2, <2>3, SendGoes
<1>3. CASE p.dst \notin DOMAIN users[a]
  BY <1>3, NothingGoes DEF ToUser
<1> QED
  BY <1>2, <1>3

LEMMA CRPortLeads ==
  ASSUME Unicast(net), NEW a \in AP
  PROVE  Leads(net, <<a, CRPort(a).iface>>, CRPort(a).mac, CR)
BY DEF Unicast, CRPort, Via, Here

LEMMA APSendsGoes ==
  ASSUME Unicast(net), UsersLead(net, users), NEW a \in AP, NEW log, NEW w, Image(w, log),
         SignalOf(w) \in {"none", "aid"}, \A p \in PacketOf(w) : p.dst \in Asked(net)
  PROVE  \E j : Goes(APSends(a, w), w, j, Onward(net, w))
<1>1. \A p \in PacketOf(w) : {Addressee(net, p.dst)} \subseteq Onward(net, w)
  BY DEF Onward
<1>2. CASE IsAidFrame(w)
  <2> DEFINE p == DeserializeAid(w)
  <2>1. p = w.packet /\ PacketOf(w) = {w.packet}
    BY <1>2, FrameByType, AidRoundTrip DEF PacketOf
  <2>2. APSends(a, w) = IF p.dst \in DOMAIN users[a] THEN ToUser(a, p)
                        ELSE Send(a, CRPort(a), SerializeAid(p))
    BY <1>2 DEF APSends
  <2> HIDE DEF p
  <2>3. \E j : Goes(ToUser(a, p), w, j, Onward(net, w))
    <3>1. PICK j : Goes(ToUser(a, p), w, j, {Addressee(net, p.dst)})
      BY <2>1, ToUserGoes
    <3> QED
      BY <1>1, <2>1, <3>1, WiderGoes
  <2>4. \E j : Goes(Send(a, CRPort(a), SerializeAid(p)), w, j, Onward(net, w))
    <3>1. Goes(Send(a, CRPort(a), SerializeAid(p)), w, CRPort(a).mac, CR)
      BY <2>1, AidSameCargo, CRPortLeads, SendGoes
    <3>2. CR \subseteq Onward(net, w)
      BY DEF Onward
    <3> QED
      BY <3>1, <3>2, WiderGoes
  <2> QED
    BY <2>2, <2>3, <2>4
<1>3. CASE ~IsAidFrame(w)
  <2> DEFINE p == DeserializeAid(DeserializeRid(w).load)
  <2>1. RidImage(w, log) /\ w.load.type \in {"none", "aid"}
    BY <1>3, FrameByType DEF SignalOf
  <2>2. AidImage(w.load, log)
    BY <2>1 DEF RidImage, SignalImage
  <2>3. p = w.load.packet /\ p \in PacketOf(w)
    BY <2>1, <2>2, RidRoundTrip, AidRoundTrip DEF PacketOf
  <2>4. APSends(a, w) = ToUser(a, p)
    BY <1>3 DEF APSends
  <2> HIDE DEF p
  <2>5. PICK j : Goes(ToUser(a, p), w, j, {Addressee(net, p.dst)})
    BY <2>3, ToUserGoes
  <2> QED
    BY <1>1, <2>3, <2>4, <2>5, WiderGoes
<1> QED
  BY <1>2, <1>3
-----------------------------------------------------------------------------
(* What lands where.                                                        *)

\* All of sends may land where it is heard; a packet among it is in no queue of q yet
\* and is heard at one place.
Fits(sends, q, log) ==
  \E j : \A s \in sends :
    /\ \A i : Hears(i, s) => Lands(net, s.frame.image, i, log)
    /\ \A k \in Nos(s.frame.image) : Free(q, k) /\ \A i : Hears(i, s) => i = j

LEMMA GoesFits ==
  ASSUME NEW log, NEW w, NEW i, Lands(net, w, i, log),
         SignalOf(w) = "request" => Owner(i) \in CR,
         NEW sends, NEW j, Goes(sends, w, j, Onward(net, w)),
         NEW q, \A k \in Nos(w) : Free(q, k)
  PROVE  Fits(sends, q, log) /\ \A s \in sends : Nos(s.frame.image) \subseteq Nos(w)
<1>1. ASSUME NEW s \in sends
      PROVE  /\ \A l : Hears(l, s) => Lands(net, s.frame.image, l, log)
             /\ Nos(s.frame.image) \subseteq Nos(w)
             /\ \A l : Hears(l, s) => l = j
  <2> DEFINE v == s.frame.image
  <2>1. SameCargo(v, w) /\ \A l : Hears(l, s) => l = j /\ Owner(l) \in Onward(net, w)
    BY <1>1 DEF Goes
  <2> HIDE DEF v
  <2>2. Nos(v) \subseteq Nos(w)
    BY <2>1 DEF SameCargo, Nos
  <2>3. ASSUME NEW l, Hears(l, s)
        PROVE  Lands(net, v, l, log)
    <3>1. Owner(l) \in Onward(net, w)
      BY <2>1, <2>3
    <3>2. ASSUME NEW p \in PacketOf(v)
          PROVE  /\ p.no \in DOMAIN log /\ p.dst = log[p.no].dst
                 /\ Owner(l) \in Ends => Owner(l) = Addressee(net, p.dst)
      <4>1. PICK q0 \in PacketOf(w) : p.no = q0.no /\ p.dst = q0.dst
        BY <2>1, <3>2 DEF SameCargo
      <4>2. q0.no \in DOMAIN log /\ q0.dst = log[q0.no].dst
        BY DEF Lands
      <4>3. \A q1 \in PacketOf(w) : q1 = q0
        BY DEF PacketOf
      <4>4. Owner(l) \in AP \cup CR \cup {Addressee(net, q0.dst)}
        BY <3>1, <4>3 DEF Onward
      <4>5. Owner(l) \in Ends => Owner(l) \notin AP \cup CR
        BY DEF Ends, AP, CR, Host
      <4> QED
        BY <4>1, <4>2, <4>4, <4>5
    <3>3. ASSUME SignalOf(v) = "request"
          PROVE  Owner(l) \notin AP /\ v.dst = RCS
      <4>1. SignalOf(w) = "request" /\ v.dst = w.dst
        BY <2>1, <3>3 DEF SameCargo
      <4>2. w.dst = RCS
        BY <4>1 DEF Lands
      <4>3. Owner(l) \in CR
        BY <3>1, <4>1 DEF Onward
      <4>4. Owner(l) \notin AP
        BY <4>3 DEF AP, CR
      <4> QED
        BY <4>1, <4>2, <4>4
    <3> QED
      BY <3>2, <3>3 DEF Lands
  <2> QED
    BY <2>1, <2>2, <2>3 DEF v
<1> QED
  BY <1>1 DEF Fits

LEMMA DeliverCopies ==
  ASSUME NEW log, NEW q, \A i \in DOMAIN q : IsSequence(q[i]),
         QueuesLand(net, q, log), Unique(q), NEW sends, Fits(sends, q, log)
  PROVE  /\ QueuesLand(net, Deliver(q, sends), log) /\ Unique(Deliver(q, sends))
         /\ \A k : Free(q, k) /\ (\A s \in sends : k \notin Nos(s.frame.image))
                     => Free(Deliver(q, sends), k)
<1> DEFINE d == Deliver(q, sends)
<1>1. DOMAIN d = DOMAIN q
  BY DEF Deliver
<1>2. ASSUME NEW i \in DOMAIN q, NEW a \in DOMAIN d[i]
      PROVE  \/ a \in DOMAIN q[i] /\ d[i][a] = q[i][a]
             \/ a = Len(q[i]) + 1 /\ \E s \in sends : Hears(i, s) /\ d[i][a] = s.frame.image
  <2> DEFINE s == CHOOSE t \in sends : Hears(i, t)
  <2>1. CASE \E t \in sends : Hears(i, t)
    <3>1. s \in sends /\ Hears(i, s)
      BY <2>1
    <3>2. d[i] = Append(q[i], s.frame.image)
      BY <2>1 DEF Deliver
    <3> HIDE DEF s, d
    <3>3. IsSequence(q[i])
      OBVIOUS
    <3>4. a \in DOMAIN q[i] \/ a = Len(q[i]) + 1
      BY <3>2, <3>3, AppendRange
    <3>5. CASE a \in DOMAIN q[i]
      BY <3>2, <3>3, <3>5, AppendRange
    <3>6. CASE a = Len(q[i]) + 1
      BY <3>1, <3>2, <3>3, <3>6, AppendRange
    <3> QED
      BY <3>4, <3>5, <3>6
  <2>2. CASE ~\E t \in sends : Hears(i, t)
    BY <2>2 DEF Deliver
  <2> QED
    BY <2>1, <2>2
<1> HIDE DEF d
<1>3. PICK j : \A s \in sends :
                 /\ \A i : Hears(i, s) => Lands(net, s.frame.image, i, log)
                 /\ \A k \in Nos(s.frame.image) : Free(q, k) /\ \A i : Hears(i, s) => i = j
  BY DEF Fits
<1>4. QueuesLand(net, d, log)
  <2> SUFFICES ASSUME NEW i \in DOMAIN q, NEW a \in DOMAIN d[i]
               PROVE  Lands(net, d[i][a], i, log)
    BY <1>1 DEF QueuesLand, Range
  <2>1. CASE a \in DOMAIN q[i] /\ d[i][a] = q[i][a]
    BY <2>1 DEF QueuesLand, Range
  <2>2. CASE \E s \in sends : Hears(i, s) /\ d[i][a] = s.frame.image
    BY <1>3, <2>2
  <2> QED
    BY <1>2, <2>1, <2>2
<1>5. Unique(d)
  <2> SUFFICES ASSUME NEW i \in DOMAIN q, NEW l \in DOMAIN q,
                      NEW a \in DOMAIN d[i], NEW b \in DOMAIN d[l],
                      NEW k, k \in Nos(d[i][a]), k \in Nos(d[l][b])
               PROVE  i = l /\ a = b
    BY <1>1 DEF Unique
  <2>1. CASE a \in DOMAIN q[i] /\ d[i][a] = q[i][a] /\ b \in DOMAIN q[l] /\ d[l][b] = q[l][b]
    BY <2>1 DEF Unique
  <2>2. CASE /\ a \in DOMAIN q[i] /\ d[i][a] = q[i][a]
             /\ \E s \in sends : Hears(l, s) /\ d[l][b] = s.frame.image
    <3>1. Free(q, k)
      BY <1>3, <2>2
    <3> QED
      BY <2>2, <3>1 DEF Free, Range
  <2>3. CASE /\ b \in DOMAIN q[l] /\ d[l][b] = q[l][b]
             /\ \E s \in sends : Hears(i, s) /\ d[i][a] = s.frame.image
    <3>1. Free(q, k)
      BY <1>3, <2>3
    <3> QED
      BY <2>3, <3>1 DEF Free, Range
  <2>4. CASE /\ a = Len(q[i]) + 1 /\ \E s \in sends : Hears(i, s) /\ d[i][a] = s.frame.image
             /\ b = Len(q[l]) + 1 /\ \E s \in sends : Hears(l, s) /\ d[l][b] = s.frame.image
    <3>1. i = j /\ l = j
      BY <1>3, <2>4
    <3> QED
      BY <2>4, <3>1
  <2> QED
    BY <1>2, <2>1, <2>2, <2>3, <2>4
<1>6. ASSUME NEW k, Free(q, k), \A s \in sends : k \notin Nos(s.frame.image)
      PROVE  Free(d, k)
  <2> SUFFICES ASSUME NEW i \in DOMAIN q, NEW a \in DOMAIN d[i]
               PROVE  k \notin Nos(d[i][a])
    BY <1>1 DEF Free, Range
  <2>1. CASE a \in DOMAIN q[i] /\ d[i][a] = q[i][a]
    BY <1>6, <2>1 DEF Free, Range
  <2>2. CASE \E s \in sends : Hears(i, s) /\ d[i][a] = s.frame.image
    BY <1>6, <2>2
  <2> QED
    BY <1>2, <2>1, <2>2
<1> QED
  BY <1>4, <1>5, <1>6 DEF d

LEMMA TakeCopies ==
  ASSUME NEW log, NEW q, \A i \in DOMAIN q : IsSequence(q[i]),
         QueuesLand(net, q, log), Unique(q), NEW i \in DOMAIN q, q[i] # <<>>
  PROVE  LET rest == [q EXCEPT ![i] = Tail(@)]
         IN /\ \A j \in DOMAIN rest : IsSequence(rest[j])
            /\ QueuesLand(net, rest, log) /\ Unique(rest)
            /\ \A k : Free(q, k) => Free(rest, k)
            /\ \A k \in Nos(Head(q[i])) : Free(rest, k)
            /\ Lands(net, Head(q[i]), i, log)
<1> DEFINE rest == [q EXCEPT ![i] = Tail(@)]
           old(j, a) == IF j = i THEN a + 1 ELSE a
<1>1. DOMAIN rest = DOMAIN q /\ rest[i] = Tail(q[i]) /\ \A j \in DOMAIN q : j # i => rest[j] = q[j]
  OBVIOUS
<1>2. IsSequence(q[i]) /\ 1 \in DOMAIN q[i] /\ Head(q[i]) = q[i][1]
  BY TailEntries
<1> HIDE DEF rest
<1>3. ASSUME NEW j \in DOMAIN q, NEW a \in DOMAIN rest[j]
      PROVE  /\ old(j, a) \in DOMAIN q[j] /\ rest[j][a] = q[j][old(j, a)]
             /\ j = i => a \in Nat \ {0}
  <2>1. CASE j = i
    BY <1>1, <1>2, <2>1, TailEntries
  <2>2. CASE j # i
    BY <1>1, <2>2
  <2> QED
    BY <2>1, <2>2
<1>4. \A j \in DOMAIN rest : IsSequence(rest[j])
  BY <1>1, <1>2, TailRange
<1>5. QueuesLand(net, rest, log)
  <2> SUFFICES ASSUME NEW j \in DOMAIN q, NEW a \in DOMAIN rest[j]
               PROVE  Lands(net, rest[j][a], j, log)
    BY <1>1 DEF QueuesLand, Range
  <2> HIDE DEF old
  <2> QED
    BY <1>3 DEF QueuesLand, Range
<1>6. Unique(rest)
  <2> SUFFICES ASSUME NEW j \in DOMAIN q, NEW l \in DOMAIN q,
                      NEW a \in DOMAIN rest[j], NEW b \in DOMAIN rest[l],
                      NEW k, k \in Nos(rest[j][a]), k \in Nos(rest[l][b])
               PROVE  j = l /\ a = b
    BY <1>1 DEF Unique
  <2>1. j = l /\ old(j, a) = old(l, b)
    <3> HIDE DEF old
    <3> QED
      BY <1>3 DEF Unique
  <2> QED
    BY <1>3, <2>1
<1>7. ASSUME NEW k, Free(q, k)
      PROVE  Free(rest, k)
  <2> SUFFICES ASSUME NEW j \in DOMAIN q, NEW a \in DOMAIN rest[j]
               PROVE  k \notin Nos(rest[j][a])
    BY <1>1 DEF Free, Range
  <2> HIDE DEF old
  <2> QED
    BY <1>3, <1>7 DEF Free, Range
<1>8. ASSUME NEW k \in Nos(Head(q[i]))
      PROVE  Free(rest, k)
  <2> SUFFICES ASSUME NEW j \in DOMAIN q, NEW a \in DOMAIN rest[j], k \in Nos(rest[j][a])
               PROVE  FALSE
    BY <1>1 DEF Free, Range
  <2>1. j = i /\ old(j, a) = 1
    <3>1. old(j, a) \in DOMAIN q[j] /\ k \in Nos(q[j][old(j, a)])
      BY <1>3
    <3> HIDE DEF old
    <3> QED
      BY <1>2, <3>1 DEF Unique
  <2> QED
    BY <1>3, <2>1
<1>9. Lands(net, Head(q[i]), i, log)
  BY <1>2 DEF QueuesLand, Range
<1> QED
  BY <1>4, <1>5, <1>6, <1>7, <1>8, <1>9 DEF rest
-----------------------------------------------------------------------------
(* Steps.                                                                   *)

Rest(i) == [queue EXCEPT ![i] = Tail(@)]

LEMMA RestCopies ==
  ASSUME JourneyInv, CopyInv, NEW i \in DOMAIN queue, Ready(i)
  PROVE  /\ \A j \in DOMAIN Rest(i) : IsSequence(Rest(i)[j])
         /\ QueuesLand(net, Rest(i), sent) /\ Unique(Rest(i))
         /\ \A k : Free(queue, k) => Free(Rest(i), k) /\ k \notin Nos(Head(queue[i]))
         /\ \A k \in Nos(Head(queue[i])) : Free(Rest(i), k)
         /\ Lands(net, Head(queue[i]), i, sent)
<1>1. queue[i] # <<>> /\ \A j \in DOMAIN queue : IsSequence(queue[j])
  BY DEF Ready, JourneyInv, IntactQueue
<1>2. Head(queue[i]) \in Range(queue[i])
  BY <1>1, TailRange
<1>3. \A k : Free(queue, k) => k \notin Nos(Head(queue[i]))
  BY <1>2 DEF Free
<1>4. QueuesLand(net, queue, sent) /\ Unique(queue)
  BY DEF CopyInv
<1> QED
  BY <1>1, <1>3, <1>4, TakeCopies DEF Rest

\* What a turn leaves in the queues.
LEMMA TurnCopies ==
  ASSUME JourneyInv, CopyInv, NEW i \in DOMAIN queue, NEW nodes, NEW sends,
         Turn(i, nodes, sends), Fits(sends, Rest(i), sent),
         \A s \in sends : Nos(s.frame.image) \subseteq Nos(Head(queue[i]))
  PROVE  /\ QueuesLand(net, queue', sent) /\ Unique(queue')
         /\ \A k : Free(queue, k) => Free(queue', k)
         /\ sends = {} => \A k \in Nos(Head(queue[i])) : Free(queue', k)
<1>1. Ready(i) /\ queue' = Deliver(Rest(i), sends)
  BY DEF Turn, Rest
<1>2. /\ QueuesLand(net, queue', sent) /\ Unique(queue')
      /\ \A k : Free(Rest(i), k) /\ (\A s \in sends : k \notin Nos(s.frame.image))
                  => Free(queue', k)
  BY <1>1, RestCopies, DeliverCopies
<1> QED
  BY <1>1, <1>2, RestCopies

\* A step that sends no request and has nothing come out.
LEMMA SameArrivals ==
  ASSUME CopyInv, UNCHANGED <<net, sent, arrived>>,
         QueuesLand(net, queue', sent), Unique(queue'),
         \A k : Free(queue, k) => Free(queue', k),
         users' = [a \in AP |-> users'[a]], UsersLead(net, users'), PendingHome(net, pending')
  PROVE  CopyInv'
<1>1. ArrivedOnce(net', arrived', queue', sent')
  BY DEF CopyInv, ArrivedOnce
<1> QED
  BY <1>1 DEF CopyInv

LEMMA SameTables ==
  ASSUME CopyInv, UNCHANGED <<net, users>>
  PROVE  users' = [a \in AP |-> users'[a]] /\ UsersLead(net, users')
BY DEF CopyInv

\* Signals that are no requests may go anywhere.
SignalsOnly(sends) ==
  \A s \in sends : PacketOf(s.frame.image) = {} /\ SignalOf(s.frame.image) # "request"

LEMMA SignalsFit ==
  ASSUME NEW sends, SignalsOnly(sends), NEW q, NEW log
  PROVE  Fits(sends, q, log) /\ \A s \in sends : Nos(s.frame.image) = {}
BY DEF SignalsOnly, Fits, Lands, Nos

LEMMA SignalSent ==
  ASSUME NEW node, NEW port, NEW dst, NEW type, NEW user, NEW ok,
         NEW s \in Signal(node, port, dst, type, user, ok)
  PROVE  /\ s.via = <<node, port.iface>> /\ s.frame.mac = port.mac
         /\ s.frame.image = SerializeRid(dst, 0, TTL, EncodeSignal(type, user, ok, SourceRid(node)))
BY DEF Signal, Send, FrameFor

LEMMA ResponseOnly ==
  ASSUME NEW node, NEW port, NEW dst, NEW user, NEW ok
  PROVE  SignalsOnly(Signal(node, port, dst, "response", user, ok))
<1> SUFFICES ASSUME NEW s \in Signal(node, port, dst, "response", user, ok)
             PROVE  PacketOf(s.frame.image) = {} /\ SignalOf(s.frame.image) # "request"
  BY DEF SignalsOnly
<1> DEFINE w == s.frame.image
<1>1. w = SerializeRid(dst, 0, TTL, EncodeSignal("response", user, ok, SourceRid(node)))
  BY SignalSent
<1> HIDE DEF w
<1>2. PacketOf(w) = {} /\ SignalOf(w) = "response"
  BY <1>1, SignalCargo
<1> QED
  BY <1>2 DEF w

LEMMA ReplyOnly ==
  ASSUME NEW w, NEW u
  PROVE  SignalsOnly(Reply(w, u))
<1> DEFINE ports == {k \in Here.iface : Owner(k) = "cs"}
           reply(j) == Signal("cs", Via(Broadcast, j[2]), w.load.source, "response", u, Authentic(u))
<1>1. \A j : SignalsOnly(reply(j))
  BY ResponseOnly
<1>2. Reply(w, u) = UNION {reply(j) : j \in ports}
  BY DEF Reply
<1> HIDE DEF reply, ports
<1> QED
  BY <1>1, <1>2 DEF SignalsOnly

\* A request that is heard at one interface, where it may land.
LEMMA RequestFits ==
  ASSUME NEW node, NEW port, NEW dst, NEW user, NEW ok, NEW nodes,
         Leads(net, <<node, port.iface>>, port.mac, nodes),
         Owner(port.mac) \in AP => Owner(port.mac) = Owner(Network[net].host[user].ap_mac),
         Owner(port.mac) \in CR => dst = RCS,
         NEW q, NEW log
  PROVE  /\ Fits(Signal(node, port, dst, "request", user, ok), q, log)
         /\ \A s \in Signal(node, port, dst, "request", user, ok) : Nos(s.frame.image) = {}
<1> SUFFICES ASSUME NEW s \in Signal(node, port, dst, "request", user, ok)
             PROVE  /\ \A i : Hears(i, s) => Lands(net, s.frame.image, i, log)
                    /\ Nos(s.frame.image) = {}
  BY DEF Fits
<1> DEFINE w == s.frame.image
<1>1. /\ w = SerializeRid(dst, 0, TTL, EncodeSignal("request", user, ok, SourceRid(node)))
      /\ s.via = <<node, port.iface>> /\ s.frame.mac = port.mac
  BY SignalSent
<1>2. \A i : Hears(i, s) => i = port.mac
  BY <1>1 DEF Hears, Leads
<1> HIDE DEF w
<1>3. PacketOf(w) = {} /\ w.dst = dst /\ w.load.user = user
  BY <1>1, SignalCargo
<1>4. Lands(net, w, port.mac, log)
  BY <1>3 DEF Lands
<1>5. Nos(w) = {}
  BY <1>3 DEF Nos
<1> QED
  BY <1>2, <1>4, <1>5 DEF w

LEMMA CopyRequest ==
  ASSUME Unicast(net), JourneyInv, CopyInv, NEW n, NEW dst, NEW size \in Sizes,
         Request(n, dst, size)
  PROVE  CopyInv'
<1> DEFINE k0 == Len(sent) + 1
           p == AidPacket(k0, dst, TTL, size)
           port == Via(Here.host[n].ap_mac, 0)
           sends == Send(n, port, SerializeAid(p))
           row == [from |-> n, dst |-> dst, size |-> size]
<1>1. n \in Host /\ dst \in Asked(net)
  <2>1. <<n, dst>> \in Requests[net]
    BY DEF Request
  <2> QED
    BY <2>1 DEF Unicast, Asked
<1>2. /\ Len(sent) < MaxRequests[net] /\ sent' = Append(sent, row)
      /\ queue' = Deliver(queue, sends)
      /\ UNCHANGED <<net, users, pending, arrived>>
  BY <1>1 DEF Request
<1>3. /\ IsSequence(sent) /\ Len(sent) \in Nat /\ DOMAIN sent = 1..Len(sent)
      /\ MaxRequests[net] \in Nat
  <2>1. IsSequence(sent) /\ sent \in Seq(Range(sent)) /\ net \in Nets
    BY DEF JourneyInv, IsSequence
  <2> QED
    BY <2>1, LenProperties, JourneyAssumption
<1>4. /\ \A k \in DOMAIN sent : k \in DOMAIN sent' /\ sent'[k] = sent[k] /\ k # k0
      /\ k0 \in DOMAIN sent' /\ sent'[k0].dst = dst
      /\ \A k \in DOMAIN sent' : k \in DOMAIN sent \/ k = k0
  BY <1>2, <1>3, AppendRange
<1>5. Len(sent') <= MaxRequests[net']
  <2>1. sent' \in Seq(Range(sent) \cup {row}) /\ Len(sent') = Len(sent) + 1
    <3>1. sent \in Seq(Range(sent) \cup {row})
      <4>1. sent \in Seq(Range(sent))
        BY <1>3 DEF IsSequence
      <4>2. sent \in [1..Len(sent) -> Range(sent)]
        BY <4>1, LenProperties
      <4>3. sent \in [1..Len(sent) -> Range(sent) \cup {row}]
        BY <4>2
      <4> QED
        BY <1>3, <4>3, IsASeq
    <3> HIDE DEF row
    <3> QED
      BY <1>2, <3>1, AppendProperties
  <2> QED
    BY <1>2, <1>3, <2>1
<1>6. PacketOf(SerializeAid(p)) = {p} /\ SignalOf(SerializeAid(p)) = "none"
  BY AidCargo
<1>7. p.no = k0 /\ p.dst = dst
  BY DEF AidPacket
<1>8. port.iface = 0 /\ port.mac = Here.host[n].ap_mac
  BY DEF Via
<1> HIDE DEF p, port, row, k0
<1>9. Leads(net, <<n, port.iface>>, port.mac, AP)
  BY <1>1, <1>8 DEF Unicast, Here
<1>10. QueuesLand(net, queue, sent') /\ Free(queue, k0)
  <2>1. \A i \in DOMAIN queue : \A w \in Range(queue[i]) : Lands(net, w, i, sent)
    BY DEF CopyInv, QueuesLand
  <2>2. \A i, w : Lands(net, w, i, sent) => Lands(net, w, i, sent') /\ k0 \notin Nos(w)
    BY <1>4 DEF Lands, Nos
  <2> QED
    BY <2>1, <2>2 DEF QueuesLand, Free
<1>11. ASSUME NEW s \in sends
       PROVE  /\ \A i : Hears(i, s) => i = port.mac /\ Lands(net, s.frame.image, i, sent')
              /\ Nos(s.frame.image) = {k0}
  <2>1. s.frame.image = SerializeAid(p) /\ s.via = <<n, port.iface>> /\ s.frame.mac = port.mac
    BY <1>11 DEF Send, FrameFor
  <2>2. \A i : Hears(i, s) => i = port.mac
    BY <1>9, <2>1 DEF Hears, Leads
  <2>3. Owner(port.mac) \in AP /\ Owner(port.mac) \notin Ends
    BY <1>9 DEF Leads, AP, Ends, Host
  <2>4. Lands(net, SerializeAid(p), port.mac, sent')
    BY <1>4, <1>6, <1>7, <2>3 DEF Lands
  <2>5. Nos(SerializeAid(p)) = {k0}
    BY <1>6, <1>7 DEF Nos
  <2> QED
    BY <2>1, <2>2, <2>4, <2>5
<1>12. Fits(sends, queue, sent')
  BY <1>10, <1>11 DEF Fits
<1> HIDE DEF sends
<1>13. /\ QueuesLand(net, queue', sent') /\ Unique(queue')
       /\ \A k : Free(queue, k) /\ k # k0 => Free(queue', k)
  <2>1. Unique(queue) /\ \A i \in DOMAIN queue : IsSequence(queue[i])
    BY DEF CopyInv, JourneyInv, IntactQueue
  <2> QED
    BY <1>2, <1>10, <1>11, <1>12, <2>1, DeliverCopies
<1>14. ArrivedOnce(net', arrived', queue', sent')
  BY <1>2, <1>4, <1>13 DEF CopyInv, ArrivedOnce
<1>15. \A k \in DOMAIN sent' : sent'[k].dst \in Asked(net')
  BY <1>1, <1>2, <1>4 DEF CopyInv
<1>16. /\ users' = [a \in AP |-> users'[a]] /\ UsersLead(net', users')
       /\ PendingHome(net', pending')
  BY <1>2 DEF CopyInv
<1> QED
  BY <1>2, <1>5, <1>13, <1>14, <1>15, <1>16 DEF CopyInv

\* What a node sends of its own accord, and no packet.
LEMMA OwnSends ==
  ASSUME JourneyInv, CopyInv, NEW sends, Fits(sends, queue, sent),
         \A s \in sends : Nos(s.frame.image) = {}, queue' = Deliver(queue, sends)
  PROVE  /\ QueuesLand(net, queue', sent) /\ Unique(queue')
         /\ \A k : Free(queue, k) => Free(queue', k)
<1>1. QueuesLand(net, queue, sent) /\ Unique(queue) /\ \A i \in DOMAIN queue : IsSequence(queue[i])
  BY DEF CopyInv, JourneyInv, IntactQueue
<1> QED
  BY <1>1, DeliverCopies

LEMMA CopyAuthenticate ==
  ASSUME Unicast(net), JourneyInv, CopyInv, NEW h \in Host, Authenticate(h)
  PROVE  CopyInv'
<1> DEFINE port == Via(Here.host[h].ap_mac, 0)
           sends == Signal(h, port, RID(0, 0), "request", h, FALSE)
<1>1. queue' = Deliver(queue, sends) /\ UNCHANGED <<net, users, pending, sent, arrived>>
  BY DEF Authenticate
<1>2. port.iface = 0 /\ port.mac = Network[net].host[h].ap_mac
  BY DEF Via, Here
<1> HIDE DEF port
<1>3. Leads(net, <<h, port.iface>>, port.mac, AP) /\ Owner(port.mac) \notin CR
  BY <1>2 DEF Unicast, Leads, AP, CR
<1>4. Fits(sends, queue, sent) /\ \A s \in sends : Nos(s.frame.image) = {}
  BY <1>2, <1>3, RequestFits
<1> HIDE DEF sends
<1>5. /\ QueuesLand(net, queue', sent) /\ Unique(queue')
      /\ \A k : Free(queue, k) => Free(queue', k)
  BY <1>1, <1>4, OwnSends
<1>6. PendingHome(net, pending')
  BY <1>1 DEF CopyInv
<1> QED
  BY <1>1, <1>5, <1>6, SameTables, SameArrivals

\* The AP keeps a user that is its own.
LEMMA CopyAPTimeout ==
  ASSUME Unicast(net), JourneyInv, CopyInv, NEW a \in AP, APTimeout(a)
  PROVE  CopyInv'
<1> DEFINE h == pending[a]
           sends == Answer(a, h, FALSE)
           aid == Here.host[h].aid
           row == [u \in DOMAIN users[a] \cup {aid} |-> IF u = aid THEN <<h, 0>> ELSE users[a][u]]
<1>1. /\ h # None /\ users' = [users EXCEPT ![a] = row]
      /\ queue' = Deliver(queue, sends) /\ pending' = [pending EXCEPT ![a] = None]
      /\ UNCHANGED <<net, sent, arrived>>
  BY DEF APTimeout
<1>2. SignalsOnly(sends)
  BY ResponseOnly DEF Answer, Signal
<1>3. /\ QueuesLand(net, queue', sent) /\ Unique(queue')
      /\ \A k : Free(queue, k) => Free(queue', k)
  <2> HIDE DEF sends
  <2> QED
    BY <1>1, <1>2, SignalsFit, OwnSends
<1>4. h \in Host /\ Owner(Network[net].host[h].ap_mac) = a
  BY <1>1 DEF JourneyInv, CopyInv, PendingHome
<1>5. Leads(net, <<a, 0>>, <<h, 0>>, {Addressee(net, aid)})
  BY <1>4 DEF Unicast, Here
<1>6. /\ row[aid] = <<h, 0>>
      /\ \A v \in DOMAIN row : v # aid => v \in DOMAIN users[a] /\ row[v] = users[a][v]
  OBVIOUS
<1> HIDE DEF h, aid, row
<1>7. users' = [b \in AP |-> users'[b]]
  BY <1>1 DEF CopyInv
<1>8. UsersLead(net, users')
  <2> SUFFICES ASSUME NEW b \in AP, NEW u \in Asked(net) \cap DOMAIN users'[b]
               PROVE  Leads(net, <<b, 0>>, users'[b][u], {Addressee(net, u)})
    BY DEF UsersLead
  <2>1. CASE b # a
    BY <1>1, <2>1 DEF CopyInv, UsersLead
  <2>2. CASE b = a
    <3>1. users'[b] = row
      BY <1>1, <2>2 DEF CopyInv
    <3>2. CASE u = aid
      BY <1>5, <1>6, <2>2, <3>1, <3>2
    <3>3. CASE u # aid
      BY <1>6, <2>2, <3>1, <3>3 DEF CopyInv, UsersLead
    <3> QED
      BY <3>2, <3>3
  <2> QED
    BY <2>1, <2>2
<1>9. PendingHome(net, pending')
  BY <1>1 DEF CopyInv, PendingHome, JourneyInv
<1> QED
  BY <1>1, <1>3, <1>7, <1>8, <1>9, SameArrivals

\* A turn of a router, the CS or an AP.
LEMMA CopyTurn ==
  ASSUME JourneyInv, CopyInv, NEW i \in DOMAIN queue, NEW nodes, NEW sends,
         Turn(i, nodes, sends), Fits(sends, Rest(i), sent),
         \A s \in sends : Nos(s.frame.image) \subseteq Nos(Head(queue[i])),
         UNCHANGED <<net, users, sent, arrived>>, PendingHome(net, pending')
  PROVE  CopyInv'
BY TurnCopies, SameTables, SameArrivals

\* A packet that comes out is at the node it is for, for the first time, and gone.
LEMMA CopyEndTurn ==
  ASSUME JourneyInv, CopyInv, NEW i \in DOMAIN queue, Ready(i), EndTurn(i)
  PROVE  CopyInv'
<1> DEFINE w == Head(queue[i])
           n == Owner(i)
<1>1. /\ Turn(i, Ends, {}) /\ UNCHANGED <<net, users, pending, sent>>
      /\ IsAidFrame(w) => Arrives(n, w)
      /\ ~IsAidFrame(w) => arrived' = arrived
  BY DEF EndTurn, Ends
<1>2. Fits({}, Rest(i), sent)
  BY DEF Fits
<1>3. /\ QueuesLand(net, queue', sent) /\ Unique(queue')
      /\ \A k : Free(queue, k) => Free(queue', k)
      /\ \A k \in Nos(w) : Free(queue', k)
  BY <1>1, <1>2, TurnCopies
<1>4. PendingHome(net, pending')
  BY <1>1 DEF CopyInv
<1>5. CASE ~IsAidFrame(w)
  BY <1>1, <1>3, <1>4, <1>5, SameTables, SameArrivals
<1>6. CASE IsAidFrame(w)
  <2> DEFINE k0 == w.packet.no
  <2>1. AidImage(w, sent)
    BY <1>6, HeadIsImage, FrameByType DEF PackedImage
  <2>2. /\ PacketOf(w) = {w.packet} /\ Lands(net, w, i, sent)
        /\ \A k : Free(queue, k) => k \notin Nos(w)
    BY <2>1, AidRoundTrip, RestCopies DEF PacketOf
  <2>3. n \in Ends
    BY <1>1 DEF Turn
  <2>4. k0 \in DOMAIN sent /\ n = Addressee(net, sent[k0].dst)
    BY <2>2, <2>3 DEF Lands
  <2>5. ~Free(queue, k0) /\ Free(queue', k0)
    BY <1>3, <2>2 DEF Nos
  <2>6. arrived' = [arrived EXCEPT ![k0][n] = Min({@ + 1, 2})]
    BY <1>1, <1>6, <2>1, AidRoundTrip DEF Arrives
  <2> HIDE DEF w, n, k0
  <2>7. k0 \in 1..MaxRequests[net] /\ n \in Node
    <3>1. sent \in Seq(Range(sent)) /\ Len(sent) <= MaxRequests[net] /\ net \in Nets
      BY DEF JourneyInv, CopyInv, IsSequence
    <3>2. Len(sent) \in Nat /\ DOMAIN sent = 1..Len(sent) /\ MaxRequests[net] \in Nat
      BY <3>1, LenProperties, JourneyAssumption
    <3>3. n \in Node
      BY <2>3 DEF Ends, Node
    <3> QED
      BY <2>4, <3>1, <3>2, <3>3
  <2>8. arrived \in [1..MaxRequests[net] -> [Node -> {0, 1}]] /\ arrived[k0][n] = 0
    BY <2>5, <2>7 DEF CopyInv, ArrivedOnce
  <2>9. Min({arrived[k0][n] + 1, 2}) = 1
    <3>1. arrived[k0][n] + 1 = 1
      BY <2>8
    <3>2. Min({1, 2}) = 1
      BY DEF Min
    <3> QED
      BY <3>1, <3>2
  <2>10. arrived' = [arrived EXCEPT ![k0] = [arrived[k0] EXCEPT ![n] = 1]]
    BY <2>6, <2>7, <2>8, <2>9
  <2>11. ArrivedOnce(net', arrived', queue', sent')
    <3>1. arrived' \in [1..MaxRequests[net] -> [Node -> {0, 1}]]
      BY <2>7, <2>8, <2>10
    <3>2. ASSUME NEW k \in DOMAIN arrived', NEW m \in Node, arrived'[k][m] # 0
          PROVE  /\ k \in DOMAIN sent /\ m = Addressee(net, sent[k].dst)
                 /\ Free(queue', k)
      <4>1. CASE k = k0 /\ m = n
        BY <2>4, <2>5, <4>1
      <4>2. CASE ~(k = k0 /\ m = n)
        <5>1. k \in DOMAIN arrived /\ arrived[k][m] # 0
          BY <2>7, <2>8, <2>10, <3>2, <4>2
        <5>2. k \in DOMAIN sent /\ m = Addressee(net, sent[k].dst) /\ Free(queue, k)
          BY <5>1 DEF CopyInv, ArrivedOnce
        <5> QED
          BY <1>3, <5>2
      <4> QED
        BY <4>1, <4>2
    <3> QED
      BY <1>1, <3>1, <3>2 DEF ArrivedOnce
  <2>12. users' = [a \in AP |-> users'[a]] /\ UsersLead(net, users')
    BY <1>1, SameTables
  <2> QED
    BY <1>1, <1>3, <1>4, <2>11, <2>12 DEF CopyInv
<1> QED
  BY <1>5, <1>6

\* What is forwarded: the frame's own packet or request.
LEMMA ForwardFits ==
  ASSUME JourneyInv, CopyInv, NEW i \in DOMAIN queue, Ready(i),
         SignalOf(Head(queue[i])) = "request" => Owner(i) \in CR,
         NEW sends, \E j : Goes(sends, Head(queue[i]), j, Onward(net, Head(queue[i])))
  PROVE  /\ Fits(sends, Rest(i), sent)
         /\ \A s \in sends : Nos(s.frame.image) \subseteq Nos(Head(queue[i]))
BY RestCopies, GoesFits

LEMMA HeadAsked ==
  ASSUME JourneyInv, CopyInv, NEW i \in DOMAIN queue, Ready(i)
  PROVE  \A p \in PacketOf(Head(queue[i])) : p.dst \in Asked(net)
<1>1. Lands(net, Head(queue[i]), i, sent) /\ \A k \in DOMAIN sent : sent[k].dst \in Asked(net)
  BY RestCopies DEF CopyInv
<1> QED
  BY <1>1 DEF Lands

LEMMA CopyRouterTurn ==
  ASSUME Unicast(net), JourneyInv, CopyInv, NEW i \in DOMAIN queue, Ready(i), RouterTurn(i)
  PROVE  CopyInv'
<1> DEFINE w == Head(queue[i])
           sends == CRSends(Owner(i), w)
<1>1. /\ Turn(i, CR, sends) /\ Owner(i) \in CR
      /\ UNCHANGED <<net, users, pending, sent, arrived>>
  BY DEF RouterTurn, Turn
<1>2. Image(w, sent) /\ Lands(net, w, i, sent) /\ \A p \in PacketOf(w) : p.dst \in Asked(net)
  BY HeadIsImage, RestCopies, HeadAsked DEF PackedImage
<1>3. SignalOf(w) = "request" => w.dst = RCS
  BY <1>1, <1>2 DEF Lands
<1> HIDE DEF w
<1>4. \E j : Goes(sends, w, j, Onward(net, w))
  BY <1>1, <1>2, <1>3, CRSendsGoes
<1> HIDE DEF sends
<1>5. Fits(sends, Rest(i), sent) /\ \A s \in sends : Nos(s.frame.image) \subseteq Nos(w)
  BY <1>1, <1>4, ForwardFits DEF w
<1>6. PendingHome(net, pending')
  BY <1>1 DEF CopyInv
<1> QED
  BY <1>1, <1>5, <1>6, CopyTurn DEF w

LEMMA CopyAPTurn ==
  ASSUME Unicast(net), JourneyInv, CopyInv, NEW i \in DOMAIN queue, Ready(i), APTurn(i)
  PROVE  CopyInv'
<1> DEFINE w == Head(queue[i])
           sends == APSends(Owner(i), w)
<1>1. /\ Turn(i, AP, sends) /\ Owner(i) \in AP /\ SignalOf(w) \in {"none", "aid"}
      /\ UNCHANGED <<net, users, pending, sent, arrived>>
  BY DEF APTurn, Turn
<1>2. Image(w, sent) /\ \A p \in PacketOf(w) : p.dst \in Asked(net)
  BY HeadIsImage, HeadAsked DEF PackedImage
<1>3. UsersLead(net, users) /\ PendingHome(net, pending')
  BY <1>1 DEF CopyInv
<1> HIDE DEF w
<1>4. \E j : Goes(sends, w, j, Onward(net, w))
  BY <1>1, <1>2, <1>3, APSendsGoes
<1> HIDE DEF sends
<1>5. Fits(sends, Rest(i), sent) /\ \A s \in sends : Nos(s.frame.image) \subseteq Nos(w)
  BY <1>1, <1>4, ForwardFits DEF w
<1> QED
  BY <1>1, <1>3, <1>5, CopyTurn DEF w

\* The AP passes on the request of a host of its own, to its router.
LEMMA CopyAPProxies ==
  ASSUME Unicast(net), JourneyInv, CopyInv, NEW i \in DOMAIN queue, Ready(i), APProxies(i)
  PROVE  CopyInv'
<1> DEFINE w == Head(queue[i])
           a == Owner(i)
           user == w.load.user
           sends == Signal(a, CRPort(a), RCS, "request", user, FALSE)
<1>1. /\ Turn(i, AP, sends) /\ a \in AP /\ SignalOf(w) = "request"
      /\ pending' = [pending EXCEPT ![a] = user]
      /\ UNCHANGED <<net, users, sent, arrived>>
  BY DEF APProxies, Turn
<1>2. a = Owner(Network[net].host[user].ap_mac)
  BY <1>1, RestCopies DEF Lands
<1> HIDE DEF w, a, user
<1>3. Leads(net, <<a, CRPort(a).iface>>, CRPort(a).mac, CR) /\ Owner(CRPort(a).mac) \notin AP
  BY <1>1, CRPortLeads DEF Leads, AP, CR
<1>4. Fits(sends, Rest(i), sent) /\ \A s \in sends : Nos(s.frame.image) = {}
  BY <1>3, RequestFits
<1>5. PendingHome(net, pending')
  BY <1>1, <1>2 DEF CopyInv, PendingHome, JourneyInv
<1> HIDE DEF sends
<1> QED
  BY <1>1, <1>4, <1>5, CopyTurn

LEMMA CopyLoopTurn ==
  ASSUME Unicast(net), JourneyInv, CopyInv, NEW i \in DOMAIN queue, LoopTurn(i)
  PROVE  CopyInv'
<1>1. Ready(i)
  BY DEF LoopTurn
<1>2. CASE CSTurn(i)
  <2> DEFINE asked == Requesters(Head(queue[i]))
             reply(u) == Reply(Head(queue[i]), u)
             replies == UNION {reply(u) : u \in asked}
  <2>1. Turn(i, {"cs"}, replies) /\ UNCHANGED <<net, users, pending, sent, arrived>>
    BY <1>2 DEF CSTurn
  <2>2. \A u : SignalsOnly(reply(u))
    BY ReplyOnly
  <2> HIDE DEF reply
  <2>3. SignalsOnly(replies)
    BY <2>2 DEF SignalsOnly
  <2> HIDE DEF replies, asked
  <2>4. PendingHome(net, pending')
    BY <2>1 DEF CopyInv
  <2> QED
    BY <2>1, <2>3, <2>4, SignalsFit, CopyTurn
<1>3. CASE APIgnores(i)
  <2>1. Turn(i, AP, {}) /\ UNCHANGED <<net, users, pending, sent, arrived>>
    BY <1>3 DEF APIgnores
  <2>2. Fits({}, Rest(i), sent) /\ PendingHome(net, pending')
    BY <2>1 DEF Fits, CopyInv
  <2> QED
    BY <2>1, <2>2, CopyTurn
<1> QED
  BY <1>1, <1>2, <1>3, CopyRouterTurn, CopyEndTurn, CopyAPTurn, CopyAPProxies DEF LoopTurn

\* A step that no packet, request or table is part of.
LEMMA CopyStutter ==
  ASSUME CopyInv, UNCHANGED <<net, queue, users, pending, sent, arrived>>
  PROVE  CopyInv'
BY SameTables, SameArrivals DEF CopyInv

LEMMA CopyInit ==
  ASSUME Init, Unicast(net)
  PROVE  CopyInv
<1>1. \A i \in DOMAIN queue : queue[i] = <<>>
  BY DEF Init
<1>2. <<>> \in Seq({}) /\ DOMAIN <<>> = {} /\ Range(<<>>) = {} /\ Len(<<>>) = 0
  BY DEF Range
<1>3. QueuesLand(net, queue, sent) /\ Unique(queue)
  BY <1>1, <1>2 DEF QueuesLand, Unique
<1>4. users = [a \in AP |-> users[a]] /\ UsersLead(net, users)
  <2>1. users = [a \in AP |-> Network[net].ap[a].users]
    BY DEF Init
  <2>2. users = [a \in AP |-> users[a]] /\ \A a \in AP : users[a] = Network[net].ap[a].users
    BY <2>1
  <2> QED
    BY <2>2 DEF UsersLead, Unicast, Asked
<1>5. PendingHome(net, pending)
  BY DEF Init, PendingHome
<1>6. Len(sent) <= MaxRequests[net] /\ \A k \in DOMAIN sent : sent[k].dst \in Asked(net)
  <2>1. MaxRequests[net] \in Nat
    BY JourneyAssumption DEF Init
  <2> QED
    BY <1>2, <2>1 DEF Init
<1>7. ArrivedOnce(net, arrived, queue, sent)
  <2>1. arrived = [k \in 1..MaxRequests[net] |-> [n \in Node |-> 0]]
    BY DEF Init
  <2> QED
    BY <2>1 DEF ArrivedOnce
<1> QED
  BY <1>3, <1>4, <1>5, <1>6, <1>7 DEF CopyInv

\* No step changes the deployment.
LEMMA SameNet ==
  ASSUME [Next]_vars
  PROVE  net' = net
<1>1. \A n, dst, size : Request(n, dst, size) => net' = net
  BY DEF Request
<1>2. \A h : Authenticate(h) \/ HostTimeout(h) \/ Override(h) => net' = net
  BY DEF Authenticate, HostTimeout, Override
<1>3. \A a : APTimeout(a) => net' = net
  BY DEF APTimeout
<1>4. \A i : RouterTurn(i) \/ EndTurn(i) => net' = net
  BY DEF RouterTurn, EndTurn
<1>5. \A i : CSTurn(i) \/ APTurn(i) => net' = net
  BY DEF CSTurn, APTurn
<1>6. \A i : APProxies(i) \/ APIgnores(i) => net' = net
  BY DEF APProxies, APIgnores
<1>7. \A i : LoopTurn(i) => net' = net
  BY <1>4, <1>5, <1>6 DEF LoopTurn
<1>8. CASE UNCHANGED vars
  BY <1>8 DEF vars
<1> QED
  BY <1>1, <1>2, <1>3, <1>7, <1>8 DEF Next

LEMMA CopyStep ==
  ASSUME Unicast(net), JourneyInv, CopyInv, [Next]_vars
  PROVE  CopyInv' /\ net' = net
<1>1. CASE \E r \in Requests[net], s \in Sizes : Request(r[1], r[2], s)
  BY <1>1, CopyRequest DEF Request
<1>2. ASSUME NEW h \in Host, Authenticate(h) \/ HostTimeout(h) \/ Override(h)
      PROVE  CopyInv' /\ net' = net
  <2>1. CASE Authenticate(h)
    BY <2>1, CopyAuthenticate DEF Authenticate
  <2>2. CASE HostTimeout(h) \/ Override(h)
    BY <2>2, CopyStutter DEF HostTimeout, Override
  <2> QED
    BY <1>2, <2>1, <2>2
<1>3. CASE \E a \in AP : APTimeout(a)
  BY <1>3, CopyAPTimeout DEF APTimeout
<1>4. CASE \E i \in DOMAIN queue : LoopTurn(i)
  <2>1. net' = net
    BY SameNet
  <2> QED
    BY <1>4, <2>1, CopyLoopTurn
<1>5. CASE UNCHANGED vars
  BY <1>5, CopyStutter DEF vars
<1> QED
  BY <1>1, <1>2, <1>3, <1>4, <1>5 DEF Next
-----------------------------------------------------------------------------
(* What it implies.                                                         *)

LEMMA InvOneCopy ==
  ASSUME JourneyInv, net \in Addressed => CopyInv
  PROVE  OneCopy
<1> SUFFICES ASSUME net \in Addressed, NEW k \in DOMAIN sent, NEW n \in Node
             PROVE  /\ arrived[k][n] <= 1
                    /\ arrived[k][n] > 0 => n = AddresseeOf(sent[k].dst)
  BY DEF OneCopy
<1>1. k \in 1..MaxRequests[net]
  <2>1. sent \in Seq(Range(sent)) /\ Len(sent) <= MaxRequests[net] /\ net \in Nets
    BY DEF JourneyInv, CopyInv, IsSequence
  <2>2. Len(sent) \in Nat /\ DOMAIN sent = 1..Len(sent) /\ MaxRequests[net] \in Nat
    BY <2>1, LenProperties, JourneyAssumption
  <2> QED
    BY <2>1, <2>2
<1>2. /\ arrived[k][n] \in {0, 1}
      /\ arrived[k][n] # 0 => n = Addressee(net, sent[k].dst)
  BY <1>1 DEF CopyInv, ArrivedOnce
<1> QED
  BY <1>2 DEF AddresseeOf

\* Where the addresses that the nodes are configured with lead to the right nodes, a
\* packet comes out once at most, and only at the node it is for, for any number of
\* requests, sizes and logins, whatever the users that APs add (the on_frame handlers).
THEOREM OneCopyAlways ==
  ASSUME \A n \in Nets \cap Addressed : Unicast(n)
  PROVE  JourneySpec => []OneCopy
<1> DEFINE Inv == JourneyInv /\ (net \in Addressed => CopyInv)
<1>1. Init => Inv
  <2> SUFFICES ASSUME Init PROVE Inv
    OBVIOUS
  <2>1. net \in Nets
    BY DEF Init
  <2> QED
    BY <2>1, JourneyInit, CopyInit
<1>2. Inv /\ [Next]_vars => Inv'
  <2> SUFFICES ASSUME Inv, [Next]_vars PROVE Inv'
    OBVIOUS
  <2>1. JourneyInv' /\ net \in Nets
    BY JourneyStep DEF JourneyInv
  <2>2. net' = net
    BY SameNet
  <2>3. net \in Addressed => CopyInv'
    BY <2>1, CopyStep
  <2> QED
    BY <2>1, <2>2, <2>3
<1>3. Inv => OneCopy
  BY InvOneCopy
<1> QED
  BY <1>1, <1>2, <1>3, PTL DEF JourneySpec
=============================================================================
