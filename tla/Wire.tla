-------------------------------- MODULE Wire ---------------------------------
(***************************************************************************)
(* Packets as bytes (src/src/common/packets.py, serializer.py and          *)
(* ethernet.py): how long their images are, when struct.pack raises, and   *)
(* what deserialize makes of an image.  Payload bytes are not modelled,    *)
(* only how many there are.                                                *)
(***************************************************************************)
EXTENDS Integers, FiniteSetsExt

\* The header structs, and the "H" (unsigned short) of their payload lengths.
AidHeader == 40
RidHeader == 24
MaxLength == 65535

\* struct.pack raises struct.error when the length does not fit its field.
Packs(length) == length <= MaxLength

\* AIDPacket(source_aid, destination_aid, payload, ttl); no stands for the payload.
AidPacket(no, dst, ttl, size) == [no |-> no, dst |-> dst, ttl |-> ttl, size |-> size]

\* AIDPacket.serialize: the image of packet p, with its length field and its bytes.
SerializeAid(p) == [type |-> "aid", packet |-> p, length |-> p.size,
                    bytes |-> AidHeader + p.size]

\* Mutant: the payload ends at payload_len, header not counted (data[40:payload_len]).
DeserializeFromStart(w) ==
  [w.packet EXCEPT !.size = Max({Min({w.length, w.bytes}) - AidHeader, 0})]

\* AIDPacket.deserialize: the payload is what the length field says, as far as there
\* are bytes.
DeserializeAid(w) ==
  [w.packet EXCEPT !.size = Min({w.length, w.bytes - AidHeader})]

\* RIDPacket.serialize of a packet with payload load, an AID image or a signal.
SerializeRid(dst, space, ttl, load) ==
  [type |-> "rid", dst |-> dst, space |-> space, ttl |-> ttl, load |-> load,
   length |-> load.bytes, bytes |-> RidHeader + load.bytes]

\* RIDPacket.deserialize, with the payload as its own image.
DeserializeRid(w) ==
  [dst |-> w.dst, space |-> w.space, ttl |-> w.ttl,
   load |-> [w.load EXCEPT !.bytes = Min({w.length, w.bytes - RidHeader})]]

\* EthernetFrame.from_aid_packet and from_rid_packet: an image addressed to mac.
FrameFor(image, mac) == [mac |-> mac, image |-> image]

\* encode_signal: JSON text of some hundred bytes.  The source_rid of the RID packet,
\* which is read only when it carries a signal, is kept with the signal.
SignalBytes == 200
EncodeSignal(type, user, success, source) ==
  [type |-> type, user |-> user, success |-> success, source |-> source, bytes |-> SignalBytes]

\* DataType.CONTROL_SIGNALING marks the RID packets that carry a signal.
IsControl(rid) == rid.load.type # "aid"

\* Mutant: the last hop still forwards.
AliveAtOne(p) == p.ttl >= 1

\* EthernetFrame.is_aid, by its ethertype; anything else is a RID frame.
IsAidFrame(w) == w.type = "aid"

\* decrement_ttl: False for the last hop, else one less.
Alive(p) == p.ttl > 1
Decremented(p) == [p EXCEPT !.ttl = @ - 1]
=============================================================================
