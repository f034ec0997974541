----------------------------- MODULE PacketCodec -----------------------------
(***************************************************************************)
(* The wire codec of src/src/packet.rs: EncryptedPacket::encode / decode   *)
(* (the 20-byte outer header) and Frame::len / encode / decode (the inner  *)
(* frame stream).  Byte strings are sequences of 0..255 and every integer *)
(* field is written and read big-endian with its width, so the model      *)
(* shows what the conversions do: truncation to a narrower field, the     *)
(* direction bit sharing the route's last byte, reads past the end.        *)
(*                                                                         *)
(* The state is the packet and the frame list under test; every step      *)
(* picks new ones from the sample sets, so a run checks the codec on all   *)
(* of them.  TLC integers are 32-bit, so 64-bit fields take sample values *)
(* below 2^31; their encoding still has 8 bytes.                           *)
(***************************************************************************)
EXTENDS Integers, Sequences, SequencesExt, TLC

CONSTANTS
    Routes,     \* sample routing keys
    Counters,   \* sample packet counters
    Payloads,   \* sample payloads (byte strings)
    Delays,     \* sample Ack delays
    MaxFrames   \* longest frame list under test

ASSUME PacketCodecAssumption == MaxFrames \in Nat

Bytes == 0..255

\* write_uN::<BigEndian>: the low w bytes of n, most significant first.
RECURSIVE BE(_, _)
BE(n, w) == IF w = 0 THEN <<>> ELSE BE(n \div 256, w - 1) \o <<n % 256>>

\* read_uN::<BigEndian>.
BEVal(bs) == FoldLeft(LAMBDA acc, b : acc * 256 + b, 0, bs)

\* The w bytes at position i, and whether the input still holds them.
Avail(bs, i, w) == i + w - 1 <= Len(bs)
Field(bs, i, w) == BEVal(SubSeq(bs, i, i + w - 1))

-----------------------------------------------------------------------------
(* EncryptedPacket.                                                        *)

Directions == {"I2R", "R2I"}

Packet(v, r, d, c, p) ==
    [version |-> v, route |-> r, direction |-> d, counter |-> c, payload |-> p]

\* The result of decode: Ok(packet) or Err(kind).
PktOk(p) == [ok |-> TRUE, pkt |-> p, err |-> "none"]
PktErr(e) == [ok |-> FALSE, pkt |-> "none", err |-> e]

\* encode: version, [0xff; 3], the route with bit 0 of its last byte set to
\* the direction, the counter, the payload.
EncryptedPacketEncode(p) ==
    LET r == BE(p.route, 8)
        last == r[8] - (r[8] % 2) + (IF p.direction = "R2I" THEN 1 ELSE 0)
    IN  <<p.version>> \o <<255, 255, 255>> \o [r EXCEPT ![8] = last]
          \o BE(p.counter, 8) \o p.payload

\* Mutant: the direction is read but not masked out of the route.
EncryptedPacketDecodeNoMask(bs) ==
    IF ~Avail(bs, 1, 20) THEN PktErr("Io")
    ELSE IF bs[1] # 8 \/ SubSeq(bs, 2, 4) # <<255, 255, 255>>
         THEN PktErr("InvalidVersion")
    ELSE PktOk(Packet(bs[1], Field(bs, 5, 8),
                      IF bs[12] % 2 = 1 THEN "R2I" ELSE "I2R",
                      Field(bs, 13, 8), SubSeq(bs, 21, Len(bs))))

\* decode: the reads of the header fail (an io error) on a short input,
\* before the version and reserved bytes are checked; the direction is
\* bit 0 of the route's last byte, masked out before the route is read.
EncryptedPacketDecode(bs) ==
    IF ~Avail(bs, 1, 20) THEN PktErr("Io")
    ELSE IF bs[1] # 8 \/ SubSeq(bs, 2, 4) # <<255, 255, 255>>
         THEN PktErr("InvalidVersion")
    ELSE LET route == [SubSeq(bs, 5, 12) EXCEPT ![8] = @ - (@ % 2)]
         IN  PktOk(Packet(bs[1], BEVal(route),
                          IF bs[12] % 2 = 1 THEN "R2I" ELSE "I2R",
                          Field(bs, 13, 8), SubSeq(bs, 21, Len(bs))))

-----------------------------------------------------------------------------
(* Frame.                                                                  *)

NoTimeout == -1

Header(s, p) == [type |-> "Header", stream |-> s, payload |-> p]
StreamFrame(s, o, p) == [type |-> "Stream", stream |-> s, order |-> o, payload |-> p]
Ack(d, a) == [type |-> "Ack", delay |-> d, acked |-> a]
Ping == [type |-> "Ping"]
Disconnect == [type |-> "Disconnect"]
Close(s, o) == [type |-> "Close", stream |-> s, order |-> o]
Config(t, sl) == [type |-> "Config", timeout |-> t, sleeping |-> sl]

\* Mutant: a Config's length leaves out the timeout.
FrameLenNoTimeout(f) ==
    CASE f.type = "Header" -> 1 + 4 + 2 + Len(f.payload)
      [] f.type = "Stream" -> 1 + 4 + 8 + 2 + Len(f.payload)
      [] f.type = "Ack"    -> 1 + 2 + 2 + 8 * Len(f.acked)
      [] f.type \in {"Ping", "Disconnect"} -> 1
      [] f.type = "Close"  -> 1 + 4 + 8
      [] f.type = "Config" -> 1 + 1 + 2

\* Frame::len.
FrameLen(f) ==
    CASE f.type = "Header" -> 1 + 4 + 2 + Len(f.payload)
      [] f.type = "Stream" -> 1 + 4 + 8 + 2 + Len(f.payload)
      [] f.type = "Ack"    -> 1 + 2 + 2 + 8 * Len(f.acked)
      [] f.type \in {"Ping", "Disconnect"} -> 1
      [] f.type = "Close"  -> 1 + 4 + 8
      [] f.type = "Config" -> 1 + 1 + 2 + (IF f.timeout # NoTimeout THEN 2 ELSE 0)

\* Frame::encode.  Ack writes `*delay as u16` and the acked list sorted.
FrameEncode(f) ==
    CASE f.type = "Header" ->
            <<4>> \o BE(f.stream, 4) \o BE(Len(f.payload), 2) \o f.payload
      [] f.type = "Stream" ->
            <<5>> \o BE(f.stream, 4) \o BE(f.order, 8) \o BE(Len(f.payload), 2)
              \o f.payload
      [] f.type = "Ack" ->
            LET a == SortSeq(f.acked, <)
            IN  <<1>> \o BE(f.delay % 2^16, 2) \o BE(Len(a), 2)
                  \o FlattenSeq([i \in 1..Len(a) |-> BE(a[i], 8)])
      [] f.type = "Ping" -> <<2>>
      [] f.type = "Disconnect" -> <<3>>
      [] f.type = "Close" ->
            <<6>> \o BE(f.stream, 4) \o BE(f.order, 8)
      [] f.type = "Config" ->
            LET timed == f.timeout # NoTimeout
                flags == (IF timed THEN 128 ELSE 0) + (IF f.sleeping THEN 64 ELSE 0)
            IN  <<7, flags>> \o BE(IF timed THEN 2 ELSE 0, 2)
                  \o (IF timed THEN BE(f.timeout, 2) ELSE <<>>)

\* The frames of a packet body, one after the other.
FramesEncode(fs) == FlattenSeq([i \in 1..Len(fs) |-> FrameEncode(fs[i])])

\* The result of Frame::decode: Ok(frames) or Err(kind).
FrOk(fs) == [ok |-> TRUE, frames |-> fs, err |-> "none"]
FrErr(e) == [ok |-> FALSE, frames |-> <<>>, err |-> e]

\* The decoders of the tagged frames: the frame whose tag is at i, and the
\* index after it, when the body is complete.  An incomplete body is a
\* failed read (`?`), the io error "Io".
Decoded(f, next) == [ok |-> TRUE, frame |-> f, next |-> next]

DecodeAck(bs, i) ==
    IF ~Avail(bs, i + 1, 4) THEN FrErr("Io") ELSE
    LET n == Field(bs, i + 3, 2) IN
    IF ~Avail(bs, i + 5, 8 * n) THEN FrErr("Io") ELSE
    Decoded(Ack(Field(bs, i + 1, 2),
                [k \in 1..n |-> Field(bs, i + 5 + 8 * (k - 1), 8)]),
            i + 5 + 8 * n)

DecodeHeader(bs, i) ==
    IF ~Avail(bs, i + 1, 6) THEN FrErr("Io") ELSE
    LET n == Field(bs, i + 5, 2) IN
    IF ~Avail(bs, i + 7, n) THEN FrErr("Io") ELSE
    Decoded(Header(Field(bs, i + 1, 4), SubSeq(bs, i + 7, i + 6 + n)), i + 7 + n)

\* Mutant: the order is read before the stream id.
DecodeStreamSwapped(bs, i) ==
    IF ~Avail(bs, i + 1, 14) THEN FrErr("Io") ELSE
    LET n == Field(bs, i + 13, 2) IN
    IF ~Avail(bs, i + 15, n) THEN FrErr("Io") ELSE
    Decoded(StreamFrame(Field(bs, i + 9, 4), Field(bs, i + 1, 8),
                        SubSeq(bs, i + 15, i + 14 + n)),
            i + 15 + n)

DecodeStream(bs, i) ==
    IF ~Avail(bs, i + 1, 14) THEN FrErr("Io") ELSE
    LET n == Field(bs, i + 13, 2) IN
    IF ~Avail(bs, i + 15, n) THEN FrErr("Io") ELSE
    Decoded(StreamFrame(Field(bs, i + 1, 4), Field(bs, i + 5, 8),
                        SubSeq(bs, i + 15, i + 14 + n)),
            i + 15 + n)

DecodeClose(bs, i) ==
    IF ~Avail(bs, i + 1, 12) THEN FrErr("Io") ELSE
    Decoded(Close(Field(bs, i + 1, 4), Field(bs, i + 5, 8)), i + 13)

\* Config: flags, datalen, then datalen bytes; the timeout is read from
\* those bytes when bit 7 is set, bit 6 is sleeping.
DecodeConfig(bs, i) ==
    IF ~Avail(bs, i + 1, 3) THEN FrErr("Io") ELSE
    LET flags == bs[i + 1]
        n == Field(bs, i + 2, 2)
        timed == flags >= 128
    IN  IF ~Avail(bs, i + 4, n) \/ (timed /\ n < 2) THEN FrErr("Io") ELSE
        Decoded(Config(IF timed THEN Field(bs, i + 4, 2) ELSE NoTimeout,
                       (flags \div 64) % 2 = 1),
                i + 4 + n)

\* The match on the tag byte.
DecodeOne(bs, i) ==
    CASE bs[i] = 1 -> DecodeAck(bs, i)
      [] bs[i] = 2 -> Decoded(Ping, i + 1)
      [] bs[i] = 3 -> Decoded(Disconnect, i + 1)
      [] bs[i] = 4 -> DecodeHeader(bs, i)
      [] bs[i] = 5 -> DecodeStream(bs, i)
      [] bs[i] = 6 -> DecodeClose(bs, i)
      [] bs[i] = 7 -> DecodeConfig(bs, i)
      [] OTHER -> FrErr("InvalidFrameType")

\* Mutant: a failed read inside a frame also ends the list successfully.
RECURSIVE DecodeFromEofOk(_, _, _)
DecodeFromEofOk(bs, i, fs) ==
    IF i > Len(bs) THEN FrOk(fs)
    ELSE IF bs[i] = 0 THEN DecodeFromEofOk(bs, i + 1, fs)
    ELSE LET d == DecodeOne(bs, i)
         IN  IF ~d.ok THEN (IF d.err = "Io" THEN FrOk(fs) ELSE d)
             ELSE DecodeFromEofOk(bs, d.next, Append(fs, d.frame))

\* Frame::decode from index i, with the frames fs read so far: the end of
\* the input at a tag ends the list, tag 0x00 is skipped.
RECURSIVE DecodeFrom(_, _, _)
DecodeFrom(bs, i, fs) ==
    IF i > Len(bs) THEN FrOk(fs)
    ELSE IF bs[i] = 0 THEN DecodeFrom(bs, i + 1, fs)
    ELSE LET d == DecodeOne(bs, i)
         IN  IF ~d.ok THEN d
             ELSE DecodeFrom(bs, d.next, Append(fs, d.frame))

FrameDecode(bs) == DecodeFrom(bs, 1, <<>>)

-----------------------------------------------------------------------------
(* The inputs under test.                                                  *)

Packets ==
    {Packet(v, r, d, c, p) : v \in {8, 9}, r \in Routes, d \in Directions,
                             c \in Counters, p \in Payloads}

AckLists == {<<>>} \cup {<<a, b>> : a, b \in Counters}

SampleFrames ==
    {Header(s, p) : s \in Counters, p \in Payloads}
    \cup {StreamFrame(s, o, p) : s, o \in Counters, p \in Payloads}
    \cup {Ack(d, a) : d \in Delays, a \in AckLists}
    \cup {Ping, Disconnect}
    \cup {Close(s, o) : s, o \in Counters}
    \cup {Config(t, sl) : t \in {NoTimeout, 300}, sl \in BOOLEAN}

FrameLists == UNION {[1..n -> SampleFrames] : n \in 0..MaxFrames}

VARIABLES
    pkt,   \* the EncryptedPacket encoded and decoded
    fs     \* the frames of one packet body

cvars == <<pkt, fs>>

CodecInit == pkt \in Packets /\ fs = <<>>

\* Another packet, or another frame list, goes through the codec.
NewPacket == pkt' \in Packets /\ UNCHANGED fs
NewFrames == fs' \in FrameLists /\ UNCHANGED pkt

CodecNext == NewPacket \/ NewFrames

CodecSpec == CodecInit /\ [][CodecNext]_cvars

-----------------------------------------------------------------------------
(* Properties.                                                             *)

\* EncryptedPacket::decode inverts encode, except that the direction bit
\* overwrites bit 0 of the route (spec.md: the recovered route is R & !1),
\* and a packet of another version is refused after its header is read.
PacketRoundTrip ==
    EncryptedPacketDecode(EncryptedPacketEncode(pkt)) =
        IF pkt.version = 8
        THEN PktOk([pkt EXCEPT !.route = @ - (@ % 2)])
        ELSE PktErr("InvalidVersion")

\* A frame as the peer decodes it: Frame::encode sends the acked list sorted.
Sent(f) == IF f.type = "Ack" THEN [f EXCEPT !.acked = SortSeq(@, <)] ELSE f

\* Frame::decode of the encoded frames gives back the frames sent, in order,
\* with every field: the layouts of encode and decode agree.
FramesRoundTrip ==
    FrameDecode(FramesEncode(fs)) = FrOk([i \in 1..Len(fs) |-> Sent(fs[i])])

\* Frame::len, which the channel uses to size a packet, is the number of
\* bytes Frame::encode writes.
FrameLenMatches ==
    \A i \in 1..Len(fs) : FrameLen(fs[i]) = Len(FrameEncode(fs[i]))

\* A frame body cut short is refused by Frame::decode, except where the cut
\* falls between two frames: there decode succeeds with the frames before
\* the cut: the frames the whole body decodes to, up to the cut.  So a
\* datagram truncated at a frame boundary loses its last frames without an
\* error.
TruncatedDecode ==
    LET bs == FramesEncode(fs)
        ends == {Len(FramesEncode(SubSeq(fs, 1, j))) : j \in 0..Len(fs)}
    IN  \A k \in 0..Len(bs) :
          LET r == FrameDecode(SubSeq(bs, 1, k)) IN
          /\ r.ok <=> k \in ends
          /\ r.ok => r.frames = SubSeq(FrameDecode(bs).frames, 1, Len(r.frames))

=============================================================================
