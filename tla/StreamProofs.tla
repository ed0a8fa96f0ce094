---------------------------- MODULE StreamProofs ----------------------------
(***************************************************************************)
(* Proofs about Stream: for every set of packets and every size of reads   *)
(* the connection implements WatchDialogue.  The argument is alignment:    *)
(* `cut' is always where a packet starts, so the header read there is that *)
(* of the packet the watch sent, and what is cut is its body.              *)
(***************************************************************************)
EXTENDS Stream, SequenceTheorems, TLAPS

LEMMA HeaderRoundTrip ==
    ASSUME NEW n \in Nat, n < MaxLength
    PROVE  /\ Header(n) \in Seq(Byte) /\ Len(Header(n)) = 3
           /\ Declared(Header(n)) = n
  BY DEF Header, Declared, Byte, MaxLength

LEMMA ReplyIsNat ==
    ASSUME NEW b, NEW s, Dispatched(b)
    PROVE  ReplyTo(b, s) \in Nat
  <1> DEFINE t == TypeOf(b)
  <1>1. message_dispatcher[t].code \in Nat
    BY DEF Dispatched, message_dispatcher, PingHandler, LocationHandler, LoginHandler,
       StatusHandler, CallsHandler, SmsHandler, ChatHandler, GeneralHandler, Inflated, General
  <1> QED BY <1>1 DEF ReplyTo

-----------------------------------------------------------------------------
(* The inductive invariant.                                                *)

\* Where the n-th packet after the first would start.
Position(n) == IF n < Len(sent) THEN starts[n + 1] ELSE Len(stream)

\* The packet with body b lies in s behind position p.
LiesIn(s, p, b) ==
    /\ p + 3 + Len(b) <= Len(s)
    /\ \A j \in 1 .. 3 : s[p + j] = Header(Len(b))[j]
    /\ \A j \in 1 .. Len(b) : s[p + 3 + j] = b[j]

Packet(i) ==
    /\ LiesIn(stream, starts[i], sent[i])
    /\ Position(i) = starts[i] + 3 + Len(sent[i])

Packed ==
    /\ Len(starts) = Len(sent)
    /\ Position(0) = 0
    /\ \A i \in 1 .. Len(sent) : Packet(i)

Aligned ==
    /\ at \in {"read", "loop"} => cut = Position(handled)
    /\ at = "handler" => /\ handled < Len(sent)
                         /\ body = sent[handled + 1]
                         /\ Dispatched(body)
                         /\ cut = Position(handled + 1)

IInv == TypeOK /\ Packed /\ Aligned

LEMMA BodyType ==
    ASSUME NEW b \in Bodies
    PROVE  b \in Seq(Byte) /\ Len(b) \in Nat /\ Len(b) < MaxLength
  BY StreamAssumption

LEMMA InitInv == Init => IInv
  <1> SUFFICES ASSUME Init PROVE IInv
    OBVIOUS
  <1>1. Len(sent) = 0 /\ Len(stream) = 0 /\ Len(starts) = 0
    BY DEF Init
  <1>2. TypeOK
    <2>1. got \in 0 .. Len(stream) /\ cut \in 0 .. got /\ handled \in 0 .. Len(sent)
      BY <1>1 DEF Init
    <2> QED BY <2>1, EmptySeq DEF Init, TypeOK
  <1> QED BY <1>1, <1>2 DEF Init, IInv, Packed, TypeOK, Aligned, Position

\* What the inner loop finds in front of the buffer is the next packet sent.
LEMMA NextPacket ==
    ASSUME IInv, at = "loop", Len(buffer) >= 3
    PROVE  /\ handled < Len(sent)
           /\ cut = starts[handled + 1]
           /\ PacketLength = 3 + Len(sent[handled + 1])
           /\ Len(buffer) = got - cut
           /\ Whole => /\ NextBody = sent[handled + 1]
                       /\ cut + PacketLength = Position(handled + 1)
                       /\ cut + PacketLength <= got
  <1> USE DEF IInv, TypeOK
  <1>1. Len(buffer) = got - cut /\ buffer \in Seq(Byte)
    BY DEF buffer, TypeOK
  <1>2. handled < Len(sent)
    BY <1>1 DEF Aligned, TypeOK, Position
  <1>3. cut = starts[handled + 1]
    BY <1>2 DEF Aligned, Position
  <1> DEFINE b == sent[handled + 1]
  <1>4. b \in Bodies /\ Packet(handled + 1)
    BY <1>2 DEF Packed
  <1>5. b \in Seq(Byte) /\ Len(b) \in Nat /\ Len(b) < MaxLength
    BY <1>4, BodyType
  <1>0. starts[handled + 1] \in Nat
    BY <1>2 DEF Packed
  <1>6. \A j \in 1 .. Len(buffer) : buffer[j] = stream[cut + j]
    BY <1>1 DEF buffer, TypeOK
  <1>7. PacketLength = 3 + Len(b)
    <2>1. SubSeq(buffer, 1, 3) = Header(Len(b))
      <3>0. Len(SubSeq(buffer, 1, 3)) = 3
        BY <1>1
      <3>1. ASSUME NEW j \in 1 .. 3
            PROVE  SubSeq(buffer, 1, 3)[j] = Header(Len(b))[j]
        <4>1. SubSeq(buffer, 1, 3)[j] = buffer[j]
          BY <1>1
        <4>2. j \in 1 .. Len(buffer)
          BY <1>1
        <4>3. stream[starts[handled + 1] + j] = Header(Len(b))[j]
          BY <1>4 DEF Packet, LiesIn
        <4> QED BY <4>1, <4>2, <4>3, <1>3, <1>6
      <3>2. Len(Header(Len(b))) = 3 /\ Header(Len(b)) \in Seq(Byte)
        BY <1>5, HeaderRoundTrip
      <3>3. SubSeq(buffer, 1, 3) \in Seq(Byte)
        BY <1>1
      <3> QED BY <3>0, <3>1, <3>2, <3>3, SeqEqual
    <2> QED BY <2>1, <1>5, HeaderRoundTrip DEF PacketLength
  <1>8. ASSUME Whole
        PROVE  NextBody = b /\ cut + PacketLength = Position(handled + 1)
               /\ cut + PacketLength <= got
    <2>1. Len(buffer) >= 3 + Len(b)
      BY <1>7, <1>8 DEF Whole
    <2>2. /\ Len(SubSeq(buffer, 4, 3 + Len(b))) = Len(b)
          /\ \A j \in 1 .. Len(b) : SubSeq(buffer, 4, 3 + Len(b))[j] = b[j]
      <3>1. Len(SubSeq(buffer, 4, 3 + Len(b))) = Len(b)
        BY <1>1, <1>5, <2>1
      <3>2. ASSUME NEW j \in 1 .. Len(b)
            PROVE  SubSeq(buffer, 4, 3 + Len(b))[j] = b[j]
        <4>1. SubSeq(buffer, 4, 3 + Len(b))[j] = buffer[3 + j]
          BY <1>1, <1>5, <2>1
        <4>2. buffer[3 + j] = stream[cut + 3 + j]
          BY <1>5, <1>6, <2>1
        <4>3. stream[starts[handled + 1] + 3 + j] = b[j]
          BY <1>4 DEF Packet, LiesIn
        <4> QED BY <4>1, <4>2, <4>3, <1>3
      <3> QED BY <3>1, <3>2
    <2>3. SubSeq(buffer, 4, 3 + Len(b)) \in Seq(Byte)
      BY <1>1, <1>5, <2>1
    <2>4. SubSeq(buffer, 4, 3 + Len(b)) = b
      BY <1>5, <2>2, <2>3, SeqEqual
    <2>5. NextBody = b
      BY <1>7, <2>4 DEF NextBody
    <2>6. cut + PacketLength = Position(handled + 1)
      <3>1. Position(handled + 1) = starts[handled + 1] + 3 + Len(b)
        BY <1>4 DEF Packet
      <3>2. starts[handled + 1] \in Nat /\ Len(b) \in Nat
        BY <1>0, <1>5
      <3> HIDE DEF IInv, TypeOK, b
      <3> QED BY <3>1, <3>2, <1>3, <1>7
    <2>7. cut + PacketLength <= got
      BY <1>1, <1>5, <1>7, <2>1 DEF TypeOK
    <2> QED BY <2>5, <2>6, <2>7
  <1> QED BY <1>1, <1>2, <1>3, <1>7, <1>8

-----------------------------------------------------------------------------
(* The invariant is inductive: one lemma per kind of step.                 *)

LEMMA Concatenation2 ==
    ASSUME NEW s \in Seq(Byte), NEW h \in Seq(Byte)
    PROVE  /\ s \o h \in Seq(Byte) /\ Len(s \o h) = Len(s) + Len(h)
           /\ \A j \in 1 .. Len(s) : (s \o h)[j] = s[j]
           /\ \A j \in 1 .. Len(h) : (s \o h)[Len(s) + j] = h[j]
  OBVIOUS

LEMMA Concatenation ==
    ASSUME NEW s \in Seq(Byte), NEW h \in Seq(Byte), NEW b \in Seq(Byte), Len(h) = 3
    PROVE  /\ s \o h \o b \in Seq(Byte)
           /\ Len(s \o h \o b) = Len(s) + 3 + Len(b)
           /\ \A j \in 1 .. Len(s) : (s \o h \o b)[j] = s[j]
           /\ \A j \in 1 .. 3 : (s \o h \o b)[Len(s) + j] = h[j]
           /\ \A j \in 1 .. Len(b) : (s \o h \o b)[Len(s) + 3 + j] = b[j]
  <1>1. /\ s \o h \in Seq(Byte) /\ Len(s \o h) = Len(s) + 3
        /\ \A j \in 1 .. Len(s) : (s \o h)[j] = s[j]
        /\ \A j \in 1 .. 3 : (s \o h)[Len(s) + j] = h[j]
    <2> DEFINE t == s \o h
    <2>1. /\ t \in Seq(Byte) /\ Len(t) = Len(s) + Len(h)
          /\ \A j \in 1 .. Len(s) : t[j] = s[j]
          /\ \A j \in 1 .. Len(h) : t[Len(s) + j] = h[j]
      BY Concatenation2
    <2> HIDE DEF t
    <2>2. /\ t \in Seq(Byte) /\ Len(t) = Len(s) + 3
          /\ \A j \in 1 .. Len(s) : t[j] = s[j]
          /\ \A j \in 1 .. 3 : t[Len(s) + j] = h[j]
      BY <2>1
    <2> QED BY <2>2 DEF t
  <1>2. Len(s) \in Nat /\ Len(b) \in Nat
    OBVIOUS
  <1> DEFINE t == s \o h
  <1>3. /\ t \o b \in Seq(Byte) /\ Len(t \o b) = Len(t) + Len(b)
        /\ \A j \in 1 .. Len(t) : (t \o b)[j] = t[j]
        /\ \A j \in 1 .. Len(b) : (t \o b)[Len(t) + j] = b[j]
    <2>1. t \in Seq(Byte)
      BY <1>1
    <2> HIDE DEF t
    <2> QED BY <2>1
  <1>4. t \in Seq(Byte) /\ Len(t) = Len(s) + 3
        /\ (\A j \in 1 .. Len(s) : t[j] = s[j])
        /\ (\A j \in 1 .. 3 : t[Len(s) + j] = h[j])
    BY <1>1
  <1> HIDE DEF t
  <1>5. \A j \in 1 .. Len(s) : (t \o b)[j] = s[j]
    BY <1>2, <1>3, <1>4
  <1>6. \A j \in 1 .. 3 : (t \o b)[Len(s) + j] = h[j]
    <2> TAKE j \in 1 .. 3
    <2>1. Len(s) + j \in 1 .. Len(t)
      BY <1>2, <1>4
    <2> QED BY <2>1, <1>3, <1>4
  <1>7. \A j \in 1 .. Len(b) : (t \o b)[Len(s) + 3 + j] = b[j]
    BY <1>2, <1>3, <1>4
  <1> QED BY <1>3, <1>4, <1>5, <1>6, <1>7 DEF t

\* Longer streams hold what shorter ones did.
LEMMA Lengthened ==
    ASSUME NEW s \in Seq(Byte), NEW t \in Seq(Byte), NEW p \in Nat, NEW b \in Seq(Byte),
           Len(s) <= Len(t), \A j \in 1 .. Len(s) : t[j] = s[j], LiesIn(s, p, b)
    PROVE  LiesIn(t, p, b)
  <1>1. Len(s) \in Nat /\ Len(t) \in Nat /\ Len(b) \in Nat /\ p + 3 + Len(b) <= Len(s)
    BY DEF LiesIn
  <1>2. \A j \in 1 .. 3 : t[p + j] = Header(Len(b))[j]
    <2> TAKE j \in 1 .. 3
    <2>1. p + j \in 1 .. Len(s)
      BY <1>1
    <2> QED BY <2>1 DEF LiesIn
  <1>3. \A j \in 1 .. Len(b) : t[p + 3 + j] = b[j]
    <2> TAKE j \in 1 .. Len(b)
    <2>1. p + 3 + j \in 1 .. Len(s)
      BY <1>1
    <2> QED BY <2>1 DEF LiesIn
  <1> QED BY <1>1, <1>2, <1>3 DEF LiesIn

LEMMA SendStream ==
    ASSUME IInv, NEW b \in Bodies, Send(b)
    PROVE  /\ stream' \in Seq(Byte)
           /\ Len(stream') = Len(stream) + 3 + Len(b)
           /\ \A j \in 1 .. Len(stream) : stream'[j] = stream[j]
           /\ LiesIn(stream', Len(stream), b)
  <1>1. b \in Seq(Byte) /\ Len(b) \in Nat /\ Len(b) < MaxLength
    BY BodyType
  <1>2. Header(Len(b)) \in Seq(Byte) /\ Len(Header(Len(b))) = 3
    BY <1>1, HeaderRoundTrip
  <1>3. stream \in Seq(Byte) /\ stream' = stream \o Header(Len(b)) \o b
    BY DEF IInv, TypeOK, Send
  <1> DEFINE h == Header(Len(b))
  <1>4. h \in Seq(Byte) /\ Len(h) = 3 /\ stream' = stream \o h \o b
    BY <1>2, <1>3
  <1> HIDE DEF h
  <1>5. /\ stream' \in Seq(Byte)
        /\ Len(stream') = Len(stream) + 3 + Len(b)
        /\ \A j \in 1 .. Len(stream) : stream'[j] = stream[j]
        /\ \A j \in 1 .. 3 : stream'[Len(stream) + j] = h[j]
        /\ \A j \in 1 .. Len(b) : stream'[Len(stream) + 3 + j] = b[j]
    <2> DEFINE t == stream \o h \o b
    <2>1. /\ t \in Seq(Byte)
          /\ Len(t) = Len(stream) + 3 + Len(b)
          /\ \A j \in 1 .. Len(stream) : t[j] = stream[j]
          /\ \A j \in 1 .. 3 : t[Len(stream) + j] = h[j]
          /\ \A j \in 1 .. Len(b) : t[Len(stream) + 3 + j] = b[j]
      BY <1>1, <1>3, <1>4, Concatenation
    <2>2. stream' = t
      BY <1>4
    <2> HIDE DEF t
    <2> QED BY <2>1, <2>2
  <1>6. Len(stream) + 3 + Len(b) <= Len(stream')
    BY <1>1, <1>3, <1>5
  <1>7. LiesIn(stream', Len(stream), b)
    BY <1>5, <1>6 DEF LiesIn, h
  <1> QED BY <1>5, <1>7

LEMMA SendInv ==
    ASSUME IInv, NEW b \in Bodies, Send(b)
    PROVE  IInv'
  <1>1. b \in Seq(Byte) /\ Len(b) \in Nat
    BY BodyType
  <1>2. TypeOK /\ Packed /\ Aligned
    BY DEF IInv
  <1>3. /\ sent \in Seq(Bodies) /\ starts \in Seq(Nat) /\ stream \in Seq(Byte)
        /\ Len(sent) \in Nat /\ Len(stream) \in Nat /\ Len(starts) = Len(sent)
        /\ cut \in Nat /\ got \in Nat /\ handled \in 0 .. Len(sent)
    BY <1>2 DEF TypeOK, Packed
  <1>4. /\ sent' = Append(sent, b) /\ starts' = Append(starts, Len(stream))
        /\ UNCHANGED <<hungup, got, cut, at, body, session, handled, replies>>
    BY DEF Send
  <1>6. /\ stream' \in Seq(Byte) /\ Len(stream') \in Nat
        /\ Len(stream') = Len(stream) + 3 + Len(b)
        /\ \A j \in 1 .. Len(stream) : stream'[j] = stream[j]
        /\ LiesIn(stream', Len(stream), b)
    BY SendStream
  <1>7. /\ Len(sent') = Len(sent) + 1 /\ Len(starts') = Len(starts) + 1
        /\ sent'[Len(sent) + 1] = b /\ starts'[Len(sent) + 1] = Len(stream)
        /\ \A i \in 1 .. Len(sent) : sent'[i] = sent[i] /\ starts'[i] = starts[i]
    BY <1>3, <1>4
  <1>8. TypeOK'
    <2>1. sent' \in Seq(Bodies) /\ starts' \in Seq(Nat)
      BY <1>3, <1>4
    <2>2. got \in 0 .. Len(stream) /\ cut \in 0 .. got
      BY <1>2 DEF TypeOK
    <2>3. got' \in 0 .. Len(stream') /\ cut' \in 0 .. got' /\ handled' \in 0 .. Len(sent')
      BY <2>2, <1>1, <1>3, <1>4, <1>6, <1>7
    <2> QED BY <2>1, <2>3, <1>2, <1>4, <1>6 DEF TypeOK
  <1>9. ASSUME NEW n \in 0 .. Len(sent)
        PROVE  Position(n)' = Position(n)
    <2>1. CASE n < Len(sent)
      <3>1. n + 1 \in 1 .. Len(sent) /\ n < Len(sent')
        BY <2>1, <1>3, <1>7
      <3>2. starts'[n + 1] = starts[n + 1]
        BY <3>1, <1>7
      <3> QED BY <2>1, <3>1, <3>2 DEF Position
    <2>2. CASE n = Len(sent)
      <3>1. ~(n < Len(sent)) /\ n < Len(sent')
        BY <2>2, <1>3, <1>7
      <3>2. starts'[n + 1] = Len(stream)
        BY <2>2, <1>7
      <3> QED BY <3>1, <3>2 DEF Position
    <2> QED BY <2>1, <2>2, <1>3
  <1>10. Packed'
    <2>1. Len(starts') = Len(sent')
      BY <1>3, <1>7
    <2>2. Position(0)' = 0
      <3>1. Position(0) = 0 /\ 0 \in 0 .. Len(sent)
        BY <1>2, <1>3 DEF Packed
      <3> QED BY <3>1, <1>9
    <2>3. ASSUME NEW i \in 1 .. Len(sent)
          PROVE  Packet(i)'
      <3>1. LiesIn(stream, starts[i], sent[i]) /\ Position(i) = starts[i] + 3 + Len(sent[i])
        BY <1>2 DEF Packed, Packet
      <3>2. sent'[i] = sent[i] /\ starts'[i] = starts[i]
        BY <1>7
      <3>3. i \in 0 .. Len(sent)
        BY <1>3
      <3>4. Position(i)' = Position(i)
        BY <3>3, <1>9
      <3>5. sent[i] \in Seq(Byte) /\ starts[i] \in Nat
        BY <1>3, BodyType
      <3>6. Len(stream) <= Len(stream')
        BY <1>1, <1>3, <1>6
      <3>7. LiesIn(stream', starts[i], sent[i])
        BY <3>1, <3>5, <3>6, <1>3, <1>6, Lengthened
      <3> QED BY <3>1, <3>2, <3>4, <3>7 DEF Packet
    <2>4. ASSUME NEW i, i = Len(sent) + 1
          PROVE  Packet(i)'
      <3>1. ~(i < Len(sent'))
        BY <1>3, <1>7, <2>4
      <3>2. Position(i)' = Len(stream) + 3 + Len(b)
        BY <3>1, <1>6 DEF Position
      <3> QED BY <2>4, <3>2, <1>6, <1>7 DEF Packet
    <2>5. \A i \in 1 .. Len(sent') : Packet(i)'
      <3> TAKE i \in 1 .. Len(sent')
      <3>1. CASE i \in 1 .. Len(sent)
        BY <3>1, <2>3
      <3>2. CASE i = Len(sent) + 1
        BY <3>2, <2>4
      <3> QED BY <3>1, <3>2, <1>3, <1>7
    <2> QED BY <2>1, <2>2, <2>5 DEF Packed
  <1>11. Aligned'
    <2>1. CASE at \in {"read", "loop"}
      BY <2>1, <1>2, <1>3, <1>4, <1>9 DEF Aligned
    <2>2. CASE at = "handler"
      <3>1. handled < Len(sent)
        BY <1>2, <2>2 DEF Aligned
      <3>2. handled + 1 \in 1 .. Len(sent) /\ handled + 1 \in 0 .. Len(sent)
        BY <3>1, <1>3
      <3>3. sent'[handled + 1] = sent[handled + 1]
        BY <3>2, <1>7
      <3>4. handled' = handled
        BY <1>4
      <3>5. Position(handled + 1)' = Position(handled + 1)
        BY <3>2, <3>4, <1>9
      <3>6. handled < Len(sent')
        BY <3>1, <1>3, <1>7
      <3> QED BY <2>2, <3>3, <3>5, <3>6, <1>2, <1>4 DEF Aligned
    <2>3. CASE at = "left"
      BY <2>3, <1>4 DEF Aligned
    <2> QED BY <2>1, <2>2, <2>3, <1>2 DEF TypeOK
  <1> QED BY <1>8, <1>10, <1>11 DEF IInv

\* The steps that leave alone what was sent.
LEMMA PackedStays ==
    ASSUME Packed, UNCHANGED network
    PROVE  Packed' /\ \A n : Position(n)' = Position(n)
  BY DEF Packed, Packet, Position, network

LEMMA NextBodyIsSent ==
    ASSUME IInv, at = "loop", Whole
    PROVE  /\ handled < Len(sent)
           /\ NextBody = sent[handled + 1] /\ NextBody \in Seq(Byte)
           /\ PacketLength \in Nat
           /\ cut + PacketLength = Position(handled + 1)
           /\ cut + PacketLength <= got
  <1>1. Len(buffer) >= 3
    BY DEF Whole
  <1>2. /\ handled < Len(sent) /\ PacketLength = 3 + Len(sent[handled + 1])
        /\ NextBody = sent[handled + 1]
        /\ cut + PacketLength = Position(handled + 1) /\ cut + PacketLength <= got
    BY <1>1, NextPacket
  <1>3. sent \in Seq(Bodies) /\ handled \in Nat
    BY DEF IInv, TypeOK
  <1>4. sent[handled + 1] \in Bodies
    BY <1>2, <1>3
  <1> QED BY <1>2, <1>4, BodyType

LEMMA ServerInv ==
    ASSUME IInv, UNCHANGED network, Server
    PROVE  IInv'
  <1>1. TypeOK /\ Packed /\ Aligned
    BY DEF IInv
  <1>2. Packed' /\ \A n : Position(n)' = Position(n)
    BY <1>1, PackedStays
  <1>3. /\ sent' = sent /\ stream' = stream /\ starts' = starts /\ hungup' = hungup
    BY DEF network
  <1>4. got \in Nat /\ cut \in Nat /\ handled \in Nat /\ Len(stream) \in Nat /\ Len(sent) \in Nat
    BY <1>1 DEF TypeOK
  <1>5. ASSUME NEW n \in 1 .. Len(stream) - got, Read(n)
        PROVE  IInv'
    <2>1. TypeOK'
      BY <1>1, <1>3, <1>4, <1>5 DEF TypeOK, Read
    <2>2. Aligned'
      BY <1>1, <1>2, <1>3, <1>5 DEF Aligned, Read
    <2> QED BY <2>1, <2>2, <1>2 DEF IInv
  <1>6. CASE ReadEOF
    <2>1. TypeOK'
      BY <1>1, <1>3, <1>6 DEF TypeOK, ReadEOF
    <2>2. Aligned'
      BY <1>6 DEF Aligned, ReadEOF
    <2> QED BY <2>1, <2>2, <1>2 DEF IInv
  <1>7. CASE AwaitMore
    <2>1. TypeOK'
      BY <1>1, <1>3, <1>7 DEF TypeOK, AwaitMore
    <2>2. Aligned'
      BY <1>1, <1>2, <1>7 DEF Aligned, AwaitMore
    <2> QED BY <2>1, <2>2, <1>2 DEF IInv
  <1>8. CASE CutShort
    <2>1. /\ handled < Len(sent) /\ PacketLength \in Nat
          /\ cut + PacketLength <= got
      BY <1>8, NextBodyIsSent DEF CutShort
    <2>2. TypeOK'
      BY <2>1, <1>1, <1>3, <1>4, <1>8 DEF TypeOK, CutShort, Consume
    <2>3. Aligned'
      BY <1>8 DEF Aligned, CutShort
    <2> QED BY <2>2, <2>3, <1>2 DEF IInv
  <1>9. CASE CutUnknown
    <2>1. /\ handled < Len(sent) /\ PacketLength \in Nat
          /\ cut + PacketLength = Position(handled + 1)
          /\ cut + PacketLength <= got
      BY <1>9, NextBodyIsSent DEF CutUnknown
    <2>2. TypeOK'
      BY <2>1, <1>1, <1>3, <1>4, <1>9 DEF TypeOK, CutUnknown, Consume
    <2>3. Aligned'
      BY <2>1, <1>2, <1>9 DEF Aligned, CutUnknown, Consume
    <2> QED BY <2>2, <2>3, <1>2 DEF IInv
  <1>10. CASE CutPacket
    <2>1. /\ handled < Len(sent) /\ PacketLength \in Nat
          /\ NextBody = sent[handled + 1] /\ NextBody \in Seq(Byte)
          /\ cut + PacketLength = Position(handled + 1)
          /\ cut + PacketLength <= got
      BY <1>10, NextBodyIsSent DEF CutPacket
    <2>2. TypeOK'
      BY <2>1, <1>1, <1>3, <1>4, <1>10 DEF TypeOK, CutPacket, Consume
    <2>3. Dispatched(body)'
      BY <1>10 DEF CutPacket, Dispatched, WellFormed, TypeOf
    <2>4. Aligned'
      BY <2>1, <2>3, <1>2, <1>3, <1>10 DEF Aligned, CutPacket, Consume
    <2> QED BY <2>2, <2>4, <1>2 DEF IInv
  <1>11. CASE Answer
    <2>1. at = "handler" /\ handled < Len(sent) /\ Dispatched(body)
          /\ cut = Position(handled + 1)
      BY <1>1, <1>11 DEF Answer, Aligned
    <2>2. ReplyTo(body, session) \in Nat
      BY <2>1, ReplyIsNat
    <2>3. TypeOK'
      BY <2>1, <2>2, <1>1, <1>3, <1>4, <1>11 DEF TypeOK, Answer
    <2>4. Aligned'
      BY <2>1, <1>2, <1>3, <1>11 DEF Aligned, Answer
    <2> QED BY <2>3, <2>4, <1>2 DEF IInv
  <1>12. CASE Fail
    <2>1. at = "handler" /\ handled < Len(sent)
      BY <1>1, <1>12 DEF Fail, Aligned
    <2>2. TypeOK'
      BY <2>1, <1>1, <1>3, <1>4, <1>12 DEF TypeOK, Fail
    <2>3. Aligned'
      BY <1>12 DEF Aligned, Fail
    <2> QED BY <2>2, <2>3, <1>2 DEF IInv
  <1> QED BY <1>5, <1>6, <1>7, <1>8, <1>9, <1>10, <1>11, <1>12 DEF Server

LEMMA NextInv == IInv /\ [Next]_vars => IInv'
  <1> SUFFICES ASSUME IInv, [Next]_vars PROVE IInv'
    OBVIOUS
  <1>1. TypeOK /\ Packed /\ Aligned
    BY DEF IInv
  <1>2. ASSUME NEW b \in Bodies, Send(b)
        PROVE  IInv'
    BY <1>2, SendInv
  <1>3. CASE Hangup
    BY <1>1, <1>3 DEF IInv, TypeOK, Packed, Packet, Position, Aligned, Hangup
  <1>4. CASE Reset
    <2>1. Packed'
      BY <1>1, <1>4, PackedStays DEF Reset
    <2>2. TypeOK' /\ Aligned'
      BY <1>1, <1>4 DEF TypeOK, Aligned, Reset, network
    <2> QED BY <2>1, <2>2 DEF IInv
  <1>5. CASE Server
    <2>1. UNCHANGED network
      BY <1>5 DEF Server, Read, ReadEOF, AwaitMore, CutShort, CutUnknown, CutPacket, Answer, Fail
    <2> QED BY <2>1, <1>5, ServerInv
  <1>6. CASE UNCHANGED vars
    BY <1>1, <1>6 DEF IInv, TypeOK, Packed, Packet, Position, Aligned, vars, network
  <1> QED BY <1>2, <1>3, <1>4, <1>5, <1>6 DEF Next

\* Every reachable state satisfies the invariant.
THEOREM Invariance == Spec => []IInv
  <1>1. Init => IInv
    BY InitInv
  <1>2. IInv /\ [Next]_vars => IInv'
    BY NextInv
  <1> QED BY <1>1, <1>2, PTL DEF Spec

\* Every variable keeps its type, whatever the packets and the reads are.
THEOREM TypeCorrect == Spec => []TypeOK
  <1>1. IInv => TypeOK
    BY DEF IInv
  <1> QED BY <1>1, Invariance, PTL

-----------------------------------------------------------------------------
(* The refinement: the watch's Send is Send, a closed connection is Hangup, *)
(* and a packet is disposed of by CutUnknown (Ignore), Answer (Answer) and  *)
(* CutShort and Fail (Refuse); every other step stutters.                   *)

\* WatchDialogue reads packets as Stream does.
LEMMA SameHandlers ==
    Dialogue!message_dispatcher = message_dispatcher
  BY DEF message_dispatcher, Dialogue!message_dispatcher,
       PingHandler, LocationHandler, LoginHandler, StatusHandler,
       CallsHandler, SmsHandler, ChatHandler, GeneralHandler, Inflated,
       General, WeatherAnswers, AppsAnswers, ContactsAnswers, Unreadable,
       Dialogue!PingHandler, Dialogue!LocationHandler, Dialogue!LoginHandler,
       Dialogue!StatusHandler, Dialogue!CallsHandler, Dialogue!SmsHandler,
       Dialogue!ChatHandler, Dialogue!GeneralHandler, Dialogue!Inflated,
       Dialogue!General, Dialogue!WeatherAnswers, Dialogue!AppsAnswers,
       Dialogue!ContactsAnswers, Dialogue!Unreadable

LEMMA SameProtocol ==
    ASSUME NEW b, NEW s
    PROVE  /\ Dialogue!WellFormed(b) = WellFormed(b)
           /\ Dialogue!Dispatched(b) = Dispatched(b)
           /\ Dialogue!Raises(b, s) = Raises(b, s)
           /\ Dialogue!ReplyTo(b, s) = ReplyTo(b, s)
           /\ Dialogue!LogsIn(b) = LogsIn(b)
  <1>1. /\ Dialogue!WellFormed(b) = WellFormed(b) /\ Dialogue!TypeOf(b) = TypeOf(b)
        /\ Dialogue!LogsIn(b) = LogsIn(b)
    BY DEF WellFormed, TypeOf, LogsIn, Dialogue!WellFormed, Dialogue!TypeOf, Dialogue!LogsIn
  <1>2. Dialogue!ContentOf(b) = ContentOf(b)
    BY DEF ContentOf, TypeOf, Decoded, Subtypes, General, Dialogue!ContentOf,
           Dialogue!TypeOf, Dialogue!Decoded, Dialogue!Subtypes, Dialogue!General
  <1> QED BY <1>1, <1>2, SameHandlers
          DEF Dispatched, Raises, ReplyTo, Dialogue!Dispatched, Dialogue!Raises, Dialogue!ReplyTo

LEMMA InitRefines == Init => Dialogue!Init
  BY DEF Init, Dialogue!Init

LEMMA Due ==
    ASSUME IInv, at # "left", handled < Len(sent), handled' = handled + 1, sent' = sent
    PROVE  Dialogue!Due
  BY DEF Dialogue!Due

LEMMA StepRefines ==
    ASSUME IInv, [Next]_vars
    PROVE  [Dialogue!Next]_(Dialogue!dialogue)
  <1>1. TypeOK /\ Packed /\ Aligned
    BY DEF IInv
  <1>2. ASSUME NEW b \in Bodies, Send(b)
        PROVE  Dialogue!Next
    BY <1>2 DEF Send, Dialogue!Next, Dialogue!Send
  <1>3. CASE Hangup
    BY <1>3 DEF Hangup, Dialogue!dialogue
  <1>4. CASE Reset
    <2>1. Dialogue!Hangup
      BY <1>4 DEF Reset, network, Dialogue!Hangup
    <2> QED BY <2>1 DEF Dialogue!Next
  <1>5. ASSUME NEW n \in 1 .. Len(stream) - got, Read(n)
        PROVE  UNCHANGED Dialogue!dialogue
    BY <1>5 DEF Read, network, Dialogue!dialogue
  <1>6. CASE ReadEOF
    <2>1. Dialogue!Hangup
      BY <1>6 DEF ReadEOF, network, Dialogue!Hangup
    <2> QED BY <2>1 DEF Dialogue!Next
  <1>7. CASE AwaitMore
    BY <1>7 DEF AwaitMore, network, Dialogue!dialogue
  <1>8. CASE CutShort
    <2>1. handled < Len(sent) /\ NextBody = sent[handled + 1]
      BY <1>8, NextBodyIsSent DEF CutShort
    <2>2. Dialogue!Due /\ Dialogue!This = NextBody
      BY <2>1, <1>8, Due DEF CutShort, network, Dialogue!This
    <2>3. Dialogue!Refuse
      BY <2>2, <1>8, SameProtocol DEF CutShort, Dialogue!Refuse
    <2> QED BY <2>3 DEF Dialogue!Next
  <1>9. CASE CutUnknown
    <2>1. handled < Len(sent) /\ NextBody = sent[handled + 1]
      BY <1>9, NextBodyIsSent DEF CutUnknown
    <2>2. Dialogue!Due /\ Dialogue!This = NextBody
      BY <2>1, <1>9, Due DEF CutUnknown, network, Dialogue!This
    <2>3. Dialogue!Ignore
      BY <2>2, <1>9, SameProtocol DEF CutUnknown, Dialogue!Ignore
    <2> QED BY <2>3 DEF Dialogue!Next
  <1>10. CASE CutPacket
    BY <1>10 DEF CutPacket, network, Dialogue!dialogue
  <1>11. ASSUME at = "handler", Answer \/ Fail
         PROVE  Dialogue!Due /\ Dialogue!This = body /\ Dispatched(body)
    <2>1. handled < Len(sent) /\ body = sent[handled + 1] /\ Dispatched(body)
      BY <1>1, <1>11 DEF Aligned
    <2> QED BY <2>1, <1>11, Due DEF Answer, Fail, network, Dialogue!This
  <1>12. CASE Answer
    <2>1. Dialogue!Due /\ Dialogue!This = body /\ Dispatched(body)
      BY <1>11, <1>12 DEF Answer
    <2>2. Dialogue!Answer
      BY <2>1, <1>12, SameProtocol DEF Answer, Dialogue!Answer
    <2> QED BY <2>2 DEF Dialogue!Next
  <1>13. CASE Fail
    <2>1. Dialogue!Due /\ Dialogue!This = body /\ Dispatched(body)
      BY <1>11, <1>13 DEF Fail
    <2>2. Dialogue!Refuse
      BY <2>1, <1>13, SameProtocol DEF Fail, Dialogue!Refuse
    <2> QED BY <2>2 DEF Dialogue!Next
  <1>14. CASE UNCHANGED vars
    BY <1>14 DEF vars, network, Dialogue!dialogue
  <1> QED BY <1>2, <1>3, <1>4, <1>5, <1>6, <1>7, <1>8, <1>9, <1>10, <1>12, <1>13, <1>14
          DEF Next, Server

\* The connection handles whole packets, one at a time and in the order sent,
\* whatever the sizes of the reads are.
THEOREM Refinement == Spec => ImplementsDialogue
  <1>1. Init => Dialogue!Init
    BY InitRefines
  <1>2. IInv /\ [Next]_vars => [Dialogue!Next]_(Dialogue!dialogue)
    BY StepRefines
  <1> QED BY <1>1, <1>2, Invariance, PTL DEF Spec, ImplementsDialogue, Dialogue!Spec

-----------------------------------------------------------------------------
(* While the server waits, no whole packet is left.                        *)

LEMMA IdleInit == Init => IdleHoldsNoPacket
  <1> SUFFICES ASSUME Init PROVE ~CompleteInBuffer
    BY DEF IdleHoldsNoPacket
  <1>1. Len(sent) = 0 /\ handled = 0
    BY DEF Init
  <1> QED BY <1>1 DEF CompleteInBuffer

\* What is sent is not read yet.
LEMMA CompleteStays ==
    ASSUME IInv, NEW b \in Bodies, Send(b), CompleteInBuffer'
    PROVE  CompleteInBuffer
  <1>1. /\ sent \in Seq(Bodies) /\ starts \in Seq(Nat) /\ Len(starts) = Len(sent)
        /\ got \in Nat /\ Len(stream) \in Nat /\ got <= Len(stream) /\ handled \in 0 .. Len(sent)
    BY DEF IInv, TypeOK, Packed
  <1>2. /\ sent' = Append(sent, b) /\ starts' = Append(starts, Len(stream))
        /\ got' = got /\ handled' = handled
    BY DEF Send
  <1>3. b \in Seq(Byte) /\ Len(b) \in Nat
    BY BodyType
  <1>4. CASE handled = Len(sent)
    <2>1. starts'[handled + 1] = Len(stream) /\ sent'[handled + 1] = b
      BY <1>1, <1>2, <1>4
    <2>2. got >= Len(stream) + 3 + Len(b)
      BY <2>1, <1>2 DEF CompleteInBuffer
    <2> QED BY <2>2, <1>1, <1>3
  <1>5. CASE handled < Len(sent)
    <2>1. starts'[handled + 1] = starts[handled + 1] /\ sent'[handled + 1] = sent[handled + 1]
      BY <1>1, <1>2, <1>5
    <2> QED BY <2>1, <1>2, <1>5 DEF CompleteInBuffer
  <1> QED BY <1>1, <1>4, <1>5

LEMMA IdleStep ==
    ASSUME IInv, IdleHoldsNoPacket, [Next]_vars
    PROVE  IdleHoldsNoPacket'
  <1>1. TypeOK /\ Packed /\ Aligned
    BY DEF IInv
  <1>2. ASSUME NEW b \in Bodies, Send(b)
        PROVE  IdleHoldsNoPacket'
    <2> SUFFICES ASSUME at' = "read", CompleteInBuffer' PROVE HeldBack'
      BY DEF IdleHoldsNoPacket
    <2>1. at = "read" /\ CompleteInBuffer
      BY <1>2, CompleteStays DEF Send
    <2>2. HeldBack
      BY <2>1 DEF IdleHoldsNoPacket
    <2>3. /\ sent' = Append(sent, b) /\ handled' = handled /\ handled \in 1 .. Len(sent)
          /\ sent \in Seq(Bodies)
      BY <2>2, <1>1, <1>2 DEF Send, HeldBack, TypeOK
    <2>4. sent'[handled'] = sent[handled]
      BY <2>3
    <2> QED BY <2>2, <2>3, <2>4 DEF HeldBack
  <1>3. ASSUME UNCHANGED <<sent, starts, got, handled, at>>
        PROVE  IdleHoldsNoPacket'
    BY <1>3 DEF IdleHoldsNoPacket, HeldBack, CompleteInBuffer
  <1>4. ASSUME at' # "read"
        PROVE  IdleHoldsNoPacket'
    BY <1>4 DEF IdleHoldsNoPacket
  <1>5. CASE AwaitMore
    <2> SUFFICES ASSUME CompleteInBuffer' PROVE FALSE
      BY DEF IdleHoldsNoPacket
    <2>1. CompleteInBuffer /\ at = "loop" /\ ~Whole
      BY <1>5 DEF AwaitMore, network, CompleteInBuffer
    <2>2. /\ handled < Len(sent) /\ got >= starts[handled + 1] + 3 + Len(sent[handled + 1])
      BY <2>1 DEF CompleteInBuffer
    <2>3. cut = starts[handled + 1]
      BY <2>1, <2>2, <1>1 DEF Aligned, Position
    <2>4. sent \in Seq(Bodies) /\ handled \in Nat /\ cut \in Nat /\ got \in Nat
      BY <1>1 DEF TypeOK
    <2>5. sent[handled + 1] \in Bodies
      BY <2>2, <2>4
    <2>6. Len(sent[handled + 1]) \in Nat
      BY <2>5, BodyType
    <2>7. Len(buffer) = got - cut
      BY <1>1 DEF buffer, TypeOK
    <2>8. Len(buffer) >= 3 + Len(sent[handled + 1]) /\ Len(buffer) >= 3
      BY <2>2, <2>3, <2>4, <2>6, <2>7
    <2>9. PacketLength = 3 + Len(sent[handled + 1])
      BY <2>1, <2>8, NextPacket
    <2> QED BY <2>1, <2>8, <2>9 DEF Whole
  <1>6. CASE CutUnknown
    <2>1. handled < Len(sent) /\ NextBody = sent[handled + 1]
      BY <1>6, NextBodyIsSent DEF CutUnknown
    <2>2. handled' = handled + 1 /\ sent' = sent /\ handled \in Nat
      BY <1>1, <1>6 DEF CutUnknown, network, TypeOK
    <2>3. WellFormed(NextBody) /\ ~Dispatched(NextBody)
      BY <1>6 DEF CutUnknown
    <2>4. handled' > 0 /\ sent'[handled'] = NextBody
      BY <2>1, <2>2
    <2>5. HeldBack'
      BY <2>3, <2>4 DEF HeldBack, WellFormed, Dispatched, TypeOf
    <2> QED BY <2>5 DEF IdleHoldsNoPacket
  <1>7. CASE Server
    <2>1. ASSUME NEW n \in 1 .. Len(stream) - got, Read(n)
          PROVE  at' # "read"
      BY <2>1 DEF Read
    <2>2. CASE ReadEOF \/ CutShort \/ CutPacket \/ Answer \/ Fail
      BY <2>2, <1>4 DEF ReadEOF, CutShort, CutPacket, Answer, Fail
    <2> QED BY <2>1, <2>2, <1>4, <1>5, <1>6, <1>7 DEF Server
  <1>8. CASE Hangup
    BY <1>3, <1>8 DEF Hangup
  <1>9. CASE Reset
    BY <1>4, <1>9 DEF Reset
  <1>10. CASE UNCHANGED vars
    BY <1>3, <1>10 DEF vars, network
  <1> QED BY <1>2, <1>7, <1>8, <1>9, <1>10 DEF Next

\* The server never waits for more while a whole packet is buffered, but behind a
\* packet of an unknown type.
THEOREM NoPacketIdle == Spec => []IdleHoldsNoPacket
  <1>1. Init => IdleHoldsNoPacket
    BY IdleInit
  <1>2. IInv /\ IdleHoldsNoPacket /\ [Next]_vars => IdleHoldsNoPacket'
    BY IdleStep
  <1> QED BY <1>1, <1>2, Invariance, PTL DEF Spec

-----------------------------------------------------------------------------
(* Nothing is served before the login.                                     *)

LEMMA LoginDispatched ==
    ASSUME NEW t \in DOMAIN message_dispatcher
    PROVE  /\ t = 20 => message_dispatcher[t] = LoginHandler
           /\ t # 20 => message_dispatcher[t].code # 20 /\ message_dispatcher[t].always = {}
  <1>1. t \in {1, 11, 20, 45, 52, 57, 122, 123, 125}
    BY DEF message_dispatcher
  <1>2. \A n \in {1, 11, 45, 52, 57, 122, 123, 125} : 20 # n
    OBVIOUS
  <1>3. CASE t = 20
    <2>1. /\ t # 1 /\ t # 11 /\ t # 45 /\ t # 52 /\ t # 57 /\ t # 122 /\ t # 123 /\ t # 125
      BY <1>2, <1>3
    <2>2. message_dispatcher[t] = LoginHandler
      BY <1>1, <1>3, <2>1, Zenon DEF message_dispatcher
    <2> QED BY <1>3, <2>2
  <1>4. CASE t # 20
    <2>1. \A h \in {PingHandler, LocationHandler, StatusHandler, CallsHandler, SmsHandler,
                    ChatHandler, GeneralHandler, Inflated(LocationHandler)} :
             h.code # 20 /\ h.always = {}
      BY DEF PingHandler, LocationHandler, StatusHandler, CallsHandler, SmsHandler,
             ChatHandler, GeneralHandler, Inflated, General
    <2>2. message_dispatcher[t] \in
             {PingHandler, LocationHandler, StatusHandler, CallsHandler, SmsHandler,
              ChatHandler, GeneralHandler, Inflated(LocationHandler)}
      BY <1>1, <1>4, Zenon DEF message_dispatcher
    <2> QED BY <1>4, <2>1, <2>2
  <1> QED BY <1>3, <1>4

LEMMA AnswersTo ==
    ASSUME NEW b, NEW s, Dispatched(b), ~Raises(b, s)
    PROVE  /\ LogsIn(b) <=> ReplyTo(b, s) = 20
           /\ ~s /\ ~LogsIn(b) => ReplyTo(b, s) = 0
  <1> DEFINE t == TypeOf(b)
             c == ContentOf(b)
  <1>1. t \in DOMAIN message_dispatcher
    BY DEF Dispatched
  <1>2. CASE t = 20
    <2>1. message_dispatcher[t] = LoginHandler
      BY <1>1, <1>2, LoginDispatched
    <2>2. c \in {"empty", "garbled", "lacking", "whole", "raising"}
      <3>1. TypeOf(b) # General
        BY <1>2 DEF General
      <3>2. ASSUME b[3] \in DOMAIN Decoded, Decoded[b[3]] \notin Subtypes
            PROVE  Decoded[b[3]] \in {"whole", "lacking", "raising"}
        BY <3>2 DEF Decoded, Subtypes
      <3> QED BY <3>1, <3>2 DEF ContentOf
    <2>3. c = "whole"
      BY <2>1, <2>2 DEF Raises, LoginHandler, Unreadable
    <2> QED BY <1>2, <2>1, <2>3 DEF ReplyTo, LoginHandler, LogsIn
  <1>3. CASE t # 20
    <2>1. message_dispatcher[t].code # 20 /\ message_dispatcher[t].always = {}
      BY <1>1, <1>3, LoginDispatched
    <2> QED BY <1>3, <2>1 DEF ReplyTo, LogsIn
  <1> QED BY <1>2, <1>3

LEMMA AnswerNamed ==
    ASSUME IInv, AnonymousNotServed, Answer
    PROVE  AnonymousNotServed'
  <1> DEFINE r == ReplyTo(body, session)
             k == Len(replies) + 1
  <1>1. replies \in Seq(Nat) /\ session \in BOOLEAN
    BY DEF IInv, TypeOK
  <1>2. Dispatched(body) /\ ~Raises(body, session)
    BY DEF IInv, Aligned, Answer
  <1>3. /\ LogsIn(body) <=> r = 20
        /\ ~session /\ ~LogsIn(body) => r = 0
    BY <1>2, AnswersTo
  <1>4. replies' = Append(replies, r) /\ session' = (session \/ LogsIn(body))
    BY DEF Answer
  <1> HIDE DEF r
  <1>5. /\ DOMAIN replies' = 1 .. k /\ DOMAIN replies = 1 .. Len(replies) /\ k \in Nat
        /\ replies'[k] = r
        /\ \A i \in DOMAIN replies : i \in DOMAIN replies' /\ replies'[i] = replies[i]
    BY <1>1, <1>4
  <1>6. session' <=> \E i \in DOMAIN replies' : replies'[i] = 20
    <2>1. session <=> \E i \in DOMAIN replies : replies[i] = 20
      BY DEF AnonymousNotServed
    <2>2. \A i \in DOMAIN replies' : i \in DOMAIN replies \/ i = k
      BY <1>5
    <2>3. k \in DOMAIN replies'
      BY <1>5
    <2> QED BY <2>1, <2>2, <2>3, <1>3, <1>4, <1>5
  <1>7. ASSUME NEW i \in DOMAIN replies', replies'[i] # 0
        PROVE  \E j \in 1 .. i : replies'[j] = 20
    <2>1. CASE i \in DOMAIN replies
      <3>1. PICK j \in 1 .. i : replies[j] = 20
        BY <2>1, <1>5, <1>7 DEF AnonymousNotServed
      <3>2. j \in DOMAIN replies
        BY <2>1, <3>1, <1>5
      <3> QED BY <3>1, <3>2, <1>5
    <2>2. CASE i = k
      <3>1. CASE session
        <4>1. PICK j \in DOMAIN replies : replies[j] = 20
          BY <3>1 DEF AnonymousNotServed
        <4>2. j \in 1 .. i
          BY <2>2, <4>1, <1>5
        <4> QED BY <4>1, <4>2, <1>5
      <3>2. CASE ~session
        <4>1. r = 20
          BY <2>2, <3>2, <1>3, <1>5, <1>7
        <4>2. i \in 1 .. i
          BY <2>2, <1>5
        <4> QED BY <2>2, <4>1, <4>2, <1>5
      <3> QED BY <3>1, <3>2
    <2> QED BY <2>1, <2>2, <1>5
  <1> QED BY <1>6, <1>7 DEF AnonymousNotServed

\* No packet but the error packet is written before the answer to the login.
THEOREM NamedFirst == Spec => []AnonymousNotServed
  <1>1. Init => AnonymousNotServed
    BY DEF Init, AnonymousNotServed
  <1>2. IInv /\ AnonymousNotServed /\ [Next]_vars => AnonymousNotServed'
    <2> SUFFICES ASSUME IInv, AnonymousNotServed, [Next]_vars PROVE AnonymousNotServed'
      OBVIOUS
    <2>1. CASE Answer
      BY <2>1, AnswerNamed
    <2>2. CASE ~Answer
      <3>1. replies' = replies /\ session' = session
        BY <2>2 DEF Next, vars, Send, Hangup, Reset, Server, Read, ReadEOF, AwaitMore, CutShort,
                    CutUnknown, CutPacket, Fail
      <3> QED BY <3>1 DEF AnonymousNotServed
    <2> QED BY <2>1, <2>2
  <1> QED BY <1>1, <1>2, Invariance, PTL DEF Spec
=============================================================================
