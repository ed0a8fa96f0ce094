------------------------------- MODULE Stream -------------------------------
(***************************************************************************)
(* handle_client and the bytes of its connection: the inner loop cuts the  *)
(* stream, which arrives in reads of any size, into packets and awaits one *)
(* handler after the other.  The bytes of a connection are one sequence,   *)
(* `stream'; `got' of them were read and `cut' of them were consumed, so   *)
(* the buffer is what lies between.                                        *)
(*                                                                         *)
(* Bounds: MaxPackets, the packets a watch sends.                          *)
(***************************************************************************)
EXTENDS Protocol

CONSTANTS Bodies,      \* bodies of the packets a watch may send
          ReadSize,    \* the argument of reader.read
          MaxPackets

Byte == 0 .. 255

ASSUME StreamAssumption ==
    /\ Bodies \subseteq {b \in Seq(Byte) : Len(b) < MaxLength}
    /\ ReadSize \in Nat \ {0}
    /\ MaxPackets \in Nat

VARIABLES
    sent,      \* the bodies the watch has sent
    hungup,    \* the watch has closed its side
    stream,    \* the bytes of the connection
    starts,    \* where each packet starts in the stream
    got, cut,
    at,        \* handle_client: in read, in the inner loop, in a handler, or left
    body,      \* the packet that is being handled
    session,   \* device_instance is not None
    handled,   \* packets that were disposed of
    replies    \* types of the packets written

network == <<sent, hungup, stream, starts>>
vars == <<network, got, cut, at, body, session, handled, replies>>

buffer == SubSeq(stream, cut + 1, got)

TypeOK ==
    /\ sent \in Seq(Bodies)
    /\ hungup \in BOOLEAN
    /\ stream \in Seq(Byte)
    /\ starts \in Seq(Nat)
    /\ got \in 0 .. Len(stream) /\ cut \in 0 .. got
    /\ at \in {"read", "loop", "handler", "left"}
    /\ body \in Seq(Byte)
    /\ session \in BOOLEAN
    /\ handled \in 0 .. Len(sent)
    /\ replies \in Seq(Nat)

Init ==
    /\ sent = <<>> /\ hungup = FALSE
    /\ stream = <<>> /\ starts = <<>>
    /\ got = 0 /\ cut = 0
    /\ at = "read"
    /\ body = <<>>
    /\ session = FALSE
    /\ handled = 0
    /\ replies = <<>>

-----------------------------------------------------------------------------
\* The watch sends a packet, or closes its side.
Send(b) ==
    /\ ~hungup /\ Len(sent) < MaxPackets
    /\ sent' = Append(sent, b)
    /\ starts' = Append(starts, Len(stream))
    /\ stream' = stream \o Header(Len(b)) \o b
    /\ UNCHANGED <<hungup, got, cut, at, body, session, handled, replies>>

Hangup ==
    /\ ~hungup /\ hungup' = TRUE
    /\ UNCHANGED <<sent, stream, starts, got, cut, at, body, session, handled, replies>>

-----------------------------------------------------------------------------
\* await reader.read(4096): at least one byte, and at most what is there.
Read(n) ==
    /\ at = "read"
    /\ n <= ReadSize /\ got + n <= Len(stream)
    /\ got' = got + n
    /\ at' = "loop"
    /\ UNCHANGED <<network, cut, body, session, handled, replies>>

\* b'' is read at the end of the stream only.
ReadEOF ==
    /\ at = "read" /\ hungup /\ got = Len(stream)
    /\ at' = "left"
    /\ UNCHANGED <<network, got, cut, body, session, handled, replies>>

\* The connection is reset, in a read or while a reply is written.
Reset ==
    /\ at # "left"
    /\ at' = "left"
    /\ UNCHANGED <<network, got, cut, body, session, handled, replies>>

PacketLength == 3 + Declared(SubSeq(buffer, 1, 3))

\* Faulty variant: a buffer that holds just the packet waits.
MoreThanWhole == Len(buffer) >= 3 /\ Len(buffer) > PacketLength

Whole == Len(buffer) >= 3 /\ Len(buffer) >= PacketLength

\* Not enough for the header or for the packet: back to read.
AwaitMore ==
    /\ at = "loop" /\ ~Whole
    /\ at' = "read"
    /\ UNCHANGED <<network, got, cut, body, session, handled, replies>>

\* Faulty variant: a break throws the rest of the buffer away.
ConsumeAll == cut' = IF at' = "read" THEN got ELSE cut + PacketLength

\* Faulty variant: one byte of the next header goes with the packet.
ConsumeOneMore == cut' = cut + PacketLength + 1

Consume == cut' = cut + PacketLength
NextBody == SubSeq(buffer, 4, PacketLength)

\* packet_data[3] or packet_data[4] is out of range: except and finally.
CutShort ==
    /\ at = "loop" /\ Whole
    /\ ~WellFormed(NextBody)
    /\ at' = "left"
    /\ Consume
    /\ handled' = handled + 1
    /\ UNCHANGED <<network, got, body, session, replies>>

\* An unknown type breaks the inner loop, whatever else is in the buffer.
CutUnknown ==
    /\ at = "loop" /\ Whole
    /\ WellFormed(NextBody) /\ ~Dispatched(NextBody)
    /\ at' = "read"
    /\ Consume
    /\ handled' = handled + 1
    /\ UNCHANGED <<network, got, body, session, replies>>

CutPacket ==
    /\ at = "loop" /\ Whole
    /\ Dispatched(NextBody)
    /\ at' = "handler"
    /\ body' = NextBody
    /\ Consume
    /\ UNCHANGED <<network, got, session, handled, replies>>

-----------------------------------------------------------------------------
\* The handler is back: a session for a login, and the reply or the error packet.
Answer ==
    /\ at = "handler" /\ ~Raises(body, session)
    /\ at' = "loop"
    /\ handled' = handled + 1
    /\ session' = (session \/ LogsIn(body))
    /\ replies' = Append(replies, ReplyTo(body, session))
    /\ UNCHANGED <<network, got, cut, body>>

\* The parser or the handler raised, or the reply cannot be logged.
Fail ==
    /\ at = "handler" /\ Raises(body, session)
    /\ at' = "left"
    /\ handled' = handled + 1
    /\ UNCHANGED <<network, got, cut, body, session, replies>>

Server ==
    \/ \E n \in 1 .. Len(stream) - got : Read(n)
    \/ ReadEOF \/ AwaitMore \/ CutShort \/ CutUnknown \/ CutPacket
    \/ Answer \/ Fail

Next == (\E b \in Bodies : Send(b)) \/ Hangup \/ Reset \/ Server

Spec == Init /\ [][Next]_vars

\* The coroutine is resumed when there is something to read or its handler is back.
Fairness == WF_vars(Server)
FairSpec == Spec /\ Fairness

-----------------------------------------------------------------------------
(* Properties.                                                             *)

\* Whatever the reads are, the connection behaves as if whole packets were
\* handled one by one in the order sent, each answered in its turn.
Dialogue == INSTANCE WatchDialogue WITH open <- at # "left"
ImplementsDialogue == Dialogue!Spec

\* A watch gets no answer but the error packet before the answer to its login,
\* and has a session from then on.
AnonymousNotServed ==
    /\ session <=> \E i \in DOMAIN replies : replies[i] = 20
    /\ \A i \in DOMAIN replies : replies[i] # 0 => \E j \in 1 .. i : replies[j] = 20

\* While handle_client waits for more no complete packet is in its buffer, except
\* behind one of an unknown type: this one leaves the inner loop, and the rest is
\* handled only when something more arrives, or never.
HeldBack == handled > 0 /\ WellFormed(sent[handled]) /\ ~Dispatched(sent[handled])
CompleteInBuffer == handled < Len(sent) /\ got >= starts[handled + 1] + 3 + Len(sent[handled + 1])
IdleHoldsNoPacket == at = "read" /\ CompleteInBuffer => HeldBack

\* Every packet sent is handled in the end, unless the connection ends or the
\* packet is held back.
EventuallyHandled == <>[](handled = Len(sent) \/ at = "left" \/ HeldBack)
=============================================================================
