------------------------------ MODULE PacketStream ------------------------------
(***************************************************************************)
(* NKNetwork::RecvStream and the loop of AsyncSocket::onProcess(RECEIVE)   *)
(* that cuts the received bytes into packets (Packet::Packet(RecvStream&)).*)
(*                                                                         *)
(* Bytes have no values: the peer's stream is where its packets begin and  *)
(* the size each header claims.  The peer writes each packet to a          *)
(* SendStream, a header and data; a packet is well-formed if it is as long *)
(* as it claims, and a wrong one claims anything.  onReceived keeps a copy *)
(* of each packet (Packet::Packet(const Packet&)).                         *)
(***************************************************************************)
EXTENDS Integers, Sequences

CONSTANTS
    Size,           \* BUFFER_LENGTH_8K: of the buffer, and of the longest packet
    HeadSize,       \* sizeof(PROTOCOLHEAD)
    FieldSize,      \* sizeof(PROTOCOLHEAD::size_type)
    SizeLimit,      \* the number of values of a size_type
    SendSize,       \* of the peer's SendStream
    Packets,        \* what it writes: the size a header claims, and the size of the data
    MaxPackets      \* bound of the model: the packets the peer sends

ASSUME StreamAssumption ==
    /\ Size \in Nat /\ HeadSize \in Nat /\ FieldSize \in Nat /\ SizeLimit \in Nat
    /\ 0 < FieldSize /\ FieldSize <= HeadSize /\ HeadSize <= Size /\ Size < SizeLimit
    /\ SendSize \in Nat /\ HeadSize <= SendSize
    /\ Packets \subseteq (0 .. SizeLimit - 1) \X (0 .. SendSize)
    /\ MaxPackets \in Nat

VARIABLES
    start,      \* where the packets of the peer's stream begin; last, where the next will
    claim,      \* the sizes their headers claim
    base,       \* where the stream's byte at the front of the buffer is from
    offset,     \* RecvStream::_offset, the bytes read
    length,     \* RecvStream::_length, the bytes written
    phase,      \* "armed" receive, "parse" loop, or "closed" for good
    delivered   \* the sizes of the packets given to onReceived, as its copies have them

vars == <<start, claim, base, offset, length, phase, delivered>>

Init ==
    /\ start = <<0>> /\ claim = <<>>
    /\ base = 0 /\ offset = 0 /\ length = 0
    /\ phase = "armed"
    /\ delivered = <<>>

Sent == start[Len(start)]   \* the bytes the peer has sent
Unread == length - offset   \* ByteStream::getLength
Room == Size - length       \* RecvStream::getRemainSize

-------------------------------------------------------------------------------
\* ByteStream::write of n bytes to a buffer of size bytes that holds len, n no
\* more than size: what it holds then, refused or not.
Written(len, n, size) == IF len > size - n THEN len ELSE len + n

\* ByteStream::peek of n bytes: whether they are there.
Holds(off, len, n) == n <= len - off

\* ByteStream::read of n bytes: the offset then
Read(off, len, n) == IF Holds(off, len, n) THEN off + n ELSE off

\* The bytes of a SendStream to which a header and n bytes were written, the
\* header as a value and the data as bytes.
WriteHead == Written(0, HeadSize, SendSize)
Outgoing(n) == Written(WriteHead, n, SendSize)

\* The peer sends what its SendStream holds.
SendPacket ==
    /\ Len(claim) < MaxPackets
    /\ \E p \in Packets :
         /\ claim' = Append(claim, p[1])
         /\ start' = Append(start, Sent + Outgoing(p[2]))
    /\ UNCHANGED <<base, offset, length, phase, delivered>>

\* RecvStream::update; a stream that refuses is closed.
Update(n) ==
    IF length > Size - n THEN phase' = "closed" /\ UNCHANGED length
    ELSE phase' = "parse" /\ length' = length + n

\* The armed receive completes with the bytes that have come, no more than the
\* buffer has room for.
Receive(n) ==
    /\ phase = "armed"
    /\ n <= Sent - (base + length) /\ n <= Room
    /\ Update(n)
    /\ UNCHANGED <<start, claim, base, offset, delivered>>

\* The values that may stand where the next size is read: the claim of the
\* packet that begins there, or whatever if none does.
Peek ==
    LET here == {i \in DOMAIN claim : start[i] = base + offset}
    IN  IF here = {} THEN 0 .. SizeLimit - 1 ELSE {claim[i] : i \in here}

WrongSize(z) == z = 0 \/ z > Size

\* raiseCloseEvent, and the handler returns.
CloseOnWrong ==
    /\ phase = "parse" /\ Unread >= FieldSize
    /\ \E z \in Peek : WrongSize(z)
    /\ phase' = "closed"
    /\ UNCHANGED <<start, claim, base, offset, length, delivered>>

\* Packet::getDataSize, a size_type
DataSize(z) == (z - HeadSize) % SizeLimit

\* Mutation of AfterPacket: the data are read, there or not.
AfterUnchecked(z) == HeadSize + DataSize(z)

\* Packet(stream) reads the header, and the data if there are enough; what it
\* then has read.
AfterPacket(z) == Read(Read(0, Unread, HeadSize), Unread, DataSize(z))

\* Mutation of Copied: the copy has room for the data alone.
CopiedDataOnly(z) == Written(HeadSize, DataSize(z), DataSize(z))

\* Packet(const Packet&) writes the header and the data to a buffer of getSize
\* bytes, and reads them back; what it then has read.
Copied(z) ==
    LET held == Written(Written(0, HeadSize, z), DataSize(z), z)
    IN  Read(Read(0, held, HeadSize), held, DataSize(z))

\* A packet that claims less than a header is looked at and not copied.
Kept(z) == IF z < HeadSize THEN z ELSE Copied(z)

\* Mutation of Deliver: a packet is taken for complete when its header is there.
DeliverEarly ==
    /\ phase = "parse" /\ Unread >= FieldSize
    /\ \E z \in Peek :
         /\ ~ WrongSize(z) /\ HeadSize <= Unread
         /\ offset' = offset + AfterPacket(z)
         /\ delivered' = Append(delivered, Kept(z))
    /\ UNCHANGED <<start, claim, base, length, phase>>

\* A packet is complete: onReceived.
Deliver ==
    /\ phase = "parse" /\ Unread >= FieldSize
    /\ \E z \in Peek :
         /\ ~ WrongSize(z) /\ z <= Unread /\ HeadSize <= Unread
         /\ offset' = offset + AfterPacket(z)
         /\ delivered' = Append(delivered, Kept(z))
    /\ UNCHANGED <<start, claim, base, length, phase>>

\* A claim below the size of a header, with no whole header there: the packet
\* has size 0, which is not what was peeked, and the socket is closed.
CloseOnShort ==
    /\ phase = "parse" /\ Unread >= FieldSize
    /\ \E z \in Peek : ~ WrongSize(z) /\ z <= Unread /\ Unread < HeadSize
    /\ phase' = "closed"
    /\ UNCHANGED <<start, claim, base, offset, length, delivered>>

Incomplete ==
    \/ Unread < FieldSize
    \/ \E z \in Peek : ~ WrongSize(z) /\ z > Unread

\* Mutation of MoveRead: the read bytes keep their place.
MoveReadNot == UNCHANGED <<base, offset, length>>

\* RecvStream::moveRead
MoveRead == base' = base + offset /\ length' = length - offset /\ offset' = 0

\* The loop ends; recv arms the next receive, or closes if the buffer is full.
Rearm ==
    /\ phase = "parse" /\ Incomplete
    /\ MoveRead
    /\ phase' = IF Room' = 0 THEN "closed" ELSE "armed"
    /\ UNCHANGED <<start, claim, delivered>>

Handle == CloseOnWrong \/ Deliver \/ CloseOnShort \/ Rearm

Next == SendPacket \/ (\E n \in 1 .. Size : Receive(n)) \/ Handle

Spec == Init /\ [][Next]_vars

\* The handler runs to its end, and bytes that were sent arrive.
FairSpec == Spec /\ WF_vars(Handle) /\ WF_vars(\E n \in 1 .. Size : Receive(n))

-------------------------------------------------------------------------------
TypeOK ==
    /\ start \in Seq(Nat) /\ claim \in Seq(Nat)
    /\ base \in Nat /\ offset \in Nat /\ length \in Nat
    /\ phase \in {"armed", "parse", "closed"}
    /\ delivered \in Seq(Nat)

\* Nothing is read that was not received, and nothing is received beyond the
\* buffer, whatever the peer's headers claim (peek, read, update, moveRead).
InBuffer == offset <= length /\ length <= Size /\ base + length <= Sent

\* There is always room for another byte: the longest packet fits the buffer, so
\* that an incomplete one never fills it (the limit of onProcess, checked against
\* recv's: a full buffer would close the socket).
RoomForMore == phase = "parse" /\ Incomplete => Unread < Size

\* All that was sent is well-formed.
Orderly == \A i \in DOMAIN claim : start[i + 1] = start[i] + claim[i] /\ claim[i] \in HeadSize .. Size

\* However the network cuts the stream, onReceived gets the packets that were
\* sent, in their order, and copies each whole; and the socket is not closed for
\* them.
DeliveredAsSent ==
    Orderly =>
      /\ phase # "closed"
      /\ Len(delivered) <= Len(claim)
      /\ \A i \in DOMAIN delivered : delivered[i] = claim[i]
      /\ base + offset = start[Len(delivered) + 1]

\* Every packet of a well-formed stream is delivered in the end.
AllDelivered == Len(claim) = MaxPackets /\ Orderly ~> Len(delivered) = MaxPackets
===============================================================================
