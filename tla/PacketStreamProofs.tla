--------------------------- MODULE PacketStreamProofs ---------------------------
(***************************************************************************)
(* Theorems about PacketStream, for every size of the buffer, the header   *)
(* and the size field, and any number of packets.                          *)
(***************************************************************************)
EXTENDS PacketStream, SequenceTheorems, TLAPS

\* The wire: packets begin one after the other, none at the same byte.
Wire ==
    /\ Len(start) = Len(claim) + 1
    /\ \A i \in DOMAIN claim : claim[i] \in 0 .. SizeLimit - 1
    /\ \A i, j \in DOMAIN start : i < j => start[i] < start[j]

\* A receive is armed after moveRead only.
ArmedAtFront == phase = "armed" => offset = 0

Inv == TypeOK /\ Wire /\ InBuffer /\ ArmedAtFront

\* The data size of a well-formed packet is what follows its header; that of a
\* smaller claim wraps around, and is not negative either.
LEMMA DataSizes ==
  ASSUME NEW z \in 0 .. SizeLimit - 1
  PROVE  /\ DataSize(z) \in Nat
         /\ z >= HeadSize => HeadSize + DataSize(z) = z
<1> USE StreamAssumption DEF DataSize
<1>1. DataSize(z) \in Nat
  OBVIOUS
<1>2. ASSUME z >= HeadSize PROVE HeadSize + DataSize(z) = z
  <2>1. z - HeadSize \in 0 .. SizeLimit - 1
    BY <1>2
  <2>2. DataSize(z) = z - HeadSize
    BY <2>1
  <2> QED
    BY <2>2
<1> QED
  BY <1>1, <1>2

\* What may be peeked is a size_type.
LEMMA PeekRange ==
  ASSUME Wire
  PROVE  Peek \subseteq 0 .. SizeLimit - 1
BY DEF Wire, Peek

\* A packet is read within the bytes there are.
LEMMA AfterPacketRange ==
  ASSUME TypeOK, NEW z \in 0 .. SizeLimit - 1, HeadSize <= Unread
  PROVE  AfterPacket(z) \in 0 .. Unread
BY DataSizes, StreamAssumption DEF TypeOK, AfterPacket, Read, Holds, Unread

\* What a SendStream holds is a header, and the data if there was room.
LEMMA OutgoingRange ==
  ASSUME NEW n \in 0 .. SendSize
  PROVE  Outgoing(n) \in Nat \ {0}
BY StreamAssumption DEF Outgoing, WriteHead, Written

\* The copy of a packet that claims a header at least is as long as the packet:
\* its buffer takes the header and the data, and both are read back.
LEMMA CopiesWhole ==
  ASSUME NEW z \in 0 .. SizeLimit - 1, HeadSize <= z
  PROVE  Copied(z) = z
<1>1. HeadSize \in Nat /\ z \in Nat /\ DataSize(z) \in Nat /\ HeadSize + DataSize(z) = z
  BY DataSizes, StreamAssumption
<1>2. Written(0, HeadSize, z) = HeadSize
  BY <1>1 DEF Written
<1>3. Written(HeadSize, DataSize(z), z) = z
  BY <1>1 DEF Written
<1>4. Read(0, z, HeadSize) = HeadSize /\ Read(HeadSize, z, DataSize(z)) = z
  BY <1>1 DEF Read, Holds
<1> QED
  BY <1>2, <1>3, <1>4 DEF Copied

\* What onReceived keeps of a packet has the size it claims.
LEMMA KeptSize ==
  ASSUME NEW z \in 0 .. SizeLimit - 1
  PROVE  Kept(z) = z
<1>1. z \in Nat /\ HeadSize \in Nat
  BY StreamAssumption
<1> QED
  BY <1>1, CopiesWhole DEF Kept

LEMMA InitInv == Init => Inv
BY StreamAssumption DEF Init, Inv, TypeOK, Wire, InBuffer, Sent, ArmedAtFront

\* Where the stream ends, seen from its packets.
LEMMA SentLast ==
  ASSUME TypeOK, Wire
  PROVE  /\ Sent \in Nat
         /\ Len(start) \in Nat \ {0} /\ Len(claim) \in Nat
         /\ DOMAIN start = 1 .. Len(start) /\ DOMAIN claim = 1 .. Len(claim)
         /\ \A i \in DOMAIN start : start[i] \in Nat /\ start[i] <= Sent
         /\ \A i \in DOMAIN start : start[i] = Sent => i = Len(start)
<1>1. /\ Len(start) \in Nat \ {0} /\ Len(claim) \in Nat
      /\ DOMAIN start = 1 .. Len(start) /\ DOMAIN claim = 1 .. Len(claim)
      /\ \A i \in 1 .. Len(start) : start[i] \in Nat
  BY DEF TypeOK, Wire
<1>2. \A i \in 1 .. Len(start) : i < Len(start) => start[i] < Sent
  BY <1>1 DEF Wire, Sent
<1>3. Sent \in Nat
  BY <1>1 DEF Sent
<1> QED
  BY <1>1, <1>2, <1>3 DEF Sent

\* Whatever the peer sends, it is one more packet that takes some bytes.
LEMMA OneMore ==
  ASSUME Inv, SendPacket
  PROVE  \E c \in 0 .. SizeLimit - 1, z \in Nat \ {0} :
           /\ Len(claim') = Len(claim) + 1 /\ claim'[Len(claim) + 1] = c
           /\ claim' \in Seq(Nat) /\ start' \in Seq(Nat)
           /\ \A i \in 1 .. Len(claim) : claim'[i] = claim[i]
           /\ Len(start') = Len(start) + 1 /\ start'[Len(start) + 1] = Sent + z
           /\ \A i \in 1 .. Len(start) : start'[i] = start[i]
<1>1. PICK c \in 0 .. SizeLimit - 1, z \in Nat \ {0} :
        claim' = Append(claim, c) /\ start' = Append(start, Sent + z)
  <2>1. PICK p \in Packets : claim' = Append(claim, p[1]) /\ start' = Append(start, Sent + Outgoing(p[2]))
    BY DEF SendPacket
  <2>2. p[1] \in 0 .. SizeLimit - 1 /\ p[2] \in 0 .. SendSize
    BY StreamAssumption
  <2> QED
    BY <2>1, <2>2, OutgoingRange
<1>2. c \in Nat /\ Sent + z \in Nat
  BY StreamAssumption, SentLast DEF Inv
<1>3. claim \in Seq(Nat) /\ start \in Seq(Nat)
  BY DEF Inv, TypeOK
<1> QED
  BY <1>1, <1>2, <1>3, AppendProperties

LEMMA SendPacketInv ==
  ASSUME Inv, SendPacket
  PROVE  Inv'
<1>1. PICK c \in 0 .. SizeLimit - 1, z \in Nat \ {0} :
        /\ Len(claim') = Len(claim) + 1 /\ claim'[Len(claim) + 1] = c
        /\ claim' \in Seq(Nat) /\ start' \in Seq(Nat)
        /\ \A i \in 1 .. Len(claim) : claim'[i] = claim[i]
        /\ Len(start') = Len(start) + 1 /\ start'[Len(start) + 1] = Sent + z
        /\ \A i \in 1 .. Len(start) : start'[i] = start[i]
  BY OneMore
<1>2. /\ Sent \in Nat
      /\ Len(start) \in Nat \ {0} /\ Len(claim) \in Nat
      /\ DOMAIN start = 1 .. Len(start) /\ DOMAIN claim = 1 .. Len(claim)
      /\ \A i \in DOMAIN start : start[i] \in Nat /\ start[i] <= Sent
  BY SentLast DEF Inv
<1>3. TypeOK'
  BY <1>1 DEF Inv, TypeOK, SendPacket
<1>4. Sent' = Sent + z
  BY <1>1 DEF Sent
<1>5. DOMAIN start' = 1 .. Len(start) + 1 /\ DOMAIN claim' = 1 .. Len(claim) + 1
  BY <1>1
<1>6. Wire'
  <2>1. Len(start') = Len(claim') + 1
    BY <1>1, <1>2 DEF Inv, Wire
  <2>6. \A i \in 1 .. Len(claim) : claim[i] \in 0 .. SizeLimit - 1
    BY <1>2 DEF Inv, Wire
  <2>2. \A i \in DOMAIN claim' : claim'[i] \in 0 .. SizeLimit - 1
    <3> SUFFICES ASSUME NEW i \in 1 .. Len(claim) + 1 PROVE claim'[i] \in 0 .. SizeLimit - 1
      BY <1>5
    <3>1. CASE i = Len(claim) + 1
      BY <1>1, <3>1
    <3>2. CASE i # Len(claim) + 1
      <4>1. i \in 1 .. Len(claim)
        BY <1>2, <3>2
      <4> QED
        BY <1>1, <2>6, <4>1
    <3> QED
      BY <3>1, <3>2
  <2>3. \A i, j \in 1 .. Len(start) : i < j => start'[i] < start'[j]
    BY <1>1, <1>2 DEF Inv, Wire
  <2>4. \A i \in 1 .. Len(start) : start'[i] < start'[Len(start) + 1]
    <3> SUFFICES ASSUME NEW i \in 1 .. Len(start) PROVE start'[i] < start'[Len(start) + 1]
      OBVIOUS
    <3>1. start'[i] = start[i] /\ start'[Len(start) + 1] = Sent + z
      BY <1>1
    <3>2. start[i] \in Nat /\ start[i] <= Sent /\ Sent \in Nat
      BY <1>2
    <3> QED
      BY <3>1, <3>2
  <2>5. \A i, j \in DOMAIN start' : i < j => start'[i] < start'[j]
    BY <1>2, <1>5, <2>3, <2>4
  <2> QED
    BY <2>1, <2>2, <2>5 DEF Wire
<1>7. InBuffer' /\ ArmedAtFront'
  BY <1>2, <1>4 DEF Inv, TypeOK, InBuffer, ArmedAtFront, SendPacket
<1> QED
  BY <1>3, <1>6, <1>7 DEF Inv

LEMMA ReceiveInv ==
  ASSUME Inv, NEW n \in 1 .. Size, Receive(n)
  PROVE  Inv'
<1> USE StreamAssumption DEF Inv, Receive, Update, Room
<1>1. TypeOK' /\ Wire'
  BY DEF TypeOK, Wire
<1>2. Sent \in Nat /\ Sent' = Sent
  BY DEF TypeOK, Wire, Sent
<1>3. InBuffer' /\ ArmedAtFront'
  BY <1>2 DEF TypeOK, InBuffer, ArmedAtFront
<1> QED
  BY <1>1, <1>3

LEMMA DeliverInv ==
  ASSUME Inv, Deliver
  PROVE  Inv'
<1> USE DEF Inv, Deliver
<1>1. PICK z \in Peek : /\ HeadSize <= Unread
                        /\ offset' = offset + AfterPacket(z)
                        /\ delivered' = Append(delivered, Kept(z))
  OBVIOUS
<1>2. z \in 0 .. SizeLimit - 1
  BY <1>1, PeekRange
<1>3. AfterPacket(z) \in 0 .. Unread
  BY <1>1, <1>2, AfterPacketRange
<1>4. TypeOK'
  <2>1. Kept(z) \in Nat
    BY <1>2, KeptSize, StreamAssumption
  <2> QED
    BY <1>1, <1>3, <2>1, StreamAssumption DEF TypeOK, InBuffer, Unread
<1>5. InBuffer'
  BY <1>1, <1>3 DEF TypeOK, InBuffer, Unread, Sent
<1>6. Wire' /\ ArmedAtFront'
  BY DEF Wire, ArmedAtFront
<1> QED
  BY <1>4, <1>5, <1>6

LEMMA RearmInv ==
  ASSUME Inv, Rearm
  PROVE  Inv'
<1> USE DEF Inv, Rearm, MoveRead
<1>1. Sent' = Sent /\ Sent \in Nat
  BY SentLast DEF Sent
<1>2. offset' = 0 /\ base' \in Nat /\ length' \in Nat
  BY DEF TypeOK, InBuffer
<1>3. TypeOK'
  BY <1>2 DEF TypeOK
<1>4. InBuffer'
  <2>1. base' + length' = base + length /\ length' <= length
    BY DEF TypeOK
  <2>2. length <= Size /\ base + length <= Sent /\ length \in Nat /\ Size \in Nat
    BY StreamAssumption DEF InBuffer, TypeOK
  <2> HIDE DEF Inv, Rearm, MoveRead
  <2>3. offset' <= length' /\ length' <= Size
    BY <1>2, <2>1, <2>2
  <2>4. base' + length' <= Sent'
    BY <1>1, <2>1, <2>2
  <2> QED
    BY <2>3, <2>4 DEF InBuffer
<1>5. Wire' /\ ArmedAtFront'
  BY DEF Wire, ArmedAtFront
<1> QED
  BY <1>3, <1>4, <1>5

\* The two ways to close leave the stream as it is.
LEMMA CloseInv ==
  ASSUME Inv, CloseOnWrong \/ CloseOnShort
  PROVE  Inv'
BY DEF Inv, CloseOnWrong, CloseOnShort, TypeOK, Wire, InBuffer, Sent, ArmedAtFront

LEMMA NextInv == Inv /\ [Next]_vars => Inv'
<1> SUFFICES ASSUME Inv, [Next]_vars PROVE Inv'
  OBVIOUS
<1>1. CASE SendPacket
  BY <1>1, SendPacketInv
<1>2. ASSUME NEW n \in 1 .. Size, Receive(n) PROVE Inv'
  BY <1>2, ReceiveInv
<1>3. CASE Deliver
  BY <1>3, DeliverInv
<1>4. CASE CloseOnWrong \/ CloseOnShort
  BY <1>4, CloseInv
<1>5. CASE Rearm
  BY <1>5, RearmInv
<1>6. CASE UNCHANGED vars
  BY <1>6 DEF vars, Inv, TypeOK, Wire, InBuffer, Sent, ArmedAtFront
<1> QED
  BY <1>1, <1>2, <1>3, <1>4, <1>5, <1>6 DEF Next, Handle

LEMMA AlwaysInv == Spec => []Inv
BY InitInv, NextInv, PTL DEF Spec

-------------------------------------------------------------------------------
\* The type invariant of the stream and the packet loop, for any claims.
THEOREM TypeCorrect == Spec => []TypeOK
<1>1. Inv => TypeOK
  BY DEF Inv
<1> QED
  BY <1>1, AlwaysInv, PTL

\* RecvStream's offset and length stay within the buffer and within what was
\* received, whatever sizes the headers claim.
THEOREM StaysInBuffer == Spec => []InBuffer
<1>1. Inv => InBuffer
  BY DEF Inv
<1> QED
  BY <1>1, AlwaysInv, PTL

\* An incomplete packet never fills the buffer: recv's check of the remaining
\* size never closes a socket.
THEOREM NeverFull == Spec => []RoomForMore
<1>1. Inv => RoomForMore
  BY StreamAssumption, PeekRange
     DEF Inv, TypeOK, InBuffer, RoomForMore, Incomplete, WrongSize, Unread
<1> QED
  BY <1>1, AlwaysInv, PTL

-------------------------------------------------------------------------------
\* In a well-formed stream the loop stands at the beginning of the packet after
\* the last one delivered, and peeks that packet's size and no other.
LEMMA PeekNext ==
  ASSUME Inv, DeliveredAsSent, Orderly, Unread >= FieldSize
  PROVE  LET k == Len(delivered) + 1
         IN  k \in DOMAIN claim /\ Peek = {claim[k]}
<1> DEFINE k == Len(delivered) + 1
<1>1. /\ Sent \in Nat
      /\ DOMAIN start = 1 .. Len(start) /\ DOMAIN claim = 1 .. Len(claim)
      /\ Len(start) = Len(claim) + 1 /\ Len(claim) \in Nat /\ Len(delivered) \in Nat
      /\ \A i \in 1 .. Len(start) : start[i] \in Nat
      /\ \A i, j \in 1 .. Len(start) : i < j => start[i] < start[j]
  <2>1. TypeOK /\ Wire
    BY DEF Inv
  <2>2. /\ Sent \in Nat /\ Len(claim) \in Nat
        /\ DOMAIN start = 1 .. Len(start) /\ DOMAIN claim = 1 .. Len(claim)
        /\ \A i \in DOMAIN start : start[i] \in Nat
    BY <2>1, SentLast
  <2>3. Len(delivered) \in Nat
    BY <2>1 DEF TypeOK
  <2>4. /\ Len(start) = Len(claim) + 1
        /\ \A i, j \in DOMAIN start : i < j => start[i] < start[j]
    BY <2>1 DEF Wire
  <2> QED
    BY <2>2, <2>3, <2>4
<1>2. k <= Len(claim) + 1 /\ base + offset = start[k]
  BY <1>1 DEF DeliveredAsSent
<1>3. base + offset < Sent
  BY <1>1, StreamAssumption DEF Inv, TypeOK, InBuffer, Unread
<1>4. k \in DOMAIN claim
  BY <1>1, <1>2, <1>3 DEF Sent
<1>5. \A i \in DOMAIN claim : start[i] = start[k] => i = k
  BY <1>1, <1>4
<1>6. {i \in DOMAIN claim : start[i] = base + offset} = {k}
  BY <1>2, <1>4, <1>5
<1>7. Peek = {claim[k]}
  BY <1>6 DEF Peek
<1> QED
  BY <1>4, <1>7

\* While the peer goes on sending, what was delivered stays a prefix.
LEMMA SendPacketDelivered ==
  ASSUME Inv, DeliveredAsSent, SendPacket
  PROVE  DeliveredAsSent'
<1> SUFFICES ASSUME Orderly' PROVE DeliveredAsSent'
  BY DEF DeliveredAsSent
<1>1. /\ Len(claim') = Len(claim) + 1 /\ claim' \in Seq(Nat)
      /\ \A i \in 1 .. Len(claim) : claim'[i] = claim[i]
      /\ \A i \in 1 .. Len(start) : start'[i] = start[i]
  BY OneMore
<1>2. /\ DOMAIN claim = 1 .. Len(claim) /\ DOMAIN claim' = 1 .. Len(claim) + 1
      /\ Len(start) = Len(claim) + 1 /\ Len(claim) \in Nat
      /\ DOMAIN delivered = 1 .. Len(delivered) /\ Len(delivered) \in Nat
  BY <1>1, SentLast DEF Inv, TypeOK, Wire
<1>3. Orderly
  BY <1>1, <1>2 DEF Orderly
<1>4. /\ phase # "closed" /\ Len(delivered) <= Len(claim)
      /\ \A i \in DOMAIN delivered : delivered[i] = claim[i]
      /\ base + offset = start[Len(delivered) + 1]
  BY <1>3 DEF DeliveredAsSent
<1>5. UNCHANGED <<base, offset, phase, delivered>>
  BY DEF SendPacket
<1>6. Len(delivered) <= Len(claim')
  BY <1>1, <1>2, <1>4
<1>7. \A i \in DOMAIN delivered : delivered[i] = claim'[i]
  BY <1>1, <1>2, <1>4
<1>8. base + offset = start'[Len(delivered) + 1]
  BY <1>1, <1>2, <1>4
<1> QED
  BY <1>4, <1>5, <1>6, <1>7, <1>8 DEF DeliveredAsSent

\* The steps of the handler, in a well-formed stream.
LEMMA HandleDelivered ==
  ASSUME Inv, DeliveredAsSent, Handle
  PROVE  DeliveredAsSent'
<1> SUFFICES ASSUME Orderly PROVE DeliveredAsSent'
  <2>1. start' = start /\ claim' = claim
    BY DEF Handle, CloseOnWrong, Deliver, CloseOnShort, Rearm
  <2>2. Orderly' <=> Orderly
    BY <2>1 DEF Orderly
  <2> QED
    BY <2>2 DEF DeliveredAsSent
<1> DEFINE k == Len(delivered) + 1
<1>1. Unread >= FieldSize => k \in DOMAIN claim /\ Peek = {claim[k]}
  BY PeekNext
<1>2. k \in DOMAIN claim => claim[k] \in HeadSize .. Size /\ start[k + 1] = start[k] + claim[k]
  BY DEF Orderly
<1>3. phase # "closed" /\ base + offset = start[k]
  BY DEF DeliveredAsSent
<1>4. /\ Len(delivered) \in Nat /\ delivered \in Seq(Nat) /\ DOMAIN delivered = 1 .. Len(delivered)
      /\ base \in Nat /\ offset \in Nat /\ length \in Nat /\ Unread \in Int
      /\ Size \in Nat /\ HeadSize \in Nat /\ FieldSize \in Nat
      /\ 0 < HeadSize /\ FieldSize <= HeadSize /\ HeadSize <= Size
  BY StreamAssumption DEF Inv, TypeOK, Unread
<1>5. ~ CloseOnWrong
  BY <1>1, <1>2, <1>4 DEF CloseOnWrong, WrongSize
<1>6. ~ CloseOnShort
  BY <1>1, <1>2, <1>4 DEF CloseOnShort
<1>7. CASE Deliver
  <2>1. /\ k \in DOMAIN claim /\ claim[k] <= Unread
        /\ offset' = offset + AfterPacket(claim[k])
        /\ delivered' = Append(delivered, Kept(claim[k]))
        /\ UNCHANGED <<start, claim, base, phase>>
    BY <1>1, <1>7 DEF Deliver
  <2>2. claim[k] \in 0 .. SizeLimit - 1 /\ claim[k] \in Nat
    BY <2>1, StreamAssumption DEF Inv, Wire
  <2>3. AfterPacket(claim[k]) = claim[k]
    BY <1>2, <1>4, <2>1, <2>2, DataSizes DEF AfterPacket, Read, Holds
  <2>4. start[k] \in Nat
    BY <1>3, <1>4
  <2>5. base' + offset' = start[k + 1]
    BY <1>2, <1>3, <1>4, <2>1, <2>2, <2>3, <2>4
  <2>6. /\ Len(delivered') = k
        /\ \A i \in 1 .. Len(delivered) : delivered'[i] = delivered[i]
        /\ delivered'[k] = claim[k]
        /\ DOMAIN delivered' = 1 .. k
    BY <1>4, <2>1, <2>2, KeptSize, AppendProperties
  <2>7. \A i \in DOMAIN delivered' : delivered'[i] = claim[i]
    BY <1>4, <2>6 DEF DeliveredAsSent
  <2>8. k <= Len(claim)
    BY <2>1 DEF Inv, TypeOK
  <2> QED
    BY <1>3, <2>1, <2>5, <2>6, <2>7, <2>8 DEF DeliveredAsSent
<1>8. CASE Rearm
  <2>1. Unread < Size
    BY <1>1, <1>2, <1>4, <1>8, StreamAssumption DEF Rearm, Incomplete
  <2>2. /\ phase' = "armed" /\ base' + offset' = base + offset
        /\ UNCHANGED <<start, claim, delivered>>
    BY <1>4, <1>8, <2>1 DEF Rearm, MoveRead, Unread, Room
  <2> QED
    BY <2>2 DEF DeliveredAsSent
<1> QED
  BY <1>5, <1>6, <1>7, <1>8 DEF Handle

\* The packets of a well-formed stream are delivered whole, in order and none
\* else, however the receives cut it, and the socket stays open.
THEOREM WholePackets == Spec => []DeliveredAsSent
<1>1. Init => DeliveredAsSent
  BY DEF Init, DeliveredAsSent
<1>2. Inv /\ DeliveredAsSent /\ [Next]_vars => DeliveredAsSent'
  <2> SUFFICES ASSUME Inv, DeliveredAsSent, [Next]_vars PROVE DeliveredAsSent'
    OBVIOUS
  <2>1. CASE SendPacket
    BY <2>1, SendPacketDelivered
  <2>2. ASSUME NEW n \in 1 .. Size, Receive(n) PROVE DeliveredAsSent'
    <3>1. phase' = "parse"
      BY <2>2, StreamAssumption DEF Inv, TypeOK, Receive, Update, Room
    <3> QED
      BY <2>2, <3>1 DEF DeliveredAsSent, Orderly, Receive
  <2>3. CASE Handle
    BY <2>3, HandleDelivered
  <2>4. CASE UNCHANGED vars
    BY <2>4 DEF vars, DeliveredAsSent, Orderly
  <2> QED
    BY <2>1, <2>2, <2>3, <2>4 DEF Next
<1> QED
  BY <1>1, <1>2, AlwaysInv, PTL DEF Spec
===============================================================================
