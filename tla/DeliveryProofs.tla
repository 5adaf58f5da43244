--------------------------- MODULE DeliveryProofs ---------------------------
(***************************************************************************)
(* What each method of the channel manager does to the messages, the seats *)
(* and the reservations, and the theorems about delivery that follow.      *)
(*                                                                         *)
(* The lemmas of the first part say of a method which of these it leaves   *)
(* alone and what it makes of the others; the theorems, here and in        *)
(* RelayProofs, are proved from those effects and never look into a method *)
(* again.                                                                  *)
(***************************************************************************)
EXTENDS ChannelManagerProofs

-----------------------------------------------------------------------------
(* Effects *)

\* The same channels, closed or not.
SameTable(m, n) ==
  /\ n.terminatedOrder = m.terminatedOrder
  /\ \A c \in Channels : Known(n, c) <=> Known(m, c)
  /\ \A c \in Channels : Known(m, c) =>
       /\ n.channels[c].terminated = m.channels[c].terminated
       /\ n.channels[c].terminatedAt = m.channels[c].terminatedAt

SameSeats(m, n) ==
  \A c \in Channels : Known(m, c) =>
    n.channels[c].participants = m.channels[c].participants

SameBuffers(m, n) ==
  \A c \in Channels : Known(m, c) =>
    n.channels[c].messageBuffer = m.channels[c].messageBuffer

SameNumbers(m, n) ==
  \A c \in Channels : Known(m, c) =>
    n.channels[c].seqNumbers = m.channels[c].seqNumbers

SameClocks(m, n) ==
  \A c \in Channels : Known(m, c) =>
    n.channels[c].lastActivity = m.channels[c].lastActivity

\* Only byte counts, reservations and clocks differ.
SameContent(m, n) ==
  SameTable(m, n) /\ SameSeats(m, n) /\ SameBuffers(m, n) /\ SameNumbers(m, n)

\* Only byte counts and reservations differ.
BytesOnly(m, n) == SameContent(m, n) /\ SameClocks(m, n)

\* n has the channels of m, but for the object ch at c.
Writes(m, n, c, ch) == n.channels = [m.channels EXCEPT ![c] = ch]

\* What it means to write one entry of the channels map.
LEMMA WriteFacts ==
  ASSUME NEW m, Sane(m), NEW c \in Channels, Known(m, c), NEW ch \in Channel, NEW n,
         Writes(m, n, c, ch)
  PROVE  /\ n.channels[c] = ch /\ Known(n, c)
         /\ \A d \in Channels \ {c} : n.channels[d] = m.channels[d]
         /\ \A d \in Channels : Known(n, d) <=> Known(m, d)
<1>1. m.channels \in [Channels -> Channel \cup {None}]
  BY DEF Sane, Manager
<1>2. n.channels[c] = ch /\ \A d \in Channels \ {c} : n.channels[d] = m.channels[d]
  BY <1>1 DEF Writes
<1> QED
  BY <1>2, NoneIsNoObject DEF Known

\* Writing an object with the same participants, buffer and sequence numbers.
LEMMA WriteContent ==
  ASSUME NEW m, Sane(m), NEW c \in Channels, Known(m, c), NEW ch \in Channel, NEW n,
         Writes(m, n, c, ch),
         n.terminatedOrder = m.terminatedOrder,
         ch.participants = m.channels[c].participants,
         ch.terminated = m.channels[c].terminated,
         ch.terminatedAt = m.channels[c].terminatedAt,
         ch.messageBuffer = m.channels[c].messageBuffer,
         ch.seqNumbers = m.channels[c].seqNumbers
  PROVE  /\ SameContent(m, n)
         /\ ch.lastActivity = m.channels[c].lastActivity => SameClocks(m, n)
<1>1. /\ n.channels[c] = ch /\ Known(n, c)
      /\ \A d \in Channels \ {c} : n.channels[d] = m.channels[d]
      /\ \A d \in Channels : Known(n, d) <=> Known(m, d)
  BY WriteFacts
<1>2. SameTable(m, n) /\ SameSeats(m, n)
  BY <1>1 DEF SameTable, SameSeats
<1>3. SameBuffers(m, n) /\ SameNumbers(m, n)
  BY <1>1 DEF SameBuffers, SameNumbers
<1>4. ch.lastActivity = m.channels[c].lastActivity => SameClocks(m, n)
  BY <1>1 DEF SameClocks
<1> QED
  BY <1>2, <1>3, <1>4 DEF SameContent

\* The same when the clock stays too.
LEMMA WriteBytes ==
  ASSUME NEW m, Sane(m), NEW c \in Channels, Known(m, c), NEW ch \in Channel, NEW n,
         Writes(m, n, c, ch),
         n.terminatedOrder = m.terminatedOrder,
         ch.participants = m.channels[c].participants,
         ch.terminated = m.channels[c].terminated,
         ch.terminatedAt = m.channels[c].terminatedAt,
         ch.messageBuffer = m.channels[c].messageBuffer,
         ch.seqNumbers = m.channels[c].seqNumbers,
         ch.lastActivity = m.channels[c].lastActivity
  PROVE  BytesOnly(m, n)
BY WriteContent DEF BytesOnly

\* releaseDirectDelivery takes the reservation of one socket, and bytes.
LEMMA ReleaseDirectDeliveryEffects ==
  ASSUME NEW m, Sane(m), NEW s \in Sockets
  PROVE  LET n == ReleaseDirectDelivery(m, s)
         IN  /\ BytesOnly(m, n)
             /\ n.directDeliveries = [m.directDeliveries EXCEPT ![s] = None]
<1> DEFINE r == m.directDeliveries[s]
           released == [m EXCEPT !.directDeliveries[s] = None,
                                 !.totalDirectInflightBytes = Minus(@, r.sizeBytes),
                                 !.bufferedBytesByIp[r.sourceIp] = Minus(@, r.sizeBytes)]
           c == r.channel
           ch == [m.channels[c] EXCEPT !.directInflightBytes = Minus(@, r.sizeBytes)]
           n == ReleaseDirectDelivery(m, s)
<1>1. m \in Manager /\ Linked(m)
  BY DEF Sane
<1>2. CASE r = None
  <2>1. n = m
    BY <1>2 DEF ReleaseDirectDelivery
  <2>2. m.directDeliveries = [m.directDeliveries EXCEPT ![s] = None]
    BY <1>1, <1>2 DEF Manager
  <2>3. BytesOnly(m, m)
    BY DEF BytesOnly, SameContent, SameTable, SameSeats, SameBuffers, SameNumbers, SameClocks
  <2> QED
    BY <2>1, <2>2, <2>3
<1>3. CASE r # None
  <2>1. r \in Reservation
    BY <1>1, <1>3 DEF Manager
  <2>2. /\ released.channels = m.channels /\ released.terminatedOrder = m.terminatedOrder
        /\ released.directDeliveries = [m.directDeliveries EXCEPT ![s] = None]
    BY <1>1 DEF Manager
  <2>3. CASE r.channel = None
    <3>1. n = released
      BY <1>3, <2>3 DEF ReleaseDirectDelivery
    <3> HIDE DEF n, released
    <3>2. BytesOnly(m, n)
      BY <2>2, <3>1 DEF BytesOnly, SameContent, SameTable, SameSeats, SameBuffers, SameNumbers,
                           SameClocks, Known
    <3> QED
      BY <2>2, <3>1, <3>2 DEF n
  <2>4. CASE r.channel # None
    <3>1. c \in Channels /\ Known(m, c)
      BY <1>1, <1>3, <2>1, <2>4 DEF Linked, Reservation
    <3>2. m.channels[c] \in Channel
      <4> HIDE DEF r
      <4> QED
        BY <3>1, KnownType
    <3>3. ch \in Channel
      BY <2>1, <3>2, MinusType, ConstantsAssumption DEF Channel, Reservation
    <3>4. n = [released EXCEPT !.channels[c] = ch]
      BY <1>3, <2>2, <2>4 DEF ReleaseDirectDelivery
    <3>5. /\ ch.participants = m.channels[c].participants
          /\ ch.terminated = m.channels[c].terminated
          /\ ch.terminatedAt = m.channels[c].terminatedAt
          /\ ch.messageBuffer = m.channels[c].messageBuffer
          /\ ch.seqNumbers = m.channels[c].seqNumbers
          /\ ch.lastActivity = m.channels[c].lastActivity
      BY <3>2 DEF Channel
    <3>6. released \in Manager
      BY <1>1, <1>3, <2>1, MinusType, ConstantsAssumption DEF Manager, Reservation
    <3> HIDE DEF released, ch, c, r, n
    <3>7. /\ Writes(m, n, c, ch)
          /\ n.terminatedOrder = m.terminatedOrder
          /\ n.directDeliveries = released.directDeliveries
      BY <2>2, <3>4, <3>6 DEF Manager, Writes
    <3>8. BytesOnly(m, n)
      BY <3>1, <3>3, <3>5, <3>7, WriteBytes
    <3> QED
      BY <2>2, <3>7, <3>8 DEF n
  <2> QED
    BY <2>3, <2>4
<1> QED
  BY <1>2, <1>3

\* releaseBufferedBytes takes bytes only.
LEMMA ReleaseBufferedEffects ==
  ASSUME NEW m, Sane(m), NEW c \in Channels, Known(m, c), NEW q \in Seq(Message)
  PROVE  LET n == ReleaseBuffered(m, c, q)
         IN  BytesOnly(m, n) /\ n.directDeliveries = m.directDeliveries
<1> DEFINE ch == [m.channels[c] EXCEPT !.bufferedBytes = Minus(@, Bytes(q))]
           n == ReleaseBuffered(m, c, q)
           perIp == [ip \in Ips |-> Minus(m.bufferedBytesByIp[ip], BytesFrom(q, ip))]
<1>1. m \in Manager /\ m.channels[c] \in Channel
  BY KnownType DEF Sane
<1>2. Bytes(q) \in Nat /\ \A ip : BytesFrom(q, ip) \in Nat
  BY MessageBytes
<1>3. ch \in Channel
  BY <1>1, <1>2, MinusType DEF Channel
<1>4. /\ ch.participants = m.channels[c].participants
      /\ ch.terminated = m.channels[c].terminated
      /\ ch.terminatedAt = m.channels[c].terminatedAt
      /\ ch.messageBuffer = m.channels[c].messageBuffer
      /\ ch.seqNumbers = m.channels[c].seqNumbers
      /\ ch.lastActivity = m.channels[c].lastActivity
  BY <1>1 DEF Channel
<1>5. n = [m EXCEPT !.channels[c] = ch, !.totalBufferedBytes = Minus(@, Bytes(q)),
                    !.bufferedBytesByIp = perIp]
  BY DEF ReleaseBuffered
<1> HIDE DEF ch, perIp, n
<1>6. /\ Writes(m, n, c, ch)
      /\ n.terminatedOrder = m.terminatedOrder
      /\ n.directDeliveries = m.directDeliveries
  BY <1>1, <1>5 DEF Manager, Writes
<1>7. BytesOnly(m, n)
  BY <1>3, <1>4, <1>6, WriteBytes
<1> QED
  BY <1>6, <1>7 DEF n

\* Reserving a delivery sets the reservation of its target, and adds bytes.
LEMMA ReserveDirectEffects ==
  ASSUME NEW m, Sane(m), NEW c \in Channels, Known(m, c),
         NEW target \in Sockets, NEW ip \in Ips, NEW size \in Sizes
  PROVE  LET n == ReserveDirect(m, target, c, ip, size)
         IN  /\ BytesOnly(m, n)
             /\ n.directDeliveries =
                  [m.directDeliveries EXCEPT
                     ![target] = [channel |-> c, sourceIp |-> ip, sizeBytes |-> size]]
<1> DEFINE ch == [m.channels[c] EXCEPT !.directInflightBytes = @ + size]
           r == [channel |-> c, sourceIp |-> ip, sizeBytes |-> size]
           n == ReserveDirect(m, target, c, ip, size)
           x == m.channels[c].directInflightBytes + size
<1>1. m \in Manager /\ m.channels[c] \in Channel /\ size \in Nat
  BY KnownType, ConstantsAssumption DEF Sane
<1>2. x \in Nat
  <2>1. m.channels[c].directInflightBytes \in Nat
    BY <1>1 DEF Channel
  <2> QED
    BY <1>1, <2>1
<1>3. ch = [m.channels[c] EXCEPT !.directInflightBytes = x]
  OBVIOUS
<1>4. n = [m EXCEPT !.directDeliveries[target] = r, !.channels[c] = ch,
                    !.totalDirectInflightBytes = @ + size,
                    !.bufferedBytesByIp[ip] = @ + size]
  BY DEF ReserveDirect
<1> HIDE DEF x, ch, r, n
<1>5. /\ ch \in Channel
      /\ ch.participants = m.channels[c].participants
      /\ ch.terminated = m.channels[c].terminated
      /\ ch.terminatedAt = m.channels[c].terminatedAt
      /\ ch.messageBuffer = m.channels[c].messageBuffer
      /\ ch.seqNumbers = m.channels[c].seqNumbers
      /\ ch.lastActivity = m.channels[c].lastActivity
  BY <1>1, <1>2, <1>3 DEF Channel
<1>6. /\ Writes(m, n, c, ch)
      /\ n.terminatedOrder = m.terminatedOrder
      /\ n.directDeliveries = [m.directDeliveries EXCEPT ![target] = r]
  BY <1>1, <1>4 DEF Manager, Writes
<1>7. BytesOnly(m, n)
  BY <1>5, <1>6, WriteBytes
<1> QED
  BY <1>6, <1>7 DEF n, r

\* Recording a sequence number sets that of one socket.
LEMMA TakeSeqEffects ==
  ASSUME NEW m, Sane(m), NEW c \in Channels, Known(m, c), NEW s \in Sockets,
         NEW data \in Payload
  PROVE  LET n == TakeSeq(m, c, s, data)
         IN  /\ SameTable(m, n) /\ SameSeats(m, n) /\ SameBuffers(m, n) /\ SameClocks(m, n)
             /\ n.directDeliveries = m.directDeliveries
             /\ \A d \in Channels, t \in Sockets : Known(m, d) =>
                  \/ n.channels[d].seqNumbers[t] = m.channels[d].seqNumbers[t]
                  \/ /\ d = c /\ t = s /\ data.seq # None
                     /\ n.channels[d].seqNumbers[t] = data.seq
<1> DEFINE n == TakeSeq(m, c, s, data)
           ch == [m.channels[c] EXCEPT !.seqNumbers[s] = data.seq]
<1>1. CASE data.seq = None
  <2>1. n = m
    BY <1>1 DEF TakeSeq
  <2> QED
    BY <2>1 DEF SameTable, SameSeats, SameBuffers, SameClocks
<1>2. CASE data.seq # None
  <2>1. m \in Manager /\ m.channels[c] \in Channel /\ data.seq \in Nat
    BY <1>2, KnownType, ConstantsAssumption DEF Payload, Sane
  <2>2. /\ ch \in Channel
        /\ ch.participants = m.channels[c].participants
        /\ ch.terminated = m.channels[c].terminated
        /\ ch.terminatedAt = m.channels[c].terminatedAt
        /\ ch.messageBuffer = m.channels[c].messageBuffer
        /\ ch.lastActivity = m.channels[c].lastActivity
        /\ ch.seqNumbers = [m.channels[c].seqNumbers EXCEPT ![s] = data.seq]
    BY <2>1 DEF Channel
  <2>3. n = [m EXCEPT !.channels[c] = ch]
    BY <1>2 DEF TakeSeq
  <2> HIDE DEF ch, n
  <2>4. /\ Writes(m, n, c, ch)
        /\ n.terminatedOrder = m.terminatedOrder
        /\ n.directDeliveries = m.directDeliveries
    BY <2>1, <2>3 DEF Manager, Writes
  <2>5. /\ n.channels[c] = ch /\ Known(n, c)
        /\ \A d \in Channels \ {c} : n.channels[d] = m.channels[d]
        /\ \A d \in Channels : Known(n, d) <=> Known(m, d)
    BY <2>2, <2>4, WriteFacts
  <2>6. SameTable(m, n) /\ SameSeats(m, n) /\ SameBuffers(m, n) /\ SameClocks(m, n)
    BY <2>2, <2>4, <2>5 DEF SameTable, SameSeats, SameBuffers, SameClocks
  <2>7. \A t \in Sockets : ch.seqNumbers[t] =
                             IF t = s THEN data.seq ELSE m.channels[c].seqNumbers[t]
    BY <2>1, <2>2 DEF Channel
  <2>8. ASSUME NEW d \in Channels, NEW t \in Sockets, Known(m, d)
        PROVE  \/ n.channels[d].seqNumbers[t] = m.channels[d].seqNumbers[t]
               \/ /\ d = c /\ t = s /\ data.seq # None
                  /\ n.channels[d].seqNumbers[t] = data.seq
    BY <1>2, <2>5, <2>7
  <2> QED
    BY <2>4, <2>6, <2>8 DEF n
<1> QED
  BY <1>1, <1>2

\* The message that routeMessage buffers.
MessageOf(data, ip, time) ==
  [id |-> data.id, targetClientType |-> OtherRole(data.clientType),
   timestamp |-> time, sizeBytes |-> data.sizeBytes, sourceIp |-> ip]

\* The buffer once a message has been appended and an old one, perhaps, displaced.
Pushed(ch, message) ==
  Append(SubSeq(ch.messageBuffer, Len(Displaced(ch)) + 1, Len(ch.messageBuffer)), message)

\* Buffering a message changes one buffer.
LEMMA BufferMessageEffects ==
  ASSUME NEW m, Sane(m), NEW c \in Channels, Known(m, c), NEW data \in Payload,
         NEW ip \in Ips, NEW time \in Nat
  PROVE  LET n == BufferMessage(m, c, data, ip, time)
         IN  /\ SameTable(m, n) /\ SameSeats(m, n) /\ SameNumbers(m, n) /\ SameClocks(m, n)
             /\ n.directDeliveries = m.directDeliveries
             /\ MessageOf(data, ip, time) \in Message
             /\ n.channels[c].messageBuffer = Pushed(m.channels[c], MessageOf(data, ip, time))
             /\ \A d \in Channels \ {c} : Known(m, d) =>
                  n.channels[d].messageBuffer = m.channels[d].messageBuffer
<1> DEFINE out == Displaced(m.channels[c])
           message == MessageOf(data, ip, time)
           rest == SubSeq(m.channels[c].messageBuffer, Len(out) + 1,
                          Len(m.channels[c].messageBuffer))
           ch1 == [m.channels[c] EXCEPT !.messageBuffer = rest]
           shifted == [m EXCEPT !.channels[c] = ch1]
           freed == ReleaseBuffered(shifted, c, out)
           size == data.sizeBytes
           ch2 == Enqueue(freed.channels[c], message)
           n == BufferMessage(m, c, data, ip, time)
<1>1. m \in Manager /\ m.channels[c] \in Channel
  BY KnownType DEF Sane
<1>2. size \in Sizes /\ size \in Nat /\ message \in Message
  BY ConstantsAssumption DEF Payload, Message, OtherRole, Roles, MessageOf
<1>3. rest \in Seq(Message) /\ out \in Seq(Message)
  BY <1>1, DisplacedType
<1>4. n = [freed EXCEPT !.channels[c] = Enqueue(@, message),
                        !.totalBufferedBytes = @ + size,
                        !.bufferedBytesByIp[ip] = @ + size]
  BY DEF BufferMessage, MessageOf
<1> HIDE DEF freed, shifted, out, ch1, n, message, size, rest
<1>5. /\ ch1 \in Channel /\ Keeps(m.channels[c], ch1)
      /\ ch1.participants = m.channels[c].participants
      /\ ch1.terminated = m.channels[c].terminated
      /\ ch1.terminatedAt = m.channels[c].terminatedAt
      /\ ch1.seqNumbers = m.channels[c].seqNumbers
      /\ ch1.lastActivity = m.channels[c].lastActivity
      /\ ch1.messageBuffer = rest
  BY <1>1, <1>3 DEF Channel, ch1, Keeps
<1>6. /\ Step(m, shifted) /\ Known(shifted, c) /\ shifted.channels[c] = ch1
      /\ shifted.directDeliveries = m.directDeliveries
  BY <1>5, RewriteStep DEF shifted
<1>7. /\ Writes(m, shifted, c, ch1)
      /\ shifted.terminatedOrder = m.terminatedOrder
  BY <1>1 DEF shifted, Manager, Writes
<1>8. Sane(shifted)
  BY <1>6 DEF Step
<1>9. BytesOnly(shifted, freed) /\ freed.directDeliveries = shifted.directDeliveries
  BY <1>3, <1>6, <1>8, ReleaseBufferedEffects DEF freed
<1>10. Step(shifted, freed)
  BY <1>3, <1>6, <1>8, ReleaseBufferedStep DEF freed
<1>11. Sane(freed) /\ Known(freed, c)
  BY <1>6, <1>10 DEF Step, SameTombstones
<1>12. freed \in Manager /\ freed.channels[c] \in Channel
  BY <1>11, KnownType DEF Sane
<1>13. /\ ch2 \in Channel
       /\ ch2.participants = freed.channels[c].participants
       /\ ch2.terminated = freed.channels[c].terminated
       /\ ch2.terminatedAt = freed.channels[c].terminatedAt
       /\ ch2.seqNumbers = freed.channels[c].seqNumbers
       /\ ch2.lastActivity = freed.channels[c].lastActivity
       /\ ch2.messageBuffer = Append(freed.channels[c].messageBuffer, message)
  <2>1. ch2 \in Channel
    BY <1>2, <1>12, EnqueueFacts
  <2>2. freed.channels[c] \in Channel
    BY <1>12
  <2> QED
    BY <2>1, <2>2 DEF Enqueue, Channel
<1> HIDE DEF ch2
<1>14. /\ Writes(freed, n, c, ch2)
       /\ n.terminatedOrder = freed.terminatedOrder
       /\ n.directDeliveries = freed.directDeliveries
  BY <1>4, <1>12 DEF Manager, ch2, Writes
<1>15. /\ n.channels[c] = ch2 /\ Known(n, c)
       /\ \A d \in Channels \ {c} : n.channels[d] = freed.channels[d]
       /\ \A d \in Channels : Known(n, d) <=> Known(freed, d)
  BY <1>11, <1>13, <1>14, WriteFacts
<1>16. /\ \A d \in Channels \ {c} : shifted.channels[d] = m.channels[d]
       /\ \A d \in Channels : Known(shifted, d) <=> Known(m, d)
  BY <1>5, <1>7, WriteFacts
<1>17. SameTable(m, n) /\ SameSeats(m, n) /\ SameNumbers(m, n) /\ SameClocks(m, n)
  <2>1. /\ SameTable(m, shifted) /\ SameSeats(m, shifted) /\ SameNumbers(m, shifted)
        /\ SameClocks(m, shifted)
    BY <1>5, <1>6, <1>7, <1>16 DEF SameTable, SameSeats, SameNumbers, SameClocks
  <2>2. /\ SameTable(shifted, freed) /\ SameSeats(shifted, freed) /\ SameNumbers(shifted, freed)
        /\ SameClocks(shifted, freed)
    BY <1>9 DEF BytesOnly, SameContent
  <2>3. /\ SameTable(freed, n) /\ SameSeats(freed, n) /\ SameNumbers(freed, n)
        /\ SameClocks(freed, n)
    BY <1>13, <1>14, <1>15 DEF SameTable, SameSeats, SameNumbers, SameClocks
  <2> QED
    BY <2>1, <2>2, <2>3 DEF SameTable, SameSeats, SameNumbers, SameClocks
<1>18. SameBuffers(shifted, freed)
  BY <1>9 DEF BytesOnly, SameContent
<1>19. n.channels[c].messageBuffer = Append(rest, message)
  BY <1>5, <1>6, <1>13, <1>15, <1>18 DEF SameBuffers
<1>20. \A d \in Channels \ {c} : Known(m, d) =>
         n.channels[d].messageBuffer = m.channels[d].messageBuffer
  BY <1>15, <1>16, <1>18 DEF SameBuffers
<1>21. n.directDeliveries = m.directDeliveries
  BY <1>6, <1>9, <1>14
<1> QED
  BY <1>2, <1>17, <1>19, <1>20, <1>21 DEF n, Pushed, rest, out, message

-----------------------------------------------------------------------------
(* routeMessage *)

Touched(m, c, time) == [m EXCEPT !.channels[c].lastActivity = time]

\* The clock of c, and no other, shows time.
Clocked(m, n, c, time) ==
  \A d \in Channels : Known(m, d) =>
    n.channels[d].lastActivity = IF d = c THEN time ELSE m.channels[d].lastActivity

\* A routed message, refused or not, is activity of its channel.
LEMMA TouchedEffects ==
  ASSUME NEW m, Sane(m), NEW c \in Channels, Known(m, c), NEW time \in Nat
  PROVE  LET n == Touched(m, c, time)
         IN  /\ Step(m, n) /\ Known(n, c) /\ SameContent(m, n) /\ Clocked(m, n, c, time)
             /\ n.directDeliveries = m.directDeliveries
<1> DEFINE ch == [m.channels[c] EXCEPT !.lastActivity = time]
           n == Touched(m, c, time)
<1>1. m \in Manager /\ m.channels[c] \in Channel
  BY KnownType DEF Sane
<1>2. n = [m EXCEPT !.channels[c] = ch]
  BY DEF Touched
<1>3. /\ ch \in Channel /\ Keeps(m.channels[c], ch)
      /\ ch.participants = m.channels[c].participants
      /\ ch.terminated = m.channels[c].terminated
      /\ ch.terminatedAt = m.channels[c].terminatedAt
      /\ ch.messageBuffer = m.channels[c].messageBuffer
      /\ ch.seqNumbers = m.channels[c].seqNumbers
      /\ ch.lastActivity = time
  BY <1>1 DEF Channel, Keeps
<1> HIDE DEF ch, n
<1>4. Writes(m, n, c, ch) /\ n.terminatedOrder = m.terminatedOrder
  BY <1>1, <1>2 DEF Manager, Writes
<1>5. SameContent(m, n)
  BY <1>3, <1>4, WriteContent
<1>6. Clocked(m, n, c, time)
  <2>1. /\ n.channels[c] = ch
        /\ \A d \in Channels \ {c} : n.channels[d] = m.channels[d]
    BY <1>3, <1>4, WriteFacts
  <2> QED
    BY <1>3, <2>1 DEF Clocked
<1>7. Step(m, n) /\ Known(n, c) /\ n.directDeliveries = m.directDeliveries
  BY <1>2, <1>3, RewriteStep
<1> QED
  BY <1>5, <1>6, <1>7 DEF n

\* The ways routeMessage can end.
LEMMA RouteKinds ==
  ASSUME NEW m, NEW c, NEW s, NEW data, NEW ip, NEW receptive, NEW time
  PROVE  LET result == RouteMessage(m, c, s, data, ip, receptive, time)
             target == Counterparty(m.channels[c], s)
             size == data.sizeBytes
             touched == Touched(m, c, time)
         IN  \/ /\ result.status = "error" /\ result.mgr = m /\ result.target = None
             \/ /\ result.status = "error" /\ ~ Unroutable(m, c, s, data)
                /\ result.mgr = touched /\ result.target \in {None, target}
             \/ /\ result.status = "direct" /\ ~ Unroutable(m, c, s, data)
                /\ ~ IsReplay(m.channels[c], s, data)
                /\ CanSendDirect(m, c, target, ip, size, receptive)
                /\ result.mgr = TakeSeq(ReserveDirect(touched, target, c, ip, size), c, s, data)
                /\ result.target = target
             \/ /\ result.status = "buffered" /\ ~ Unroutable(m, c, s, data)
                /\ ~ IsReplay(m.channels[c], s, data)
                /\ FitsBuffer(m, c, ip, size)
                /\ result.mgr = TakeSeq(BufferMessage(touched, c, data, ip, time), c, s, data)
                /\ result.target = target
<1>1. CASE Unroutable(m, c, s, data)
  BY <1>1 DEF RouteMessage
<1>2. CASE ~ Unroutable(m, c, s, data) /\ IsReplay(m.channels[c], s, data)
  BY <1>2 DEF RouteMessage, Touched
<1>3. CASE ~ Unroutable(m, c, s, data) /\ ~ IsReplay(m.channels[c], s, data)
  <2> DEFINE target == Counterparty(m.channels[c], s)
             size == data.sizeBytes
  <2>1. CASE CanSendDirect(m, c, target, ip, size, receptive)
    BY <1>3, <2>1 DEF RouteMessage, Touched
  <2>2. CASE ~ CanSendDirect(m, c, target, ip, size, receptive) /\ FitsBuffer(m, c, ip, size)
    BY <1>3, <2>2 DEF RouteMessage, Touched
  <2>3. CASE ~ CanSendDirect(m, c, target, ip, size, receptive) /\ ~ FitsBuffer(m, c, ip, size)
    BY <1>3, <2>3 DEF RouteMessage, Touched
  <2> QED
    BY <2>1, <2>2, <2>3
<1> QED
  BY <1>1, <1>2, <1>3

\* Sequence numbers move only for the sender, forward, and with a message.
NumberMoves(m, n, c, s, data) ==
  \A d \in Channels, t \in Sockets : Known(m, d) =>
    \/ n.channels[d].seqNumbers[t] = m.channels[d].seqNumbers[t]
    \/ /\ d = c /\ t = s /\ data.seq # None
       /\ n.channels[d].seqNumbers[t] = data.seq

\* A direct delivery reserves its target.
LEMMA DirectEffects ==
  ASSUME NEW m, Sane(m), NEW c \in Channels, Known(m, c), NEW s \in Sockets,
         NEW data \in Payload, NEW ip \in Ips, NEW time \in Nat, NEW target \in Sockets
  PROVE  LET n == TakeSeq(ReserveDirect(Touched(m, c, time), target, c, ip, data.sizeBytes),
                          c, s, data)
         IN  /\ SameTable(m, n) /\ SameSeats(m, n) /\ SameBuffers(m, n)
             /\ NumberMoves(m, n, c, s, data) /\ Clocked(m, n, c, time)
             /\ n.directDeliveries =
                  [m.directDeliveries EXCEPT
                     ![target] = [channel |-> c, sourceIp |-> ip, sizeBytes |-> data.sizeBytes]]
<1> DEFINE touched == Touched(m, c, time)
           reserved == ReserveDirect(touched, target, c, ip, data.sizeBytes)
           n == TakeSeq(reserved, c, s, data)
<1>1. data.sizeBytes \in Sizes
  BY DEF Payload
<1>2. /\ Step(m, touched) /\ Known(touched, c) /\ SameContent(m, touched)
      /\ Clocked(m, touched, c, time)
      /\ touched.directDeliveries = m.directDeliveries
  BY TouchedEffects
<1> HIDE DEF touched
<1>3. /\ Step(touched, reserved) /\ BytesOnly(touched, reserved)
      /\ reserved.directDeliveries =
           [touched.directDeliveries EXCEPT
              ![target] = [channel |-> c, sourceIp |-> ip, sizeBytes |-> data.sizeBytes]]
  BY <1>1, <1>2, ReserveDirectStep, ReserveDirectEffects DEF Step
<1> HIDE DEF reserved
<1>4. Sane(reserved) /\ Known(reserved, c)
  BY <1>2, <1>3 DEF Step, SameTombstones
<1>5. SameContent(m, reserved) /\ Clocked(m, reserved, c, time)
  BY <1>2, <1>3 DEF BytesOnly, SameContent, SameTable, SameSeats, SameBuffers, SameNumbers,
                    SameClocks, Clocked
<1>6. /\ SameTable(reserved, n) /\ SameSeats(reserved, n) /\ SameBuffers(reserved, n)
      /\ SameClocks(reserved, n)
      /\ n.directDeliveries = reserved.directDeliveries
      /\ NumberMoves(reserved, n, c, s, data)
  BY <1>4, TakeSeqEffects DEF NumberMoves
<1> HIDE DEF n
<1>7. SameTable(m, n) /\ SameSeats(m, n) /\ SameBuffers(m, n)
  BY <1>5, <1>6 DEF SameContent, SameTable, SameSeats, SameBuffers
<1>8. NumberMoves(m, n, c, s, data) /\ Clocked(m, n, c, time)
  BY <1>5, <1>6 DEF SameContent, SameTable, SameNumbers, SameClocks, NumberMoves, Clocked
<1> QED
  BY <1>2, <1>3, <1>6, <1>7, <1>8 DEF n, reserved, touched

\* A buffered message changes one buffer.
LEMMA BufferedEffects ==
  ASSUME NEW m, Sane(m), NEW c \in Channels, Known(m, c), NEW s \in Sockets,
         NEW data \in Payload, NEW ip \in Ips, NEW time \in Nat
  PROVE  LET n == TakeSeq(BufferMessage(Touched(m, c, time), c, data, ip, time), c, s, data)
         IN  /\ SameTable(m, n) /\ SameSeats(m, n)
             /\ NumberMoves(m, n, c, s, data) /\ Clocked(m, n, c, time)
             /\ n.directDeliveries = m.directDeliveries
             /\ MessageOf(data, ip, time) \in Message
             /\ n.channels[c].messageBuffer = Pushed(m.channels[c], MessageOf(data, ip, time))
             /\ \A d \in Channels \ {c} : Known(m, d) =>
                  n.channels[d].messageBuffer = m.channels[d].messageBuffer
<1> DEFINE touched == Touched(m, c, time)
           pushed == BufferMessage(touched, c, data, ip, time)
           n == TakeSeq(pushed, c, s, data)
           message == MessageOf(data, ip, time)
<1>1. /\ Step(m, touched) /\ Known(touched, c) /\ SameContent(m, touched)
      /\ Clocked(m, touched, c, time)
      /\ touched.directDeliveries = m.directDeliveries
  BY TouchedEffects
<1> HIDE DEF touched
<1>2. Sane(touched)
  BY <1>1 DEF Step
<1>3. /\ SameTable(touched, pushed) /\ SameSeats(touched, pushed) /\ SameNumbers(touched, pushed)
      /\ SameClocks(touched, pushed)
      /\ pushed.directDeliveries = touched.directDeliveries
      /\ message \in Message
      /\ pushed.channels[c].messageBuffer = Pushed(touched.channels[c], message)
      /\ \A d \in Channels \ {c} : Known(touched, d) =>
           pushed.channels[d].messageBuffer = touched.channels[d].messageBuffer
  BY <1>1, <1>2, BufferMessageEffects
<1>4. Step(touched, pushed)
  BY <1>1, <1>2, BufferMessageStep
<1> HIDE DEF pushed
<1>5. Sane(pushed) /\ Known(pushed, c)
  BY <1>1, <1>4 DEF Step, SameTombstones
<1>6. /\ SameTable(pushed, n) /\ SameSeats(pushed, n) /\ SameBuffers(pushed, n)
      /\ SameClocks(pushed, n)
      /\ n.directDeliveries = pushed.directDeliveries
      /\ NumberMoves(pushed, n, c, s, data)
  BY <1>5, TakeSeqEffects DEF NumberMoves
<1> HIDE DEF n
<1>7. SameTable(m, n) /\ SameSeats(m, n)
  BY <1>1, <1>3, <1>6 DEF SameContent, SameTable, SameSeats
<1>8. NumberMoves(m, n, c, s, data) /\ Clocked(m, n, c, time)
  BY <1>1, <1>3, <1>6 DEF SameContent, SameTable, SameNumbers, SameClocks, NumberMoves, Clocked
<1>9. touched.channels[c].messageBuffer = m.channels[c].messageBuffer
  BY <1>1 DEF SameContent, SameBuffers
<1>10. Pushed(touched.channels[c], message) = Pushed(m.channels[c], message)
  BY <1>9 DEF Pushed, Displaced
<1>11. n.channels[c].messageBuffer = Pushed(m.channels[c], message)
  BY <1>3, <1>5, <1>6, <1>10 DEF SameBuffers
<1>12. \A d \in Channels \ {c} : Known(m, d) =>
         n.channels[d].messageBuffer = m.channels[d].messageBuffer
  BY <1>1, <1>3, <1>6 DEF SameContent, SameTable, SameBuffers
<1> QED
  BY <1>1, <1>3, <1>6, <1>7, <1>8, <1>11, <1>12 DEF n, pushed, touched, message

-----------------------------------------------------------------------------
(* leave and the drain *)

\* leave takes the seat and the sequence number of one socket, and nothing else.
LEMMA LeaveEffects ==
  ASSUME NEW m, Sane(m), NEW c \in Channels, NEW s \in Sockets, NEW time \in Nat
  PROVE  LET n == Leave(m, c, s, time)
         IN  /\ SameTable(m, n) /\ SameBuffers(m, n)
             /\ n.directDeliveries = m.directDeliveries
             /\ \A d \in Channels, t \in Sockets : Known(m, d) =>
                  /\ n.channels[d].participants[t] =
                       IF d = c /\ t = s THEN None ELSE m.channels[d].participants[t]
                  /\ \/ n.channels[d].seqNumbers[t] = m.channels[d].seqNumbers[t]
                     \/ d = c /\ t = s /\ n.channels[d].seqNumbers[t] = -1
             /\ \A d \in Channels : Known(m, d) =>
                  n.channels[d].lastActivity \in
                    {m.channels[d].lastActivity, IF d = c THEN time ELSE m.channels[d].lastActivity}
<1> DEFINE n == Leave(m, c, s, time)
           ch == [m.channels[c] EXCEPT !.participants[s] = None, !.seqNumbers[s] = -1,
                                       !.lastActivity = time]
<1>1. CASE ~ IsMember(m, c, s)
  <2>1. n = m
    BY <1>1 DEF Leave
  <2>2. Known(m, c) => m.channels[c].participants[s] = None
    BY <1>1 DEF IsMember
  <2> QED
    BY <2>1, <2>2 DEF SameTable, SameBuffers
<1>2. CASE IsMember(m, c, s)
  <2>1. m \in Manager /\ Known(m, c) /\ m.channels[c] \in Channel
    BY <1>2, KnownType DEF IsMember, Sane
  <2>2. /\ ch \in Channel
        /\ ch.participants = [m.channels[c].participants EXCEPT ![s] = None]
        /\ ch.seqNumbers = [m.channels[c].seqNumbers EXCEPT ![s] = -1]
        /\ ch.terminated = m.channels[c].terminated
        /\ ch.terminatedAt = m.channels[c].terminatedAt
        /\ ch.messageBuffer = m.channels[c].messageBuffer
        /\ ch.lastActivity = time
    BY <2>1 DEF Channel
  <2>3. n = [m EXCEPT !.channels[c] = ch]
    BY <1>2 DEF Leave
  <2> HIDE DEF ch, n
  <2>4. /\ Writes(m, n, c, ch)
        /\ n.terminatedOrder = m.terminatedOrder
        /\ n.directDeliveries = m.directDeliveries
    BY <2>1, <2>3 DEF Manager, Writes
  <2>5. /\ n.channels[c] = ch /\ Known(n, c)
        /\ \A d \in Channels \ {c} : n.channels[d] = m.channels[d]
        /\ \A d \in Channels : Known(n, d) <=> Known(m, d)
    BY <2>1, <2>2, <2>4, WriteFacts
  <2>6. SameTable(m, n) /\ SameBuffers(m, n)
    BY <2>2, <2>4, <2>5 DEF SameTable, SameBuffers
  <2>7. \A t \in Sockets :
          /\ ch.participants[t] = IF t = s THEN None ELSE m.channels[c].participants[t]
          /\ ch.seqNumbers[t] = IF t = s THEN -1 ELSE m.channels[c].seqNumbers[t]
    BY <2>1, <2>2 DEF Channel
  <2>8. ASSUME NEW d \in Channels, NEW t \in Sockets, Known(m, d)
        PROVE  /\ n.channels[d].participants[t] =
                    IF d = c /\ t = s THEN None ELSE m.channels[d].participants[t]
               /\ \/ n.channels[d].seqNumbers[t] = m.channels[d].seqNumbers[t]
                  \/ d = c /\ t = s /\ n.channels[d].seqNumbers[t] = -1
    <3>1. CASE d = c
      BY <2>5, <2>7, <3>1
    <3>2. CASE d # c
      BY <2>5, <3>2
    <3> QED
      BY <3>1, <3>2
  <2>9. ASSUME NEW d \in Channels, Known(m, d)
        PROVE  n.channels[d].lastActivity \in
                 {m.channels[d].lastActivity, IF d = c THEN time ELSE m.channels[d].lastActivity}
    BY <2>2, <2>5
  <2> QED
    BY <2>4, <2>6, <2>8, <2>9 DEF n
<1> QED
  BY <1>1, <1>2

\* A drain that finds nothing to promote takes the reservation; one that does moves
\* the first message for its socket from the buffer into a new reservation.
LEMMA AdvanceDirectDeliveryEffects ==
  ASSUME NEW m, Sane(m), NEW s \in Sockets
  PROVE  LET r == m.directDeliveries[s]
             c == r.channel
             a == AdvanceDirectDelivery(m, s)
             n == a.mgr
         IN  /\ SameTable(m, n) /\ SameSeats(m, n) /\ SameNumbers(m, n) /\ SameClocks(m, n)
             /\ a.next = None =>
                  /\ Promotable(m, s) = {} /\ SameBuffers(m, n)
                  /\ n.directDeliveries = [m.directDeliveries EXCEPT ![s] = None]
             /\ a.next # None =>
                  /\ r # None /\ c \in Channels /\ Known(m, c)
                  /\ a.next = First(m.channels[c].messageBuffer, Promotable(m, s))
                  /\ a.next \in Promotable(m, s) /\ a.next \in Message
                  /\ n.directDeliveries =
                       [m.directDeliveries EXCEPT
                          ![s] = [channel |-> c, sourceIp |-> a.next.sourceIp,
                                  sizeBytes |-> a.next.sizeBytes]]
                  /\ n.channels[c].messageBuffer =
                       Keep(m.channels[c].messageBuffer,
                            Range(m.channels[c].messageBuffer) \ {a.next})
                  /\ \A d \in Channels \ {c} : Known(m, d) =>
                       n.channels[d].messageBuffer = m.channels[d].messageBuffer
<1> DEFINE r == m.directDeliveries[s]
           c == r.channel
           a == AdvanceDirectDelivery(m, s)
           released == ReleaseDirectDelivery(m, s)
           next == First(m.channels[c].messageBuffer, Promotable(m, s))
           rest == Keep(released.channels[c].messageBuffer,
                        Range(released.channels[c].messageBuffer) \ {next})
           ch == [released.channels[c] EXCEPT !.messageBuffer = rest]
           spliced == [released EXCEPT !.channels[c] = ch]
           unbuffered == ReleaseBuffered(spliced, c, <<next>>)
           reserved == ReserveDirect(unbuffered, s, c, next.sourceIp, next.sizeBytes)
<1>1. /\ Step(m, released) /\ BytesOnly(m, released)
      /\ released.directDeliveries = [m.directDeliveries EXCEPT ![s] = None]
  BY ReleaseDirectDeliveryStep, ReleaseDirectDeliveryEffects
<1>2. CASE Promotable(m, s) = {}
  <2>1. a.mgr = released /\ a.next = None
    BY <1>2 DEF AdvanceDirectDelivery
  <2> HIDE DEF released, a
  <2> QED
    BY <1>1, <1>2, <2>1 DEF BytesOnly, SameContent, a
<1>3. CASE Promotable(m, s) # {}
  <2>1. /\ r # None /\ c \in Channels /\ Known(m, c)
        /\ Promotable(m, s) \subseteq Range(m.channels[c].messageBuffer)
    BY <1>3, PromotableFacts
  <2>2. m.channels[c].messageBuffer \in Seq(Message)
    <3>1. m.channels[c] \in Channel
      BY <2>1, KnownType
    <3> QED
      BY <3>1 DEF Channel
  <2>3. next \in Message /\ next \in Promotable(m, s)
    BY <1>3, <2>1, <2>2, FirstFacts
  <2>4. a.mgr = reserved /\ a.next = next
    BY <1>3 DEF AdvanceDirectDelivery
  <2>5. released.channels[c].messageBuffer = m.channels[c].messageBuffer
    <3> HIDE DEF released, c
    <3> QED
      BY <1>1, <2>1 DEF BytesOnly, SameContent, SameBuffers
  <2>6. rest = Keep(m.channels[c].messageBuffer, Range(m.channels[c].messageBuffer) \ {next})
    BY <2>5
  <2> HIDE DEF released, next, a, rest, r, c
  <2>7. Sane(released) /\ Known(released, c)
    BY <1>1, <2>1 DEF Step, SameTombstones
  <2>8. released \in Manager /\ released.channels[c] \in Channel
    BY <2>1, <2>7, KnownType DEF Sane
  <2>9. rest \in Seq(Message)
    BY <2>2, <2>6, KeepFacts
  <2>10. /\ ch \in Channel /\ Keeps(released.channels[c], ch)
         /\ ch.participants = released.channels[c].participants
         /\ ch.terminated = released.channels[c].terminated
         /\ ch.terminatedAt = released.channels[c].terminatedAt
         /\ ch.seqNumbers = released.channels[c].seqNumbers
         /\ ch.lastActivity = released.channels[c].lastActivity
         /\ ch.messageBuffer = rest
    BY <2>8, <2>9 DEF Channel, Keeps
  <2> HIDE DEF ch
  <2>11. Step(released, spliced) /\ Known(spliced, c)
         /\ spliced.directDeliveries = released.directDeliveries
    BY <2>1, <2>7, <2>10, RewriteStep
  <2>12. Writes(released, spliced, c, ch) /\ spliced.terminatedOrder = released.terminatedOrder
    BY <2>8 DEF Manager, Writes
  <2> HIDE DEF spliced
  <2>13. /\ spliced.channels[c] = ch
         /\ \A d \in Channels \ {c} : spliced.channels[d] = released.channels[d]
         /\ \A d \in Channels : Known(spliced, d) <=> Known(released, d)
    BY <2>1, <2>7, <2>10, <2>12, WriteFacts
  <2>14. /\ SameTable(released, spliced) /\ SameSeats(released, spliced)
         /\ SameNumbers(released, spliced) /\ SameClocks(released, spliced)
    BY <2>10, <2>12, <2>13 DEF SameTable, SameSeats, SameNumbers, SameClocks
  <2>15. <<next>> \in Seq(Message) /\ next.sourceIp \in Ips /\ next.sizeBytes \in Sizes
    BY <2>3 DEF Message
  <2>16. /\ Step(spliced, unbuffered) /\ Known(unbuffered, c) /\ BytesOnly(spliced, unbuffered)
         /\ unbuffered.directDeliveries = spliced.directDeliveries
    BY <2>1, <2>11, <2>15, ReleaseBufferedStep, ReleaseBufferedEffects DEF Step
  <2> HIDE DEF unbuffered
  <2>17. /\ BytesOnly(unbuffered, reserved)
         /\ reserved.directDeliveries =
              [unbuffered.directDeliveries EXCEPT
                 ![s] = [channel |-> c, sourceIp |-> next.sourceIp, sizeBytes |-> next.sizeBytes]]
    BY <2>1, <2>15, <2>16, ReserveDirectEffects DEF Step
  <2> HIDE DEF reserved
  <2>18. /\ SameTable(m, reserved) /\ SameSeats(m, reserved) /\ SameNumbers(m, reserved)
         /\ SameClocks(m, reserved)
    BY <1>1, <2>14, <2>16, <2>17
       DEF BytesOnly, SameContent, SameTable, SameSeats, SameNumbers, SameClocks
  <2>19. reserved.channels[c].messageBuffer = rest
    BY <2>1, <2>10, <2>11, <2>13, <2>16, <2>17 DEF BytesOnly, SameContent, SameBuffers
  <2>20. \A d \in Channels \ {c} : Known(m, d) =>
           reserved.channels[d].messageBuffer = m.channels[d].messageBuffer
    BY <1>1, <2>13, <2>16, <2>17 DEF BytesOnly, SameContent, SameBuffers, SameTable
  <2>21. reserved.directDeliveries =
           [m.directDeliveries EXCEPT
              ![s] = [channel |-> c, sourceIp |-> next.sourceIp, sizeBytes |-> next.sizeBytes]]
    BY <1>1, <2>11, <2>16, <2>17
  <2>22. next # None
    BY <2>3, NoneIsNoObject
  <2> QED
    BY <2>1, <2>3, <2>4, <2>6, <2>18, <2>19, <2>20, <2>21, <2>22 DEF a, c, r, next
<1> QED
  BY <1>2, <1>3

-----------------------------------------------------------------------------
(* close and cleanup *)

\* A reservation is as it was, or refers to a channel object that has been dropped.
DeliveriesKept(m, n) ==
  \A s \in Sockets :
    \/ n.directDeliveries[s] = m.directDeliveries[s]
    \/ /\ m.directDeliveries[s] # None /\ m.directDeliveries[s].channel # None
       /\ ~ Known(n, m.directDeliveries[s].channel)
       /\ n.directDeliveries[s] \in Reservation
       /\ n.directDeliveries[s] = [m.directDeliveries[s] EXCEPT !.channel = None]

\* Deleting channels changes no other channel.
LEMMA ForgetEffects ==
  ASSUME NEW m, Sane(m), NEW gone \in SUBSET Channels
  PROVE  LET n == Forget(m, gone)
         IN  /\ n.terminatedOrder = m.terminatedOrder
             /\ \A c \in Channels : n.channels[c] = IF c \in gone THEN None ELSE m.channels[c]
             /\ DeliveriesKept(m, n)
<1> DEFINE n == Forget(m, gone)
           chs == [c \in Channels |-> IF c \in gone THEN None ELSE m.channels[c]]
           dds == [s \in Sockets |->
                     IF m.directDeliveries[s] # None /\ m.directDeliveries[s].channel \in gone
                     THEN [m.directDeliveries[s] EXCEPT !.channel = None]
                     ELSE m.directDeliveries[s]]
<1>1. m \in Manager /\ Linked(m)
  BY DEF Sane
<1>2. n = [m EXCEPT !.channels = chs, !.directDeliveries = dds]
  BY <1>1 DEF Forget, Manager
<1>3. \A c \in Channels : chs[c] = IF c \in gone THEN None ELSE m.channels[c]
  OBVIOUS
<1>4. \A s \in Sockets :
        \/ dds[s] = m.directDeliveries[s]
        \/ /\ m.directDeliveries[s] # None /\ m.directDeliveries[s].channel \in gone
           /\ dds[s] = [m.directDeliveries[s] EXCEPT !.channel = None]
  OBVIOUS
<1> HIDE DEF n, chs, dds
<1>5. /\ n.channels = chs /\ n.terminatedOrder = m.terminatedOrder
      /\ n.directDeliveries = dds
  BY <1>1, <1>2 DEF Manager
<1>6. \A s \in Sockets : m.directDeliveries[s] # None =>
        [m.directDeliveries[s] EXCEPT !.channel = None] \in Reservation
  <2> TAKE s \in Sockets
  <2> HAVE m.directDeliveries[s] # None
  <2>1. m.directDeliveries[s] \in Reservation
    BY <1>1 DEF Manager
  <2> QED
    BY <2>1 DEF Reservation
<1>7. DeliveriesKept(m, n)
  BY <1>3, <1>4, <1>5, <1>6, ConstantsAssumption DEF DeliveriesKept, Known
<1> QED
  BY <1>3, <1>5, <1>7 DEF n

\* close leaves a tombstone, and may delete the oldest other tombstone.
LEMMA CloseEffects ==
  ASSUME NEW m, Sane(m), NEW c \in Channels, Live(m, c), NEW time \in Nat
  PROVE  LET n == Close(m, c, time)
         IN  /\ \A d \in Channels \ {c} : Known(n, d) => n.channels[d] = m.channels[d]
             /\ \A d \in Channels \ {c} : Known(m, d) /\ ~ Known(n, d) =>
                  /\ Tombstone(m, d) /\ Len(m.terminatedOrder) >= MaxTombstones
                  /\ d = Head(m.terminatedOrder)
             /\ Known(n, c) => /\ Tombstone(n, c) /\ n.channels[c].messageBuffer = << >>
                               /\ n.channels[c].lastActivity = time
                               /\ \A s \in Sockets : n.channels[c].participants[s] = None
             /\ c \notin Range(m.terminatedOrder) => Known(n, c)
             /\ DeliveriesKept(m, n)
<1> DEFINE n == Close(m, c, time)
           order == Append(m.terminatedOrder, c)
           freed == ReleaseBuffered(m, c, m.channels[c].messageBuffer)
           h == Hollow(freed.channels[c], time)
           hollowed == [freed EXCEPT !.channels[c] = h, !.terminatedOrder = order]
           stale == Head(order)
           gone == IF Tombstone(hollowed, stale) THEN {stale} ELSE {}
           short == [hollowed EXCEPT !.terminatedOrder = Tail(order)]
<1>1. Known(m, c) /\ m.channels[c] \in Channel /\ m.terminatedOrder \in Seq(Channels)
  BY KnownType DEF Live, Sane, Manager
<1>2. m.channels[c].messageBuffer \in Seq(Message) /\ m.channels \in [Channels -> Channel \cup {None}]
  BY <1>1 DEF Channel, Sane, Manager
<1>3. /\ Step(m, freed) /\ Known(freed, c)
      /\ freed.directDeliveries = m.directDeliveries
  BY <1>1, <1>2, ReleaseBufferedStep
<1>4. \A d \in Channels \ {c} : freed.channels[d] = m.channels[d]
  <2>1. freed.channels = [m.channels EXCEPT ![c] =
           [m.channels[c] EXCEPT !.bufferedBytes = Minus(@, Bytes(m.channels[c].messageBuffer))]]
    BY DEF ReleaseBuffered, Sane, Manager
  <2> QED
    BY <1>2, <2>1
<1>5. order \in Seq(Channels) /\ Len(order) = Len(m.terminatedOrder) + 1
  BY <1>1
<1>6. n = IF Len(order) <= MaxTombstones THEN hollowed ELSE Forget(short, gone)
  <2>1. ASSUME NEW x, hollowed = x
        PROVE  [x EXCEPT !.terminatedOrder = Tail(x.terminatedOrder)] = short
    <3>1. freed \in Manager
      BY <1>3 DEF Step, Sane
    <3>2. hollowed.terminatedOrder = order
      <4> HIDE DEF order, h, freed
      <4> QED
        BY <3>1 DEF Manager
    <3> QED
      BY <2>1, <3>2
  <2> QED
    BY <2>1 DEF Close
<1> HIDE DEF freed
<1>7. freed \in Manager /\ Linked(freed) /\ freed.channels[c] \in Channel
  BY <1>3, KnownType DEF Step, Sane
<1>8. /\ h \in Channel /\ h.terminated = TRUE /\ \A s \in Sockets : h.participants[s] = None
      /\ h.messageBuffer = << >> /\ h.lastActivity = time
  <2>1. h.messageBuffer = << >> /\ h.lastActivity = time
    BY <1>7 DEF Hollow, Channel
  <2> QED
    BY <1>7, <2>1, HollowType
<1> HIDE DEF h, order
<1>9. /\ hollowed \in Manager /\ hollowed.channels = [freed.channels EXCEPT ![c] = h]
      /\ hollowed.terminatedOrder = order
      /\ hollowed.directDeliveries = m.directDeliveries
  BY <1>3, <1>5, <1>7, <1>8 DEF Manager
<1> HIDE DEF hollowed
<1>10. hollowed.channels[c] = h /\ \A d \in Channels \ {c} : hollowed.channels[d] = m.channels[d]
  BY <1>4, <1>7, <1>9 DEF Manager
<1>11. Tombstone(hollowed, c) /\ \A d \in Channels : Known(hollowed, d) <=> Known(m, d)
  BY <1>1, <1>8, <1>10, NoneIsNoObject DEF Known, Tombstone
<1>12. CASE Len(order) <= MaxTombstones
  <2>1. n = hollowed
    BY <1>6, <1>12
  <2>2. DeliveriesKept(m, n)
    BY <1>9, <2>1 DEF DeliveriesKept
  <2> HIDE DEF n
  <2>3. \A d \in Channels \ {c} : Known(n, d) => n.channels[d] = m.channels[d]
    BY <1>10, <2>1
  <2>4. \A d \in Channels : Known(m, d) => Known(n, d)
    BY <1>11, <2>1
  <2>5. /\ Tombstone(n, c) /\ n.channels[c].messageBuffer = << >>
        /\ n.channels[c].lastActivity = time
        /\ \A s \in Sockets : n.channels[c].participants[s] = None
    BY <1>8, <1>10, <1>11, <2>1
  <2>6. Known(n, c)
    BY <1>1, <2>4
  <2> QED
    BY <2>2, <2>3, <2>4, <2>5, <2>6 DEF n
<1>13. CASE ~ (Len(order) <= MaxTombstones)
  <2>1. n = Forget(short, gone)
    BY <1>6, <1>13
  <2>2. Len(order) > 0 /\ stale \in Channels /\ Tail(order) \in Seq(Channels)
    BY <1>5
  <2>3. Len(m.terminatedOrder) >= MaxTombstones /\ Len(m.terminatedOrder) > 0
    BY <1>1, <1>5, <1>13, ConstantsAssumption
  <2>4. stale = Head(m.terminatedOrder) /\ stale \in Range(m.terminatedOrder)
    <3>1. order[1] = m.terminatedOrder[1] /\ 1 \in DOMAIN m.terminatedOrder
      BY <1>1, <2>3 DEF order
    <3>2. Head(order) = order[1] /\ Head(m.terminatedOrder) = m.terminatedOrder[1]
      BY <1>1, <1>5, <2>2, <2>3
    <3> QED
      BY <3>1, <3>2 DEF Range
  <2>5. gone \in SUBSET Channels
    BY <2>2
  <2>6. /\ short \in Manager /\ short.channels = hollowed.channels
        /\ short.directDeliveries = hollowed.directDeliveries
    BY <1>9, <2>2 DEF Manager
  <2>7. Sane(short)
    <3>1. \A d \in Channels : Known(short, d) <=> Known(m, d)
      BY <1>11, <2>6 DEF Known
    <3> QED
      BY <1>9, <2>6, <3>1 DEF Sane, Linked, Manager, Reservation
  <2> HIDE DEF gone, short, n
  <2>8. /\ \A d \in Channels : n.channels[d] = IF d \in gone THEN None ELSE short.channels[d]
        /\ DeliveriesKept(short, n)
    BY <2>1, <2>5, <2>7, ForgetEffects
  <2>9. \A d \in gone : d = stale /\ Tombstone(hollowed, d)
    BY DEF gone
  <2>10. \A d \in Channels : Known(n, d) <=> Known(m, d) /\ d \notin gone
    BY <1>11, <2>6, <2>8 DEF Known
  <2>11. \A d \in Channels \ {c} : Known(n, d) => n.channels[d] = m.channels[d]
    BY <1>10, <2>6, <2>8, <2>10
  <2>12. \A d \in Channels \ {c} : Known(m, d) /\ ~ Known(n, d) =>
           /\ Tombstone(m, d) /\ Len(m.terminatedOrder) >= MaxTombstones
           /\ d = Head(m.terminatedOrder)
    BY <1>10, <2>3, <2>4, <2>9, <2>10 DEF Tombstone, Known
  <2>13. Known(n, c) => /\ Tombstone(n, c) /\ n.channels[c].messageBuffer = << >>
                        /\ n.channels[c].lastActivity = time
                        /\ \A s \in Sockets : n.channels[c].participants[s] = None
    BY <1>8, <1>10, <2>6, <2>8, <2>10 DEF Tombstone, Known
  <2>14. c \notin Range(m.terminatedOrder) => Known(n, c)
    BY <1>1, <2>4, <2>9, <2>10
  <2>15. DeliveriesKept(m, n)
    BY <1>9, <2>6, <2>8 DEF DeliveriesKept
  <2> QED
    BY <2>11, <2>12, <2>13, <2>14, <2>15 DEF n
<1> QED
  BY <1>12, <1>13

\* Expiry changes buffers only.
LEMMA ExpireBuffersEffects ==
  ASSUME NEW m, Sane(m), NEW time
  PROVE  LET n == ExpireBuffers(m, time)
         IN  /\ SameTable(m, n) /\ SameSeats(m, n) /\ SameNumbers(m, n) /\ SameClocks(m, n)
             /\ n.directDeliveries = m.directDeliveries
             /\ \A c \in Channels : Known(m, c) =>
                  n.channels[c].messageBuffer =
                    Keep(m.channels[c].messageBuffer,
                         Range(m.channels[c].messageBuffer) \ Range(Expired(m, c, time)))
<1> DEFINE known == {c \in Channels : Known(m, c)}
           lost == [c \in known |-> Expired(m, c, time)]
           n == ExpireBuffers(m, time)
           chs == [c \in Channels |-> IF c \notin known THEN None
                                      ELSE Shed(m.channels[c], lost[c])]
<1>1. m \in Manager
  BY DEF Sane
<1>2. Step(m, n)
  BY ExpireBuffersStep
<1>3. /\ n.channels = chs /\ n.terminatedOrder = m.terminatedOrder
      /\ n.directDeliveries = m.directDeliveries
  BY <1>1 DEF ExpireBuffers, Manager
<1> HIDE DEF n
<1>4. ASSUME NEW c \in Channels, Known(m, c)
      PROVE  /\ n.channels[c].participants = m.channels[c].participants
             /\ n.channels[c].terminated = m.channels[c].terminated
             /\ n.channels[c].terminatedAt = m.channels[c].terminatedAt
             /\ n.channels[c].seqNumbers = m.channels[c].seqNumbers
             /\ n.channels[c].lastActivity = m.channels[c].lastActivity
             /\ n.channels[c].messageBuffer =
                  Keep(m.channels[c].messageBuffer,
                       Range(m.channels[c].messageBuffer) \ Range(Expired(m, c, time)))
  <2>1. n.channels[c] = Shed(m.channels[c], Expired(m, c, time))
    BY <1>3, <1>4
  <2>2. m.channels[c] \in Channel
    BY <1>4, KnownType
  <2> QED
    BY <2>1, <2>2 DEF Shed, Channel
<1>5. \A c \in Channels : Known(n, c) <=> Known(m, c)
  BY <1>2 DEF Step, SameTombstones
<1>6. /\ SameTable(m, n) /\ SameSeats(m, n) /\ SameNumbers(m, n) /\ SameClocks(m, n)
  BY <1>3, <1>4, <1>5 DEF SameTable, SameSeats, SameNumbers, SameClocks
<1> QED
  BY <1>3, <1>4, <1>6 DEF n

\* n is m after a cleanup: what it reaps is deleted and buffers expire, and nothing
\* else changes.
CleanedUp(m, n, time) ==
  /\ \A c \in Channels : Known(n, c) <=> Known(m, c) /\ c \notin Reaped(m, time)
  /\ \A c \in Channels : Known(n, c) =>
       /\ n.channels[c].participants = m.channels[c].participants
       /\ n.channels[c].terminated = m.channels[c].terminated
       /\ n.channels[c].terminatedAt = m.channels[c].terminatedAt
       /\ n.channels[c].seqNumbers = m.channels[c].seqNumbers
       /\ n.channels[c].lastActivity = m.channels[c].lastActivity
       /\ n.channels[c].messageBuffer =
            Keep(m.channels[c].messageBuffer,
                 Range(m.channels[c].messageBuffer) \ Range(Expired(m, c, time)))
  /\ DeliveriesKept(m, n)

\* The timer does that.
LEMMA CleanupEffects ==
  ASSUME NEW m, Sane(m), NEW time
  PROVE  CleanedUp(m, Cleanup(m, time), time)
<1> DEFINE n == Cleanup(m, time)
           expired == ExpireBuffers(m, time)
           gone == Reaped(m, time)
           kept == Forget(expired, gone)
           order == Keep(kept.terminatedOrder, {c \in Channels : Known(kept, c)})
<1>1. /\ Step(m, expired)
      /\ SameTable(m, expired) /\ SameSeats(m, expired) /\ SameNumbers(m, expired)
      /\ SameClocks(m, expired)
      /\ expired.directDeliveries = m.directDeliveries
      /\ \A c \in Channels : Known(m, c) =>
           expired.channels[c].messageBuffer =
             Keep(m.channels[c].messageBuffer,
                  Range(m.channels[c].messageBuffer) \ Range(Expired(m, c, time)))
  BY ExpireBuffersStep, ExpireBuffersEffects
<1>2. gone \in SUBSET Channels
  BY DEF Reaped
<1>3. n = [kept EXCEPT !.terminatedOrder = order]
  BY DEF Cleanup
<1> HIDE DEF expired, gone, n, order
<1>4. Sane(kept)
  BY <1>1, <1>2, ForgetFacts DEF Step
<1>5. /\ \A c \in Channels : kept.channels[c] = IF c \in gone THEN None ELSE expired.channels[c]
      /\ DeliveriesKept(expired, kept)
  BY <1>1, <1>2, ForgetEffects DEF Step
<1> HIDE DEF kept
<1>6. n.channels = kept.channels /\ n.directDeliveries = kept.directDeliveries
  BY <1>3, <1>4 DEF Sane, Manager
<1>7. \A c \in Channels : Known(n, c) <=> Known(m, c) /\ c \notin gone
  BY <1>1, <1>5, <1>6 DEF Known, SameTable
<1>8. ASSUME NEW c \in Channels, Known(n, c)
      PROVE  /\ n.channels[c].participants = m.channels[c].participants
             /\ n.channels[c].terminated = m.channels[c].terminated
             /\ n.channels[c].terminatedAt = m.channels[c].terminatedAt
             /\ n.channels[c].seqNumbers = m.channels[c].seqNumbers
             /\ n.channels[c].lastActivity = m.channels[c].lastActivity
             /\ n.channels[c].messageBuffer =
                  Keep(m.channels[c].messageBuffer,
                       Range(m.channels[c].messageBuffer) \ Range(Expired(m, c, time)))
  <2>1. n.channels[c] = expired.channels[c] /\ Known(m, c)
    BY <1>5, <1>6, <1>7, <1>8
  <2> QED
    BY <1>1, <2>1 DEF SameTable, SameSeats, SameNumbers, SameClocks
<1>9. DeliveriesKept(m, n)
  BY <1>1, <1>5, <1>6 DEF DeliveriesKept, Known
<1>10. CleanedUp(m, n, time)
  BY <1>7, <1>8, <1>9 DEF CleanedUp, gone
<1> QED
  BY <1>10 DEF n

-----------------------------------------------------------------------------
(* join *)

\* The ways a join can end.
LEMMA JoinKinds ==
  ASSUME NEW m, NEW c, NEW s, NEW role, NEW publicKey, NEW ip, NEW active, NEW time
  PROVE  LET result == Join(m, c, s, role, publicKey, ip, active, time)
             key == BoundKey(role, publicKey)
             e == EvictRival(Opened(m, c, ip, time), c, s, role)
         IN  \/ result.mgr = m /\ result.reply # "success"
             \/ /\ ~ Tombstone(m, c)
                /\ ~ JoinRefusedAtOnce(m, c, s, role, key, ip, active)
                /\ \/ result.mgr = e /\ result.reply # "success"
                   \/ /\ result.mgr = Admit(e, c, s, role, key, time).mgr
                      /\ result.reply = "success"
                      /\ result.bufferedMessages =
                           Keep(e.channels[c].messageBuffer, For(e.channels[c].messageBuffer, role))
                      /\ ~ JoinRefusedLate(e.channels[c], s, key)
<1> DEFINE key == BoundKey(role, publicKey)
           e == EvictRival(Opened(m, c, ip, time), c, s, role)
<1>1. CASE Tombstone(m, c)
  BY <1>1 DEF Join
<1>2. CASE ~ Tombstone(m, c) /\ JoinRefusedAtOnce(m, c, s, role, key, ip, active)
  BY <1>2 DEF Join
<1>3. CASE ~ Tombstone(m, c) /\ ~ JoinRefusedAtOnce(m, c, s, role, key, ip, active)
  <2>1. CASE JoinRefusedLate(e.channels[c], s, key)
    BY <1>3, <2>1 DEF Join, Opened
  <2>2. CASE ~ JoinRefusedLate(e.channels[c], s, key)
    BY <1>3, <2>2 DEF Join, Opened, Admit
  <2> QED
    BY <2>1, <2>2
<1> QED
  BY <1>1, <1>2, <1>3

\* The first join adds an empty channel.
LEMMA OpenedEffects ==
  ASSUME NEW m, Sane(m), NEW c \in Channels, ~ Tombstone(m, c),
         NEW ip \in Ips, NEW time \in Nat
  PROVE  LET o == Opened(m, c, ip, time)
         IN  /\ Sane(o) /\ Live(o, c)
             /\ o.terminatedOrder = m.terminatedOrder
             /\ o.directDeliveries = m.directDeliveries
             /\ \A d \in Channels : Known(o, d) <=> Known(m, d) \/ d = c
             /\ \A d \in Channels : Known(m, d) => o.channels[d] = m.channels[d]
             /\ ~ Known(m, c) => /\ o.channels[c].messageBuffer = << >>
                                 /\ o.channels[c].lastActivity = time
                                 /\ \A s \in Sockets : /\ o.channels[c].participants[s] = None
                                                       /\ o.channels[c].seqNumbers[s] = -1
<1> DEFINE o == Opened(m, c, ip, time)
           ch == NewChannel(ip, time)
<1>1. CASE Known(m, c)
  BY <1>1 DEF Opened, Live, Tombstone
<1>2. CASE ~ Known(m, c)
  <2>1. m \in Manager /\ Linked(m) /\ m.channels[c] = None
    BY <1>2 DEF Sane, Known
  <2>2. /\ ch \in Channel /\ ch # None /\ ch.terminated = FALSE
        /\ \A s \in Sockets : ch.participants[s] = None
    BY NewChannelType
  <2>3. /\ ch.messageBuffer = << >> /\ ch.lastActivity = time
        /\ \A s \in Sockets : ch.seqNumbers[s] = -1
    BY DEF NewChannel
  <2> HIDE DEF ch
  <2>4. /\ o \in Manager /\ o.channels = [m.channels EXCEPT ![c] = ch]
        /\ o.terminatedOrder = m.terminatedOrder
        /\ o.directDeliveries = m.directDeliveries
    BY <1>2, <2>1, <2>2 DEF Opened, Manager, ch
  <2> HIDE DEF o
  <2>5. o.channels[c] = ch /\ \A d \in Channels \ {c} : o.channels[d] = m.channels[d]
    BY <2>1, <2>4 DEF Manager
  <2>6. Sane(o)
    BY <2>1, <2>2, <2>4, <2>5 DEF Sane, Linked, Known, Manager, Reservation
  <2>7. Live(o, c)
    BY <2>2, <2>5 DEF Live, Known
  <2>8. \A d \in Channels : Known(o, d) <=> Known(m, d) \/ d = c
    BY <2>2, <2>5 DEF Known
  <2>9. \A d \in Channels : Known(m, d) => o.channels[d] = m.channels[d]
    BY <1>2, <2>5
  <2> QED
    BY <2>2, <2>3, <2>4, <2>5, <2>6, <2>7, <2>8, <2>9 DEF o
<1> QED
  BY <1>1, <1>2

\* Removing a stale holder takes the seat, number and reservation of that rival.
LEMMA EvictEffects ==
  ASSUME NEW m, Sane(m), NEW c \in Channels, Known(m, c), NEW s \in Sockets,
         NEW role \in Roles
  PROVE  LET e == EvictRival(m, c, s, role)
         IN  /\ SameTable(m, e) /\ SameBuffers(m, e) /\ SameClocks(m, e)
             /\ \A d \in Channels, t \in Sockets : Known(m, d) =>
                  \/ /\ e.channels[d].participants[t] = m.channels[d].participants[t]
                     /\ e.channels[d].seqNumbers[t] = m.channels[d].seqNumbers[t]
                  \/ /\ d = c /\ t \in Rivals(m, c, s, role)
                     /\ e.channels[d].participants[t] = None
                     /\ e.channels[d].seqNumbers[t] = -1
             /\ Rivals(m, c, s, role) = {} => e = m
<1> DEFINE e == EvictRival(m, c, s, role)
           rival == CHOOSE t \in Rivals(m, c, s, role) : TRUE
           ch == [m.channels[c] EXCEPT !.participants[rival] = None, !.seqNumbers[rival] = -1]
           freed == [m EXCEPT !.channels[c] = ch]
<1>1. m \in Manager /\ m.channels[c] \in Channel
  BY KnownType DEF Sane
<1>2. CASE Rivals(m, c, s, role) = {}
  <2>1. e = m
    BY <1>2 DEF EvictRival
  <2> QED
    BY <2>1 DEF SameTable, SameBuffers, SameClocks
<1>3. CASE Rivals(m, c, s, role) # {}
  <2>1. rival \in Rivals(m, c, s, role)
    BY <1>3
  <2>2. rival \in Sockets
    BY <2>1 DEF Rivals, MembersIn
  <2>3. e = ReleaseDirectDelivery(freed, rival)
    BY <1>3 DEF EvictRival
  <2> HIDE DEF rival, e
  <2>4. /\ ch \in Channel /\ Keeps(m.channels[c], ch)
        /\ ch.participants = [m.channels[c].participants EXCEPT ![rival] = None]
        /\ ch.seqNumbers = [m.channels[c].seqNumbers EXCEPT ![rival] = -1]
        /\ ch.terminated = m.channels[c].terminated
        /\ ch.terminatedAt = m.channels[c].terminatedAt
        /\ ch.messageBuffer = m.channels[c].messageBuffer
        /\ ch.lastActivity = m.channels[c].lastActivity
    BY <1>1, <2>2 DEF Channel, Keeps
  <2> HIDE DEF ch
  <2>5. Step(m, freed)
    BY <2>4, RewriteStep
  <2>6. Writes(m, freed, c, ch) /\ freed.terminatedOrder = m.terminatedOrder
    BY <1>1 DEF Manager, Writes
  <2> HIDE DEF freed
  <2>7. /\ freed.channels[c] = ch
        /\ \A d \in Channels \ {c} : freed.channels[d] = m.channels[d]
        /\ \A d \in Channels : Known(freed, d) <=> Known(m, d)
    BY <2>4, <2>6, WriteFacts
  <2>8. SameTable(m, freed) /\ SameBuffers(m, freed) /\ SameClocks(m, freed)
    BY <2>4, <2>6, <2>7 DEF SameTable, SameBuffers, SameClocks
  <2>9. BytesOnly(freed, e)
    BY <2>2, <2>3, <2>5, ReleaseDirectDeliveryEffects DEF Step
  <2>10. SameTable(m, e) /\ SameBuffers(m, e) /\ SameClocks(m, e)
    BY <2>8, <2>9 DEF BytesOnly, SameContent, SameTable, SameBuffers, SameClocks
  <2>11. \A t \in Sockets :
           /\ ch.participants[t] = IF t = rival THEN None ELSE m.channels[c].participants[t]
           /\ ch.seqNumbers[t] = IF t = rival THEN -1 ELSE m.channels[c].seqNumbers[t]
    BY <1>1, <2>4 DEF Channel
  <2>12. ASSUME NEW d \in Channels, NEW t \in Sockets, Known(m, d)
         PROVE  \/ /\ e.channels[d].participants[t] = m.channels[d].participants[t]
                   /\ e.channels[d].seqNumbers[t] = m.channels[d].seqNumbers[t]
                \/ /\ d = c /\ t \in Rivals(m, c, s, role)
                   /\ e.channels[d].participants[t] = None
                   /\ e.channels[d].seqNumbers[t] = -1
    <3>1. /\ e.channels[d].participants[t] = freed.channels[d].participants[t]
          /\ e.channels[d].seqNumbers[t] = freed.channels[d].seqNumbers[t]
      BY <2>7, <2>9, <2>12 DEF BytesOnly, SameContent, SameSeats, SameNumbers
    <3>2. CASE d = c
      BY <2>1, <2>7, <2>11, <3>1, <3>2
    <3>3. CASE d # c
      BY <2>7, <3>1, <3>3
    <3> QED
      BY <3>2, <3>3
  <2> QED
    BY <1>3, <2>10, <2>12 DEF e
<1> QED
  BY <1>2, <1>3

\* n is m with s seated at c and what was buffered for its role taken out.
Admitted(m, n, c, s, role, time) ==
  /\ SameTable(m, n) /\ SameNumbers(m, n) /\ Clocked(m, n, c, time)
  /\ n.directDeliveries = m.directDeliveries
  /\ \A d \in Channels, t \in Sockets : Known(m, d) =>
       n.channels[d].participants[t] =
         IF d = c /\ t = s THEN role ELSE m.channels[d].participants[t]
  /\ n.channels[c].messageBuffer =
       Keep(m.channels[c].messageBuffer,
            Range(m.channels[c].messageBuffer) \ For(m.channels[c].messageBuffer, role))
  /\ \A d \in Channels \ {c} : Known(m, d) =>
       n.channels[d].messageBuffer = m.channels[d].messageBuffer

\* An accepted join seats one socket and drains what waited for its role.
LEMMA AdmitEffects ==
  ASSUME NEW m, Sane(m), NEW c \in Channels, Known(m, c), NEW s \in Sockets,
         NEW role \in Roles, NEW key \in Keys \cup {None}, NEW time \in Nat
  PROVE  Admitted(m, Admit(m, c, s, role, key, time).mgr, c, s, role, time)
<1> DEFINE n == Admit(m, c, s, role, key, time).mgr
           buffer == m.channels[c].messageBuffer
           mine == For(buffer, role)
           drained == Keep(buffer, mine)
           rest == Keep(buffer, Range(buffer) \ mine)
           ch == Seat(m.channels[c], s, role, key, time, mine)
           joined == [m EXCEPT !.channels[c] = ch]
<1>1. m \in Manager /\ Linked(m) /\ m.channels[c] \in Channel
  BY KnownType DEF Sane
<1>2. drained \in Seq(Message)
  <2>1. m.channels[c].messageBuffer \in Seq(Message)
    BY <1>1 DEF Channel
  <2> QED
    BY <2>1, KeepFacts
<1>3. n = ReleaseBuffered(joined, c, drained)
  BY DEF Admit
<1> HIDE DEF drained, n, mine
<1>4. /\ ch \in Channel
      /\ ch.participants = [m.channels[c].participants EXCEPT ![s] = role]
      /\ ch.terminated = m.channels[c].terminated
  BY <1>1, SeatFacts
<1>5. /\ ch.terminatedAt = m.channels[c].terminatedAt
      /\ ch.seqNumbers = m.channels[c].seqNumbers
      /\ ch.lastActivity = time
      /\ ch.messageBuffer = rest
  BY <1>1 DEF Seat, Channel
<1> HIDE DEF ch, rest
<1>6. /\ joined \in Manager /\ joined.terminatedOrder = m.terminatedOrder
      /\ joined.directDeliveries = m.directDeliveries
      /\ Writes(m, joined, c, ch)
  BY <1>1, <1>4 DEF Manager, Writes
<1> HIDE DEF joined
<1>7. /\ joined.channels[c] = ch
      /\ \A d \in Channels \ {c} : joined.channels[d] = m.channels[d]
      /\ \A d \in Channels : Known(joined, d) <=> Known(m, d)
  BY <1>4, <1>6, WriteFacts
<1>8. Sane(joined) /\ Known(joined, c)
  BY <1>1, <1>6, <1>7 DEF Sane, Linked, Manager, Reservation
<1>9. BytesOnly(joined, n) /\ n.directDeliveries = joined.directDeliveries
  BY <1>2, <1>3, <1>8, ReleaseBufferedEffects
<1>10. SameTable(m, joined) /\ SameNumbers(m, joined) /\ Clocked(m, joined, c, time)
  BY <1>4, <1>5, <1>6, <1>7 DEF SameTable, SameNumbers, Clocked
<1>11. SameTable(m, n) /\ SameNumbers(m, n) /\ Clocked(m, n, c, time)
  BY <1>9, <1>10 DEF BytesOnly, SameContent, SameTable, SameNumbers, SameClocks, Clocked
<1>12. \A t \in Sockets : ch.participants[t] = IF t = s THEN role
                                              ELSE m.channels[c].participants[t]
  BY <1>1, <1>4 DEF Channel
<1>13. ASSUME NEW d \in Channels, NEW t \in Sockets, Known(m, d)
       PROVE  n.channels[d].participants[t] =
                IF d = c /\ t = s THEN role ELSE m.channels[d].participants[t]
  <2>1. n.channels[d].participants = joined.channels[d].participants
    BY <1>7, <1>9, <1>13 DEF BytesOnly, SameContent, SameSeats
  <2>2. CASE d = c
    BY <1>7, <1>12, <2>1, <2>2
  <2>3. CASE d # c
    BY <1>7, <2>1, <2>3
  <2> QED
    BY <2>2, <2>3
<1>14. n.channels[c].messageBuffer = rest
  BY <1>5, <1>7, <1>8, <1>9 DEF BytesOnly, SameContent, SameBuffers
<1>15. \A d \in Channels \ {c} : Known(m, d) =>
         n.channels[d].messageBuffer = m.channels[d].messageBuffer
  BY <1>7, <1>9 DEF BytesOnly, SameContent, SameBuffers
<1> QED
  BY <1>6, <1>9, <1>11, <1>13, <1>14, <1>15 DEF n, rest, mine, Admitted

-----------------------------------------------------------------------------
(* What a method may do to tombstones, sequence numbers and buffered mail *)

\* Buffered messages are no younger than the last activity of their channel, which is
\* not in the future: a channel that is reaped holds expired messages only.
Aged(m, time) ==
  \A c \in Channels : Known(m, c) =>
    /\ m.channels[c].lastActivity <= time
    /\ \A x \in Range(m.channels[c].messageBuffer) : x.timestamp <= m.channels[c].lastActivity

\* No buffer is longer than it may be.
Bounded(m) ==
  \A c \in Channels : Known(m, c) => Len(m.channels[c].messageBuffer) <= MaxBufferedMessages

\* TombstonesLast, of a method.
TombstonesKept(m, n, time) ==
  \A c \in Channels : Tombstone(m, c) =>
    \/ Tombstone(n, c) /\ n.channels[c].terminatedAt = m.channels[c].terminatedAt
    \/ /\ ~ Known(n, c)
       /\ \/ time - m.channels[c].terminatedAt > TombstoneTTL
          \/ /\ Len(m.terminatedOrder) = MaxTombstones
             /\ c = Head(m.terminatedOrder)

\* SeqOnlyAdvancesWithMessage, of a method.
NumbersKept(m, n, accepted) ==
  \A c \in Channels, s \in Sockets : Live(m, c) /\ Live(n, c) =>
    /\ n.channels[c].seqNumbers[s] > m.channels[c].seqNumbers[s] => accepted
    /\ n.channels[c].seqNumbers[s] < m.channels[c].seqNumbers[s]
         => s \notin Members(n.channels[c])

\* What every method promises of the state it leaves, whatever it takes from buffers.
Delivers(m, n, time, accepted) ==
  /\ TombstonesKept(m, n, time) /\ NumbersKept(m, n, accepted)
  /\ Aged(n, time) /\ Bounded(n)

\* A method that takes nothing from a buffer.
NothingGone(m, n) == \A c \in Channels : Live(m, c) => Gone(m, n, c) = {}

\* A method that takes only the oldest message of the buffer of c, which is full and
\* then ends with the message id.
OldestGone(m, n, c, id) ==
  \A d \in Channels : Live(m, d) => \A x \in Gone(m, n, d) :
    LET before == m.channels[d].messageBuffer
        after == n.channels[d].messageBuffer
    IN  /\ d = c /\ x = Head(before) /\ Len(before) = MaxBufferedMessages
        /\ Len(after) = Len(before) /\ after[Len(after)].id = id

\* A method that takes only messages of c, for s, and returns them in given.
HandedOver(m, n, c, s, given) ==
  \A d \in Channels : Live(m, d) => \A x \in Gone(m, n, d) :
    d = c /\ Addressee(n, d, x, s) /\ x \in Range(given)

\* The types behind the comparisons.
LEMMA BufferTypes ==
  ASSUME NEW m, Sane(m), NEW c \in Channels, Known(m, c)
  PROVE  /\ m.channels[c].messageBuffer \in Seq(Message)
         /\ m.channels[c].lastActivity \in Nat
         /\ \A s \in Sockets : m.channels[c].seqNumbers[s] \in Int
         /\ \A x \in Range(m.channels[c].messageBuffer) : x \in Message /\ x.timestamp \in Nat
<1>1. m.channels[c] \in Channel
  BY KnownType
<1>2. m.channels[c].messageBuffer \in Seq(Message)
  BY <1>1 DEF Channel
<1>3. \A x \in Range(m.channels[c].messageBuffer) : x \in Message
  BY <1>2 DEF Range
<1>4. \A s \in Sockets : m.channels[c].seqNumbers[s] \in Int
  BY <1>1 DEF Channel
<1>5. m.channels[c].lastActivity \in Nat
  BY <1>1 DEF Channel
<1> QED
  BY <1>2, <1>3, <1>4, <1>5 DEF Message

\* What appending to a full or a free buffer makes of it.
LEMMA PushedFacts ==
  ASSUME NEW ch \in Channel, NEW message \in Message,
         Len(ch.messageBuffer) <= MaxBufferedMessages
  PROVE  LET q == ch.messageBuffer
             p == Pushed(ch, message)
         IN  /\ p \in Seq(Message) /\ Len(p) <= MaxBufferedMessages
             /\ Len(p) > 0 /\ p[Len(p)] = message
             /\ Range(p) \subseteq Range(q) \cup {message}
             /\ \A x \in Range(q) :
                  x \in Range(p) \/ (x = Head(q) /\ Len(q) = MaxBufferedMessages /\ Len(p) = Len(q))
<1> DEFINE q == ch.messageBuffer
           n == Len(q)
           p == Pushed(ch, message)
<1>1. q \in Seq(Message) /\ n \in Nat /\ MaxBufferedMessages \in Nat \ {0} /\ DOMAIN q = 1 .. n
  BY ConstantsAssumption DEF Channel
<1>2. CASE n >= MaxBufferedMessages
  <2>1. Displaced(ch) = <<Head(q)>> /\ Len(Displaced(ch)) = 1
    BY <1>2 DEF Displaced
  <2>2. p = Append(SubSeq(q, 2, n), message)
    BY <2>1 DEF Pushed
  <2>3. n = MaxBufferedMessages /\ n >= 1
    BY <1>1, <1>2
  <2> HIDE DEF q, p, n
  <2>4. /\ SubSeq(q, 2, n) \in Seq(Message) /\ Len(SubSeq(q, 2, n)) = n - 1
        /\ \A i \in 1 .. n - 1 : SubSeq(q, 2, n)[i] = q[i + 1]
    BY <1>1, <2>3
  <2>5. /\ p \in Seq(Message) /\ Len(p) = n /\ p[n] = message /\ DOMAIN p = 1 .. n
        /\ \A i \in 1 .. n - 1 : p[i] = q[i + 1]
    <3> DEFINE rest == SubSeq(q, 2, n)
    <3>1. rest \in Seq(Message) /\ Len(rest) = n - 1
      BY <2>4
    <3>2. \A i \in 1 .. n - 1 : rest[i] = q[i + 1]
      BY <2>4
    <3>3. p = Append(rest, message)
      BY <2>2
    <3> HIDE DEF rest
    <3>4. p \in Seq(Message) /\ Len(p) = (n - 1) + 1 /\ \A i \in 1 .. n - 1 : p[i] = rest[i]
      BY <1>1, <3>1, <3>3
    <3>5. p[(n - 1) + 1] = message
      BY <3>1, <3>3
    <3>6. (n - 1) + 1 = n
      BY <1>1
    <3> QED
      BY <3>2, <3>4, <3>5, <3>6
  <2>6. Range(p) \subseteq Range(q) \cup {message}
    <3> SUFFICES ASSUME NEW i \in 1 .. n PROVE p[i] \in Range(q) \cup {message}
      BY <2>5 DEF Range
    <3>1. CASE i = n
      BY <2>5, <3>1
    <3>2. CASE i # n
      <4>1. i \in 1 .. n - 1 /\ i + 1 \in 1 .. n
        BY <1>1, <3>2
      <4> QED
        BY <1>1, <2>5, <4>1 DEF Range
    <3> QED
      BY <3>1, <3>2
  <2>7. ASSUME NEW x \in Range(q), x # Head(q) PROVE x \in Range(p)
    <3>1. PICK i \in 1 .. n : x = q[i]
      BY <1>1, <2>7 DEF Range
    <3>2. Head(q) = q[1]
      BY <1>1, <2>3
    <3>3. i # 1
      BY <2>7, <3>1, <3>2
    <3>4. i - 1 \in 1 .. n - 1 /\ i - 1 \in 1 .. n /\ (i - 1) + 1 = i
      BY <1>1, <3>3
    <3>5. p[i - 1] = x
      BY <2>5, <3>1, <3>4
    <3> QED
      BY <2>5, <3>4, <3>5 DEF Range
  <2> QED
    BY <2>3, <2>5, <2>6, <2>7 DEF q, p, n
<1>3. CASE ~ (n >= MaxBufferedMessages)
  <2>1. Displaced(ch) = << >> /\ Len(Displaced(ch)) = 0
    BY <1>3 DEF Displaced
  <2>2. SubSeq(q, 1, n) = q
    <3> HIDE DEF q
    <3> QED
      BY <1>1
  <2>3. p = Append(q, message)
    BY <2>1, <2>2 DEF Pushed
  <2> HIDE DEF q, p, n
  <2>4. /\ p \in Seq(Message) /\ Len(p) = n + 1 /\ p[n + 1] = message /\ DOMAIN p = 1 .. n + 1
        /\ \A i \in 1 .. n : p[i] = q[i]
    BY <1>1, <2>3 DEF n
  <2>5. \A i \in 1 .. n + 1 : i \in 1 .. n \/ i = n + 1
    BY <1>1
  <2>6. \A i \in 1 .. n : i \in 1 .. n + 1
    BY <1>1
  <2>7. Range(p) \subseteq Range(q) \cup {message}
    BY <1>1, <2>4, <2>5 DEF Range
  <2>8. \A x \in Range(q) : x \in Range(p)
    BY <1>1, <2>4, <2>6 DEF Range
  <2>9. n + 1 <= MaxBufferedMessages /\ n + 1 > 0
    BY <1>1, <1>3
  <2> QED
    BY <2>4, <2>7, <2>8, <2>9 DEF q, p, n
<1> QED
  BY <1>2, <1>3

\* What the methods rely on.
Fine(m, time) == Sane(m) /\ OrderOK(m) /\ Aged(m, time) /\ Bounded(m)

\* With the same table, no tombstone goes.
LEMMA TableKeepsTombstones ==
  ASSUME NEW m, NEW n, SameTable(m, n), NEW time
  PROVE  TombstonesKept(m, n, time)
BY DEF SameTable, TombstonesKept, Tombstone

\* With the same buffers, no mail goes.
LEMMA BuffersKeepMail ==
  ASSUME NEW m, NEW n, NEW time \in Nat, Fine(m, time), SameTable(m, n),
         SameBuffers(m, n),
         \A c \in Channels : Known(m, c) =>
           n.channels[c].lastActivity \in {m.channels[c].lastActivity, time}
  PROVE  NothingGone(m, n) /\ Aged(n, time) /\ Bounded(n)
<1>1. NothingGone(m, n)
  BY DEF SameTable, SameBuffers, NothingGone, Gone, Live
<1>2. Bounded(n)
  BY DEF SameTable, SameBuffers, Bounded, Fine
<1>3. Aged(n, time)
  <2> SUFFICES ASSUME NEW c \in Channels, Known(n, c)
               PROVE  /\ n.channels[c].lastActivity <= time
                      /\ \A x \in Range(n.channels[c].messageBuffer) :
                           x.timestamp <= n.channels[c].lastActivity
    BY DEF Aged
  <2>1. Known(m, c) /\ n.channels[c].messageBuffer = m.channels[c].messageBuffer
    BY DEF SameTable, SameBuffers
  <2>2. /\ m.channels[c].lastActivity \in Nat
        /\ \A x \in Range(m.channels[c].messageBuffer) : x.timestamp \in Nat
    BY <2>1, BufferTypes DEF Fine
  <2>3. /\ m.channels[c].lastActivity <= time
        /\ \A x \in Range(m.channels[c].messageBuffer) :
             x.timestamp <= m.channels[c].lastActivity
    BY <2>1 DEF Fine, Aged
  <2>4. CASE n.channels[c].lastActivity = m.channels[c].lastActivity
    BY <2>1, <2>3, <2>4
  <2>5. CASE n.channels[c].lastActivity = time
    BY <2>1, <2>2, <2>3, <2>5
  <2> QED
    BY <2>1, <2>4, <2>5
<1> QED
  BY <1>1, <1>2, <1>3

\* With the same numbers, none moves.
LEMMA SameNumbersKept ==
  ASSUME NEW m, NEW n, Sane(m), SameNumbers(m, n), NEW accepted
  PROVE  NumbersKept(m, n, accepted)
<1> SUFFICES ASSUME NEW c \in Channels, NEW s \in Sockets, Live(m, c)
             PROVE  /\ ~ (n.channels[c].seqNumbers[s] > m.channels[c].seqNumbers[s])
                    /\ ~ (n.channels[c].seqNumbers[s] < m.channels[c].seqNumbers[s])
  BY DEF NumbersKept
<1>1. Known(m, c)
  BY DEF Live
<1>2. m.channels[c].seqNumbers[s] \in Int
  BY <1>1, BufferTypes
<1>3. n.channels[c].seqNumbers[s] = m.channels[c].seqNumbers[s]
  BY <1>1 DEF SameNumbers
<1> QED
  BY <1>2, <1>3

\* A method that touches no table, seat, buffer or number.
LEMMA ContentDelivers ==
  ASSUME NEW m, NEW n, NEW time \in Nat, NEW accepted, Fine(m, time),
         SameContent(m, n),
         \A c \in Channels : Known(m, c) =>
           n.channels[c].lastActivity \in {m.channels[c].lastActivity, time}
  PROVE  Delivers(m, n, time, accepted) /\ NothingGone(m, n)
<1>1. Sane(m) /\ SameTable(m, n) /\ SameBuffers(m, n) /\ SameNumbers(m, n)
  BY DEF Fine, SameContent
<1>2. TombstonesKept(m, n, time)
  BY <1>1, TableKeepsTombstones
<1>3. NumbersKept(m, n, accepted)
  BY <1>1, SameNumbersKept
<1>4. NothingGone(m, n) /\ Aged(n, time) /\ Bounded(n)
  BY <1>1, BuffersKeepMail
<1> QED
  BY <1>2, <1>3, <1>4 DEF Delivers

\* A message that is no replay moves its sender's number forward.
LEMMA NumberMovesKept ==
  ASSUME NEW m, NEW n, Sane(m), NEW c \in Channels, Known(m, c), NEW s \in Sockets,
         NEW data \in Payload, ~ IsReplay(m.channels[c], s, data),
         NumberMoves(m, n, c, s, data)
  PROVE  NumbersKept(m, n, TRUE)
<1> SUFFICES ASSUME NEW d \in Channels, NEW t \in Sockets, Live(m, d)
             PROVE  ~ (n.channels[d].seqNumbers[t] < m.channels[d].seqNumbers[t])
  BY DEF NumbersKept
<1>1. Known(m, d)
  BY DEF Live
<1>2. m.channels[d].seqNumbers[t] \in Int
  BY <1>1, BufferTypes
<1>3. CASE n.channels[d].seqNumbers[t] = m.channels[d].seqNumbers[t]
  BY <1>2, <1>3
<1>4. CASE d = c /\ t = s /\ data.seq # None /\ n.channels[d].seqNumbers[t] = data.seq
  <2>1. data.seq \in Nat
    BY <1>4, ConstantsAssumption DEF Payload
  <2>2. ~ (data.seq <= m.channels[d].seqNumbers[t])
    BY <1>4 DEF IsReplay
  <2> QED
    BY <1>2, <1>4, <2>1, <2>2
<1> QED
  BY <1>1, <1>3, <1>4 DEF NumberMoves

\* Routing a message drops nothing, but for the oldest of a full buffer.
LEMMA RouteDelivers ==
  ASSUME NEW m, NEW time \in Nat, Fine(m, time), NEW c \in Channels, NEW s \in Sockets,
         NEW data \in Payload, NEW ip \in Ips, NEW receptive \in SUBSET Sockets
  PROVE  LET result == RouteMessage(m, c, s, data, ip, receptive, time)
         IN  /\ Delivers(m, result.mgr, time, result.status # "error")
             /\ result.status = "error" => NothingGone(m, result.mgr)
             /\ OldestGone(m, result.mgr, c, data.id)
<1> DEFINE result == RouteMessage(m, c, s, data, ip, receptive, time)
           target == Counterparty(m.channels[c], s)
           size == data.sizeBytes
           touched == Touched(m, c, time)
           direct == TakeSeq(ReserveDirect(touched, target, c, ip, size), c, s, data)
           buffered == TakeSeq(BufferMessage(touched, c, data, ip, time), c, s, data)
           message == MessageOf(data, ip, time)
<1>1. Sane(m)
  BY DEF Fine
<1>2. \/ result.mgr = m
      \/ ~ Unroutable(m, c, s, data) /\ result.mgr = touched
      \/ /\ result.status = "direct" /\ ~ Unroutable(m, c, s, data)
         /\ ~ IsReplay(m.channels[c], s, data)
         /\ CanSendDirect(m, c, target, ip, size, receptive)
         /\ result.mgr = direct
      \/ /\ result.status = "buffered" /\ ~ Unroutable(m, c, s, data)
         /\ ~ IsReplay(m.channels[c], s, data)
         /\ result.mgr = buffered
  BY RouteKinds
<1>3. ~ Unroutable(m, c, s, data) => Known(m, c)
  BY DEF Unroutable, Live
<1> HIDE DEF result, touched, direct, buffered, target
<1> USE DEF OldestGone
<1>4. CASE result.mgr = m
  <2>1. SameContent(m, m)
    BY DEF SameContent, SameTable, SameSeats, SameBuffers, SameNumbers
  <2>2. Delivers(m, m, time, result.status # "error") /\ NothingGone(m, m)
    BY <2>1, ContentDelivers
  <2> QED
    BY <1>4, <2>2 DEF result, NothingGone
<1>5. CASE ~ Unroutable(m, c, s, data) /\ result.mgr = touched
  <2>1. SameContent(m, touched) /\ Clocked(m, touched, c, time)
    BY <1>1, <1>3, <1>5, TouchedEffects DEF touched
  <2>2. Delivers(m, touched, time, result.status # "error") /\ NothingGone(m, touched)
    BY <2>1, ContentDelivers DEF Clocked
  <2> QED
    BY <1>5, <2>2 DEF result, NothingGone
<1>6. CASE /\ result.status = "direct" /\ ~ Unroutable(m, c, s, data)
           /\ ~ IsReplay(m.channels[c], s, data)
           /\ CanSendDirect(m, c, target, ip, size, receptive)
           /\ result.mgr = direct
  <2>1. target \in Sockets /\ Known(m, c)
    BY <1>3, <1>6 DEF CanSendDirect
  <2>2. /\ SameTable(m, direct) /\ SameBuffers(m, direct)
        /\ NumberMoves(m, direct, c, s, data) /\ Clocked(m, direct, c, time)
    BY <1>1, <2>1, DirectEffects DEF direct, touched
  <2>3. TombstonesKept(m, direct, time)
    BY <2>2, TableKeepsTombstones
  <2>4. NumbersKept(m, direct, TRUE)
    BY <1>1, <1>6, <2>1, <2>2, NumberMovesKept
  <2>5. NothingGone(m, direct) /\ Aged(direct, time) /\ Bounded(direct)
    BY <2>2, BuffersKeepMail DEF Clocked
  <2>6. NumbersKept(m, direct, result.status # "error")
    BY <1>6, <2>4 DEF NumbersKept
  <2>7. Delivers(m, direct, time, result.status # "error")
    BY <2>3, <2>5, <2>6 DEF Delivers
  <2> QED
    BY <1>6, <2>5, <2>7 DEF result, NothingGone
<1>7. CASE /\ result.status = "buffered" /\ ~ Unroutable(m, c, s, data)
           /\ ~ IsReplay(m.channels[c], s, data)
           /\ result.mgr = buffered
  <2>1. Known(m, c) /\ m.channels[c] \in Channel
    BY <1>1, <1>3, <1>7, KnownType
  <2>2. /\ SameTable(m, buffered) /\ NumberMoves(m, buffered, c, s, data)
        /\ Clocked(m, buffered, c, time)
        /\ message \in Message
        /\ buffered.channels[c].messageBuffer = Pushed(m.channels[c], message)
        /\ \A d \in Channels \ {c} : Known(m, d) =>
             buffered.channels[d].messageBuffer = m.channels[d].messageBuffer
    BY <1>1, <2>1, BufferedEffects DEF buffered, touched
  <2>3. TombstonesKept(m, buffered, time)
    BY <2>2, TableKeepsTombstones
  <2>4. NumbersKept(m, buffered, TRUE)
    BY <1>1, <1>7, <2>1, <2>2, NumberMovesKept
  <2>5. message.id = data.id /\ message.timestamp = time
    BY DEF MessageOf
  <2> DEFINE q == m.channels[c].messageBuffer
             p == Pushed(m.channels[c], message)
  <2> HIDE DEF message
  <2>6. /\ p \in Seq(Message) /\ Len(p) <= MaxBufferedMessages
        /\ Len(p) > 0 /\ p[Len(p)] = message
        /\ Range(p) \subseteq Range(q) \cup {message}
        /\ \A x \in Range(q) :
             x \in Range(p) \/ (x = Head(q) /\ Len(q) = MaxBufferedMessages /\ Len(p) = Len(q))
    BY <2>1, <2>2, PushedFacts DEF Fine, Bounded
  <2>7. Bounded(buffered)
    BY <2>2, <2>6 DEF Bounded, SameTable, Fine
  <2>8. Aged(buffered, time)
    <3> SUFFICES ASSUME NEW d \in Channels, Known(buffered, d)
                 PROVE  /\ buffered.channels[d].lastActivity <= time
                        /\ \A x \in Range(buffered.channels[d].messageBuffer) :
                             x.timestamp <= buffered.channels[d].lastActivity
      BY DEF Aged
    <3>1. Known(m, d)
      BY <2>2 DEF SameTable
    <3>2. /\ m.channels[d].lastActivity \in Nat
          /\ \A x \in Range(m.channels[d].messageBuffer) : x.timestamp \in Nat
      BY <1>1, <3>1, BufferTypes
    <3>3. /\ m.channels[d].lastActivity <= time
          /\ \A x \in Range(m.channels[d].messageBuffer) :
               x.timestamp <= m.channels[d].lastActivity
      BY <3>1 DEF Fine, Aged
    <3>4. CASE d = c
      <4>1. buffered.channels[d].lastActivity = time
        BY <2>2, <3>1, <3>4 DEF Clocked
      <4>2. \A x \in Range(p) : x.timestamp <= time
        BY <2>5, <2>6, <3>2, <3>3, <3>4
      <4> QED
        BY <2>2, <3>4, <4>1, <4>2
    <3>5. CASE d # c
      <4>1. buffered.channels[d].lastActivity = m.channels[d].lastActivity
        BY <2>2, <3>1, <3>5 DEF Clocked
      <4> QED
        BY <2>2, <3>1, <3>3, <3>5, <4>1
    <3> QED
      BY <3>4, <3>5
  <2>9. OldestGone(m, buffered, c, data.id)
    <3> SUFFICES ASSUME NEW d \in Channels, Live(m, d), NEW x \in Gone(m, buffered, d)
                 PROVE  LET before == m.channels[d].messageBuffer
                            after == buffered.channels[d].messageBuffer
                        IN  /\ d = c /\ x = Head(before) /\ Len(before) = MaxBufferedMessages
                            /\ Len(after) = Len(before) /\ after[Len(after)].id = data.id
      OBVIOUS
    <3>1. Known(m, d) /\ Known(buffered, d)
      BY <2>2 DEF SameTable, Live
    <3>2. /\ x \in Range(m.channels[d].messageBuffer)
          /\ x \notin Range(buffered.channels[d].messageBuffer)
      BY <3>1 DEF Gone
    <3>3. d = c
      BY <2>2, <3>1, <3>2
    <3> QED
      BY <2>2, <2>5, <2>6, <3>2, <3>3
  <2>10. NumbersKept(m, buffered, result.status # "error")
    BY <1>7, <2>4 DEF NumbersKept
  <2>11. Delivers(m, buffered, time, result.status # "error")
    BY <2>3, <2>7, <2>8, <2>10 DEF Delivers
  <2> QED
    BY <1>7, <2>9, <2>11 DEF result
<1> QED
  BY <1>2, <1>4, <1>5, <1>6, <1>7

\* Buffers that only got shorter.
LEMMA ShorterBuffers ==
  ASSUME NEW m, NEW n, NEW time \in Nat, Fine(m, time), Sane(n),
         \A c \in Channels : Known(n, c) =>
           \/ /\ Known(m, c)
              /\ Range(n.channels[c].messageBuffer) \subseteq Range(m.channels[c].messageBuffer)
              /\ Len(n.channels[c].messageBuffer) <= Len(m.channels[c].messageBuffer)
              /\ n.channels[c].lastActivity \in {m.channels[c].lastActivity, time}
           \/ n.channels[c].messageBuffer = << >> /\ n.channels[c].lastActivity = time
  PROVE  Aged(n, time) /\ Bounded(n)
<1> SUFFICES ASSUME NEW c \in Channels, Known(n, c)
             PROVE  /\ n.channels[c].lastActivity <= time
                    /\ \A x \in Range(n.channels[c].messageBuffer) :
                         x.timestamp <= n.channels[c].lastActivity
                    /\ Len(n.channels[c].messageBuffer) <= MaxBufferedMessages
  BY DEF Aged, Bounded
<1>1. MaxBufferedMessages \in Nat /\ n.channels[c].messageBuffer \in Seq(Message)
  BY BufferTypes, ConstantsAssumption
<1>2. CASE /\ Known(m, c)
           /\ Range(n.channels[c].messageBuffer) \subseteq Range(m.channels[c].messageBuffer)
           /\ Len(n.channels[c].messageBuffer) <= Len(m.channels[c].messageBuffer)
           /\ n.channels[c].lastActivity \in {m.channels[c].lastActivity, time}
  <2>1. /\ m.channels[c].lastActivity \in Nat /\ m.channels[c].messageBuffer \in Seq(Message)
        /\ \A x \in Range(m.channels[c].messageBuffer) : x.timestamp \in Nat
    BY <1>2, BufferTypes DEF Fine
  <2>2. /\ m.channels[c].lastActivity <= time
        /\ \A x \in Range(m.channels[c].messageBuffer) :
             x.timestamp <= m.channels[c].lastActivity
        /\ Len(m.channels[c].messageBuffer) <= MaxBufferedMessages
    BY <1>2 DEF Fine, Aged, Bounded
  <2>3. \A x \in Range(m.channels[c].messageBuffer) : x.timestamp <= time
    BY <2>1, <2>2
  <2>4. Len(n.channels[c].messageBuffer) <= MaxBufferedMessages
    BY <1>1, <1>2, <2>1, <2>2
  <2>5. CASE n.channels[c].lastActivity = m.channels[c].lastActivity
    BY <1>2, <2>2, <2>4, <2>5
  <2>6. CASE n.channels[c].lastActivity = time
    BY <1>2, <2>3, <2>4, <2>6
  <2> QED
    BY <1>2, <2>5, <2>6
<1>3. CASE n.channels[c].messageBuffer = << >> /\ n.channels[c].lastActivity = time
  <2>1. Range(n.channels[c].messageBuffer) = {} /\ Len(n.channels[c].messageBuffer) = 0
    BY <1>3 DEF Range
  <2> QED
    BY <1>1, <1>3, <2>1
<1> QED
  BY <1>2, <1>3

\* Leaving drops nothing but the number of the socket that left.
LEMMA LeaveDelivers ==
  ASSUME NEW m, NEW time \in Nat, Fine(m, time), NEW c \in Channels, NEW s \in Sockets,
         NEW accepted
  PROVE  /\ Delivers(m, Leave(m, c, s, time), time, accepted)
         /\ NothingGone(m, Leave(m, c, s, time))
<1> DEFINE n == Leave(m, c, s, time)
<1>1. Sane(m)
  BY DEF Fine
<1>2. /\ SameTable(m, n) /\ SameBuffers(m, n)
      /\ \A d \in Channels, t \in Sockets : Known(m, d) =>
           /\ n.channels[d].participants[t] =
                IF d = c /\ t = s THEN None ELSE m.channels[d].participants[t]
           /\ \/ n.channels[d].seqNumbers[t] = m.channels[d].seqNumbers[t]
              \/ d = c /\ t = s /\ n.channels[d].seqNumbers[t] = -1
      /\ \A d \in Channels : Known(m, d) =>
           n.channels[d].lastActivity \in
             {m.channels[d].lastActivity, IF d = c THEN time ELSE m.channels[d].lastActivity}
  BY <1>1, LeaveEffects
<1> HIDE DEF n
<1>3. TombstonesKept(m, n, time)
  BY <1>2, TableKeepsTombstones
<1>4. NothingGone(m, n) /\ Aged(n, time) /\ Bounded(n)
  BY <1>2, BuffersKeepMail
<1>5. NumbersKept(m, n, accepted)
  <2> SUFFICES ASSUME NEW d \in Channels, NEW t \in Sockets, Live(m, d)
               PROVE  /\ ~ (n.channels[d].seqNumbers[t] > m.channels[d].seqNumbers[t])
                      /\ n.channels[d].seqNumbers[t] < m.channels[d].seqNumbers[t]
                           => t \notin Members(n.channels[d])
    BY DEF NumbersKept
  <2>1. Known(m, d) /\ m.channels[d] \in Channel
    BY <1>1, KnownType DEF Live
  <2>2. m.channels[d].seqNumbers[t] \in Nat \cup {-1}
    BY <2>1 DEF Channel
  <2>3. CASE n.channels[d].seqNumbers[t] = m.channels[d].seqNumbers[t]
    BY <2>2, <2>3
  <2>4. CASE d = c /\ t = s /\ n.channels[d].seqNumbers[t] = -1
    <3>1. t \notin Members(n.channels[d])
      BY <1>2, <2>1, <2>4 DEF Members
    <3> QED
      BY <2>2, <2>4, <3>1
  <2> QED
    BY <1>2, <2>1, <2>3, <2>4
<1> QED
  BY <1>3, <1>4, <1>5 DEF Delivers, n

\* Giving back a reservation drops nothing.
LEMMA ReleaseDelivers ==
  ASSUME NEW m, NEW time \in Nat, Fine(m, time), NEW s \in Sockets, NEW accepted
  PROVE  /\ Delivers(m, ReleaseDirectDelivery(m, s), time, accepted)
         /\ NothingGone(m, ReleaseDirectDelivery(m, s))
<1>1. BytesOnly(m, ReleaseDirectDelivery(m, s))
  BY ReleaseDirectDeliveryEffects DEF Fine
<1> QED
  BY <1>1, ContentDelivers DEF BytesOnly, SameClocks

\* What a drain promotes has a participant to go to.
LEMMA AdvanceDelivers ==
  ASSUME NEW m, NEW time \in Nat, Fine(m, time), NEW s \in Sockets, NEW accepted
  PROVE  LET a == AdvanceDirectDelivery(m, s)
         IN  /\ Delivers(m, a.mgr, time, accepted)
             /\ HandedOver(m, a.mgr, m.directDeliveries[s].channel, s, <<a.next>>)
<1> DEFINE a == AdvanceDirectDelivery(m, s)
           n == a.mgr
           c == m.directDeliveries[s].channel
           q == m.channels[c].messageBuffer
           rest == Keep(q, Range(q) \ {a.next})
<1>1. Sane(m)
  BY DEF Fine
<1>2. Sane(n)
  BY <1>1, AdvanceDirectDeliveryStep DEF Step
<1>3. /\ SameTable(m, n) /\ SameSeats(m, n) /\ SameNumbers(m, n) /\ SameClocks(m, n)
      /\ a.next = None => SameBuffers(m, n)
      /\ a.next # None =>
           /\ m.directDeliveries[s] # None /\ c \in Channels /\ Known(m, c)
           /\ a.next \in Promotable(m, s) /\ a.next \in Message
           /\ n.channels[c].messageBuffer = rest
           /\ \A d \in Channels \ {c} : Known(m, d) =>
                n.channels[d].messageBuffer = m.channels[d].messageBuffer
  BY <1>1, AdvanceDirectDeliveryEffects
<1> HIDE DEF n, rest
<1>4. TombstonesKept(m, n, time) /\ NumbersKept(m, n, accepted)
  BY <1>1, <1>3, TableKeepsTombstones, SameNumbersKept
<1>5. CASE a.next = None
  <2>1. SameTable(m, n) /\ SameBuffers(m, n)
    BY <1>3, <1>5
  <2>2. \A d \in Channels : Known(m, d) =>
          n.channels[d].lastActivity \in {m.channels[d].lastActivity, time}
    BY <1>3 DEF SameClocks
  <2>3. NothingGone(m, n) /\ Aged(n, time) /\ Bounded(n)
    BY <2>1, <2>2, BuffersKeepMail
  <2> QED
    BY <1>4, <2>3 DEF Delivers, n, NothingGone, HandedOver
<1>6. CASE a.next # None
  <2>1. c \in Channels /\ Known(m, c) /\ a.next \in Promotable(m, s)
        /\ n.channels[c].messageBuffer = rest
    BY <1>3, <1>6
  <2>2. q \in Seq(Message)
    BY <1>1, <2>1, BufferTypes
  <2>3. Range(rest) = Range(q) \ {a.next} /\ Len(rest) <= Len(q)
    BY <2>2, KeepFacts DEF rest
  <2>4. \A d \in Channels : Known(n, d) =>
          /\ Known(m, d)
          /\ Range(n.channels[d].messageBuffer) \subseteq Range(m.channels[d].messageBuffer)
          /\ Len(n.channels[d].messageBuffer) <= Len(m.channels[d].messageBuffer)
          /\ n.channels[d].lastActivity = m.channels[d].lastActivity
    <3> SUFFICES ASSUME NEW d \in Channels, Known(n, d)
                 PROVE  /\ Known(m, d)
                        /\ Range(n.channels[d].messageBuffer)
                             \subseteq Range(m.channels[d].messageBuffer)
                        /\ Len(n.channels[d].messageBuffer) <= Len(m.channels[d].messageBuffer)
                        /\ n.channels[d].lastActivity = m.channels[d].lastActivity
      OBVIOUS
    <3>1. Known(m, d) /\ n.channels[d].lastActivity = m.channels[d].lastActivity
      BY <1>3 DEF SameTable, SameClocks
    <3>2. CASE d = c
      BY <2>1, <2>3, <3>1, <3>2
    <3>3. CASE d # c
      <4>1. m.channels[d].messageBuffer \in Seq(Message)
        BY <1>1, <3>1, BufferTypes
      <4>2. n.channels[d].messageBuffer = m.channels[d].messageBuffer
        BY <1>3, <1>6, <3>1, <3>3
      <4> QED
        BY <3>1, <4>1, <4>2
    <3> QED
      BY <3>2, <3>3
  <2>5. Aged(n, time) /\ Bounded(n)
    BY <1>2, <2>4, ShorterBuffers
  <2>6. HandedOver(m, n, c, s, <<a.next>>)
    <3> SUFFICES ASSUME NEW d \in Channels, Live(m, d), NEW x \in Gone(m, n, d)
                 PROVE  d = c /\ Addressee(n, d, x, s) /\ x = a.next
      BY DEF HandedOver, Range
    <3>1. Known(n, d) /\ Known(m, d)
      BY <1>3 DEF SameTable, Live
    <3>2. x \in Range(m.channels[d].messageBuffer) /\ x \notin Range(n.channels[d].messageBuffer)
      BY <3>1 DEF Gone
    <3>3. d = c
      BY <1>3, <1>6, <3>1, <3>2
    <3>4. x = a.next
      BY <2>1, <2>3, <3>2, <3>3
    <3>5. x \in For(q, m.channels[c].participants[s])
      BY <2>1, <3>4 DEF Promotable
    <3>6. n.channels[c].participants[s] = x.targetClientType
      BY <1>3, <2>1, <3>5 DEF For, SameSeats
    <3> QED
      BY <3>1, <3>3, <3>4, <3>6 DEF Addressee
  <2> QED
    BY <1>4, <2>5, <2>6 DEF Delivers, n
<1> QED
  BY <1>5, <1>6

\* A close empties one buffer, and deletes a tombstone only when there are too many.
LEMMA CloseDelivers ==
  ASSUME NEW m, NEW time \in Nat, Fine(m, time), NEW c \in Channels, Live(m, c),
         NEW accepted
  PROVE  /\ Delivers(m, Close(m, c, time), time, accepted)
         /\ \A d \in Channels \ {c} : Live(m, d) => Gone(m, Close(m, c, time), d) = {}
<1> DEFINE n == Close(m, c, time)
<1>1. Sane(m) /\ Sane(n)
  BY CloseFacts DEF Fine
<1>2. /\ \A d \in Channels \ {c} : Known(n, d) => n.channels[d] = m.channels[d]
      /\ \A d \in Channels \ {c} : Known(m, d) /\ ~ Known(n, d) =>
           /\ Tombstone(m, d) /\ Len(m.terminatedOrder) >= MaxTombstones
           /\ d = Head(m.terminatedOrder)
      /\ Known(n, c) => /\ Tombstone(n, c) /\ n.channels[c].messageBuffer = << >>
                        /\ n.channels[c].lastActivity = time
      /\ c \notin Range(m.terminatedOrder) => Known(n, c)
  BY <1>1, CloseEffects
<1> HIDE DEF n
<1>3. ~ Tombstone(m, c) /\ c \notin Range(m.terminatedOrder)
  BY DEF Fine, OrderOK, OrderExact, Tombstone, Live
<1>4. Known(n, c) /\ Tombstone(n, c) /\ ~ Live(n, c)
  BY <1>2, <1>3 DEF Tombstone, Live
<1>5. TombstonesKept(m, n, time)
  <2> SUFFICES ASSUME NEW d \in Channels, Tombstone(m, d)
               PROVE  \/ Tombstone(n, d) /\ n.channels[d].terminatedAt = m.channels[d].terminatedAt
                      \/ /\ ~ Known(n, d) /\ Len(m.terminatedOrder) = MaxTombstones
                         /\ d = Head(m.terminatedOrder)
    BY DEF TombstonesKept
  <2>1. d # c /\ Known(m, d)
    BY <1>3 DEF Tombstone
  <2>2. CASE Known(n, d)
    BY <1>2, <2>1, <2>2 DEF Tombstone
  <2>3. CASE ~ Known(n, d)
    <3>1. /\ Len(m.terminatedOrder) \in Nat /\ MaxTombstones \in Nat
          /\ Len(m.terminatedOrder) <= MaxTombstones
      BY <1>1, ConstantsAssumption DEF Fine, OrderOK, Sane, Manager
    <3> QED
      BY <1>2, <2>1, <2>3, <3>1
  <2> QED
    BY <2>2, <2>3
<1>6. NumbersKept(m, n, accepted)
  <2> SUFFICES ASSUME NEW d \in Channels, NEW t \in Sockets, Live(m, d), Live(n, d)
               PROVE  /\ ~ (n.channels[d].seqNumbers[t] > m.channels[d].seqNumbers[t])
                      /\ ~ (n.channels[d].seqNumbers[t] < m.channels[d].seqNumbers[t])
    BY DEF NumbersKept
  <2>1. Known(m, d) /\ Known(n, d) /\ d # c
    BY <1>4 DEF Live
  <2>2. m.channels[d].seqNumbers[t] \in Int /\ n.channels[d] = m.channels[d]
    BY <1>1, <1>2, <2>1, BufferTypes
  <2> QED
    BY <2>2
<1>7. ASSUME NEW d \in Channels \ {c}, Live(m, d)
      PROVE  Gone(m, n, d) = {}
  <2>1. Known(m, d) /\ ~ Tombstone(m, d)
    BY <1>7 DEF Live, Tombstone
  <2>2. Known(n, d) /\ n.channels[d] = m.channels[d]
    BY <1>2, <2>1
  <2> QED
    BY <2>2 DEF Gone
<1>8. Aged(n, time) /\ Bounded(n)
  <2>1. \A d \in Channels : Known(n, d) =>
          \/ /\ Known(m, d)
             /\ Range(n.channels[d].messageBuffer) \subseteq Range(m.channels[d].messageBuffer)
             /\ Len(n.channels[d].messageBuffer) <= Len(m.channels[d].messageBuffer)
             /\ n.channels[d].lastActivity \in {m.channels[d].lastActivity, time}
          \/ n.channels[d].messageBuffer = << >> /\ n.channels[d].lastActivity = time
    <3> SUFFICES ASSUME NEW d \in Channels, Known(n, d), d # c
                 PROVE  /\ Known(m, d) /\ n.channels[d] = m.channels[d]
                        /\ Len(m.channels[d].messageBuffer) <= Len(m.channels[d].messageBuffer)
      BY <1>2, <1>4
    <3>1. Known(m, d) /\ n.channels[d] = m.channels[d]
      BY <1>2 DEF Known
    <3>2. m.channels[d].messageBuffer \in Seq(Message)
      BY <1>1, <3>1, BufferTypes
    <3>3. Len(m.channels[d].messageBuffer) \in Nat
      BY <3>2
    <3> QED
      BY <3>1, <3>3
  <2> QED
    BY <1>1, <2>1, ShorterBuffers
<1> QED
  BY <1>5, <1>6, <1>7, <1>8 DEF Delivers, n

\* A cleanup drops what outlived its time: a live channel is deleted only when its
\* buffered messages have all expired.
LEMMA CleanupDelivers ==
  ASSUME NEW m, NEW time \in Nat, Fine(m, time), NEW accepted
  PROVE  /\ Delivers(m, Cleanup(m, time), time, accepted)
         /\ \A c \in Channels : Live(m, c) =>
              \A x \in Gone(m, Cleanup(m, time), c) : time - x.timestamp >= BufferTTL
<1> DEFINE n == Cleanup(m, time)
<1>1. Sane(m) /\ Sane(n)
  BY CleanupFacts DEF Fine
<1>2. /\ \A c \in Channels : Known(n, c) <=> Known(m, c) /\ c \notin Reaped(m, time)
      /\ \A c \in Channels : Known(n, c) =>
           /\ n.channels[c].terminated = m.channels[c].terminated
           /\ n.channels[c].terminatedAt = m.channels[c].terminatedAt
           /\ n.channels[c].seqNumbers = m.channels[c].seqNumbers
           /\ n.channels[c].lastActivity = m.channels[c].lastActivity
           /\ n.channels[c].messageBuffer =
                Keep(m.channels[c].messageBuffer,
                     Range(m.channels[c].messageBuffer) \ Range(Expired(m, c, time)))
  <2>1. CleanedUp(m, n, time)
    BY <1>1, CleanupEffects
  <2> HIDE DEF n
  <2> QED
    BY <2>1 DEF CleanedUp
<1> HIDE DEF n
<1>3. TombstonesKept(m, n, time)
  BY <1>2 DEF TombstonesKept, Tombstone, Reaped, Live
<1>4. NumbersKept(m, n, accepted)
  <2> SUFFICES ASSUME NEW c \in Channels, NEW t \in Sockets, Live(m, c), Live(n, c)
               PROVE  /\ ~ (n.channels[c].seqNumbers[t] > m.channels[c].seqNumbers[t])
                      /\ ~ (n.channels[c].seqNumbers[t] < m.channels[c].seqNumbers[t])
    BY DEF NumbersKept
  <2>1. Known(m, c) /\ Known(n, c)
    BY DEF Live
  <2>2. m.channels[c].seqNumbers[t] \in Int
    BY <1>1, <2>1, BufferTypes
  <2>3. n.channels[c].seqNumbers[t] = m.channels[c].seqNumbers[t]
    BY <1>2, <2>1
  <2> QED
    BY <2>2, <2>3
<1>5. ASSUME NEW c \in Channels, Known(m, c)
      PROVE  LET q == m.channels[c].messageBuffer
                 rest == Keep(q, Range(q) \ Range(Expired(m, c, time)))
             IN  /\ \A x \in Range(q) : x \in Range(rest) \/ time - x.timestamp >= BufferTTL
                 /\ Range(rest) \subseteq Range(q) /\ Len(rest) <= Len(q)
  <2> DEFINE q == m.channels[c].messageBuffer
             old == {x \in Range(q) : time - x.timestamp >= BufferTTL}
             rest == Keep(q, Range(q) \ Range(Expired(m, c, time)))
  <2>1. q \in Seq(Message)
    BY <1>1, <1>5, BufferTypes
  <2>2. Expired(m, c, time) = Keep(q, old)
    BY DEF Expired
  <2> HIDE DEF old, q
  <2>3. Range(Expired(m, c, time)) = Range(q) \cap old
    BY <2>1, <2>2, KeepFacts
  <2>4. Range(rest) = Range(q) \cap (Range(q) \ Range(Expired(m, c, time)))
        /\ Len(rest) <= Len(q)
    BY <2>1, KeepFacts
  <2> QED
    BY <2>3, <2>4 DEF old, q
<1>6. ASSUME NEW c \in Channels, Live(m, c), NEW x \in Gone(m, n, c)
      PROVE  time - x.timestamp >= BufferTTL
  <2>1. Known(m, c) /\ ~ Tombstone(m, c) /\ x \in Range(m.channels[c].messageBuffer)
    BY <1>6 DEF Live, Tombstone, Gone
  <2>2. CASE c \in Reaped(m, time)
    <3>1. m.channels[c].lastActivity \in Nat /\ x.timestamp \in Nat
      BY <1>1, <2>1, BufferTypes
    <3>2. x.timestamp <= m.channels[c].lastActivity
      BY <2>1 DEF Fine, Aged
    <3>3. time - m.channels[c].lastActivity > ChannelTTL
      BY <2>1, <2>2 DEF Reaped
    <3>4. ChannelTTL \in Nat /\ BufferTTL \in Nat /\ BufferTTL < ChannelTTL
      BY ConstantsAssumption
    <3> QED
      BY <3>1, <3>2, <3>3, <3>4
  <2>3. CASE c \notin Reaped(m, time)
    <3>1. Known(n, c)
      BY <1>2, <2>1, <2>3
    <3>2. x \notin Range(n.channels[c].messageBuffer)
      BY <3>1 DEF Gone
    <3> QED
      BY <1>2, <1>5, <2>1, <3>1, <3>2
  <2> QED
    BY <2>2, <2>3
<1>7. Aged(n, time) /\ Bounded(n)
  <2>1. \A c \in Channels : Known(n, c) =>
          /\ Known(m, c)
          /\ Range(n.channels[c].messageBuffer) \subseteq Range(m.channels[c].messageBuffer)
          /\ Len(n.channels[c].messageBuffer) <= Len(m.channels[c].messageBuffer)
          /\ n.channels[c].lastActivity = m.channels[c].lastActivity
    BY <1>2, <1>5
  <2> QED
    BY <1>1, <2>1, ShorterBuffers
<1> QED
  BY <1>3, <1>4, <1>6, <1>7 DEF Delivers, n

\* A join that got past the first refusals: the channel is there, and a stale holder
\* of the role is not.
LEMMA ReadyToAdmit ==
  ASSUME NEW m, Sane(m), NEW c \in Channels, ~ Tombstone(m, c), NEW s \in Sockets,
         NEW role \in Roles, NEW ip \in Ips, NEW time \in Nat
  PROVE  LET e == EvictRival(Opened(m, c, ip, time), c, s, role)
         IN  /\ Sane(e) /\ Known(e, c) /\ e.terminatedOrder = m.terminatedOrder
             /\ \A d \in Channels : Known(e, d) => Known(m, d) \/ d = c
             /\ \A d \in Channels : Known(m, d) =>
                  /\ Known(e, d)
                  /\ e.channels[d].terminated = m.channels[d].terminated
                  /\ e.channels[d].terminatedAt = m.channels[d].terminatedAt
                  /\ e.channels[d].messageBuffer = m.channels[d].messageBuffer
                  /\ e.channels[d].lastActivity = m.channels[d].lastActivity
             /\ ~ Known(m, c) => /\ e.channels[c].messageBuffer = << >>
                                 /\ e.channels[c].lastActivity = time
             /\ \A d \in Channels, t \in Sockets : Known(m, d) =>
                  \/ /\ e.channels[d].participants[t] = m.channels[d].participants[t]
                     /\ e.channels[d].seqNumbers[t] = m.channels[d].seqNumbers[t]
                  \/ /\ d = c /\ t # s
                     /\ e.channels[d].participants[t] = None
                     /\ e.channels[d].seqNumbers[t] = -1
<1> DEFINE o == Opened(m, c, ip, time)
           e == EvictRival(o, c, s, role)
<1>1. /\ Sane(o) /\ Live(o, c)
      /\ o.terminatedOrder = m.terminatedOrder
      /\ \A d \in Channels : Known(o, d) <=> Known(m, d) \/ d = c
      /\ \A d \in Channels : Known(m, d) => o.channels[d] = m.channels[d]
      /\ ~ Known(m, c) => /\ o.channels[c].messageBuffer = << >>
                          /\ o.channels[c].lastActivity = time
  BY OpenedEffects
<1> HIDE DEF o
<1>2. Known(o, c)
  BY <1>1 DEF Live
<1>3. /\ SameTable(o, e) /\ SameBuffers(o, e) /\ SameClocks(o, e)
      /\ \A d \in Channels, t \in Sockets : Known(o, d) =>
           \/ /\ e.channels[d].participants[t] = o.channels[d].participants[t]
              /\ e.channels[d].seqNumbers[t] = o.channels[d].seqNumbers[t]
           \/ /\ d = c /\ t \in Rivals(o, c, s, role)
              /\ e.channels[d].participants[t] = None
              /\ e.channels[d].seqNumbers[t] = -1
  BY <1>1, <1>2, EvictEffects
<1>4. Sane(e)
  BY <1>1, <1>2, EvictFacts DEF Step
<1> HIDE DEF e
<1>5. \A t \in Rivals(o, c, s, role) : t # s
  BY DEF Rivals
<1>6. /\ Known(e, c) /\ e.terminatedOrder = m.terminatedOrder
      /\ \A d \in Channels : Known(e, d) => Known(m, d) \/ d = c
  BY <1>1, <1>2, <1>3 DEF SameTable
<1>7. ASSUME NEW d \in Channels, Known(m, d)
      PROVE  /\ Known(e, d)
             /\ e.channels[d].terminated = m.channels[d].terminated
             /\ e.channels[d].terminatedAt = m.channels[d].terminatedAt
             /\ e.channels[d].messageBuffer = m.channels[d].messageBuffer
             /\ e.channels[d].lastActivity = m.channels[d].lastActivity
  BY <1>1, <1>3, <1>7 DEF SameTable, SameBuffers, SameClocks
<1>8. ~ Known(m, c) => e.channels[c].messageBuffer = << >> /\ e.channels[c].lastActivity = time
  BY <1>1, <1>2, <1>3 DEF SameBuffers, SameClocks
<1>9. ASSUME NEW d \in Channels, NEW t \in Sockets, Known(m, d)
      PROVE  \/ /\ e.channels[d].participants[t] = m.channels[d].participants[t]
                /\ e.channels[d].seqNumbers[t] = m.channels[d].seqNumbers[t]
             \/ /\ d = c /\ t # s
                /\ e.channels[d].participants[t] = None
                /\ e.channels[d].seqNumbers[t] = -1
  BY <1>1, <1>3, <1>5, <1>9
<1> QED
  BY <1>4, <1>6, <1>7, <1>8, <1>9 DEF e, o

\* A join gives what it takes from the buffer to the socket it seats.
LEMMA JoinDelivers ==
  ASSUME NEW m, NEW time \in Nat, Fine(m, time), NEW c \in Channels, NEW s \in Sockets,
         NEW role \in Roles, NEW publicKey \in Keys \cup {None}, NEW ip \in Ips,
         NEW active \in SUBSET Sockets, NEW accepted
  PROVE  LET result == Join(m, c, s, role, publicKey, ip, active, time)
         IN  /\ Delivers(m, result.mgr, time, accepted)
             /\ HandedOver(m, result.mgr, c, s, result.bufferedMessages)
<1> DEFINE result == Join(m, c, s, role, publicKey, ip, active, time)
           key == BoundKey(role, publicKey)
           e == EvictRival(Opened(m, c, ip, time), c, s, role)
           n == Admit(e, c, s, role, key, time).mgr
           q == e.channels[c].messageBuffer
           rest == Keep(q, Range(q) \ For(q, role))
<1>1. Sane(m) /\ Sane(result.mgr)
  BY JoinPreserves DEF Fine, Preserves
<1>2. \/ result.mgr = m
      \/ /\ ~ Tombstone(m, c)
         /\ \/ result.mgr = e
            \/ result.mgr = n /\ result.bufferedMessages = Keep(q, For(q, role))
  BY JoinKinds
<1>3. key \in Keys \cup {None}
  BY DEF BoundKey
<1> HIDE DEF result, key
<1>4. CASE result.mgr = m
  <2>1. SameContent(m, m)
    BY DEF SameContent, SameTable, SameSeats, SameBuffers, SameNumbers
  <2>2. Delivers(m, m, time, accepted) /\ NothingGone(m, m)
    BY <2>1, ContentDelivers
  <2> QED
    BY <1>4, <2>2 DEF result, NothingGone, HandedOver
<1>5. ASSUME ~ Tombstone(m, c),
             \/ result.mgr = e
             \/ result.mgr = n /\ result.bufferedMessages = Keep(q, For(q, role))
      PROVE  /\ Delivers(m, result.mgr, time, accepted)
             /\ HandedOver(m, result.mgr, c, s, result.bufferedMessages)
  <2>1. /\ Sane(e) /\ Known(e, c) /\ e.terminatedOrder = m.terminatedOrder
        /\ \A d \in Channels : Known(e, d) => Known(m, d) \/ d = c
        /\ \A d \in Channels : Known(m, d) =>
             /\ Known(e, d)
             /\ e.channels[d].terminated = m.channels[d].terminated
             /\ e.channels[d].terminatedAt = m.channels[d].terminatedAt
             /\ e.channels[d].messageBuffer = m.channels[d].messageBuffer
             /\ e.channels[d].lastActivity = m.channels[d].lastActivity
        /\ ~ Known(m, c) => /\ e.channels[c].messageBuffer = << >>
                            /\ e.channels[c].lastActivity = time
        /\ \A d \in Channels, t \in Sockets : Known(m, d) =>
             \/ /\ e.channels[d].participants[t] = m.channels[d].participants[t]
                /\ e.channels[d].seqNumbers[t] = m.channels[d].seqNumbers[t]
             \/ /\ d = c /\ t # s
                /\ e.channels[d].participants[t] = None
                /\ e.channels[d].seqNumbers[t] = -1
    BY <1>1, <1>5, ReadyToAdmit
  <2> HIDE DEF e
  <2>2. /\ SameTable(e, n) /\ SameNumbers(e, n) /\ Clocked(e, n, c, time)
        /\ \A d \in Channels, t \in Sockets : Known(e, d) =>
             n.channels[d].participants[t] =
               IF d = c /\ t = s THEN role ELSE e.channels[d].participants[t]
        /\ n.channels[c].messageBuffer = rest
        /\ \A d \in Channels \ {c} : Known(e, d) =>
             n.channels[d].messageBuffer = e.channels[d].messageBuffer
    <3>1. Admitted(e, n, c, s, role, time)
      BY <1>3, <2>1, AdmitEffects
    <3> QED
      BY <3>1 DEF Admitted
  <2>3. q \in Seq(Message)
    BY <2>1, BufferTypes
  <2>0. Range(Keep(q, For(q, role))) = Range(q) \cap For(q, role)
    BY <2>3, KeepFacts
  <2>4. Range(rest) = Range(q) \ For(q, role) /\ Len(rest) <= Len(q)
    <3>1. Range(rest) = Range(q) \cap (Range(q) \ For(q, role)) /\ Len(rest) <= Len(q)
      BY <2>3, KeepFacts
    <3> QED
      BY <3>1
  <2> HIDE DEF n, rest
  <2> DEFINE k == result.mgr
  <2>5. \A d \in Channels : Known(m, d) =>
          /\ Known(k, d)
          /\ k.channels[d].terminated = m.channels[d].terminated
          /\ k.channels[d].terminatedAt = m.channels[d].terminatedAt
          /\ k.channels[d].lastActivity \in {m.channels[d].lastActivity, time}
    BY <1>5, <2>1, <2>2 DEF SameTable, Clocked
  <2>6. \A d \in Channels : Known(k, d) => Known(m, d) \/ d = c
    BY <1>5, <2>1, <2>2 DEF SameTable
  <2>7. \A d \in Channels \ {c} : Known(m, d) =>
          k.channels[d].messageBuffer = m.channels[d].messageBuffer
    BY <1>5, <2>1, <2>2
  <2>8. \/ k.channels[c].messageBuffer = q
        \/ /\ k.channels[c].messageBuffer = rest /\ k.channels[c].participants[s] = role
           /\ result.bufferedMessages = Keep(q, For(q, role))
    BY <1>5, <2>1, <2>2
  <2>9. \A d \in Channels, t \in Sockets : Known(m, d) =>
          \/ k.channels[d].seqNumbers[t] = m.channels[d].seqNumbers[t]
          \/ k.channels[d].participants[t] = None /\ k.channels[d].seqNumbers[t] = -1
    <3> SUFFICES ASSUME NEW d \in Channels, NEW t \in Sockets, Known(m, d)
                 PROVE  \/ k.channels[d].seqNumbers[t] = m.channels[d].seqNumbers[t]
                        \/ /\ k.channels[d].participants[t] = None
                           /\ k.channels[d].seqNumbers[t] = -1
      OBVIOUS
    <3>1. CASE k = e
      BY <2>1, <3>1
    <3>2. CASE k = n
      <4>1. n.channels[d].seqNumbers = e.channels[d].seqNumbers
        BY <2>1, <2>2 DEF SameNumbers
      <4>2. n.channels[d].participants[t] =
              IF d = c /\ t = s THEN role ELSE e.channels[d].participants[t]
        BY <2>1, <2>2
      <4> QED
        BY <2>1, <3>2, <4>1, <4>2
    <3> QED
      BY <1>5, <3>1, <3>2
  <2>10. TombstonesKept(m, k, time)
    BY <2>5 DEF TombstonesKept, Tombstone
  <2>11. NumbersKept(m, k, accepted)
    <3> SUFFICES ASSUME NEW d \in Channels, NEW t \in Sockets, Live(m, d)
                 PROVE  /\ ~ (k.channels[d].seqNumbers[t] > m.channels[d].seqNumbers[t])
                        /\ k.channels[d].seqNumbers[t] < m.channels[d].seqNumbers[t]
                             => t \notin Members(k.channels[d])
      BY DEF NumbersKept
    <3>1. Known(m, d) /\ m.channels[d] \in Channel
      BY <1>1, KnownType DEF Live
    <3>2. m.channels[d].seqNumbers[t] \in Nat \cup {-1}
      BY <3>1 DEF Channel
    <3>3. CASE k.channels[d].seqNumbers[t] = m.channels[d].seqNumbers[t]
      BY <3>2, <3>3
    <3>4. CASE k.channels[d].participants[t] = None /\ k.channels[d].seqNumbers[t] = -1
      BY <3>2, <3>4 DEF Members
    <3> QED
      BY <2>9, <3>1, <3>3, <3>4
  <2>12. HandedOver(m, k, c, s, result.bufferedMessages)
    <3> SUFFICES ASSUME NEW d \in Channels, Live(m, d), NEW x \in Gone(m, k, d)
                 PROVE  d = c /\ Addressee(k, d, x, s) /\ x \in Range(result.bufferedMessages)
      BY DEF HandedOver
    <3>1. Known(m, d) /\ Known(k, d)
      BY <2>5 DEF Live
    <3>2. x \in Range(m.channels[d].messageBuffer) /\ x \notin Range(k.channels[d].messageBuffer)
      BY <3>1 DEF Gone
    <3>3. d = c
      BY <2>7, <3>1, <3>2
    <3>4. x \in Range(q)
      BY <2>1, <3>1, <3>2, <3>3
    <3>5. /\ k.channels[c].messageBuffer = rest /\ k.channels[c].participants[s] = role
          /\ result.bufferedMessages = Keep(q, For(q, role))
      BY <2>8, <3>2, <3>3, <3>4
    <3>6. x \in For(q, role)
      BY <2>4, <3>2, <3>3, <3>4, <3>5
    <3> QED
      BY <2>0, <3>1, <3>3, <3>4, <3>5, <3>6 DEF Addressee, For
  <2>13. Aged(k, time) /\ Bounded(k)
    <3>1. ASSUME NEW d \in Channels, Known(k, d)
          PROVE  \/ /\ Known(m, d)
                    /\ Range(k.channels[d].messageBuffer)
                         \subseteq Range(m.channels[d].messageBuffer)
                    /\ Len(k.channels[d].messageBuffer) <= Len(m.channels[d].messageBuffer)
                    /\ k.channels[d].lastActivity \in {m.channels[d].lastActivity, time}
                 \/ k.channels[d].messageBuffer = << >> /\ k.channels[d].lastActivity = time
      <4>1. CASE Known(m, d)
        <5>1. /\ m.channels[d].messageBuffer \in Seq(Message)
              /\ Len(m.channels[d].messageBuffer) \in Nat
          BY <1>1, <4>1, BufferTypes
        <5>2. k.channels[d].lastActivity \in {m.channels[d].lastActivity, time}
          BY <2>5, <4>1
        <5>3. CASE d # c
          <6>1. k.channels[d].messageBuffer = m.channels[d].messageBuffer
            BY <2>7, <4>1, <5>3
          <6> HIDE DEF k
          <6> QED
            BY <4>1, <5>1, <5>2, <6>1
        <5>4. CASE d = c
          <6>1. q = m.channels[d].messageBuffer
            BY <2>1, <4>1, <5>4
          <6> HIDE DEF k, q
          <6>2. k.channels[c].messageBuffer \in {q, rest}
            BY <2>8
          <6>3. /\ Range(k.channels[c].messageBuffer) \subseteq Range(q)
                /\ Len(k.channels[c].messageBuffer) <= Len(q)
            BY <2>4, <5>1, <6>1, <6>2
          <6> QED
            BY <4>1, <5>2, <5>4, <6>1, <6>3
        <5> QED
          BY <5>3, <5>4
      <4>2. CASE ~ Known(m, d)
        <5>1. d = c /\ q = << >> /\ e.channels[c].lastActivity = time
          BY <2>1, <2>6, <3>1, <4>2
        <5>2. rest = << >>
          <6>1. Len(rest) <= 0
            BY <2>4, <5>1
          <6>2. rest \in Seq(Message)
            BY <2>3, KeepFacts DEF rest
          <6> HIDE DEF rest
          <6> QED
            BY <6>1, <6>2
        <5>3. k.channels[c].lastActivity = time
          BY <1>5, <2>1, <2>2, <5>1 DEF Clocked
        <5> QED
          BY <2>8, <5>1, <5>2, <5>3
      <4> QED
        BY <4>1, <4>2
    <3> QED
      BY <1>1, <3>1, ShorterBuffers
  <2> QED
    BY <2>10, <2>11, <2>12, <2>13 DEF Delivers, k
<1> QED
  BY <1>2, <1>4, <1>5 DEF result

-----------------------------------------------------------------------------
(* The theorems *)

\* The invariant of ChannelManagerProofs, with the ages and the lengths of the buffers.
DeliveryInv == IInv /\ Aged(mgr, now) /\ Bounded(mgr)

\* There is nothing in the buffers of a new manager.
LEMMA InitDeliveryInv == Init => DeliveryInv
<1> SUFFICES ASSUME Init PROVE DeliveryInv
  OBVIOUS
<1>1. \A c \in Channels : ~ Known(mgr, c)
  BY DEF Init, NewManager, Known
<1> QED
  BY <1>1, InitIInv DEF DeliveryInv, Aged, Bounded

\* What every step of the manager keeps.
StepDelivers ==
  /\ Delivers(mgr, mgr', now, nextId' = nextId + 1)
  /\ Aged(mgr', now')

\* Every action calls one method, at one time.
LEMMA NextDelivers ==
  ASSUME DeliveryInv, Next
  PROVE  StepDelivers
<1>1. now \in Nat /\ nextId \in Nat /\ Fine(mgr, now)
  BY DEF DeliveryInv, IInv, Fine
<1>2. ASSUME Delivers(mgr, mgr', now, nextId' = nextId + 1), now' = now
      PROVE  StepDelivers
  BY <1>2 DEF StepDelivers, Delivers
<1>3. ASSUME NEW c \in Channels, NEW s \in Sockets, NEW role \in Roles,
             NEW key \in Keys \cup {None}, NEW ip \in Ips, NEW active \in Answers,
             JoinChannel(c, s, role, key, ip, active)
      PROVE  StepDelivers
  <2>1. active \in SUBSET Sockets
    BY DEF Answers
  <2>2. Delivers(mgr, Join(mgr, c, s, role, key, ip, active, now).mgr, now, nextId' = nextId + 1)
    BY <1>1, <2>1, JoinDelivers
  <2> QED
    BY <1>2, <1>3, <2>2 DEF JoinChannel
<1>4. ASSUME NEW c \in Channels, NEW s \in Sockets, LeaveChannel(c, s)
      PROVE  StepDelivers
  <2>1. Delivers(mgr, Leave(mgr, c, s, now), now, nextId' = nextId + 1)
    BY <1>1, LeaveDelivers
  <2> QED
    BY <1>2, <1>4, <2>1 DEF LeaveChannel
<1>5. ASSUME NEW c \in Channels, CloseChannel(c)
      PROVE  StepDelivers
  <2>1. Delivers(mgr, Close(mgr, c, now), now, nextId' = nextId + 1)
    BY <1>1, <1>5, CloseDelivers DEF CloseChannel
  <2> QED
    BY <1>2, <1>5, <2>1 DEF CloseChannel
<1>6. ASSUME NEW c \in Channels, NEW s \in Sockets, NEW role \in Roles,
             NEW seq \in Seqs \cup {None}, NEW size \in Sizes, NEW ip \in Ips,
             NEW receptive \in Answers,
             SendMessage(c, s, role, seq, size, ip, receptive)
      PROVE  StepDelivers
  <2> DEFINE data == [id |-> nextId, clientType |-> role, seq |-> seq, sizeBytes |-> size]
             result == RouteMessage(mgr, c, s, data, ip, receptive, now)
  <2>1. data \in Payload /\ data.id = nextId /\ receptive \in SUBSET Sockets
    BY <1>1 DEF Payload, Answers
  <2>2. /\ mgr' = result.mgr /\ now' = now
        /\ result.status # "error" => nextId' = nextId + 1
    BY <1>6 DEF SendMessage
  <2> HIDE DEF data
  <2>3. Delivers(mgr, result.mgr, now, result.status # "error")
    BY <1>1, <2>1, RouteDelivers
  <2> HIDE DEF result
  <2>4. Delivers(mgr, mgr', now, nextId' = nextId + 1)
    BY <2>1, <2>2, <2>3 DEF Delivers, NumbersKept
  <2> QED
    BY <1>2, <2>2, <2>4
<1>7. ASSUME NEW s \in Sockets, DropDelivery(s)
      PROVE  StepDelivers
  <2>1. Delivers(mgr, ReleaseDirectDelivery(mgr, s), now, nextId' = nextId + 1)
    BY <1>1, ReleaseDelivers
  <2> QED
    BY <1>2, <1>7, <2>1 DEF DropDelivery
<1>8. ASSUME NEW s \in Sockets, AdvanceDelivery(s)
      PROVE  StepDelivers
  <2>1. Delivers(mgr, AdvanceDirectDelivery(mgr, s).mgr, now, nextId' = nextId + 1)
    BY <1>1, AdvanceDelivers
  <2> QED
    BY <1>2, <1>8, <2>1 DEF AdvanceDelivery
<1>9. ASSUME CleanupTimer
      PROVE  StepDelivers
  <2>1. Delivers(mgr, Cleanup(mgr, now), now, nextId' = nextId + 1)
    BY <1>1, CleanupDelivers
  <2> QED
    BY <1>2, <1>9, <2>1 DEF CleanupTimer
<1>10. ASSUME Tick
       PROVE  StepDelivers
  <2>1. mgr' = mgr /\ now' = now + 1
    BY <1>10 DEF Tick
  <2>2. SameContent(mgr, mgr)
    BY DEF SameContent, SameTable, SameSeats, SameBuffers, SameNumbers
  <2>3. Delivers(mgr, mgr, now, nextId' = nextId + 1)
    BY <1>1, <2>2, ContentDelivers
  <2>4. Aged(mgr, now + 1)
    <3> SUFFICES ASSUME NEW c \in Channels, Known(mgr, c)
                 PROVE  mgr.channels[c].lastActivity <= now + 1
      BY <1>1 DEF Aged, Fine
    <3>1. mgr.channels[c].lastActivity \in Nat /\ mgr.channels[c].lastActivity <= now
      BY <1>1, BufferTypes DEF Aged, Fine
    <3> QED
      BY <1>1, <3>1
  <2> QED
    BY <2>1, <2>3, <2>4 DEF StepDelivers
<1> QED
  BY <1>3, <1>4, <1>5, <1>6, <1>7, <1>8, <1>9, <1>10 DEF Next

\* The invariant holds in every behaviour.
LEMMA DeliveryInvariance == Spec => []DeliveryInv
<1>1. Init => DeliveryInv
  BY InitDeliveryInv
<1>2. DeliveryInv /\ IInv' /\ [Next]_vars => DeliveryInv'
  <2> SUFFICES ASSUME DeliveryInv, IInv', [Next]_vars PROVE DeliveryInv'
    OBVIOUS
  <2>1. Aged(mgr, now)' = Aged(mgr', now') /\ Bounded(mgr)' = Bounded(mgr')
    BY DEF Aged, Bounded, Known
  <2>2. CASE Next
    <3>1. Aged(mgr', now') /\ Bounded(mgr')
      BY <2>2, NextDelivers DEF StepDelivers, Delivers
    <3> QED
      BY <2>1, <3>1 DEF DeliveryInv
  <2>3. CASE UNCHANGED vars
    BY <2>1, <2>3 DEF vars, DeliveryInv
  <2> QED
    BY <2>2, <2>3
<1> QED
  BY <1>1, <1>2, Invariance, PTL DEF Spec

\* A tombstone goes only by age, or as the oldest when there are too many, for any
\* number of channels and whatever calls a close or a cleanup comes among.
THEOREM TombstonesLastHolds == Spec => TombstonesLast
<1>1. DeliveryInv /\ [Next]_vars =>
        [\A c \in Channels : Tombstone(mgr, c) =>
           \/ Tombstone(mgr', c) /\ mgr'.channels[c].terminatedAt = mgr.channels[c].terminatedAt
           \/ /\ ~Known(mgr', c)
              /\ \/ now - mgr.channels[c].terminatedAt > TombstoneTTL
                 \/ /\ Len(mgr.terminatedOrder) = MaxTombstones
                    /\ c = Head(mgr.terminatedOrder)]_vars
  BY NextDelivers DEF StepDelivers, Delivers, TombstonesKept
<1> QED
  BY <1>1, DeliveryInvariance, PTL DEF Spec, TombstonesLast

\* A sequence number moves forward with a message that was taken and back with its
\* sender, for any numbers a client may send.
THEOREM SeqOnlyAdvancesWithMessageHolds == Spec => SeqOnlyAdvancesWithMessage
<1>1. DeliveryInv /\ [Next]_vars =>
        [\A c \in Channels, s \in Sockets :
           Live(mgr, c) /\ Live(mgr', c) =>
             LET before == mgr.channels[c]
                 after == mgr'.channels[c]
             IN  /\ after.seqNumbers[s] > before.seqNumbers[s] => nextId' = nextId + 1
                 /\ after.seqNumbers[s] < before.seqNumbers[s] => s \notin Members(after)]_vars
  BY NextDelivers DEF StepDelivers, Delivers, NumbersKept
<1> QED
  BY <1>1, DeliveryInvariance, PTL DEF Spec, SeqOnlyAdvancesWithMessage

\* What each method may take from a buffer.
LEMMA StepKeepsMail ==
  ASSUME DeliveryInv, NEW c \in Channels, Live(mgr, c), NEW x \in Gone(mgr, mgr', c)
  PROVE  /\ \A d \in Channels, s \in Sockets, role \in Roles, key \in Keys \cup {None},
               ip \in Ips, active \in Answers :
              JoinChannel(d, s, role, key, ip, active) =>
                /\ d = c /\ Addressee(mgr', c, x, s)
                /\ x \in Range(Join(mgr, d, s, role, key, ip, active, now).bufferedMessages)
         /\ \A s \in Sockets :
              AdvanceDelivery(s) =>
                Addressee(mgr', c, x, s) /\ x = AdvanceDirectDelivery(mgr, s).next
         /\ \A d \in Channels, s \in Sockets, role \in Roles, seq \in Seqs \cup {None},
               size \in Sizes, ip \in Ips, receptive \in Answers :
              SendMessage(d, s, role, seq, size, ip, receptive) =>
                MakesRoom(c, x)
         /\ \A d \in Channels : CloseChannel(d) => d = c
         /\ CleanupTimer => now - x.timestamp >= BufferTTL
         /\ ~\E d \in Channels, s \in Sockets : LeaveChannel(d, s)
         /\ ~\E s \in Sockets : DropDelivery(s)
<1>1. now \in Nat /\ nextId \in Nat /\ Fine(mgr, now)
  BY DEF DeliveryInv, IInv, Fine
<1>2. ASSUME NEW d \in Channels, NEW s \in Sockets, NEW role \in Roles,
             NEW key \in Keys \cup {None}, NEW ip \in Ips, NEW active \in Answers,
             JoinChannel(d, s, role, key, ip, active)
      PROVE  /\ d = c /\ Addressee(mgr', c, x, s)
             /\ x \in Range(Join(mgr, d, s, role, key, ip, active, now).bufferedMessages)
  <2> DEFINE result == Join(mgr, d, s, role, key, ip, active, now)
  <2>1. active \in SUBSET Sockets
    BY DEF Answers
  <2>2. HandedOver(mgr, result.mgr, d, s, result.bufferedMessages)
    BY <1>1, <2>1, JoinDelivers
  <2>3. mgr' = result.mgr
    BY <1>2 DEF JoinChannel
  <2> HIDE DEF result
  <2>4. HandedOver(mgr, mgr', d, s, result.bufferedMessages)
    BY <2>2, <2>3
  <2>5. d = c /\ Addressee(mgr', c, x, s) /\ x \in Range(result.bufferedMessages)
    BY <2>4 DEF HandedOver
  <2> QED
    BY <2>5 DEF result
<1>3. ASSUME NEW s \in Sockets, AdvanceDelivery(s)
      PROVE  Addressee(mgr', c, x, s) /\ x = AdvanceDirectDelivery(mgr, s).next
  <2> DEFINE a == AdvanceDirectDelivery(mgr, s)
  <2>1. HandedOver(mgr, a.mgr, mgr.directDeliveries[s].channel, s, <<a.next>>)
    BY <1>1, AdvanceDelivers
  <2>2. mgr' = a.mgr
    BY <1>3 DEF AdvanceDelivery
  <2>3. Range(<<a.next>>) = {a.next}
    BY DEF Range
  <2> HIDE DEF a
  <2>4. HandedOver(mgr, mgr', mgr.directDeliveries[s].channel, s, <<a.next>>)
    BY <2>1, <2>2
  <2>5. Addressee(mgr', c, x, s) /\ x \in Range(<<a.next>>)
    BY <2>4 DEF HandedOver
  <2> QED
    BY <2>3, <2>5 DEF a
<1>4. ASSUME NEW d \in Channels, NEW s \in Sockets, NEW role \in Roles,
             NEW seq \in Seqs \cup {None}, NEW size \in Sizes, NEW ip \in Ips,
             NEW receptive \in Answers,
             SendMessage(d, s, role, seq, size, ip, receptive)
      PROVE  MakesRoom(c, x)
  <2> DEFINE data == [id |-> nextId, clientType |-> role, seq |-> seq, sizeBytes |-> size]
             result == RouteMessage(mgr, d, s, data, ip, receptive, now)
  <2>1. data \in Payload /\ data.id = nextId /\ receptive \in SUBSET Sockets
    BY <1>1 DEF Payload, Answers
  <2>2. mgr' = result.mgr /\ (result.status # "error" => nextId' = nextId + 1)
    BY <1>4 DEF SendMessage
  <2> HIDE DEF data
  <2>3. /\ result.status = "error" => NothingGone(mgr, result.mgr)
        /\ OldestGone(mgr, result.mgr, d, data.id)
    BY <1>1, <2>1, RouteDelivers
  <2> HIDE DEF result
  <2>4. result.status # "error"
    BY <2>2, <2>3 DEF NothingGone
  <2>5. OldestGone(mgr, mgr', d, nextId)
    BY <2>1, <2>2, <2>3
  <2> QED
    BY <2>2, <2>4, <2>5 DEF OldestGone, MakesRoom
<1>5. ASSUME NEW d \in Channels, CloseChannel(d), d # c
      PROVE  FALSE
  <2>1. c \in Channels \ {d}
    BY <1>5
  <2>2. Gone(mgr, Close(mgr, d, now), c) = {}
    BY <1>1, <1>5, <2>1, CloseDelivers DEF CloseChannel
  <2>3. mgr' = Close(mgr, d, now)
    BY <1>5 DEF CloseChannel
  <2> QED
    BY <2>2, <2>3
<1>6. ASSUME CleanupTimer
      PROVE  now - x.timestamp >= BufferTTL
  <2>1. \A y \in Gone(mgr, Cleanup(mgr, now), c) : now - y.timestamp >= BufferTTL
    BY <1>1, CleanupDelivers
  <2>2. mgr' = Cleanup(mgr, now)
    BY <1>6 DEF CleanupTimer
  <2> QED
    BY <2>1, <2>2
<1>7. ASSUME NEW d \in Channels, NEW s \in Sockets, LeaveChannel(d, s)
      PROVE  FALSE
  <2>1. NothingGone(mgr, Leave(mgr, d, s, now))
    BY <1>1, LeaveDelivers
  <2>2. mgr' = Leave(mgr, d, s, now)
    BY <1>7 DEF LeaveChannel
  <2> QED
    BY <2>1, <2>2 DEF NothingGone
<1>8. ASSUME NEW s \in Sockets, DropDelivery(s)
      PROVE  FALSE
  <2>1. NothingGone(mgr, ReleaseDirectDelivery(mgr, s))
    BY <1>1, ReleaseDelivers
  <2>2. mgr' = ReleaseDirectDelivery(mgr, s)
    BY <1>8 DEF DropDelivery
  <2> QED
    BY <2>1, <2>2 DEF NothingGone
<1> QED
  BY <1>2, <1>3, <1>4, <1>5, <1>6, <1>7, <1>8

\* A message leaves a buffer only to the accepted message that displaces it, by
\* expiry, with the close of its channel, or to a participant of its role, for any
\* number of channels, any buffer size and any time-to-live below the channels'.
THEOREM BufferedMessagesAreNotDroppedHolds == Spec => BufferedMessagesAreNotDropped
<1>1. ASSUME DeliveryInv, Next, NEW c \in Channels, Live(mgr, c), NEW x \in Gone(mgr, mgr', c)
      PROVE  /\ \/ MakesRoom(c, x)
                \/ now - x.timestamp >= BufferTTL /\ CleanupTimer
                \/ CloseChannel(c)
                \/ \E s \in Sockets : Addressee(mgr', c, x, s) /\ HandsOver(c, s, x)
             /\ ~\E d \in Channels, s \in Sockets : LeaveChannel(d, s)
             /\ ~\E s \in Sockets : DropDelivery(s)
  <2>1. /\ ~\E d \in Channels, s \in Sockets : LeaveChannel(d, s)
        /\ ~\E s \in Sockets : DropDelivery(s)
    BY <1>1, StepKeepsMail
  <2>2. ASSUME NEW d \in Channels, NEW s \in Sockets, NEW role \in Roles,
               NEW key \in Keys \cup {None}, NEW ip \in Ips, NEW active \in Answers,
               JoinChannel(d, s, role, key, ip, active)
        PROVE  Addressee(mgr', c, x, s) /\ HandsOver(c, s, x)
    <3>1. /\ d = c /\ Addressee(mgr', c, x, s)
          /\ x \in Range(Join(mgr, d, s, role, key, ip, active, now).bufferedMessages)
      BY <1>1, <2>2, StepKeepsMail
    <3> QED
      BY <2>2, <3>1 DEF HandsOver
  <2>3. ASSUME NEW s \in Sockets, AdvanceDelivery(s)
        PROVE  Addressee(mgr', c, x, s) /\ HandsOver(c, s, x)
    BY <1>1, <2>3, StepKeepsMail DEF HandsOver
  <2>4. ASSUME NEW d \in Channels, NEW s \in Sockets, NEW role \in Roles,
               NEW seq \in Seqs \cup {None}, NEW size \in Sizes, NEW ip \in Ips,
               NEW receptive \in Answers,
               SendMessage(d, s, role, seq, size, ip, receptive)
        PROVE  MakesRoom(c, x)
    BY <1>1, <2>4, StepKeepsMail
  <2>5. ASSUME NEW d \in Channels, CloseChannel(d)
        PROVE  CloseChannel(c)
    <3>1. d = c
      BY <1>1, <2>5, StepKeepsMail
    <3> QED
      BY <2>5, <3>1
  <2>6. CleanupTimer => now - x.timestamp >= BufferTTL
    BY <1>1, StepKeepsMail
  <2>7. ~Tick
    BY <1>1 DEF Tick, Gone, Live
  <2> QED
    BY <1>1, <2>1, <2>2, <2>3, <2>4, <2>5, <2>6, <2>7 DEF Next
<1>2. DeliveryInv /\ [Next]_vars =>
        [\A c \in Channels : Live(mgr, c) => \A x \in Gone(mgr, mgr', c) :
           /\ \/ MakesRoom(c, x)
              \/ now - x.timestamp >= BufferTTL /\ CleanupTimer
              \/ CloseChannel(c)
              \/ \E s \in Sockets : Addressee(mgr', c, x, s) /\ HandsOver(c, s, x)
           /\ ~\E d \in Channels, s \in Sockets : LeaveChannel(d, s)
           /\ ~\E s \in Sockets : DropDelivery(s)]_vars
  BY <1>1
<1> QED
  BY <1>2, DeliveryInvariance, PTL DEF Spec, BufferedMessagesAreNotDropped

=============================================================================
