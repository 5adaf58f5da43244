------------------------ MODULE ChannelManagerProofs ------------------------
(***************************************************************************)
(* Theorems about the specification of module ChannelManager.              *)
(*                                                                         *)
(* Most methods only take things away from the channels table, or adjust   *)
(* counts: Step says so, and lemmas of the first part show it of each such *)
(* operator.  The invariants are then proved once for Step, and separately *)
(* for join, close and cleanup, which do more.                             *)
(***************************************************************************)
EXTENDS ChannelManager, QueuesProofs

-----------------------------------------------------------------------------
(* The inductive invariant *)

\* A reservation that still refers to a channel refers to one in the map.
Linked(m) ==
  \A s \in Sockets :
    m.directDeliveries[s] # None /\ m.directDeliveries[s].channel # None
      => Known(m, m.directDeliveries[s].channel)

Sane(m) == m \in Manager /\ Linked(m)

-----------------------------------------------------------------------------
(* Steps that seat nobody *)

\* The channel object b seats nobody that a does not, and is as live as a, for
\* the same creator and with the same key.
Keeps(a, b) ==
  /\ \A s \in Sockets : b.participants[s] \in {None, a.participants[s]}
  /\ b.terminated = a.terminated
  /\ b.creatorIp = a.creatorIp
  /\ b.publicKey = a.publicKey

\* Every channel of n was in m, seats nobody new, and if it is live it was live,
\* with the same creator and key.
Shrinks(m, n) ==
  \A c \in Channels : Known(n, c) =>
    /\ Known(m, c)
    /\ \A s \in Sockets :
         n.channels[c].participants[s] \in {None, m.channels[c].participants[s]}
    /\ Live(n, c) => /\ Live(m, c)
                     /\ n.channels[c].creatorIp = m.channels[c].creatorIp
                     /\ n.channels[c].publicKey = m.channels[c].publicKey

\* The same channels are in the map, and the same of them closed.
SameTombstones(m, n) ==
  /\ n.terminatedOrder = m.terminatedOrder
  /\ \A c \in Channels : Known(n, c) <=> Known(m, c)
  /\ \A c \in Channels : Tombstone(n, c) <=> Tombstone(m, c)

Step(m, n) == Sane(n) /\ Shrinks(m, n) /\ SameTombstones(m, n)

\* Doing nothing is a step.
LEMMA StepReflexive ==
  ASSUME NEW m, Sane(m)
  PROVE  Step(m, m)
BY DEF Step, Shrinks, SameTombstones

\* Shrinking twice is shrinking.
LEMMA ShrinksTransitive ==
  ASSUME NEW a, NEW b, NEW c, Shrinks(a, b), Shrinks(b, c)
  PROVE  Shrinks(a, c)
BY DEF Shrinks

\* Two steps make a step.
LEMMA StepTransitive ==
  ASSUME NEW a, NEW b, NEW c, Step(a, b), Step(b, c)
  PROVE  Step(a, c)
BY DEF Step, Shrinks, SameTombstones

\* An entry of the map that is not None is a channel.
LEMMA KnownType ==
  ASSUME NEW m, Sane(m), NEW c \in Channels, Known(m, c)
  PROVE  m.channels[c] \in Channel
BY DEF Sane, Manager, Known

\* Replacing the object of one channel by one it keeps is a step, when the new
\* reservations are for that channel.
LEMMA OneChannelStep ==
  ASSUME NEW m, Sane(m), NEW n \in Manager, NEW c \in Channels, Known(m, c),
         NEW ch \in Channel, Keeps(m.channels[c], ch),
         n.channels = [m.channels EXCEPT ![c] = ch],
         n.terminatedOrder = m.terminatedOrder,
         \A s \in Sockets : \/ n.directDeliveries[s] \in {None, m.directDeliveries[s]}
                            \/ n.directDeliveries[s].channel = c
  PROVE  Step(m, n)
<1>1. m.channels \in [Channels -> Channel \cup {None}]
  BY DEF Sane, Manager
<1>2. n.channels[c] = ch /\ \A d \in Channels \ {c} : n.channels[d] = m.channels[d]
  BY <1>1
<1>3. ch # None
  BY NoneIsNoObject
<1>4. Linked(n)
  <2>1. SUFFICES ASSUME NEW s \in Sockets, n.directDeliveries[s] # None,
                        n.directDeliveries[s].channel # None
                 PROVE  Known(n, n.directDeliveries[s].channel)
    BY DEF Linked
  <2>2. CASE n.directDeliveries[s].channel = c
    BY <1>2, <1>3, <2>2 DEF Known
  <2>3. CASE n.directDeliveries[s] = m.directDeliveries[s] /\ n.directDeliveries[s].channel # c
    <3>1. Known(m, m.directDeliveries[s].channel)
      BY <2>1, <2>3 DEF Sane, Linked
    <3>2. m.directDeliveries[s].channel \in Channels \ {c}
      BY <2>1, <2>3 DEF Sane, Manager, Reservation
    <3> QED
      BY <1>2, <2>3, <3>1, <3>2 DEF Known
  <2> QED
    BY <2>1, <2>2, <2>3
<1>5. Shrinks(m, n) /\ SameTombstones(m, n)
  <2>1. \A d \in Channels \ {c} : n.channels[d] = m.channels[d]
    BY <1>2
  <2>2. \A s \in Sockets : m.channels[c].participants[s] \in {None, m.channels[c].participants[s]}
    OBVIOUS
  <2>3. Shrinks(m, n)
    BY <1>2, <1>3 DEF Shrinks, Keeps, Known, Live
  <2>4. SameTombstones(m, n)
    BY <1>2, <1>3 DEF SameTombstones, Keeps, Known, Tombstone
  <2> QED
    BY <2>3, <2>4
<1> QED
  BY <1>4, <1>5 DEF Step, Sane

-----------------------------------------------------------------------------
(* Byte accounting *)

\* Giving back the reservation of a socket (releaseDirectDelivery) is a step.
LEMMA ReleaseDirectDeliveryStep ==
  ASSUME NEW m, Sane(m), NEW s \in Sockets
  PROVE  Step(m, ReleaseDirectDelivery(m, s))
<1> DEFINE r == m.directDeliveries[s]
           released == [m EXCEPT !.directDeliveries[s] = None,
                                 !.totalDirectInflightBytes = Minus(@, r.sizeBytes),
                                 !.bufferedBytesByIp[r.sourceIp] = Minus(@, r.sizeBytes)]
<1>1. m \in Manager /\ Linked(m)
  BY DEF Sane
<1>2. CASE r = None
  BY <1>2, StepReflexive DEF ReleaseDirectDelivery
<1>3. CASE r # None
  <2>1. r \in Reservation
    BY <1>1, <1>3 DEF Manager
  <2>2. /\ released \in Manager
        /\ released.channels = m.channels /\ released.terminatedOrder = m.terminatedOrder
        /\ released.directDeliveries = [m.directDeliveries EXCEPT ![s] = None]
    BY <1>1, <1>3, <2>1, MinusType, ConstantsAssumption DEF Manager, Reservation
  <2> HIDE DEF released
  <2>3. \A t \in Sockets : released.directDeliveries[t] \in {None, m.directDeliveries[t]}
    BY <1>1, <2>2 DEF Manager
  <2>4. CASE r.channel = None
    <3>1. ReleaseDirectDelivery(m, s) = released
      BY <1>3, <2>4 DEF ReleaseDirectDelivery, released
    <3>2. Linked(released)
      BY <1>1, <2>2, <2>3 DEF Linked, Known
    <3>3. Shrinks(m, released) /\ SameTombstones(m, released)
      BY <2>2 DEF Shrinks, SameTombstones, Known, Live, Tombstone
    <3> QED
      BY <2>2, <3>1, <3>2, <3>3 DEF Step, Sane
  <2>5. CASE r.channel # None
    <3> DEFINE c == r.channel
               ch == [m.channels[c] EXCEPT !.directInflightBytes = Minus(@, r.sizeBytes)]
               n == [released EXCEPT !.channels[c] = ch]
    <3>1. c \in Channels /\ Known(m, c)
      BY <1>1, <1>3, <2>1, <2>5 DEF Linked, Reservation
    <3>2. m.channels[c] \in Channel
      <4> HIDE DEF r
      <4> QED
        BY <3>1, KnownType
    <3>3. ch \in Channel /\ Keeps(m.channels[c], ch)
      BY <2>1, <3>2, MinusType, ConstantsAssumption DEF Channel, Reservation, Keeps
    <3>4. ReleaseDirectDelivery(m, s) = n
      BY <1>3, <2>2, <2>5 DEF ReleaseDirectDelivery, released
    <3> HIDE DEF ch, c, r
    <3>5. /\ n \in Manager /\ n.channels = [m.channels EXCEPT ![c] = ch]
          /\ n.terminatedOrder = m.terminatedOrder
          /\ n.directDeliveries = released.directDeliveries
      BY <2>2, <3>1, <3>3 DEF Manager
    <3> HIDE DEF n
    <3> QED
      BY <2>3, <3>1, <3>3, <3>4, <3>5, OneChannelStep
  <2> QED
    BY <2>4, <2>5
<1> QED
  BY <1>2, <1>3

\* Sizes of messages are natural numbers, so the bytes of any filter are too.
LEMMA MessageBytes ==
  ASSUME NEW q \in Seq(Message), NEW ip
  PROVE  Bytes(q) \in Nat /\ BytesFrom(q, ip) \in Nat
<1>1. \A x \in Message : x.sizeBytes \in Nat
  BY ConstantsAssumption DEF Message
<1>2. Bytes(q) \in Nat
  BY <1>1, BytesType
<1>3. Keep(q, {m \in Range(q) : m.sourceIp = ip}) \in Seq(Message)
  BY KeepFacts
<1> QED
  BY <1>1, <1>2, <1>3, BytesType DEF BytesFrom

\* Giving back the bytes of buffered messages (releaseBufferedBytes) is a step that
\* leaves the buffers and the reservations alone.
LEMMA ReleaseBufferedStep ==
  ASSUME NEW m, Sane(m), NEW c \in Channels, Known(m, c), NEW q \in Seq(Message)
  PROVE  LET n == ReleaseBuffered(m, c, q)
         IN  /\ Step(m, n) /\ Known(n, c)
             /\ n.channels[c].messageBuffer = m.channels[c].messageBuffer
             /\ n.directDeliveries = m.directDeliveries
<1> DEFINE ch == [m.channels[c] EXCEPT !.bufferedBytes = Minus(@, Bytes(q))]
           n == ReleaseBuffered(m, c, q)
           perIp == [ip \in Ips |-> Minus(m.bufferedBytesByIp[ip], BytesFrom(q, ip))]
<1>1. m \in Manager /\ m.channels[c] \in Channel
  BY KnownType DEF Sane
<1>2. Bytes(q) \in Nat /\ \A ip : BytesFrom(q, ip) \in Nat
  BY MessageBytes
<1>3. ch \in Channel /\ Keeps(m.channels[c], ch) /\ ch.messageBuffer = m.channels[c].messageBuffer
  BY <1>1, <1>2, MinusType DEF Channel, Keeps
<1>4. perIp \in [Ips -> Nat]
  BY <1>1, <1>2, MinusType DEF Manager
<1>5. n = [m EXCEPT !.channels[c] = ch, !.totalBufferedBytes = Minus(@, Bytes(q)),
                    !.bufferedBytesByIp = perIp]
  BY DEF ReleaseBuffered
<1> HIDE DEF ch, perIp, n
<1>6. /\ n \in Manager /\ n.channels = [m.channels EXCEPT ![c] = ch]
      /\ n.terminatedOrder = m.terminatedOrder
      /\ n.directDeliveries = m.directDeliveries
  BY <1>1, <1>2, <1>3, <1>4, <1>5, MinusType DEF Manager
<1>7. Step(m, n)
  BY <1>3, <1>6, OneChannelStep
<1>8. n.channels[c] = ch
  BY <1>1, <1>6 DEF Manager
<1> QED
  BY <1>3, <1>6, <1>7, <1>8, NoneIsNoObject DEF n, Known

\* Reserving the bytes of a direct delivery (routeMessage) is a step.
LEMMA ReserveDirectStep ==
  ASSUME NEW m, Sane(m), NEW c \in Channels, Known(m, c),
         NEW target \in Sockets, NEW ip \in Ips, NEW size \in Sizes
  PROVE  Step(m, ReserveDirect(m, target, c, ip, size))
<1> DEFINE ch == [m.channels[c] EXCEPT !.directInflightBytes = @ + size]
           r == [channel |-> c, sourceIp |-> ip, sizeBytes |-> size]
           n == ReserveDirect(m, target, c, ip, size)
<1>1. m \in Manager /\ m.channels[c] \in Channel /\ size \in Nat
  BY KnownType, ConstantsAssumption DEF Sane
<1>2. ch \in Channel /\ Keeps(m.channels[c], ch)
  <2> DEFINE x == m.channels[c].directInflightBytes + size
  <2>1. x \in Nat
    <3>1. m.channels[c].directInflightBytes \in Nat
      BY <1>1 DEF Channel
    <3> QED
      BY <1>1, <3>1
  <2>2. ch = [m.channels[c] EXCEPT !.directInflightBytes = x]
    OBVIOUS
  <2> HIDE DEF x, ch
  <2> QED
    BY <1>1, <2>1, <2>2 DEF Channel, Keeps
<1>3. r \in Reservation
  BY DEF Reservation
<1> DEFINE total == m.totalDirectInflightBytes + size
           ofIp == m.bufferedBytesByIp[ip] + size
<1>4. n = [m EXCEPT !.directDeliveries[target] = r, !.channels[c] = ch,
                    !.totalDirectInflightBytes = total,
                    !.bufferedBytesByIp[ip] = ofIp]
  BY DEF ReserveDirect
<1>5. total \in Nat /\ ofIp \in Nat
  BY <1>1 DEF Manager
<1>6. r.channel = c
  OBVIOUS
<1> HIDE DEF ch, r, n, total, ofIp
<1>7. /\ n \in Manager /\ n.channels = [m.channels EXCEPT ![c] = ch]
      /\ n.terminatedOrder = m.terminatedOrder
      /\ n.directDeliveries = [m.directDeliveries EXCEPT ![target] = r]
  BY <1>1, <1>2, <1>3, <1>4, <1>5 DEF Manager
<1>8. \A s \in Sockets : \/ n.directDeliveries[s] \in {None, m.directDeliveries[s]}
                         \/ n.directDeliveries[s].channel = c
  BY <1>1, <1>6, <1>7 DEF Manager
<1>9. n \in Manager /\ ch \in Channel /\ Keeps(m.channels[c], ch)
  BY <1>2, <1>7
<1>10. n.channels = [m.channels EXCEPT ![c] = ch] /\ n.terminatedOrder = m.terminatedOrder
  BY <1>7
<1>11. Step(m, n)
  BY <1>8, <1>9, <1>10, OneChannelStep
<1> QED
  BY <1>11 DEF n

\* A change of the buffer, the sequence numbers or the clock of one channel, which
\* is what most methods make, is a step.
LEMMA RewriteStep ==
  ASSUME NEW m, Sane(m), NEW c \in Channels, NEW ch \in Channel, Known(m, c),
         Keeps(m.channels[c], ch)
  PROVE  LET n == [m EXCEPT !.channels[c] = ch]
         IN  /\ Step(m, n) /\ Known(n, c) /\ n.channels[c] = ch
             /\ n.directDeliveries = m.directDeliveries
<1> DEFINE n == [m EXCEPT !.channels[c] = ch]
<1>1. m \in Manager
  BY DEF Sane
<1>2. /\ n \in Manager /\ n.channels = [m.channels EXCEPT ![c] = ch]
      /\ n.terminatedOrder = m.terminatedOrder
      /\ n.directDeliveries = m.directDeliveries
      /\ n.channels[c] = ch
  BY <1>1 DEF Manager
<1> HIDE DEF n
<1>3. Step(m, n)
  BY <1>2, OneChannelStep
<1>4. Known(n, c)
  BY <1>2, NoneIsNoObject DEF Known
<1> QED
  BY <1>2, <1>3, <1>4 DEF n

\* The messages one socket's drain may promote are messages of one channel.
LEMMA PromotableFacts ==
  ASSUME NEW m, Sane(m), NEW s \in Sockets, Promotable(m, s) # {}
  PROVE  LET c == m.directDeliveries[s].channel
         IN  /\ m.directDeliveries[s] # None
             /\ c \in Channels /\ Known(m, c)
             /\ Promotable(m, s) \subseteq Range(m.channels[c].messageBuffer)
<1> DEFINE r == m.directDeliveries[s]
<1>1. r # None /\ r.channel # None
  BY DEF Promotable
<1>2. r \in Reservation /\ Known(m, r.channel)
  BY <1>1 DEF Sane, Manager, Linked
<1>3. r.channel \in Channels
  BY <1>1, <1>2 DEF Reservation
<1>4. Promotable(m, s) \subseteq Range(m.channels[r.channel].messageBuffer)
  BY DEF Promotable, For
<1> QED
  BY <1>1, <1>2, <1>3, <1>4

\* A drain, with or without a promotion (advanceDirectDelivery), is a step.
LEMMA AdvanceDirectDeliveryStep ==
  ASSUME NEW m, Sane(m), NEW s \in Sockets
  PROVE  Step(m, AdvanceDirectDelivery(m, s).mgr)
<1> DEFINE c == m.directDeliveries[s].channel
           released == ReleaseDirectDelivery(m, s)
           next == First(m.channels[c].messageBuffer, Promotable(m, s))
           ch == [released.channels[c] EXCEPT !.messageBuffer = Keep(@, Range(@) \ {next})]
           spliced == [released EXCEPT !.channels[c] = ch]
           unbuffered == ReleaseBuffered(spliced, c, <<next>>)
<1>1. Step(m, released)
  BY ReleaseDirectDeliveryStep
<1>2. CASE Promotable(m, s) = {}
  BY <1>1, <1>2 DEF AdvanceDirectDelivery
<1>3. CASE Promotable(m, s) # {}
  <2>1. /\ m.directDeliveries[s] # None /\ c \in Channels /\ Known(m, c)
        /\ Promotable(m, s) \subseteq Range(m.channels[c].messageBuffer)
    BY <1>3, PromotableFacts
  <2>2. m.channels[c].messageBuffer \in Seq(Message)
    <3>1. m.channels[c] \in Channel
      BY <2>1, KnownType
    <3> QED
      BY <3>1 DEF Channel
  <2>3. next \in Message
    BY <1>3, <2>1, <2>2, FirstFacts
  <2>4. Known(released, c) /\ released.channels[c] \in Channel
    <3>1. Known(released, c)
      BY <1>1, <2>1 DEF Step, SameTombstones
    <3> HIDE DEF released, c
    <3> QED
      BY <1>1, <2>1, <3>1, KnownType DEF Step
  <2>5. ch \in Channel /\ Keeps(released.channels[c], ch)
    <3> HIDE DEF released, next, c
    <3> QED
      BY <2>4, KeepFacts DEF Channel, Keeps
  <2>6. Step(released, spliced) /\ Known(spliced, c)
    <3> HIDE DEF released, ch, c
    <3> QED
      BY <1>1, <2>1, <2>4, <2>5, RewriteStep DEF Step
  <2>7. Step(spliced, unbuffered) /\ Known(unbuffered, c)
    <3>1. <<next>> \in Seq(Message)
      <4> HIDE DEF next
      <4> QED
        BY <2>3
    <3> HIDE DEF spliced, next, c
    <3> QED
      BY <2>1, <2>6, <3>1, ReleaseBufferedStep DEF Step
  <2>8. Step(unbuffered, ReserveDirect(unbuffered, s, c, next.sourceIp, next.sizeBytes))
    <3>1. next.sourceIp \in Ips /\ next.sizeBytes \in Sizes
      <4> HIDE DEF next
      <4> QED
        BY <2>3 DEF Message
    <3> HIDE DEF unbuffered, next, c
    <3> QED
      BY <2>1, <2>7, <3>1, ReserveDirectStep DEF Step
  <2>9. AdvanceDirectDelivery(m, s).mgr
          = ReserveDirect(unbuffered, s, c, next.sourceIp, next.sizeBytes)
    BY <1>3 DEF AdvanceDirectDelivery
  <2> HIDE DEF c, released, next, ch, spliced, unbuffered
  <2> QED
    BY <1>1, <2>6, <2>7, <2>8, <2>9, StepTransitive
<1> QED
  BY <1>2, <1>3

-----------------------------------------------------------------------------
(* routeMessage *)

\* What a full buffer gives up, and what it keeps, are queues of messages.
LEMMA DisplacedType ==
  ASSUME NEW ch \in Channel
  PROVE  /\ Displaced(ch) \in Seq(Message)
         /\ SubSeq(ch.messageBuffer, Len(Displaced(ch)) + 1, Len(ch.messageBuffer))
              \in Seq(Message)
<1>1. ch.messageBuffer \in Seq(Message) /\ MaxBufferedMessages \in Nat \ {0}
  BY ConstantsAssumption DEF Channel
<1>2. CASE Len(ch.messageBuffer) >= MaxBufferedMessages
  <2>1. Head(ch.messageBuffer) \in Message
    BY <1>1, <1>2
  <2>2. Displaced(ch) = <<Head(ch.messageBuffer)>>
    BY <1>2 DEF Displaced
  <2>3. Displaced(ch) \in Seq(Message) /\ Len(Displaced(ch)) = 1
    BY <2>1, <2>2
  <2> QED
    BY <1>1, <2>3
<1>3. CASE ~ (Len(ch.messageBuffer) >= MaxBufferedMessages)
  <2>1. Displaced(ch) = << >>
    BY <1>3 DEF Displaced
  <2> QED
    BY <1>1, <2>1
<1> QED
  BY <1>2, <1>3

\* Appending a message leaves the seats, the key and the creator of a channel alone.
LEMMA EnqueueFacts ==
  ASSUME NEW ch \in Channel, NEW message \in Message
  PROVE  Enqueue(ch, message) \in Channel /\ Keeps(ch, Enqueue(ch, message))
<1> DEFINE buffer == Append(ch.messageBuffer, message)
           bytes == ch.bufferedBytes + message.sizeBytes
           new == [ch EXCEPT !.messageBuffer = buffer, !.bufferedBytes = bytes]
<1>1. buffer \in Seq(Message) /\ bytes \in Nat
  <2>1. message.sizeBytes \in Nat
    BY ConstantsAssumption DEF Message
  <2>2. ch.messageBuffer \in Seq(Message) /\ ch.bufferedBytes \in Nat
    BY DEF Channel
  <2> QED
    BY <2>1, <2>2
<1>2. Enqueue(ch, message) = new
  BY DEF Enqueue, Channel
<1> HIDE DEF buffer, bytes
<1>3. new \in Channel /\ Keeps(ch, new)
  BY <1>1 DEF Channel, Keeps
<1> QED
  BY <1>2, <1>3

\* Buffering a message for an absent or slow participant is a step.
LEMMA BufferMessageStep ==
  ASSUME NEW m, Sane(m), NEW c \in Channels, Known(m, c), NEW data \in Payload,
         NEW ip \in Ips, NEW time \in Nat
  PROVE  Step(m, BufferMessage(m, c, data, ip, time))
<1> DEFINE out == Displaced(m.channels[c])
           message == [id |-> data.id, targetClientType |-> OtherRole(data.clientType),
                       timestamp |-> time, sizeBytes |-> data.sizeBytes, sourceIp |-> ip]
           ch1 == [m.channels[c] EXCEPT !.messageBuffer = SubSeq(@, Len(out) + 1, Len(@))]
           shifted == [m EXCEPT !.channels[c] = ch1]
           freed == ReleaseBuffered(shifted, c, out)
           size == data.sizeBytes
           total == freed.totalBufferedBytes + size
           ofIp == freed.bufferedBytesByIp[ip] + size
           ch2 == Enqueue(freed.channels[c], message)
           n == BufferMessage(m, c, data, ip, time)
<1>1. m.channels[c] \in Channel
  BY KnownType
<1>2. size \in Sizes /\ size \in Nat /\ message \in Message
  BY ConstantsAssumption DEF Payload, Message, OtherRole, Roles
<1>3. ch1 \in Channel /\ Keeps(m.channels[c], ch1)
  <2>1. SubSeq(m.channels[c].messageBuffer, Len(out) + 1, Len(m.channels[c].messageBuffer))
          \in Seq(Message)
    BY <1>1, DisplacedType
  <2> HIDE DEF out
  <2> QED
    BY <1>1, <2>1 DEF Channel, Keeps
<1>4. Step(m, shifted) /\ Known(shifted, c)
  <2> HIDE DEF ch1
  <2> QED
    BY <1>3, RewriteStep
<1>5. Step(shifted, freed) /\ Known(freed, c)
  <2>1. out \in Seq(Message)
    BY <1>1, DisplacedType
  <2> HIDE DEF shifted, out
  <2> QED
    BY <1>4, <2>1, ReleaseBufferedStep DEF Step
<1>6. n = [freed EXCEPT !.channels[c] = Enqueue(@, message),
                        !.totalBufferedBytes = @ + size,
                        !.bufferedBytesByIp[ip] = @ + size]
  BY DEF BufferMessage
<1> HIDE DEF freed, shifted, out, ch1, n, message, size
<1>7. Sane(freed) /\ freed \in Manager /\ freed.channels[c] \in Channel
  BY <1>5, KnownType DEF Step, Sane
<1>8. total \in Nat /\ ofIp \in Nat
  BY <1>2, <1>7 DEF Manager
<1>9. ch2 \in Channel /\ Keeps(freed.channels[c], ch2)
  BY <1>2, <1>7, EnqueueFacts
<1> HIDE DEF ch2, total, ofIp
<1>10. /\ n \in Manager /\ n.channels = [freed.channels EXCEPT ![c] = ch2]
       /\ n.terminatedOrder = freed.terminatedOrder
       /\ n.directDeliveries = freed.directDeliveries
  <2>1. n = [freed EXCEPT !.channels[c] = ch2, !.totalBufferedBytes = total,
                          !.bufferedBytesByIp[ip] = ofIp]
    BY <1>6, <1>7 DEF Manager, ch2, total, ofIp
  <2> QED
    BY <1>7, <1>8, <1>9, <2>1 DEF Manager
<1>11. Step(freed, n)
  BY <1>5, <1>7, <1>9, <1>10, OneChannelStep
<1>12. Step(m, n)
  BY <1>4, <1>5, <1>11, StepTransitive
<1> QED
  BY <1>12 DEF n

\* Recording the sequence number of an accepted message is a step.
LEMMA TakeSeqStep ==
  ASSUME NEW m, Sane(m), NEW c \in Channels, Known(m, c), NEW s \in Sockets,
         NEW data \in Payload
  PROVE  Step(m, TakeSeq(m, c, s, data))
<1>1. CASE data.seq = None
  BY <1>1, StepReflexive DEF TakeSeq
<1>2. CASE data.seq # None
  <2> DEFINE ch == [m.channels[c] EXCEPT !.seqNumbers[s] = data.seq]
  <2>1. m.channels[c] \in Channel /\ data.seq \in Nat
    BY <1>2, KnownType, ConstantsAssumption DEF Payload
  <2>2. ch \in Channel /\ Keeps(m.channels[c], ch)
    BY <2>1 DEF Channel, Keeps
  <2>3. TakeSeq(m, c, s, data) = [m EXCEPT !.channels[c] = ch]
    BY <1>2 DEF TakeSeq
  <2> HIDE DEF ch
  <2> QED
    BY <2>2, <2>3, RewriteStep
<1> QED
  BY <1>1, <1>2

\* Routing a message, whatever comes of it (routeMessage), is a step.
LEMMA RouteMessageStep ==
  ASSUME NEW m, Sane(m), NEW c \in Channels, NEW s \in Sockets, NEW data \in Payload,
         NEW ip \in Ips, NEW receptive \in SUBSET Sockets, NEW time \in Nat
  PROVE  Step(m, RouteMessage(m, c, s, data, ip, receptive, time).mgr)
<1> DEFINE result == RouteMessage(m, c, s, data, ip, receptive, time)
           ch == [m.channels[c] EXCEPT !.lastActivity = time]
           touched == [m EXCEPT !.channels[c] = ch]
           target == Counterparty(m.channels[c], s)
           size == data.sizeBytes
           direct == ReserveDirect(touched, target, c, ip, size)
           buffered == BufferMessage(touched, c, data, ip, time)
<1>1. CASE Unroutable(m, c, s, data)
  <2>1. result.mgr = m
    BY <1>1 DEF RouteMessage
  <2> QED
    BY <2>1, StepReflexive
<1>2. CASE ~ Unroutable(m, c, s, data)
  <2>1. Known(m, c)
    BY <1>2 DEF Unroutable, Live
  <2>2. Step(m, touched) /\ Known(touched, c)
    <3>1. m.channels[c] \in Channel
      BY <2>1, KnownType
    <3>2. ch \in Channel /\ Keeps(m.channels[c], ch)
      BY <3>1 DEF Channel, Keeps
    <3> HIDE DEF ch
    <3> QED
      BY <2>1, <3>2, RewriteStep
  <2>3. CanSendDirect(m, c, target, ip, size, receptive) =>
          Step(m, TakeSeq(direct, c, s, data))
    <3>1. SUFFICES ASSUME CanSendDirect(m, c, target, ip, size, receptive)
                   PROVE  Step(m, TakeSeq(direct, c, s, data))
      OBVIOUS
    <3>2. target \in Sockets /\ size \in Sizes
      BY <3>1 DEF CanSendDirect, Payload
    <3> HIDE DEF touched, target, size
    <3>3. Step(touched, direct)
      BY <2>2, <3>2, ReserveDirectStep DEF Step
    <3> HIDE DEF direct
    <3>4. Step(direct, TakeSeq(direct, c, s, data))
      BY <2>2, <3>3, TakeSeqStep DEF Step, SameTombstones
    <3> QED
      BY <2>2, <3>3, <3>4, StepTransitive
  <2>4. Step(m, TakeSeq(buffered, c, s, data))
    <3> HIDE DEF touched
    <3>1. Step(touched, buffered)
      BY <2>2, BufferMessageStep DEF Step
    <3> HIDE DEF buffered
    <3>2. Step(buffered, TakeSeq(buffered, c, s, data))
      BY <2>2, <3>1, TakeSeqStep DEF Step, SameTombstones
    <3> QED
      BY <2>2, <3>1, <3>2, StepTransitive
  <2>5. \/ result.mgr = touched
        \/ /\ result.mgr = TakeSeq(direct, c, s, data)
           /\ CanSendDirect(m, c, target, ip, size, receptive)
        \/ result.mgr = TakeSeq(buffered, c, s, data)
    BY <1>2 DEF RouteMessage
  <2> HIDE DEF touched, direct, buffered, target, size, result
  <2>6. Step(m, result.mgr)
    BY <2>2, <2>3, <2>4, <2>5
  <2> QED
    BY <2>6 DEF result
<1> QED
  BY <1>1, <1>2

-----------------------------------------------------------------------------
(* leave, cleanup and close *)

\* Leaving a channel is a step.
LEMMA LeaveStep ==
  ASSUME NEW m, Sane(m), NEW c \in Channels, NEW s \in Sockets, NEW time \in Nat
  PROVE  Step(m, Leave(m, c, s, time))
<1>1. CASE ~ IsMember(m, c, s)
  BY <1>1, StepReflexive DEF Leave
<1>2. CASE IsMember(m, c, s)
  <2> DEFINE ch == [m.channels[c] EXCEPT !.participants[s] = None, !.seqNumbers[s] = -1,
                                         !.lastActivity = time]
  <2>1. Known(m, c) /\ m.channels[c] \in Channel
    BY <1>2, KnownType DEF IsMember
  <2>2. ch \in Channel /\ Keeps(m.channels[c], ch)
    BY <2>1 DEF Channel, Keeps
  <2>3. Leave(m, c, s, time) = [m EXCEPT !.channels[c] = ch]
    BY <1>2 DEF Leave
  <2> HIDE DEF ch
  <2> QED
    BY <2>1, <2>2, <2>3, RewriteStep
<1> QED
  BY <1>1, <1>2

\* Dropping expired messages leaves a channel, with its seats, key and creator.
LEMMA ShedFacts ==
  ASSUME NEW ch \in Channel, NEW lost \in Seq(Message)
  PROVE  Shed(ch, lost) \in Channel /\ Keeps(ch, Shed(ch, lost))
<1> DEFINE buffer == Keep(ch.messageBuffer, Range(ch.messageBuffer) \ Range(lost))
           bytes == Minus(ch.bufferedBytes, Bytes(lost))
           new == [ch EXCEPT !.messageBuffer = buffer, !.bufferedBytes = bytes]
<1>1. ch.messageBuffer \in Seq(Message) /\ ch.bufferedBytes \in Nat
  BY DEF Channel
<1>2. buffer \in Seq(Message) /\ bytes \in Nat
  BY <1>1, KeepFacts, MessageBytes, MinusType
<1>3. Shed(ch, lost) = new
  BY DEF Shed, Channel
<1> HIDE DEF buffer, bytes
<1>4. new \in Channel /\ Keeps(ch, new)
  BY <1>2 DEF Channel, Keeps
<1> QED
  BY <1>3, <1>4

\* What a cleanup drops from a channel is a queue of messages.
LEMMA ExpiredType ==
  ASSUME NEW m, Sane(m), NEW c \in Channels, Known(m, c), NEW time
  PROVE  Expired(m, c, time) \in Seq(Message)
<1>1. m.channels[c].messageBuffer \in Seq(Message)
  BY KnownType DEF Channel
<1> QED
  BY <1>1, KeepFacts DEF Expired

\* Expiring the buffered messages of every channel (cleanup) is a step.
LEMMA ExpireBuffersStep ==
  ASSUME NEW m, Sane(m), NEW time
  PROVE  Step(m, ExpireBuffers(m, time))
<1> DEFINE known == {c \in Channels : Known(m, c)}
           lost == [c \in known |-> Expired(m, c, time)]
           n == ExpireBuffers(m, time)
           chs == [c \in Channels |-> IF c \notin known THEN None
                                      ELSE Shed(m.channels[c], lost[c])]
           total == Minus(m.totalBufferedBytes, SumFunction([c \in known |-> Bytes(lost[c])]))
           perIp == [ip \in Ips |->
                      Minus(m.bufferedBytesByIp[ip],
                            SumFunction([c \in known |-> BytesFrom(lost[c], ip)]))]
<1>1. m \in Manager /\ Linked(m)
  BY DEF Sane
<1>2. \A c \in known : lost[c] \in Seq(Message)
  BY ExpiredType
<1>3. \A c \in known : Shed(m.channels[c], lost[c]) \in Channel
                       /\ Keeps(m.channels[c], Shed(m.channels[c], lost[c]))
  <2> TAKE c \in known
  <2>1. m.channels[c] \in Channel
    BY KnownType
  <2>2. lost[c] \in Seq(Message)
    BY <1>2
  <2> HIDE DEF lost
  <2> QED
    BY <2>1, <2>2, ShedFacts
<1>4. IsFiniteSet(known)
  <2>1. known \in SUBSET Channels
    OBVIOUS
  <2> QED
    BY <2>1, FS_Subset, ConstantsAssumption
<1>5. SumFunction([c \in known |-> Bytes(lost[c])]) \in Nat
      /\ \A ip \in Ips : SumFunction([c \in known |-> BytesFrom(lost[c], ip)]) \in Nat
  <2>1. \A c \in known : Bytes(lost[c]) \in Nat /\ \A ip : BytesFrom(lost[c], ip) \in Nat
    BY <1>2, MessageBytes
  <2> HIDE DEF lost, known
  <2>2. [c \in known |-> Bytes(lost[c])] \in [known -> Nat]
    BY <2>1
  <2>3. \A ip : [c \in known |-> BytesFrom(lost[c], ip)] \in [known -> Nat]
    BY <2>1
  <2> QED
    BY <1>4, <2>2, <2>3, SumType
<1>6. n = [m EXCEPT !.channels = chs, !.totalBufferedBytes = total,
                    !.bufferedBytesByIp = perIp]
  BY DEF ExpireBuffers
<1>7. chs \in [Channels -> Channel \cup {None}]
  BY <1>3
<1>8. total \in Nat /\ perIp \in [Ips -> Nat]
  BY <1>1, <1>5, MinusType DEF Manager
<1>9. \A c \in Channels : /\ Known(m, c) => chs[c] # None /\ Keeps(m.channels[c], chs[c])
                          /\ ~ Known(m, c) => chs[c] = None
  BY <1>3, NoneIsNoObject
<1> HIDE DEF n, chs, total, perIp, lost, known
<1>10. /\ n \in Manager /\ n.channels = chs
       /\ n.terminatedOrder = m.terminatedOrder
       /\ n.directDeliveries = m.directDeliveries
  BY <1>1, <1>6, <1>7, <1>8 DEF Manager
<1>11. \A c \in Channels : Known(n, c) <=> Known(m, c)
  BY <1>9, <1>10 DEF Known
<1>12. Linked(n)
  BY <1>1, <1>10, <1>11 DEF Linked, Manager, Reservation
<1>13. Shrinks(m, n) /\ SameTombstones(m, n)
  BY <1>9, <1>10, <1>11 DEF Shrinks, SameTombstones, Keeps, Live, Tombstone
<1>14. Step(m, n)
  BY <1>10, <1>12, <1>13 DEF Step, Sane
<1> QED
  BY <1>14 DEF n

\* Deleting channels: the others stay as they are, and the reservations that
\* referred to a deleted one refer to none.
LEMMA ForgetFacts ==
  ASSUME NEW m, Sane(m), NEW gone \in SUBSET Channels
  PROVE  LET n == Forget(m, gone)
         IN  /\ Sane(n) /\ Shrinks(m, n)
             /\ n.terminatedOrder = m.terminatedOrder
             /\ \A c \in Channels : Known(n, c) <=> Known(m, c) /\ c \notin gone
             /\ \A c \in Channels : Tombstone(n, c) <=> Tombstone(m, c) /\ c \notin gone
<1> DEFINE n == Forget(m, gone)
           chs == [c \in Channels |-> IF c \in gone THEN None ELSE m.channels[c]]
           dds == [s \in Sockets |->
                     IF m.directDeliveries[s] # None /\ m.directDeliveries[s].channel \in gone
                     THEN [m.directDeliveries[s] EXCEPT !.channel = None]
                     ELSE m.directDeliveries[s]]
<1>1. m \in Manager /\ Linked(m)
  BY DEF Sane
<1>2. n = [m EXCEPT !.channels = chs, !.directDeliveries = dds]
  BY <1>1 DEF Forget, Manager
<1>3. chs \in [Channels -> Channel \cup {None}]
  BY <1>1 DEF Manager
<1>4. ASSUME NEW s \in Sockets
      PROVE  /\ dds[s] \in Reservation \cup {None}
             /\ dds[s] # None /\ dds[s].channel # None
                  => /\ m.directDeliveries[s] # None /\ dds[s] = m.directDeliveries[s]
                     /\ dds[s].channel \notin gone
  <2>1. m.directDeliveries[s] \in Reservation \cup {None}
    BY <1>1 DEF Manager
  <2>2. CASE m.directDeliveries[s] # None /\ m.directDeliveries[s].channel \in gone
    <3>1. dds[s] = [m.directDeliveries[s] EXCEPT !.channel = None]
      BY <2>2
    <3>2. dds[s] \in Reservation /\ dds[s].channel = None
      BY <2>1, <2>2, <3>1 DEF Reservation
    <3> QED
      BY <3>2
  <2>3. CASE ~ (m.directDeliveries[s] # None /\ m.directDeliveries[s].channel \in gone)
    BY <2>1, <2>3
  <2> QED
    BY <2>2, <2>3
<1>5. dds \in [Sockets -> Reservation \cup {None}]
  BY <1>4
<1>6. \A c \in Channels : chs[c] = IF c \in gone THEN None ELSE m.channels[c]
  OBVIOUS
<1> HIDE DEF n, chs, dds
<1>7. /\ n \in Manager /\ n.channels = chs
      /\ n.terminatedOrder = m.terminatedOrder
      /\ n.directDeliveries = dds
  BY <1>1, <1>2, <1>3, <1>5 DEF Manager
<1>8. \A c \in Channels : Known(n, c) <=> Known(m, c) /\ c \notin gone
  BY <1>6, <1>7 DEF Known
<1>9. Linked(n)
  BY <1>1, <1>4, <1>7, <1>8 DEF Linked, Manager, Reservation
<1>10. Shrinks(m, n)
  BY <1>6, <1>7, <1>8 DEF Shrinks, Live
<1>11. \A c \in Channels : Tombstone(n, c) <=> Tombstone(m, c) /\ c \notin gone
  BY <1>6, <1>7, <1>8 DEF Tombstone
<1> QED
  BY <1>7, <1>8, <1>9, <1>10, <1>11 DEF Sane, n

\* terminatedOrder lists the tombstones, each once, and no more than the cap.
OrderExact(m) ==
  /\ Range(m.terminatedOrder) = {c \in Channels : Tombstone(m, c)}
  /\ IsInjective(m.terminatedOrder)

OrderOK(m) == OrderExact(m) /\ Len(m.terminatedOrder) <= MaxTombstones

\* Appending an absent element to a queue without duplicates.
LEMMA AppendKeepsInjective ==
  ASSUME NEW S, NEW q \in Seq(S), NEW x \in S, x \notin Range(q), IsInjective(q)
  PROVE  /\ IsInjective(Append(q, x))
         /\ Range(Append(q, x)) = Range(q) \cup {x}
<1> DEFINE r == Append(q, x)
           n == Len(q)
<1>1. n \in Nat /\ DOMAIN q = 1 .. n
  OBVIOUS
<1>2. DOMAIN r = 1 .. n + 1 /\ r[n + 1] = x /\ \A i \in 1 .. n : r[i] = q[i]
  OBVIOUS
<1> HIDE DEF r, n
<1>3. \A i \in 1 .. n + 1 : i \in 1 .. n \/ i = n + 1
  BY <1>1
<1>4. \A i \in 1 .. n : q[i] # x
  BY <1>1 DEF Range
<1>5. IsInjective(r)
  BY <1>1, <1>2, <1>3, <1>4 DEF IsInjective
<1>6. 1 .. n \subseteq 1 .. n + 1 /\ n + 1 \in 1 .. n + 1
  BY <1>1
<1>7. Range(r) = Range(q) \cup {x}
  BY <1>1, <1>2, <1>3, <1>6 DEF Range
<1> QED
  BY <1>5, <1>7 DEF r

\* Dropping the head of a queue without duplicates.
LEMMA TailInjective ==
  ASSUME NEW S, NEW q \in Seq(S), Len(q) > 0, IsInjective(q)
  PROVE  /\ Tail(q) \in Seq(S) /\ Len(Tail(q)) = Len(q) - 1 /\ Head(q) \in Range(q)
         /\ IsInjective(Tail(q))
         /\ Range(Tail(q)) = Range(q) \ {Head(q)}
<1> DEFINE r == Tail(q)
           n == Len(q)
<1>1. n \in Nat /\ n >= 1 /\ DOMAIN q = 1 .. n
  OBVIOUS
<1>2. /\ r \in Seq(S) /\ Len(r) = n - 1 /\ DOMAIN r = 1 .. n - 1
      /\ \A i \in 1 .. n - 1 : r[i] = q[i + 1]
      /\ Head(q) = q[1]
  OBVIOUS
<1> HIDE DEF r, n
<1>3. \A i \in 1 .. n - 1 : i + 1 \in 1 .. n /\ i + 1 # 1
  BY <1>1
<1>4. \A i \in 1 .. n : i # 1 => i - 1 \in 1 .. n - 1 /\ (i - 1) + 1 = i
  BY <1>1
<1>5. IsInjective(r)
  <2>1. ASSUME NEW a \in 1 .. n - 1, NEW b \in 1 .. n - 1, r[a] = r[b] PROVE a = b
    <3>1. a + 1 \in DOMAIN q /\ b + 1 \in DOMAIN q /\ q[a + 1] = q[b + 1]
      BY <1>1, <1>2, <1>3, <2>1
    <3>2. a + 1 = b + 1
      BY <3>1 DEF IsInjective
    <3> QED
      BY <3>2
  <2> QED
    BY <1>2, <2>1 DEF IsInjective
<1>6. 1 \in 1 .. n
  BY <1>1
<1>7. Head(q) \in Range(q)
  BY <1>1, <1>2, <1>6 DEF Range
<1>8. ASSUME NEW x \in Range(r) PROVE x \in Range(q) \ {Head(q)}
  <2>1. PICK i \in 1 .. n - 1 : x = q[i + 1]
    BY <1>2, <1>8 DEF Range
  <2>2. q[i + 1] # q[1]
    BY <1>1, <1>3, <1>6 DEF IsInjective
  <2> QED
    BY <1>1, <1>2, <1>3, <2>1, <2>2 DEF Range
<1>9. ASSUME NEW x \in Range(q) \ {Head(q)} PROVE x \in Range(r)
  <2>1. PICK i \in 1 .. n : x = q[i] /\ i # 1
    BY <1>1, <1>2, <1>9 DEF Range
  <2>2. i - 1 \in 1 .. n - 1 /\ r[i - 1] = x
    BY <1>2, <1>4, <2>1
  <2> QED
    BY <1>2, <2>2 DEF Range
<1> QED
  BY <1>2, <1>5, <1>7, <1>8, <1>9 DEF r, n

\* A cleanup seats nobody and keeps terminatedOrder exact: the ids of deleted
\* tombstones are filtered out of it.
LEMMA CleanupFacts ==
  ASSUME NEW m, Sane(m), NEW time
  PROVE  LET n == Cleanup(m, time)
         IN  /\ Sane(n) /\ Shrinks(m, n)
             /\ OrderOK(m) => OrderOK(n)
<1> DEFINE n == Cleanup(m, time)
           expired == ExpireBuffers(m, time)
           gone == Reaped(m, time)
           kept == Forget(expired, gone)
           left == {c \in Channels : Known(kept, c)}
           order == Keep(kept.terminatedOrder, left)
<1>1. Step(m, expired)
  BY ExpireBuffersStep
<1>2. gone \in SUBSET Channels
  BY DEF Reaped
<1> HIDE DEF expired, gone
<1>3. /\ Sane(kept) /\ Shrinks(expired, kept)
      /\ kept.terminatedOrder = expired.terminatedOrder
      /\ \A c \in Channels : Known(kept, c) <=> Known(expired, c) /\ c \notin gone
      /\ \A c \in Channels : Tombstone(kept, c) <=> Tombstone(expired, c) /\ c \notin gone
  BY <1>1, <1>2, ForgetFacts DEF Step
<1>4. n = [kept EXCEPT !.terminatedOrder = order]
  BY DEF Cleanup, expired, gone
<1> HIDE DEF kept, n
<1>5. kept \in Manager /\ kept.terminatedOrder \in Seq(Channels)
  BY <1>3 DEF Sane, Manager
<1>6. /\ order \in Seq(Channels) /\ Range(order) = Range(kept.terminatedOrder) \cap left
      /\ IsInjective(kept.terminatedOrder) => IsInjective(order)
      /\ Len(order) <= Len(kept.terminatedOrder)
  <2> HIDE DEF left
  <2> QED
    BY <1>5, KeepFacts
<1> HIDE DEF order
<1>7. /\ n \in Manager /\ n.channels = kept.channels /\ n.terminatedOrder = order
      /\ n.directDeliveries = kept.directDeliveries
  BY <1>4, <1>5, <1>6 DEF Manager
<1>8. Sane(n)
  BY <1>3, <1>7 DEF Sane, Linked, Known
<1>9. Shrinks(m, n)
  BY <1>1, <1>3, <1>7 DEF Shrinks, Step, Known, Live
<1>10. ASSUME OrderOK(m) PROVE OrderOK(n)
  <2>1. OrderOK(expired) /\ kept.terminatedOrder = m.terminatedOrder
    BY <1>1, <1>3, <1>10 DEF OrderOK, OrderExact, Step, SameTombstones
  <2>2. Range(order) = {c \in Channels : Tombstone(n, c)}
    <3>1. Range(kept.terminatedOrder) = {c \in Channels : Tombstone(expired, c)}
      BY <1>3, <2>1 DEF OrderOK, OrderExact
    <3>2. \A c \in Channels : Tombstone(expired, c) /\ c \in left <=> Tombstone(n, c)
      BY <1>3, <1>7 DEF Tombstone, Known
    <3> HIDE DEF left
    <3> QED
      BY <1>6, <3>1, <3>2
  <2>3. IsInjective(order) /\ Len(order) <= MaxTombstones
    <3>1. IsInjective(kept.terminatedOrder) /\ Len(kept.terminatedOrder) <= MaxTombstones
      BY <1>10, <2>1 DEF OrderOK, OrderExact
    <3>2. Len(order) \in Nat /\ Len(kept.terminatedOrder) \in Nat /\ MaxTombstones \in Nat
      BY <1>5, <1>6, ConstantsAssumption
    <3> QED
      BY <1>6, <3>1, <3>2
  <2> QED
    BY <1>7, <2>2, <2>3 DEF OrderOK, OrderExact
<1> QED
  BY <1>8, <1>9, <1>10 DEF n

\* The tombstone of a channel is a channel with no participant.
LEMMA HollowType ==
  ASSUME NEW ch \in Channel, NEW time \in Nat
  PROVE  LET h == Hollow(ch, time)
         IN  /\ h \in Channel /\ h.terminated = TRUE
             /\ \A s \in Sockets : h.participants[s] = None
<1> DEFINE h == Hollow(ch, time)
<1>1. << >> \in Seq(Message)
  OBVIOUS
<1>2. h \in Channel /\ h.terminated = TRUE /\ h.participants = [s \in Sockets |-> None]
  BY <1>1 DEF Hollow, Channel
<1> HIDE DEF h
<1> QED
  BY <1>2 DEF h

\* A close seats nobody and keeps terminatedOrder exact and bounded: the closed
\* channel is appended, and the oldest tombstone goes when there are too many.
LEMMA CloseFacts ==
  ASSUME NEW m, Sane(m), NEW c \in Channels, Live(m, c), NEW time \in Nat
  PROVE  LET n == Close(m, c, time)
         IN  /\ Sane(n) /\ Shrinks(m, n)
             /\ OrderOK(m) => OrderOK(n)
<1> DEFINE n == Close(m, c, time)
           order == Append(m.terminatedOrder, c)
           freed == ReleaseBuffered(m, c, m.channels[c].messageBuffer)
           h == Hollow(freed.channels[c], time)
           hollowed == [freed EXCEPT !.channels[c] = h, !.terminatedOrder = order]
           stale == Head(order)
           gone == IF Tombstone(hollowed, stale) THEN {stale} ELSE {}
           short == [hollowed EXCEPT !.terminatedOrder = Tail(order)]
<1>1. Known(m, c) /\ m.channels[c] \in Channel /\ m.terminatedOrder \in Seq(Channels)
  BY KnownType DEF Live, Sane, Manager
<1>2. Step(m, freed) /\ Known(freed, c)
  <2>1. m.channels[c].messageBuffer \in Seq(Message)
    BY <1>1 DEF Channel
  <2> QED
    BY <1>1, <2>1, ReleaseBufferedStep
<1>3. order \in Seq(Channels) /\ Len(order) = Len(m.terminatedOrder) + 1
  BY <1>1
<1>4. n = IF Len(order) <= MaxTombstones THEN hollowed ELSE Forget(short, gone)
  <2>1. ASSUME NEW x, hollowed = x
        PROVE  [x EXCEPT !.terminatedOrder = Tail(x.terminatedOrder)] = short
    <3>1. freed \in Manager
      BY <1>2 DEF Step, Sane
    <3>2. hollowed.terminatedOrder = order
      <4> HIDE DEF order, h, freed
      <4> QED
        BY <3>1 DEF Manager
    <3> QED
      BY <2>1, <3>2
  <2> QED
    BY <2>1 DEF Close
<1> HIDE DEF freed, order
<1>5. freed \in Manager /\ Linked(freed) /\ freed.channels[c] \in Channel
  BY <1>2, KnownType DEF Step, Sane
<1>6. h \in Channel /\ h.terminated = TRUE /\ \A s \in Sockets : h.participants[s] = None
  BY <1>5, HollowType
<1> HIDE DEF h
<1>7. /\ hollowed \in Manager /\ hollowed.channels = [freed.channels EXCEPT ![c] = h]
      /\ hollowed.terminatedOrder = order
      /\ hollowed.directDeliveries = freed.directDeliveries
  BY <1>3, <1>5, <1>6 DEF Manager
<1> HIDE DEF hollowed
<1>8. hollowed.channels[c] = h /\ \A d \in Channels \ {c} : hollowed.channels[d] = freed.channels[d]
  BY <1>5, <1>7 DEF Manager
<1>9. \A d \in Channels : Known(hollowed, d) <=> Known(freed, d)
  BY <1>2, <1>6, <1>8, NoneIsNoObject DEF Known
<1>10. Sane(hollowed)
  BY <1>5, <1>7, <1>9 DEF Sane, Linked, Manager, Reservation
<1>11. Shrinks(m, hollowed)
  <2>1. Shrinks(freed, hollowed)
    BY <1>6, <1>8, <1>9 DEF Shrinks, Live
  <2> QED
    BY <1>2, <2>1 DEF Step, Shrinks
<1>12. \A d \in Channels : Tombstone(hollowed, d) <=> d = c \/ Tombstone(m, d)
  <2>1. \A d \in Channels : Tombstone(freed, d) <=> Tombstone(m, d)
    BY <1>2 DEF Step, SameTombstones
  <2> QED
    BY <1>2, <1>6, <1>8, <1>9, <2>1 DEF Tombstone
<1>13. OrderOK(m) => OrderExact(hollowed)
  <2>1. SUFFICES ASSUME OrderOK(m) PROVE OrderExact(hollowed)
    OBVIOUS
  <2>2. c \notin Range(m.terminatedOrder)
    BY <2>1 DEF OrderOK, OrderExact, Live, Tombstone
  <2>3. IsInjective(order) /\ Range(order) = Range(m.terminatedOrder) \cup {c}
    BY <1>1, <2>1, <2>2, AppendKeepsInjective DEF OrderOK, OrderExact, order
  <2>4. Range(order) = {d \in Channels : Tombstone(hollowed, d)}
    BY <1>12, <2>1, <2>3 DEF OrderOK, OrderExact
  <2> QED
    BY <1>7, <2>3, <2>4 DEF OrderExact
<1>14. CASE Len(order) <= MaxTombstones
  BY <1>4, <1>7, <1>10, <1>11, <1>13, <1>14 DEF OrderOK
<1>15. CASE ~ (Len(order) <= MaxTombstones)
  <2>1. Len(order) > 0 /\ stale \in Channels
    BY <1>3
  <2>2. gone \in SUBSET Channels
    BY <2>1
  <2>3. Tail(order) \in Seq(Channels)
    BY <1>3, <2>1
  <2>4. /\ short \in Manager /\ short.channels = hollowed.channels
        /\ short.terminatedOrder = Tail(order)
        /\ short.directDeliveries = hollowed.directDeliveries
    BY <1>7, <2>3 DEF Manager
  <2> HIDE DEF short
  <2>5. Sane(short) /\ Shrinks(hollowed, short)
        /\ \A d \in Channels : Tombstone(short, d) <=> Tombstone(hollowed, d)
    BY <1>10, <2>4 DEF Sane, Linked, Known, Shrinks, Live, Tombstone
  <2>6. n = Forget(short, gone)
    BY <1>4, <1>15
  <2>7. /\ Sane(n) /\ Shrinks(short, n) /\ n.terminatedOrder = short.terminatedOrder
        /\ \A d \in Channels : Tombstone(n, d) <=> Tombstone(short, d) /\ d \notin gone
    <3> HIDE DEF gone, n
    <3> QED
      BY <2>2, <2>5, <2>6, ForgetFacts
  <2> HIDE DEF n
  <2>8. Shrinks(m, n)
    <3>1. Shrinks(m, short)
      BY <1>11, <2>5, ShrinksTransitive
    <3> QED
      BY <2>7, <3>1, ShrinksTransitive
  <2>9. ASSUME OrderOK(m) PROVE OrderOK(n)
    <3>1. IsInjective(order) /\ Range(order) = {d \in Channels : Tombstone(hollowed, d)}
      BY <1>7, <1>13, <2>9 DEF OrderExact
    <3>2. /\ Len(Tail(order)) = Len(order) - 1 /\ stale \in Range(order)
          /\ IsInjective(Tail(order)) /\ Range(Tail(order)) = Range(order) \ {stale}
      BY <1>3, <2>1, <3>1, TailInjective
    <3> HIDE DEF stale
    <3>3. gone = {stale}
      BY <3>1, <3>2
    <3>4. Range(Tail(order)) = {d \in Channels : Tombstone(n, d)}
      BY <2>5, <2>7, <3>1, <3>2, <3>3
    <3>5. Len(Tail(order)) <= MaxTombstones
      <4>1. Len(m.terminatedOrder) <= MaxTombstones /\ Len(m.terminatedOrder) \in Nat
        BY <1>1, <2>9 DEF OrderOK
      <4> QED
        BY <1>3, <3>2, <4>1, ConstantsAssumption
    <3> QED
      BY <2>4, <2>7, <3>2, <3>4, <3>5 DEF OrderOK, OrderExact
  <2> QED
    BY <2>7, <2>8, <2>9 DEF n
<1> QED
  BY <1>14, <1>15

-----------------------------------------------------------------------------
(* The invariants, for any step and for join *)

\* No role of a channel is held by two sockets.
OneSeat(m) ==
  \A c \in Channels : Known(m, c) =>
    \A s, t \in Sockets :
      /\ m.channels[c].participants[s] # None
      /\ m.channels[c].participants[s] = m.channels[c].participants[t]
      => s = t

\* No address has created more live channels than it may.
CreatorsBounded(m) ==
  \A ip \in Ips : Cardinality(LiveChannelsCreatedBy(m, ip)) <= MaxChannelsPerIp

\* A channel live in both has the key it had, if it had one.
KeysKept(m, n) ==
  \A c \in Channels : Live(m, c) /\ m.channels[c].publicKey # None /\ Live(n, c)
    => n.channels[c].publicKey = m.channels[c].publicKey

\* What every method does to the invariants.
Preserves(m, n) ==
  /\ Sane(n)
  /\ OneSeat(m) => OneSeat(n)
  /\ OrderOK(m) => OrderOK(n)
  /\ CreatorsBounded(m) => CreatorsBounded(n)
  /\ KeysKept(m, n)

\* The channels an address created are finitely many.
LEMMA CreatedFinite ==
  ASSUME NEW m, NEW ip
  PROVE  /\ IsFiniteSet(LiveChannelsCreatedBy(m, ip))
         /\ Cardinality(LiveChannelsCreatedBy(m, ip)) \in Nat
<1>1. LiveChannelsCreatedBy(m, ip) \in SUBSET Channels
  BY DEF LiveChannelsCreatedBy
<1> QED
  BY <1>1, ConstantsAssumption, FS_Subset, FS_CardinalityType

\* With fewer live channels, and the same creators, the bound still holds.
LEMMA FewerCreated ==
  ASSUME NEW m, NEW n, CreatorsBounded(m),
         \A c \in Channels : Live(n, c) =>
            Live(m, c) /\ n.channels[c].creatorIp = m.channels[c].creatorIp
  PROVE  CreatorsBounded(n)
<1> SUFFICES ASSUME NEW ip \in Ips
             PROVE  Cardinality(LiveChannelsCreatedBy(n, ip)) <= MaxChannelsPerIp
  BY DEF CreatorsBounded
<1>1. LiveChannelsCreatedBy(n, ip) \in SUBSET LiveChannelsCreatedBy(m, ip)
  BY DEF LiveChannelsCreatedBy
<1>2. Cardinality(LiveChannelsCreatedBy(n, ip)) <= Cardinality(LiveChannelsCreatedBy(m, ip))
  BY <1>1, CreatedFinite, FS_Subset
<1>3. Cardinality(LiveChannelsCreatedBy(m, ip)) <= MaxChannelsPerIp
  BY DEF CreatorsBounded
<1> QED
  BY <1>2, <1>3, CreatedFinite, ConstantsAssumption

\* A method that seats nobody preserves the invariants, if it keeps terminatedOrder.
LEMMA ShrinksPreserves ==
  ASSUME NEW m, NEW n, Sane(m), Sane(n), Shrinks(m, n), OrderOK(m) => OrderOK(n)
  PROVE  Preserves(m, n)
<1>1. ASSUME OneSeat(m) PROVE OneSeat(n)
  BY <1>1 DEF OneSeat, Shrinks
<1>2. ASSUME CreatorsBounded(m) PROVE CreatorsBounded(n)
  BY <1>2, FewerCreated DEF Shrinks, Live
<1>3. KeysKept(m, n)
  BY DEF KeysKept, Shrinks, Live
<1> QED
  BY <1>1, <1>2, <1>3 DEF Preserves

\* A step keeps the same tombstones, so it preserves the invariants.
LEMMA StepPreserves ==
  ASSUME NEW m, NEW n, Sane(m), Step(m, n)
  PROVE  Preserves(m, n)
<1>1. OrderOK(m) => OrderOK(n)
  BY DEF Step, SameTombstones, OrderOK, OrderExact
<1> QED
  BY <1>1, ShrinksPreserves DEF Step

\* The table with the channel that a first join opens.
Opened(m, c, ip, time) ==
  IF Known(m, c) THEN m ELSE [m EXCEPT !.channels[c] = NewChannel(ip, time)]

\* A new channel is a live channel without participants.
LEMMA NewChannelType ==
  ASSUME NEW ip \in Ips, NEW time \in Nat
  PROVE  LET ch == NewChannel(ip, time)
         IN  /\ ch \in Channel /\ ch # None /\ ch.terminated = FALSE
             /\ ch.creatorIp = ip /\ \A s \in Sockets : ch.participants[s] = None
<1> DEFINE ch == NewChannel(ip, time)
<1>1. << >> \in Seq(Message)
  OBVIOUS
<1>2. /\ ch \in Channel /\ ch.terminated = FALSE /\ ch.creatorIp = ip
      /\ ch.participants = [s \in Sockets |-> None]
  BY <1>1 DEF NewChannel, Channel
<1> HIDE DEF ch
<1> QED
  BY <1>2, NoneIsNoObject DEF ch

\* Opening a channel keeps the invariants, because the first join has counted the
\* live channels of its address, and touches no channel that was there.
LEMMA OpenFacts ==
  ASSUME NEW m, Sane(m), NEW c \in Channels, ~ Tombstone(m, c),
         NEW ip \in Ips, NEW time \in Nat,
         Known(m, c) \/ ~(Cardinality(LiveChannelsCreatedBy(m, ip)) >= MaxChannelsPerIp)
  PROVE  LET o == Opened(m, c, ip, time)
         IN  /\ Sane(o) /\ Live(o, c)
             /\ OneSeat(m) => OneSeat(o)
             /\ OrderOK(m) => OrderOK(o)
             /\ CreatorsBounded(m) => CreatorsBounded(o)
             /\ \A d \in Channels : Live(m, d) => o.channels[d] = m.channels[d]
<1> DEFINE o == Opened(m, c, ip, time)
           ch == NewChannel(ip, time)
<1>1. CASE Known(m, c)
  BY <1>1 DEF Opened, Live, Tombstone
<1>2. CASE ~ Known(m, c)
  <2>1. m \in Manager /\ Linked(m) /\ m.channels[c] = None
    BY <1>2 DEF Sane, Known
  <2>2. /\ ch \in Channel /\ ch # None /\ ch.terminated = FALSE /\ ch.creatorIp = ip
        /\ \A s \in Sockets : ch.participants[s] = None
    BY NewChannelType
  <2> HIDE DEF ch
  <2>3. /\ o \in Manager /\ o.channels = [m.channels EXCEPT ![c] = ch]
        /\ o.terminatedOrder = m.terminatedOrder
        /\ o.directDeliveries = m.directDeliveries
    BY <1>2, <2>1, <2>2 DEF Opened, Manager, ch
  <2> HIDE DEF o
  <2>4. o.channels[c] = ch /\ \A d \in Channels \ {c} : o.channels[d] = m.channels[d]
    BY <2>1, <2>3 DEF Manager
  <2>5. Sane(o)
    BY <2>1, <2>2, <2>3, <2>4 DEF Sane, Linked, Known, Manager, Reservation
  <2>6. Live(o, c) /\ \A d \in Channels : Live(m, d) => o.channels[d] = m.channels[d]
    BY <1>2, <2>2, <2>4 DEF Live, Known
  <2>7. \A d \in Channels : Tombstone(o, d) <=> Tombstone(m, d)
    BY <1>2, <2>2, <2>4 DEF Tombstone, Known
  <2>8. OneSeat(m) => OneSeat(o)
    BY <2>2, <2>4 DEF OneSeat, Known
  <2>9. OrderOK(m) => OrderOK(o)
    BY <2>3, <2>7 DEF OrderOK, OrderExact
  <2>10. ASSUME CreatorsBounded(m) PROVE CreatorsBounded(o)
    <3> SUFFICES ASSUME NEW a \in Ips
                 PROVE  Cardinality(LiveChannelsCreatedBy(o, a)) <= MaxChannelsPerIp
      BY DEF CreatorsBounded
    <3>1. CASE a # ip
      <4>1. LiveChannelsCreatedBy(o, a) = LiveChannelsCreatedBy(m, a)
        BY <1>2, <2>2, <2>4, <3>1 DEF LiveChannelsCreatedBy, Live, Known
      <4> QED
        BY <2>10, <4>1 DEF CreatorsBounded
    <3>2. CASE a = ip
      <4>1. LiveChannelsCreatedBy(o, a) = LiveChannelsCreatedBy(m, a) \cup {c}
        BY <1>2, <2>2, <2>4, <3>2 DEF LiveChannelsCreatedBy, Live, Known
      <4>2. c \notin LiveChannelsCreatedBy(m, a)
        BY <1>2 DEF LiveChannelsCreatedBy, Live
      <4>3. Cardinality(LiveChannelsCreatedBy(o, a)) = Cardinality(LiveChannelsCreatedBy(m, a)) + 1
        BY <4>1, <4>2, CreatedFinite, FS_AddElement
      <4>4. ~(Cardinality(LiveChannelsCreatedBy(m, a)) >= MaxChannelsPerIp)
        BY <1>2, <3>2
      <4> QED
        BY <4>3, <4>4, CreatedFinite, ConstantsAssumption
    <3> QED
      BY <3>1, <3>2
  <2> QED
    BY <2>5, <2>6, <2>8, <2>9, <2>10 DEF o
<1> QED
  BY <1>1, <1>2

\* Removing the stale holder of a role is a step, and leaves the role to the socket
\* that joins: there was at most one other holder.
LEMMA EvictFacts ==
  ASSUME NEW m, Sane(m), NEW c \in Channels, Known(m, c), NEW s \in Sockets,
         NEW role \in Roles
  PROVE  LET e == EvictRival(m, c, s, role)
         IN  /\ Step(m, e)
             /\ OneSeat(m) => \A t \in Sockets \ {s} : e.channels[c].participants[t] # role
<1> DEFINE e == EvictRival(m, c, s, role)
           rival == CHOOSE t \in Rivals(m, c, s, role) : TRUE
           ch == [m.channels[c] EXCEPT !.participants[rival] = None, !.seqNumbers[rival] = -1]
           freed == [m EXCEPT !.channels[c] = ch]
<1>1. m.channels[c] \in Channel
  BY KnownType
<1>2. \A t \in Sockets \ {s} : m.channels[c].participants[t] = role <=> t \in Rivals(m, c, s, role)
  BY DEF Rivals, MembersIn
<1>3. CASE Rivals(m, c, s, role) = {}
  BY <1>2, <1>3, StepReflexive DEF EvictRival
<1>4. CASE Rivals(m, c, s, role) # {}
  <2>1. rival \in Rivals(m, c, s, role)
    BY <1>4
  <2>2. rival \in Sockets \ {s} /\ m.channels[c].participants[rival] = role
    BY <2>1 DEF Rivals, MembersIn
  <2>3. e = ReleaseDirectDelivery(freed, rival)
    BY <1>4 DEF EvictRival
  <2> HIDE DEF rival, e
  <2>4. ch \in Channel /\ Keeps(m.channels[c], ch) /\ ch.participants[rival] = None
    BY <1>1, <2>2 DEF Channel, Keeps
  <2> HIDE DEF ch
  <2>5. Step(m, freed) /\ freed.channels[c] = ch
    BY <2>4, RewriteStep
  <2> HIDE DEF freed
  <2>6. Step(freed, e)
    BY <2>2, <2>3, <2>5, ReleaseDirectDeliveryStep DEF Step
  <2>7. Step(m, e)
    BY <2>5, <2>6, StepTransitive
  <2>8. ASSUME OneSeat(m), NEW t \in Sockets \ {s}, e.channels[c].participants[t] = role
        PROVE  FALSE
    <3>1. Known(e, c) /\ role # None
      BY <2>7, ConstantsAssumption DEF Step, SameTombstones
    <3>2. m.channels[c].participants[t] = role
      BY <2>7, <2>8, <3>1 DEF Step, Shrinks
    <3>3. t = rival
      BY <2>2, <2>8, <3>1, <3>2 DEF OneSeat
    <3>4. e.channels[c].participants[rival] \in {None, ch.participants[rival]}
      BY <2>2, <2>5, <2>6, <3>1 DEF Step, Shrinks
    <3> QED
      BY <2>4, <2>8, <3>1, <3>3, <3>4
  <2> QED
    BY <2>7, <2>8 DEF e
<1> QED
  BY <1>3, <1>4

\* The channel once the participant is seated.
LEMMA SeatFacts ==
  ASSUME NEW ch \in Channel, NEW s \in Sockets, NEW role \in Roles,
         NEW key \in Keys \cup {None}, NEW time \in Nat, NEW mine
  PROVE  LET new == Seat(ch, s, role, key, time, mine)
         IN  /\ new \in Channel
             /\ new.participants = [ch.participants EXCEPT ![s] = role]
             /\ new.publicKey = IF key # None THEN key ELSE ch.publicKey
             /\ new.terminated = ch.terminated /\ new.creatorIp = ch.creatorIp
<1> DEFINE buffer == Keep(ch.messageBuffer, Range(ch.messageBuffer) \ mine)
           bound == IF key # None THEN key ELSE ch.publicKey
           new == [ch EXCEPT !.participants[s] = role, !.publicKey = bound,
                             !.lastActivity = time, !.messageBuffer = buffer]
<1>1. ch.messageBuffer \in Seq(Message)
  BY DEF Channel
<1>2. buffer \in Seq(Message)
  BY <1>1, KeepFacts
<1>3. bound \in Keys \cup {None}
  BY DEF Channel
<1>4. Seat(ch, s, role, key, time, mine) = new
  BY DEF Seat
<1> HIDE DEF buffer, bound
<1>5. /\ new \in Channel
      /\ new.participants = [ch.participants EXCEPT ![s] = role]
      /\ new.publicKey = bound
      /\ new.terminated = ch.terminated /\ new.creatorIp = ch.creatorIp
  BY <1>2, <1>3 DEF Channel
<1> QED
  BY <1>4, <1>5 DEF bound

\* Seating a participant, once its key has been compared and its role is free,
\* keeps the invariants and any key that was bound.
LEMMA AdmitPreserves ==
  ASSUME NEW m, Sane(m), NEW c \in Channels, Known(m, c), NEW s \in Sockets,
         NEW role \in Roles, NEW key \in Keys \cup {None}, NEW time \in Nat,
         ~ JoinRefusedLate(m.channels[c], s, key)
  PROVE  LET n == Admit(m, c, s, role, key, time).mgr
         IN  /\ Sane(n)
             /\ OneSeat(m) /\ (\A t \in Sockets \ {s} : m.channels[c].participants[t] # role)
                  => OneSeat(n)
             /\ OrderOK(m) => OrderOK(n)
             /\ CreatorsBounded(m) => CreatorsBounded(n)
             /\ KeysKept(m, n)
<1> DEFINE n == Admit(m, c, s, role, key, time).mgr
           mine == For(m.channels[c].messageBuffer, role)
           drained == Keep(m.channels[c].messageBuffer, mine)
           ch == Seat(m.channels[c], s, role, key, time, mine)
           joined == [m EXCEPT !.channels[c] = ch]
<1>1. m \in Manager /\ Linked(m) /\ m.channels[c] \in Channel
  BY KnownType DEF Sane
<1>2. drained \in Seq(Message)
  <2>1. m.channels[c].messageBuffer \in Seq(Message)
    BY <1>1 DEF Channel
  <2> QED
    BY <2>1, KeepFacts
<1>3. n = ReleaseBuffered(joined, c, drained)
  BY DEF Admit
<1> HIDE DEF drained, n, mine
<1>4. /\ ch \in Channel /\ ch # None
      /\ ch.participants = [m.channels[c].participants EXCEPT ![s] = role]
      /\ ch.publicKey = IF key # None THEN key ELSE m.channels[c].publicKey
      /\ ch.terminated = m.channels[c].terminated
      /\ ch.creatorIp = m.channels[c].creatorIp
  BY <1>1, SeatFacts, NoneIsNoObject
<1> HIDE DEF ch
<1>5. /\ joined \in Manager /\ joined.terminatedOrder = m.terminatedOrder
      /\ joined.directDeliveries = m.directDeliveries
      /\ joined.channels = [m.channels EXCEPT ![c] = ch]
  BY <1>1, <1>4 DEF Manager
<1> HIDE DEF joined
<1>6. joined.channels[c] = ch /\ \A d \in Channels \ {c} : joined.channels[d] = m.channels[d]
  BY <1>1, <1>5 DEF Manager
<1>7. \A d \in Channels : /\ Known(joined, d) <=> Known(m, d)
                          /\ Tombstone(joined, d) <=> Tombstone(m, d)
                          /\ Live(joined, d) <=> Live(m, d)
  BY <1>4, <1>6 DEF Known, Tombstone, Live
<1>8. Sane(joined)
  BY <1>1, <1>5, <1>7 DEF Sane, Linked, Manager, Reservation
<1>9. Preserves(joined, n)
  <2>1. Step(joined, n)
    BY <1>2, <1>3, <1>7, <1>8, ReleaseBufferedStep
  <2> QED
    BY <1>8, <2>1, StepPreserves
<1>10. ASSUME OneSeat(m), \A t \in Sockets \ {s} : m.channels[c].participants[t] # role
       PROVE  OneSeat(n)
  <2>1. \A t \in Sockets : ch.participants[t] = IF t = s THEN role
                                                ELSE m.channels[c].participants[t]
    BY <1>1, <1>4 DEF Channel
  <2>2. \A t, u \in Sockets : ch.participants[t] # None /\ ch.participants[t] = ch.participants[u]
          => t = u
    BY <1>10, <2>1 DEF OneSeat
  <2>3. OneSeat(joined)
    BY <1>6, <1>7, <1>10, <2>2 DEF OneSeat
  <2> QED
    BY <1>9, <2>3 DEF Preserves
<1>11. ASSUME OrderOK(m) PROVE OrderOK(n)
  <2>1. OrderOK(joined)
    BY <1>5, <1>7, <1>11 DEF OrderOK, OrderExact
  <2> QED
    BY <1>9, <2>1 DEF Preserves
<1>12. ASSUME CreatorsBounded(m) PROVE CreatorsBounded(n)
  <2>1. CreatorsBounded(joined)
    BY <1>4, <1>6, <1>7, <1>12, FewerCreated
  <2> QED
    BY <1>9, <2>1 DEF Preserves
<1>13. KeysKept(m, n)
  <2>1. KeysKept(m, joined)
    BY <1>4, <1>6 DEF KeysKept, JoinRefusedLate
  <2>2. \A d \in Channels : Live(n, d) => Live(joined, d)
    <3>1. Shrinks(joined, n)
      BY <1>2, <1>3, <1>7, <1>8, ReleaseBufferedStep DEF Step
    <3> QED
      BY <3>1 DEF Shrinks, Live
  <2> QED
    BY <1>7, <1>9, <2>1, <2>2 DEF KeysKept, Preserves
<1>14. Sane(n)
  BY <1>9 DEF Preserves
<1> QED
  BY <1>10, <1>11, <1>12, <1>13, <1>14 DEF n

\* Every join, accepted or refused, preserves the invariants, also one that opens a
\* channel, replaces a stale holder, or is refused after it has replaced one.
LEMMA JoinPreserves ==
  ASSUME NEW m, Sane(m), NEW c \in Channels, NEW s \in Sockets, NEW role \in Roles,
         NEW publicKey \in Keys \cup {None}, NEW ip \in Ips, NEW active \in SUBSET Sockets,
         NEW time \in Nat
  PROVE  Preserves(m, Join(m, c, s, role, publicKey, ip, active, time).mgr)
<1> DEFINE n == Join(m, c, s, role, publicKey, ip, active, time).mgr
           key == BoundKey(role, publicKey)
           o == Opened(m, c, ip, time)
           e == EvictRival(o, c, s, role)
<1>1. key \in Keys \cup {None}
  BY DEF BoundKey
<1>2. CASE Tombstone(m, c) \/ JoinRefusedAtOnce(m, c, s, role, key, ip, active)
  <2>1. n = m
    BY <1>2 DEF Join
  <2> QED
    BY <2>1, StepReflexive, StepPreserves
<1>3. CASE ~ Tombstone(m, c) /\ ~ JoinRefusedAtOnce(m, c, s, role, key, ip, active)
  <2>1. /\ Sane(o) /\ Live(o, c)
        /\ OneSeat(m) => OneSeat(o)
        /\ OrderOK(m) => OrderOK(o)
        /\ CreatorsBounded(m) => CreatorsBounded(o)
        /\ \A d \in Channels : Live(m, d) => o.channels[d] = m.channels[d]
    <3>1. Known(m, c) \/ ~(Cardinality(LiveChannelsCreatedBy(m, ip)) >= MaxChannelsPerIp)
      BY <1>3 DEF JoinRefusedAtOnce
    <3> QED
      BY <1>3, <3>1, OpenFacts
  <2>2. n = IF JoinRefusedLate(e.channels[c], s, key) THEN e
            ELSE Admit(e, c, s, role, key, time).mgr
    BY <1>3 DEF Join, Opened
  <2> HIDE DEF o, n, key
  <2>3. /\ Step(o, e)
        /\ OneSeat(o) => \A t \in Sockets \ {s} : e.channels[c].participants[t] # role
    BY <2>1, EvictFacts DEF Live
  <2> HIDE DEF e
  <2>4. Preserves(o, e) /\ Sane(e) /\ Known(e, c)
    BY <2>1, <2>3, StepPreserves DEF Step, SameTombstones, Live
  <2>5. KeysKept(m, e) /\ \A d \in Channels : Live(m, d) => Live(e, d)
    BY <2>1, <2>3, <2>4 DEF KeysKept, Preserves, Live, Known, Step, SameTombstones, Tombstone
  <2>6. ASSUME n = e PROVE Preserves(m, n)
    BY <2>1, <2>4, <2>5, <2>6 DEF Preserves
  <2>7. ASSUME n = Admit(e, c, s, role, key, time).mgr,
               ~ JoinRefusedLate(e.channels[c], s, key)
        PROVE  Preserves(m, n)
    <3>1. /\ Sane(n)
          /\ OneSeat(e) /\ (\A t \in Sockets \ {s} : e.channels[c].participants[t] # role)
               => OneSeat(n)
          /\ OrderOK(e) => OrderOK(n)
          /\ CreatorsBounded(e) => CreatorsBounded(n)
          /\ KeysKept(e, n)
      BY <1>1, <2>4, <2>7, AdmitPreserves
    <3>2. KeysKept(m, n)
      BY <2>5, <3>1 DEF KeysKept
    <3> QED
      BY <2>1, <2>3, <2>4, <3>1, <3>2 DEF Preserves
  <2>8. Preserves(m, n)
    BY <2>2, <2>6, <2>7
  <2> QED
    BY <2>8 DEF n
<1> QED
  BY <1>2, <1>3

-----------------------------------------------------------------------------
(* The theorems *)

\* The inductive invariant.  Sane adds to the types that a reservation never refers
\* to a channel outside the map, without which a drain could touch a dropped object;
\* OrderOK adds that terminatedOrder is exact, without which its length would bound
\* nothing.
IInv ==
  /\ Sane(mgr)
  /\ now \in 0 .. MaxClock
  /\ nextId \in 0 .. MaxMessages
  /\ OneSeat(mgr)
  /\ OrderOK(mgr)
  /\ CreatorsBounded(mgr)

\* The constructor establishes the invariant: there is nothing in the tables.
LEMMA InitIInv == Init => IInv
<1> SUFFICES ASSUME Init PROVE IInv
  OBVIOUS
<1>1. /\ mgr = NewManager /\ now = 0 /\ nextId = 0
  BY DEF Init
<1>2. << >> \in Seq(Channels) /\ Len(<< >>) = 0
  OBVIOUS
<1>3. mgr \in Manager
  BY <1>1, <1>2 DEF NewManager, Manager
<1>4. \A c \in Channels : ~ Known(mgr, c)
  BY <1>1 DEF Known, NewManager
<1>5. Sane(mgr) /\ OneSeat(mgr)
  BY <1>1, <1>3, <1>4 DEF Sane, Linked, OneSeat, NewManager
<1>6. OrderOK(mgr)
  <2>1. mgr.terminatedOrder = << >> /\ MaxTombstones \in Nat
    BY <1>1, ConstantsAssumption DEF NewManager
  <2>2. Range(mgr.terminatedOrder) = {} /\ IsInjective(mgr.terminatedOrder)
    BY <2>1 DEF Range, IsInjective
  <2> QED
    BY <1>2, <1>4, <2>1, <2>2 DEF OrderOK, OrderExact, Tombstone
<1>7. CreatorsBounded(mgr)
  <2>1. \A ip \in Ips : LiveChannelsCreatedBy(mgr, ip) = {}
    BY <1>4 DEF LiveChannelsCreatedBy, Live
  <2> QED
    BY <2>1, FS_EmptySet, ConstantsAssumption DEF CreatorsBounded
<1> QED
  BY <1>1, <1>5, <1>6, <1>7, ConstantsAssumption DEF IInv

\* Every action calls one method, and every method preserves the invariants.
LEMMA NextPreserves ==
  ASSUME IInv, Next
  PROVE  /\ Preserves(mgr, mgr')
         /\ now' \in 0 .. MaxClock /\ nextId' \in 0 .. MaxMessages
<1>1. Sane(mgr) /\ now \in Nat /\ nextId \in Nat
  BY DEF IInv
<1>2. now \in 0 .. MaxClock /\ nextId \in 0 .. MaxMessages /\ MaxClock \in Nat /\ MaxMessages \in Nat
  BY ConstantsAssumption DEF IInv
<1> DEFINE Goal == /\ Preserves(mgr, mgr')
                   /\ now' \in 0 .. MaxClock /\ nextId' \in 0 .. MaxMessages
<1>3. ASSUME NEW c \in Channels, NEW s \in Sockets, NEW role \in Roles,
             NEW key \in Keys \cup {None}, NEW ip \in Ips, NEW active \in Answers,
             JoinChannel(c, s, role, key, ip, active)
      PROVE  Goal
  <2>1. active \in SUBSET Sockets
    BY DEF Answers
  <2>2. Preserves(mgr, Join(mgr, c, s, role, key, ip, active, now).mgr)
    BY <1>1, <2>1, JoinPreserves
  <2> QED
    BY <1>2, <1>3, <2>2 DEF JoinChannel
<1>4. ASSUME NEW c \in Channels, NEW s \in Sockets, LeaveChannel(c, s)
      PROVE  Goal
  <2>1. Preserves(mgr, Leave(mgr, c, s, now))
    BY <1>1, LeaveStep, StepPreserves
  <2> QED
    BY <1>2, <1>4, <2>1 DEF LeaveChannel
<1>5. ASSUME NEW c \in Channels, CloseChannel(c)
      PROVE  Goal
  <2>1. Preserves(mgr, Close(mgr, c, now))
    BY <1>1, <1>5, CloseFacts, ShrinksPreserves DEF CloseChannel
  <2> QED
    BY <1>2, <1>5, <2>1 DEF CloseChannel
<1>6. ASSUME NEW c \in Channels, NEW s \in Sockets, NEW role \in Roles,
             NEW seq \in Seqs \cup {None}, NEW size \in Sizes, NEW ip \in Ips,
             NEW receptive \in Answers,
             SendMessage(c, s, role, seq, size, ip, receptive)
      PROVE  Goal
  <2> DEFINE data == [id |-> nextId, clientType |-> role, seq |-> seq, sizeBytes |-> size]
             result == RouteMessage(mgr, c, s, data, ip, receptive, now)
  <2>1. data \in Payload /\ receptive \in SUBSET Sockets
    BY <1>1 DEF Payload, Answers
  <2>2. /\ mgr' = result.mgr /\ now' = now /\ nextId < MaxMessages
        /\ nextId' \in {nextId, nextId + 1}
    BY <1>6 DEF SendMessage
  <2> HIDE DEF data
  <2>3. Preserves(mgr, result.mgr)
    BY <1>1, <2>1, RouteMessageStep, StepPreserves
  <2> QED
    BY <1>2, <2>2, <2>3
<1>7. ASSUME NEW s \in Sockets, DropDelivery(s)
      PROVE  Goal
  <2>1. Preserves(mgr, ReleaseDirectDelivery(mgr, s))
    BY <1>1, ReleaseDirectDeliveryStep, StepPreserves
  <2> QED
    BY <1>2, <1>7, <2>1 DEF DropDelivery
<1>8. ASSUME NEW s \in Sockets, AdvanceDelivery(s)
      PROVE  Goal
  <2>1. Preserves(mgr, AdvanceDirectDelivery(mgr, s).mgr)
    BY <1>1, AdvanceDirectDeliveryStep, StepPreserves
  <2> QED
    BY <1>2, <1>8, <2>1 DEF AdvanceDelivery
<1>9. ASSUME CleanupTimer
      PROVE  Goal
  <2>1. Preserves(mgr, Cleanup(mgr, now))
    BY <1>1, CleanupFacts, ShrinksPreserves
  <2> QED
    BY <1>2, <1>9, <2>1 DEF CleanupTimer
<1>10. ASSUME Tick
       PROVE  Goal
  <2>1. Preserves(mgr, mgr)
    BY <1>1, StepReflexive, StepPreserves
  <2> QED
    BY <1>2, <1>10, <2>1 DEF Tick
<1> QED
  BY <1>3, <1>4, <1>5, <1>6, <1>7, <1>8, <1>9, <1>10 DEF Next

\* The invariant holds in every behaviour.
LEMMA Invariance == Spec => []IInv
<1>1. Init => IInv
  BY InitIInv
<1>2. IInv /\ [Next]_vars => IInv'
  <2> SUFFICES ASSUME IInv, [Next]_vars PROVE IInv'
    OBVIOUS
  <2>1. CASE Next
    <3>1. Preserves(mgr, mgr') /\ now' \in 0 .. MaxClock /\ nextId' \in 0 .. MaxMessages
      BY <2>1, NextPreserves
    <3>2. Sane(mgr)' = Sane(mgr') /\ OneSeat(mgr)' = OneSeat(mgr')
          /\ OrderOK(mgr)' = OrderOK(mgr') /\ CreatorsBounded(mgr)' = CreatorsBounded(mgr')
      BY DEF Sane, Linked, Known, OneSeat, OrderOK, OrderExact, Tombstone,
             CreatorsBounded, LiveChannelsCreatedBy, Live
    <3> QED
      BY <3>1, <3>2 DEF IInv, Preserves
  <2>2. CASE UNCHANGED vars
    BY <2>2 DEF vars, IInv, Sane, Linked, Known, OneSeat, OrderOK, OrderExact, Tombstone,
                CreatorsBounded, LiveChannelsCreatedBy, Live
  <2> QED
    BY <2>1, <2>2
<1> QED
  BY <1>1, <1>2, PTL DEF Spec

\* Every field of the manager holds a value of its type in every behaviour: no
\* sequence of calls makes a counter negative or a reservation dangle.
THEOREM TypeCorrect == Spec => []TypeOK
<1>1. IInv => TypeOK
  BY DEF IInv, Sane, TypeOK
<1> QED
  BY <1>1, Invariance, PTL

\* What the invariant says of roles.
LEMMA SeatsAreSingle == IInv => OneSocketPerRole
<1> SUFFICES ASSUME IInv, NEW c \in Channels, NEW role \in Roles, Known(mgr, c)
             PROVE  Cardinality(MembersIn(mgr.channels[c], role)) <= 1
  BY DEF OneSocketPerRole
<1> DEFINE M == MembersIn(mgr.channels[c], role)
<1>1. \A s, t \in M : s = t
  BY ConstantsAssumption DEF IInv, OneSeat, MembersIn
<1> HIDE DEF M
<1>2. CASE M = {}
  BY <1>2, FS_EmptySet DEF M
<1>3. CASE M # {}
  <2>1. PICK s \in M : TRUE
    BY <1>3
  <2>2. M = {s}
    BY <1>1, <2>1
  <2>3. Cardinality(M) = 1
    BY <2>2, FS_Singleton
  <2> QED
    BY <2>3 DEF M
<1> QED
  BY <1>2, <1>3

\* No two sockets ever hold the same role of a channel, for any number of sockets,
\* whatever isSocketActive answers when one of them asks for a role that is held.
THEOREM OneSocketPerRoleHolds == Spec => []OneSocketPerRole
BY SeatsAreSingle, Invariance, PTL

\* What it says of the eviction queue.
LEMMA OrderIsExact == IInv => TombstoneFifoIsExact
BY DEF IInv, OrderOK, OrderExact, TombstoneFifoIsExact, IsInjective

\* What it says of the creators of channels.
LEMMA CreatorsAreBounded == IInv => LiveChannelsPerCreatorBounded
BY DEF IInv, CreatorsBounded, LiveChannelsPerCreatorBounded

\* terminatedOrder lists exactly the tombstones of the map, each once, for any
\* number of channels closed, evicted, reaped and opened again.
THEOREM TombstoneFifoIsExactHolds == Spec => []TombstoneFifoIsExact
BY OrderIsExact, Invariance, PTL

\* At most MAX_TOMBSTONES terminated channels are kept, for any number of channels.
THEOREM TombstonesBoundedHolds == Spec => []TombstonesBounded
<1>1. IInv => TombstonesBounded
  <2> SUFFICES ASSUME IInv PROVE TombstonesBounded
    OBVIOUS
  <2> DEFINE q == mgr.terminatedOrder
             T == {c \in Channels : Tombstone(mgr, c)}
  <2>1. q \in Seq(Channels) /\ Len(q) <= MaxTombstones /\ Range(q) = T
    BY DEF IInv, Sane, Manager, OrderOK, OrderExact
  <2>2. q \in Surjection(1 .. Len(q), Range(q))
    BY <2>1 DEF Surjection, Range
  <2>3. IsFiniteSet(1 .. Len(q)) /\ Cardinality(1 .. Len(q)) = Len(q)
    <3>1. Len(q) \in Nat /\ 1 \in Int
      BY <2>1
    <3> QED
      BY <3>1, FS_Interval
  <2>4. Cardinality(Range(q)) <= Len(q) /\ Cardinality(Range(q)) \in Nat
    BY <2>2, <2>3, FS_Surjection, FS_CardinalityType
  <2> QED
    BY <2>1, <2>3, <2>4, ConstantsAssumption DEF TombstonesBounded
<1> QED
  BY <1>1, Invariance, PTL

\* No address has more live channels of its making than it may, for any number of
\* addresses and channels.
THEOREM LiveChannelsPerCreatorBoundedHolds == Spec => []LiveChannelsPerCreatorBounded
BY CreatorsAreBounded, Invariance, PTL

\* A bound dApp key is never changed while its channel lives, for any sequence of
\* joins, leaves, replacements and messages.
THEOREM KeyBindingIsStableHolds == Spec => KeyBindingIsStable
<1>1. IInv /\ [Next]_vars =>
        [\A c \in Channels :
           Live(mgr, c) /\ mgr.channels[c].publicKey # None /\ Live(mgr', c)
             => mgr'.channels[c].publicKey = mgr.channels[c].publicKey]_vars
  BY NextPreserves DEF Preserves, KeysKept
<1> QED
  BY <1>1, Invariance, PTL DEF Spec, KeyBindingIsStable

=============================================================================
