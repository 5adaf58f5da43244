--------------------------- MODULE ChannelManager ---------------------------
(***************************************************************************)
(* The ChannelManager class of src/relay/channelManager.ts: the table of   *)
(* relay channels, their participants and offline buffers, the tombstones  *)
(* of closed channels and the byte budgets.                                *)
(*                                                                         *)
(* The whole object is one record, mgr, and each method is an operator     *)
(* from a manager to a manager (plus its return value), because the        *)
(* handlers of the relay server call several methods in one synchronous    *)
(* turn.  Spec below calls the methods in any order, with any answers from *)
(* the isSocketActive and canSocketReceive callbacks.                      *)
(***************************************************************************)
EXTENDS Queues

CONSTANTS
  Channels,              \* channel ids
  Sockets,               \* Socket.IO socket ids, never reused
  Keys,                  \* the valid dApp public keys
  Ips,                   \* client addresses
  None,                  \* absent: null, undefined, or no entry in a Map
  Sizes,                 \* serialized message sizes
  Seqs,                  \* sequence numbers a client may send
  MaxTombstones,         \* MAX_TOMBSTONES
  MaxBufferedMessages,   \* MAX_BUFFERED_MESSAGES
  MaxChannelsPerIp,      \* RELAY_MAX_CHANNELS_PER_IP
  BytesPerChannel,       \* RELAY_MAX_BUFFERED_BYTES_PER_CHANNEL
  BytesPerIp,            \* RELAY_MAX_BUFFERED_BYTES_PER_IP
  BytesGlobal,           \* RELAY_MAX_BUFFERED_BYTES_GLOBAL
  ChannelTTL,            \* CHANNEL_TTL_MS
  BufferTTL,             \* BUFFER_TTL_MS
  TombstoneTTL,          \* TOMBSTONE_TTL_MS
  MaxClock,              \* bound: the clock stops here
  MaxMessages            \* bound: messages routed in a behaviour

Roles == {"dapp", "wallet"}
MaxParticipants == 2

ASSUME ConstantsAssumption ==
  /\ None \notin Channels \cup Sockets \cup Keys \cup Ips \cup Roles
  /\ IsFiniteSet(Channels) /\ IsFiniteSet(Sockets)
  /\ Sizes \subseteq Nat \ {0} /\ Seqs \subseteq Nat
  /\ MaxTombstones \in Nat \ {0} /\ MaxBufferedMessages \in Nat \ {0}
  /\ MaxChannelsPerIp \in Nat \ {0}
  /\ {BytesPerChannel, BytesPerIp, BytesGlobal} \subseteq Nat
  /\ {ChannelTTL, BufferTTL, TombstoneTTL, MaxClock, MaxMessages} \subseteq Nat
  /\ BufferTTL < ChannelTTL

VARIABLES
  mgr,     \* the ChannelManager object
  now,     \* Date.now()
  nextId   \* identity of the next message; ids follow arrival order

vars == <<mgr, now, nextId>>

Message == [id : Nat, targetClientType : Roles, timestamp : Nat,
            sizeBytes : Sizes, sourceIp : Ips]

Channel == [participants : [Sockets -> Roles \cup {None}],
            lastActivity : Nat,
            messageBuffer : Seq(Message),
            bufferedBytes : Nat,
            directInflightBytes : Nat,
            seqNumbers : [Sockets -> Nat \cup {-1}],
            publicKey : Keys \cup {None},
            terminated : BOOLEAN,
            terminatedAt : Nat,
            creatorIp : Ips]

\* A reservation holds a reference to the channel object; channel = None
\* when that object has been dropped from the channels map since.
Reservation == [channel : Channels \cup {None}, sourceIp : Ips, sizeBytes : Sizes]

Manager == [channels : [Channels -> Channel \cup {None}],
            terminatedOrder : Seq(Channels),
            directDeliveries : [Sockets -> Reservation \cup {None}],
            totalBufferedBytes : Nat,
            totalDirectInflightBytes : Nat,
            bufferedBytesByIp : [Ips -> Nat]]

\* The program tells undefined from an object.
ASSUME NoneIsNoObject ==
  None \notin Message /\ None \notin Channel /\ None \notin Reservation

\* The manager as its constructor leaves it.
NewManager ==
  [channels |-> [c \in Channels |-> None],
   terminatedOrder |-> << >>,
   directDeliveries |-> [s \in Sockets |-> None],
   totalBufferedBytes |-> 0,
   totalDirectInflightBytes |-> 0,
   bufferedBytesByIp |-> [ip \in Ips |-> 0]]

\* Operators named Definition_Mistake, here and below, are faulty variants of the
\* definition that follows them.  The specification never uses one; each shows
\* that some property notices the mistake.

NewChannel_NoCreator(ip, time) ==
  [participants |-> [s \in Sockets |-> None],
   lastActivity |-> time,
   messageBuffer |-> << >>,
   bufferedBytes |-> 0,
   directInflightBytes |-> 0,
   seqNumbers |-> [s \in Sockets |-> -1],
   publicKey |-> None,
   terminated |-> FALSE,
   terminatedAt |-> 0,
   creatorIp |-> None]

\* A channel as the first join creates it.
NewChannel(ip, time) ==
  [participants |-> [s \in Sockets |-> None],
   lastActivity |-> time,
   messageBuffer |-> << >>,
   bufferedBytes |-> 0,
   directInflightBytes |-> 0,
   seqNumbers |-> [s \in Sockets |-> -1],
   publicKey |-> None,
   terminated |-> FALSE,
   terminatedAt |-> 0,
   creatorIp |-> ip]

Known(m, c) == m.channels[c] # None
Tombstone(m, c) == Known(m, c) /\ m.channels[c].terminated
Live(m, c) == Known(m, c) /\ ~m.channels[c].terminated

Members(ch) == {s \in Sockets : ch.participants[s] # None}
MembersIn(ch, role) == {s \in Sockets : ch.participants[s] = role}
OtherRole(role) == IF role = "dapp" THEN "wallet" ELSE "dapp"
For(q, role) == {m \in Range(q) : m.targetClientType = role}

LiveChannelsCreatedBy(m, ip) ==
  {c \in Channels : Live(m, c) /\ m.channels[c].creatorIp = ip}

\* getActiveChannelCount
ActiveChannels(m) == {c \in Channels : Live(m, c)}

-----------------------------------------------------------------------------
(* Byte accounting and the one in-flight delivery per target socket. *)

BytesFrom(q, ip) == Bytes(Keep(q, {m \in Range(q) : m.sourceIp = ip}))

\* releaseBufferedBytes of every message in q, all of channel c.
ReleaseBuffered(m, c, q) ==
  [m EXCEPT !.channels[c].bufferedBytes = Minus(@, Bytes(q)),
            !.totalBufferedBytes = Minus(@, Bytes(q)),
            !.bufferedBytesByIp = [ip \in Ips |-> Minus(@[ip], BytesFrom(q, ip))]]

\* Drop the reservation of s and give its bytes back.
ReleaseDirectDelivery(m, s) ==
  LET r == m.directDeliveries[s]
      released == [m EXCEPT !.directDeliveries[s] = None,
                            !.totalDirectInflightBytes = Minus(@, r.sizeBytes),
                            !.bufferedBytesByIp[r.sourceIp] = Minus(@, r.sizeBytes)]
  IN  IF r = None THEN m
      ELSE IF r.channel = None THEN released
      ELSE [released EXCEPT
              !.channels[r.channel].directInflightBytes = Minus(@, r.sizeBytes)]

\* Set the reservation of target and account for it.
ReserveDirect(m, target, c, ip, size) ==
  [m EXCEPT !.directDeliveries[target] =
              [channel |-> c, sourceIp |-> ip, sizeBytes |-> size],
            !.channels[c].directInflightBytes = @ + size,
            !.totalDirectInflightBytes = @ + size,
            !.bufferedBytesByIp[ip] = @ + size]

\* The buffered messages the drain of s may promote: those of the channel
\* object its reservation refers to, not of the channel s is in now.
Promotable(m, s) ==
  LET r == m.directDeliveries[s]
      ch == m.channels[r.channel]
  IN  IF r = None \/ r.channel = None \/ ch.terminated THEN {}
      ELSE For(ch.messageBuffer, ch.participants[s])

AdvanceDirectDelivery_NeverPromotes(m, s) ==
  [mgr |-> ReleaseDirectDelivery(m, s), next |-> None]

\* advanceDirectDelivery: next is the message to emit, or None.
AdvanceDirectDelivery(m, s) ==
  LET c == m.directDeliveries[s].channel
      released == ReleaseDirectDelivery(m, s)
      next == First(m.channels[c].messageBuffer, Promotable(m, s))
      spliced == [released EXCEPT !.channels[c].messageBuffer =
                    Keep(@, Range(@) \ {next})]
  IN  IF Promotable(m, s) = {} THEN [mgr |-> released, next |-> None]
      ELSE [mgr |-> ReserveDirect(ReleaseBuffered(spliced, c, <<next>>),
                                  s, c, next.sourceIp, next.sizeBytes),
            next |-> next]

-----------------------------------------------------------------------------
(* join *)

\* A wallet's key is ignored.
BoundKey(role, key) == IF role = "dapp" THEN key ELSE None

Rivals_SwappedRole(m, c, s, role) ==
  IF Known(m, c) THEN MembersIn(m.channels[c], OtherRole(role)) \ {s} ELSE {}

\* Sockets other than s that hold the role s asks for.
Rivals(m, c, s, role) ==
  IF Known(m, c) THEN MembersIn(m.channels[c], role) \ {s} ELSE {}

JoinRefusedAtOnce_OffByOne(m, c, s, role, key, ip, active) ==
  \/ ~Known(m, c) /\ Cardinality(LiveChannelsCreatedBy(m, ip)) > MaxChannelsPerIp
  \/ /\ Known(m, c)
     /\ \/ role = "dapp" /\ m.channels[c].publicKey # None /\ key = None
        \/ m.channels[c].participants[s] \notin {None, role}
        \/ Rivals(m, c, s, role) \cap active # {}

\* The refusals that leave the manager as it was.
JoinRefusedAtOnce(m, c, s, role, key, ip, active) ==
  \/ ~Known(m, c) /\ Cardinality(LiveChannelsCreatedBy(m, ip)) >= MaxChannelsPerIp
  \/ /\ Known(m, c)
     /\ \/ role = "dapp" /\ m.channels[c].publicKey # None /\ key = None
        \/ m.channels[c].participants[s] \notin {None, role}
        \/ Rivals(m, c, s, role) \cap active # {}

\* Remove the stale holder of the role, if any.
EvictRival(m, c, s, role) ==
  LET rival == CHOOSE t \in Rivals(m, c, s, role) : TRUE
  IN  IF Rivals(m, c, s, role) = {} THEN m
      ELSE ReleaseDirectDelivery(
             [m EXCEPT !.channels[c] = [@ EXCEPT !.participants[rival] = None,
                                                 !.seqNumbers[rival] = -1]], rival)

JoinRefusedLate_IgnoresKey(ch, s, key) ==
  s \notin Members(ch) /\ Cardinality(Members(ch)) >= MaxParticipants

\* The refusals that come after a stale holder has been removed.
JoinRefusedLate(ch, s, key) ==
  \/ s \notin Members(ch) /\ Cardinality(Members(ch)) >= MaxParticipants
  \/ key # None /\ ch.publicKey \notin {None, key}

\* Add the participant, bind the key, take mine out of the buffer.
Seat(ch, s, role, key, time, mine) ==
  [ch EXCEPT !.participants[s] = role,
             !.publicKey = IF key # None THEN key ELSE @,
             !.lastActivity = time,
             !.messageBuffer = Keep(@, Range(@) \ mine)]

Admit_KeepsBuffer(m, c, s, role, key, time) ==
  [mgr |-> [m EXCEPT !.channels[c] = Seat(@, s, role, key, time, {})],
   reply |-> "success", bufferedMessages |-> << >>]

\* The participant gets what was buffered for its role.
Admit(m, c, s, role, key, time) ==
  LET ch == m.channels[c]
      mine == For(ch.messageBuffer, role)
      drained == Keep(ch.messageBuffer, mine)
      joined == [m EXCEPT !.channels[c] = Seat(@, s, role, key, time, mine)]
  IN  [mgr |-> ReleaseBuffered(joined, c, drained), reply |-> "success",
       bufferedMessages |-> drained]

Join(m, c, s, role, publicKey, ip, active, time) ==
  LET key == BoundKey(role, publicKey)
      opened == IF Known(m, c) THEN m ELSE [m EXCEPT !.channels[c] = NewChannel(ip, time)]
      evicted == EvictRival(opened, c, s, role)
      Answer(newMgr, reply) ==
        [mgr |-> newMgr, reply |-> reply, bufferedMessages |-> << >>]
  IN  CASE Tombstone(m, c) -> Answer(m, "terminated")
        [] ~Tombstone(m, c) /\ JoinRefusedAtOnce(m, c, s, role, key, ip, active)
             -> Answer(m, "error")
        [] OTHER -> IF JoinRefusedLate(evicted.channels[c], s, key)
                    THEN Answer(evicted, "error")
                    ELSE Admit(evicted, c, s, role, key, time)

-----------------------------------------------------------------------------
(* leave, close, cleanup *)

IsMember(m, c, s) == Known(m, c) /\ m.channels[c].participants[s] # None

Leave_ReleasesDelivery(m, c, s, time) ==
  IF ~IsMember(m, c, s) THEN m
  ELSE ReleaseDirectDelivery(
         [m EXCEPT !.channels[c] = [@ EXCEPT !.participants[s] = None,
                                             !.seqNumbers[s] = -1,
                                             !.lastActivity = time]], s)

\* The in-flight delivery of s, if any, stays reserved until its drain.
Leave(m, c, s, time) ==
  IF ~IsMember(m, c, s) THEN m
  ELSE [m EXCEPT !.channels[c] = [@ EXCEPT !.participants[s] = None,
                                           !.seqNumbers[s] = -1,
                                           !.lastActivity = time]]

\* channels.delete of every id in gone; reservations keep the dead object.
Forget(m, gone) ==
  [m EXCEPT
    !.channels = [c \in Channels |-> IF c \in gone THEN None ELSE @[c]],
    !.directDeliveries = [s \in Sockets |->
        IF @[s] # None /\ @[s].channel \in gone
        THEN [@[s] EXCEPT !.channel = None] ELSE @[s]]]

\* The tombstone left by close.
Hollow(ch, time) ==
  [ch EXCEPT !.terminated = TRUE, !.terminatedAt = time, !.lastActivity = time,
             !.messageBuffer = << >>,
             !.participants = [s \in Sockets |-> None],
             !.seqNumbers = [s \in Sockets |-> -1],
             !.publicKey = None]

Close_EvictsYoungest(m, c, time) ==
  LET order == Append(m.terminatedOrder, c)
      stale == order[Len(order) - 1]
      hollowed == [ReleaseBuffered(m, c, m.channels[c].messageBuffer) EXCEPT
                     !.channels[c] = Hollow(@, time), !.terminatedOrder = order]
  IN  IF Len(order) <= MaxTombstones THEN hollowed
      ELSE Forget([hollowed EXCEPT !.terminatedOrder = Keep(@, Channels \ {stale})], {stale})

\* close returned true: the channel was live.
Close(m, c, time) ==
  LET buffer == m.channels[c].messageBuffer
      order == Append(m.terminatedOrder, c)
      hollowed == [ReleaseBuffered(m, c, buffer) EXCEPT
                     !.channels[c] = Hollow(@, time),
                     !.terminatedOrder = order]
      stale == Head(order)
  IN  IF Len(order) <= MaxTombstones THEN hollowed
      ELSE Forget([hollowed EXCEPT !.terminatedOrder = Tail(@)],
                  IF Tombstone(hollowed, stale) THEN {stale} ELSE {})

\* The buffered messages of c a cleanup drops, in order.
Expired(m, c, time) ==
  Keep(m.channels[c].messageBuffer,
       {x \in Range(m.channels[c].messageBuffer) : time - x.timestamp >= BufferTTL})

\* The channel without the messages in lost.
Shed(ch, lost) ==
  [ch EXCEPT !.messageBuffer = Keep(@, Range(@) \ Range(lost)),
             !.bufferedBytes = Minus(@, Bytes(lost))]

ExpireBuffers_KeepsIpBytes(m, time) ==
  LET known == {c \in Channels : Known(m, c)}
      lost == [c \in known |-> Expired(m, c, time)]
  IN  [m EXCEPT
        !.channels = [c \in Channels |->
          IF c \notin known THEN None
          ELSE Shed(@[c], lost[c])],
        !.totalBufferedBytes =
          Minus(@, SumFunction([c \in known |-> Bytes(lost[c])]))]

\* Expire buffered messages and release their bytes from every bucket.
ExpireBuffers(m, time) ==
  LET known == {c \in Channels : Known(m, c)}
      lost == [c \in known |-> Expired(m, c, time)]
  IN  [m EXCEPT
        !.channels = [c \in Channels |->
          IF c \notin known THEN None
          ELSE Shed(@[c], lost[c])],
        !.totalBufferedBytes =
          Minus(@, SumFunction([c \in known |-> Bytes(lost[c])])),
        !.bufferedBytesByIp = [ip \in Ips |->
          Minus(@[ip], SumFunction([c \in known |-> BytesFrom(lost[c], ip)]))]]

\* The channels one cleanup deletes.
Reaped(m, time) ==
  {c \in Channels :
     \/ Tombstone(m, c) /\ time - m.channels[c].terminatedAt > TombstoneTTL
     \/ /\ Live(m, c) /\ Members(m.channels[c]) = {}
        /\ time - m.channels[c].lastActivity > ChannelTTL}

Cleanup_KeepsOrder(m, time) ==
  Forget(ExpireBuffers(m, time), Reaped(m, time))

\* The whole of one cleanup.
Cleanup(m, time) ==
  LET kept == Forget(ExpireBuffers(m, time), Reaped(m, time))
  IN  [kept EXCEPT !.terminatedOrder = Keep(@, {c \in Channels : Known(kept, c)})]

-----------------------------------------------------------------------------
(* routeMessage.  data is the payload: id stands for its contents, seq is  *)
(* None when the client sent no sequence number.                           *)

Payload == [id : Nat, clientType : Roles, seq : Seqs \cup {None}, sizeBytes : Sizes]

\* Refusals before any state is touched.
Unroutable(m, c, s, data) ==
  \/ ~Live(m, c)
  \/ m.channels[c].participants[s] # data.clientType

IsReplay_OnlyDuplicates(ch, s, data) ==
  data.seq # None /\ data.seq = ch.seqNumbers[s]

IsReplay(ch, s, data) == data.seq # None /\ data.seq <= ch.seqNumbers[s]

\* The other participant of the channel, or None.
Counterparty(ch, s) ==
  LET others == Members(ch) \ {s}
  IN  IF others = {} THEN None ELSE CHOOSE t \in others : TRUE

\* The direct path: one delivery per target, inside every byte budget.
CanSendDirect(m, c, target, ip, size, receptive) ==
  /\ target \in receptive
  /\ m.directDeliveries[target] = None
  /\ m.channels[c].bufferedBytes + m.channels[c].directInflightBytes + size <= BytesPerChannel
  /\ m.bufferedBytesByIp[ip] + size <= BytesPerIp
  /\ m.totalBufferedBytes + m.totalDirectInflightBytes + size <= BytesGlobal

\* The entry a full buffer gives up, as a sequence of at most one message.
Displaced(ch) ==
  IF Len(ch.messageBuffer) >= MaxBufferedMessages THEN <<Head(ch.messageBuffer)>> ELSE << >>

FitsBuffer_IgnoresInflight(m, c, ip, size) ==
  LET ch == m.channels[c]
      out == Displaced(ch)
  IN  /\ ch.bufferedBytes - Bytes(out) + size <= BytesPerChannel
      /\ m.bufferedBytesByIp[ip] - BytesFrom(out, ip) + size <= BytesPerIp
      /\ m.totalBufferedBytes - Bytes(out) + size <= BytesGlobal

\* The budgets once the displaced entry is gone and the new one is in.
FitsBuffer(m, c, ip, size) ==
  LET ch == m.channels[c]
      out == Displaced(ch)
  IN  /\ ch.bufferedBytes + ch.directInflightBytes - Bytes(out) + size <= BytesPerChannel
      /\ m.bufferedBytesByIp[ip] - BytesFrom(out, ip) + size <= BytesPerIp
      /\ m.totalBufferedBytes + m.totalDirectInflightBytes - Bytes(out) + size <= BytesGlobal

Enqueue(ch, message) ==
  [ch EXCEPT !.messageBuffer = Append(@, message), !.bufferedBytes = @ + message.sizeBytes]

\* Give up the displaced entry and append the message.
BufferMessage(m, c, data, ip, time) ==
  LET out == Displaced(m.channels[c])
      shifted == [m EXCEPT !.channels[c].messageBuffer = SubSeq(@, Len(out) + 1, Len(@))]
      message == [id |-> data.id, targetClientType |-> OtherRole(data.clientType),
                  timestamp |-> time, sizeBytes |-> data.sizeBytes, sourceIp |-> ip]
  IN  [ReleaseBuffered(shifted, c, out) EXCEPT
        !.channels[c] = Enqueue(@, message),
        !.totalBufferedBytes = @ + data.sizeBytes,
        !.bufferedBytesByIp[ip] = @ + data.sizeBytes]

\* An accepted message advances the sender's sequence number.
TakeSeq(m, c, s, data) ==
  IF data.seq = None THEN m ELSE [m EXCEPT !.channels[c].seqNumbers[s] = data.seq]

RouteMessage_DisplacesFirst(m, c, s, data, ip, receptive, time) ==
  LET touched == [m EXCEPT !.channels[c].lastActivity = time]
      target == Counterparty(m.channels[c], s)
      size == data.sizeBytes
      out == Displaced(m.channels[c])
      shifted == [touched EXCEPT !.channels[c].messageBuffer = SubSeq(@, Len(out) + 1, Len(@))]
      Answer(newMgr, status, t) == [mgr |-> newMgr, status |-> status, target |-> t]
  IN  CASE Unroutable(m, c, s, data) -> Answer(m, "error", None)
        [] ~Unroutable(m, c, s, data) /\ IsReplay(m.channels[c], s, data) ->
             Answer(touched, "error", None)
        [] OTHER ->
             IF CanSendDirect(m, c, target, ip, size, receptive)
             THEN Answer(TakeSeq(ReserveDirect(touched, target, c, ip, size), c, s, data),
                         "direct", target)
             ELSE IF FitsBuffer(m, c, ip, size)
             THEN Answer(TakeSeq(BufferMessage(touched, c, data, ip, time), c, s, data),
                         "buffered", target)
             ELSE Answer(ReleaseBuffered(shifted, c, out), "error", target)

\* status is "direct", "buffered" or "error"; target is the socket to emit to
\* when direct, and backpressuredSocketId otherwise.
RouteMessage(m, c, s, data, ip, receptive, time) ==
  LET touched == [m EXCEPT !.channels[c].lastActivity = time]
      target == Counterparty(m.channels[c], s)
      size == data.sizeBytes
      Answer(newMgr, status, t) == [mgr |-> newMgr, status |-> status, target |-> t]
  IN  CASE Unroutable(m, c, s, data) -> Answer(m, "error", None)
        [] ~Unroutable(m, c, s, data) /\ IsReplay(m.channels[c], s, data) ->
             Answer(touched, "error", None)
        [] OTHER ->
             IF CanSendDirect(m, c, target, ip, size, receptive)
             THEN Answer(TakeSeq(ReserveDirect(touched, target, c, ip, size), c, s, data),
                         "direct", target)
             ELSE IF FitsBuffer(m, c, ip, size)
             THEN Answer(TakeSeq(BufferMessage(touched, c, data, ip, time), c, s, data),
                         "buffered", target)
             ELSE Answer(touched, "error", target)

-----------------------------------------------------------------------------
(* The manager on its own: its methods called in any order. *)

JoinChannel(c, s, role, key, ip, active) ==
  /\ mgr' = Join(mgr, c, s, role, key, ip, active, now).mgr
  /\ UNCHANGED <<now, nextId>>

LeaveChannel(c, s) ==
  /\ mgr' = Leave(mgr, c, s, now)
  /\ UNCHANGED <<now, nextId>>

CloseChannel(c) ==
  /\ Live(mgr, c)
  /\ mgr' = Close(mgr, c, now)
  /\ UNCHANGED <<now, nextId>>

SendMessage(c, s, role, seq, size, ip, receptive) ==
  /\ nextId < MaxMessages
  /\ LET data == [id |-> nextId, clientType |-> role, seq |-> seq, sizeBytes |-> size]
         result == RouteMessage(mgr, c, s, data, ip, receptive, now)
     IN  /\ mgr' = result.mgr
         /\ nextId' = IF result.status = "error" THEN nextId ELSE nextId + 1
  /\ UNCHANGED now

DropDelivery(s) ==
  /\ mgr' = ReleaseDirectDelivery(mgr, s)
  /\ UNCHANGED <<now, nextId>>

AdvanceDelivery(s) ==
  /\ mgr' = AdvanceDirectDelivery(mgr, s).mgr
  /\ UNCHANGED <<now, nextId>>

CleanupTimer ==
  /\ mgr' = Cleanup(mgr, now)
  /\ UNCHANGED <<now, nextId>>

Tick ==
  /\ now < MaxClock
  /\ now' = now + 1
  /\ UNCHANGED <<mgr, nextId>>

\* What isSocketActive and canSocketReceive say of the one socket a call asks
\* about: at most one rival and one counterparty are ever looked up.
Answers == {{}, Sockets}

Init ==
  /\ mgr = NewManager
  /\ now = 0
  /\ nextId = 0

Next ==
  \/ \E c \in Channels, s \in Sockets, role \in Roles, key \in Keys \cup {None},
        ip \in Ips, active \in Answers : JoinChannel(c, s, role, key, ip, active)
  \/ \E c \in Channels, s \in Sockets : LeaveChannel(c, s)
  \/ \E c \in Channels : CloseChannel(c)
  \/ \E c \in Channels, s \in Sockets, role \in Roles, seq \in Seqs \cup {None},
        size \in Sizes, ip \in Ips, receptive \in Answers :
          SendMessage(c, s, role, seq, size, ip, receptive)
  \/ \E s \in Sockets : DropDelivery(s)
  \/ \E s \in Sockets : AdvanceDelivery(s)
  \/ CleanupTimer
  \/ Tick

Spec == Init /\ [][Next]_vars

-----------------------------------------------------------------------------
(* Properties *)

\* Every field holds a value of its type.
TypeOK ==
  /\ mgr \in Manager
  /\ now \in 0 .. MaxClock
  /\ nextId \in 0 .. MaxMessages

\* At most one socket holds each role of a channel, whatever order sockets
\* join, are replaced as stale, leave and come back in (join's "already
\* connected" test).  A channel therefore never holds three participants, and
\* "the other participant" that routeMessage looks for is unique.
OneSocketPerRole ==
  \A c \in Channels, role \in Roles :
    Known(mgr, c) => Cardinality(MembersIn(mgr.channels[c], role)) <= 1

\* terminatedOrder lists every tombstone in the map once, and nothing else: the
\* TTL cleanup, eviction and repeated closes never leave it with a phantom or a
\* duplicate that would evict a younger tombstone, nor lose one that could then
\* never be evicted.
TombstoneFifoIsExact ==
  /\ Range(mgr.terminatedOrder) = {c \in Channels : Tombstone(mgr, c)}
  /\ \A i, j \in DOMAIN mgr.terminatedOrder :
       mgr.terminatedOrder[i] = mgr.terminatedOrder[j] => i = j

\* However fast channels are created and closed, at most MAX_TOMBSTONES
\* terminated channels stay in the map.
TombstonesBounded ==
  Cardinality({c \in Channels : Tombstone(mgr, c)}) <= MaxTombstones

\* No address ever owns more than its share of live channels, although closing,
\* reaping and re-creating the same id moves channels between owners.
LiveChannelsPerCreatorBounded ==
  \A ip \in Ips : Cardinality(LiveChannelsCreatedBy(mgr, ip)) <= MaxChannelsPerIp

KnownChannels == {c \in Channels : Known(mgr, c)}
Reserved == {s \in Sockets : mgr.directDeliveries[s] # None}

\* The running byte counters are exactly the bytes retained: per channel, per
\* address and in total, across direct delivery, buffering, displacement,
\* promotion, expiry, close and deletion.  The Math.max(0, ...) clamps therefore
\* never hide a leak or a double release.
BytesAreExact ==
  LET inflight(S) == SumFunction([s \in S |-> mgr.directDeliveries[s].sizeBytes])
      buffered(c) == Bytes(mgr.channels[c].messageBuffer)
  IN  /\ \A c \in KnownChannels :
           /\ mgr.channels[c].bufferedBytes = buffered(c)
           /\ mgr.channels[c].directInflightBytes =
                inflight({s \in Reserved : mgr.directDeliveries[s].channel = c})
      /\ mgr.totalBufferedBytes = SumFunction([c \in KnownChannels |-> buffered(c)])
      /\ mgr.totalDirectInflightBytes = inflight(Reserved)
      /\ \A ip \in Ips :
           mgr.bufferedBytesByIp[ip] =
             inflight({s \in Reserved : mgr.directDeliveries[s].sourceIp = ip})
             + SumFunction([c \in KnownChannels |-> BytesFrom(mgr.channels[c].messageBuffer, ip)])

\* Bytes held for a channel, for an address and in total, buffered and in flight
\* together, never exceed their budgets, also when a full buffer displaces its
\* oldest entry or a drain moves a message from the buffer into flight.
BudgetsHold ==
  /\ \A c \in KnownChannels :
       /\ mgr.channels[c].bufferedBytes + mgr.channels[c].directInflightBytes <= BytesPerChannel
       /\ Len(mgr.channels[c].messageBuffer) <= MaxBufferedMessages
  /\ \A ip \in Ips : mgr.bufferedBytesByIp[ip] <= BytesPerIp
  /\ mgr.totalBufferedBytes + mgr.totalDirectInflightBytes <= BytesGlobal

\* Once a dApp key is bound, no join, leave, replacement or message changes it:
\* it goes away only with the channel, by close or by cleanup.
KeyBindingIsStable ==
  [][\A c \in Channels :
       Live(mgr, c) /\ mgr.channels[c].publicKey # None /\ Live(mgr', c)
         => mgr'.channels[c].publicKey = mgr.channels[c].publicKey]_vars

\* A closed channel never comes back to life in one step, and its tombstone goes
\* only when it outlived TOMBSTONE_TTL_MS or when MAX_TOMBSTONES channels were
\* closed after it: eviction never takes a younger tombstone first.
TombstonesLast ==
  [][\A c \in Channels : Tombstone(mgr, c) =>
       \/ Tombstone(mgr', c) /\ mgr'.channels[c].terminatedAt = mgr.channels[c].terminatedAt
       \/ /\ ~Known(mgr', c)
          /\ \/ now - mgr.channels[c].terminatedAt > TombstoneTTL
             \/ /\ Len(mgr.terminatedOrder) = MaxTombstones
                /\ c = Head(mgr.terminatedOrder)]_vars

\* The messages of c that are in its buffer in m and no longer in n.
Gone(m, n, c) ==
  {x \in Range(m.channels[c].messageBuffer) :
     ~Known(n, c) \/ x \notin Range(n.channels[c].messageBuffer)}

\* s holds, in n, the role x of channel c is addressed to.
Addressee(n, c, x, s) == Known(n, c) /\ n.channels[c].participants[s] = x.targetClientType

\* x was the oldest of a full buffer, a message has been accepted, and that message
\* stands in the buffer in its stead.
MakesRoom(c, x) ==
  LET before == mgr.channels[c].messageBuffer
      after == mgr'.channels[c].messageBuffer
  IN  /\ nextId' = nextId + 1
      /\ x = Head(before) /\ Len(before) = MaxBufferedMessages
      /\ Len(after) = Len(before) /\ after[Len(after)].id = nextId

\* x is what the drain of s gives it to emit, or one of the messages the join of s
\* returns to it.
HandsOver(c, s, x) ==
  \/ AdvanceDelivery(s) /\ x = AdvanceDirectDelivery(mgr, s).next
  \/ \E role \in Roles, key \in Keys \cup {None}, ip \in Ips, active \in Answers :
       /\ x \in Range(Join(mgr, c, s, role, key, ip, active, now).bufferedMessages)
       /\ JoinChannel(c, s, role, key, ip, active)

\* A message leaves the buffer of a live channel in four ways only: as the oldest of
\* a full buffer, to the message accepted in this very call; to a cleanup, once it is
\* BUFFER_TTL_MS old, also when the cleanup deletes the whole channel; with the close
\* of its channel; or by being given, in this very call, to a participant that holds
\* the role it is addressed to.  A refused message, one that is delivered directly
\* and a refused join therefore displace nothing, and neither does a leave or a
\* delivery that is given up.
BufferedMessagesAreNotDropped ==
  [][\A c \in Channels : Live(mgr, c) => \A x \in Gone(mgr, mgr', c) :
       /\ \/ MakesRoom(c, x)
          \/ now - x.timestamp >= BufferTTL /\ CleanupTimer
          \/ CloseChannel(c)
          \/ \E s \in Sockets : Addressee(mgr', c, x, s) /\ HandsOver(c, s, x)
       /\ ~\E d \in Channels, s \in Sockets : LeaveChannel(d, s)
       /\ ~\E s \in Sockets : DropDelivery(s)]_vars

\* A sender's sequence number moves forward only with a message that was taken,
\* and back only when the sender leaves or is replaced: a refused message can be
\* sent again with the same number.
SeqOnlyAdvancesWithMessage ==
  [][\A c \in Channels, s \in Sockets :
       Live(mgr, c) /\ Live(mgr', c) =>
         LET before == mgr.channels[c]
             after == mgr'.channels[c]
         IN  /\ after.seqNumbers[s] > before.seqNumbers[s] => nextId' = nextId + 1
             /\ after.seqNumbers[s] < before.seqNumbers[s] => s \notin Members(after)]_vars

=============================================================================
