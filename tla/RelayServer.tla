----------------------------- MODULE RelayServer -----------------------------
(***************************************************************************)
(* The Socket.IO relay of src/relay/relayServer.ts around the channel      *)
(* manager: connections, rooms, the join_channel, message, leave_channel,  *)
(* close_channel and disconnect handlers, and the drain/ready listeners    *)
(* that pace direct deliveries by the transport.                           *)
(*                                                                         *)
(* JavaScript runs a handler up to its first await without interruption.   *)
(* join_channel awaits socket.join; with the in-memory adapter the server  *)
(* uses, the promise settles at once, so before the handler resumes only   *)
(* handlers the same socket's packets have already queued can run.  joining *)
(* marks that window.                                                      *)
(***************************************************************************)
EXTENDS ChannelManager

CONSTANTS
  Address,           \* the client address of each socket
  MaxActiveChannels, \* RELAY_MAX_ACTIVE_CHANNELS
  Transports,        \* the transports clients connect with
  Upgrades,          \* whether clients upgrade from polling to websocket
  ControlTraffic     \* whether acks, pings and presence events use the transport too

ASSUME RelayAssumption ==
  /\ Address \in [Sockets -> Ips]
  /\ MaxActiveChannels \in Nat \ {0}
  /\ Transports \subseteq {"polling", "websocket"} /\ Transports # {}
  /\ Upgrades \in BOOLEAN /\ ControlTraffic \in BOOLEAN

VARIABLES
  status,            \* io.sockets.sockets: "new", "open" or "closed"
  currentChannelId,  \* per connection
  joining,           \* the join_channel call waiting for socket.join, or None
  rooms,             \* Socket.IO room membership
  transport,         \* the Engine.IO transport under each socket
  listeners,         \* directTransportListeners
  delivered,         \* history: ids handed to each role of each channel
  crossed            \* history: channels joined by a socket whose in-flight
                     \* delivery belonged to another channel

relayVars == <<status, currentChannelId, joining, rooms, transport, listeners,
               delivered, crossed>>
allVars == <<vars, relayVars>>

\* phase "busy": a write is in progress; "drained": it has drained but the
\* transport takes no new write yet; "ready": writable.
Transport == [kind : {"polling", "websocket"}, phase : {"ready", "busy", "drained"}]
NoTransport == [kind |-> "polling", phase |-> "ready"]
Listener == [kind : {"polling", "websocket"}, event : {"drain", "ready"}]
PendingJoin == [channel : Channels, role : Roles, key : Keys \cup {None},
                switching : BOOLEAN]

\* The program tells undefined from an object.
ASSUME NoneIsNoRecord == None \notin PendingJoin /\ None \notin Listener

RelayInit ==
  /\ Init
  /\ status = [s \in Sockets |-> "new"]
  /\ currentChannelId = [s \in Sockets |-> None]
  /\ joining = [s \in Sockets |-> None]
  /\ rooms = [c \in Channels |-> {}]
  /\ transport = [s \in Sockets |-> NoTransport]
  /\ listeners = [s \in Sockets |-> None]
  /\ delivered = [c \in Channels |-> [role \in Roles |-> << >>]]
  /\ crossed = {}

OpenSockets == {s \in Sockets : status[s] = "open"}

\* canSocketReceive
Receptive ==
  {s \in OpenSockets : transport[s].phase = "ready" /\ listeners[s] = None}

\* A handler of s may start: s is connected and no other socket's handler is
\* waiting to resume.
MayRun(s) == status[s] = "open" /\ \A t \in Sockets \ {s} : joining[t] = None

\* No handler is waiting to resume: timers and I/O events may run.
Quiet == \A s \in Sockets : joining[s] = None

Enter(c, s) == [rooms EXCEPT ![c] = @ \cup {s}]
Exit(r, c, s) == [r EXCEPT ![c] = @ \ {s}]

\* A faulty variant of the next definition (see ChannelManager).
Forsake_KeepsMembership(m, s) == ReleaseDirectDelivery(m, s)

\* The manager's part of the disconnect handler.
Forsake(m, s) ==
  LET released == ReleaseDirectDelivery(m, s)
  IN  IF currentChannelId[s] = None THEN released
      ELSE Leave(released, currentChannelId[s], s, now)

\* The server's part: the sockets in gone are closed, out of every room, and
\* their listeners removed.  Their connection variables and transports go too.
Disconnected(gone) ==
  /\ status' = [s \in Sockets |-> IF s \in gone THEN "closed" ELSE status[s]]
  /\ rooms' = [c \in Channels |-> rooms[c] \ gone]
  /\ listeners' = [s \in Sockets |-> IF s \in gone THEN None ELSE listeners[s]]
  /\ currentChannelId' = [s \in Sockets |-> IF s \in gone THEN None ELSE currentChannelId[s]]
  /\ transport' = [s \in Sockets |-> IF s \in gone THEN NoTransport ELSE transport[s]]

-----------------------------------------------------------------------------
Connect(s) ==
  /\ Quiet /\ status[s] = "new"
  /\ \E kind \in Transports :
       transport' = [transport EXCEPT ![s] = [kind |-> kind, phase |-> "ready"]]
  /\ status' = [status EXCEPT ![s] = "open"]
  /\ UNCHANGED <<vars, currentChannelId, joining, rooms, listeners, delivered, crossed>>

Disconnect(s) ==
  /\ Quiet /\ status[s] = "open"
  /\ Disconnected({s})
  /\ mgr' = Forsake(mgr, s)
  /\ UNCHANGED <<now, nextId, joining, delivered, crossed>>

-----------------------------------------------------------------------------
(* join_channel *)

Admissible_OffByOne(c) ==
  Known(mgr, c) \/ Cardinality(ActiveChannels(mgr)) <= MaxActiveChannels

\* The channel capacity test, made before the await.
Admissible(c) == Known(mgr, c) \/ Cardinality(ActiveChannels(mgr)) < MaxActiveChannels

\* From channelManager.join to the end of the handler.  joinedRoom: the handler
\* entered the room of c itself and leaves it again when the join fails.
FinishJoin(s, c, role, key, switching, joinedRoom) ==
  LET result == Join(mgr, c, s, role, key, Address[s], OpenSockets, now)
      previous == currentChannelId[s]
      moves == switching /\ previous # None
      inflight == mgr.directDeliveries[s]
  IN  /\ joining' = [joining EXCEPT ![s] = None]
      /\ \/ /\ result.reply # "success"
            /\ mgr' = result.mgr
            /\ rooms' = IF joinedRoom THEN Exit(rooms, c, s) ELSE rooms
            /\ UNCHANGED <<currentChannelId, delivered, crossed>>
         \/ /\ result.reply = "success"
            /\ mgr' = IF moves THEN Leave(result.mgr, previous, s, now) ELSE result.mgr
            /\ rooms' = IF moves THEN Exit(rooms, previous, s) ELSE rooms
            /\ currentChannelId' = [currentChannelId EXCEPT ![s] = c]
            /\ delivered' = [delivered EXCEPT ![c][role] =
                 @ \o [i \in DOMAIN result.bufferedMessages |-> result.bufferedMessages[i].id]]
            /\ crossed' = IF inflight # None /\ inflight.channel # c
                          THEN crossed \cup {c} ELSE crossed
      /\ UNCHANGED <<now, nextId, status, transport, listeners>>

\* Joining the channel the socket is in already: no await before the join.
Rejoin(s, c, role, key) ==
  /\ MayRun(s) /\ joining[s] = None
  /\ Admissible(c)
  /\ currentChannelId[s] = c
  /\ FinishJoin(s, c, role, key, FALSE, FALSE)

\* Up to the await of socket.join.
StartJoin(s, c, role, key) ==
  /\ MayRun(s) /\ joining[s] = None
  /\ Admissible(c)
  /\ currentChannelId[s] # c
  /\ rooms' = Enter(c, s)
  /\ joining' = [joining EXCEPT ![s] =
       [channel |-> c, role |-> role, key |-> key,
        switching |-> currentChannelId[s] # None]]
  /\ UNCHANGED <<vars, status, currentChannelId, transport, listeners, delivered, crossed>>

ContinueJoin(s) ==
  /\ joining[s] # None
  /\ LET j == joining[s]
     IN  FinishJoin(s, j.channel, j.role, j.key, j.switching, TRUE)

-----------------------------------------------------------------------------
(* leave_channel and close_channel, with an explicit or the current channel *)

LeaveHandler(s, c) ==
  /\ MayRun(s)
  /\ rooms' = Exit(rooms, c, s)
  /\ mgr' = Leave(mgr, c, s, now)
  /\ currentChannelId' = [currentChannelId EXCEPT ![s] = IF @ = c THEN None ELSE @]
  /\ UNCHANGED <<now, nextId, status, joining, transport, listeners, delivered, crossed>>

CloseHandler(s, c) ==
  /\ MayRun(s)
  /\ IsMember(mgr, c, s)
  /\ mgr' = Close(Leave(mgr, c, s, now), c, now)
  /\ rooms' = Exit(rooms, c, s)
  /\ currentChannelId' = [currentChannelId EXCEPT ![s] = IF @ = c THEN None ELSE @]
  /\ UNCHANGED <<now, nextId, status, joining, transport, listeners, delivered, crossed>>

-----------------------------------------------------------------------------
(* message *)

\* armDirectDelivery would succeed for target.
CanArm(target) ==
  target \in OpenSockets /\ transport[target].phase = "ready" /\ listeners[target] = None

\* The emit of a payload over an armed transport.
Emit(c, target, role, id) ==
  /\ listeners' = [listeners EXCEPT ![target] =
                     [kind |-> transport[target].kind, event |-> "drain"]]
  /\ transport' = [transport EXCEPT ![target].phase = "busy"]
  /\ delivered' = [delivered EXCEPT ![c][role] = Append(@, id)]

MessageHandler(s, c, seq, size, role) ==
  /\ MayRun(s)
  /\ nextId < MaxMessages
  /\ LET data == [id |-> nextId, clientType |-> role, seq |-> seq, sizeBytes |-> size]
         result == RouteMessage(mgr, c, s, data, Address[s], Receptive, now)
         target == result.target
         sent == result.status = "direct" /\ CanArm(target)
         \* a backpressured target with nothing in flight, or one that cannot be armed
         dropped == /\ ~sent /\ target # None
                    /\ result.status = "direct" \/ result.mgr.directDeliveries[target] = None
     IN  \/ /\ sent
            /\ mgr' = result.mgr
            /\ nextId' = nextId + 1
            /\ Emit(c, target, OtherRole(role), nextId)
            /\ UNCHANGED <<status, rooms, currentChannelId>>
         \/ /\ ~sent
            /\ mgr' = IF dropped THEN Forsake(result.mgr, target) ELSE result.mgr
            /\ nextId' = IF result.status = "buffered" THEN nextId + 1 ELSE nextId
            /\ Disconnected(IF dropped THEN {target} ELSE {})
            /\ UNCHANGED delivered
  /\ UNCHANGED <<now, joining, crossed>>

-----------------------------------------------------------------------------
(* The transport and its listeners.  Engine.IO emits drain when a write is  *)
(* done and ready when the transport takes the next one.                    *)

Heard(s, event) == listeners[s] = [kind |-> transport[s].kind, event |-> event]

Drain(s) ==
  /\ Quiet /\ status[s] = "open" /\ transport[s].phase = "busy"
  /\ transport' = [transport EXCEPT ![s].phase = "drained"]
  /\ listeners' = IF Heard(s, "drain")
                  THEN [listeners EXCEPT ![s].event = "ready"] ELSE listeners
  /\ UNCHANGED <<vars, status, currentChannelId, joining, rooms, delivered, crossed>>

\* ready, and Engine.IO's own listener finds nothing else to write.
Ready(s) ==
  /\ Quiet /\ status[s] = "open" /\ transport[s].phase = "drained"
  /\ LET advanced == AdvanceDirectDelivery(mgr, s)
         c == mgr.directDeliveries[s].channel
         next == advanced.next
     IN  \/ /\ Heard(s, "ready") /\ next # None
            /\ mgr' = advanced.mgr
            /\ Emit(c, s, next.targetClientType, next.id)
         \/ /\ Heard(s, "ready") /\ next = None
            /\ mgr' = advanced.mgr
            /\ listeners' = [listeners EXCEPT ![s] = None]
            /\ transport' = [transport EXCEPT ![s].phase = "ready"]
            /\ UNCHANGED delivered
         \/ /\ ~Heard(s, "ready")
            /\ transport' = [transport EXCEPT ![s].phase = "ready"]
            /\ UNCHANGED <<mgr, listeners, delivered>>
  /\ UNCHANGED <<now, nextId, status, currentChannelId, joining, rooms, crossed>>

\* ready, but Engine.IO's own listener consumes the transport for a control
\* packet (an ack, a ping, a participants_changed event) before the relay's
\* listener runs, which then waits for the next ready.
ReadyForControl(s) ==
  /\ ControlTraffic
  /\ Quiet /\ status[s] = "open" /\ transport[s].phase = "drained"
  /\ transport' = [transport EXCEPT ![s].phase = "busy"]
  /\ UNCHANGED <<vars, status, currentChannelId, joining, rooms, listeners, delivered, crossed>>

\* A control packet goes out on a writable transport.
ControlWrite(s) ==
  /\ ControlTraffic
  /\ Quiet /\ status[s] = "open" /\ transport[s].phase = "ready"
  /\ transport' = [transport EXCEPT ![s].phase = "busy"]
  /\ UNCHANGED <<vars, status, currentChannelId, joining, rooms, listeners, delivered, crossed>>

\* The client has paused polling, so no poll request is open, and moves over.
Upgrade(s) ==
  /\ Upgrades
  /\ Quiet /\ status[s] = "open"
  /\ transport[s] = [kind |-> "polling", phase |-> "drained"]
  /\ transport' = [transport EXCEPT ![s] = [kind |-> "websocket", phase |-> "ready"]]
  /\ UNCHANGED <<vars, status, currentChannelId, joining, rooms, listeners, delivered, crossed>>

CleanupInterval ==
  /\ Quiet
  /\ CleanupTimer
  /\ UNCHANGED relayVars

Elapse ==
  /\ Quiet
  /\ Tick
  /\ UNCHANGED relayVars

RelayNext ==
  \/ \E s \in Sockets : Connect(s)
  \/ \E s \in Sockets : Disconnect(s)
  \/ \E s \in Sockets, c \in Channels, role \in Roles, key \in Keys \cup {None} :
       Rejoin(s, c, role, key) \/ StartJoin(s, c, role, key)
  \/ \E s \in Sockets : ContinueJoin(s)
  \/ \E s \in Sockets, c \in Channels : LeaveHandler(s, c) \/ CloseHandler(s, c)
  \/ \E s \in Sockets, c \in Channels, seq \in Seqs \cup {None}, size \in Sizes,
        role \in Roles : MessageHandler(s, c, seq, size, role)
  \/ \E s \in Sockets : Drain(s) \/ Ready(s) \/ ReadyForControl(s)
  \/ \E s \in Sockets : ControlWrite(s) \/ Upgrade(s)
  \/ CleanupInterval
  \/ Elapse

RelaySpec == RelayInit /\ [][RelayNext]_allVars

\* What only ContinueJoin(s) does, and what it does whenever joining[s] # None.
Resume(s) == joining[s] # None /\ joining' = [joining EXCEPT ![s] = None]

\* An awaited promise settles.  The event loop keeps serving the I/O of every
\* socket however busy the others are, so writes drain and transports become
\* writable again, and control packets do not take every such turn for ever.
RelayFairness ==
  /\ WF_joining(\E s \in Sockets : Resume(s))
  /\ \A s \in Sockets : SF_allVars(Drain(s)) /\ SF_allVars(Ready(s))

FairRelaySpec == RelaySpec /\ RelayFairness

-----------------------------------------------------------------------------
(* Properties *)

\* Every variable of the server holds a value of its type.
RelayTypeOK ==
  /\ TypeOK
  /\ status \in [Sockets -> {"new", "open", "closed"}]
  /\ currentChannelId \in [Sockets -> Channels \cup {None}]
  /\ joining \in [Sockets -> PendingJoin \cup {None}]
  /\ rooms \in [Channels -> SUBSET Sockets]
  /\ transport \in [Sockets -> Transport]
  /\ listeners \in [Sockets -> Listener \cup {None}]
  /\ delivered \in [Channels -> [Roles -> Seq(Nat)]]
  /\ crossed \in SUBSET Channels

\* Whom a channel lists as a participant is a connected socket whose connection
\* considers that channel its current one: no sequence of joins, switches,
\* leaves, closes and disconnects leaves a ghost that would block its role, nor
\* one socket in two channels.  The disconnect handler relies on it, as it only
\* leaves currentChannelId.
ParticipantsAreConnected ==
  \A c \in Channels : Known(mgr, c) =>
    \A s \in Members(mgr.channels[c]) : status[s] = "open" /\ currentChannelId[s] = c

\* Live channels never exceed the relay's capacity, although the capacity is
\* tested before the await and the channel created after it.
ChannelCapacityHolds == Cardinality(ActiveChannels(mgr)) <= MaxActiveChannels

\* A target has a drain or ready listener exactly while it has a reservation,
\* and only on an open socket: disconnects, switches and failed promotions never
\* leave bytes reserved with nothing armed to release them, or a listener that
\* would block every later delivery.
ListenersMatchReservations ==
  \A s \in Sockets :
    /\ listeners[s] # None <=> mgr.directDeliveries[s] # None
    /\ listeners[s] # None => status[s] = "open"

\* The mailboxes the relay implements, one per role of each channel.
StoredFor(c, role) ==
  LET buffer == mgr.channels[c].messageBuffer
      mail == Keep(buffer, For(buffer, role))
  IN  IF ~Known(mgr, c) \/ buffer = << >> THEN << >> ELSE [i \in DOMAIN mail |-> mail[i].id]
PostOffice == INSTANCE Mailbox WITH
  Boxes <- Channels \X Roles,
  posted <- nextId,
  waiting <- [b \in Channels \X Roles |-> StoredFor(b[1], b[2])],
  handed <- [b \in Channels \X Roles |-> delivered[b[1]][b[2]]],
  exposed <- crossed \X Roles

\* The relay implements its mailboxes: over every path (direct, buffered, promoted
\* on drain, drained by a join) a message is stored or handed over once, what is
\* stored leaves oldest first or is lost for good, and a direct delivery never
\* passes stored mail of its recipient.
ImplementsMailbox == PostOffice!MailSpec

\* A connected participant with messages waiting in its channel's buffer has a
\* delivery in flight on that channel, whose drain will consume them: the only
\* way out is a socket that joined while its delivery belonged to another
\* channel.
MailHasConsumer ==
  \A c \in Channels : Live(mgr, c) /\ c \notin crossed =>
    \A s \in Members(mgr.channels[c]) :
      For(mgr.channels[c].messageBuffer, mgr.channels[c].participants[s]) # {} =>
        /\ mgr.directDeliveries[s] # None
        /\ mgr.directDeliveries[s].channel = c

\* What channelManager.ts:474 promises of every live target, without exception.
LiveTargetConsumesBuffer ==
  \A c \in Channels : Live(mgr, c) =>
    \A s \in Members(mgr.channels[c]) :
      For(mgr.channels[c].messageBuffer, mgr.channels[c].participants[s]) # {} =>
        mgr.directDeliveries[s] # None

\* What relayServer.ts:665 takes for granted: a connected counterparty is in the
\* room, so the close event reaches it.
ParticipantsInRoom ==
  \A c \in Channels : Known(mgr, c) => Members(mgr.channels[c]) \subseteq rooms[c]

\* What waits in c's buffer for the role s holds there.
MailOf(c, s) ==
  IF Live(mgr, c) /\ s \in Members(mgr.channels[c])
  THEN For(mgr.channels[c].messageBuffer, mgr.channels[c].participants[s]) ELSE {}

\* The listener of s waits on a transport that s has upgraded from.
ListenerLost(s) == listeners[s] # None /\ listeners[s].kind # transport[s].kind

\* A message buffered behind a connected participant's delivery reaches it: the
\* participant's mail runs out, or it leaves or disconnects.  The only other way
\* out is an upgrade that takes the transport away under the listener.
MailIsConsumedOrListenerLost ==
  \A c \in Channels, s \in Sockets :
    (c \notin crossed /\ MailOf(c, s) # {}) ~> (MailOf(c, s) = {} \/ ListenerLost(s))

\* The same without the exception: what channelManager.ts:474 says of a live
\* target with a reservation.
BufferedMailIsConsumed ==
  \A c \in Channels, s \in Sockets :
    (c \notin crossed /\ MailOf(c, s) # {}) ~> (MailOf(c, s) = {})

=============================================================================
