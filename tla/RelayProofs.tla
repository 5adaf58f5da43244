----------------------------- MODULE RelayProofs -----------------------------
(***************************************************************************)
(* Theorems about the relay server.  Its handlers compose methods of the   *)
(* channel manager, so their proofs start from what DeliveryProofs says    *)
(* each method does.                                                       *)
(*                                                                         *)
(* Every conjunct of the invariants is an operator of the state it reads,  *)
(* so that a handler's proof can speak of the state it leaves, and of the  *)
(* ones it passes through, without primes.                                 *)
(***************************************************************************)
EXTENDS RelayServer, AccountingProofs

-----------------------------------------------------------------------------
(* The invariant *)

\* ParticipantsAreConnected, of a manager, the sockets' states and their channels.
SeatsAreConnected(m, state, current) ==
  \A c \in Channels, s \in Sockets :
    Known(m, c) /\ m.channels[c].participants[s] # None
      => state[s] = "open" /\ current[s] = c

\* ListenersMatchReservations.
ListenersMatch(m, state, armed) ==
  \A s \in Sockets :
    /\ armed[s] # None <=> m.directDeliveries[s] # None
    /\ armed[s] # None => state[s] = "open"

\* ChannelCapacityHolds.
WithinCapacity(m) == Cardinality(ActiveChannels(m)) <= MaxActiveChannels

\* A closed channel has no participants, so close_channel only ever closes a live one.
TombstonesAreEmpty(m) ==
  \A c \in Channels, s \in Sockets : Tombstone(m, c) => m.channels[c].participants[s] = None

\* While a join waits for socket.join, no other does and its socket is connected; it
\* will still leave the channel its socket is in, and there is still room for the one
\* it may create.
JoinsFit(m, state, current, waiting) ==
  \A s \in Sockets : waiting[s] # None =>
    /\ state[s] = "open"
    /\ \A t \in Sockets \ {s} : waiting[t] = None
    /\ waiting[s].switching \/ current[s] = None
    /\ Known(m, waiting[s].channel) \/ Cardinality(ActiveChannels(m)) < MaxActiveChannels

\* What the manager's own invariant says of it.
Managed(m) == Sane(m) /\ OneSeat(m) /\ OrderOK(m) /\ CreatorsBounded(m)

\* How the connections fit the manager.
Served(m, state, current, waiting, armed) ==
  /\ SeatsAreConnected(m, state, current)
  /\ ListenersMatch(m, state, armed)
  /\ WithinCapacity(m)
  /\ TombstonesAreEmpty(m)
  /\ JoinsFit(m, state, current, waiting)

\* The types of the server's own variables.
ServerTypes ==
  /\ status \in [Sockets -> {"new", "open", "closed"}]
  /\ currentChannelId \in [Sockets -> Channels \cup {None}]
  /\ joining \in [Sockets -> PendingJoin \cup {None}]
  /\ rooms \in [Channels -> SUBSET Sockets]
  /\ transport \in [Sockets -> Transport]
  /\ listeners \in [Sockets -> Listener \cup {None}]
  /\ delivered \in [Channels -> [Roles -> Seq(Nat)]]
  /\ crossed \in SUBSET Channels

RelayInv ==
  /\ Managed(mgr) /\ now \in 0 .. MaxClock /\ nextId \in 0 .. MaxMessages
  /\ ServerTypes
  /\ Served(mgr, status, currentChannelId, joining, listeners)

\* The invariant of the next state, with the primes inside.
LEMMA NextInvariant ==
  ASSUME Managed(mgr'), now' \in 0 .. MaxClock, nextId' \in 0 .. MaxMessages, ServerTypes',
         Served(mgr', status', currentChannelId', joining', listeners')
  PROVE  RelayInv'
<1>1. Managed(mgr)' = Managed(mgr')
  BY DEF Managed, Sane, Linked, Known, OneSeat, OrderOK, OrderExact, Tombstone,
         CreatorsBounded, LiveChannelsCreatedBy, Live
<1>2. Served(mgr, status, currentChannelId, joining, listeners)'
        = Served(mgr', status', currentChannelId', joining', listeners')
  BY DEF Served, SeatsAreConnected, ListenersMatch, WithinCapacity, TombstonesAreEmpty,
         JoinsFit, ActiveChannels, Live, Tombstone, Known
<1> QED
  BY <1>1, <1>2 DEF RelayInv

\* The usual types.
LEMMA RelayRanges ==
  ASSUME RelayInv
  PROVE  /\ Managed(mgr) /\ Sane(mgr) /\ now \in Nat /\ nextId \in Nat
         /\ now \in 0 .. MaxClock /\ nextId \in 0 .. MaxMessages
         /\ MaxClock \in Nat /\ MaxMessages \in Nat /\ ServerTypes
         /\ Served(mgr, status, currentChannelId, joining, listeners)
BY ConstantsAssumption DEF RelayInv, Managed

-----------------------------------------------------------------------------
(* Capacity *)

\* The live channels are finitely many.
LEMMA ActiveFinite ==
  ASSUME NEW m
  PROVE  IsFiniteSet(ActiveChannels(m)) /\ Cardinality(ActiveChannels(m)) \in Nat
<1>1. ActiveChannels(m) \in SUBSET Channels
  BY DEF ActiveChannels
<1> QED
  BY <1>1, ConstantsAssumption, FS_Subset, FS_CardinalityType

\* Fewer live channels are no more than there were.
LEMMA FewerActive ==
  ASSUME NEW m, NEW n, ActiveChannels(n) \subseteq ActiveChannels(m)
  PROVE  Cardinality(ActiveChannels(n)) <= Cardinality(ActiveChannels(m))
BY ActiveFinite, FS_Subset

\* One fewer leaves room for another.
LEMMA OneFewerActive ==
  ASSUME NEW m, NEW n, NEW c \in ActiveChannels(m), WithinCapacity(m),
         ActiveChannels(n) \subseteq ActiveChannels(m) \ {c}
  PROVE  Cardinality(ActiveChannels(n)) < MaxActiveChannels
<1> DEFINE A == ActiveChannels(m)
           B == ActiveChannels(n)
<1>1. IsFiniteSet(A) /\ Cardinality(A) \in Nat /\ Cardinality(B) \in Nat
  BY ActiveFinite
<1>2. IsFiniteSet(A \ {c}) /\ Cardinality(A \ {c}) = Cardinality(A) - 1
  BY <1>1, FS_RemoveElement
<1>3. Cardinality(B) <= Cardinality(A \ {c})
  BY <1>2, FS_Subset
<1>4. Cardinality(A) <= MaxActiveChannels /\ MaxActiveChannels \in Nat
  BY RelayAssumption DEF WithinCapacity
<1> HIDE DEF A, B
<1> QED
  BY <1>1, <1>2, <1>3, <1>4 DEF B

\* One more fits where there was room.
LEMMA OneMoreActive ==
  ASSUME NEW m, NEW n, NEW c \in Channels, WithinCapacity(m),
         ActiveChannels(n) \subseteq ActiveChannels(m) \cup {c},
         c \in ActiveChannels(m) \/ Cardinality(ActiveChannels(m)) < MaxActiveChannels
  PROVE  WithinCapacity(n)
<1> DEFINE A == ActiveChannels(m)
           B == ActiveChannels(n)
<1>1. IsFiniteSet(A) /\ Cardinality(A) \in Nat /\ Cardinality(B) \in Nat
  BY ActiveFinite
<1>2. IsFiniteSet(A \cup {c})
      /\ Cardinality(A \cup {c}) = IF c \in A THEN Cardinality(A) ELSE Cardinality(A) + 1
  BY <1>1, FS_AddElement
<1>3. Cardinality(B) <= Cardinality(A \cup {c})
  BY <1>2, FS_Subset
<1>4. Cardinality(A) <= MaxActiveChannels /\ MaxActiveChannels \in Nat
      /\ (c \in A \/ Cardinality(A) < MaxActiveChannels)
  BY RelayAssumption DEF WithinCapacity
<1> HIDE DEF A, B
<1>5. Cardinality(A \cup {c}) \in Nat /\ Cardinality(A \cup {c}) <= MaxActiveChannels
  BY <1>1, <1>2, <1>4
<1>6. Cardinality(B) <= MaxActiveChannels
  BY <1>1, <1>3, <1>4, <1>5
<1> QED
  BY <1>6 DEF B, WithinCapacity

-----------------------------------------------------------------------------
(* The handlers that leave the manager alone *)

\* Nobody waits for socket.join.
Idle(waiting) == \A s \in Sockets : waiting[s] = None

\* With no join waiting there is nothing for one to fit.
LEMMA IdleFits ==
  ASSUME NEW m, NEW state, NEW current, NEW waiting, Idle(waiting)
  PROVE  JoinsFit(m, state, current, waiting)
BY DEF Idle, JoinsFit

\* A new connection takes no seat and no listener.
LEMMA ConnectKeeps ==
  ASSUME RelayInv, NEW s \in Sockets, Connect(s)
  PROVE  RelayInv'
<1>1. /\ ServerTypes /\ Served(mgr, status, currentChannelId, joining, listeners)
  BY RelayRanges
<1>2. /\ UNCHANGED <<vars, currentChannelId, joining, rooms, listeners, delivered, crossed>>
      /\ status' = [status EXCEPT ![s] = "open"] /\ Idle(joining)
  BY DEF Connect, Quiet, Idle
<1>3. PICK kind \in Transports :
        transport' = [transport EXCEPT ![s] = [kind |-> kind, phase |-> "ready"]]
  BY DEF Connect
<1>4. transport' \in [Sockets -> Transport]
  <2>1. [kind |-> kind, phase |-> "ready"] \in Transport
    BY <1>3, RelayAssumption DEF Transport
  <2> QED
    BY <1>1, <1>3, <2>1 DEF ServerTypes
<1>5. ServerTypes'
  BY <1>1, <1>2, <1>4 DEF ServerTypes
<1>6. \A t \in Sockets : status[t] = "open" => status'[t] = "open"
  BY <1>1, <1>2 DEF ServerTypes
<1>7. Served(mgr, status', currentChannelId, joining, listeners)
  BY <1>1, <1>2, <1>6, IdleFits DEF Served, SeatsAreConnected, ListenersMatch
<1>8. /\ mgr' = mgr /\ now' = now /\ nextId' = nextId /\ joining' = joining
      /\ currentChannelId' = currentChannelId /\ listeners' = listeners
  BY <1>2 DEF vars
<1> QED
  BY <1>5, <1>7, <1>8, NextInvariant DEF RelayInv

\* What a join waits for, up to the await.
LEMMA StartJoinKeeps ==
  ASSUME RelayInv, NEW s \in Sockets, NEW c \in Channels, NEW role \in Roles,
         NEW key \in Keys \cup {None}, StartJoin(s, c, role, key)
  PROVE  RelayInv'
<1> DEFINE j == [channel |-> c, role |-> role, key |-> key,
                 switching |-> currentChannelId[s] # None]
<1>1. ServerTypes /\ Served(mgr, status, currentChannelId, joining, listeners)
  BY RelayRanges
<1>2. /\ MayRun(s) /\ Admissible(c)
      /\ rooms' = Enter(c, s) /\ joining' = [joining EXCEPT ![s] = j]
      /\ UNCHANGED <<vars, status, currentChannelId, transport, listeners, delivered, crossed>>
  BY DEF StartJoin
<1>3. j \in PendingJoin /\ j.channel = c /\ (j.switching <=> currentChannelId[s] # None)
  BY DEF PendingJoin
<1> HIDE DEF j
<1>4. ServerTypes'
  <2>1. rooms' \in [Channels -> SUBSET Sockets]
    BY <1>1, <1>2 DEF ServerTypes, Enter
  <2>2. joining' \in [Sockets -> PendingJoin \cup {None}]
    BY <1>1, <1>2, <1>3 DEF ServerTypes
  <2> QED
    BY <1>1, <1>2, <2>1, <2>2 DEF ServerTypes
<1>5. JoinsFit(mgr, status, currentChannelId, joining')
  <2> SUFFICES ASSUME NEW t \in Sockets, joining'[t] # None
               PROVE  /\ status[t] = "open"
                      /\ \A u \in Sockets \ {t} : joining'[u] = None
                      /\ joining'[t].switching \/ currentChannelId[t] = None
                      /\ \/ Known(mgr, joining'[t].channel)
                         \/ Cardinality(ActiveChannels(mgr)) < MaxActiveChannels
    BY DEF JoinsFit
  <2>1. \A u \in Sockets : joining'[u] = IF u = s THEN j ELSE joining[u]
    BY <1>1, <1>2 DEF ServerTypes
  <2>2. status[s] = "open" /\ \A u \in Sockets \ {s} : joining[u] = None
    BY <1>2 DEF MayRun
  <2>3. t = s /\ joining'[t] = j
    BY <2>1, <2>2
  <2> QED
    BY <1>2, <1>3, <2>1, <2>2, <2>3 DEF Admissible
<1>6. Served(mgr, status, currentChannelId, joining', listeners)
  BY <1>1, <1>5 DEF Served
<1>7. /\ mgr' = mgr /\ now' = now /\ nextId' = nextId /\ status' = status
      /\ currentChannelId' = currentChannelId /\ listeners' = listeners
  BY <1>2 DEF vars
<1> QED
  BY <1>4, <1>6, <1>7, NextInvariant DEF RelayInv

\* Writes, drains and upgrades move the transport of one socket, and its listener from
\* one event to the next.
LEMMA TransportKeeps ==
  ASSUME RelayInv, NEW s \in Sockets, NEW t \in Transport,
         transport' = [transport EXCEPT ![s] = t],
         \/ listeners' = listeners
         \/ /\ listeners[s] # None
            /\ listeners' = [listeners EXCEPT ![s].event = "ready"],
         UNCHANGED <<vars, status, currentChannelId, joining, rooms, delivered, crossed>>
  PROVE  RelayInv'
<1>1. ServerTypes /\ Served(mgr, status, currentChannelId, joining, listeners)
  BY RelayRanges
<1>2. transport' \in [Sockets -> Transport]
  BY <1>1 DEF ServerTypes
<1>3. /\ listeners' \in [Sockets -> Listener \cup {None}]
      /\ \A u \in Sockets : listeners'[u] # None <=> listeners[u] # None
  <2>1. CASE listeners' = listeners
    BY <1>1, <2>1 DEF ServerTypes
  <2>2. CASE listeners[s] # None /\ listeners' = [listeners EXCEPT ![s].event = "ready"]
    <3>1. listeners[s] \in Listener /\ listeners \in [Sockets -> Listener \cup {None}]
      BY <1>1, <2>2 DEF ServerTypes
    <3>2. [listeners[s] EXCEPT !.event = "ready"] \in Listener
      BY <3>1 DEF Listener
    <3> DEFINE armed == [listeners[s] EXCEPT !.event = "ready"]
    <3>3. listeners' = [listeners EXCEPT ![s] = armed]
      BY <2>2
    <3>4. armed \in Listener /\ armed # None
      BY <3>2, NoneIsNoRecord
    <3> HIDE DEF armed
    <3> QED
      BY <2>2, <3>1, <3>3, <3>4
  <2> QED
    BY <2>1, <2>2
<1>4. ServerTypes'
  BY <1>1, <1>2, <1>3 DEF ServerTypes
<1>5. Served(mgr, status, currentChannelId, joining, listeners')
  BY <1>1, <1>3 DEF Served, ListenersMatch
<1>6. /\ mgr' = mgr /\ now' = now /\ nextId' = nextId /\ status' = status
      /\ currentChannelId' = currentChannelId /\ joining' = joining
  BY DEF vars
<1> QED
  BY <1>4, <1>5, <1>6, NextInvariant DEF RelayInv

\* The four of them.
LEMMA PacingKeeps ==
  ASSUME RelayInv, NEW s \in Sockets,
         Drain(s) \/ ReadyForControl(s) \/ ControlWrite(s) \/ Upgrade(s)
  PROVE  RelayInv'
<1> DEFINE moved(phase) == [transport[s] EXCEPT !.phase = phase]
<1>1. transport \in [Sockets -> Transport] /\ transport[s] \in Transport
  BY DEF RelayInv, ServerTypes
<1>2. \A phase \in {"busy", "drained"} : moved(phase) \in Transport
  BY <1>1 DEF Transport
<1>3. CASE Drain(s)
  <2>1. /\ transport' = [transport EXCEPT ![s] = moved("drained")]
        /\ UNCHANGED <<vars, status, currentChannelId, joining, rooms, delivered, crossed>>
    BY <1>3 DEF Drain
  <2>2. \/ listeners' = listeners
        \/ /\ listeners[s] # None
           /\ listeners' = [listeners EXCEPT ![s].event = "ready"]
    <3>1. CASE Heard(s, "drain")
      <4>1. listeners[s] = [kind |-> transport[s].kind, event |-> "drain"]
        BY <3>1 DEF Heard
      <4>2. [kind |-> transport[s].kind, event |-> "drain"] \in Listener
        BY <1>1 DEF Transport, Listener
      <4> QED
        BY <1>3, <3>1, <4>1, <4>2, NoneIsNoRecord DEF Drain
    <3>2. CASE ~ Heard(s, "drain")
      BY <1>3, <3>2 DEF Drain
    <3> QED
      BY <3>1, <3>2
  <2> QED
    BY <1>2, <2>1, <2>2, TransportKeeps
<1>4. CASE ReadyForControl(s) \/ ControlWrite(s)
  <2>1. /\ transport' = [transport EXCEPT ![s] = moved("busy")] /\ listeners' = listeners
        /\ UNCHANGED <<vars, status, currentChannelId, joining, rooms, delivered, crossed>>
    BY <1>4 DEF ReadyForControl, ControlWrite
  <2> QED
    BY <1>2, <2>1, TransportKeeps
<1>5. CASE Upgrade(s)
  <2>1. [kind |-> "websocket", phase |-> "ready"] \in Transport
    BY DEF Transport
  <2>2. /\ transport' = [transport EXCEPT ![s] = [kind |-> "websocket", phase |-> "ready"]]
        /\ listeners' = listeners
        /\ UNCHANGED <<vars, status, currentChannelId, joining, rooms, delivered, crossed>>
    BY <1>5 DEF Upgrade
  <2> QED
    BY <2>1, <2>2, TransportKeeps
<1> QED
  BY <1>3, <1>4, <1>5

-----------------------------------------------------------------------------
(* leave_channel, close_channel, the timers *)

\* What the server needs to know of a method that seats nobody.
LEMMA ShrinkingKeeps ==
  ASSUME NEW m, NEW n, NEW state, NEW current,
         Managed(m), Sane(n), Shrinks(m, n), OrderOK(m) => OrderOK(n),
         SeatsAreConnected(m, state, current), WithinCapacity(m)
  PROVE  /\ Managed(n) /\ SeatsAreConnected(n, state, current)
         /\ ActiveChannels(n) \subseteq ActiveChannels(m) /\ WithinCapacity(n)
<1>1. Managed(n)
  BY ShrinksPreserves DEF Managed, Preserves
<1>2. SeatsAreConnected(n, state, current)
  BY DEF SeatsAreConnected, Shrinks
<1>3. ActiveChannels(n) \subseteq ActiveChannels(m)
  BY DEF ActiveChannels, Shrinks, Live
<1>4. WithinCapacity(n)
  BY <1>3, FewerActive, ActiveFinite, RelayAssumption DEF WithinCapacity
<1> QED
  BY <1>1, <1>2, <1>3, <1>4

\* A step (see ChannelManagerProofs) does not touch terminatedOrder.
LEMMA SteppingKeeps ==
  ASSUME NEW m, NEW n, NEW state, NEW current,
         Managed(m), Step(m, n),
         SeatsAreConnected(m, state, current), WithinCapacity(m), TombstonesAreEmpty(m)
  PROVE  /\ Managed(n) /\ SeatsAreConnected(n, state, current)
         /\ WithinCapacity(n) /\ TombstonesAreEmpty(n)
         /\ \A c \in Channels : Known(n, c) <=> Known(m, c)
         /\ ActiveChannels(n) = ActiveChannels(m)
<1>1. /\ Sane(n) /\ Shrinks(m, n) /\ (OrderOK(m) => OrderOK(n))
      /\ \A c \in Channels : Known(n, c) <=> Known(m, c)
      /\ \A c \in Channels : Tombstone(n, c) <=> Tombstone(m, c)
  BY DEF Step, SameTombstones, OrderOK, OrderExact
<1>2. Managed(n) /\ SeatsAreConnected(n, state, current) /\ WithinCapacity(n)
  BY <1>1, ShrinkingKeeps
<1>3. TombstonesAreEmpty(n)
  <2> SUFFICES ASSUME NEW c \in Channels, NEW s \in Sockets, Tombstone(n, c)
               PROVE  n.channels[c].participants[s] = None
    BY DEF TombstonesAreEmpty
  <2>1. Known(n, c) /\ m.channels[c].participants[s] = None
    BY <1>1 DEF TombstonesAreEmpty, Tombstone
  <2> QED
    BY <1>1, <2>1 DEF Shrinks
<1>4. ActiveChannels(n) = ActiveChannels(m)
  BY <1>1 DEF ActiveChannels, Live, Tombstone
<1> QED
  BY <1>1, <1>2, <1>3, <1>4

\* With the same reservations, or with their channels forgotten, the listeners match.
LEMMA DeliveriesKeepListeners ==
  ASSUME NEW m, NEW n, NEW state, NEW armed, DeliveriesKept(m, n), ListenersMatch(m, state, armed)
  PROVE  ListenersMatch(n, state, armed)
BY NoneIsNoObject DEF DeliveriesKept, ListenersMatch

\* The channel a socket leaves is no longer its current one.
LEMMA LeaveHandlerKeeps ==
  ASSUME RelayInv, NEW s \in Sockets, NEW c \in Channels, LeaveHandler(s, c)
  PROVE  RelayInv'
<1> DEFINE n == Leave(mgr, c, s, now)
<1>1. /\ Managed(mgr) /\ Sane(mgr) /\ now \in Nat /\ ServerTypes
      /\ Served(mgr, status, currentChannelId, joining, listeners)
  BY RelayRanges
<1>2. /\ mgr' = n /\ rooms' = Exit(rooms, c, s)
      /\ currentChannelId' =
           [currentChannelId EXCEPT ![s] = IF currentChannelId[s] = c THEN None
                                           ELSE currentChannelId[s]]
      /\ UNCHANGED <<now, nextId, status, joining, transport, listeners, delivered, crossed>>
  BY DEF LeaveHandler
<1>3. Step(mgr, n)
  BY <1>1, LeaveStep
<1>4. /\ SameTable(mgr, n) /\ n.directDeliveries = mgr.directDeliveries
      /\ \A d \in Channels, t \in Sockets : Known(mgr, d) =>
           n.channels[d].participants[t] =
             IF d = c /\ t = s THEN None ELSE mgr.channels[d].participants[t]
  BY <1>1, LeaveEffects
<1> HIDE DEF n
<1>5. ServerTypes'
  <2>1. currentChannelId' \in [Sockets -> Channels \cup {None}]
    BY <1>1, <1>2 DEF ServerTypes
  <2>2. rooms' \in [Channels -> SUBSET Sockets]
    BY <1>1, <1>2 DEF ServerTypes, Exit
  <2> QED
    BY <1>1, <1>2, <2>1, <2>2 DEF ServerTypes
<1>6. \A t \in Sockets :
        currentChannelId'[t] = IF t = s /\ currentChannelId[t] = c THEN None
                               ELSE currentChannelId[t]
  BY <1>1, <1>2 DEF ServerTypes
<1>7. /\ Managed(n) /\ WithinCapacity(n) /\ TombstonesAreEmpty(n)
      /\ \A d \in Channels : Known(n, d) <=> Known(mgr, d)
      /\ ActiveChannels(n) = ActiveChannels(mgr)
  BY <1>1, <1>3, SteppingKeeps DEF Served
<1>8. SeatsAreConnected(n, status, currentChannelId')
  BY <1>1, <1>4, <1>6, <1>7 DEF SeatsAreConnected, Served
<1>9. ListenersMatch(n, status, listeners)
  BY <1>1, <1>4 DEF ListenersMatch, Served
<1>10. JoinsFit(n, status, currentChannelId', joining)
  <2>1. \A t \in Sockets : joining[t] # None => joining[t].channel \in Channels
    BY <1>1 DEF ServerTypes, PendingJoin
  <2> QED
    BY <1>1, <1>6, <1>7, <2>1 DEF JoinsFit, Served
<1> QED
  BY <1>1, <1>2, <1>5, <1>7, <1>8, <1>9, <1>10, NextInvariant DEF RelayInv, Served

\* A close leaves room for a join that waits, also when it evicts the channel to join.
LEMMA CloseHandlerKeeps ==
  ASSUME RelayInv, NEW s \in Sockets, NEW c \in Channels, CloseHandler(s, c)
  PROVE  RelayInv'
<1> DEFINE l == Leave(mgr, c, s, now)
           n == Close(l, c, now)
<1>1. /\ Managed(mgr) /\ Sane(mgr) /\ now \in Nat /\ ServerTypes
      /\ Served(mgr, status, currentChannelId, joining, listeners)
  BY RelayRanges
<1>2. /\ IsMember(mgr, c, s)
      /\ mgr' = n /\ rooms' = Exit(rooms, c, s)
      /\ currentChannelId' =
           [currentChannelId EXCEPT ![s] = IF currentChannelId[s] = c THEN None
                                           ELSE currentChannelId[s]]
      /\ UNCHANGED <<now, nextId, status, joining, transport, listeners, delivered, crossed>>
  BY DEF CloseHandler
<1>3. Step(mgr, l)
  BY <1>1, LeaveStep
<1>4. /\ SameTable(mgr, l) /\ l.directDeliveries = mgr.directDeliveries
      /\ \A d \in Channels, t \in Sockets : Known(mgr, d) =>
           l.channels[d].participants[t] =
             IF d = c /\ t = s THEN None ELSE mgr.channels[d].participants[t]
  BY <1>1, LeaveEffects
<1> HIDE DEF l
<1>5. Live(mgr, c)
  BY <1>1, <1>2 DEF IsMember, Live, Tombstone, TombstonesAreEmpty, Served
<1>6. Live(l, c)
  BY <1>4, <1>5 DEF SameTable, Live
<1>7. /\ Managed(l) /\ Sane(l) /\ WithinCapacity(l) /\ TombstonesAreEmpty(l)
      /\ SeatsAreConnected(l, status, currentChannelId)
      /\ ActiveChannels(l) = ActiveChannels(mgr)
  BY <1>1, <1>3, SteppingKeeps DEF Served, Managed
<1>8. Sane(n) /\ Shrinks(l, n) /\ (OrderOK(l) => OrderOK(n))
  BY <1>1, <1>6, <1>7, CloseFacts
<1>9. /\ \A d \in Channels \ {c} : Known(n, d) => n.channels[d] = l.channels[d]
      /\ Known(n, c) => /\ Tombstone(n, c)
                        /\ \A t \in Sockets : n.channels[c].participants[t] = None
      /\ DeliveriesKept(l, n)
  BY <1>1, <1>6, <1>7, CloseEffects
<1> HIDE DEF n
<1>10. ServerTypes'
  <2>1. currentChannelId' \in [Sockets -> Channels \cup {None}]
    BY <1>1, <1>2 DEF ServerTypes
  <2>2. rooms' \in [Channels -> SUBSET Sockets]
    BY <1>1, <1>2 DEF ServerTypes, Exit
  <2> QED
    BY <1>1, <1>2, <2>1, <2>2 DEF ServerTypes
<1>11. \A t \in Sockets :
         currentChannelId'[t] = IF t = s /\ currentChannelId[t] = c THEN None
                                ELSE currentChannelId[t]
  BY <1>1, <1>2 DEF ServerTypes
<1>12. /\ Managed(n) /\ SeatsAreConnected(n, status, currentChannelId) /\ WithinCapacity(n)
       /\ ActiveChannels(n) \subseteq ActiveChannels(l)
  BY <1>7, <1>8, ShrinkingKeeps
<1>13. SeatsAreConnected(n, status, currentChannelId')
  BY <1>9, <1>11, <1>12 DEF SeatsAreConnected
<1>14. TombstonesAreEmpty(n)
  BY <1>7, <1>9 DEF TombstonesAreEmpty, Tombstone, Known
<1>15. ListenersMatch(n, status, listeners)
  <2>1. ListenersMatch(l, status, listeners)
    BY <1>1, <1>4 DEF ListenersMatch, Served
  <2> QED
    BY <1>9, <2>1, DeliveriesKeepListeners
<1>16. Cardinality(ActiveChannels(n)) < MaxActiveChannels
  <2>1. c \in ActiveChannels(l)
    BY <1>6 DEF ActiveChannels
  <2>2. ActiveChannels(n) \subseteq ActiveChannels(l) \ {c}
    BY <1>9, <1>12 DEF ActiveChannels, Live, Tombstone
  <2> QED
    BY <1>7, <2>1, <2>2, OneFewerActive
<1>17. JoinsFit(n, status, currentChannelId', joining)
  BY <1>1, <1>11, <1>16 DEF JoinsFit, Served
<1> QED
  BY <1>1, <1>2, <1>10, <1>12, <1>13, <1>14, <1>15, <1>17, NextInvariant DEF RelayInv, Served

\* A cleanup runs when no join waits.
LEMMA CleanupKeeps ==
  ASSUME RelayInv, CleanupInterval
  PROVE  RelayInv'
<1> DEFINE n == Cleanup(mgr, now)
<1>1. /\ Managed(mgr) /\ Sane(mgr) /\ now \in Nat /\ ServerTypes
      /\ Served(mgr, status, currentChannelId, joining, listeners)
  BY RelayRanges
<1>2. mgr' = n /\ Idle(joining) /\ UNCHANGED <<now, nextId, relayVars>>
  BY DEF CleanupInterval, CleanupTimer, Quiet, Idle
<1>3. Sane(n) /\ Shrinks(mgr, n) /\ (OrderOK(mgr) => OrderOK(n))
  BY <1>1, CleanupFacts
<1>4. /\ \A c \in Channels : Known(n, c) =>
           /\ Known(mgr, c)
           /\ n.channels[c].participants = mgr.channels[c].participants
           /\ n.channels[c].terminated = mgr.channels[c].terminated
      /\ DeliveriesKept(mgr, n)
  <2>1. CleanedUp(mgr, n, now)
    BY <1>1, CleanupEffects
  <2> HIDE DEF n
  <2> QED
    BY <2>1 DEF CleanedUp
<1> HIDE DEF n
<1>5. Managed(n) /\ SeatsAreConnected(n, status, currentChannelId) /\ WithinCapacity(n)
  BY <1>1, <1>3, ShrinkingKeeps DEF Served
<1>6. TombstonesAreEmpty(n)
  BY <1>1, <1>4 DEF TombstonesAreEmpty, Tombstone, Served
<1>7. ListenersMatch(n, status, listeners)
  BY <1>1, <1>4, DeliveriesKeepListeners DEF Served
<1>8. JoinsFit(n, status, currentChannelId, joining)
  BY <1>2, IdleFits
<1>9. Served(n, status, currentChannelId, joining, listeners)
  BY <1>5, <1>6, <1>7, <1>8 DEF Served
<1>10. ServerTypes'
  BY <1>1, <1>2 DEF ServerTypes, relayVars
<1>11. /\ now' = now /\ nextId' = nextId /\ status' = status
       /\ currentChannelId' = currentChannelId /\ joining' = joining /\ listeners' = listeners
  BY <1>2 DEF relayVars
<1> QED
  BY <1>2, <1>5, <1>9, <1>10, <1>11, NextInvariant DEF RelayInv

\* Time passes.
LEMMA ElapseKeeps ==
  ASSUME RelayInv, Elapse
  PROVE  RelayInv'
<1>1. /\ mgr' = mgr /\ nextId' = nextId /\ now < MaxClock /\ now' = now + 1
      /\ UNCHANGED relayVars
  BY DEF Elapse, Tick
<1>2. now' \in 0 .. MaxClock
  BY <1>1, RelayRanges
<1>3. /\ status' = status /\ currentChannelId' = currentChannelId /\ joining' = joining
      /\ listeners' = listeners
  BY <1>1 DEF relayVars
<1>4. ServerTypes'
  BY <1>1 DEF ServerTypes, relayVars, RelayInv
<1> QED
  BY <1>1, <1>2, <1>3, <1>4, NextInvariant DEF RelayInv

-----------------------------------------------------------------------------
(* disconnect *)

\* The manager's part: the reservation of s goes, and its seat in its current channel.
LEMMA ForsakeEffects ==
  ASSUME NEW m, Sane(m), NEW s \in Sockets, currentChannelId[s] \in Channels \cup {None},
         now \in Nat
  PROVE  LET n == Forsake(m, s)
         IN  /\ Step(m, n) /\ SameTable(m, n) /\ SameBuffers(m, n)
             /\ n.directDeliveries = [m.directDeliveries EXCEPT ![s] = None]
             /\ \A d \in Channels, t \in Sockets : Known(m, d) =>
                  n.channels[d].participants[t] =
                    IF d = currentChannelId[s] /\ t = s THEN None
                    ELSE m.channels[d].participants[t]
<1> DEFINE r == ReleaseDirectDelivery(m, s)
           n == Forsake(m, s)
           c == currentChannelId[s]
<1>1. Step(m, r) /\ BytesOnly(m, r) /\ r.directDeliveries = [m.directDeliveries EXCEPT ![s] = None]
  BY ReleaseDirectDeliveryStep, ReleaseDirectDeliveryEffects
<1>2. Sane(r)
  BY <1>1 DEF Step
<1> HIDE DEF r
<1>3. CASE c = None
  <2>1. n = r
    BY <1>3 DEF Forsake, r
  <2>2. \A d \in Channels : d # None
    BY ConstantsAssumption
  <2> QED
    BY <1>1, <1>3, <2>1, <2>2 DEF BytesOnly, SameContent, SameSeats
<1>4. CASE c # None
  <2>1. n = Leave(r, c, s, now) /\ c \in Channels
    BY <1>4 DEF Forsake, r
  <2>2. Step(r, n)
    BY <1>2, <2>1, LeaveStep
  <2>3. /\ SameTable(r, n) /\ SameBuffers(r, n) /\ n.directDeliveries = r.directDeliveries
        /\ \A d \in Channels, t \in Sockets : Known(r, d) =>
             n.channels[d].participants[t] =
               IF d = c /\ t = s THEN None ELSE r.channels[d].participants[t]
    BY <1>2, <2>1, LeaveEffects
  <2> HIDE DEF n
  <2>4. Step(m, n)
    BY <1>1, <2>2, StepTransitive
  <2>5. SameTable(m, n) /\ SameBuffers(m, n)
    BY <1>1, <2>3 DEF BytesOnly, SameContent, SameTable, SameBuffers
  <2>6. \A d \in Channels, t \in Sockets : Known(m, d) =>
          n.channels[d].participants[t] =
            IF d = c /\ t = s THEN None ELSE m.channels[d].participants[t]
    BY <1>1, <2>3 DEF BytesOnly, SameContent, SameTable, SameSeats
  <2> QED
    BY <1>1, <2>3, <2>4, <2>5, <2>6 DEF n
<1> QED
  BY <1>3, <1>4

\* The server's part.
LEMMA DisconnectedFacts ==
  ASSUME ServerTypes, NEW gone, Disconnected(gone)
  PROVE  /\ status' \in [Sockets -> {"new", "open", "closed"}]
         /\ currentChannelId' \in [Sockets -> Channels \cup {None}]
         /\ rooms' \in [Channels -> SUBSET Sockets]
         /\ transport' \in [Sockets -> Transport]
         /\ listeners' \in [Sockets -> Listener \cup {None}]
         /\ \A t \in Sockets :
              /\ status'[t] = IF t \in gone THEN "closed" ELSE status[t]
              /\ currentChannelId'[t] = IF t \in gone THEN None ELSE currentChannelId[t]
              /\ listeners'[t] = IF t \in gone THEN None ELSE listeners[t]
              /\ transport'[t] = IF t \in gone THEN NoTransport ELSE transport[t]
<1>1. NoTransport \in Transport
  BY DEF NoTransport, Transport
<1> QED
  BY <1>1 DEF Disconnected, ServerTypes

\* The manager and the connections after a disconnect, whether the client or the
\* server brought it about.
LEMMA ForsakenFits ==
  ASSUME NEW m, Managed(m), now \in Nat, ServerTypes,
         Served(m, status, currentChannelId, joining, listeners),
         NEW s \in Sockets, joining[s] = None, Disconnected({s})
  PROVE  LET n == Forsake(m, s)
         IN  Managed(n) /\ Served(n, status', currentChannelId', joining, listeners')
<1> DEFINE n == Forsake(m, s)
<1>1. Sane(m) /\ currentChannelId[s] \in Channels \cup {None}
  BY DEF Managed, ServerTypes
<1>2. /\ Step(m, n) /\ SameTable(m, n)
      /\ n.directDeliveries = [m.directDeliveries EXCEPT ![s] = None]
      /\ \A d \in Channels, t \in Sockets : Known(m, d) =>
           n.channels[d].participants[t] =
             IF d = currentChannelId[s] /\ t = s THEN None
             ELSE m.channels[d].participants[t]
  BY <1>1, ForsakeEffects
<1> HIDE DEF n
<1>3. \A t \in Sockets :
        /\ status'[t] = IF t = s THEN "closed" ELSE status[t]
        /\ currentChannelId'[t] = IF t = s THEN None ELSE currentChannelId[t]
        /\ listeners'[t] = IF t = s THEN None ELSE listeners[t]
  BY DisconnectedFacts
<1>4. /\ Managed(n) /\ WithinCapacity(n) /\ TombstonesAreEmpty(n)
      /\ \A d \in Channels : Known(n, d) <=> Known(m, d)
      /\ ActiveChannels(n) = ActiveChannels(m)
  BY <1>2, SteppingKeeps DEF Served
<1>5. SeatsAreConnected(n, status', currentChannelId')
  BY <1>2, <1>3, <1>4 DEF SeatsAreConnected, Served
<1>6. \A t \in Sockets : n.directDeliveries[t] = IF t = s THEN None ELSE m.directDeliveries[t]
  BY <1>1, <1>2 DEF Sane, Manager
<1>7. ListenersMatch(n, status', listeners')
  BY <1>3, <1>6 DEF ListenersMatch, Served
<1>8. JoinsFit(n, status', currentChannelId', joining)
  <2>1. \A t \in Sockets : joining[t] # None => joining[t].channel \in Channels
    BY DEF ServerTypes, PendingJoin
  <2>2. \A t \in Sockets : joining[t] # None => t # s
    OBVIOUS
  <2> QED
    BY <1>3, <1>4, <2>1, <2>2 DEF JoinsFit, Served
<1> QED
  BY <1>4, <1>5, <1>7, <1>8 DEF Served, n

\* A socket that goes leaves no seat, no reservation and no listener behind.
LEMMA DisconnectKeeps ==
  ASSUME RelayInv, NEW s \in Sockets, Disconnect(s)
  PROVE  RelayInv'
<1>1. /\ Managed(mgr) /\ now \in Nat /\ ServerTypes
      /\ Served(mgr, status, currentChannelId, joining, listeners)
  BY RelayRanges
<1>2. /\ Disconnected({s}) /\ joining[s] = None /\ mgr' = Forsake(mgr, s)
      /\ UNCHANGED <<now, nextId, joining, delivered, crossed>>
  BY DEF Disconnect, Quiet
<1>3. Managed(mgr') /\ Served(mgr', status', currentChannelId', joining, listeners')
  BY <1>1, <1>2, ForsakenFits
<1>4. ServerTypes'
  BY <1>1, <1>2, DisconnectedFacts DEF ServerTypes
<1> QED
  BY <1>2, <1>3, <1>4, NextInvariant DEF RelayInv

-----------------------------------------------------------------------------
(* message *)

\* What routeMessage makes of m, and of whom it answers about.
Routed(m, result, c, s, data, message, receptive) ==
  LET n == result.mgr
      t == result.target
      d == m.directDeliveries
  IN  /\ Step(m, n) /\ SameTable(m, n) /\ SameSeats(m, n)
      /\ t # None => /\ Known(m, c) /\ t = Counterparty(m.channels[c], s)
                     /\ t \in Members(m.channels[c]) \ {s}
      /\ result.status \in {"error", "direct", "buffered"}
      /\ result.status = "error" => SameBuffers(m, n) /\ n.directDeliveries = d
      /\ result.status # "error" =>
           /\ Live(m, c) /\ m.channels[c].participants[s] = data.clientType
           /\ t = Counterparty(m.channels[c], s)
      /\ result.status = "direct" =>
           /\ t \in receptive /\ d[t] = None /\ SameBuffers(m, n)
           /\ n.directDeliveries =
                [d EXCEPT ![t] = [channel |-> c, sourceIp |-> message.sourceIp,
                                  sizeBytes |-> data.sizeBytes]]
      /\ result.status = "buffered" =>
           /\ n.directDeliveries = d /\ message \in Message
           /\ n.channels[c].messageBuffer = Pushed(m.channels[c], message)
           /\ \A e \in Channels \ {c} : Known(m, e) =>
                n.channels[e].messageBuffer = m.channels[e].messageBuffer

\* The other participant, when there is one.
LEMMA CounterpartyFacts ==
  ASSUME NEW ch, NEW s, Counterparty(ch, s) # None
  PROVE  Counterparty(ch, s) \in Members(ch) \ {s}
BY DEF Counterparty

\* routeMessage, whichever way it answers.
LEMMA RoutedFacts ==
  ASSUME NEW m, Sane(m), NEW c \in Channels, NEW s \in Sockets, NEW data \in Payload,
         NEW ip \in Ips, NEW receptive \in SUBSET Sockets, NEW time \in Nat
  PROVE  Routed(m, RouteMessage(m, c, s, data, ip, receptive, time), c, s, data,
                MessageOf(data, ip, time), receptive)
<1> DEFINE result == RouteMessage(m, c, s, data, ip, receptive, time)
           n == result.mgr
           target == Counterparty(m.channels[c], s)
           size == data.sizeBytes
           touched == Touched(m, c, time)
           direct == TakeSeq(ReserveDirect(touched, target, c, ip, size), c, s, data)
           buffered == TakeSeq(BufferMessage(touched, c, data, ip, time), c, s, data)
           message == MessageOf(data, ip, time)
<1>1. Step(m, n)
  BY RouteMessageStep
<1>2. message.sourceIp = ip
  BY DEF MessageOf
<1>3. \/ result.status = "error" /\ n = m /\ result.target = None
      \/ /\ result.status = "error" /\ ~ Unroutable(m, c, s, data)
         /\ n = touched /\ result.target \in {None, target}
      \/ /\ result.status = "direct" /\ ~ Unroutable(m, c, s, data)
         /\ CanSendDirect(m, c, target, ip, size, receptive)
         /\ n = direct /\ result.target = target
      \/ /\ result.status = "buffered" /\ ~ Unroutable(m, c, s, data)
         /\ n = buffered /\ result.target = target
  BY RouteKinds
<1> HIDE DEF result, touched, direct, buffered, message
<1>4. ~ Unroutable(m, c, s, data) =>
        Known(m, c) /\ Live(m, c) /\ m.channels[c].participants[s] = data.clientType
  BY DEF Unroutable, Live
<1>5. target # None => target \in Members(m.channels[c]) \ {s}
  BY CounterpartyFacts
<1> HIDE DEF target
<1>6. CASE result.status = "error" /\ n = m /\ result.target = None
  <2>1. SameTable(m, m) /\ SameSeats(m, m) /\ SameBuffers(m, m)
    BY DEF SameTable, SameSeats, SameBuffers
  <2> QED
    BY <1>1, <1>6, <2>1 DEF Routed, result
<1>7. CASE /\ result.status = "error" /\ ~ Unroutable(m, c, s, data)
           /\ n = touched /\ result.target \in {None, target}
  <2>1. SameContent(m, touched) /\ touched.directDeliveries = m.directDeliveries
    BY <1>4, <1>7, TouchedEffects DEF touched
  <2> QED
    BY <1>1, <1>4, <1>5, <1>7, <2>1 DEF Routed, SameContent, result, target
<1>8. CASE /\ result.status = "direct" /\ ~ Unroutable(m, c, s, data)
           /\ CanSendDirect(m, c, target, ip, size, receptive)
           /\ n = direct /\ result.target = target
  <2>1. target \in receptive /\ target \in Sockets /\ m.directDeliveries[target] = None
    BY <1>8 DEF CanSendDirect
  <2>2. target # None
    BY <2>1, ConstantsAssumption
  <2>3. /\ SameTable(m, direct) /\ SameSeats(m, direct) /\ SameBuffers(m, direct)
        /\ direct.directDeliveries =
             [m.directDeliveries EXCEPT
                ![target] = [channel |-> c, sourceIp |-> ip, sizeBytes |-> data.sizeBytes]]
    BY <1>4, <1>8, <2>1, DirectEffects DEF direct, touched
  <2>4. /\ Known(m, c) /\ Live(m, c) /\ m.channels[c].participants[s] = data.clientType
        /\ target \in Members(m.channels[c]) \ {s}
    BY <1>4, <1>5, <1>8, <2>2
  <2> QED
    BY <1>1, <1>2, <1>8, <2>1, <2>2, <2>3, <2>4 DEF Routed, result, target, message
<1>9. CASE /\ result.status = "buffered" /\ ~ Unroutable(m, c, s, data)
           /\ n = buffered /\ result.target = target
  <2>1. /\ SameTable(m, buffered) /\ SameSeats(m, buffered)
        /\ buffered.directDeliveries = m.directDeliveries
        /\ message \in Message
        /\ buffered.channels[c].messageBuffer = Pushed(m.channels[c], message)
        /\ \A d \in Channels \ {c} : Known(m, d) =>
             buffered.channels[d].messageBuffer = m.channels[d].messageBuffer
    BY <1>4, <1>9, BufferedEffects DEF buffered, touched, message
  <2> QED
    BY <1>1, <1>4, <1>5, <1>9, <2>1 DEF Routed, result, target, message
<1> QED
  BY <1>3, <1>6, <1>7, <1>8, <1>9

\* The seats and the table are the same after routeMessage, so the connections fit;
\* the reservation of a direct delivery has its listener.
LEMMA RoutedFits ==
  ASSUME NEW m, Managed(m), NEW state, NEW current, NEW waiting, NEW armed, NEW after,
         Served(m, state, current, waiting, armed),
         \A s \in Sockets : waiting[s] # None => waiting[s].channel \in Channels,
         NEW result, NEW c \in Channels, NEW s \in Sockets, NEW data \in Payload,
         NEW message, message.sourceIp \in Ips, NEW receptive,
         Routed(m, result, c, s, data, message, receptive),
         IF result.status = "direct"
         THEN \A t \in Sockets : IF t = result.target THEN after[t] # None /\ state[t] = "open"
                                 ELSE after[t] = armed[t]
         ELSE after = armed
  PROVE  Managed(result.mgr) /\ Served(result.mgr, state, current, waiting, after)
<1> DEFINE n == result.mgr
           t == result.target
           d == m.directDeliveries
<1>1. Step(m, n) /\ SameTable(m, n)
  BY DEF Routed
<1>2. /\ result.status # "direct" => n.directDeliveries = d
      /\ result.status = "direct" =>
           n.directDeliveries = [d EXCEPT ![t] = [channel |-> c, sourceIp |-> message.sourceIp,
                                                  sizeBytes |-> data.sizeBytes]]
  BY DEF Routed
<1>3. d \in [Sockets -> Reservation \cup {None}]
      /\ n.directDeliveries \in [Sockets -> Reservation \cup {None}]
  BY <1>1 DEF Managed, Sane, Manager, Step
<1> HIDE DEF n, t, d
<1>4. /\ Managed(n) /\ SeatsAreConnected(n, state, current)
      /\ WithinCapacity(n) /\ TombstonesAreEmpty(n)
      /\ \A e \in Channels : Known(n, e) <=> Known(m, e)
      /\ ActiveChannels(n) = ActiveChannels(m)
  BY <1>1, SteppingKeeps DEF Served
<1>5. JoinsFit(n, state, current, waiting)
  BY <1>4 DEF JoinsFit, Served
<1>6. ListenersMatch(n, state, after)
  <2>1. CASE result.status # "direct"
    BY <1>2, <2>1 DEF ListenersMatch, Served, d
  <2>2. CASE result.status = "direct"
    <3> DEFINE r == [channel |-> c, sourceIp |-> message.sourceIp, sizeBytes |-> data.sizeBytes]
    <3>1. n.directDeliveries = [d EXCEPT ![t] = r]
      BY <1>2, <2>2
    <3> HIDE DEF r
    <3>2. \A u \in Sockets : n.directDeliveries[u] = IF u = t THEN r ELSE d[u]
      BY <1>3, <3>1
    <3>3. r # None
      <4>1. r \in Reservation
        BY DEF r, Payload, Reservation
      <4> QED
        BY <4>1, NoneIsNoObject
    <3> QED
      BY <2>2, <3>2, <3>3 DEF ListenersMatch, Served, d, t
  <2> QED
    BY <2>1, <2>2
<1> QED
  BY <1>4, <1>5, <1>6 DEF Served, n

\* The message of a handler, as routeMessage gets it and as it is stored, and the answer.
DataOf(role, seq, size) ==
  [id |-> nextId, clientType |-> role, seq |-> seq, sizeBytes |-> size]
StoredAs(s, role, seq, size) == MessageOf(DataOf(role, seq, size), Address[s], now)
Answered(s, c, seq, size, role) ==
  RouteMessage(mgr, c, s, DataOf(role, seq, size), Address[s], Receptive, now)

\* The three ways the message handler ends: the message is sent; it is stored or
\* refused; or it is and the counterparty is disconnected.
SentOn(result, c, role) ==
  /\ result.status = "direct" /\ result.target \in Receptive
  /\ mgr' = result.mgr /\ nextId' = nextId + 1
  /\ Emit(c, result.target, OtherRole(role), nextId)
  /\ UNCHANGED <<status, rooms, currentChannelId>>

Withheld(result) ==
  /\ result.status # "direct"
  /\ nextId' = IF result.status = "buffered" THEN nextId + 1 ELSE nextId
  /\ UNCHANGED delivered

KeptApart(result) ==
  /\ Withheld(result)
  /\ result.target = None \/ result.mgr.directDeliveries[result.target] # None
  /\ mgr' = result.mgr /\ Disconnected({})

CutOff(result, s) ==
  /\ Withheld(result)
  /\ result.target \in Sockets \ {s} /\ result.mgr.directDeliveries[result.target] = None
  /\ joining[result.target] = None
  /\ mgr' = Forsake(result.mgr, result.target) /\ Disconnected({result.target})

\* A direct delivery can always be armed: routeMessage asked for a receptive target.
LEMMA MessageKinds ==
  ASSUME RelayInv, NEW s \in Sockets, NEW c \in Channels, NEW seq \in Seqs \cup {None},
         NEW size \in Sizes, NEW role \in Roles, MessageHandler(s, c, seq, size, role)
  PROVE  LET data == DataOf(role, seq, size)
             result == Answered(s, c, seq, size, role)
             message == StoredAs(s, role, seq, size)
         IN  /\ data \in Payload /\ data.id = nextId /\ data.clientType = role
             /\ message.sourceIp \in Ips /\ message.id = nextId
             /\ message.targetClientType = OtherRole(role)
             /\ Routed(mgr, result, c, s, data, message, Receptive)
             /\ nextId < MaxMessages /\ UNCHANGED <<now, joining, crossed>>
             /\ SentOn(result, c, role) \/ KeptApart(result) \/ CutOff(result, s)
<1> DEFINE data == DataOf(role, seq, size)
           result == Answered(s, c, seq, size, role)
           message == StoredAs(s, role, seq, size)
           target == result.target
           sent == result.status = "direct" /\ CanArm(target)
           dropped == /\ ~sent /\ target # None
                      /\ result.status = "direct" \/ result.mgr.directDeliveries[target] = None
<1>1. Sane(mgr) /\ now \in Nat /\ nextId \in Nat
  BY RelayRanges
<1>2. /\ data \in Payload /\ data.id = nextId /\ data.clientType = role
      /\ Address[s] \in Ips /\ Receptive \in SUBSET Sockets
      /\ message.sourceIp = Address[s] /\ message.id = nextId
      /\ message.targetClientType = OtherRole(role)
  BY <1>1, RelayAssumption DEF DataOf, StoredAs, Payload, Receptive, OpenSockets, MessageOf
<1>3. Routed(mgr, result, c, s, data, message, Receptive)
  BY <1>1, <1>2, RoutedFacts DEF Answered, StoredAs
<1>4. /\ MayRun(s) /\ nextId < MaxMessages /\ UNCHANGED <<now, joining, crossed>>
      /\ \/ /\ sent
            /\ mgr' = result.mgr
            /\ nextId' = nextId + 1
            /\ Emit(c, target, OtherRole(role), nextId)
            /\ UNCHANGED <<status, rooms, currentChannelId>>
         \/ /\ ~sent
            /\ mgr' = IF dropped THEN Forsake(result.mgr, target) ELSE result.mgr
            /\ nextId' = IF result.status = "buffered" THEN nextId + 1 ELSE nextId
            /\ Disconnected(IF dropped THEN {target} ELSE {})
            /\ UNCHANGED delivered
  BY DEF MessageHandler, Answered, DataOf
<1> HIDE DEF data, result, message
<1>5. result.status = "direct" => sent
  BY <1>3 DEF Routed, CanArm, Receptive
<1>6. target # None => target \in Sockets \ {s}
  BY <1>3 DEF Routed, Members
<1>7. CASE sent
  <2>1. SentOn(result, c, role)
    BY <1>3, <1>4, <1>7 DEF SentOn, Routed
  <2> QED
    BY <1>2, <1>3, <1>4, <2>1 DEF data, result, message
<1>8. CASE ~ sent /\ dropped
  <2>1. joining[target] = None
    BY <1>4, <1>6, <1>8 DEF MayRun
  <2>2. CutOff(result, s)
    BY <1>4, <1>5, <1>6, <1>8, <2>1 DEF CutOff, Withheld
  <2> QED
    BY <1>2, <1>3, <1>4, <2>2 DEF data, result, message
<1>9. CASE ~ sent /\ ~ dropped
  <2>1. KeptApart(result)
    BY <1>4, <1>5, <1>9 DEF KeptApart, Withheld
  <2> QED
    BY <1>2, <1>3, <1>4, <2>1 DEF data, result, message
<1> QED
  BY <1>7, <1>8, <1>9

\* A message leaves every reservation with a listener, and whom it disconnects without
\* a seat.
LEMMA MessageKeeps ==
  ASSUME RelayInv, NEW s \in Sockets, NEW c \in Channels, NEW seq \in Seqs \cup {None},
         NEW size \in Sizes, NEW role \in Roles, MessageHandler(s, c, seq, size, role)
  PROVE  RelayInv'
<1> DEFINE data == DataOf(role, seq, size)
           result == Answered(s, c, seq, size, role)
           message == StoredAs(s, role, seq, size)
           target == result.target
<1>1. /\ Managed(mgr) /\ now \in Nat /\ nextId \in Nat /\ MaxMessages \in Nat
      /\ nextId \in 0 .. MaxMessages /\ now \in 0 .. MaxClock
      /\ ServerTypes /\ Served(mgr, status, currentChannelId, joining, listeners)
  BY RelayRanges
<1>2. /\ data \in Payload /\ message.sourceIp \in Ips
      /\ Routed(mgr, result, c, s, data, message, Receptive)
      /\ nextId < MaxMessages /\ UNCHANGED <<now, joining, crossed>>
      /\ SentOn(result, c, role) \/ KeptApart(result) \/ CutOff(result, s)
  BY MessageKinds
<1>3. \A t \in Sockets : joining[t] # None => joining[t].channel \in Channels
  BY <1>1 DEF ServerTypes, PendingJoin
<1> HIDE DEF data, result, message
<1>4. CASE SentOn(result, c, role)
  <2>1. /\ target \in Sockets /\ status[target] = "open" /\ transport[target] \in Transport
        /\ result.status = "direct" /\ mgr' = result.mgr /\ nextId' = nextId + 1
        /\ Emit(c, target, OtherRole(role), nextId)
        /\ UNCHANGED <<status, rooms, currentChannelId>>
    BY <1>1, <1>4 DEF SentOn, Receptive, OpenSockets, ServerTypes
  <2> DEFINE armed == [kind |-> transport[target].kind, event |-> "drain"]
             busy == [transport[target] EXCEPT !.phase = "busy"]
  <2>2. /\ listeners' = [listeners EXCEPT ![target] = armed]
        /\ transport' = [transport EXCEPT ![target] = busy]
        /\ delivered' = [delivered EXCEPT ![c][OtherRole(role)] = Append(@, nextId)]
    BY <2>1 DEF Emit
  <2>3. armed \in Listener /\ busy \in Transport /\ armed # None
    <3>1. armed \in Listener /\ busy \in Transport
      BY <2>1 DEF Listener, Transport
    <3> QED
      BY <3>1, NoneIsNoRecord
  <2> HIDE DEF armed, busy
  <2>4. OtherRole(role) \in Roles
    BY DEF OtherRole, Roles
  <2>5. ServerTypes'
    <3>1. listeners' \in [Sockets -> Listener \cup {None}] /\ transport' \in [Sockets -> Transport]
      BY <1>1, <2>2, <2>3 DEF ServerTypes
    <3>2. delivered' \in [Channels -> [Roles -> Seq(Nat)]]
      BY <1>1, <2>2, <2>4 DEF ServerTypes
    <3> QED
      BY <1>1, <1>2, <2>1, <3>1, <3>2 DEF ServerTypes
  <2>6. \A t \in Sockets : IF t = target THEN listeners'[t] # None /\ status[t] = "open"
                           ELSE listeners'[t] = listeners[t]
    BY <1>1, <2>1, <2>2, <2>3 DEF ServerTypes
  <2>7. Managed(result.mgr) /\ Served(result.mgr, status, currentChannelId, joining, listeners')
    BY <1>1, <1>2, <1>3, <2>1, <2>6, RoutedFits
  <2>8. nextId' \in 0 .. MaxMessages /\ now' \in 0 .. MaxClock
    BY <1>1, <1>2, <2>1
  <2> QED
    BY <1>2, <2>1, <2>5, <2>7, <2>8, NextInvariant
<1>5. ASSUME Withheld(result)
      PROVE  /\ Managed(result.mgr)
             /\ Served(result.mgr, status, currentChannelId, joining, listeners)
             /\ nextId' \in 0 .. MaxMessages /\ now' \in 0 .. MaxClock
             /\ delivered' = delivered
  <2>1. Managed(result.mgr) /\ Served(result.mgr, status, currentChannelId, joining, listeners)
    BY <1>1, <1>2, <1>3, <1>5, RoutedFits DEF Withheld
  <2> QED
    BY <1>1, <1>2, <1>5, <2>1 DEF Withheld
<1>6. CASE KeptApart(result)
  <2>1. Withheld(result) /\ Disconnected({}) /\ mgr' = result.mgr
    BY <1>6 DEF KeptApart
  <2>2. ServerTypes'
    BY <1>1, <1>2, <1>5, <2>1, DisconnectedFacts DEF ServerTypes
  <2>3. /\ status' = status /\ currentChannelId' = currentChannelId /\ listeners' = listeners
    BY <1>1, <2>1 DEF Disconnected, ServerTypes
  <2> QED
    BY <1>2, <1>5, <2>1, <2>2, <2>3, NextInvariant
<1>7. CASE CutOff(result, s)
  <2>1. /\ Withheld(result) /\ Disconnected({target}) /\ mgr' = Forsake(result.mgr, target)
        /\ target \in Sockets /\ joining[target] = None
    BY <1>7 DEF CutOff
  <2>2. ServerTypes'
    BY <1>1, <1>2, <1>5, <2>1, DisconnectedFacts DEF ServerTypes
  <2>3. Managed(mgr') /\ Served(mgr', status', currentChannelId', joining, listeners')
    BY <1>1, <1>5, <2>1, ForsakenFits
  <2> QED
    BY <1>2, <1>5, <2>1, <2>2, <2>3, NextInvariant
<1> QED
  BY <1>2, <1>4, <1>6, <1>7

-----------------------------------------------------------------------------
(* drain and ready *)

\* What the reservation of a heard socket becomes: another, for the message promoted,
\* or none, and then no listener either.
LEMMA ReadyKeeps ==
  ASSUME RelayInv, NEW s \in Sockets, Ready(s)
  PROVE  RelayInv'
<1> DEFINE advanced == AdvanceDirectDelivery(mgr, s)
           n == advanced.mgr
           next == advanced.next
           c == mgr.directDeliveries[s].channel
           d == mgr.directDeliveries
<1>1. /\ Managed(mgr) /\ Sane(mgr) /\ ServerTypes
      /\ Served(mgr, status, currentChannelId, joining, listeners)
      /\ transport[s] \in Transport
  BY RelayRanges DEF ServerTypes
<1>2. /\ Idle(joining) /\ status[s] = "open"
      /\ UNCHANGED <<now, nextId, status, currentChannelId, joining, rooms, crossed>>
      /\ \/ /\ Heard(s, "ready") /\ next # None
            /\ mgr' = n
            /\ Emit(c, s, next.targetClientType, next.id)
         \/ /\ Heard(s, "ready") /\ next = None
            /\ mgr' = n
            /\ listeners' = [listeners EXCEPT ![s] = None]
            /\ transport' = [transport EXCEPT ![s].phase = "ready"]
            /\ UNCHANGED delivered
         \/ /\ transport' = [transport EXCEPT ![s].phase = "ready"]
            /\ UNCHANGED <<mgr, listeners, delivered>>
  BY DEF Ready, Quiet, Idle
<1>3. Step(mgr, n)
  BY <1>1, AdvanceDirectDeliveryStep
<1>4. /\ next = None => n.directDeliveries = [d EXCEPT ![s] = None]
      /\ next # None =>
           /\ c \in Channels /\ next \in Message
           /\ n.directDeliveries = [d EXCEPT ![s] = [channel |-> c, sourceIp |-> next.sourceIp,
                                                     sizeBytes |-> next.sizeBytes]]
  BY <1>1, AdvanceDirectDeliveryEffects
<1>5. d \in [Sockets -> Reservation \cup {None}]
  BY <1>1 DEF Sane, Manager
<1> HIDE DEF n, next, c, d, advanced
<1>6. /\ Managed(n) /\ SeatsAreConnected(n, status, currentChannelId)
      /\ WithinCapacity(n) /\ TombstonesAreEmpty(n)
  BY <1>1, <1>3, SteppingKeeps DEF Served
<1>7. \A k : JoinsFit(k, status, currentChannelId, joining)
  BY <1>2, IdleFits
<1>8. CASE /\ next # None /\ mgr' = n /\ Emit(c, s, next.targetClientType, next.id)
  <2> DEFINE r == [channel |-> c, sourceIp |-> next.sourceIp, sizeBytes |-> next.sizeBytes]
             armed == [kind |-> transport[s].kind, event |-> "drain"]
             busy == [transport[s] EXCEPT !.phase = "busy"]
             role == next.targetClientType
             id == next.id
  <2>1. /\ next \in Message /\ c \in Channels /\ role \in Roles /\ id \in Nat
    BY <1>4, <1>8 DEF Message
  <2>2. /\ n.directDeliveries = [d EXCEPT ![s] = r]
        /\ listeners' = [listeners EXCEPT ![s] = armed]
        /\ transport' = [transport EXCEPT ![s] = busy]
        /\ delivered' = [delivered EXCEPT ![c][role] = Append(@, id)]
    BY <1>4, <1>8 DEF Emit
  <2>3. armed \in Listener /\ busy \in Transport
    BY <1>1 DEF Listener, Transport
  <2>4. r \in Reservation
    BY <2>1 DEF Message, Reservation
  <2> HIDE DEF r, armed, busy, role, id
  <2>5. armed # None /\ r # None
    BY <2>3, <2>4, NoneIsNoRecord, NoneIsNoObject
  <2>6. ServerTypes'
    <3>1. listeners' \in [Sockets -> Listener \cup {None}] /\ transport' \in [Sockets -> Transport]
      BY <1>1, <2>2, <2>3 DEF ServerTypes
    <3>2. delivered' \in [Channels -> [Roles -> Seq(Nat)]]
      BY <1>1, <2>1, <2>2 DEF ServerTypes
    <3> QED
      BY <1>1, <1>2, <3>1, <3>2 DEF ServerTypes
  <2>7. ListenersMatch(n, status, listeners')
    <3>1. \A t \in Sockets : /\ listeners'[t] = IF t = s THEN armed ELSE listeners[t]
                             /\ n.directDeliveries[t] = IF t = s THEN r ELSE d[t]
      BY <1>1, <1>5, <2>2 DEF ServerTypes
    <3> QED
      BY <1>1, <1>2, <2>5, <3>1 DEF ListenersMatch, Served, d
  <2>8. Served(n, status, currentChannelId, joining, listeners')
    BY <1>6, <1>7, <2>7 DEF Served
  <2> QED
    BY <1>2, <1>6, <1>8, <2>6, <2>8, NextInvariant DEF RelayInv
<1>9. CASE /\ next = None /\ mgr' = n
           /\ listeners' = [listeners EXCEPT ![s] = None]
           /\ transport' = [transport EXCEPT ![s].phase = "ready"]
           /\ UNCHANGED delivered
  <2>1. ServerTypes'
    <3>1. [transport[s] EXCEPT !.phase = "ready"] \in Transport
      BY <1>1 DEF Transport
    <3>2. listeners' \in [Sockets -> Listener \cup {None}] /\ transport' \in [Sockets -> Transport]
      BY <1>1, <1>9, <3>1 DEF ServerTypes
    <3> QED
      BY <1>1, <1>2, <1>9, <3>2 DEF ServerTypes
  <2>2. ListenersMatch(n, status, listeners')
    <3>1. \A t \in Sockets : /\ listeners'[t] = IF t = s THEN None ELSE listeners[t]
                             /\ n.directDeliveries[t] = IF t = s THEN None ELSE d[t]
      BY <1>1, <1>4, <1>5, <1>9 DEF ServerTypes
    <3> QED
      BY <1>1, <3>1 DEF ListenersMatch, Served, d
  <2>3. Served(n, status, currentChannelId, joining, listeners')
    BY <1>6, <1>7, <2>2 DEF Served
  <2> QED
    BY <1>2, <1>6, <1>9, <2>1, <2>3, NextInvariant DEF RelayInv
<1>10. CASE /\ transport' = [transport EXCEPT ![s].phase = "ready"]
            /\ UNCHANGED <<mgr, listeners, delivered>>
  <2> DEFINE t == [transport[s] EXCEPT !.phase = "ready"]
  <2>1. t \in Transport /\ transport' = [transport EXCEPT ![s] = t]
    BY <1>1, <1>10 DEF Transport
  <2> HIDE DEF t
  <2>2. UNCHANGED <<vars, status, currentChannelId, joining, rooms, delivered, crossed>>
    BY <1>2, <1>10 DEF vars
  <2> QED
    BY <1>10, <2>1, <2>2, TransportKeeps
<1> QED
  BY <1>2, <1>8, <1>9, <1>10

-----------------------------------------------------------------------------
(* join_channel, after the await *)

BufferOf(m, c) == IF Known(m, c) THEN m.channels[c].messageBuffer ELSE << >>

\* n is m with s seated at c, which opened if it was not there, and with the mail of
\* its role taken.
Taken(m, n, c, s, role) ==
  /\ n.directDeliveries = m.directDeliveries
  /\ ~ Tombstone(m, c) /\ Live(n, c)
  /\ \A d \in Channels : Known(n, d) <=> Known(m, d) \/ d = c
  /\ \A d \in Channels : Known(m, d) => n.channels[d].terminated = m.channels[d].terminated
  /\ n.channels[c].participants[s] = role
  /\ \A d \in Channels, t \in Sockets : d # c \/ t # s =>
       /\ Known(m, d) => n.channels[d].participants[t] = m.channels[d].participants[t]
       /\ ~ Known(m, d) /\ d = c => n.channels[d].participants[t] = None
  /\ n.channels[c].messageBuffer =
       Keep(BufferOf(m, c), Range(BufferOf(m, c)) \ For(BufferOf(m, c), role))
  /\ \A d \in Channels \ {c} : Known(m, d) =>
       n.channels[d].messageBuffer = m.channels[d].messageBuffer

\* When every participant is connected there is no stale holder to replace, and a
\* refused join changes nothing.
LEMMA JoinTakes ==
  ASSUME NEW m, Sane(m), NEW c \in Channels, NEW s \in Sockets, NEW role \in Roles,
         NEW publicKey \in Keys \cup {None}, NEW ip \in Ips, NEW active, NEW time \in Nat,
         \A t \in Sockets : Known(m, c) /\ m.channels[c].participants[t] # None => t \in active
  PROVE  LET result == Join(m, c, s, role, publicKey, ip, active, time)
         IN  \/ result.reply # "success" /\ result.mgr = m
             \/ /\ result.reply = "success" /\ Taken(m, result.mgr, c, s, role)
                /\ Known(m, c) => m.channels[c].participants[s] \in {None, role}
                /\ result.bufferedMessages = Keep(BufferOf(m, c), For(BufferOf(m, c), role))
<1> DEFINE result == Join(m, c, s, role, publicKey, ip, active, time)
           key == BoundKey(role, publicKey)
           o == Opened(m, c, ip, time)
           e == EvictRival(o, c, s, role)
           n == Admit(e, c, s, role, key, time).mgr
<1>1. \/ result.mgr = m /\ result.reply # "success"
      \/ /\ ~ Tombstone(m, c)
         /\ ~ JoinRefusedAtOnce(m, c, s, role, key, ip, active)
         /\ \/ result.mgr = e /\ result.reply # "success" /\ JoinRefusedLate(e.channels[c], s, key)
            \/ /\ result.mgr = n
               /\ result.reply = "success"
               /\ result.bufferedMessages =
                    Keep(e.channels[c].messageBuffer, For(e.channels[c].messageBuffer, role))
  BY DEF Join, Opened, Admit
<1>2. key \in Keys \cup {None} /\ role # None
  BY ConstantsAssumption DEF BoundKey
<1> HIDE DEF result, key, o, e, n
<1> SUFFICES ASSUME ~ Tombstone(m, c), ~ JoinRefusedAtOnce(m, c, s, role, key, ip, active)
             PROVE  /\ e = o
                    /\ JoinRefusedLate(o.channels[c], s, key) => o = m
                    /\ Known(m, c) => m.channels[c].participants[s] \in {None, role}
                    /\ Taken(m, n, c, s, role)
                    /\ o.channels[c].messageBuffer = BufferOf(m, c)
  BY <1>1 DEF result
<1>3. /\ Sane(o) /\ Live(o, c)
      /\ o.directDeliveries = m.directDeliveries
      /\ \A d \in Channels : Known(o, d) <=> Known(m, d) \/ d = c
      /\ \A d \in Channels : Known(m, d) => o.channels[d] = m.channels[d]
      /\ ~ Known(m, c) => /\ o.channels[c].messageBuffer = << >>
                          /\ \A t \in Sockets : o.channels[c].participants[t] = None
  BY OpenedEffects DEF o
<1>4. Known(m, c) => /\ m.channels[c].participants[s] \in {None, role}
                     /\ Rivals(m, c, s, role) \cap active = {}
  BY DEF JoinRefusedAtOnce
<1>5. Known(o, c)
  BY <1>3
<1>6. e = o
  <2>1. Rivals(o, c, s, role) = {}
    <3>1. CASE Known(m, c)
      <4>1. Rivals(m, c, s, role) \subseteq active
        BY <1>2 DEF Rivals, MembersIn
      <4>2. Rivals(o, c, s, role) = Rivals(m, c, s, role)
        BY <1>3, <1>5, <3>1 DEF Rivals
      <4> QED
        BY <1>4, <3>1, <4>1, <4>2
    <3>2. CASE ~ Known(m, c)
      BY <1>2, <1>3, <3>2 DEF Rivals, MembersIn
    <3> QED
      BY <3>1, <3>2
  <2> QED
    BY <2>1 DEF EvictRival, e
<1>7. JoinRefusedLate(o.channels[c], s, key) => o = m
  <2>1. CASE Known(m, c)
    BY <2>1 DEF o, Opened
  <2>2. CASE ~ Known(m, c)
    <3>1. o.channels[c].publicKey = None
      <4>1. m.channels \in [Channels -> Channel \cup {None}]
        BY DEF Sane, Manager
      <4>2. o = [m EXCEPT !.channels[c] = NewChannel(ip, time)]
        BY <2>2 DEF o, Opened
      <4>3. o.channels[c] = NewChannel(ip, time)
        BY <4>1, <4>2 DEF Sane, Manager
      <4> QED
        BY <4>3 DEF NewChannel
    <3>2. Members(o.channels[c]) = {}
      BY <1>3, <2>2 DEF Members
    <3>3. Cardinality({}) = 0
      BY FS_EmptySet
    <3> QED
      BY <3>1, <3>2, <3>3 DEF JoinRefusedLate, MaxParticipants
  <2> QED
    BY <2>1, <2>2
<1>8. o.channels[c].messageBuffer = BufferOf(m, c)
  BY <1>3 DEF BufferOf
<1>9. Taken(m, n, c, s, role)
  <2>1. Admitted(o, n, c, s, role, time)
    BY <1>2, <1>3, <1>5, <1>6, AdmitEffects DEF n
  <2>2. /\ SameTable(o, n) /\ n.directDeliveries = o.directDeliveries
        /\ \A d \in Channels, t \in Sockets : Known(o, d) =>
             n.channels[d].participants[t] =
               IF d = c /\ t = s THEN role ELSE o.channels[d].participants[t]
        /\ n.channels[c].messageBuffer =
             Keep(BufferOf(m, c), Range(BufferOf(m, c)) \ For(BufferOf(m, c), role))
        /\ \A d \in Channels \ {c} : Known(o, d) =>
             n.channels[d].messageBuffer = o.channels[d].messageBuffer
    BY <1>8, <2>1 DEF Admitted
  <2>3. /\ Live(n, c)
        /\ \A d \in Channels : Known(n, d) <=> Known(m, d) \/ d = c
        /\ \A d \in Channels : Known(m, d) => n.channels[d].terminated = m.channels[d].terminated
    BY <1>3, <2>2 DEF SameTable, Live
  <2>4. \A d \in Channels, t \in Sockets : d # c \/ t # s =>
          /\ Known(m, d) => n.channels[d].participants[t] = m.channels[d].participants[t]
          /\ ~ Known(m, d) /\ d = c => n.channels[d].participants[t] = None
    BY <1>3, <2>2
  <2>5. \A d \in Channels \ {c} : Known(m, d) =>
          n.channels[d].messageBuffer = m.channels[d].messageBuffer
    BY <1>3, <2>2
  <2> QED
    BY <1>3, <1>5, <2>2, <2>3, <2>4, <2>5 DEF Taken
<1> QED
  BY <1>4, <1>6, <1>7, <1>8, <1>9

\* n is m after a join that took c for s: s holds a seat of c and of no other channel.
Switched(m, n, c, s, role) ==
  /\ n.directDeliveries = m.directDeliveries
  /\ ~ Tombstone(m, c) /\ Live(n, c)
  /\ \A d \in Channels : Known(n, d) <=> Known(m, d) \/ d = c
  /\ \A d \in Channels : Known(m, d) => n.channels[d].terminated = m.channels[d].terminated
  /\ \A d \in Channels, t \in Sockets : Known(n, d) /\ n.channels[d].participants[t] # None =>
       \/ d = c /\ t = s /\ n.channels[d].participants[t] = role
       \/ /\ Known(m, d) /\ t # s
          /\ n.channels[d].participants[t] = m.channels[d].participants[t]
  /\ n.channels[c].messageBuffer =
       Keep(BufferOf(m, c), Range(BufferOf(m, c)) \ For(BufferOf(m, c), role))
  /\ \A d \in Channels \ {c} : Known(m, d) =>
       n.channels[d].messageBuffer = m.channels[d].messageBuffer

\* What waits at c for the role, and the ids of a sequence of messages.
MailIn(m, c, role) == Keep(BufferOf(m, c), For(BufferOf(m, c), role))
Ids(q) == [i \in DOMAIN q |-> q[i].id]

\* What the end of join_channel does when its socket may join.
JoinEnds(s, c, role) ==
  /\ joining' = [joining EXCEPT ![s] = None]
  /\ UNCHANGED <<now, nextId, status, transport, listeners>>
  /\ rooms' \in [Channels -> SUBSET Sockets]
  /\ Managed(mgr')
  /\ \/ mgr' = mgr /\ UNCHANGED <<currentChannelId, delivered, crossed>>
     \/ /\ Switched(mgr, mgr', c, s, role)
        /\ currentChannelId' = [currentChannelId EXCEPT ![s] = c]
        /\ delivered' = [delivered EXCEPT ![c][role] = @ \o Ids(MailIn(mgr, c, role))]
        /\ crossed' = IF /\ mgr.directDeliveries[s] # None
                         /\ mgr.directDeliveries[s].channel # c
                      THEN crossed \cup {c} ELSE crossed

\* join_channel ends in one of two ways: nothing but the wait is over, or its socket
\* has the seat.
LEMMA FinishJoinKinds ==
  ASSUME RelayInv, NEW s \in Sockets, NEW c \in Channels, NEW role \in Roles,
         NEW key \in Keys \cup {None}, NEW switching \in BOOLEAN, NEW joinedRoom \in BOOLEAN,
         FinishJoin(s, c, role, key, switching, joinedRoom),
         switching \/ currentChannelId[s] \in {None, c}
  PROVE  JoinEnds(s, c, role)
<1> DEFINE result == Join(mgr, c, s, role, key, Address[s], OpenSockets, now)
           previous == currentChannelId[s]
           moves == switching /\ previous # None
           k == result.mgr
<1>1. /\ Managed(mgr) /\ Sane(mgr) /\ now \in Nat /\ ServerTypes
      /\ Served(mgr, status, currentChannelId, joining, listeners)
      /\ Address[s] \in Ips /\ OpenSockets \in SUBSET Sockets
  BY RelayRanges, RelayAssumption DEF OpenSockets
<1>2. /\ joining' = [joining EXCEPT ![s] = None]
      /\ UNCHANGED <<now, nextId, status, transport, listeners>>
      /\ \/ /\ result.reply # "success"
            /\ mgr' = k
            /\ rooms' = IF joinedRoom THEN Exit(rooms, c, s) ELSE rooms
            /\ UNCHANGED <<currentChannelId, delivered, crossed>>
         \/ /\ result.reply = "success"
            /\ mgr' = IF moves THEN Leave(k, previous, s, now) ELSE k
            /\ rooms' = IF moves THEN Exit(rooms, previous, s) ELSE rooms
            /\ currentChannelId' = [currentChannelId EXCEPT ![s] = c]
            /\ delivered' = [delivered EXCEPT ![c][role] =
                 @ \o [i \in DOMAIN result.bufferedMessages |-> result.bufferedMessages[i].id]]
            /\ crossed' = IF /\ mgr.directDeliveries[s] # None
                             /\ mgr.directDeliveries[s].channel # c
                          THEN crossed \cup {c} ELSE crossed
  BY DEF FinishJoin
<1>3. \A t \in Sockets : Known(mgr, c) /\ mgr.channels[c].participants[t] # None => t \in OpenSockets
  BY <1>1 DEF Served, SeatsAreConnected, OpenSockets
<1>4. \/ result.reply # "success" /\ k = mgr
      \/ /\ result.reply = "success" /\ Taken(mgr, k, c, s, role)
         /\ result.bufferedMessages = Keep(BufferOf(mgr, c), For(BufferOf(mgr, c), role))
  BY <1>1, <1>3, JoinTakes
<1>5. Managed(k) /\ Sane(k)
  BY <1>1, JoinPreserves DEF Managed, Preserves
<1>6. result.bufferedMessages = Keep(BufferOf(mgr, c), For(BufferOf(mgr, c), role)) =>
        result.bufferedMessages = MailIn(mgr, c, role)
  BY DEF MailIn
<1> HIDE DEF result, k, previous
<1>7. /\ Exit(rooms, c, s) \in [Channels -> SUBSET Sockets]
      /\ Exit(rooms, previous, s) \in [Channels -> SUBSET Sockets]
      /\ rooms \in [Channels -> SUBSET Sockets]
  BY <1>1 DEF Exit, ServerTypes
<1>8. CASE result.reply # "success"
  <2>1. mgr' = mgr /\ UNCHANGED <<currentChannelId, delivered, crossed>>
    BY <1>2, <1>4, <1>8
  <2>2. Managed(mgr')
    BY <1>1, <2>1
  <2> QED
    BY <1>2, <1>7, <1>8, <2>1, <2>2 DEF JoinEnds
<1>9. CASE result.reply = "success"
  <2> DEFINE n == IF moves THEN Leave(k, previous, s, now) ELSE k
  <2>1. Taken(mgr, k, c, s, role)
    BY <1>4, <1>9
  <2>2. /\ Managed(n) /\ SameTable(k, n) /\ SameBuffers(k, n)
        /\ n.directDeliveries = k.directDeliveries
        /\ \A d \in Channels, t \in Sockets : Known(k, d) =>
             n.channels[d].participants[t] =
               IF moves /\ d = previous /\ t = s THEN None ELSE k.channels[d].participants[t]
    <3>1. CASE moves
      <4>1. previous \in Channels
        BY <1>1, <3>1 DEF ServerTypes, previous
      <4>2. n = Leave(k, previous, s, now)
        BY <3>1
      <4> HIDE DEF n
      <4>3. Step(k, n)
        BY <1>1, <1>5, <4>1, <4>2, LeaveStep
      <4>4. Managed(n)
        BY <1>5, <4>3, StepPreserves DEF Managed, Preserves
      <4>5. /\ SameTable(k, n) /\ SameBuffers(k, n)
            /\ n.directDeliveries = k.directDeliveries
            /\ \A d \in Channels, t \in Sockets : Known(k, d) =>
                 n.channels[d].participants[t] =
                   IF d = previous /\ t = s THEN None ELSE k.channels[d].participants[t]
        BY <1>1, <1>5, <4>1, <4>2, LeaveEffects
      <4> QED
        BY <3>1, <4>4, <4>5
    <3>2. CASE ~ moves
      <4>1. n = k
        BY <3>2
      <4>2. SameTable(k, k) /\ SameBuffers(k, k)
        BY DEF SameTable, SameBuffers
      <4> QED
        BY <1>5, <3>2, <4>1, <4>2
    <3> QED
      BY <3>1, <3>2
  <2>3. mgr' = n
    BY <1>2, <1>9
  <2> HIDE DEF n
  <2>4. /\ k.directDeliveries = mgr.directDeliveries
        /\ ~ Tombstone(mgr, c) /\ Live(k, c)
        /\ \A d \in Channels : Known(k, d) <=> Known(mgr, d) \/ d = c
        /\ \A d \in Channels : Known(mgr, d) => k.channels[d].terminated = mgr.channels[d].terminated
        /\ k.channels[c].participants[s] = role
    BY <2>1 DEF Taken
  <2>5. \A d \in Channels, t \in Sockets : d # c \/ t # s =>
          /\ Known(mgr, d) => k.channels[d].participants[t] = mgr.channels[d].participants[t]
          /\ ~ Known(mgr, d) /\ d = c => k.channels[d].participants[t] = None
    BY <2>1 DEF Taken
  <2>6. /\ k.channels[c].messageBuffer =
             Keep(BufferOf(mgr, c), Range(BufferOf(mgr, c)) \ For(BufferOf(mgr, c), role))
        /\ \A d \in Channels \ {c} : Known(mgr, d) =>
             k.channels[d].messageBuffer = mgr.channels[d].messageBuffer
    BY <2>1 DEF Taken
  <2>7. ASSUME NEW d \in Channels, NEW t \in Sockets, Known(n, d),
               n.channels[d].participants[t] # None
        PROVE  \/ d = c /\ t = s /\ n.channels[d].participants[t] = role
               \/ /\ Known(mgr, d) /\ t # s
                  /\ n.channels[d].participants[t] = mgr.channels[d].participants[t]
    <3>1. Known(k, d) /\ ~ (moves /\ d = previous /\ t = s)
          /\ n.channels[d].participants[t] = k.channels[d].participants[t]
      BY <2>2, <2>7 DEF SameTable
    <3>2. CASE d = c /\ t = s
      BY <2>4, <3>1, <3>2
    <3>3. CASE d # c \/ t # s
      <4>1. Known(mgr, d) /\ n.channels[d].participants[t] = mgr.channels[d].participants[t]
        BY <2>4, <2>5, <2>7, <3>1, <3>3
      <4>2. t # s
        <5> SUFFICES ASSUME t = s PROVE FALSE
          OBVIOUS
        <5>1. d = previous /\ d # c /\ previous # None
          BY <1>1, <2>7, <3>3, <4>1, ConstantsAssumption DEF Served, SeatsAreConnected, previous
        <5>2. previous \in {None, c} \/ switching
          BY DEF previous
        <5> QED
          BY <3>1, <5>1, <5>2
      <4> QED
        BY <4>1, <4>2
    <3> QED
      BY <3>2, <3>3
  <2>8. Switched(mgr, n, c, s, role)
    <3>1. /\ n.directDeliveries = mgr.directDeliveries /\ Live(n, c)
          /\ \A d \in Channels : Known(n, d) <=> Known(mgr, d) \/ d = c
          /\ \A d \in Channels : Known(mgr, d) => n.channels[d].terminated = mgr.channels[d].terminated
      BY <2>2, <2>4 DEF SameTable, Live
    <3>2. /\ n.channels[c].messageBuffer =
               Keep(BufferOf(mgr, c), Range(BufferOf(mgr, c)) \ For(BufferOf(mgr, c), role))
          /\ \A d \in Channels \ {c} : Known(mgr, d) =>
               n.channels[d].messageBuffer = mgr.channels[d].messageBuffer
      BY <2>2, <2>4, <2>6 DEF SameBuffers
    <3> QED
      BY <2>4, <2>7, <3>1, <3>2 DEF Switched
  <2>9. rooms' \in [Channels -> SUBSET Sockets]
    BY <1>2, <1>7, <1>9
  <2> QED
    BY <1>2, <1>4, <1>6, <1>9, <2>2, <2>3, <2>8, <2>9 DEF JoinEnds, Ids
<1> QED
  BY <1>8, <1>9

\* The ids of a sequence of messages.
LEMMA IdsType ==
  ASSUME NEW q \in Seq(Message)
  PROVE  /\ Ids(q) \in Seq(Nat) /\ Len(Ids(q)) = Len(q) /\ DOMAIN Ids(q) = DOMAIN q
         /\ \A i \in DOMAIN q : Ids(q)[i] = q[i].id
<1>1. DOMAIN q = 1 .. Len(q) /\ Len(q) \in Nat /\ \A i \in DOMAIN q : q[i] \in Message
  OBVIOUS
<1>2. \A i \in DOMAIN q : q[i].id \in Nat
  BY <1>1 DEF Message
<1> QED
  BY <1>1, <1>2 DEF Ids

\* A buffer is a sequence of messages, there or not.
LEMMA BufferOfType ==
  ASSUME NEW m, Sane(m), NEW c \in Channels
  PROVE  BufferOf(m, c) \in Seq(Message)
BY BufferTypes DEF BufferOf

\* There was room for the channel a join opens, and its socket is in no other.
LEMMA JoinEndsKeeps ==
  ASSUME RelayInv, NEW s \in Sockets, NEW c \in Channels, NEW role \in Roles,
         JoinEnds(s, c, role),
         status[s] = "open", \A t \in Sockets \ {s} : joining[t] = None,
         Known(mgr, c) \/ Cardinality(ActiveChannels(mgr)) < MaxActiveChannels
  PROVE  RelayInv'
<1>1. /\ Managed(mgr) /\ Sane(mgr) /\ ServerTypes
      /\ Served(mgr, status, currentChannelId, joining, listeners)
      /\ now \in 0 .. MaxClock /\ nextId \in 0 .. MaxMessages
  BY RelayRanges
<1>2. /\ joining' = [joining EXCEPT ![s] = None]
      /\ UNCHANGED <<now, nextId, status, transport, listeners>>
      /\ rooms' \in [Channels -> SUBSET Sockets]
      /\ Managed(mgr')
  BY DEF JoinEnds
<1>3. joining' \in [Sockets -> PendingJoin \cup {None}] /\ Idle(joining')
  BY <1>1, <1>2 DEF ServerTypes, Idle
<1>4. JoinsFit(mgr', status', currentChannelId', joining')
  BY <1>3, IdleFits
<1>5. CASE mgr' = mgr /\ UNCHANGED <<currentChannelId, delivered, crossed>>
  <2>1. ServerTypes'
    BY <1>1, <1>2, <1>3, <1>5 DEF ServerTypes
  <2>2. Served(mgr', status', currentChannelId', joining', listeners')
    BY <1>1, <1>2, <1>4, <1>5 DEF Served
  <2> QED
    BY <1>1, <1>2, <2>1, <2>2, NextInvariant
<1>6. CASE /\ Switched(mgr, mgr', c, s, role)
           /\ currentChannelId' = [currentChannelId EXCEPT ![s] = c]
           /\ delivered' = [delivered EXCEPT ![c][role] = @ \o Ids(MailIn(mgr, c, role))]
           /\ crossed' = IF /\ mgr.directDeliveries[s] # None
                            /\ mgr.directDeliveries[s].channel # c
                         THEN crossed \cup {c} ELSE crossed
  <2> DEFINE n == mgr'
             ids == Ids(MailIn(mgr, c, role))
  <2>1. ids \in Seq(Nat)
    <3>1. MailIn(mgr, c, role) \in Seq(Message)
      BY <1>1, BufferOfType, KeepFacts DEF MailIn
    <3> QED
      BY <3>1, IdsType
  <2>2. /\ delivered' = [delivered EXCEPT ![c][role] = delivered[c][role] \o ids]
        /\ Switched(mgr, n, c, s, role)
    BY <1>6
  <2> HIDE DEF ids, n
  <2>3. /\ \A d \in Channels : Known(n, d) <=> Known(mgr, d) \/ d = c
        /\ \A d \in Channels : Known(mgr, d) => n.channels[d].terminated = mgr.channels[d].terminated
        /\ ~ Tombstone(mgr, c) /\ Live(n, c)
        /\ n.directDeliveries = mgr.directDeliveries
    BY <2>2 DEF Switched
  <2>4. \A d \in Channels, t \in Sockets : Known(n, d) /\ n.channels[d].participants[t] # None =>
          \/ d = c /\ t = s /\ n.channels[d].participants[t] = role
          \/ /\ Known(mgr, d) /\ t # s
             /\ n.channels[d].participants[t] = mgr.channels[d].participants[t]
    BY <2>2 DEF Switched
  <2>5. \A t \in Sockets : currentChannelId'[t] = IF t = s THEN c ELSE currentChannelId[t]
    BY <1>1, <1>6 DEF ServerTypes
  <2>6. SeatsAreConnected(n, status', currentChannelId')
    BY <1>1, <1>2, <2>4, <2>5 DEF SeatsAreConnected, Served
  <2>7. WithinCapacity(n)
    <3>1. ActiveChannels(n) \subseteq ActiveChannels(mgr) \cup {c}
      BY <2>3 DEF ActiveChannels, Live
    <3>2. c \in ActiveChannels(mgr) \/ Cardinality(ActiveChannels(mgr)) < MaxActiveChannels
      BY <2>3 DEF ActiveChannels, Live, Tombstone
    <3> QED
      BY <1>1, <3>1, <3>2, OneMoreActive DEF Served
  <2>8. TombstonesAreEmpty(n)
    <3> SUFFICES ASSUME NEW d \in Channels, NEW t \in Sockets, Tombstone(n, d)
                 PROVE  n.channels[d].participants[t] = None
      BY DEF TombstonesAreEmpty
    <3>1. d # c /\ Known(n, d) /\ Known(mgr, d)
      BY <2>3 DEF Tombstone, Live
    <3>2. Tombstone(mgr, d)
      BY <2>3, <3>1 DEF Tombstone
    <3>3. mgr.channels[d].participants[t] = None
      BY <1>1, <3>2 DEF Served, TombstonesAreEmpty
    <3> QED
      BY <2>4, <3>1, <3>3
  <2>9. ListenersMatch(n, status', listeners')
    BY <1>1, <1>2, <2>3 DEF ListenersMatch, Served
  <2>10. ServerTypes'
    <3>1. delivered' \in [Channels -> [Roles -> Seq(Nat)]]
      <4>1. delivered[c][role] \o ids \in Seq(Nat)
        BY <1>1, <2>1 DEF ServerTypes
      <4> QED
        BY <1>1, <2>2, <4>1 DEF ServerTypes
    <3>2. crossed' \in SUBSET Channels
      BY <1>1, <1>6 DEF ServerTypes
    <3>3. currentChannelId' \in [Sockets -> Channels \cup {None}]
      BY <1>1, <1>6 DEF ServerTypes
    <3> QED
      BY <1>1, <1>2, <1>3, <3>1, <3>2, <3>3 DEF ServerTypes
  <2>11. Served(mgr', status', currentChannelId', joining', listeners')
    BY <1>4, <2>6, <2>7, <2>8, <2>9 DEF Served, n
  <2> QED
    BY <1>1, <1>2, <2>10, <2>11, NextInvariant
<1> QED
  BY <1>5, <1>6 DEF JoinEnds

\* The two actions that end a join, as one.
LEMMA JoinActions ==
  ASSUME RelayInv, NEW s \in Sockets,
         \/ \E c \in Channels, role \in Roles, key \in Keys \cup {None} : Rejoin(s, c, role, key)
         \/ ContinueJoin(s)
  PROVE  \E c \in Channels, role \in Roles :
           /\ JoinEnds(s, c, role)
           /\ status[s] = "open" /\ \A t \in Sockets \ {s} : joining[t] = None
           /\ Known(mgr, c) \/ Cardinality(ActiveChannels(mgr)) < MaxActiveChannels
<1>1. ServerTypes /\ Served(mgr, status, currentChannelId, joining, listeners)
  BY RelayRanges
<1>2. CASE \E c \in Channels, role \in Roles, key \in Keys \cup {None} : Rejoin(s, c, role, key)
  <2>1. PICK c \in Channels, role \in Roles, key \in Keys \cup {None} : Rejoin(s, c, role, key)
    BY <1>2
  <2>2. /\ FinishJoin(s, c, role, key, FALSE, FALSE) /\ currentChannelId[s] = c
        /\ status[s] = "open" /\ \A t \in Sockets \ {s} : joining[t] = None
        /\ Known(mgr, c) \/ Cardinality(ActiveChannels(mgr)) < MaxActiveChannels
    BY <2>1 DEF Rejoin, MayRun, Admissible
  <2>3. JoinEnds(s, c, role)
    BY <2>2, FinishJoinKinds
  <2> QED
    BY <2>2, <2>3
<1>3. CASE ContinueJoin(s)
  <2> DEFINE j == joining[s]
  <2>1. j # None /\ FinishJoin(s, j.channel, j.role, j.key, j.switching, TRUE)
    BY <1>3 DEF ContinueJoin
  <2>2. /\ j.channel \in Channels /\ j.role \in Roles /\ j.key \in Keys \cup {None}
        /\ j.switching \in BOOLEAN
    BY <1>1, <2>1 DEF ServerTypes, PendingJoin
  <2>3. /\ status[s] = "open" /\ \A t \in Sockets \ {s} : joining[t] = None
        /\ j.switching \/ currentChannelId[s] = None
        /\ Known(mgr, j.channel) \/ Cardinality(ActiveChannels(mgr)) < MaxActiveChannels
    BY <1>1, <2>1 DEF Served, JoinsFit
  <2> HIDE DEF j
  <2>4. JoinEnds(s, j.channel, j.role)
    BY <2>1, <2>2, <2>3, FinishJoinKinds
  <2> QED
    BY <2>2, <2>3, <2>4
<1> QED
  BY <1>2, <1>3

\* A join, however it ends.
LEMMA JoinKeeps ==
  ASSUME RelayInv, NEW s \in Sockets,
         \/ \E c \in Channels, role \in Roles, key \in Keys \cup {None} : Rejoin(s, c, role, key)
         \/ ContinueJoin(s)
  PROVE  RelayInv'
<1>1. PICK c \in Channels, role \in Roles :
        /\ JoinEnds(s, c, role)
        /\ status[s] = "open" /\ \A t \in Sockets \ {s} : joining[t] = None
        /\ Known(mgr, c) \/ Cardinality(ActiveChannels(mgr)) < MaxActiveChannels
  BY JoinActions
<1> QED
  BY <1>1, JoinEndsKeeps

-----------------------------------------------------------------------------
(* The theorems *)

\* The server starts without connections.
LEMMA InitRelayInv == RelayInit => RelayInv
<1> SUFFICES ASSUME RelayInit PROVE RelayInv
  OBVIOUS
<1>1. Init /\ IInv
  BY InitIInv DEF RelayInit
<1>2. /\ mgr = NewManager /\ now = 0 /\ nextId = 0
      /\ status = [s \in Sockets |-> "new"]
      /\ currentChannelId = [s \in Sockets |-> None]
      /\ joining = [s \in Sockets |-> None]
      /\ rooms = [c \in Channels |-> {}]
      /\ transport = [s \in Sockets |-> NoTransport]
      /\ listeners = [s \in Sockets |-> None]
      /\ delivered = [c \in Channels |-> [role \in Roles |-> << >>]]
      /\ crossed = {}
  BY DEF RelayInit, Init
<1>3. Managed(mgr) /\ now \in 0 .. MaxClock /\ nextId \in 0 .. MaxMessages
  BY <1>1 DEF IInv, Managed
<1>4. ServerTypes
  <2>1. NoTransport \in Transport
    BY DEF NoTransport, Transport
  <2> QED
    BY <1>2, <2>1 DEF ServerTypes
<1>5. \A c \in Channels : ~ Known(mgr, c)
  BY <1>2 DEF NewManager, Known
<1>6. WithinCapacity(mgr)
  <2>1. ActiveChannels(mgr) = {}
    BY <1>5 DEF ActiveChannels, Live
  <2> QED
    BY <2>1, FS_EmptySet, RelayAssumption DEF WithinCapacity
<1>7. Served(mgr, status, currentChannelId, joining, listeners)
  BY <1>2, <1>5, <1>6 DEF Served, SeatsAreConnected, ListenersMatch, TombstonesAreEmpty,
                         Tombstone, JoinsFit, NewManager
<1> QED
  BY <1>3, <1>4, <1>7 DEF RelayInv

\* Every handler, listener and timer keeps the invariant.
LEMMA RelayNextKeeps == RelayInv /\ [RelayNext]_allVars => RelayInv'
<1> SUFFICES ASSUME RelayInv, [RelayNext]_allVars PROVE RelayInv'
  OBVIOUS
<1>1. ASSUME NEW s \in Sockets, Connect(s) PROVE RelayInv'
  BY <1>1, ConnectKeeps
<1>2. ASSUME NEW s \in Sockets, Disconnect(s) PROVE RelayInv'
  BY <1>2, DisconnectKeeps
<1>3. ASSUME NEW s \in Sockets, NEW c \in Channels, NEW role \in Roles,
             NEW key \in Keys \cup {None}, Rejoin(s, c, role, key)
      PROVE  RelayInv'
  BY <1>3, JoinKeeps
<1>4. ASSUME NEW s \in Sockets, NEW c \in Channels, NEW role \in Roles,
             NEW key \in Keys \cup {None}, StartJoin(s, c, role, key)
      PROVE  RelayInv'
  BY <1>4, StartJoinKeeps
<1>5. ASSUME NEW s \in Sockets, ContinueJoin(s) PROVE RelayInv'
  BY <1>5, JoinKeeps
<1>6. ASSUME NEW s \in Sockets, NEW c \in Channels, LeaveHandler(s, c) PROVE RelayInv'
  BY <1>6, LeaveHandlerKeeps
<1>7. ASSUME NEW s \in Sockets, NEW c \in Channels, CloseHandler(s, c) PROVE RelayInv'
  BY <1>7, CloseHandlerKeeps
<1>8. ASSUME NEW s \in Sockets, NEW c \in Channels, NEW seq \in Seqs \cup {None},
             NEW size \in Sizes, NEW role \in Roles, MessageHandler(s, c, seq, size, role)
      PROVE  RelayInv'
  BY <1>8, MessageKeeps
<1>9. ASSUME NEW s \in Sockets, Ready(s) PROVE RelayInv'
  BY <1>9, ReadyKeeps
<1>10. ASSUME NEW s \in Sockets,
              Drain(s) \/ ReadyForControl(s) \/ ControlWrite(s) \/ Upgrade(s)
       PROVE  RelayInv'
  BY <1>10, PacingKeeps
<1>11. CASE CleanupInterval
  BY <1>11, CleanupKeeps
<1>12. CASE Elapse
  BY <1>12, ElapseKeeps
<1>13. CASE UNCHANGED allVars
  <2>1. /\ mgr' = mgr /\ now' = now /\ nextId' = nextId /\ UNCHANGED relayVars
    BY <1>13 DEF allVars, vars
  <2>2. ServerTypes'
    BY <2>1 DEF relayVars, ServerTypes, RelayInv
  <2> QED
    BY <2>1, <2>2, NextInvariant DEF relayVars, RelayInv
<1> QED
  BY <1>1, <1>2, <1>3, <1>4, <1>5, <1>6, <1>7, <1>8, <1>9, <1>10, <1>11, <1>12, <1>13
     DEF RelayNext

\* Every reachable state satisfies the invariant of the server.
LEMMA RelayInvariance == RelaySpec => []RelayInv
<1> QED
  BY InitRelayInv, RelayNextKeeps, PTL DEF RelaySpec

\* Every variable of the server holds a value of its type, whatever the clients send
\* and in whatever order the handlers run.
THEOREM RelayTyped == RelaySpec => []RelayTypeOK
<1>1. RelayInv => RelayTypeOK
  BY DEF RelayInv, RelayTypeOK, ServerTypes, TypeOK, Managed, Sane
<1> QED
  BY <1>1, RelayInvariance, PTL

\* A participant of a channel is a connected socket, and that channel its current one:
\* the disconnect handler, which leaves only the current channel, leaves no ghost.
THEOREM ParticipantsAreConnectedHolds == RelaySpec => []ParticipantsAreConnected
<1>1. RelayInv => ParticipantsAreConnected
  BY DEF RelayInv, Served, SeatsAreConnected, ParticipantsAreConnected, Members
<1> QED
  BY <1>1, RelayInvariance, PTL

\* There are never more live channels than the relay's capacity, although join_channel
\* tests it before it awaits and creates the channel after.
THEOREM ChannelCapacityHoldsAcrossAwait == RelaySpec => []ChannelCapacityHolds
<1>1. RelayInv => ChannelCapacityHolds
  BY DEF RelayInv, Served, WithinCapacity, ChannelCapacityHolds
<1> QED
  BY <1>1, RelayInvariance, PTL

\* A direct delivery is in flight to a socket exactly while a listener waits for its
\* transport, and the socket is connected.
THEOREM ListenersMatchReservationsHolds == RelaySpec => []ListenersMatchReservations
<1>1. RelayInv => ListenersMatchReservations
  BY DEF RelayInv, Served, ListenersMatch, ListenersMatchReservations
<1> QED
  BY <1>1, RelayInvariance, PTL

-----------------------------------------------------------------------------
(* Mail has a consumer *)

\* In every live channel that no join has crossed, what is in flight to a participant
\* belongs to the channel, and when nothing is, no mail waits for it.
Supplied(m, past, s) ==
  \A c \in Channels \ past : Live(m, c) /\ m.channels[c].participants[s] # None =>
    /\ m.directDeliveries[s] # None => m.directDeliveries[s].channel = c
    /\ m.directDeliveries[s] = None =>
         For(m.channels[c].messageBuffer, m.channels[c].participants[s]) = {}

MailInv == RelayInv /\ \A s \in Sockets : Supplied(mgr, crossed, s)

\* As far as s can tell, n has less of the same mail, and the deliveries to its
\* channels that m had.
Fades(m, n, s) ==
  \A c \in Channels : Live(n, c) /\ n.channels[c].participants[s] # None =>
    /\ Live(m, c)
    /\ n.channels[c].participants[s] = m.channels[c].participants[s]
    /\ Range(n.channels[c].messageBuffer) \subseteq Range(m.channels[c].messageBuffer)
    /\ m.directDeliveries[s] = None => n.directDeliveries[s] = None
    /\ m.directDeliveries[s] # None /\ m.directDeliveries[s].channel = c =>
         n.directDeliveries[s] = m.directDeliveries[s]

\* Less mail has a consumer too.
LEMMA FadesSupplies ==
  ASSUME NEW m, NEW n, NEW past, NEW later, past \subseteq later, NEW s,
         Supplied(m, past, s), Fades(m, n, s)
  PROVE  Supplied(n, later, s)
<1> SUFFICES ASSUME NEW c \in Channels \ later, Live(n, c), n.channels[c].participants[s] # None
             PROVE  /\ n.directDeliveries[s] # None => n.directDeliveries[s].channel = c
                    /\ n.directDeliveries[s] = None =>
                         For(n.channels[c].messageBuffer, n.channels[c].participants[s]) = {}
  BY DEF Supplied
<1>1. /\ Live(m, c)
      /\ n.channels[c].participants[s] = m.channels[c].participants[s]
      /\ Range(n.channels[c].messageBuffer) \subseteq Range(m.channels[c].messageBuffer)
      /\ m.directDeliveries[s] = None => n.directDeliveries[s] = None
      /\ m.directDeliveries[s] # None /\ m.directDeliveries[s].channel = c =>
           n.directDeliveries[s] = m.directDeliveries[s]
  BY DEF Fades
<1>2. /\ m.directDeliveries[s] # None => m.directDeliveries[s].channel = c
      /\ m.directDeliveries[s] = None =>
           For(m.channels[c].messageBuffer, m.channels[c].participants[s]) = {}
  BY <1>1 DEF Supplied
<1>3. CASE m.directDeliveries[s] = None
  BY <1>1, <1>2, <1>3 DEF For
<1>4. CASE m.directDeliveries[s] # None
  BY <1>1, <1>2, <1>4
<1> QED
  BY <1>3, <1>4

\* A method that changes no reservation, seats nobody and stores nothing.
LEMMA ContentFades ==
  ASSUME NEW m, NEW n, NEW s \in Sockets,
         SameTable(m, n), SameBuffers(m, n),
         n.directDeliveries[s] = m.directDeliveries[s],
         \A c \in Channels : Known(m, c) =>
           n.channels[c].participants[s] \in {None, m.channels[c].participants[s]}
  PROVE  Fades(m, n, s)
BY DEF Fades, SameTable, SameBuffers, Live

\* leave_channel.
LEMMA LeaveHandlerSupplies ==
  ASSUME MailInv, NEW s \in Sockets, NEW c \in Channels, LeaveHandler(s, c), NEW t \in Sockets
  PROVE  Supplied(mgr', crossed', t)
<1>1. Sane(mgr) /\ now \in Nat /\ mgr' = Leave(mgr, c, s, now) /\ crossed' = crossed
  BY RelayRanges DEF MailInv, LeaveHandler
<1>2. Fades(mgr, mgr', t)
  BY <1>1, LeaveEffects, ContentFades
<1> QED
  BY <1>1, <1>2, FadesSupplies DEF MailInv

\* close_channel.
LEMMA CloseHandlerSupplies ==
  ASSUME MailInv, NEW s \in Sockets, NEW c \in Channels, CloseHandler(s, c), NEW t \in Sockets
  PROVE  Supplied(mgr', crossed', t)
<1> DEFINE l == Leave(mgr, c, s, now)
           n == Close(l, c, now)
<1>1. /\ Sane(mgr) /\ now \in Nat /\ mgr' = n /\ crossed' = crossed /\ IsMember(mgr, c, s)
      /\ Served(mgr, status, currentChannelId, joining, listeners)
  BY RelayRanges DEF MailInv, CloseHandler
<1>2. Live(mgr, c)
  BY <1>1 DEF IsMember, Live, Tombstone, TombstonesAreEmpty, Served
<1>3. /\ SameTable(mgr, l) /\ SameBuffers(mgr, l)
      /\ l.directDeliveries = mgr.directDeliveries
      /\ \A d \in Channels, u \in Sockets : Known(mgr, d) =>
           l.channels[d].participants[u] =
             IF d = c /\ u = s THEN None ELSE mgr.channels[d].participants[u]
  BY <1>1, LeaveEffects
<1>4. Sane(l)
  BY <1>1, LeaveStep DEF Step
<1> HIDE DEF l
<1>5. Live(l, c)
  BY <1>2, <1>3 DEF SameTable, Live
<1>6. Supplied(l, crossed, t)
  <2>1. Fades(mgr, l, t)
    BY <1>3, ContentFades
  <2> QED
    BY <2>1, FadesSupplies DEF MailInv
<1>7. /\ \A d \in Channels \ {c} : Known(n, d) => n.channels[d] = l.channels[d]
      /\ Known(n, c) => Tombstone(n, c)
      /\ DeliveriesKept(l, n)
  BY <1>1, <1>4, <1>5, CloseEffects
<1> HIDE DEF n
<1>8. Fades(l, n, t)
  <2> SUFFICES ASSUME NEW d \in Channels, Live(n, d), n.channels[d].participants[t] # None
               PROVE  /\ Live(l, d) /\ n.channels[d] = l.channels[d]
                      /\ l.directDeliveries[t] = None => n.directDeliveries[t] = None
                      /\ l.directDeliveries[t] # None /\ l.directDeliveries[t].channel = d =>
                           n.directDeliveries[t] = l.directDeliveries[t]
    BY DEF Fades
  <2>1. d # c /\ n.channels[d] = l.channels[d] /\ Known(n, d)
    BY <1>7 DEF Live, Tombstone
  <2>2. Live(l, d)
    BY <2>1 DEF Live, Known
  <2>3. /\ l.directDeliveries[t] = None => n.directDeliveries[t] = None
        /\ l.directDeliveries[t] # None /\ l.directDeliveries[t].channel = d =>
             n.directDeliveries[t] = l.directDeliveries[t]
    BY <1>7, <2>1 DEF DeliveriesKept
  <2> QED
    BY <2>1, <2>2, <2>3
<1> QED
  BY <1>1, <1>6, <1>8, FadesSupplies

\* The cleanup timer.
LEMMA CleanupSupplies ==
  ASSUME MailInv, CleanupInterval, NEW t \in Sockets
  PROVE  Supplied(mgr', crossed', t)
<1> DEFINE n == Cleanup(mgr, now)
<1>1. Sane(mgr) /\ now \in Nat /\ mgr' = n /\ crossed' = crossed
  BY RelayRanges DEF MailInv, CleanupInterval, CleanupTimer, relayVars
<1>2. /\ \A c \in Channels : Known(n, c) => Known(mgr, c)
      /\ \A c \in Channels : Known(n, c) =>
           /\ n.channels[c].participants = mgr.channels[c].participants
           /\ n.channels[c].terminated = mgr.channels[c].terminated
           /\ n.channels[c].messageBuffer =
                Keep(mgr.channels[c].messageBuffer,
                     Range(mgr.channels[c].messageBuffer) \ Range(Expired(mgr, c, now)))
      /\ DeliveriesKept(mgr, n)
  <2>1. CleanedUp(mgr, n, now)
    BY <1>1, CleanupEffects
  <2> HIDE DEF n
  <2> QED
    BY <2>1 DEF CleanedUp
<1> HIDE DEF n
<1>3. ASSUME NEW c \in Channels, Known(n, c)
      PROVE  Range(n.channels[c].messageBuffer) \subseteq Range(mgr.channels[c].messageBuffer)
  <2> DEFINE q == mgr.channels[c].messageBuffer
             K == Range(q) \ Range(Expired(mgr, c, now))
  <2>1. q \in Seq(Message)
    BY <1>1, <1>2, <1>3, BufferTypes
  <2>2. n.channels[c].messageBuffer = Keep(q, K)
    BY <1>2, <1>3
  <2> HIDE DEF q, K
  <2>3. Range(Keep(q, K)) = Range(q) \cap K
    BY <2>1, KeepFacts
  <2> QED
    BY <2>2, <2>3 DEF q
<1>4. Fades(mgr, n, t)
  BY <1>2, <1>3 DEF Fades, Live, DeliveriesKept
<1> QED
  BY <1>1, <1>4, FadesSupplies DEF MailInv

\* A socket that goes takes its seat with it, and with the seat its claim to a consumer.
LEMMA ForsakeFades ==
  ASSUME NEW m, Sane(m), NEW s \in Sockets, currentChannelId[s] \in Channels \cup {None},
         now \in Nat, SeatsAreConnected(m, status, currentChannelId), NEW t \in Sockets
  PROVE  IF t = s THEN Supplied(Forsake(m, s), crossed, t) ELSE Fades(m, Forsake(m, s), t)
<1> DEFINE n == Forsake(m, s)
<1>1. /\ SameTable(m, n) /\ SameBuffers(m, n)
      /\ n.directDeliveries = [m.directDeliveries EXCEPT ![s] = None]
      /\ \A d \in Channels, u \in Sockets : Known(m, d) =>
           n.channels[d].participants[u] =
             IF d = currentChannelId[s] /\ u = s THEN None ELSE m.channels[d].participants[u]
  BY ForsakeEffects
<1> HIDE DEF n
<1>2. CASE t = s
  <2>1. \A d \in Channels : Known(n, d) => n.channels[d].participants[s] = None
    BY <1>1 DEF SameTable, SeatsAreConnected
  <2> QED
    BY <1>2, <2>1 DEF Supplied, Live, n
<1>3. CASE t # s
  <2>1. n.directDeliveries[t] = m.directDeliveries[t]
    BY <1>1, <1>3 DEF Sane, Manager
  <2>2. Fades(m, n, t)
    BY <1>1, <2>1, ContentFades
  <2> QED
    BY <1>3, <2>2 DEF n
<1> QED
  BY <1>2, <1>3

\* disconnect.
LEMMA DisconnectSupplies ==
  ASSUME MailInv, NEW s \in Sockets, Disconnect(s), NEW t \in Sockets
  PROVE  Supplied(mgr', crossed', t)
<1>1. /\ Sane(mgr) /\ now \in Nat /\ mgr' = Forsake(mgr, s) /\ crossed' = crossed
      /\ currentChannelId[s] \in Channels \cup {None}
      /\ SeatsAreConnected(mgr, status, currentChannelId)
  BY RelayRanges DEF MailInv, Disconnect, ServerTypes, Served
<1>2. IF t = s THEN Supplied(mgr', crossed, t) ELSE Fades(mgr, mgr', t)
  BY <1>1, ForsakeFades
<1> QED
  BY <1>1, <1>2, FadesSupplies DEF MailInv

\* routeMessage stores for the one counterparty it looks up, and a direct delivery is
\* the target's only one: everybody but a counterparty without a delivery is supplied
\* afterwards.
LEMMA RoutedSupplies ==
  ASSUME NEW m, Managed(m), NEW past, NEW current, NEW state,
         SeatsAreConnected(m, state, current),
         \A u \in Sockets : Supplied(m, past, u),
         NEW result, NEW c \in Channels, NEW s \in Sockets, NEW data \in Payload,
         NEW message, message.targetClientType = OtherRole(data.clientType),
         NEW receptive \in SUBSET Sockets,
         Routed(m, result, c, s, data, message, receptive),
         NEW u \in Sockets, u # result.target \/ result.mgr.directDeliveries[u] # None
  PROVE  Supplied(result.mgr, past, u)
<1> DEFINE n == result.mgr
           t == result.target
           d == m.directDeliveries
<1>1. Sane(m) /\ OneSeat(m) /\ SameTable(m, n) /\ SameSeats(m, n)
      /\ d \in [Sockets -> Reservation \cup {None}]
  BY DEF Routed, Managed, Sane, Manager
<1>2. CASE result.status = "error"
  <2>1. SameBuffers(m, n) /\ n.directDeliveries = d
    BY <1>2 DEF Routed
  <2>2. Fades(m, n, u)
    BY <1>1, <2>1, ContentFades DEF SameSeats
  <2> QED
    BY <2>2, FadesSupplies
<1>3. CASE result.status = "direct"
  <2> DEFINE r == [channel |-> c, sourceIp |-> message.sourceIp, sizeBytes |-> data.sizeBytes]
  <2>1. /\ t \in Sockets /\ SameBuffers(m, n)
        /\ n.directDeliveries = [d EXCEPT ![t] = r]
        /\ Live(m, c) /\ t = Counterparty(m.channels[c], s)
    BY <1>3 DEF Routed
  <2>2. m.channels[c].participants[t] # None
    <3>1. t # None
      BY <2>1, ConstantsAssumption
    <3> QED
      BY <3>1 DEF Routed, Members
  <2>3. r.channel = c
    OBVIOUS
  <2> HIDE DEF r, n, t, d
  <2>4. \A v \in Sockets : n.directDeliveries[v] = IF v = t THEN r ELSE d[v]
    BY <1>1, <2>1
  <2>5. CASE u # t
    <3>1. Fades(m, n, u)
      BY <1>1, <2>1, <2>4, <2>5, ContentFades DEF SameSeats, d
    <3> QED
      BY <3>1, FadesSupplies DEF n
  <2>6. CASE u = t
    <3>1. n.directDeliveries[u] = r /\ n.directDeliveries[u] # None
      BY <2>4, <2>6 DEF n, t
    <3>2. \A e \in Channels : Live(n, e) /\ n.channels[e].participants[u] # None => e = c
      <4>1. \A e \in Channels : Live(n, e) => Known(m, e)
        BY <1>1 DEF SameTable, Live
      <4>2. current[t] = c
        BY <2>1, <2>2 DEF SeatsAreConnected, Live
      <4> QED
        BY <1>1, <2>6, <4>1, <4>2 DEF SeatsAreConnected, SameSeats
    <3> QED
      BY <2>3, <3>1, <3>2 DEF Supplied, n
  <2> QED
    BY <2>5, <2>6
<1>4. CASE result.status = "buffered"
  <2> DEFINE q == m.channels[c].messageBuffer
             p == n.channels[c].messageBuffer
  <2>1. /\ n.directDeliveries = d /\ message \in Message
        /\ p = Pushed(m.channels[c], message)
        /\ \A e \in Channels \ {c} : Known(m, e) =>
             n.channels[e].messageBuffer = m.channels[e].messageBuffer
        /\ Live(m, c) /\ m.channels[c].participants[s] = data.clientType
        /\ t = Counterparty(m.channels[c], s)
    BY <1>4 DEF Routed
  <2>2. Range(p) \subseteq Range(q) \cup {message}
    <3> DEFINE ch == m.channels[c]
               cut == SubSeq(q, Len(Displaced(ch)) + 1, Len(q))
    <3>1. ch \in Channel /\ q \in Seq(Message)
      BY <1>1, <2>1, KnownType DEF Live, Channel
    <3>2. Displaced(ch) \in Seq(Message) /\ Len(Displaced(ch)) \in Nat
      BY <3>1, DisplacedType
    <3>3. cut \in Seq(Message) /\ Range(cut) \subseteq Range(q)
      <4>1. Len(Displaced(ch)) + 1 \in Nat /\ Len(q) \in Nat /\ Len(Displaced(ch)) + 1 >= 1
        BY <3>1, <3>2
      <4> HIDE DEF q, ch
      <4>2. /\ cut \in Seq(Message)
            /\ \A i \in DOMAIN cut : cut[i] = q[i + Len(Displaced(ch))]
                                     /\ i + Len(Displaced(ch)) \in DOMAIN q
        BY <3>1, <3>2, <4>1
      <4> QED
        BY <4>2 DEF Range
    <3>4. p = Append(cut, message)
      BY <2>1 DEF Pushed
    <3> HIDE DEF cut, p, q
    <3> QED
      BY <2>1, <3>3, <3>4 DEF Range
  <2> SUFFICES ASSUME NEW e \in Channels \ past, Live(n, e), n.channels[e].participants[u] # None
               PROVE  /\ n.directDeliveries[u] # None => n.directDeliveries[u].channel = e
                      /\ n.directDeliveries[u] = None =>
                           For(n.channels[e].messageBuffer, n.channels[e].participants[u]) = {}
    BY DEF Supplied
  <2>3. /\ Live(m, e) /\ Known(m, e)
        /\ n.channels[e].participants[u] = m.channels[e].participants[u]
    BY <1>1 DEF SameTable, SameSeats, Live
  <2>4. /\ d[u] # None => d[u].channel = e
        /\ d[u] = None => For(m.channels[e].messageBuffer, m.channels[e].participants[u]) = {}
    BY <2>3 DEF Supplied
  <2>5. ASSUME e = c, d[u] = None
        PROVE  message.targetClientType # m.channels[c].participants[u]
    <3> DEFINE seat == m.channels[c].participants
    <3>1. m.channels[c] \in Channel /\ seat \in [Sockets -> Roles \cup {None}]
      BY <1>1, <2>3, <2>5, KnownType DEF Channel
    <3>2. data.clientType \in Roles /\ seat[s] = data.clientType
          /\ seat[u] \in Roles
      BY <2>1, <2>3, <2>5, <3>1 DEF Payload
    <3>3. OtherRole(data.clientType) # data.clientType
      BY <3>2 DEF OtherRole, Roles
    <3>4. CASE u = s
      BY <3>2, <3>3, <3>4
    <3>5. CASE u # s
      <4>1. u \in Members(m.channels[c]) \ {s}
        BY <2>3, <2>5, <3>5 DEF Members
      <4>2. t \in Members(m.channels[c]) \ {s}
        BY <2>1, <4>1 DEF Counterparty
      <4>3. u # t
        BY <2>1, <2>5
      <4>4. t \in Sockets /\ t # s /\ seat[t] \in Roles
        BY <3>1, <4>2 DEF Members
      <4>5. seat[t] # seat[s] /\ seat[u] # seat[s] /\ seat[t] # seat[u]
        BY <1>1, <2>3, <2>5, <3>2, <3>5, <4>3, <4>4, ConstantsAssumption DEF OneSeat
      <4> QED
        BY <3>2, <4>4, <4>5 DEF Roles
    <3> QED
      BY <3>4, <3>5
  <2>6. ASSUME d[u] = None
        PROVE  For(n.channels[e].messageBuffer, n.channels[e].participants[u]) = {}
    <3>1. CASE e # c
      BY <2>1, <2>3, <2>4, <2>6, <3>1
    <3>2. CASE e = c
      <4>1. For(q, m.channels[c].participants[u]) = {}
        BY <2>4, <2>6, <3>2
      <4>2. message.targetClientType # m.channels[c].participants[u]
        BY <2>5, <2>6, <3>2
      <4> QED
        BY <2>2, <2>3, <3>2, <4>1, <4>2 DEF For
    <3> QED
      BY <3>1, <3>2
  <2> QED
    BY <2>1, <2>4, <2>6
<1> QED
  BY <1>2, <1>3, <1>4 DEF Routed

\* message: the counterparty that got mail without a delivery is cut off.
LEMMA MessageSupplies ==
  ASSUME MailInv, NEW s \in Sockets, NEW c \in Channels, NEW seq \in Seqs \cup {None},
         NEW size \in Sizes, NEW role \in Roles, MessageHandler(s, c, seq, size, role),
         NEW u \in Sockets
  PROVE  Supplied(mgr', crossed', u)
<1> DEFINE data == DataOf(role, seq, size)
           result == Answered(s, c, seq, size, role)
           message == StoredAs(s, role, seq, size)
           n == result.mgr
           t == result.target
<1>1. /\ RelayInv /\ Managed(mgr) /\ Sane(mgr) /\ now \in Nat /\ ServerTypes
      /\ SeatsAreConnected(mgr, status, currentChannelId)
      /\ \A v \in Sockets : Supplied(mgr, crossed, v)
  BY RelayRanges DEF MailInv, Served
<1>2. /\ data \in Payload /\ data.clientType = role
      /\ message.targetClientType = OtherRole(role) /\ message.sourceIp \in Ips
      /\ Routed(mgr, result, c, s, data, message, Receptive)
      /\ UNCHANGED <<now, joining, crossed>>
      /\ SentOn(result, c, role) \/ KeptApart(result) \/ CutOff(result, s)
  BY <1>1, MessageKinds
<1>3. Receptive \in SUBSET Sockets
  BY DEF Receptive, OpenSockets
<1> HIDE DEF data, result, message
<1>4. ASSUME NEW v \in Sockets, v # t \/ n.directDeliveries[v] # None
      PROVE  Supplied(n, crossed, v)
  BY <1>1, <1>2, <1>3, <1>4, RoutedSupplies
<1>5. CASE SentOn(result, c, role)
  <2>1. n.directDeliveries[t] # None
    <3> DEFINE r == [channel |-> c, sourceIp |-> message.sourceIp, sizeBytes |-> data.sizeBytes]
    <3>1. /\ n.directDeliveries = [mgr.directDeliveries EXCEPT ![t] = r] /\ t \in Sockets
          /\ message.sourceIp \in Ips
          /\ mgr.directDeliveries \in [Sockets -> Reservation \cup {None}]
      BY <1>1, <1>2, <1>3, <1>5 DEF SentOn, Routed, Sane, Manager
    <3>2. n.directDeliveries[t] = r
      BY <3>1
    <3>3. r # None
      <4>1. r \in Reservation
        BY <1>2, <3>1 DEF Payload, Reservation
      <4> QED
        BY <4>1, NoneIsNoObject
    <3> QED
      BY <3>2, <3>3
  <2> QED
    BY <1>2, <1>4, <1>5, <2>1 DEF SentOn
<1>6. CASE KeptApart(result)
  <2>1. t \notin Sockets \/ n.directDeliveries[t] # None
    BY <1>6, ConstantsAssumption DEF KeptApart
  <2> QED
    BY <1>2, <1>4, <1>6, <2>1 DEF KeptApart
<1>7. CASE CutOff(result, s)
  <2>1. t \in Sockets /\ mgr' = Forsake(n, t)
    BY <1>7 DEF CutOff
  <2>2. Sane(n) /\ SeatsAreConnected(n, status, currentChannelId)
    <3>1. Step(mgr, n) /\ SameTable(mgr, n) /\ SameSeats(mgr, n)
      BY <1>2 DEF Routed
    <3> QED
      BY <1>1, <3>1 DEF Step, SeatsAreConnected, SameTable, SameSeats
  <2>3. currentChannelId[t] \in Channels \cup {None}
    BY <1>1, <2>1 DEF ServerTypes
  <2>4. IF u = t THEN Supplied(mgr', crossed, u) ELSE Fades(n, mgr', u)
    BY <1>1, <2>1, <2>2, <2>3, ForsakeFades
  <2> QED
    BY <1>2, <1>4, <2>4, FadesSupplies
<1> QED
  BY <1>2, <1>5, <1>6, <1>7

\* ready: the delivery that follows is of the same channel, and when none follows there
\* was nothing left to promote.
LEMMA ReadySupplies ==
  ASSUME MailInv, NEW s \in Sockets, Ready(s), NEW u \in Sockets
  PROVE  Supplied(mgr', crossed', u)
<1> DEFINE advanced == AdvanceDirectDelivery(mgr, s)
           n == advanced.mgr
           next == advanced.next
           d == mgr.directDeliveries
           c == d[s].channel
<1>1. /\ Sane(mgr) /\ d \in [Sockets -> Reservation \cup {None}]
      /\ ListenersMatch(mgr, status, listeners) /\ transport[s] \in Transport
      /\ \A v \in Sockets : Supplied(mgr, crossed, v)
  BY RelayRanges DEF MailInv, Sane, Manager, Served, ServerTypes
<1>2. crossed' = crossed /\ (mgr' = mgr \/ (mgr' = n /\ Heard(s, "ready")))
  BY DEF Ready
<1>3. CASE mgr' = mgr
  BY <1>1, <1>2, <1>3
<1>4. CASE mgr' = n /\ Heard(s, "ready")
  <2>1. d[s] # None
    <3>1. listeners[s] = [kind |-> transport[s].kind, event |-> "ready"]
      BY <1>4 DEF Heard
    <3>2. listeners[s] \in Listener
      BY <1>1, <3>1 DEF Transport, Listener
    <3> QED
      BY <1>1, <3>2, NoneIsNoRecord DEF ListenersMatch
  <2>2. /\ SameTable(mgr, n) /\ SameSeats(mgr, n)
        /\ next = None =>
             /\ Promotable(mgr, s) = {} /\ SameBuffers(mgr, n)
             /\ n.directDeliveries = [d EXCEPT ![s] = None]
        /\ next # None =>
             /\ c \in Channels /\ Known(mgr, c) /\ next \in Message
             /\ n.directDeliveries = [d EXCEPT ![s] = [channel |-> c, sourceIp |-> next.sourceIp,
                                                       sizeBytes |-> next.sizeBytes]]
             /\ n.channels[c].messageBuffer =
                  Keep(mgr.channels[c].messageBuffer,
                       Range(mgr.channels[c].messageBuffer) \ {next})
             /\ \A e \in Channels \ {c} : Known(mgr, e) =>
                  n.channels[e].messageBuffer = mgr.channels[e].messageBuffer
    BY <1>1, AdvanceDirectDeliveryEffects
  <2> HIDE DEF n, next, c, d, advanced
  <2>3. ASSUME NEW e \in Channels, Known(mgr, e)
        PROVE  Range(n.channels[e].messageBuffer) \subseteq Range(mgr.channels[e].messageBuffer)
    <3> DEFINE q == mgr.channels[e].messageBuffer
               K == Range(q) \ {next}
    <3>1. q \in Seq(Message)
      BY <1>1, <2>3, BufferTypes
    <3>2. n.channels[e].messageBuffer \in {q, Keep(q, K)}
      BY <2>2, <2>3 DEF SameBuffers
    <3> HIDE DEF q, K
    <3>3. Range(Keep(q, K)) = Range(q) \cap K
      BY <3>1, KeepFacts
    <3> QED
      BY <3>2, <3>3 DEF q
  <2>4. \A v \in Sockets : v # s => n.directDeliveries[v] = d[v]
    BY <1>1, <2>2
  <2>5. CASE u # s
    <3>1. Fades(mgr, n, u)
      BY <2>2, <2>3, <2>4, <2>5 DEF Fades, SameTable, SameSeats, Live, d
    <3> QED
      BY <1>1, <1>2, <1>4, <3>1, FadesSupplies
  <2>6. CASE u = s
    <3> SUFFICES ASSUME NEW e \in Channels \ crossed, Live(n, e),
                        n.channels[e].participants[s] # None
                 PROVE  /\ n.directDeliveries[s] # None => n.directDeliveries[s].channel = e
                        /\ n.directDeliveries[s] = None =>
                             For(n.channels[e].messageBuffer, n.channels[e].participants[s]) = {}
      BY <1>2, <1>4, <2>6 DEF Supplied
    <3>1. /\ Live(mgr, e) /\ Known(mgr, e)
          /\ n.channels[e].participants[s] = mgr.channels[e].participants[s]
      BY <2>2 DEF SameTable, SameSeats, Live
    <3>2. c = e
      BY <1>1, <2>1, <3>1 DEF Supplied, c, d
    <3>3. CASE next = None
      <4>1. n.directDeliveries[s] = None /\ Promotable(mgr, s) = {} /\ SameBuffers(mgr, n)
        BY <1>1, <2>2, <3>3
      <4>2. e # None /\ ~ mgr.channels[e].terminated
        BY <3>1, ConstantsAssumption DEF Live
      <4>3. For(mgr.channels[e].messageBuffer, mgr.channels[e].participants[s]) = {}
        BY <2>1, <3>2, <4>1, <4>2 DEF Promotable, c, d
      <4> QED
        BY <3>1, <4>1, <4>3 DEF SameBuffers
    <3>4. CASE next # None
      <4> DEFINE r == [channel |-> c, sourceIp |-> next.sourceIp, sizeBytes |-> next.sizeBytes]
      <4>1. n.directDeliveries[s] = r /\ r.channel = e
        BY <1>1, <2>2, <3>2, <3>4
      <4>2. r # None
        <5>1. r \in Reservation
          BY <2>2, <3>4 DEF Message, Reservation
        <5> QED
          BY <5>1, NoneIsNoObject
      <4> QED
        BY <4>1, <4>2
    <3> QED
      BY <3>3, <3>4
  <2> QED
    BY <2>5, <2>6
<1> QED
  BY <1>2, <1>3, <1>4

\* join_channel: the socket takes all the mail of its role, and when it has a delivery in
\* flight on another channel, the channel is crossed.
LEMMA JoinSupplies ==
  ASSUME MailInv, NEW s \in Sockets, NEW c \in Channels, NEW role \in Roles,
         JoinEnds(s, c, role), NEW u \in Sockets
  PROVE  Supplied(mgr', crossed', u)
<1> DEFINE d == mgr.directDeliveries
           q == BufferOf(mgr, c)
           K == Range(q) \ For(q, role)
<1>1. /\ Sane(mgr) /\ \A v \in Sockets : Supplied(mgr, crossed, v)
      /\ q \in Seq(Message)
  BY RelayRanges, BufferOfType DEF MailInv
<1>2. CASE mgr' = mgr /\ crossed' = crossed
  BY <1>1, <1>2
<1>3. CASE /\ Switched(mgr, mgr', c, s, role)
           /\ crossed' = IF d[s] # None /\ d[s].channel # c THEN crossed \cup {c} ELSE crossed
  <2> DEFINE n == mgr'
  <2>1. /\ n.directDeliveries = d
        /\ ~ Tombstone(mgr, c) /\ Live(n, c)
        /\ \A e \in Channels : Known(n, e) <=> Known(mgr, e) \/ e = c
        /\ \A e \in Channels : Known(mgr, e) =>
             n.channels[e].terminated = mgr.channels[e].terminated
        /\ \A e \in Channels, v \in Sockets : Known(n, e) /\ n.channels[e].participants[v] # None =>
             \/ e = c /\ v = s /\ n.channels[e].participants[v] = role
             \/ /\ Known(mgr, e) /\ v # s
                /\ n.channels[e].participants[v] = mgr.channels[e].participants[v]
        /\ n.channels[c].messageBuffer = Keep(q, K)
        /\ \A e \in Channels \ {c} : Known(mgr, e) =>
             n.channels[e].messageBuffer = mgr.channels[e].messageBuffer
    BY <1>3 DEF Switched
  <2>2. crossed \subseteq crossed' /\ (c \notin crossed' => d[s] = None \/ d[s].channel = c)
    BY <1>3
  <2>3. Known(mgr, c) => mgr.channels[c].messageBuffer = q
    BY DEF BufferOf
  <2>4. q \in Seq(Message)
    BY <1>1
  <2> HIDE DEF n, d, q
  <2>5. Range(Keep(q, K)) = Range(q) \ For(q, role)
    <3>1. Range(Keep(q, K)) = Range(q) \cap K
      <4> HIDE DEF K
      <4> QED
        BY <2>4, KeepFacts
    <3> QED
      BY <3>1
  <2> HIDE DEF K
  <2>6. CASE u # s
    <3>1. Fades(mgr, n, u)
      <4> SUFFICES ASSUME NEW e \in Channels, Live(n, e), n.channels[e].participants[u] # None
                   PROVE  /\ Live(mgr, e)
                          /\ n.channels[e].participants[u] = mgr.channels[e].participants[u]
                          /\ Range(n.channels[e].messageBuffer)
                               \subseteq Range(mgr.channels[e].messageBuffer)
        BY <2>1 DEF Fades, d
      <4>1. Known(mgr, e) /\ n.channels[e].participants[u] = mgr.channels[e].participants[u]
        BY <2>1, <2>6 DEF Live
      <4>2. Live(mgr, e)
        BY <2>1, <4>1 DEF Live
      <4>3. CASE e = c
        BY <2>1, <2>3, <2>5, <4>1, <4>2, <4>3
      <4>4. CASE e # c
        BY <2>1, <4>1, <4>2, <4>4
      <4> QED
        BY <4>3, <4>4
    <3> QED
      BY <1>1, <2>2, <3>1, FadesSupplies DEF n
  <2>7. CASE u = s
    <3> SUFFICES ASSUME NEW e \in Channels \ crossed', Live(n, e),
                        n.channels[e].participants[s] # None
                 PROVE  /\ n.directDeliveries[s] # None => n.directDeliveries[s].channel = e
                        /\ n.directDeliveries[s] = None =>
                             For(n.channels[e].messageBuffer, n.channels[e].participants[s]) = {}
      BY <2>7 DEF Supplied, n
    <3>1. e = c /\ n.channels[e].participants[s] = role
      BY <2>1 DEF Live
    <3>2. For(Keep(q, K), role) = {}
      BY <2>5 DEF For
    <3> QED
      BY <2>1, <2>2, <3>1, <3>2
  <2> QED
    BY <2>6, <2>7
<1> QED
  BY <1>2, <1>3 DEF JoinEnds

\* At first there are no channels.
LEMMA InitMailInv == RelayInit => MailInv
<1> SUFFICES ASSUME RelayInit PROVE MailInv
  OBVIOUS
<1>1. RelayInv
  BY InitRelayInv
<1>2. \A c \in Channels : ~ Live(mgr, c)
  BY DEF RelayInit, Init, NewManager, Live, Known
<1> QED
  BY <1>1, <1>2 DEF MailInv, Supplied

\* Every step keeps everyone supplied.
LEMMA RelayNextSupplies == MailInv /\ [RelayNext]_allVars => MailInv'
<1> SUFFICES ASSUME MailInv, [RelayNext]_allVars PROVE MailInv'
  OBVIOUS
<1>1. RelayInv /\ RelayInv'
  BY RelayNextKeeps DEF MailInv
<1> SUFFICES ASSUME NEW u \in Sockets PROVE Supplied(mgr', crossed', u)
  <2>1. \A v \in Sockets : Supplied(mgr, crossed, v)' = Supplied(mgr', crossed', v)
    BY DEF Supplied, Live, Known
  <2> QED
    BY <1>1, <2>1 DEF MailInv
<1>2. CASE mgr' = mgr /\ crossed' = crossed
  BY <1>2 DEF MailInv
<1>3. ASSUME NEW s \in Sockets,
             \/ \E c \in Channels, role \in Roles, key \in Keys \cup {None} : Rejoin(s, c, role, key)
             \/ ContinueJoin(s)
      PROVE  Supplied(mgr', crossed', u)
  <2>1. PICK c \in Channels, role \in Roles : JoinEnds(s, c, role)
    BY <1>1, <1>3, JoinActions
  <2> QED
    BY <2>1, JoinSupplies
<1>4. ASSUME NEW s \in Sockets, Disconnect(s) PROVE Supplied(mgr', crossed', u)
  BY <1>4, DisconnectSupplies
<1>5. ASSUME NEW s \in Sockets, NEW c \in Channels, LeaveHandler(s, c)
      PROVE  Supplied(mgr', crossed', u)
  BY <1>5, LeaveHandlerSupplies
<1>6. ASSUME NEW s \in Sockets, NEW c \in Channels, CloseHandler(s, c)
      PROVE  Supplied(mgr', crossed', u)
  BY <1>6, CloseHandlerSupplies
<1>7. ASSUME NEW s \in Sockets, NEW c \in Channels, NEW seq \in Seqs \cup {None},
             NEW size \in Sizes, NEW role \in Roles, MessageHandler(s, c, seq, size, role)
      PROVE  Supplied(mgr', crossed', u)
  BY <1>7, MessageSupplies
<1>8. ASSUME NEW s \in Sockets, Ready(s) PROVE Supplied(mgr', crossed', u)
  BY <1>8, ReadySupplies
<1>9. CASE CleanupInterval
  BY <1>9, CleanupSupplies
<1>10. ASSUME NEW s \in Sockets, NEW c \in Channels, NEW role \in Roles,
              NEW key \in Keys \cup {None}, Rejoin(s, c, role, key)
       PROVE  Supplied(mgr', crossed', u)
  BY <1>3, <1>10
<1>11. ASSUME NEW s \in Sockets, ContinueJoin(s) PROVE Supplied(mgr', crossed', u)
  BY <1>3, <1>11
<1>12. ASSUME NEW s \in Sockets,
              Connect(s) \/ Drain(s) \/ ReadyForControl(s) \/ ControlWrite(s) \/ Upgrade(s)
       PROVE  Supplied(mgr', crossed', u)
  BY <1>2, <1>12 DEF Connect, Drain, ReadyForControl, ControlWrite, Upgrade, vars
<1>13. ASSUME NEW s \in Sockets, NEW c \in Channels, NEW role \in Roles,
              NEW key \in Keys \cup {None}, StartJoin(s, c, role, key)
       PROVE  Supplied(mgr', crossed', u)
  BY <1>2, <1>13 DEF StartJoin, vars
<1>14. CASE Elapse
  BY <1>2, <1>14 DEF Elapse, Tick, relayVars
<1>15. CASE UNCHANGED allVars
  BY <1>2, <1>15 DEF allVars, vars, relayVars
<1> QED
  BY <1>4, <1>5, <1>6, <1>7, <1>8, <1>9, <1>10, <1>11, <1>12, <1>13, <1>14, <1>15
     DEF RelayNext

\* Every reachable state has its mail supplied with consumers.
LEMMA MailInvariance == RelaySpec => []MailInv
<1> QED
  BY InitMailInv, RelayNextSupplies, PTL DEF RelaySpec

\* A connected participant with mail waiting in its channel's buffer has a delivery in
\* flight on that channel, whose drain will promote it, unless the channel was joined by
\* a socket whose delivery belonged to another.
THEOREM MailHasConsumerHolds == RelaySpec => []MailHasConsumer
<1>1. MailInv => MailHasConsumer
  <2> SUFFICES ASSUME MailInv, NEW c \in Channels, Live(mgr, c), c \notin crossed,
                      NEW s \in Members(mgr.channels[c]),
                      For(mgr.channels[c].messageBuffer, mgr.channels[c].participants[s]) # {}
               PROVE  mgr.directDeliveries[s] # None /\ mgr.directDeliveries[s].channel = c
    BY DEF MailHasConsumer
  <2>1. Supplied(mgr, crossed, s) /\ mgr.channels[c].participants[s] # None
    BY DEF MailInv, Members
  <2> QED
    BY <2>1 DEF Supplied
<1> QED
  BY <1>1, MailInvariance, PTL

-----------------------------------------------------------------------------
(* The mailboxes: what the buffers hold *)

Boxes == Channels \X Roles

\* The messages of a buffer are in the order of their ids.
Rising(q) == \A i, j \in DOMAIN q : i < j => q[i].id < q[j].id

\* Every buffer is, no id is in two buffers, and none is still to come.
Posted(m, next) ==
  /\ \A c \in Channels : Rising(BufferOf(m, c))
  /\ \A c \in Channels : \A x \in Range(BufferOf(m, c)) : x.id < next
  /\ \A c, d \in Channels : \A x \in Range(BufferOf(m, c)), y \in Range(BufferOf(m, d)) :
       x.id = y.id => c = d

IdsIn(S) == {x.id : x \in S}

\* What the box of a role of c holds, and all boxes.
Mail(m, c, role) == Ids(MailIn(m, c, role))
AllMail(m) == UNION {Range(Mail(m, c, role)) : c \in Channels, role \in Roles}

\* One message of a rising buffer has the id of at most one other: itself.
LEMMA RisingUnique ==
  ASSUME NEW q \in Seq(Message), Rising(q), NEW x \in Range(q), NEW y \in Range(q), x.id = y.id
  PROVE  x = y
<1>1. PICK i \in DOMAIN q : q[i] = x
  BY DEF Range
<1>2. PICK j \in DOMAIN q : q[j] = y
  BY DEF Range
<1>3. i \in Nat /\ j \in Nat /\ q[i].id \in Nat /\ q[j].id \in Nat
  <2>1. i \in Nat /\ j \in Nat /\ q[i] \in Message /\ q[j] \in Message
    OBVIOUS
  <2> QED
    BY <2>1 DEF Message
<1>4. ~ (i < j) /\ ~ (j < i)
  BY <1>1, <1>2, <1>3 DEF Rising
<1> QED
  BY <1>1, <1>2, <1>3, <1>4

\* Filtering a rising buffer.
LEMMA KeepRises ==
  ASSUME NEW q \in Seq(Message), NEW K, Rising(q)
  PROVE  Rising(Keep(q, K))
<1> DEFINE r == Keep(q, K)
<1>1. PICK g \in [DOMAIN r -> DOMAIN q] :
        /\ \A i \in DOMAIN r : r[i] = q[g[i]] /\ q[g[i]] \in K
        /\ \A i, j \in DOMAIN r : i < j => g[i] < g[j]
  BY KeepPlaces
<1> HIDE DEF r
<1>2. Rising(r)
  BY <1>1 DEF Rising
<1> QED
  BY <1>2 DEF r

\* The box of a role holds the ids of the messages for it, in their order.
LEMMA MailFacts ==
  ASSUME NEW m, Sane(m), NEW c \in Channels, NEW role \in Roles
  PROVE  /\ MailIn(m, c, role) \in Seq(Message)
         /\ Range(MailIn(m, c, role)) = For(BufferOf(m, c), role)
         /\ Mail(m, c, role) \in Seq(Nat)
         /\ Range(Mail(m, c, role)) = IdsIn(For(BufferOf(m, c), role))
         /\ Rising(BufferOf(m, c)) => Ascends(Mail(m, c, role))
<1> DEFINE q == BufferOf(m, c)
           K == For(q, role)
           r == Keep(q, K)
<1>1. q \in Seq(Message)
  BY BufferOfType
<1>2. K \subseteq Range(q)
  BY DEF For
<1> HIDE DEF q, K
<1>3. r \in Seq(Message) /\ Range(r) = Range(q) \cap K
  BY <1>1, KeepFacts
<1>4. Rising(q) => Rising(r)
  BY <1>1, KeepRises
<1> HIDE DEF r
<1>5. Range(r) = K
  BY <1>2, <1>3
<1>6. /\ Ids(r) \in Seq(Nat) /\ DOMAIN Ids(r) = DOMAIN r
      /\ \A i \in DOMAIN r : Ids(r)[i] = r[i].id
  BY <1>3, IdsType
<1>7. Range(Ids(r)) = IdsIn(K)
  <2>1. ASSUME NEW y \in Range(Ids(r)) PROVE y \in {x.id : x \in K}
    <3>1. PICK i \in DOMAIN r : y = r[i].id
      BY <1>6, <2>1 DEF Range
    <3>2. r[i] \in K
      BY <1>5, <3>1 DEF Range
    <3> QED
      BY <3>1, <3>2
  <2>2. ASSUME NEW x \in K PROVE x.id \in Range(Ids(r))
    <3>1. PICK i \in DOMAIN r : x = r[i]
      BY <1>5, <2>2 DEF Range
    <3> QED
      BY <1>6, <3>1 DEF Range
  <2> QED
    BY <2>1, <2>2 DEF IdsIn
<1>8. Rising(q) => Ascends(Ids(r))
  BY <1>4, <1>6 DEF Rising, Ascends
<1> QED
  BY <1>3, <1>5, <1>6, <1>7, <1>8 DEF Mail, MailIn, r, q, K

\* An id names one message, in one channel and for one role.
LEMMA MailUnique ==
  ASSUME NEW m, Sane(m), NEW next, Posted(m, next),
         NEW c \in Channels, NEW x \in Range(BufferOf(m, c)),
         NEW d \in Channels, NEW y \in Range(BufferOf(m, d)), x.id = y.id
  PROVE  c = d /\ x = y
<1>1. c = d
  BY DEF Posted
<1>2. BufferOf(m, c) \in Seq(Message) /\ Rising(BufferOf(m, c))
  BY BufferOfType DEF Posted
<1> QED
  BY <1>1, <1>2, RisingUnique

-----------------------------------------------------------------------------
(* The steps that lose mail *)

\* The box of role of c in m without what has gone in n.
Left(m, n, c, role) ==
  Keep(Mail(m, c, role), Range(Mail(m, c, role)) \ (AllMail(m) \ AllMail(n)))

\* n holds nothing that m did not, but newcomers with the id next.
Adds(m, n, newcomers, next) ==
  /\ \A x \in newcomers : x.id = next
  /\ \A c \in Channels : Range(BufferOf(n, c)) \subseteq Range(BufferOf(m, c)) \cup newcomers

\* What is left of a box, n has in it.
LEMMA LeftFacts ==
  ASSUME NEW m, Sane(m), NEW n, Sane(n), NEW next \in Nat, Posted(m, next),
         NEW newcomers, Adds(m, n, newcomers, next), NEW c \in Channels, NEW role \in Roles
  PROVE  /\ Left(m, n, c, role) \in Seq(Nat) /\ Ascends(Left(m, n, c, role))
         /\ Range(Left(m, n, c, role)) =
              IdsIn(For(BufferOf(n, c), role) \ newcomers)
<1> DEFINE w == Mail(m, c, role)
           K == Range(w) \ (AllMail(m) \ AllMail(n))
           R == IdsIn(For(BufferOf(n, c), role) \ newcomers)
<1>1. w \in Seq(Nat) /\ Ascends(w) /\ Range(w) = IdsIn(For(BufferOf(m, c), role))
  BY MailFacts DEF Posted
<1>2. Range(w) \cap K = R
  <2>1. ASSUME NEW x \in For(BufferOf(n, c), role) \ newcomers PROVE x.id \in Range(w) \cap K
    <3>1. x.id \in Range(w)
      BY <1>1, <2>1 DEF For, Adds, IdsIn
    <3>2. x.id \in Range(Mail(n, c, role))
      BY <2>1, MailFacts DEF IdsIn
    <3>3. x.id \in AllMail(n)
      BY <3>2 DEF AllMail
    <3> QED
      BY <3>1, <3>3
  <2>2. ASSUME NEW y \in Range(w), y \in K PROVE y \in R
    <3>1. y \in AllMail(n)
      BY <2>2 DEF AllMail
    <3>2. PICK x \in For(BufferOf(m, c), role) : y = x.id
      BY <1>1, <2>2 DEF IdsIn
    <3>3. PICK d \in Channels, other \in Roles : y \in Range(Mail(n, d, other))
      BY <3>1 DEF AllMail
    <3>4. PICK z \in For(BufferOf(n, d), other) : y = z.id
      BY <3>3, MailFacts DEF IdsIn
    <3>5. x \in Range(BufferOf(m, c)) /\ y < next
      BY <3>2 DEF For, Posted
    <3>6. z \notin newcomers
      BY <3>4, <3>5 DEF Adds
    <3>7. z \in Range(BufferOf(m, d))
      BY <3>4, <3>6 DEF For, Adds
    <3>8. c = d /\ x = z
      BY <3>2, <3>4, <3>5, <3>7, MailUnique
    <3>9. x \in For(BufferOf(n, c), role) \ newcomers
      BY <3>2, <3>4, <3>6, <3>8 DEF For
    <3> QED
      BY <3>2, <3>9 DEF IdsIn
  <2> QED
    BY <2>1, <2>2 DEF IdsIn
<1> HIDE DEF w, K, R
<1>3. Keep(w, K) \in Seq(Nat) /\ Ascends(Keep(w, K)) /\ Range(Keep(w, K)) = Range(w) \cap K
  BY <1>1, KeepAscends
<1> QED
  BY <1>2, <1>3 DEF Left, w, K, R

\* n has less of the same mail, in the same order.
Thins(m, n) ==
  \A c \in Channels :
    /\ Range(BufferOf(n, c)) \subseteq Range(BufferOf(m, c))
    /\ Rising(BufferOf(m, c)) => Rising(BufferOf(n, c))

\* Then each box of n is that of m without the ids that have gone.
LEMMA ThinsLoses ==
  ASSUME NEW m, Sane(m), NEW n, Sane(n), NEW next \in Nat, Posted(m, next), Thins(m, n),
         NEW c \in Channels, NEW role \in Roles
  PROVE  Mail(n, c, role) = Left(m, n, c, role)
<1> DEFINE v == Mail(n, c, role)
           w == Left(m, n, c, role)
<1>1. v \in Seq(Nat) /\ Ascends(v) /\ Range(v) = IdsIn(For(BufferOf(n, c), role))
  BY MailFacts DEF Posted, Thins
<1>2. w \in Seq(Nat) /\ Ascends(w) /\ Range(w) = IdsIn(For(BufferOf(n, c), role))
  <2> DEFINE nobody == {}
  <2>1. Adds(m, n, nobody, next)
    BY DEF Thins, Adds
  <2> HIDE DEF nobody
  <2>2. /\ w \in Seq(Nat) /\ Ascends(w)
        /\ Range(w) = IdsIn(For(BufferOf(n, c), role) \ nobody)
    BY <2>1, LeftFacts
  <2>3. For(BufferOf(n, c), role) \ nobody = For(BufferOf(n, c), role)
    BY DEF nobody
  <2> QED
    BY <2>2, <2>3
<1> HIDE DEF v, w
<1>3. v = w
  BY <1>1, <1>2, AscendsUnique
<1> QED
  BY <1>3 DEF v, w

\* Nothing is misplaced then.
LEMMA ThinsPosted ==
  ASSUME NEW m, NEW n, NEW next \in Nat, NEW later \in Nat, next <= later, Sane(m),
         Posted(m, next), Thins(m, n)
  PROVE  Posted(n, later)
<1>1. \A c \in Channels : BufferOf(m, c) \in Seq(Message)
  BY BufferOfType
<1>2. ASSUME NEW c \in Channels, NEW x \in Range(BufferOf(m, c)) PROVE x.id \in Nat
  <2>1. BufferOf(m, c) \in Seq(Message)
    BY <1>1
  <2>2. x \in Message
    BY <1>2, <2>1 DEF Range
  <2> QED
    BY <2>2 DEF Message
<1>3. \A c \in Channels : \A x \in Range(BufferOf(n, c)) : x.id < later
  BY <1>2 DEF Posted, Thins
<1> QED
  BY <1>3 DEF Posted, Thins

-----------------------------------------------------------------------------
(* The steps that store a message and hand mail over *)

\* n is m with x behind what is left in the buffer of c.
Puts(m, n, c, x) ==
  /\ x \in Range(BufferOf(n, c)) /\ Range(BufferOf(n, c)) \subseteq Range(BufferOf(m, c)) \cup {x}
  /\ Rising(BufferOf(m, c)) => Rising(BufferOf(n, c))
  /\ \A d \in Channels \ {c} : BufferOf(n, d) = BufferOf(m, d)

\* Then x is in no other box, and there behind all others.
LEMMA PutsStores ==
  ASSUME NEW m, Sane(m), NEW n, Sane(n), NEW next \in Nat, Posted(m, next),
         NEW c \in Channels, NEW x \in Message, x.id = next, Puts(m, n, c, x),
         NEW d \in Channels, NEW role \in Roles
  PROVE  Mail(n, d, role) = IF d = c /\ role = x.targetClientType
                            THEN Append(Left(m, n, d, role), next) ELSE Left(m, n, d, role)
<1> DEFINE v == Mail(n, d, role)
           w == Left(m, n, d, role)
           F == For(BufferOf(n, d), role)
<1>1. Rising(BufferOf(n, d))
  BY DEF Posted, Puts
<1>2. v \in Seq(Nat) /\ Ascends(v) /\ Range(v) = IdsIn(F)
  BY <1>1, MailFacts
<1>3. Adds(m, n, {x}, next)
  BY DEF Puts, Adds
<1>4. w \in Seq(Nat) /\ Ascends(w) /\ Range(w) = IdsIn(F \ {x})
  BY <1>3, LeftFacts
<1>5. x \in F <=> d = c /\ role = x.targetClientType
  <2>1. \A y \in Range(BufferOf(m, d)) : y.id # next
    <3>1. BufferOf(m, d) \in Seq(Message) /\ \A y \in Range(BufferOf(m, d)) : y.id < next
      BY BufferOfType DEF Posted
    <3>2. ASSUME NEW y \in Range(BufferOf(m, d)) PROVE y.id \in Nat
      <4>1. y \in Message
        BY <3>1, <3>2 DEF Range
      <4> QED
        BY <4>1 DEF Message
    <3> QED
      BY <3>1, <3>2
  <2>2. d # c => x \notin Range(BufferOf(n, d))
    BY <2>1 DEF Puts
  <2> QED
    BY <2>2 DEF For, Puts
<1> HIDE DEF v, w, F
<1>6. CASE d = c /\ role = x.targetClientType
  <2>1. \A y \in Range(w) : y < next
    <3>1. \A y \in F \ {x} : y.id < next
      BY <1>3 DEF F, For, Adds, Posted
    <3> QED
      BY <1>4, <3>1 DEF IdsIn
  <2>2. /\ Append(w, next) \in Seq(Nat) /\ Ascends(Append(w, next))
        /\ Range(Append(w, next)) = Range(w) \cup {next}
    BY <1>4, <2>1, AppendAscends
  <2>3. Range(v) = Range(w) \cup {next}
    BY <1>2, <1>4, <1>5, <1>6 DEF IdsIn
  <2>4. v = Append(w, next)
    BY <1>2, <2>2, <2>3, AscendsUnique
  <2> QED
    BY <1>6, <2>4 DEF v, w
<1>7. CASE ~ (d = c /\ role = x.targetClientType)
  <2>1. F \ {x} = F
    BY <1>5, <1>7
  <2>2. v = w
    BY <1>2, <1>4, <2>1, AscendsUnique
  <2> QED
    BY <1>7, <2>2 DEF v, w
<1> QED
  BY <1>6, <1>7

\* Nothing is misplaced then.
LEMMA PutsPosted ==
  ASSUME NEW m, Sane(m), NEW n, Sane(n), NEW next \in Nat, Posted(m, next),
         NEW c \in Channels, NEW x \in Message, x.id = next, Puts(m, n, c, x)
  PROVE  Posted(n, next + 1)
<1>1. Adds(m, n, {x}, next)
  BY DEF Puts, Adds
<1>2. \A d \in Channels : \A y \in Range(BufferOf(m, d)) : y.id \in Nat /\ y.id < next
  <2> SUFFICES ASSUME NEW d \in Channels, NEW y \in Range(BufferOf(m, d))
               PROVE  y.id \in Nat
    BY DEF Posted
  <2>1. BufferOf(m, d) \in Seq(Message)
    BY BufferOfType
  <2>2. y \in Message
    BY <2>1 DEF Range
  <2> QED
    BY <2>2 DEF Message
<1>3. \A d \in Channels : Rising(BufferOf(n, d))
  BY DEF Posted, Puts
<1>4. \A d \in Channels : \A y \in Range(BufferOf(n, d)) : y.id < next + 1
  BY <1>1, <1>2 DEF Adds
<1>5. ASSUME NEW d \in Channels, NEW e \in Channels, NEW y \in Range(BufferOf(n, d)),
             NEW z \in Range(BufferOf(n, e)), y.id = z.id
      PROVE  d = e
  <2>1. y = x => d = c
    BY <1>2 DEF Puts
  <2>2. z = x => e = c
    BY <1>2 DEF Puts
  <2>3. y # x => y \in Range(BufferOf(m, d))
    BY <1>1 DEF Adds
  <2>4. z # x => z \in Range(BufferOf(m, e))
    BY <1>1 DEF Adds
  <2> QED
    BY <1>2, <1>5, <2>1, <2>2, <2>3, <2>4 DEF Posted
<1> QED
  BY <1>3, <1>4, <1>5 DEF Posted

\* n is m without the messages in out, which are for the role of c.
Removes(m, n, c, role, out) ==
  /\ out \subseteq For(BufferOf(m, c), role)
  /\ BufferOf(n, c) = Keep(BufferOf(m, c), Range(BufferOf(m, c)) \ out)
  /\ \A d \in Channels \ {c} : BufferOf(n, d) = BufferOf(m, d)

\* Every box but that of the role of c holds what it did.
OthersStay(m, n, c, role) ==
  \A d \in Channels, other \in Roles :
    d # c \/ other # role => Mail(n, d, other) = Mail(m, d, other)

\* Then the other boxes hold what they did.
LEMMA RemovesFacts ==
  ASSUME NEW m, Sane(m), NEW n, Sane(n), NEW next \in Nat, Posted(m, next),
         NEW c \in Channels, NEW role \in Roles, NEW out, Removes(m, n, c, role, out)
  PROVE  /\ Thins(m, n) /\ OthersStay(m, n, c, role)
         /\ Mail(n, c, role) \in Seq(Nat) /\ Ascends(Mail(n, c, role))
         /\ Range(Mail(n, c, role)) = IdsIn(For(BufferOf(m, c), role) \ out)
<1> DEFINE q == BufferOf(m, c)
           p == BufferOf(n, c)
           K == Range(q) \ out
<1>1. q \in Seq(Message) /\ Rising(q) /\ p = Keep(q, K)
  BY BufferOfType DEF Posted, Removes
<1> HIDE DEF q, p, K
<1>2. Range(p) = Range(q) \cap K /\ Rising(p)
  BY <1>1, KeepFacts, KeepRises
<1>3. Thins(m, n)
  BY <1>2 DEF Thins, Removes, p, q
<1>4. ASSUME NEW d \in Channels, NEW other \in Roles, d # c \/ other # role
      PROVE  Mail(n, d, other) = Mail(m, d, other)
  <2> DEFINE v == Mail(n, d, other)
             w == Mail(m, d, other)
  <2>1. v \in Seq(Nat) /\ Ascends(v) /\ Range(v) = IdsIn(For(BufferOf(n, d), other))
    BY <1>3, MailFacts DEF Posted, Thins
  <2>2. w \in Seq(Nat) /\ Ascends(w) /\ Range(w) = IdsIn(For(BufferOf(m, d), other))
    BY MailFacts DEF Posted
  <2>3. For(BufferOf(n, d), other) = For(BufferOf(m, d), other)
    <3>1. CASE d # c
      BY <3>1 DEF Removes
    <3>2. CASE d = c
      BY <1>2, <1>4, <3>2 DEF Removes, For, p, q, K
    <3> QED
      BY <3>1, <3>2
  <2> HIDE DEF v, w
  <2>4. v = w
    BY <2>1, <2>2, <2>3, AscendsUnique
  <2> QED
    BY <2>4 DEF v, w
<1>5. /\ Mail(n, c, role) \in Seq(Nat) /\ Ascends(Mail(n, c, role))
      /\ Range(Mail(n, c, role)) = IdsIn(For(p, role))
  BY <1>2, MailFacts DEF p
<1>6. For(p, role) = For(BufferOf(m, c), role) \ out
  BY <1>2 DEF For, q, K
<1>7. OthersStay(m, n, c, role)
  BY <1>4 DEF OthersStay
<1> QED
  BY <1>3, <1>5, <1>6, <1>7

\* When out is all there was, the box has been emptied.
LEMMA RemovesAll ==
  ASSUME NEW m, Sane(m), NEW n, Sane(n), NEW next \in Nat, Posted(m, next),
         NEW c \in Channels, NEW role \in Roles,
         Removes(m, n, c, role, For(BufferOf(m, c), role))
  PROVE  /\ Mail(n, c, role) = << >>
         /\ Len(Mail(m, c, role)) \in Nat /\ Mail(m, c, role) \in Seq(Nat)
         /\ SubSeq(Mail(m, c, role), 1, Len(Mail(m, c, role))) = Mail(m, c, role)
         /\ SubSeq(Mail(m, c, role), Len(Mail(m, c, role)) + 1, Len(Mail(m, c, role))) = << >>
<1> DEFINE v == Mail(n, c, role)
           w == Mail(m, c, role)
           F == For(BufferOf(m, c), role)
<1>1. v \in Seq(Nat) /\ Range(v) = IdsIn(F \ F)
  BY RemovesFacts
<1>2. w \in Seq(Nat)
  BY MailFacts
<1> HIDE DEF v, w, F
<1>3. v = << >>
  <2>1. Range(v) = {}
    BY <1>1 DEF IdsIn
  <2> QED
    BY <1>1, <2>1 DEF Range
<1>4. Len(w) \in Nat /\ SubSeq(w, 1, Len(w)) = w /\ SubSeq(w, Len(w) + 1, Len(w)) = << >>
  BY <1>2
<1> QED
  BY <1>2, <1>3, <1>4 DEF v, w

\* When out is the first, the rest waits.
LEMMA RemovesFirst ==
  ASSUME NEW m, Sane(m), NEW n, Sane(n), NEW next \in Nat, Posted(m, next),
         NEW c \in Channels, NEW role \in Roles, For(BufferOf(m, c), role) # {},
         NEW x, x = First(BufferOf(m, c), For(BufferOf(m, c), role)),
         Removes(m, n, c, role, {x})
  PROVE  /\ Len(Mail(m, c, role)) \in Nat \ {0}
         /\ SubSeq(Mail(m, c, role), 1, 1) = <<x.id>>
         /\ Mail(n, c, role) = SubSeq(Mail(m, c, role), 2, Len(Mail(m, c, role)))
<1> DEFINE q == BufferOf(m, c)
           F == For(q, role)
           v == Mail(n, c, role)
           w == Mail(m, c, role)
           rest == SubSeq(w, 2, Len(w))
<1>1. q \in Seq(Message) /\ Rising(q) /\ F \subseteq Range(q) /\ F # {}
  BY BufferOfType DEF Posted, For
<1>2. w \in Seq(Nat) /\ Ascends(w) /\ Range(w) = IdsIn(F)
  BY MailFacts DEF Posted
<1>3. v \in Seq(Nat) /\ Ascends(v) /\ Range(v) = IdsIn(F \ {x})
  BY RemovesFacts
<1>4. x = First(q, F)
  OBVIOUS
<1> HIDE DEF q, F, v, w
<1>5. PICK h \in DOMAIN q : /\ First(q, F) = q[h] /\ q[h] \in F
                            /\ \A j \in DOMAIN q : j < h => q[j] \notin F
  <2>1. Range(q) \cap F # {}
    BY <1>1
  <2> QED
    BY <1>1, <2>1, FirstPlace
<1>6. x \in F /\ x = q[h]
  BY <1>4, <1>5
<1>7. \A y \in F : y \in Message /\ y.id \in Nat
  <2>1. \A y \in F : y \in Message
    BY <1>1 DEF Range
  <2> QED
    BY <2>1 DEF Message
<1>8. ASSUME NEW y \in F PROVE x.id <= y.id /\ (y # x => y.id # x.id)
  <2>1. PICK j \in DOMAIN q : y = q[j]
    BY <1>1, <1>8 DEF Range
  <2>2. j \in Nat /\ h \in Nat /\ ~ (j < h)
    BY <1>1, <1>5, <1>8, <2>1
  <2>3. j = h \/ q[h].id < q[j].id
    BY <1>1, <2>1, <2>2 DEF Rising
  <2> QED
    BY <1>6, <1>7, <1>8, <2>1, <2>3
<1>9. /\ x.id \in Range(w) /\ \A k \in Range(w) : x.id <= k
      /\ IdsIn(F \ {x}) = Range(w) \ {x.id}
  BY <1>2, <1>6, <1>8 DEF IdsIn
<1>10. /\ Len(w) \in Nat \ {0} /\ SubSeq(w, 1, 1) = <<x.id>>
       /\ rest \in Seq(Nat) /\ Ascends(rest) /\ Range(rest) = Range(w) \ {x.id}
  BY <1>2, <1>9, AscendsRest
<1> HIDE DEF rest
<1>11. v = rest
  BY <1>3, <1>9, <1>10, AscendsUnique
<1> QED
  BY <1>10, <1>11 DEF v, w, rest

-----------------------------------------------------------------------------
(* The relay's steps as the mailboxes' *)

\* All boxes, as the mailboxes see them.
Waiting(m) == [b \in Boxes |-> Mail(m, b[1], b[2])]
Handed(handed) == [b \in Boxes |-> handed[b[1]][b[2]]]

\* StoredFor, of any manager.
StoredOf(m, c, role) ==
  LET buffer == m.channels[c].messageBuffer
  IN  IF ~Known(m, c) \/ buffer = << >> THEN << >> ELSE Ids(Keep(buffer, For(buffer, role)))

\* It looks into the buffer only when there is one, which makes no difference.
LEMMA StoredOfIsMail ==
  ASSUME NEW m, Sane(m), NEW c \in Channels, NEW role \in Roles
  PROVE  StoredOf(m, c, role) = Mail(m, c, role)
<1>1. CASE ~ Known(m, c) \/ m.channels[c].messageBuffer = << >>
  <2>1. BufferOf(m, c) = << >> /\ StoredOf(m, c, role) = << >>
    BY <1>1 DEF BufferOf, StoredOf
  <2> DEFINE w == Mail(m, c, role)
  <2>2. w \in Seq(Nat) /\ Range(w) = IdsIn(For(<< >>, role))
    BY <2>1, MailFacts
  <2> HIDE DEF w
  <2>3. For(<< >>, role) = {}
    BY DEF For, Range
  <2>4. Range(w) = {}
    BY <2>2, <2>3 DEF IdsIn
  <2>5. w = << >>
    BY <2>2, <2>4 DEF Range
  <2> QED
    BY <2>1, <2>5 DEF w
<1>2. CASE Known(m, c) /\ m.channels[c].messageBuffer # << >>
  BY <1>2 DEF StoredOf, Mail, MailIn, BufferOf
<1> QED
  BY <1>1, <1>2

\* What waits, before and after a step.
LEMMA WaitingBefore ==
  ASSUME Sane(mgr)
  PROVE  [b \in Boxes |-> StoredFor(b[1], b[2])] = Waiting(mgr)
<1>1. \A b \in Boxes : StoredFor(b[1], b[2]) = StoredOf(mgr, b[1], b[2])
  BY DEF StoredFor, StoredOf, Ids
<1>2. \A b \in Boxes : StoredFor(b[1], b[2]) = Mail(mgr, b[1], b[2])
  BY <1>1, StoredOfIsMail DEF Boxes
<1> QED
  BY <1>2 DEF Waiting

\* What the boxes hold after a step.
LEMMA WaitingAfter ==
  ASSUME Sane(mgr')
  PROVE  [b \in Boxes |-> StoredFor(b[1], b[2])]' = Waiting(mgr')
<1>1. \A b \in Boxes : StoredFor(b[1], b[2])' = StoredOf(mgr', b[1], b[2])
  BY DEF StoredFor, StoredOf, Ids, Known, For
<1>2. \A b \in Boxes : StoredFor(b[1], b[2])' = Mail(mgr', b[1], b[2])
  BY <1>1, StoredOfIsMail DEF Boxes
<1>3. [b \in Boxes |-> StoredFor(b[1], b[2])]' = [b \in Boxes |-> StoredFor(b[1], b[2])']
  BY DEF Boxes, Roles
<1> QED
  BY <1>2, <1>3 DEF Waiting

\* The operators of the mailboxes are those of the relay.
LEMMA OfficeRank ==
  ASSUME NEW P, NEW i
  PROVE  PostOffice!Rank(P, i) = Rank(P, i)
BY DEF PostOffice!Rank, Rank, PostOffice!Cardinality, Cardinality

\* The abstract mailbox's Nth is the server's.
LEMMA OfficeNth ==
  ASSUME NEW P, NEW k
  PROVE  PostOffice!Nth(P, k) = Nth(P, k)
BY OfficeRank DEF PostOffice!Nth, Nth

\* The abstract mailbox's Keep and Range are the server's.
LEMMA OfficeKeep ==
  ASSUME NEW q, NEW K
  PROVE  PostOffice!Keep(q, K) = Keep(q, K) /\ PostOffice!Range(q) = Range(q)
BY OfficeNth DEF PostOffice!Keep, PostOffice!Range, Keep, Range, PostOffice!Cardinality, Cardinality

\* What is stored, and what remains of it.
LEMMA OfficeStored ==
  ASSUME Sane(mgr)
  PROVE  /\ PostOffice!Stored = AllMail(mgr)
         /\ \A n : PostOffice!Without(AllMail(mgr) \ AllMail(n))
                     = [b \in Boxes |-> Left(mgr, n, b[1], b[2])]
<1> DEFINE w == [b \in Channels \X Roles |-> StoredFor(b[1], b[2])]
<1>1. w = Waiting(mgr)
  BY WaitingBefore DEF Boxes
<1>2. \A b \in Boxes : w[b] = Mail(mgr, b[1], b[2])
  BY <1>1 DEF Waiting
<1>3. PostOffice!Stored = UNION {Range(w[b]) : b \in Boxes}
  BY OfficeKeep DEF PostOffice!Stored, Boxes
<1> HIDE DEF w
<1>4. UNION {Range(w[b]) : b \in Boxes} = AllMail(mgr)
  <2>1. ASSUME NEW x \in UNION {Range(w[b]) : b \in Boxes} PROVE x \in AllMail(mgr)
    <3>1. PICK b \in Boxes : x \in Range(w[b])
      BY <2>1
    <3>2. x \in Range(Mail(mgr, b[1], b[2])) /\ b[1] \in Channels /\ b[2] \in Roles
      BY <1>2, <3>1 DEF Boxes
    <3> QED
      BY <3>2 DEF AllMail
  <2>2. ASSUME NEW x \in AllMail(mgr) PROVE x \in UNION {Range(w[b]) : b \in Boxes}
    <3>1. PICK c \in Channels, role \in Roles : x \in Range(Mail(mgr, c, role))
      BY <2>2 DEF AllMail
    <3>2. <<c, role>> \in Boxes /\ w[<<c, role>>] = Mail(mgr, c, role)
      BY <1>2 DEF Boxes
    <3> QED
      BY <3>1, <3>2
  <2> QED
    BY <2>1, <2>2
<1>5. ASSUME NEW n
      PROVE  PostOffice!Without(AllMail(mgr) \ AllMail(n))
               = [b \in Boxes |-> Left(mgr, n, b[1], b[2])]
  <2> DEFINE lost == AllMail(mgr) \ AllMail(n)
  <2>1. PostOffice!Without(lost) = [b \in Boxes |-> Keep(w[b], Range(w[b]) \ lost)]
    BY OfficeKeep DEF PostOffice!Without, Boxes, w
  <2>2. \A b \in Boxes : Keep(w[b], Range(w[b]) \ lost) = Left(mgr, n, b[1], b[2])
    BY <1>2 DEF Left
  <2> HIDE DEF lost
  <2>3. PostOffice!Without(lost) = [b \in Boxes |-> Left(mgr, n, b[1], b[2])]
    BY <2>1, <2>2
  <2> QED
    BY <2>3 DEF lost
<1> QED
  BY <1>3, <1>4, <1>5

\* A step that only loses mail.
LEMMA LosesMaps ==
  ASSUME Sane(mgr), Sane(mgr'), nextId \in Nat, Posted(mgr, nextId),
         Thins(mgr, mgr'), nextId' = nextId, delivered' = delivered,
         crossed \subseteq crossed', crossed' \subseteq Channels
  PROVE  PostOffice!Lose
<1> DEFINE w == [b \in Boxes |-> StoredFor(b[1], b[2])]
           lost == AllMail(mgr) \ AllMail(mgr')
<1>1. w' = Waiting(mgr')
  BY WaitingAfter
<1>2. \A b \in Boxes : Mail(mgr', b[1], b[2]) = Left(mgr, mgr', b[1], b[2])
  BY ThinsLoses DEF Boxes
<1>3. w' = PostOffice!Without(lost) /\ lost \in SUBSET PostOffice!Stored
  BY <1>1, <1>2, OfficeStored DEF Waiting
<1> HIDE DEF lost
<1> QED
  BY <1>3 DEF PostOffice!Lose, Boxes

HandsTo(before, after, c, role, q) == after = [before EXCEPT ![c][role] = q]

\* What the boxes have handed over, before and after a step.
LEMMA HandedAfter ==
  ASSUME ServerTypes, NEW c \in Channels, NEW role \in Roles, NEW v,
         HandsTo(delivered, delivered', c, role, v)
  PROVE  /\ Handed(delivered') = [Handed(delivered) EXCEPT ![<<c, role>>] = v]
         /\ Handed(delivered)[<<c, role>>] = delivered[c][role]
<1> DEFINE h == Handed(delivered)
           box == <<c, role>>
<1>1. /\ delivered \in [Channels -> [Roles -> Seq(Nat)]]
      /\ delivered' = [delivered EXCEPT ![c][role] = v]
  BY DEF ServerTypes, HandsTo
<1>2. box \in Boxes /\ box[1] = c /\ box[2] = role
  BY DEF Boxes
<1>3. ASSUME NEW b \in Boxes
      PROVE  delivered'[b[1]][b[2]] = IF b = box THEN v ELSE delivered[b[1]][b[2]]
  <2>1. b[1] \in Channels /\ b[2] \in Roles /\ (b = box <=> b[1] = c /\ b[2] = role)
    BY <1>3 DEF Boxes
  <2> HIDE DEF box
  <2>2. CASE b[1] = c
    <3>1. delivered'[b[1]] = [delivered[c] EXCEPT ![role] = v]
      BY <1>1, <2>2
    <3>2. delivered[c] \in [Roles -> Seq(Nat)]
      BY <1>1
    <3> QED
      BY <2>1, <2>2, <3>1, <3>2
  <2>3. CASE b[1] # c
    BY <1>1, <2>1, <2>3
  <2> QED
    BY <2>2, <2>3
<1>4. Handed(delivered') = [b \in Boxes |-> IF b = box THEN v ELSE h[b]]
  <2>1. \A b \in Boxes : delivered'[b[1]][b[2]] = IF b = box THEN v ELSE h[b]
    BY <1>3 DEF Handed
  <2> HIDE DEF h, box
  <2> QED
    BY <2>1 DEF Handed
<1>5. h = [b \in Boxes |-> h[b]] /\ h[box] = delivered[c][role]
  BY <1>2 DEF Handed
<1> HIDE DEF h, box
<1>6. [h EXCEPT ![box] = v] = [b \in Boxes |-> IF b = box THEN v ELSE h[b]]
  BY <1>2, <1>5
<1> QED
  BY <1>4, <1>5, <1>6 DEF h, box

\* A message handed over at once.
LEMMA PassesMap ==
  ASSUME Sane(mgr), Sane(mgr'), ServerTypes, NEW c \in Channels, NEW role \in Roles,
         nextId' = nextId + 1, crossed' = crossed,
         Mail(mgr, c, role) = << >> \/ c \in crossed,
         \A d \in Channels : BufferOf(mgr', d) = BufferOf(mgr, d),
         delivered' = [delivered EXCEPT ![c][role] = Append(delivered[c][role], nextId)]
  PROVE  PostOffice!PassOn(<<c, role>>)
<1> DEFINE w == [b \in Boxes |-> StoredFor(b[1], b[2])]
           h == [b \in Boxes |-> delivered[b[1]][b[2]]]
           box == <<c, role>>
<1>1. w = Waiting(mgr) /\ w' = Waiting(mgr')
  BY WaitingBefore, WaitingAfter
<1>2. Waiting(mgr') = Waiting(mgr)
  BY DEF Waiting, Mail, MailIn, Boxes
<1>3. h' = [h EXCEPT ![box] = Append(h[box], nextId)]
  <2> DEFINE v == Append(delivered[c][role], nextId)
  <2>1. h = Handed(delivered) /\ h' = Handed(delivered')
    BY DEF Handed, Boxes, Roles
  <2>2. HandsTo(delivered, delivered', c, role, v)
    BY DEF HandsTo
  <2> HIDE DEF v
  <2>3. h' = [h EXCEPT ![box] = v] /\ h[box] = delivered[c][role]
    <3>1. /\ Handed(delivered') = [Handed(delivered) EXCEPT ![<<c, role>>] = v]
          /\ Handed(delivered)[<<c, role>>] = delivered[c][role]
      BY <2>2, HandedAfter
    <3> HIDE DEF h
    <3> QED
      BY <2>1, <3>1
  <2> HIDE DEF h, box
  <2> QED
    BY <2>3 DEF v
<1>4. box \in Boxes /\ w[box] = Mail(mgr, c, role)
  BY <1>1 DEF Boxes, Waiting
<1>5. w[box] = << >> \/ box \in crossed \X Roles
  BY <1>4
<1>6. w' = w /\ (crossed \X Roles)' = crossed \X Roles
  BY <1>1, <1>2 DEF Roles
<1> HIDE DEF w, h, box
<1> QED
  BY <1>3, <1>5, <1>6 DEF PostOffice!PassOn, Boxes, w, h, box

\* A message stored.
LEMMA StoresMap ==
  ASSUME Sane(mgr), Sane(mgr'), nextId \in Nat, Posted(mgr, nextId),
         NEW c \in Channels, NEW x \in Message, x.id = nextId, Puts(mgr, mgr', c, x),
         nextId' = nextId + 1, crossed' = crossed, delivered' = delivered
  PROVE  PostOffice!Store(<<c, x.targetClientType>>)
<1> DEFINE w == [b \in Boxes |-> StoredFor(b[1], b[2])]
           box == <<c, x.targetClientType>>
           lost == AllMail(mgr) \ AllMail(mgr')
           left == PostOffice!Without(lost)
<1>1. w' = Waiting(mgr')
  BY WaitingAfter
<1>2. left = [b \in Boxes |-> Left(mgr, mgr', b[1], b[2])] /\ lost \in SUBSET PostOffice!Stored
  BY OfficeStored
<1>3. box \in Boxes /\ box[1] = c /\ box[2] = x.targetClientType
  BY DEF Boxes, Message
<1>4. \A d \in Channels, role \in Roles :
         Mail(mgr', d, role) = IF d = c /\ role = x.targetClientType
                               THEN Append(Left(mgr, mgr', d, role), nextId)
                               ELSE Left(mgr, mgr', d, role)
  BY PutsStores
<1>5. ASSUME NEW b \in Boxes
      PROVE  Mail(mgr', b[1], b[2]) = IF b = box THEN Append(left[b], nextId) ELSE left[b]
  <2>1. b[1] \in Channels /\ b[2] \in Roles /\ left[b] = Left(mgr, mgr', b[1], b[2])
    BY <1>2, <1>5 DEF Boxes
  <2>2. b = box <=> b[1] = c /\ b[2] = x.targetClientType
    BY <1>3, <1>5 DEF Boxes
  <2>3. Mail(mgr', b[1], b[2]) =
          IF b[1] = c /\ b[2] = x.targetClientType
          THEN Append(Left(mgr, mgr', b[1], b[2]), nextId) ELSE Left(mgr, mgr', b[1], b[2])
    BY <2>1, <1>4
  <2> QED
    BY <2>1, <2>2, <2>3
<1> HIDE DEF box, left, lost
<1>6. Waiting(mgr') = [b \in Boxes |-> IF b = box THEN Append(left[b], nextId) ELSE left[b]]
  BY <1>5 DEF Waiting
<1>7. [left EXCEPT ![box] = Append(left[box], nextId)]
        = [b \in Boxes |-> IF b = box THEN Append(left[b], nextId) ELSE left[b]]
  BY <1>2, <1>3
<1>8. w' = [left EXCEPT ![box] = Append(left[box], nextId)]
  BY <1>1, <1>6, <1>7
<1>9. \E gone \in SUBSET PostOffice!Stored :
        w' = [PostOffice!Without(gone) EXCEPT ![box] = Append(@, nextId)]
  BY <1>2, <1>8 DEF left
<1>10. [b \in Boxes |-> delivered[b[1]][b[2]]]' = [b \in Boxes |-> delivered[b[1]][b[2]]]
      /\ (crossed \X Roles)' = crossed \X Roles
  BY DEF Boxes, Roles
<1> QED
  BY <1>9, <1>10 DEF PostOffice!Store, Boxes, box

\* The oldest messages of a box handed over.
LEMMA HandsMap ==
  ASSUME Sane(mgr), Sane(mgr'), ServerTypes, NEW c \in Channels, NEW role \in Roles,
         nextId' = nextId, crossed \subseteq crossed', crossed' \subseteq Channels,
         NEW k \in 1 .. Len(Mail(mgr, c, role)),
         delivered' = [delivered EXCEPT ![c][role] =
                         delivered[c][role] \o SubSeq(Mail(mgr, c, role), 1, k)],
         Mail(mgr', c, role) = SubSeq(Mail(mgr, c, role), k + 1, Len(Mail(mgr, c, role))),
         OthersStay(mgr, mgr', c, role)
  PROVE  PostOffice!HandOver(<<c, role>>)
<1> DEFINE w == [b \in Boxes |-> StoredFor(b[1], b[2])]
           h == [b \in Boxes |-> delivered[b[1]][b[2]]]
           box == <<c, role>>
<1>1. w = Waiting(mgr) /\ w' = Waiting(mgr')
  BY WaitingBefore, WaitingAfter
<1>2. box \in Boxes /\ w[box] = Mail(mgr, c, role)
  BY <1>1 DEF Boxes, Waiting
<1>3. h' = [h EXCEPT ![box] = h[box] \o SubSeq(w[box], 1, k)]
  <2> DEFINE v == delivered[c][role] \o SubSeq(Mail(mgr, c, role), 1, k)
  <2>1. h = Handed(delivered) /\ h' = Handed(delivered')
    BY DEF Handed, Boxes, Roles
  <2>2. HandsTo(delivered, delivered', c, role, v)
    BY DEF HandsTo
  <2> HIDE DEF v
  <2>3. h' = [h EXCEPT ![box] = v] /\ h[box] = delivered[c][role]
    <3>1. /\ Handed(delivered') = [Handed(delivered) EXCEPT ![<<c, role>>] = v]
          /\ Handed(delivered)[<<c, role>>] = delivered[c][role]
      BY <2>2, HandedAfter
    <3> HIDE DEF h
    <3> QED
      BY <2>1, <3>1
  <2> HIDE DEF h, w, box
  <2> QED
    BY <1>2, <2>3 DEF v
<1>4. ASSUME NEW b \in Boxes
      PROVE  Mail(mgr', b[1], b[2]) = IF b = box THEN SubSeq(w[box], k + 1, Len(w[box])) ELSE w[b]
  <2>1. b[1] \in Channels /\ b[2] \in Roles /\ (b = box <=> b[1] = c /\ b[2] = role)
    BY <1>4 DEF Boxes
  <2>2. w[b] = Mail(mgr, b[1], b[2])
    BY <1>1, <1>4 DEF Waiting
  <2> HIDE DEF w, box
  <2> QED
    BY <1>2, <2>1, <2>2 DEF OthersStay
<1> HIDE DEF box
<1>5. w' = [b \in Boxes |-> IF b = box THEN SubSeq(w[box], k + 1, Len(w[box])) ELSE w[b]]
  BY <1>1, <1>4 DEF Waiting
<1>6. [w EXCEPT ![box] = SubSeq(w[box], k + 1, Len(w[box]))]
        = [b \in Boxes |-> IF b = box THEN SubSeq(w[box], k + 1, Len(w[box])) ELSE w[b]]
  BY <1>2
<1>7. w' = [w EXCEPT ![box] = SubSeq(w[box], k + 1, Len(w[box]))] /\ k \in 1 .. Len(w[box])
  BY <1>2, <1>5, <1>6
<1>8. crossed \X Roles \subseteq (crossed \X Roles)' /\ (crossed \X Roles)' \subseteq Boxes
  BY DEF Boxes, Roles
<1> HIDE DEF w, h
<1> QED
  BY <1>3, <1>7, <1>8 DEF PostOffice!HandOver, Boxes, w, h, box

-----------------------------------------------------------------------------
(* Every handler's step is one of the mailboxes' *)

OfficeInv == MailInv /\ Posted(mgr, nextId)

\* The mailboxes take a step, and what is stored stays in its place.
OfficeStep == PostOffice!MailNext /\ Posted(mgr', nextId')

\* The types of the next state.
LEMMA NextRanges ==
  ASSUME RelayInv'
  PROVE  Sane(mgr') /\ nextId' \in Nat /\ crossed' \subseteq Channels
<1>1. Sane(mgr)' = Sane(mgr')
  BY DEF Sane, Linked, Known
<1>2. Sane(mgr)' /\ nextId' \in 0 .. MaxMessages /\ ServerTypes'
  BY DEF RelayInv, Managed
<1>3. crossed' \in SUBSET Channels
  BY <1>2 DEF ServerTypes
<1> QED
  BY <1>1, <1>2, <1>3, ConstantsAssumption

\* A handler that hands nothing over and stores nothing.
LEMMA LosingSteps ==
  ASSUME OfficeInv, RelayInv', Thins(mgr, mgr'), nextId' = nextId, delivered' = delivered,
         crossed' = crossed
  PROVE  OfficeStep
<1>1. Sane(mgr) /\ nextId \in Nat /\ Posted(mgr, nextId) /\ crossed \subseteq Channels
  BY RelayRanges DEF OfficeInv, MailInv, ServerTypes
<1>2. Sane(mgr') /\ nextId' \in Nat
  BY NextRanges
<1>3. PostOffice!Lose
  BY <1>1, <1>2, LosesMaps
<1>4. Posted(mgr', nextId')
  BY <1>1, <1>2, ThinsPosted
<1> QED
  BY <1>3, <1>4 DEF OfficeStep, PostOffice!MailNext

\* The same buffers are no more mail.
LEMMA BuffersStay ==
  ASSUME NEW m, NEW n, SameTable(m, n), SameBuffers(m, n)
  PROVE  Thins(m, n) /\ \A c \in Channels : BufferOf(n, c) = BufferOf(m, c)
<1>1. \A c \in Channels : BufferOf(n, c) = BufferOf(m, c)
  BY DEF SameTable, SameBuffers, BufferOf
<1> QED
  BY <1>1 DEF Thins

\* Leaving a channel hands nothing over.
LEMMA LeaveHandlerOffice ==
  ASSUME OfficeInv, RelayInv', NEW s \in Sockets, NEW c \in Channels, LeaveHandler(s, c)
  PROVE  OfficeStep
<1>1. /\ Sane(mgr) /\ now \in Nat /\ mgr' = Leave(mgr, c, s, now)
      /\ UNCHANGED <<nextId, delivered, crossed>>
  BY RelayRanges DEF OfficeInv, MailInv, LeaveHandler
<1>2. SameTable(mgr, mgr') /\ SameBuffers(mgr, mgr')
  BY <1>1, LeaveEffects
<1> QED
  BY <1>1, <1>2, BuffersStay, LosingSteps

\* Closing a channel loses its mail, and hands nothing over.
LEMMA CloseHandlerOffice ==
  ASSUME OfficeInv, RelayInv', NEW s \in Sockets, NEW c \in Channels, CloseHandler(s, c)
  PROVE  OfficeStep
<1> DEFINE l == Leave(mgr, c, s, now)
           n == Close(l, c, now)
<1>1. /\ Sane(mgr) /\ now \in Nat /\ mgr' = n /\ IsMember(mgr, c, s)
      /\ Served(mgr, status, currentChannelId, joining, listeners)
      /\ UNCHANGED <<nextId, delivered, crossed>>
  BY RelayRanges DEF OfficeInv, MailInv, CloseHandler
<1>2. Live(mgr, c)
  BY <1>1 DEF IsMember, Live, Tombstone, TombstonesAreEmpty, Served
<1>3. SameTable(mgr, l) /\ SameBuffers(mgr, l)
  BY <1>1, LeaveEffects
<1>4. Sane(l)
  BY <1>1, LeaveStep DEF Step
<1> HIDE DEF l
<1>5. Live(l, c)
  BY <1>2, <1>3 DEF SameTable, Live
<1>6. /\ \A d \in Channels \ {c} : Known(n, d) => n.channels[d] = l.channels[d]
      /\ Known(n, c) => n.channels[c].messageBuffer = << >>
  BY <1>1, <1>4, <1>5, CloseEffects
<1> HIDE DEF n
<1>7. \A d \in Channels : BufferOf(n, d) \in {BufferOf(mgr, d), << >>}
  <2>1. \A d \in Channels : BufferOf(l, d) = BufferOf(mgr, d)
    BY <1>3, BuffersStay
  <2>2. \A d \in Channels : BufferOf(n, d) \in {BufferOf(l, d), << >>}
    BY <1>6 DEF BufferOf, Known
  <2> QED
    BY <2>1, <2>2
<1>8. Thins(mgr, n)
  BY <1>7 DEF Thins, Range, Rising
<1> QED
  BY <1>1, <1>8, LosingSteps

\* A cleanup loses what expired.
LEMMA CleanupOffice ==
  ASSUME OfficeInv, RelayInv', CleanupInterval
  PROVE  OfficeStep
<1> DEFINE n == Cleanup(mgr, now)
<1>1. Sane(mgr) /\ now \in Nat /\ mgr' = n /\ UNCHANGED <<nextId, delivered, crossed>>
  BY RelayRanges DEF OfficeInv, MailInv, CleanupInterval, CleanupTimer, relayVars
<1>2. \A c \in Channels : Known(n, c) =>
        /\ Known(mgr, c)
        /\ n.channels[c].messageBuffer =
             Keep(mgr.channels[c].messageBuffer,
                  Range(mgr.channels[c].messageBuffer) \ Range(Expired(mgr, c, now)))
  <2>1. CleanedUp(mgr, n, now)
    BY <1>1, CleanupEffects
  <2> HIDE DEF n
  <2> QED
    BY <2>1 DEF CleanedUp
<1> HIDE DEF n
<1>3. ASSUME NEW c \in Channels
      PROVE  /\ Range(BufferOf(n, c)) \subseteq Range(BufferOf(mgr, c))
             /\ Rising(BufferOf(mgr, c)) => Rising(BufferOf(n, c))
  <2> DEFINE q == BufferOf(mgr, c)
             K == Range(q) \ Range(Expired(mgr, c, now))
  <2>1. q \in Seq(Message)
    BY <1>1, BufferOfType
  <2>2. BufferOf(n, c) = << >> \/ BufferOf(n, c) = Keep(q, K)
    BY <1>2, <1>3 DEF BufferOf
  <2> HIDE DEF q, K
  <2>3. Range(Keep(q, K)) = Range(q) \cap K /\ (Rising(q) => Rising(Keep(q, K)))
    BY <2>1, KeepFacts, KeepRises
  <2>4. Range(<< >>) = {} /\ Rising(<< >>)
    BY DEF Range, Rising
  <2> QED
    BY <2>2, <2>3, <2>4 DEF q
<1>4. Thins(mgr, n)
  BY <1>3 DEF Thins
<1> QED
  BY <1>1, <1>4, LosingSteps

\* A disconnect hands nothing over.
LEMMA DisconnectOffice ==
  ASSUME OfficeInv, RelayInv', NEW s \in Sockets, Disconnect(s)
  PROVE  OfficeStep
<1>1. /\ Sane(mgr) /\ now \in Nat /\ mgr' = Forsake(mgr, s)
      /\ currentChannelId[s] \in Channels \cup {None}
      /\ UNCHANGED <<nextId, delivered, crossed>>
  BY RelayRanges DEF OfficeInv, MailInv, Disconnect, ServerTypes
<1>2. SameTable(mgr, mgr') /\ SameBuffers(mgr, mgr')
  BY <1>1, ForsakeEffects
<1> QED
  BY <1>1, <1>2, BuffersStay, LosingSteps

\* A message behind a buffer, less its oldest entry perhaps.
LEMMA BehindRises ==
  ASSUME NEW q \in Seq(Message), Rising(q), NEW k \in {1, 2}, Len(q) >= k - 1,
         NEW x \in Message, \A y \in Range(q) : y.id < x.id
  PROVE  LET p == Append(SubSeq(q, k, Len(q)), x)
         IN  Rising(p) /\ x \in Range(p) /\ Range(p) \subseteq Range(q) \cup {x}
<1> DEFINE rest == SubSeq(q, k, Len(q))
           p == Append(rest, x)
           l == Len(q) - k + 1
<1>1. Len(q) \in Nat /\ DOMAIN q = 1 .. Len(q) /\ k \in Nat /\ l \in Nat
  OBVIOUS
<1>2. /\ rest \in Seq(Message) /\ Len(rest) = l
      /\ \A i \in 1 .. l : rest[i] = q[i + k - 1] /\ i + k - 1 \in DOMAIN q
  BY <1>1
<1> HIDE DEF rest, l
<1>3. /\ DOMAIN p = 1 .. l + 1 /\ p[l + 1] = x
      /\ \A i \in 1 .. l : p[i] = q[i + k - 1]
  BY <1>1, <1>2
<1> HIDE DEF p
<1>4. Rising(p)
  <2> SUFFICES ASSUME NEW i \in 1 .. l + 1, NEW j \in 1 .. l + 1, i < j
               PROVE  p[i].id < p[j].id
    BY <1>3 DEF Rising
  <2>1. \A h \in 1 .. l + 1 : h \in 1 .. l \/ h = l + 1
    BY <1>1
  <2>2. i \in 1 .. l
    BY <1>1, <2>1
  <2>3. p[i] = q[i + k - 1] /\ i + k - 1 \in DOMAIN q
    BY <1>2, <1>3, <2>2
  <2>4. CASE j = l + 1
    BY <1>3, <2>3, <2>4 DEF Range
  <2>5. CASE j # l + 1
    <3>1. j \in 1 .. l
      BY <2>5, <2>1
    <3>2. p[j] = q[j + k - 1] /\ j + k - 1 \in DOMAIN q
      BY <1>2, <1>3, <3>1
    <3>3. i + k - 1 < j + k - 1
      BY <1>1
    <3> QED
      BY <2>3, <3>2, <3>3 DEF Rising
  <2> QED
    BY <2>4, <2>5
<1>5. x \in Range(p)
  BY <1>1, <1>3 DEF Range
<1>6. ASSUME NEW y \in Range(p) PROVE y \in Range(q) \cup {x}
  <2>1. PICK i \in 1 .. l + 1 : y = p[i]
    BY <1>3, <1>6 DEF Range
  <2>2. CASE i = l + 1
    BY <1>3, <2>1, <2>2
  <2>3. CASE i # l + 1
    <3>1. i \in 1 .. l
      BY <1>1, <2>3
    <3>2. y = q[i + k - 1] /\ i + k - 1 \in DOMAIN q
      BY <1>2, <1>3, <2>1, <3>1
    <3> QED
      BY <3>2 DEF Range
  <2> QED
    BY <2>2, <2>3
<1> QED
  BY <1>4, <1>5, <1>6 DEF p, rest

\* A full buffer gives up its oldest entry.
LEMMA PushedRises ==
  ASSUME NEW ch \in Channel, Rising(ch.messageBuffer), NEW x \in Message,
         \A y \in Range(ch.messageBuffer) : y.id < x.id
  PROVE  /\ Rising(Pushed(ch, x)) /\ x \in Range(Pushed(ch, x))
         /\ Range(Pushed(ch, x)) \subseteq Range(ch.messageBuffer) \cup {x}
<1> DEFINE q == ch.messageBuffer
           k == Len(Displaced(ch)) + 1
<1>1. q \in Seq(Message) /\ Len(q) \in Nat /\ MaxBufferedMessages \in Nat \ {0}
  BY ConstantsAssumption DEF Channel
<1>2. k \in {1, 2} /\ Len(q) >= k - 1
  <2>1. CASE Len(q) >= MaxBufferedMessages
    BY <1>1, <2>1 DEF Displaced
  <2>2. CASE ~ (Len(q) >= MaxBufferedMessages)
    BY <1>1, <2>2 DEF Displaced
  <2> QED
    BY <2>1, <2>2
<1>3. Pushed(ch, x) = Append(SubSeq(q, k, Len(q)), x)
  BY DEF Pushed
<1>4. Rising(q) /\ \A y \in Range(q) : y.id < x.id
  OBVIOUS
<1> HIDE DEF q, k
<1> QED
  BY <1>1, <1>2, <1>3, <1>4, BehindRises DEF q

\* message: sent on, it is handed over past an empty box; stored, it goes to the box of
\* the counterparty's role; and a counterparty that is cut off loses no mail.
LEMMA MessageOffice ==
  ASSUME OfficeInv, RelayInv', NEW s \in Sockets, NEW c \in Channels,
         NEW seq \in Seqs \cup {None}, NEW size \in Sizes, NEW role \in Roles,
         MessageHandler(s, c, seq, size, role)
  PROVE  OfficeStep
<1> DEFINE data == DataOf(role, seq, size)
           result == Answered(s, c, seq, size, role)
           x == StoredAs(s, role, seq, size)
           n == result.mgr
           target == result.target
           other == OtherRole(role)
<1>1. /\ Managed(mgr) /\ Sane(mgr) /\ now \in Nat /\ nextId \in Nat /\ ServerTypes
      /\ Served(mgr, status, currentChannelId, joining, listeners)
      /\ Posted(mgr, nextId) /\ RelayInv /\ \A t \in Sockets : Supplied(mgr, crossed, t)
  BY RelayRanges DEF OfficeInv, MailInv
<1>2. Sane(mgr') /\ nextId' \in Nat
  BY NextRanges
<1>3. /\ data.clientType = role /\ x.id = nextId /\ x.targetClientType = other
      /\ Routed(mgr, result, c, s, data, x, Receptive)
      /\ crossed' = crossed
      /\ SentOn(result, c, role) \/ KeptApart(result) \/ CutOff(result, s)
  BY <1>1, MessageKinds
<1>4. other \in Roles /\ other # role
  BY DEF OtherRole, Roles
<1> HIDE DEF data, result, x, other
<1>5. CASE SentOn(result, c, role)
  <2>1. /\ result.status = "direct" /\ mgr' = n /\ nextId' = nextId + 1
        /\ delivered' = [delivered EXCEPT ![c][other] = Append(delivered[c][other], nextId)]
        /\ target \in Sockets /\ listeners[target] = None
    BY <1>5 DEF SentOn, Emit, Receptive, OpenSockets, other
  <2>2. /\ SameTable(mgr, n) /\ SameBuffers(mgr, n) /\ Live(mgr, c)
        /\ mgr.channels[c].participants[s] = role
        /\ mgr.directDeliveries[target] = None
        /\ target # s /\ mgr.channels[c].participants[target] # None
    <3>1. target # None
      BY <2>1, ConstantsAssumption
    <3> QED
      BY <1>3, <2>1, <3>1 DEF Routed, Members
  <2>3. mgr.channels[c].participants[target] = other
    <3>1. mgr.channels[c].participants[target] \in Roles
      <4>1. mgr.channels[c] \in Channel
        BY <1>1, <2>2, KnownType DEF Live, Sane
      <4> QED
        BY <2>1, <2>2, <4>1 DEF Channel
    <3>2. mgr.channels[c].participants[target] # role
      BY <1>1, <2>1, <2>2 DEF Managed, OneSeat, Live
    <3> QED
      BY <3>1, <3>2, <1>4 DEF Roles
  <2>4. c \in crossed \/ For(BufferOf(mgr, c), other) = {}
    BY <1>1, <2>1, <2>2, <2>3 DEF Supplied, BufferOf, Live
  <2>5. Mail(mgr, c, other) = << >> \/ c \in crossed
    <3> DEFINE w == Mail(mgr, c, other)
    <3>1. w \in Seq(Nat) /\ Range(w) = IdsIn(For(BufferOf(mgr, c), other))
      BY <1>1, <1>4, MailFacts
    <3> HIDE DEF w
    <3>2. For(BufferOf(mgr, c), other) = {} => w = << >>
      <4>1. For(BufferOf(mgr, c), other) = {} => Range(w) = {}
        BY <3>1 DEF IdsIn
      <4> QED
        BY <3>1, <4>1 DEF Range
    <3> QED
      BY <2>4, <3>2 DEF w
  <2>6. Thins(mgr, mgr') /\ \A d \in Channels : BufferOf(mgr', d) = BufferOf(mgr, d)
    BY <2>1, <2>2, BuffersStay
  <2>7. PostOffice!PassOn(<<c, other>>)
    BY <1>1, <1>2, <1>3, <1>4, <2>1, <2>5, <2>6, PassesMap
  <2>8. Posted(mgr', nextId')
    BY <1>1, <1>2, <2>1, <2>6, ThinsPosted
  <2>9. <<c, other>> \in Channels \X Roles
    BY <1>4
  <2> QED
    BY <2>7, <2>8, <2>9 DEF OfficeStep, PostOffice!MailNext
<1>6. CASE Withheld(result) /\ SameTable(n, mgr') /\ SameBuffers(n, mgr')
  <2>1. Thins(n, mgr') /\ \A d \in Channels : BufferOf(mgr', d) = BufferOf(n, d)
    BY <1>6, BuffersStay
  <2>2. SameTable(mgr, n) /\ delivered' = delivered
    BY <1>3, <1>6 DEF Routed, Withheld
  <2>3. CASE result.status = "error"
    <3>1. SameBuffers(mgr, n) /\ nextId' = nextId
      BY <1>3, <1>6, <2>3 DEF Routed, Withheld
    <3>2. \A d \in Channels : BufferOf(n, d) = BufferOf(mgr, d)
      BY <2>2, <3>1, BuffersStay
    <3>3. Thins(mgr, mgr')
      BY <2>1, <3>2 DEF Thins
    <3> QED
      BY <1>3, <2>2, <3>1, <3>3, LosingSteps
  <2>4. CASE result.status = "buffered"
    <3>1. /\ Known(mgr, c) /\ x \in Message /\ nextId' = nextId + 1
          /\ n.channels[c].messageBuffer = Pushed(mgr.channels[c], x)
          /\ \A d \in Channels \ {c} : Known(mgr, d) =>
               n.channels[d].messageBuffer = mgr.channels[d].messageBuffer
      BY <1>3, <1>6, <2>4 DEF Routed, Withheld, Live
    <3>2. /\ BufferOf(mgr, c) = mgr.channels[c].messageBuffer
          /\ BufferOf(mgr', c) = Pushed(mgr.channels[c], x)
          /\ \A d \in Channels \ {c} : BufferOf(mgr', d) = BufferOf(mgr, d)
      BY <2>1, <2>2, <3>1 DEF SameTable, BufferOf
    <3>3. mgr.channels[c] \in Channel
      BY <1>1, <3>1, KnownType DEF Sane
    <3>4. /\ Rising(mgr.channels[c].messageBuffer)
          /\ \A y \in Range(mgr.channels[c].messageBuffer) : y.id < x.id
      BY <1>1, <1>3, <3>2 DEF Posted
    <3>5. /\ Rising(Pushed(mgr.channels[c], x)) /\ x \in Range(Pushed(mgr.channels[c], x))
          /\ Range(Pushed(mgr.channels[c], x)) \subseteq Range(mgr.channels[c].messageBuffer) \cup {x}
      BY <3>1, <3>3, <3>4, PushedRises
    <3>6. Puts(mgr, mgr', c, x)
      BY <3>2, <3>5 DEF Puts
    <3>7. PostOffice!Store(<<c, x.targetClientType>>)
      BY <1>1, <1>2, <1>3, <2>2, <3>1, <3>6, StoresMap
    <3>8. Posted(mgr', nextId')
      BY <1>1, <1>2, <1>3, <3>1, <3>6, PutsPosted
    <3>9. <<c, x.targetClientType>> \in Channels \X Roles
      BY <1>3, <1>4
    <3> QED
      BY <3>7, <3>8, <3>9 DEF OfficeStep, PostOffice!MailNext
  <2> QED
    BY <1>3, <1>6, <2>3, <2>4 DEF Withheld, Routed
<1>7. CASE KeptApart(result)
  <2>1. Withheld(result) /\ mgr' = n
    BY <1>7 DEF KeptApart
  <2>2. SameTable(n, mgr') /\ SameBuffers(n, mgr')
    BY <2>1 DEF SameTable, SameBuffers
  <2> QED
    BY <1>6, <2>1, <2>2
<1>8. CASE CutOff(result, s)
  <2>1. Withheld(result) /\ mgr' = Forsake(n, target) /\ target \in Sockets
    BY <1>8 DEF CutOff
  <2>2. Sane(n) /\ currentChannelId[target] \in Channels \cup {None}
    BY <1>1, <1>3, <2>1 DEF Routed, Step, ServerTypes
  <2>3. SameTable(n, mgr') /\ SameBuffers(n, mgr')
    BY <1>1, <2>1, <2>2, ForsakeEffects
  <2> QED
    BY <1>6, <2>1, <2>3
<1> QED
  BY <1>3, <1>5, <1>7, <1>8

\* ready: a promoted message is the first of its box.
LEMMA ReadyOffice ==
  ASSUME OfficeInv, RelayInv', NEW s \in Sockets, Ready(s)
  PROVE  OfficeStep
<1> DEFINE advanced == AdvanceDirectDelivery(mgr, s)
           n == advanced.mgr
           next == advanced.next
           d == mgr.directDeliveries
           c == d[s].channel
           role == next.targetClientType
<1>1. /\ Sane(mgr) /\ nextId \in Nat /\ ServerTypes
      /\ Posted(mgr, nextId) /\ crossed \subseteq Channels
  BY RelayRanges DEF OfficeInv, MailInv, ServerTypes
<1>2. Sane(mgr')
  BY NextRanges
<1>3. /\ nextId' = nextId /\ crossed' = crossed
      /\ \/ /\ next # None /\ mgr' = n
            /\ delivered' = [delivered EXCEPT ![c][role] = Append(delivered[c][role], next.id)]
         \/ next = None /\ mgr' = n /\ delivered' = delivered
         \/ mgr' = mgr /\ delivered' = delivered
  BY DEF Ready, Emit
<1>4. /\ SameTable(mgr, n)
      /\ next = None => SameBuffers(mgr, n)
      /\ next # None =>
           /\ c \in Channels /\ Known(mgr, c) /\ next \in Message
           /\ next = First(mgr.channels[c].messageBuffer, Promotable(mgr, s))
           /\ next \in Promotable(mgr, s)
           /\ n.channels[c].messageBuffer =
                Keep(mgr.channels[c].messageBuffer,
                     Range(mgr.channels[c].messageBuffer) \ {next})
           /\ \A e \in Channels \ {c} : Known(mgr, e) =>
                n.channels[e].messageBuffer = mgr.channels[e].messageBuffer
  BY <1>1, AdvanceDirectDeliveryEffects
<1>5. next # None => Promotable(mgr, s) = For(mgr.channels[c].messageBuffer, role)
  <2> SUFFICES ASSUME next # None
               PROVE  Promotable(mgr, s) = For(mgr.channels[c].messageBuffer, role)
    OBVIOUS
  <2>1. Promotable(mgr, s)
          = For(mgr.channels[c].messageBuffer, mgr.channels[c].participants[s])
    BY <1>4 DEF Promotable
  <2>2. role = mgr.channels[c].participants[s]
    BY <1>4, <2>1 DEF For
  <2> QED
    BY <2>1, <2>2
<1> HIDE DEF advanced, n, next, c, d, role
<1>6. CASE (mgr' = mgr \/ (next = None /\ mgr' = n)) /\ delivered' = delivered
  <2>1. Thins(mgr, mgr')
    <3>1. SameTable(mgr, mgr') /\ SameBuffers(mgr, mgr')
      BY <1>4, <1>6 DEF SameTable, SameBuffers
    <3> QED
      BY <3>1, BuffersStay
  <2> QED
    BY <1>3, <1>6, <2>1, LosingSteps
<1>7. CASE /\ next # None /\ mgr' = n
           /\ delivered' = [delivered EXCEPT ![c][role] = Append(delivered[c][role], next.id)]
  <2>1. /\ c \in Channels /\ Known(mgr, c) /\ role \in Roles /\ next.id \in Nat
        /\ BufferOf(mgr, c) = mgr.channels[c].messageBuffer
    BY <1>4, <1>7 DEF Message, BufferOf, role
  <2>2. /\ next \in For(BufferOf(mgr, c), role)
        /\ next = First(BufferOf(mgr, c), For(BufferOf(mgr, c), role))
    BY <1>4, <1>5, <1>7, <2>1
  <2>3. Removes(mgr, mgr', c, role, {next})
    <3>1. /\ BufferOf(mgr', c) = Keep(BufferOf(mgr, c), Range(BufferOf(mgr, c)) \ {next})
          /\ \A e \in Channels \ {c} : BufferOf(mgr', e) = BufferOf(mgr, e)
      BY <1>4, <1>7, <2>1 DEF SameTable, BufferOf
    <3> QED
      BY <2>2, <3>1 DEF Removes
  <2>4. PICK k \in Channels, r \in Roles : k = c /\ r = role
    BY <2>1
  <2> DEFINE w == Mail(mgr, k, r)
             out == {next}
  <2>5. /\ Len(w) \in Nat \ {0} /\ SubSeq(w, 1, 1) = <<next.id>>
        /\ Mail(mgr', k, r) = SubSeq(w, 2, Len(w))
    BY <1>1, <1>2, <2>2, <2>3, <2>4, RemovesFirst
  <2>6. Removes(mgr, mgr', k, r, out)
    BY <2>3, <2>4
  <2> HIDE DEF w, out
  <2>7. Thins(mgr, mgr') /\ OthersStay(mgr, mgr', k, r)
    BY <1>1, <1>2, <2>6, RemovesFacts
  <2>8. delivered' = [delivered EXCEPT ![k][r] = delivered[k][r] \o SubSeq(w, 1, 1)]
    <3>1. delivered[k][r] \in Seq(Nat)
      BY <1>1 DEF ServerTypes
    <3>2. Append(delivered[k][r], next.id) = delivered[k][r] \o SubSeq(w, 1, 1)
      BY <2>1, <2>5, <3>1, AppendIsConcat
    <3> QED
      BY <1>7, <2>4, <3>2
  <2>9. 1 \in 1 .. Len(w) /\ Mail(mgr', k, r) = SubSeq(w, 1 + 1, Len(w))
    BY <2>5
  <2>10. PostOffice!HandOver(<<k, r>>)
    BY <1>1, <1>2, <1>3, <2>7, <2>8, <2>9, HandsMap DEF w
  <2>11. Posted(mgr', nextId')
    BY <1>1, <1>3, <2>7, ThinsPosted
  <2>12. <<k, r>> \in Channels \X Roles
    OBVIOUS
  <2> QED
    BY <2>10, <2>11, <2>12 DEF OfficeStep, PostOffice!MailNext
<1> QED
  BY <1>3, <1>6, <1>7

\* join_channel: the box of the role is handed over whole, if it is not empty.
LEMMA JoinOffice ==
  ASSUME OfficeInv, RelayInv', NEW s \in Sockets, NEW c \in Channels, NEW role \in Roles,
         JoinEnds(s, c, role)
  PROVE  OfficeStep
<1> DEFINE w == Mail(mgr, c, role)
<1>1. /\ Sane(mgr) /\ nextId \in Nat /\ ServerTypes
      /\ Posted(mgr, nextId) /\ crossed \subseteq Channels /\ nextId' = nextId
  BY RelayRanges DEF OfficeInv, MailInv, ServerTypes, JoinEnds
<1>2. Sane(mgr')
  BY NextRanges
<1>3. CASE mgr' = mgr /\ UNCHANGED <<delivered, crossed>>
  <2>1. Thins(mgr, mgr')
    BY <1>3 DEF Thins
  <2> QED
    BY <1>1, <1>3, <2>1, LosingSteps
<1>4. CASE /\ Switched(mgr, mgr', c, s, role)
           /\ delivered' = [delivered EXCEPT ![c][role] = delivered[c][role] \o w]
           /\ crossed' \in {crossed, crossed \cup {c}}
  <2>1. Removes(mgr, mgr', c, role, For(BufferOf(mgr, c), role))
    <3>1. /\ BufferOf(mgr', c) = Keep(BufferOf(mgr, c),
                                      Range(BufferOf(mgr, c)) \ For(BufferOf(mgr, c), role))
          /\ \A e \in Channels \ {c} : BufferOf(mgr', e) = BufferOf(mgr, e)
      BY <1>4 DEF Switched, BufferOf, Live
    <3> QED
      BY <3>1 DEF Removes
  <2>2. /\ Mail(mgr', c, role) = << >> /\ Len(w) \in Nat /\ w \in Seq(Nat)
        /\ SubSeq(w, 1, Len(w)) = w /\ SubSeq(w, Len(w) + 1, Len(w)) = << >>
    BY <1>1, <1>2, <2>1, RemovesAll
  <2>3. Thins(mgr, mgr') /\ OthersStay(mgr, mgr', c, role)
    <3> DEFINE out == For(BufferOf(mgr, c), role)
    <3>1. Removes(mgr, mgr', c, role, out)
      BY <2>1
    <3> HIDE DEF w, out
    <3> QED
      BY <1>1, <1>2, <3>1, RemovesFacts
  <2>4. Posted(mgr', nextId') /\ crossed \subseteq crossed' /\ crossed' \subseteq Channels
    BY <1>1, <1>4, <2>3, ThinsPosted
  <2>5. <<c, role>> \in Channels \X Roles
    OBVIOUS
  <2>6. delivered \in [Channels -> [Roles -> Seq(Nat)]]
    BY <1>1 DEF ServerTypes
  <2> HIDE DEF w
  <2>7. CASE w = << >>
    <3>1. delivered[c][role] \o w = delivered[c][role]
      BY <2>6, <2>7
    <3>2. delivered' = delivered
      BY <1>4, <2>6, <3>1
    <3>3. PostOffice!Lose
      BY <1>1, <1>2, <2>3, <2>4, <3>2, LosesMaps
    <3> QED
      BY <2>4, <3>3 DEF OfficeStep, PostOffice!MailNext
  <2>8. CASE w # << >>
    <3>1. Len(w) \in 1 .. Len(w)
      BY <2>2, <2>8
    <3>2. delivered' = [delivered EXCEPT ![c][role] = delivered[c][role] \o SubSeq(w, 1, Len(w))]
      BY <1>4, <2>2
    <3>3. Mail(mgr', c, role) = SubSeq(w, Len(w) + 1, Len(w))
      BY <2>2
    <3>4. PostOffice!HandOver(<<c, role>>)
      BY <1>1, <1>2, <2>3, <2>4, <3>1, <3>2, <3>3, HandsMap DEF w
    <3> QED
      BY <2>4, <2>5, <3>4 DEF OfficeStep, PostOffice!MailNext
  <2> QED
    BY <2>7, <2>8
<1>5. crossed \cup {c} \subseteq Channels
  BY <1>1
<1> QED
  BY <1>3, <1>4 DEF JoinEnds, Mail

\* At first there is no mail.
LEMMA InitOffice == RelayInit => OfficeInv /\ PostOffice!MailInit
<1> SUFFICES ASSUME RelayInit PROVE OfficeInv /\ PostOffice!MailInit
  OBVIOUS
<1>1. MailInv
  BY InitMailInv
<1>2. /\ nextId = 0 /\ crossed = {} /\ delivered = [c \in Channels |-> [role \in Roles |-> << >>]]
      /\ \A c \in Channels : ~ Known(mgr, c)
  BY DEF RelayInit, Init, NewManager, Known
<1>3. Posted(mgr, nextId)
  <2>1. \A c \in Channels : BufferOf(mgr, c) = << >>
    BY <1>2 DEF BufferOf
  <2> QED
    BY <2>1 DEF Posted, Rising, Range
<1>4. \A b \in Boxes : StoredFor(b[1], b[2]) = << >> /\ delivered[b[1]][b[2]] = << >>
  BY <1>2 DEF StoredFor, Boxes
<1>5. crossed \X Roles = {}
  BY <1>2
<1>6. PostOffice!MailInit
  BY <1>2, <1>4, <1>5 DEF PostOffice!MailInit, Boxes
<1> QED
  BY <1>1, <1>3, <1>6 DEF OfficeInv

\* A step that leaves the messages alone leaves the mailboxes alone.
LEMMA StillOffice ==
  ASSUME OfficeInv, UNCHANGED <<mgr, nextId, delivered, crossed>>
  PROVE  UNCHANGED PostOffice!mailVars /\ OfficeInv /\ Posted(mgr', nextId')
<1>1. Sane(mgr)
  BY RelayRanges DEF OfficeInv, MailInv
<1>2. Sane(mgr')
  BY <1>1
<1>3. [b \in Boxes |-> StoredFor(b[1], b[2])]' = [b \in Boxes |-> StoredFor(b[1], b[2])]
  BY <1>1, <1>2, WaitingBefore, WaitingAfter
<1>4. [b \in Boxes |-> delivered[b[1]][b[2]]]' = [b \in Boxes |-> delivered[b[1]][b[2]]]
      /\ (crossed \X Roles)' = crossed \X Roles
  BY DEF Boxes, Roles
<1>5. UNCHANGED PostOffice!mailVars
  BY <1>3, <1>4 DEF PostOffice!mailVars, Boxes
<1>6. Posted(mgr', nextId')
  BY DEF OfficeInv
<1> QED
  BY <1>5, <1>6

\* Every step of the relay is one of the mailboxes', or leaves them alone.
LEMMA RelayNextOffice ==
  OfficeInv /\ [RelayNext]_allVars => OfficeInv' /\ [PostOffice!MailNext]_PostOffice!mailVars
<1> SUFFICES ASSUME OfficeInv, [RelayNext]_allVars
             PROVE  OfficeInv' /\ [PostOffice!MailNext]_PostOffice!mailVars
  OBVIOUS
<1>1. MailInv /\ RelayInv /\ MailInv' /\ RelayInv'
  BY RelayNextKeeps, RelayNextSupplies DEF OfficeInv, MailInv
<1> DEFINE still == UNCHANGED PostOffice!mailVars /\ Posted(mgr', nextId')
<1> SUFFICES OfficeStep \/ still
  <2>1. Posted(mgr, nextId)' = Posted(mgr', nextId')
    BY DEF Posted, BufferOf, Known
  <2> QED
    BY <1>1, <2>1 DEF OfficeInv, OfficeStep
<1>2. UNCHANGED <<mgr, nextId, delivered, crossed>> => still
  BY StillOffice
<1> HIDE DEF still
<1>3. ASSUME NEW s \in Sockets,
             \/ \E c \in Channels, role \in Roles, key \in Keys \cup {None} : Rejoin(s, c, role, key)
             \/ ContinueJoin(s)
      PROVE  OfficeStep
  <2>1. PICK c \in Channels, role \in Roles : JoinEnds(s, c, role)
    BY <1>1, <1>3, JoinActions
  <2> QED
    BY <1>1, <2>1, JoinOffice
<1>4. ASSUME NEW s \in Sockets, Disconnect(s) PROVE OfficeStep
  BY <1>1, <1>4, DisconnectOffice
<1>5. ASSUME NEW s \in Sockets, NEW c \in Channels, LeaveHandler(s, c) PROVE OfficeStep
  BY <1>1, <1>5, LeaveHandlerOffice
<1>6. ASSUME NEW s \in Sockets, NEW c \in Channels, CloseHandler(s, c) PROVE OfficeStep
  BY <1>1, <1>6, CloseHandlerOffice
<1>7. ASSUME NEW s \in Sockets, NEW c \in Channels, NEW seq \in Seqs \cup {None},
             NEW size \in Sizes, NEW role \in Roles, MessageHandler(s, c, seq, size, role)
      PROVE  OfficeStep
  BY <1>1, <1>7, MessageOffice
<1>8. ASSUME NEW s \in Sockets, Ready(s) PROVE OfficeStep
  BY <1>1, <1>8, ReadyOffice
<1>9. CASE CleanupInterval
  BY <1>1, <1>9, CleanupOffice
<1>10. ASSUME NEW s \in Sockets, NEW c \in Channels, NEW role \in Roles,
              NEW key \in Keys \cup {None}, Rejoin(s, c, role, key)
       PROVE  OfficeStep
  BY <1>3, <1>10
<1>11. ASSUME NEW s \in Sockets, ContinueJoin(s) PROVE OfficeStep
  BY <1>3, <1>11
<1>12. ASSUME NEW s \in Sockets,
              Connect(s) \/ Drain(s) \/ ReadyForControl(s) \/ ControlWrite(s) \/ Upgrade(s)
       PROVE  still
  BY <1>2, <1>12 DEF Connect, Drain, ReadyForControl, ControlWrite, Upgrade, vars
<1>13. ASSUME NEW s \in Sockets, NEW c \in Channels, NEW role \in Roles,
              NEW key \in Keys \cup {None}, StartJoin(s, c, role, key)
       PROVE  still
  BY <1>2, <1>13 DEF StartJoin, vars
<1>14. CASE Elapse
  BY <1>2, <1>14 DEF Elapse, Tick, relayVars
<1>15. CASE UNCHANGED allVars
  BY <1>2, <1>15 DEF allVars, vars, relayVars
<1> QED
  BY <1>4, <1>5, <1>6, <1>7, <1>8, <1>9, <1>10, <1>11, <1>12, <1>13, <1>14, <1>15
     DEF RelayNext

\* The relay implements the mailboxes: whichever path a message takes, it is handed over
\* at once or stored, what is stored is handed over oldest first or lost for good, and
\* nothing passes stored mail but in a channel that a join has crossed.
THEOREM RelayImplementsMailbox == RelaySpec => ImplementsMailbox
<1>1. RelayInit => OfficeInv /\ PostOffice!MailInit
  BY InitOffice
<1>2. OfficeInv /\ [RelayNext]_allVars => OfficeInv' /\ [PostOffice!MailNext]_PostOffice!mailVars
  BY RelayNextOffice
<1> QED
  BY <1>1, <1>2, PTL DEF RelaySpec, ImplementsMailbox, PostOffice!MailSpec

-----------------------------------------------------------------------------
(* What the clients see *)

\* The theorems about the mailboxes, of the relay's.
Office == INSTANCE MailboxProofs WITH
  Boxes <- Channels \X Roles,
  posted <- nextId,
  waiting <- [b \in Channels \X Roles |-> StoredFor(b[1], b[2])],
  handed <- [b \in Channels \X Roles |-> delivered[b[1]][b[2]]],
  exposed <- crossed \X Roles

\* Office and PostOffice are two names of the same mailboxes.
LEMMA SameOfficeKeep ==
  ASSUME NEW q, NEW K
  PROVE  Office!Keep(q, K) = PostOffice!Keep(q, K) /\ Office!Range(q) = PostOffice!Range(q)
<1>1. \A P, i : Office!Rank(P, i) = PostOffice!Rank(P, i)
  BY DEF Office!Rank, PostOffice!Rank, Office!Cardinality, PostOffice!Cardinality
<1>2. \A P, k : Office!Nth(P, k) = PostOffice!Nth(P, k)
  BY <1>1 DEF Office!Nth, PostOffice!Nth
<1> QED
  BY <1>2 DEF Office!Keep, PostOffice!Keep, Office!Range, PostOffice!Range,
              Office!Cardinality, PostOffice!Cardinality

\* The mailbox under its two names is the same specification.
LEMMA SameOffice == PostOffice!MailSpec => Office!MailSpec
<1>1. PostOffice!MailInit => Office!MailInit
  BY DEF PostOffice!MailInit, Office!MailInit
<1>2. Office!Stored = PostOffice!Stored
  BY SameOfficeKeep DEF Office!Stored, PostOffice!Stored
<1>3. \A lost : Office!Without(lost) = PostOffice!Without(lost)
  BY SameOfficeKeep DEF Office!Without, PostOffice!Without
<1>4. ASSUME NEW b \in Channels \X Roles, PostOffice!PassOn(b) PROVE Office!PassOn(b)
  BY <1>4 DEF PostOffice!PassOn, Office!PassOn
<1>5. ASSUME NEW b \in Channels \X Roles, PostOffice!Store(b) PROVE Office!Store(b)
  BY <1>2, <1>3, <1>5 DEF PostOffice!Store, Office!Store
<1>6. ASSUME NEW b \in Channels \X Roles, PostOffice!HandOver(b) PROVE Office!HandOver(b)
  BY <1>6 DEF PostOffice!HandOver, Office!HandOver
<1>7. PostOffice!Lose => Office!Lose
  BY <1>2, <1>3 DEF PostOffice!Lose, Office!Lose
<1>8. UNCHANGED PostOffice!mailVars => UNCHANGED Office!mailVars
  BY DEF PostOffice!mailVars, Office!mailVars
<1>9. [PostOffice!MailNext]_PostOffice!mailVars => [Office!MailNext]_Office!mailVars
  BY <1>4, <1>5, <1>6, <1>7, <1>8 DEF PostOffice!MailNext, Office!MailNext
<1> QED
  BY <1>1, <1>9, PTL DEF PostOffice!MailSpec, Office!MailSpec

\* In a channel that no join has crossed, a role gets its messages in the order they
\* arrived at the relay, and before any that still waits for it.
HandedInOrder ==
  \A c \in Channels \ crossed, role \in Roles : \A i \in DOMAIN delivered[c][role] :
    /\ \A j \in DOMAIN delivered[c][role] : i < j => delivered[c][role][i] < delivered[c][role][j]
    /\ \A x \in For(BufferOf(mgr, c), role) : delivered[c][role][i] < x.id

\* A message that has been handed over, anywhere, is not handed over again, there or
\* elsewhere, and waits in no buffer.
HandedOnce ==
  \A c, d \in Channels, role, other \in Roles : \A i \in DOMAIN delivered[c][role] :
    /\ \A j \in DOMAIN delivered[d][other] :
         delivered[c][role][i] = delivered[d][other][j] => c = d /\ role = other /\ i = j
    /\ \A x \in For(BufferOf(mgr, d), other) : delivered[c][role][i] # x.id

\* Whatever sockets join, switch, leave, close and disconnect, and whichever path each
\* message takes: nothing is delivered twice, and nothing out of order except in a
\* channel joined by a socket whose delivery in flight belonged to another.
THEOREM HandedOnceAndInOrder == RelaySpec => [](HandedOnce /\ HandedInOrder)
<1>1. RelaySpec => []Office!InOrder /\ []Office!AtMostOnce
  BY RelayImplementsMailbox, SameOffice, Office!InOrderHolds, Office!AtMostOnceHolds, PTL
     DEF ImplementsMailbox
<1>2. ASSUME MailInv, NEW c \in Channels, NEW role \in Roles,
             NEW x \in For(BufferOf(mgr, c), role)
      PROVE  \E j \in DOMAIN StoredFor(c, role) : StoredFor(c, role)[j] = x.id
  <2>1. Sane(mgr)
    BY <1>2, RelayRanges DEF MailInv
  <2>2. StoredFor(c, role) = Mail(mgr, c, role)
    BY <2>1, StoredOfIsMail DEF StoredFor, StoredOf, Ids
  <2>3. x.id \in Range(Mail(mgr, c, role))
    BY <2>1, MailFacts DEF IdsIn
  <2> QED
    BY <2>2, <2>3 DEF Range
<1>3. MailInv /\ Office!InOrder => HandedInOrder
  <2> SUFFICES ASSUME MailInv, Office!InOrder,
                      NEW c \in Channels \ crossed, NEW role \in Roles,
                      NEW i \in DOMAIN delivered[c][role]
               PROVE  /\ \A j \in DOMAIN delivered[c][role] :
                           i < j => delivered[c][role][i] < delivered[c][role][j]
                      /\ \A x \in For(BufferOf(mgr, c), role) : delivered[c][role][i] < x.id
    BY DEF HandedInOrder
  <2>1. <<c, role>> \in (Channels \X Roles) \ (crossed \X Roles)
    OBVIOUS
  <2>2. /\ \A j \in DOMAIN delivered[c][role] :
             i < j => delivered[c][role][i] < delivered[c][role][j]
        /\ \A j \in DOMAIN StoredFor(c, role) : delivered[c][role][i] < StoredFor(c, role)[j]
    BY <2>1 DEF Office!InOrder, Office!Ascending
  <2> QED
    BY <1>2, <2>2
<1>4. MailInv /\ Office!AtMostOnce => HandedOnce
  <2> SUFFICES ASSUME MailInv, Office!AtMostOnce,
                      NEW c \in Channels, NEW d \in Channels,
                      NEW role \in Roles, NEW other \in Roles,
                      NEW i \in DOMAIN delivered[c][role]
               PROVE  /\ \A j \in DOMAIN delivered[d][other] :
                           delivered[c][role][i] = delivered[d][other][j]
                             => c = d /\ role = other /\ i = j
                      /\ \A x \in For(BufferOf(mgr, d), other) : delivered[c][role][i] # x.id
    BY DEF HandedOnce
  <2>1. <<c, role>> \in Channels \X Roles /\ <<d, other>> \in Channels \X Roles
    OBVIOUS
  <2>2. /\ \A j \in DOMAIN delivered[d][other] :
             delivered[c][role][i] = delivered[d][other][j] => <<c, role>> = <<d, other>> /\ i = j
        /\ \A j \in DOMAIN StoredFor(d, other) : delivered[c][role][i] # StoredFor(d, other)[j]
    BY <2>1 DEF Office!AtMostOnce
  <2> QED
    BY <1>2, <2>2
<1> QED
  BY <1>1, <1>3, <1>4, MailInvariance, PTL

-----------------------------------------------------------------------------
(* The accounts of the server.  A handler calls up to two methods of the     *)
(* manager in one step, so what AccountingProofs says of one method is made  *)
(* to compose.                                                               *)

\* A manager whose accounts are in order, with what its methods need for that.
Balanced(m, time, id) == Fine(m, time) /\ AccountsInOrder(m, id)

\* A method that stores nothing keeps the buffers as the accounts need them.
LEMMA LosingBalances ==
  ASSUME NEW m, NEW n, NEW time \in Nat, NEW id \in Nat, Balanced(m, time, id),
         Sane(n), OrderOK(n), Aged(n, time), Bounded(n), Exact(n), Within(n), Loses(m, n)
  PROVE  Balanced(n, time, id)
<1>1. Sane(m) /\ Tidy(m, id)
  BY DEF Balanced, Fine, AccountsInOrder
<1>2. Tidy(n, id)
  BY <1>1, LosesTidy
<1> QED
  BY <1>2 DEF Balanced, Fine, AccountsInOrder

\* leave.
LEMMA LeaveBalances ==
  ASSUME NEW m, NEW time \in Nat, NEW id \in Nat, Balanced(m, time, id),
         NEW c \in Channels, NEW s \in Sockets
  PROVE  Balanced(Leave(m, c, s, time), time, id)
<1> DEFINE n == Leave(m, c, s, time)
<1>1. Fine(m, time) /\ Sane(m) /\ OrderOK(m) /\ Exact(m) /\ Within(m)
  BY DEF Balanced, Fine, AccountsInOrder
<1>2. Step(m, n)
  BY <1>1, LeaveStep
<1>3. Preserves(m, n)
  BY <1>1, <1>2, StepPreserves
<1>4. Delivers(m, n, time, TRUE)
  BY <1>1, LeaveDelivers
<1>5. Exact(n) /\ Within(n) /\ Loses(m, n)
  BY <1>1, LeaveIsExact, LeaveLoses
<1> HIDE DEF n
<1>6. Balanced(n, time, id)
  BY <1>1, <1>3, <1>4, <1>5, LosingBalances DEF Preserves, Delivers
<1> QED
  BY <1>6 DEF n

\* releaseDirectDelivery.
LEMMA ReleaseBalances ==
  ASSUME NEW m, NEW time \in Nat, NEW id \in Nat, Balanced(m, time, id), NEW s \in Sockets
  PROVE  Balanced(ReleaseDirectDelivery(m, s), time, id)
<1> DEFINE n == ReleaseDirectDelivery(m, s)
<1>1. Fine(m, time) /\ Sane(m) /\ OrderOK(m) /\ Exact(m) /\ Within(m)
  BY DEF Balanced, Fine, AccountsInOrder
<1>2. Step(m, n)
  BY <1>1, ReleaseDirectDeliveryStep
<1>3. Preserves(m, n)
  BY <1>1, <1>2, StepPreserves
<1>4. Delivers(m, n, time, TRUE)
  BY <1>1, ReleaseDelivers
<1>5. Exact(n) /\ Within(n) /\ Loses(m, n)
  BY <1>1, DropIsExact, DropLoses
<1> HIDE DEF n
<1>6. Balanced(n, time, id)
  BY <1>1, <1>3, <1>4, <1>5, LosingBalances DEF Preserves, Delivers
<1> QED
  BY <1>6 DEF n

\* advanceDirectDelivery.
LEMMA AdvanceBalances ==
  ASSUME NEW m, NEW time \in Nat, NEW id \in Nat, Balanced(m, time, id), NEW s \in Sockets
  PROVE  Balanced(AdvanceDirectDelivery(m, s).mgr, time, id)
<1> DEFINE n == AdvanceDirectDelivery(m, s).mgr
<1>1. /\ Fine(m, time) /\ Sane(m) /\ OrderOK(m) /\ Exact(m) /\ Within(m)
      /\ Unrepeated(m)
  BY DEF Balanced, Fine, AccountsInOrder, Tidy
<1>2. Step(m, n)
  BY <1>1, AdvanceDirectDeliveryStep
<1>3. Preserves(m, n)
  BY <1>1, <1>2, StepPreserves
<1>4. Delivers(m, n, time, TRUE)
  BY <1>1, AdvanceDelivers
<1>5. Exact(n) /\ Within(n) /\ Loses(m, n)
  BY <1>1, AdvanceIsExact, AdvanceLoses
<1> HIDE DEF n
<1>6. Balanced(n, time, id)
  BY <1>1, <1>3, <1>4, <1>5, LosingBalances DEF Preserves, Delivers
<1> QED
  BY <1>6 DEF n

\* close.
LEMMA CloseBalances ==
  ASSUME NEW m, NEW time \in Nat, NEW id \in Nat, Balanced(m, time, id),
         NEW c \in Channels, Live(m, c)
  PROVE  Balanced(Close(m, c, time), time, id)
<1> DEFINE n == Close(m, c, time)
<1>1. /\ Fine(m, time) /\ Sane(m) /\ OrderOK(m) /\ Exact(m) /\ Within(m)
      /\ HollowTombs(m)
  BY DEF Balanced, Fine, AccountsInOrder, Tidy
<1>2. Sane(n) /\ OrderOK(n)
  BY <1>1, CloseFacts
<1>3. Delivers(m, n, time, TRUE)
  BY <1>1, CloseDelivers
<1>4. Exact(n) /\ Within(n) /\ Loses(m, n)
  BY <1>1, CloseIsExact, CloseLoses
<1> HIDE DEF n
<1>5. Balanced(n, time, id)
  BY <1>2, <1>3, <1>4, LosingBalances DEF Delivers
<1> QED
  BY <1>5 DEF n

\* The cleanup timer.
LEMMA CleanupBalances ==
  ASSUME NEW m, NEW time \in Nat, NEW id \in Nat, Balanced(m, time, id)
  PROVE  Balanced(Cleanup(m, time), time, id)
<1> DEFINE n == Cleanup(m, time)
<1>1. /\ Fine(m, time) /\ Sane(m) /\ OrderOK(m) /\ Exact(m) /\ Within(m)
      /\ HollowTombs(m) /\ Aged(m, time)
  BY DEF Balanced, Fine, AccountsInOrder, Tidy
<1>2. Sane(n) /\ OrderOK(n)
  BY <1>1, CleanupFacts
<1>3. Delivers(m, n, time, TRUE)
  BY <1>1, CleanupDelivers
<1>4. Exact(n) /\ Within(n) /\ Loses(m, n)
  BY <1>1, CleanupIsExact, CleanupLoses
<1> HIDE DEF n
<1>5. Balanced(n, time, id)
  BY <1>2, <1>3, <1>4, LosingBalances DEF Delivers
<1> QED
  BY <1>5 DEF n

\* join, whatever it answers.
LEMMA JoinBalances ==
  ASSUME NEW m, NEW time \in Nat, NEW id \in Nat, Balanced(m, time, id),
         NEW c \in Channels, NEW s \in Sockets, NEW role \in Roles,
         NEW key \in Keys \cup {None}, NEW ip \in Ips, NEW active \in SUBSET Sockets
  PROVE  Balanced(Join(m, c, s, role, key, ip, active, time).mgr, time, id)
<1> DEFINE n == Join(m, c, s, role, key, ip, active, time).mgr
<1>1. Fine(m, time) /\ Sane(m) /\ OrderOK(m) /\ Exact(m) /\ Within(m)
  BY DEF Balanced, Fine, AccountsInOrder
<1>2. Preserves(m, n)
  BY <1>1, JoinPreserves
<1>3. Delivers(m, n, time, TRUE)
  BY <1>1, JoinDelivers
<1>4. Exact(n) /\ Within(n)
  BY <1>1, JoinIsExact
<1>5. Loses(m, n)
  BY <1>1, JoinLoses
<1> HIDE DEF n
<1>6. Balanced(n, time, id)
  BY <1>1, <1>2, <1>3, <1>4, <1>5, LosingBalances DEF Preserves, Delivers
<1> QED
  BY <1>6 DEF n

\* routeMessage: a message that has been answered has taken its id.
LEMMA RouteBalances ==
  ASSUME NEW m, NEW time \in Nat, NEW data \in Payload, data.id \in Nat,
         Balanced(m, time, data.id), NEW c \in Channels, NEW s \in Sockets,
         NEW ip \in Ips, NEW receptive \in SUBSET Sockets,
         NEW later \in Nat, data.id <= later,
         RouteMessage(m, c, s, data, ip, receptive, time).status # "error" => data.id < later
  PROVE  Balanced(RouteMessage(m, c, s, data, ip, receptive, time).mgr, time, later)
<1> DEFINE result == RouteMessage(m, c, s, data, ip, receptive, time)
           n == result.mgr
<1>1. /\ Fine(m, time) /\ Sane(m) /\ OrderOK(m) /\ Exact(m) /\ Within(m)
      /\ Tidy(m, data.id)
  BY DEF Balanced, Fine, AccountsInOrder
<1>2. Step(m, n)
  BY <1>1, RouteMessageStep
<1>3. Preserves(m, n)
  BY <1>1, <1>2, StepPreserves
<1>4. Delivers(m, n, time, result.status # "error")
  BY <1>1, RouteDelivers
<1>5. Exact(n) /\ Within(n)
  BY <1>1, RouteIsExact
<1>6. Tidy(n, later)
  BY <1>1, RouteTidy
<1> HIDE DEF n
<1>7. Balanced(n, time, later)
  BY <1>1, <1>3, <1>4, <1>5, <1>6 DEF Preserves, Delivers, Balanced, Fine, AccountsInOrder
<1> QED
  BY <1>7 DEF n

\* What a disconnect does to the manager: a release, and a leave.
LEMMA ForsakeBalances ==
  ASSUME NEW m, now \in Nat, NEW id \in Nat, Balanced(m, now, id), NEW s \in Sockets,
         currentChannelId[s] \in Channels \cup {None}
  PROVE  Balanced(Forsake(m, s), now, id)
<1> DEFINE released == ReleaseDirectDelivery(m, s)
<1>1. Balanced(released, now, id)
  BY ReleaseBalances
<1>2. Forsake(m, s) = IF currentChannelId[s] = None THEN released
                      ELSE Leave(released, currentChannelId[s], s, now)
  BY DEF Forsake
<1> HIDE DEF released
<1>3. CASE currentChannelId[s] = None
  BY <1>1, <1>2, <1>3
<1>4. CASE currentChannelId[s] # None
  <2>1. Balanced(Leave(released, currentChannelId[s], s, now), now, id)
    BY <1>1, <1>4, LeaveBalances
  <2> QED
    BY <1>2, <1>4, <2>1
<1> QED
  BY <1>3, <1>4

\* The end of a join: a join, and a leave of the previous channel.
LEMMA FinishJoinBalances ==
  ASSUME RelayInv, Balanced(mgr, now, nextId),
         NEW s \in Sockets, NEW c \in Channels, NEW role \in Roles,
         NEW key \in Keys \cup {None}, NEW switching, NEW joinedRoom,
         FinishJoin(s, c, role, key, switching, joinedRoom)
  PROVE  Balanced(mgr', now', nextId')
<1> DEFINE k == Join(mgr, c, s, role, key, Address[s], OpenSockets, now).mgr
           previous == currentChannelId[s]
<1>1. /\ now \in Nat /\ nextId \in Nat /\ ServerTypes
      /\ Address[s] \in Ips /\ OpenSockets \in SUBSET Sockets
  BY RelayRanges, RelayAssumption DEF OpenSockets
<1>2. /\ now' = now /\ nextId' = nextId
      /\ \/ mgr' = k
         \/ previous # None /\ mgr' = Leave(k, previous, s, now)
  BY DEF FinishJoin
<1>3. Balanced(k, now, nextId)
  BY <1>1, JoinBalances
<1> HIDE DEF k
<1>4. previous # None => Balanced(Leave(k, previous, s, now), now, nextId)
  BY <1>1, <1>3, LeaveBalances DEF ServerTypes
<1> QED
  BY <1>2, <1>3, <1>4

\* message: the routing, and the disconnect of a counterparty it is refused for.
LEMMA MessageBalances ==
  ASSUME RelayInv, Balanced(mgr, now, nextId),
         NEW s \in Sockets, NEW c \in Channels, NEW seq \in Seqs \cup {None},
         NEW size \in Sizes, NEW role \in Roles, MessageHandler(s, c, seq, size, role)
  PROVE  Balanced(mgr', now', nextId')
<1> DEFINE data == DataOf(role, seq, size)
           result == Answered(s, c, seq, size, role)
<1>1. /\ now \in Nat /\ nextId \in Nat /\ ServerTypes
      /\ Address[s] \in Ips /\ Receptive \in SUBSET Sockets
  BY RelayRanges, RelayAssumption DEF Receptive, OpenSockets
<1>2. /\ data \in Payload /\ data.id = nextId /\ now' = now
      /\ result.status \in {"error", "direct", "buffered"}
      /\ SentOn(result, c, role) \/ KeptApart(result) \/ CutOff(result, s)
  <2> DEFINE message == StoredAs(s, role, seq, size)
  <2>1. /\ data \in Payload /\ data.id = nextId
        /\ Routed(mgr, result, c, s, data, message, Receptive)
        /\ UNCHANGED <<now, joining, crossed>>
        /\ SentOn(result, c, role) \/ KeptApart(result) \/ CutOff(result, s)
    BY MessageKinds
  <2> HIDE DEF data, result, message
  <2>2. result.status \in {"error", "direct", "buffered"}
    BY <2>1 DEF Routed
  <2> QED
    BY <2>1, <2>2
<1>3. /\ nextId' \in Nat /\ nextId <= nextId'
      /\ result.status # "error" => nextId < nextId'
  BY <1>1, <1>2 DEF SentOn, KeptApart, CutOff, Withheld
<1>4. Balanced(result.mgr, now, nextId')
  <2>1. result = RouteMessage(mgr, c, s, data, Address[s], Receptive, now)
    BY DEF Answered
  <2> HIDE DEF data, result
  <2> QED
    BY <1>1, <1>2, <1>3, <2>1, RouteBalances
<1> HIDE DEF data, result
<1>5. CASE SentOn(result, c, role)
  BY <1>2, <1>4, <1>5 DEF SentOn
<1>6. CASE KeptApart(result)
  BY <1>2, <1>4, <1>6 DEF KeptApart
<1>7. CASE CutOff(result, s)
  <2>1. result.target \in Sockets /\ mgr' = Forsake(result.mgr, result.target)
    BY <1>7 DEF CutOff
  <2>2. currentChannelId[result.target] \in Channels \cup {None}
    BY <1>1, <2>1 DEF ServerTypes
  <2>3. Balanced(Forsake(result.mgr, result.target), now, nextId')
    BY <1>1, <1>3, <1>4, <2>1, <2>2, ForsakeBalances
  <2> QED
    BY <1>2, <2>1, <2>3
<1> QED
  BY <1>2, <1>5, <1>6, <1>7

\* close_channel: a leave and a close.
LEMMA CloseHandlerBalances ==
  ASSUME RelayInv, Balanced(mgr, now, nextId), NEW s \in Sockets, NEW c \in Channels,
         CloseHandler(s, c)
  PROVE  Balanced(mgr', now', nextId')
<1> DEFINE left == Leave(mgr, c, s, now)
<1>1. now \in Nat /\ nextId \in Nat /\ Sane(mgr) /\ TombstonesAreEmpty(mgr)
  BY RelayRanges DEF Served
<1>2. mgr' = Close(left, c, now) /\ now' = now /\ nextId' = nextId /\ IsMember(mgr, c, s)
  BY DEF CloseHandler
<1>3. Balanced(left, now, nextId)
  BY <1>1, LeaveBalances
<1>4. Live(mgr, c)
  BY <1>1, <1>2 DEF IsMember, Members, TombstonesAreEmpty, Tombstone, Live
<1>5. SameTable(mgr, left)
  BY <1>1, LeaveEffects
<1>6. Live(left, c)
  BY <1>4, <1>5 DEF SameTable, Live
<1> HIDE DEF left
<1>7. Balanced(Close(left, c, now), now, nextId)
  BY <1>1, <1>3, <1>6, CloseBalances
<1> QED
  BY <1>2, <1>7

\* The connections, and a manager whose accounts are in order.
LedgerInv == RelayInv /\ Balanced(mgr, now, nextId)

\* The accounts of a server without channels.
LEMMA InitLedgerInv == RelayInit => LedgerInv
<1> SUFFICES ASSUME RelayInit PROVE LedgerInv
  OBVIOUS
<1>1. RelayInv /\ Init
  BY InitRelayInv DEF RelayInit
<1>2. AccountInv
  BY <1>1, InitAccountInv
<1> QED
  BY <1>1, <1>2 DEF LedgerInv, Balanced, Fine, AccountInv, DeliveryInv, IInv

\* Every handler leaves them in order.
LEMMA RelayNextBalances ==
  ASSUME LedgerInv, [RelayNext]_allVars
  PROVE  Balanced(mgr', now', nextId')
<1>1. /\ RelayInv /\ Balanced(mgr, now, nextId) /\ now \in Nat /\ nextId \in Nat
      /\ ServerTypes
  BY RelayRanges DEF LedgerInv
<1>2. ASSUME UNCHANGED vars PROVE Balanced(mgr', now', nextId')
  BY <1>1, <1>2 DEF vars
<1>3. ASSUME NEW s \in Sockets,
             \/ Connect(s)
             \/ \E c \in Channels, role \in Roles, key \in Keys \cup {None} :
                  StartJoin(s, c, role, key)
             \/ Drain(s) \/ ReadyForControl(s) \/ ControlWrite(s) \/ Upgrade(s)
      PROVE  Balanced(mgr', now', nextId')
  BY <1>2, <1>3 DEF Connect, StartJoin, Drain, ReadyForControl, ControlWrite, Upgrade
<1>4. ASSUME NEW s \in Sockets, Disconnect(s) PROVE Balanced(mgr', now', nextId')
  <2>1. mgr' = Forsake(mgr, s) /\ now' = now /\ nextId' = nextId
    BY <1>4 DEF Disconnect
  <2>2. currentChannelId[s] \in Channels \cup {None}
    BY <1>1 DEF ServerTypes
  <2>3. Balanced(Forsake(mgr, s), now, nextId)
    BY <1>1, <2>2, ForsakeBalances
  <2> QED
    BY <2>1, <2>3
<1>5. ASSUME NEW s \in Sockets, NEW c \in Channels, NEW role \in Roles,
             NEW key \in Keys \cup {None}, Rejoin(s, c, role, key)
      PROVE  Balanced(mgr', now', nextId')
  <2>1. FinishJoin(s, c, role, key, FALSE, FALSE)
    BY <1>5 DEF Rejoin
  <2> QED
    BY <1>1, <2>1, FinishJoinBalances
<1>6. ASSUME NEW s \in Sockets, ContinueJoin(s) PROVE Balanced(mgr', now', nextId')
  <2> DEFINE j == joining[s]
  <2>1. j # None /\ FinishJoin(s, j.channel, j.role, j.key, j.switching, TRUE)
    BY <1>6 DEF ContinueJoin
  <2>2. j.channel \in Channels /\ j.role \in Roles /\ j.key \in Keys \cup {None}
    BY <1>1, <2>1 DEF ServerTypes, PendingJoin
  <2> HIDE DEF j
  <2> QED
    BY <1>1, <2>1, <2>2, FinishJoinBalances
<1>7. ASSUME NEW s \in Sockets, NEW c \in Channels, LeaveHandler(s, c)
      PROVE  Balanced(mgr', now', nextId')
  <2>1. mgr' = Leave(mgr, c, s, now) /\ now' = now /\ nextId' = nextId
    BY <1>7 DEF LeaveHandler
  <2>2. Balanced(Leave(mgr, c, s, now), now, nextId)
    BY <1>1, LeaveBalances
  <2> QED
    BY <2>1, <2>2
<1>8. ASSUME NEW s \in Sockets, NEW c \in Channels, CloseHandler(s, c)
      PROVE  Balanced(mgr', now', nextId')
  BY <1>1, <1>8, CloseHandlerBalances
<1>9. ASSUME NEW s \in Sockets, NEW c \in Channels, NEW seq \in Seqs \cup {None},
             NEW size \in Sizes, NEW role \in Roles, MessageHandler(s, c, seq, size, role)
      PROVE  Balanced(mgr', now', nextId')
  BY <1>1, <1>9, MessageBalances
<1>10. ASSUME NEW s \in Sockets, Ready(s) PROVE Balanced(mgr', now', nextId')
  <2>1. /\ now' = now /\ nextId' = nextId
        /\ mgr' \in {mgr, AdvanceDirectDelivery(mgr, s).mgr}
    BY <1>10 DEF Ready
  <2>2. Balanced(AdvanceDirectDelivery(mgr, s).mgr, now, nextId)
    BY <1>1, AdvanceBalances
  <2> QED
    BY <1>1, <2>1, <2>2
<1>11. CASE CleanupInterval
  <2>1. mgr' = Cleanup(mgr, now) /\ now' = now /\ nextId' = nextId
    BY <1>11 DEF CleanupInterval, CleanupTimer
  <2>2. Balanced(Cleanup(mgr, now), now, nextId)
    BY <1>1, CleanupBalances
  <2> QED
    BY <2>1, <2>2
<1>12. CASE Elapse
  <2>1. mgr' = mgr /\ now' = now + 1 /\ nextId' = nextId
    BY <1>12 DEF Elapse, Tick
  <2>2. Fine(mgr, now) /\ Sane(mgr) /\ AccountsInOrder(mgr, nextId)
    BY <1>1 DEF Balanced, Fine
  <2>3. \A c \in Channels : Known(mgr, c) => mgr.channels[c].lastActivity \in Nat
    BY <2>2, BufferTypes
  <2>4. Fine(mgr, now + 1)
    BY <1>1, <2>2, <2>3 DEF Fine, Aged
  <2> QED
    BY <2>1, <2>2, <2>4 DEF Balanced
<1>13. CASE UNCHANGED allVars
  BY <1>2, <1>13 DEF allVars
<1> QED
  BY <1>3, <1>4, <1>5, <1>6, <1>7, <1>8, <1>9, <1>10, <1>11, <1>12, <1>13 DEF RelayNext

\* Every reachable state of the server satisfies it.
LEMMA LedgerInvariance == RelaySpec => []LedgerInv
<1>1. ASSUME LedgerInv, RelayInv', [RelayNext]_allVars PROVE LedgerInv'
  <2>1. Balanced(mgr', now', nextId')
    BY <1>1, RelayNextBalances
  <2> QED
    BY <1>1, <2>1 DEF LedgerInv
<1> QED
  BY <1>1, InitLedgerInv, RelayInvariance, PTL DEF RelaySpec

\* What the methods of the manager promise one by one holds of the server, whose
\* handlers call several of them in one turn and one of whose joins spans two: a
\* disconnect releases before it leaves, a switch joins before it leaves, a refused
\* message may disconnect its target.  In no order do they count a byte twice or
\* forget one, exceed a budget, seat two sockets in one role, lose track of a
\* tombstone or let an address have too many channels.
THEOREM ManagerKeepsItsPromises ==
  RelaySpec => [](/\ BytesAreExact /\ BudgetsHold
                  /\ OneSocketPerRole /\ TombstoneFifoIsExact
                  /\ LiveChannelsPerCreatorBounded)
<1>1. ASSUME LedgerInv PROVE BytesAreExact /\ BudgetsHold
  <2>1. Sane(mgr) /\ Exact(mgr) /\ Within(mgr) /\ Bounded(mgr)
    BY <1>1 DEF LedgerInv, Balanced, Fine, AccountsInOrder
  <2> QED
    BY <2>1, ExactMeansBytes, WithinMeansBudgets
<1>2. LedgerInv => IInv
  BY DEF LedgerInv, RelayInv, Managed, IInv
<1> QED
  BY <1>1, <1>2, SeatsAreSingle, OrderIsExact, CreatorsAreBounded, LedgerInvariance, PTL

=============================================================================
