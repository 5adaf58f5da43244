-------------------------- MODULE AdmissionControl --------------------------
(***************************************************************************)
(* Who may hold a connection of the relay: admitEngineRequest, the         *)
(* Engine.IO connection and close events, the caps at the head of the      *)
(* Socket.IO connection handler and its disconnect handler, all of         *)
(* src/relay/relayServer.ts.                                               *)
(*                                                                         *)
(* An Engine.IO session comes first (a handshake request is admitted, then *)
(* the session exists); it becomes a full socket when the client sends the *)
(* Socket.IO CONNECT packet.  admitEngineRequest answers the request, and  *)
(* the session is counted at the engine's connection event, after the      *)
(* server has awaited its new id: a session is "pending" in between.       *)
(***************************************************************************)
EXTENDS RateLimiter, FiniteSets

CONSTANTS
  Sessions,           \* connections; an id stands for one session at a time
  Address,            \* the client address of each
  MaxSocketsPerIp,    \* RELAY_MAX_SOCKETS_PER_IP
  MaxActiveSockets,   \* RELAY_MAX_ACTIVE_SOCKETS
  EventBuckets,       \* the buckets of the events that full sockets send
  MaxPending          \* bound: handshakes admitted and not yet sessions

ASSUME AdmissionAssumption ==
  /\ IsFiniteSet(Sessions) /\ Address \in [Sessions -> Ips]
  /\ MaxSocketsPerIp \in Nat \ {0} /\ MaxActiveSockets \in Nat \ {0}
  /\ EventBuckets \subseteq {"message", "join", "control"}
  /\ MaxPending \in Nat \ {0}

VARIABLES
  phase,                \* where each session is
  engineSessionsByIp,
  activeSocketsByIp

admissionVars == <<phase, engineSessionsByIp, activeSocketsByIp>>
allVars == <<limiterVars, admissionVars>>

\* none: no session.  pending: admitted.  fresh: a session that has not sent
\* CONNECT.  socket: a full socket.  parked: it has sent DISCONNECT and keeps the
\* session.  closing: the server has closed it, its writes are not flushed yet.
Phases == {"none", "pending", "fresh", "socket", "parked", "closing"}

\* The sessions the engine holds.
SessionPhases == {"fresh", "socket", "parked", "closing"}

Of(ip, phases) == {s \in Sessions : Address[s] = ip /\ phase[s] \in phases}
Pending == {s \in Sessions : phase[s] = "pending"}
FullSockets == {s \in Sessions : phase[s] = "socket"}

\* io.engine.clientsCount
ClientsCount == Cardinality({s \in Sessions : phase[s] \in SessionPhases})

AdmissionInit ==
  /\ LimiterInit
  /\ phase = [s \in Sessions |-> "none"]
  /\ engineSessionsByIp = [ip \in Ips |-> 0]
  /\ activeSocketsByIp = [ip \in Ips |-> 0]

More(counter, ip) == [counter EXCEPT ![ip] = @ + 1]

\* The entry goes away with the last one, and an absent entry stays absent.
Fewer(counter, ip) == [counter EXCEPT ![ip] = IF @ <= 1 THEN 0 ELSE @ - 1]

-----------------------------------------------------------------------------
(* Engine.IO *)

HasRoom_OffByOne(ip) ==
  engineSessionsByIp[ip] <= MaxSocketsPerIp /\ ClientsCount < MaxActiveSockets

\* The caps admitEngineRequest tests once the handshake bucket has let it.
HasRoom(ip) == engineSessionsByIp[ip] < MaxSocketsPerIp /\ ClientsCount < MaxActiveSockets

\* A request without a session id.
HandshakeRequest(s) ==
  /\ phase[s] = "none"
  /\ Cardinality(Pending) < MaxPending
  /\ CheckRateLimit(Address[s], "handshake")
  /\ phase' = [phase EXCEPT ![s] =
       IF Allowed(Address[s], "handshake") /\ HasRoom(Address[s]) THEN "pending" ELSE "none"]
  /\ UNCHANGED <<engineSessionsByIp, activeSocketsByIp>>

\* The engine refuses the admitted request for a reason of its own.
HandshakeFails(s) ==
  /\ phase[s] = "pending"
  /\ phase' = [phase EXCEPT ![s] = "none"]
  /\ UNCHANGED <<limiterVars, engineSessionsByIp, activeSocketsByIp>>

\* io.engine 'connection'
EngineConnection(s) ==
  /\ phase[s] = "pending"
  /\ phase' = [phase EXCEPT ![s] = "fresh"]
  /\ engineSessionsByIp' = More(engineSessionsByIp, Address[s])
  /\ UNCHANGED <<limiterVars, activeSocketsByIp>>

\* connectTimeout ends a session that has never sent CONNECT.
HandshakeTimeout(s) ==
  /\ phase[s] = "fresh"
  /\ phase' = [phase EXCEPT ![s] = "closing"]
  /\ UNCHANGED <<limiterVars, engineSessionsByIp, activeSocketsByIp>>

EngineClose_KeepsSocketCount(s) ==
  /\ phase[s] \in SessionPhases
  /\ phase' = [phase EXCEPT ![s] = "none"]
  /\ engineSessionsByIp' = Fewer(engineSessionsByIp, Address[s])
  /\ UNCHANGED <<limiterVars, activeSocketsByIp>>

\* 'close' of the session: the client went away, stopped answering pings, or the
\* server's close is through.  A full socket's disconnect handler runs in the
\* same turn.
EngineClose(s) ==
  /\ phase[s] \in SessionPhases
  /\ phase' = [phase EXCEPT ![s] = "none"]
  /\ engineSessionsByIp' = Fewer(engineSessionsByIp, Address[s])
  /\ activeSocketsByIp' = IF phase[s] = "socket"
                          THEN Fewer(activeSocketsByIp, Address[s]) ELSE activeSocketsByIp
  /\ UNCHANGED limiterVars

-----------------------------------------------------------------------------
(* Socket.IO *)

Welcome_IgnoresSockets(ip) == ClientsCount <= MaxActiveSockets

\* The caps the connection handler tests, itself counted.
Welcome(ip) == activeSocketsByIp[ip] + 1 <= MaxSocketsPerIp /\ ClientsCount <= MaxActiveSockets

Connection_KeepsRefused(s) ==
  LET ip == Address[s]
      accepted == Allowed(ip, "connect") /\ Welcome(ip)
  IN  /\ phase[s] \in {"fresh", "parked"}
      /\ CheckRateLimit(ip, "connect")
      /\ phase' = [phase EXCEPT ![s] = IF accepted THEN "socket" ELSE "closing"]
      /\ activeSocketsByIp' = IF Allowed(ip, "connect")
                              THEN More(activeSocketsByIp, ip) ELSE activeSocketsByIp
      /\ UNCHANGED engineSessionsByIp

\* io 'connection': the client sent CONNECT.  A refused socket is disconnected
\* with its session, and what was counted for it is taken back before the handler
\* returns.
Connection(s) ==
  LET ip == Address[s]
      accepted == Allowed(ip, "connect") /\ Welcome(ip)
  IN  /\ phase[s] \in {"fresh", "parked"}
      /\ CheckRateLimit(ip, "connect")
      /\ phase' = [phase EXCEPT ![s] = IF accepted THEN "socket" ELSE "closing"]
      /\ activeSocketsByIp' = IF accepted THEN More(activeSocketsByIp, ip) ELSE activeSocketsByIp
      /\ UNCHANGED engineSessionsByIp

SocketDisconnect_ForgetsLimits(s) ==
  /\ phase[s] = "socket"
  /\ phase' = [phase EXCEPT ![s] = "parked"]
  /\ activeSocketsByIp' = Fewer(activeSocketsByIp, Address[s])
  /\ rateLimits' = [rateLimits EXCEPT ![Address[s]] = None]
  /\ UNCHANGED <<clock, grants, engineSessionsByIp>>

\* 'disconnect' after the client sent DISCONNECT: the session stays, and may send
\* CONNECT again.
SocketDisconnect(s) ==
  /\ phase[s] = "socket"
  /\ phase' = [phase EXCEPT ![s] = "parked"]
  /\ activeSocketsByIp' = Fewer(activeSocketsByIp, Address[s])
  /\ UNCHANGED <<limiterVars, engineSessionsByIp>>

\* 'disconnect' after the server has disconnected the socket with its session.
SocketKicked(s) ==
  /\ phase[s] = "socket"
  /\ phase' = [phase EXCEPT ![s] = "closing"]
  /\ activeSocketsByIp' = Fewer(activeSocketsByIp, Address[s])
  /\ UNCHANGED <<limiterVars, engineSessionsByIp>>

\* Any other event of a full socket goes through its bucket first.
SocketEvent(s, bucket) ==
  /\ phase[s] = "socket"
  /\ CheckRateLimit(Address[s], bucket)
  /\ UNCHANGED admissionVars

AdmissionNext ==
  \/ \E s \in Sessions : HandshakeRequest(s) \/ HandshakeFails(s)
  \/ \E s \in Sessions : EngineConnection(s) \/ HandshakeTimeout(s) \/ EngineClose(s)
  \/ \E s \in Sessions : Connection(s) \/ SocketDisconnect(s) \/ SocketKicked(s)
  \/ \E s \in Sessions, bucket \in EventBuckets : SocketEvent(s, bucket)
  \/ RateLimitCleanup /\ UNCHANGED admissionVars
  \/ PassTime /\ UNCHANGED admissionVars

AdmissionSpec == AdmissionInit /\ [][AdmissionNext]_allVars

-----------------------------------------------------------------------------
(* Properties *)

\* Every variable holds a value of its type, and an address never has more full
\* sockets than sessions.
AdmissionTypeOK ==
  /\ LimiterTypeOK
  /\ phase \in [Sessions -> Phases]
  /\ engineSessionsByIp \in [Ips -> Nat]
  /\ activeSocketsByIp \in [Ips -> Nat]
  /\ \A ip \in Ips : activeSocketsByIp[ip] <= engineSessionsByIp[ip]

\* Both counters of an address are exactly its open sessions and its full sockets:
\* a refusal by the second cap after the first has counted, a socket that is
\* closed before, after or by its disconnect, and a session that connects again
\* neither leak a place, which would lock the address out, nor give one back
\* twice, which would lift its cap.
CountersAreExact ==
  \A ip \in Ips :
    /\ engineSessionsByIp[ip] = Cardinality(Of(ip, SessionPhases))
    /\ activeSocketsByIp[ip] = Cardinality(Of(ip, {"socket"}))

\* Full sockets never exceed the cap of their address nor the cap of the process,
\* although sessions may, for a while: those are tested when a handshake is
\* admitted and counted when its session exists.
SocketCapsHold ==
  /\ Cardinality(FullSockets) <= MaxActiveSockets
  /\ \A ip \in Ips : Cardinality(Of(ip, {"socket"})) <= MaxSocketsPerIp

\* That overshoot is the handshakes in flight: the sessions of an address, those
\* admitted and not yet counted included, exceed its cap by less than the number
\* of handshakes that may be in flight at once, and so do those of the process.
\* With one at a time, half-open sessions never exceed the caps.
OvershootIsInFlight ==
  /\ \A ip \in Ips :
       Cardinality(Of(ip, SessionPhases \cup {"pending"})) < MaxSocketsPerIp + MaxPending
  /\ ClientsCount + Cardinality(Pending) < MaxActiveSockets + MaxPending

\* Whatever the relay does with sessions and sockets, its rate limits behave as
\* the limiter on its own.
LimiterBehaves == LimiterSpec

=============================================================================
