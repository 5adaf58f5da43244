------------------------------- MODULE MCRelay -------------------------------
(* Small instances of the relay server for TLC. *)
EXTENDS RelayServer, TLC

CONSTANTS c1, c2, s1, s2, s3, ip1

OneChannel == {c1}
TwoChannels == {c1, c2}
TwoSockets == {s1, s2}
ThreeSockets == {s1, s2, s3}
OneIp == {ip1}
SameAddress == [s \in Sockets |-> ip1]

Interchangeable == Permutations(Channels) \cup Permutations(Sockets)

-----------------------------------------------------------------------------
(* Run server explores two scenes.  Among the members, channels come and go as *)
(* time passes and nobody sends.  With mail, there is one channel, no time     *)
(* passes, two sockets at most are open at once, and messages and control      *)
(* traffic keep the transports busy.                                           *)

NobodySends == nextId = 0 /\ \A s \in Sockets : transport[s].phase = "ready"

OneChannelTwoSockets ==
  /\ now = 0
  /\ Cardinality(OpenSockets) <= 2
  /\ mgr.channels[c2] = None
  /\ \A s \in Sockets : joining[s] # None => joining[s].channel = c1

Scenes == NobodySends \/ OneChannelTwoSockets

\* The second scene tells the channels apart.
AnySocket == Permutations(Sockets)

=============================================================================
