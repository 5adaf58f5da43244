-------------------------- MODULE MCChannelManager --------------------------
(* Small instances of the channel manager for TLC. *)
EXTENDS ChannelManager, TLC

CONSTANTS c1, c2, c3, s1, s2, s3, k1, k2, ip1, ip2

OneChannel == {c1}
TwoChannels == {c1, c2}
ThreeChannels == {c1, c2, c3}
TwoSockets == {s1, s2}
ThreeSockets == {s1, s2, s3}
NoKeys == {}
TwoKeys == {k1, k2}
OneIp == {ip1}
TwoIps == {ip1, ip2}

Interchangeable == Permutations(Channels) \cup Permutations(Sockets)
                     \cup Permutations(Keys) \cup Permutations(Ips)

=============================================================================
