----------------------------- MODULE MCAdmission -----------------------------
(* A small instance of the relay's admission control for TLC. *)
EXTENDS AdmissionControl, TLC

CONSTANTS s1, s2, s3, s4, ip1, ip2

TwoIps == {ip1, ip2}
FourSessions == {s1, s2, s3, s4}
AddressOf == (s1 :> ip1 @@ s2 :> ip1 @@ s3 :> ip1 @@ s4 :> ip2)
OneOrTwo == [bucket \in Buckets |-> IF bucket \in {"message", "connect"} THEN 1 ELSE 2]
Events == {"message"}
Watched == {<<ip1, "message">>}

\* The three sessions of one address; nothing that is checked is a liveness property.
SameAddress == Permutations({s1, s2, s3})

=============================================================================
