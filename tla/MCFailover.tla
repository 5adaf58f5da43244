------------------------------ MODULE MCFailover ------------------------------
(***************************************************************************)
(* A small instance, for TLC, of the RPC proxy while its health monitor    *)
(* polls: endpoints become ready and are revoked during a request.         *)
(***************************************************************************)
EXTENDS RpcService, TLC

CONSTANTS e1, e2, r1, k1

TwoEndpoints == {e1, e2}
OneRequest == {r1}
OneClient == {k1}
ClientOf == [r \in OneRequest |-> k1]

=============================================================================
