------------------------------ MODULE MCProxies ------------------------------
(***************************************************************************)
(* Small instances, for TLC, of what serves the HTTP clients: the network  *)
(* configuration, the checks of RPC requests and the two upstream proxies. *)
(* These parts share no variable, so one run explores the behaviours of    *)
(* one after those of another: running, chosen in the initial state, says  *)
(* which, and the others stay idle.  The RPC proxy has two such runs: with *)
(* many requests over the first round of polls, and with one request at a  *)
(* time while polls go on and revoke endpoints.                            *)
(***************************************************************************)
EXTENDS RpcService, IpfsGateway, RpcRequests, MCConfig

CONSTANTS e1, e2, r1, r2, r3, k1, k2,   \* of the RPC proxy
          f1, f2, a, aUpper, b          \* of the IPFS proxy

TwoEndpoints == {e1, e2}
ThreeRequests == {r1, r2, r3}
TwoClients == {k1, k2}
ClientOf == (r1 :> k1 @@ r2 :> k1 @@ r3 :> k2)

TwoFetches == {f1, f2}
ThreeSpellings == {a, aUpper, b}
ContentOf == (a :> a @@ aUpper :> a @@ b :> b)

Numbers == {0, 1, 3, 4}
FourHeads == {0, 1, 3, 5}

\* Fetches are interchangeable, and so are spellings of one content: the first
\* request is f1's and in lower case.
FirstFetch ==
  asked = 1 =>
    /\ fetches[f2] = Nothing
    /\ fetches[f1] # Nothing => fetches[f1].cid # aUpper

FirstPolls == now = 0
OneRequest == \A r \in Requests \ {r1} : requests[r] = None

VARIABLE running

ProxiesInit ==
  /\ RpcInit /\ IpfsInit /\ RequestsInit /\ ConfigInit
  /\ running \in {"rpc", "failover", "ipfs", "requests", "config"}

ProxiesNext ==
  /\ \/ /\ \/ running = "rpc" /\ RpcNext /\ FirstPolls'
           \/ running = "failover" /\ RpcNext /\ OneRequest'
        /\ UNCHANGED <<ipfsVars, requestVars, configVars>>
     \/ running = "ipfs" /\ IpfsNext /\ FirstFetch' /\ UNCHANGED <<allVars, requestVars, configVars>>
     \/ running = "requests" /\ RequestsNext /\ UNCHANGED <<allVars, ipfsVars, configVars>>
     \/ running = "config" /\ ConfigNext /\ UNCHANGED <<allVars, ipfsVars, requestVars>>
  /\ UNCHANGED running

\* RpcFairness asks nothing of an idle proxy.
ProxiesSpec ==
  /\ ProxiesInit
  /\ [][ProxiesNext]_<<allVars, ipfsVars, requestVars, configVars, running>>
  /\ RpcFairness

=============================================================================
