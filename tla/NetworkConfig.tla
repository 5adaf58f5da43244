---------------------------- MODULE NetworkConfig ----------------------------
(***************************************************************************)
(* How src/config/index.ts turns environment variables into the endpoints, *)
(* identity pins and history origins of the three networks, and keeps      *)
(* mainnet dormant when it is not clearly apart from the others.  The      *)
(* module is evaluated once, at startup, top to bottom.                    *)
(*                                                                         *)
(* An endpoint list is the set of its URLs, each as it is spelled;         *)
(* EndpointKey says which upstream a spelling names.  Chain ids, genesis   *)
(* hashes and history origins are the values after parsing, which brings   *)
(* every accepted spelling to one form.                                    *)
(***************************************************************************)

CONSTANTS
  Urls,           \* spellings of endpoint URLs
  UrlsFor,        \* those an operator may set for each network
  EndpointKey,    \* rpcEndpointKey
  LocalNode,      \* the testnet endpoint when nothing is set
  ChainIds,       \* accepted chain ids
  GenesisHashes,  \* accepted genesis hashes
  Origins,        \* accepted history origins
  Explorer,       \* the testnet history origin when nothing is set
  Unset,          \* an undefined variable; null
  Blank,          \* white space and nothing else
  Malformed       \* a value its parser refuses

Networks == {"dev", "testnet", "mainnet"}

ASSUME ConfigAssumption ==
  /\ Blank \in Urls /\ LocalNode \in Urls
  /\ UrlsFor \in [Networks -> SUBSET (Urls \ {Blank})]
  /\ DOMAIN EndpointKey = Urls
  /\ Explorer \in Origins

VARIABLES
  stage,           \* what is evaluated next; then "running" or "stopped"
  endpointLists,   \* CONFIG.RPC_ENDPOINTS
  identities,      \* CONFIG.RPC_EXPECTED_IDENTITIES
  historyOrigins,  \* CONFIG.TX_HISTORY_ORIGINS
  mainnetProblem   \* whether mainnetSeparationProblem found one

configVars == <<stage, endpointLists, identities, historyOrigins, mainnetProblem>>

ConfigInit ==
  /\ stage = "endpoints"
  /\ endpointLists = [n \in Networks |-> {}]
  /\ identities = [n \in Networks |-> Unset]
  /\ historyOrigins = [n \in Networks |-> Unset]
  /\ mainnetProblem = FALSE

-----------------------------------------------------------------------------
(* RPC_ENDPOINTS *)

\* The testnet: a list without a URL counts as unset, so does an empty older
\* variable, and there is a default.
TestnetEndpoints(list, single) ==
  CASE list \notin {Unset, {}} -> list
    [] list \in {Unset, {}} /\ single \notin {Unset, {}} -> single
    [] OTHER -> {LocalNode}

\* Dev and mainnet: a variable that is set decides, one without a URL included.
DormantEndpoints(list, single) ==
  CASE list # Unset -> list
    [] list = Unset /\ single # Unset -> single
    [] OTHER -> {}

\* What a list reads as once split and trimmed: {} when it has no URL in it.
ListVariable(n) == {Unset} \cup SUBSET UrlsFor[n]

\* The older variable.  That of the testnet is one URL, not trimmed: white space is
\* an endpoint, and only the empty string counts as unset.  The other networks read
\* theirs as a list.
SingleVariable(n) ==
  IF n = "testnet" THEN {Unset, {}} \cup {{url} : url \in UrlsFor[n] \cup {Blank}}
  ELSE ListVariable(n)

ReadEndpoints(n, next) ==
  \E list \in ListVariable(n), single \in SingleVariable(n) :
    /\ endpointLists' = [endpointLists EXCEPT ![n] =
         IF n = "testnet" THEN TestnetEndpoints(list, single) ELSE DormantEndpoints(list, single)]
    /\ stage' = next
    /\ UNCHANGED <<identities, historyOrigins, mainnetProblem>>

-----------------------------------------------------------------------------
(* RPC_EXPECTED_IDENTITIES *)

Identity == [chainId : ChainIds, genesisHash : GenesisHashes]

\* parseRpcIdentity throws.
IdentityRefused(chainId, genesisHash) ==
  \/ Malformed \in {chainId, genesisHash}
  \/ (chainId = Unset) # (genesisHash = Unset)

StopStartup ==
  /\ stage' = "stopped"
  /\ UNCHANGED <<endpointLists, identities, historyOrigins, mainnetProblem>>

ReadIdentity(n, next) ==
  \E chainId \in ChainIds \cup {Unset, Malformed},
     genesisHash \in GenesisHashes \cup {Unset, Malformed} :
    \/ IdentityRefused(chainId, genesisHash) /\ StopStartup
    \/ /\ ~IdentityRefused(chainId, genesisHash)
       /\ identities' = [identities EXCEPT ![n] =
            IF chainId = Unset THEN Unset
            ELSE [chainId |-> chainId, genesisHash |-> genesisHash]]
       /\ stage' = next
       /\ UNCHANGED <<endpointLists, historyOrigins, mainnetProblem>>

-----------------------------------------------------------------------------
(* TX_HISTORY_ORIGINS *)

ReadOrigin(n, next) ==
  \E origin \in Origins \cup {Unset, Blank, Malformed} :
    \/ origin = Malformed /\ StopStartup
    \/ /\ origin # Malformed
       /\ historyOrigins' = [historyOrigins EXCEPT ![n] =
            CASE origin = Unset -> IF n = "testnet" THEN Explorer ELSE Unset
              [] origin = Blank -> Unset
              [] OTHER -> origin]
       /\ stage' = next
       /\ UNCHANGED <<endpointLists, identities, mainnetProblem>>

-----------------------------------------------------------------------------
(* Mainnet *)

\* Operators named Definition_Mistake, here and below, are faulty variants of the
\* definition that follows them.  The specification never uses one; each shows
\* that some property notices the mistake.

\* A mainnet endpoint names the upstream of an endpoint of another network.
SharedUpstream ==
  \E url \in endpointLists["mainnet"], other \in endpointLists["testnet"] \cup endpointLists["dev"] :
    EndpointKey[url] = EndpointKey[other]

SamePins ==
  /\ identities["mainnet"] # Unset /\ identities["testnet"] # Unset
  /\ \/ identities["mainnet"].chainId = identities["testnet"].chainId
     \/ identities["mainnet"].genesisHash = identities["testnet"].genesisHash

Unpinned == endpointLists["mainnet"] # {} /\ identities["mainnet"] = Unset

\* mainnetSeparationProblem # null
MainnetSeparationProblem == Unpinned \/ SharedUpstream \/ SamePins

\* Mainnet stays dormant when it has a problem.
KeepMainnetApart ==
  /\ mainnetProblem' = MainnetSeparationProblem
  /\ endpointLists' = [endpointLists EXCEPT !["mainnet"] =
       IF MainnetSeparationProblem THEN {} ELSE @]
  /\ stage' = "history"
  /\ UNCHANGED <<identities, historyOrigins>>

HistoryApart_IgnoresProblem ==
  /\ identities["mainnet"] # Unset
  /\ historyOrigins["mainnet"] \notin {historyOrigins["testnet"], historyOrigins["dev"]}

\* What mainnet history needs.
HistoryApart ==
  /\ ~mainnetProblem
  /\ identities["mainnet"] # Unset
  /\ historyOrigins["mainnet"] \notin {historyOrigins["testnet"], historyOrigins["dev"]}

KeepHistoryApart ==
  /\ historyOrigins' = [historyOrigins EXCEPT !["mainnet"] = IF HistoryApart THEN @ ELSE Unset]
  /\ stage' = "running"
  /\ UNCHANGED <<endpointLists, identities, mainnetProblem>>

-----------------------------------------------------------------------------
ConfigNext ==
  \/ stage = "endpoints" /\ ReadEndpoints("dev", "testnet endpoints")
  \/ stage = "testnet endpoints" /\ ReadEndpoints("testnet", "mainnet endpoints")
  \/ stage = "mainnet endpoints" /\ ReadEndpoints("mainnet", "identities")
  \/ stage = "identities" /\ ReadIdentity("dev", "testnet identity")
  \/ stage = "testnet identity" /\ ReadIdentity("testnet", "mainnet identity")
  \/ stage = "mainnet identity" /\ ReadIdentity("mainnet", "origins")
  \/ stage = "origins" /\ ReadOrigin("dev", "testnet origin")
  \/ stage = "testnet origin" /\ ReadOrigin("testnet", "mainnet origin")
  \/ stage = "mainnet origin" /\ ReadOrigin("mainnet", "separation")
  \/ stage = "separation" /\ KeepMainnetApart
  \/ stage = "history" /\ KeepHistoryApart

ConfigSpec == ConfigInit /\ [][ConfigNext]_configVars

-----------------------------------------------------------------------------
(* Properties *)

\* A process that runs never polls or serves one upstream as mainnet and as
\* another network, whatever is set, repeated or left over from an older variable:
\* mainnet endpoints come with pins, name no upstream of testnet or dev under any
\* spelling, and their pins differ from those of the testnet in both parts.  The
\* same separation of the pins holds for mainnet history, with an origin of its
\* own, also while mainnet has no endpoints.
MainnetStaysApart ==
  stage = "running" =>
    /\ endpointLists["mainnet"] # {} \/ historyOrigins["mainnet"] # Unset =>
         identities["mainnet"] # Unset /\ ~SamePins
    /\ \A url \in endpointLists["mainnet"],
          other \in endpointLists["testnet"] \cup endpointLists["dev"] :
         EndpointKey[url] # EndpointKey[other]
    /\ historyOrigins["mainnet"] # Unset =>
         \A n \in Networks \ {"mainnet"} : historyOrigins[n] # historyOrigins["mainnet"]

=============================================================================
