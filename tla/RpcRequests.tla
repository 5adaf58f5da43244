----------------------------- MODULE RpcRequests -----------------------------
(***************************************************************************)
(* The middleware chain a JSON-RPC request passes before it is proxied     *)
(* (src/middleware/rpc-security.ts, in the order of src/routes/            *)
(* rpc.routes.ts), and what the node makes of a qrl_getLogs filter.        *)
(*                                                                         *)
(* Requests differ in what the chain tells apart: methods that are checked *)
(* alike are one kind, and an address, a hash or a topic fits its format   *)
(* or does not.                                                            *)
(***************************************************************************)
EXTENDS Integers

CONSTANTS
  MaxBlockRange,  \* MAX_GETLOGS_BLOCK_RANGE
  MaxAddresses,   \* MAX_GETLOGS_ADDRESSES
  BlockNumbers,   \* hexadecimal block numbers a client may write
  Heads           \* heights of the node when the request reaches it

ASSUME RequestsAssumption ==
  /\ MaxBlockRange \in Nat \ {0} /\ MaxAddresses \in Nat
  /\ BlockNumbers \subseteq Nat /\ Heads \subseteq Nat

\* What a client may send as the method: not a string, a method that is not
\* listed, or one of the kinds the whitelist has.
ListedKinds == {"other", "address", "write", "tip", "receipt", "transaction", "call", "getLogs"}
Kinds == {"none", "unlisted"} \cup ListedKinds

\* fromBlock, toBlock: a number, or what stands in its place.
NamedTags == {"latest", "pending", "earliest"}
BlockField ==
  [kind : {"number"}, number : BlockNumbers]
    \cup [kind : NamedTags \cup {"undefined", "null", "malformed"}, number : {0}]
Omitted == [kind |-> "undefined", number |-> 0]

\* aliased: a block number under another spelling of the key toBlock, which the
\* node reads as toBlock.  addresses: how many there are.
LogFilter ==
  [blockHash : {"undefined", "null", "hash", "malformed"},
   fromBlock : BlockField, toBlock : BlockField,
   aliased : {Omitted} \cup [kind : {"number"}, number : BlockNumbers],
   addresses : 0 .. MaxAddresses + 1, addressesFit : BOOLEAN, topicsFit : BOOLEAN]
NoFilter ==
  [blockHash |-> "undefined", fromBlock |-> Omitted, toBlock |-> Omitted, aliased |-> Omitted,
   addresses |-> 0, addressesFit |-> TRUE, topicsFit |-> TRUE]

\* params: an array of count entries, undefined or null ("absent"), or something
\* else.  firstFits: the first entry has the format its method asks for; for
\* qrl_getLogs it is then filter.
Params == [form : {"absent", "array", "other"}, count : 0 .. 2, firstFits : BOOLEAN]

\* The requests a client sends; filters are told apart only where one is read.
Sent ==
  [batch : BOOLEAN, method : Kinds, params : Params, filter : {NoFilter}]
    \cup [batch : {FALSE}, method : {"getLogs"},
          params : {[form |-> "array", count |-> 1, firstFits |-> TRUE]}, filter : LogFilter]

VARIABLES
  position,   \* the middleware that has the request, "proxied" or "refused"
  body        \* req.body

requestVars == <<position, body>>

Idle == [batch |-> FALSE, method |-> "none",
         params |-> [form |-> "absent", count |-> 0, firstFits |-> FALSE], filter |-> NoFilter]

RequestsInit == position = "none" /\ body = Idle

Receive ==
  /\ position = "none"
  /\ body' \in Sent
  /\ position' = "batch reject"

\* A middleware answers the request, or passes it on.
Pass(from, to, fits) ==
  /\ position = from
  /\ position' = IF fits THEN to ELSE "refused"
  /\ UNCHANGED body

RpcBatchReject == Pass("batch reject", "method whitelist", ~body.batch)

RpcMethodWhitelist ==
  Pass("method whitelist", "write limit", body.method \in ListedKinds)

\* The limiter is the library's: it may refuse any write, and nothing else.
RpcRateLimitWrite ==
  \E spent \in BOOLEAN :
    Pass("write limit", "params validator", ~(spent /\ body.method = "write"))

-----------------------------------------------------------------------------
(* rpcParamsValidator *)

FirstFits(params) == params.form = "array" /\ params.count > 0 /\ params.firstFits

\* Every method but qrl_getLogs.
ParamsFit(method, params) ==
  /\ params.form # "other"
  /\ method \in {"address", "write", "receipt", "transaction", "call"} => FirstFits(params)
  /\ method = "transaction" => params.count = 1
  /\ method = "tip" => params.form = "absent" \/ params.count = 0

Dynamic(field) == field.kind \in NamedTags \cup {"undefined", "null"}

RangeFits_OpenEnd(from, to) ==
  /\ from.kind # "malformed" /\ to.kind # "malformed"
  /\ ~(from.kind = "earliest" \/ (from.kind = "number" /\ from.number = 0))
  /\ from.kind = "number" /\ to.kind = "number" => (to.number - from.number) \in 0 .. MaxBlockRange

RangeFits(from, to) ==
  /\ from.kind # "malformed" /\ to.kind # "malformed"
  /\ ~(from.kind = "earliest" \/ (from.kind = "number" /\ from.number = 0))
  /\ from.kind = "number" =>
       /\ ~Dynamic(to)
       /\ (to.number - from.number) \in 0 .. MaxBlockRange

BlocksFit(filter) ==
  \/ /\ filter.blockHash = "hash"
     /\ filter.fromBlock = Omitted /\ filter.toBlock = Omitted
  \/ /\ filter.blockHash \in {"undefined", "null"}
     /\ RangeFits(filter.fromBlock, filter.toBlock)

FilterFits(filter) ==
  /\ filter.aliased = Omitted
  /\ BlocksFit(filter)
  /\ filter.addresses <= MaxAddresses
  /\ filter.addresses > 0 => filter.addressesFit
  /\ filter.topicsFit

\* What is forwarded of a filter: its known keys that have a value.
Canonical(filter) ==
  LET Kept(field) == IF field.kind = "null" THEN Omitted ELSE field
  IN  [filter EXCEPT !.fromBlock = Kept(@), !.toBlock = Kept(@), !.aliased = Omitted,
                     !.blockHash = IF @ = "null" THEN "undefined" ELSE @]

RpcParamsValidator ==
  /\ position = "params validator"
  /\ IF body.method = "getLogs"
     THEN IF body.params.count = 1 /\ FirstFits(body.params) /\ FilterFits(body.filter)
          THEN position' = "proxied" /\ body' = [body EXCEPT !.filter = Canonical(@)]
          ELSE position' = "refused" /\ UNCHANGED body
     ELSE Pass("params validator", "proxied", ParamsFit(body.method, body.params))

RequestsNext ==
  \/ Receive
  \/ RpcBatchReject
  \/ RpcMethodWhitelist
  \/ RpcRateLimitWrite
  \/ RpcParamsValidator

RequestsSpec == RequestsInit /\ [][RequestsNext]_requestVars

-----------------------------------------------------------------------------
(* The node *)

\* The block a field names at the given head; an omitted one is the latest.
BlockAt(field, head) ==
  CASE field.kind = "number" -> field.number
    [] field.kind = "earliest" -> 0
    [] field.kind = "pending" -> head + 1
    [] OTHER -> head

\* The node reads an aliased key as the key it stands for.
ToBlock(filter) == IF filter.aliased = Omitted THEN filter.toBlock ELSE filter.aliased

\* The blocks a filter scans; no block comes after the pending one.
FirstBlock(filter, head) == BlockAt(filter.fromBlock, head)
LastBlock(filter, head) ==
  LET last == BlockAt(ToBlock(filter), head) IN IF last > head + 1 THEN head + 1 ELSE last

-----------------------------------------------------------------------------
(* Properties *)

\* However a qrl_getLogs filter is written (numbers, tags, nulls and omissions on
\* either side, keys spelled in another way) and wherever the head of the node is
\* when the request gets there, a proxied one scans no more than the allowed
\* range, from a block it asks for by number or from the head, and its addresses
\* are few.  A single block, asked for by hash, takes no range with it.
LogScansAreBounded ==
  position = "proxied" /\ body.method = "getLogs" =>
    /\ body.filter.addresses <= MaxAddresses
    /\ IF body.filter.blockHash = "hash"
       THEN body.filter.fromBlock = Omitted /\ ToBlock(body.filter) = Omitted
       ELSE \A head \in Heads :
              LastBlock(body.filter, head) - FirstBlock(body.filter, head) <= MaxBlockRange

=============================================================================
