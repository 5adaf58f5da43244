------------------------------- MODULE Queues -------------------------------
(***************************************************************************)
(* The two array operations of src/relay/channelManager.ts that TLA+'s     *)
(* Sequences module has no provable form of: Array.filter, and the sum of  *)
(* the sizeBytes of an array of messages.  Both are written without        *)
(* RECURSIVE operators so that facts about them can be proved.             *)
(***************************************************************************)
EXTENDS Integers, Sequences, FiniteSets, Functions

\* How many positions of P are at or before i: the rank of i in P.
Rank(P, i) == Cardinality({j \in P : j <= i})

\* The k-th smallest position of P.
Nth(P, k) == CHOOSE i \in P : Rank(P, i) = k

\* q.filter(x => x \in K): the entries of q that lie in K, in their order.
Keep(q, K) ==
  LET P == {i \in DOMAIN q : q[i] \in K}
  IN  [k \in 1 .. Cardinality(P) |-> q[Nth(P, k)]]

\* A faulty First: the last entry of q in K.
First_TakesLast(q, K) ==
  q[CHOOSE i \in DOMAIN q : q[i] \in K /\ \A j \in i + 1 .. Len(q) : q[j] \notin K]

\* q.find(x => x \in K), for a q that has such an entry.
First(q, K) ==
  q[CHOOSE i \in DOMAIN q : q[i] \in K /\ \A j \in 1 .. i - 1 : q[j] \notin K]

\* The sum of the sizes of the messages in q.
Bytes(q) == SumFunction([i \in DOMAIN q |-> q[i].sizeBytes])

\* Subtraction clamped at zero, Math.max(0, a - b).
Minus(a, b) == IF a > b THEN a - b ELSE 0

=============================================================================
