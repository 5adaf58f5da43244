---------------------------- MODULE MailboxProofs ----------------------------
(***************************************************************************)
(* What every implementation of the mailboxes keeps: messages are handed   *)
(* over in order and at most once.                                         *)
(***************************************************************************)
EXTENDS Mailbox, QueuesProofs, SequenceTheorems

MailTyped ==
  /\ posted \in Nat
  /\ waiting \in [Boxes -> Seq(Nat)]
  /\ handed \in [Boxes -> Seq(Nat)]
  /\ exposed \subseteq Boxes

\* Every number in a box has been given out.
Numbered ==
  \A b \in Boxes :
    /\ \A i \in DOMAIN handed[b] : handed[b][i] < posted
    /\ \A i \in DOMAIN waiting[b] : waiting[b][i] < posted

\* What waits is in the order of posting, in exposed boxes too.
Queued == \A b \in Boxes : Ascending(waiting[b])

MailInv == MailTyped /\ Numbered /\ Queued /\ InOrder /\ AtMostOnce

\* Filtering keeps the order of what it keeps.
LEMMA KeepOrder ==
  ASSUME NEW q \in Seq(Nat), NEW K, Ascending(q)
  PROVE  /\ Keep(q, K) \in Seq(Nat)
         /\ Ascending(Keep(q, K))
         /\ \A i \in DOMAIN Keep(q, K) : \E j \in DOMAIN q : Keep(q, K)[i] = q[j]
<1> DEFINE n == Len(q)
           P == {i \in DOMAIN q : q[i] \in K}
           r == Keep(q, K)
<1>1. n \in Nat /\ P \in SUBSET (1 .. n) /\ DOMAIN q = 1 .. n
  OBVIOUS
<1>2. Cardinality(P) \in Nat /\ IsFiniteSet(P)
  BY <1>1, Positions
<1>3. DOMAIN r = 1 .. Cardinality(P) /\ \A k \in DOMAIN r : r[k] = q[Nth(P, k)]
  BY DEF Keep
<1>4. r \in Seq(Nat)
  BY KeepFacts
<1>5. \A k \in DOMAIN r : Nth(P, k) \in P /\ Rank(P, Nth(P, k)) = k
  BY <1>1, <1>3, NthExists
<1>6. ASSUME NEW k \in DOMAIN r, NEW l \in DOMAIN r, k < l
      PROVE  Nth(P, k) < Nth(P, l)
  <2> DEFINE a == Nth(P, k)
             b == Nth(P, l)
  <2>1. a \in P /\ b \in P /\ Rank(P, a) = k /\ Rank(P, b) = l
    BY <1>5
  <2>2. a \in Nat /\ b \in Nat /\ k \in Nat /\ l \in Nat
    BY <1>1, <1>2, <1>3, <2>1
  <2> HIDE DEF a, b
  <2>3. SUFFICES ASSUME b <= a PROVE FALSE
    BY <2>2 DEF a, b
  <2>4. {j \in P : j <= b} \subseteq {j \in P : j <= a}
    <3>1. \A j \in P : j \in Nat
      BY <1>1
    <3> QED BY <2>2, <2>3, <3>1
  <2>5. IsFiniteSet({j \in P : j <= a})
    <3>1. {j \in P : j <= a} \subseteq P
      OBVIOUS
    <3> QED BY <1>2, <3>1, FS_Subset
  <2>6. Cardinality({j \in P : j <= b}) <= Cardinality({j \in P : j <= a})
    BY <2>4, <2>5, FS_Subset
  <2>7. l <= k
    BY <2>1, <2>6 DEF Rank
  <2> QED BY <1>6, <2>2, <2>7
<1>7. Ascending(r)
  <2> SUFFICES ASSUME NEW k \in DOMAIN r, NEW l \in DOMAIN r, k < l PROVE r[k] < r[l]
    BY DEF Ascending
  <2>1. Nth(P, k) < Nth(P, l) /\ Nth(P, k) \in DOMAIN q /\ Nth(P, l) \in DOMAIN q
    BY <1>5, <1>6
  <2>2. q[Nth(P, k)] < q[Nth(P, l)]
    BY <2>1 DEF Ascending
  <2> QED BY <1>3, <2>2
<1>8. \A i \in DOMAIN r : \E j \in DOMAIN q : r[i] = q[j]
  BY <1>3, <1>5
<1> QED BY <1>4, <1>7, <1>8

\* Losing messages leaves subsequences.
LEMMA WithoutFacts ==
  ASSUME MailTyped, Queued, NEW lost
  PROVE  /\ Without(lost) \in [Boxes -> Seq(Nat)]
         /\ \A b \in Boxes :
              /\ Ascending(Without(lost)[b])
              /\ \A i \in DOMAIN Without(lost)[b] :
                   \E j \in DOMAIN waiting[b] : Without(lost)[b][i] = waiting[b][j]
<1>1. ASSUME NEW b \in Boxes
      PROVE  /\ Without(lost)[b] \in Seq(Nat)
             /\ Ascending(Without(lost)[b])
             /\ \A i \in DOMAIN Without(lost)[b] :
                  \E j \in DOMAIN waiting[b] : Without(lost)[b][i] = waiting[b][j]
  <2>1. waiting[b] \in Seq(Nat) /\ Ascending(waiting[b])
    BY DEF MailTyped, Queued
  <2>2. Without(lost)[b] = Keep(waiting[b], Range(waiting[b]) \ lost)
    BY DEF Without
  <2> DEFINE q == waiting[b]
             K == Range(waiting[b]) \ lost
             r == Without(lost)[b]
  <2>3. q \in Seq(Nat) /\ Ascending(q) /\ r = Keep(q, K)
    BY <2>1, <2>2
  <2> HIDE DEF q, K, r
  <2>4. /\ Keep(q, K) \in Seq(Nat)
        /\ Ascending(Keep(q, K))
        /\ \A i \in DOMAIN Keep(q, K) : \E j \in DOMAIN q : Keep(q, K)[i] = q[j]
    BY <2>3, KeepOrder
  <2>5. r \in Seq(Nat) /\ Ascending(r) /\ \A i \in DOMAIN r : \E j \in DOMAIN q : r[i] = q[j]
    BY <2>3, <2>4
  <2> QED BY <2>5 DEF q, r
<1>2. Without(lost) = [b \in Boxes |-> Without(lost)[b]]
  BY DEF Without
<1> QED BY <1>1, <1>2

\* What is left of a box when messages are lost was in that box.
LEMMA WithoutFrom ==
  MailTyped /\ Queued =>
    \A lost : \A b \in Boxes : \A i \in DOMAIN Without(lost)[b] :
      \E j \in DOMAIN waiting[b] : Without(lost)[b][i] = waiting[b][j]
<1> SUFFICES ASSUME MailTyped, Queued, NEW lost, NEW b \in Boxes
             PROVE  \A i \in DOMAIN Without(lost)[b] :
                      \E j \in DOMAIN waiting[b] : Without(lost)[b][i] = waiting[b][j]
  OBVIOUS
<1> QED BY WithoutFacts

\* The invariant of the next state follows from how its boxes come from these.
\* Lost messages disturb nothing: what still waits waited before.
LEMMA LoseKeepsInv ==
  ASSUME MailInv, NEW lost, waiting' = Without(lost), posted' = posted, handed' = handed,
         exposed \subseteq exposed', exposed' \subseteq Boxes
  PROVE  MailInv'
<1> DEFINE left == Without(lost)
<1>1. MailTyped /\ Numbered /\ Queued /\ InOrder /\ AtMostOnce
  BY DEF MailInv
<1>2. left \in [Boxes -> Seq(Nat)]
  BY <1>1, WithoutFacts
<1>3. \A b \in Boxes : Ascending(left[b])
  BY <1>1, WithoutFacts
<1>4. \A b \in Boxes : \A i \in DOMAIN left[b] : \E j \in DOMAIN waiting[b] : left[b][i] = waiting[b][j]
  BY <1>1, WithoutFacts
<1>5. waiting' = left
  OBVIOUS
<1> HIDE DEF left
<1>6. MailTyped'
  BY <1>1, <1>2, <1>5 DEF MailTyped
<1>7. Queued'
  BY <1>3, <1>5 DEF Queued, Ascending
<1>8. Numbered'
  BY <1>1, <1>4, <1>5 DEF Numbered
<1>9. InOrder'
  <2> SUFFICES ASSUME NEW b \in Boxes, b \notin exposed'
               PROVE  /\ Ascending(handed[b])
                      /\ \A i \in DOMAIN handed[b], j \in DOMAIN left[b] : handed[b][i] < left[b][j]
    BY <1>5 DEF InOrder, Ascending
  <2> QED BY <1>1, <1>4 DEF InOrder
<1>10. AtMostOnce'
  <2> SUFFICES ASSUME NEW b \in Boxes, NEW d \in Boxes
               PROVE  /\ \A i \in DOMAIN handed[b], j \in DOMAIN handed[d] :
                           handed[b][i] = handed[d][j] => b = d /\ i = j
                      /\ \A i \in DOMAIN handed[b], j \in DOMAIN left[d] : handed[b][i] # left[d][j]
                      /\ \A i \in DOMAIN left[b], j \in DOMAIN left[d] :
                           left[b][i] = left[d][j] => b = d /\ i = j
    BY <1>5 DEF AtMostOnce
  <2>1. \A i \in DOMAIN handed[b], j \in DOMAIN handed[d] :
          handed[b][i] = handed[d][j] => b = d /\ i = j
    BY <1>1 DEF AtMostOnce
  <2>2. \A i \in DOMAIN handed[b], j \in DOMAIN left[d] : handed[b][i] # left[d][j]
    BY <1>1, <1>4 DEF AtMostOnce
  <2>3. ASSUME NEW i \in DOMAIN left[b], NEW j \in DOMAIN left[d], left[b][i] = left[d][j]
        PROVE  b = d /\ i = j
    <3>1. b = d
      BY <1>1, <1>4, <2>3 DEF AtMostOnce
    <3>2. left[b] \in Seq(Nat)
      BY <1>2
    <3>3. i \in Nat /\ j \in Nat /\ left[b][i] \in Nat
      BY <2>3, <3>1, <3>2
    <3>4. (i < j => left[b][i] < left[b][j]) /\ (j < i => left[b][j] < left[b][i])
      BY <1>3, <2>3, <3>1 DEF Ascending
    <3> QED BY <2>3, <3>1, <3>3, <3>4
  <2> QED BY <2>1, <2>2, <2>3
<1> QED BY <1>6, <1>7, <1>8, <1>9, <1>10 DEF MailInv

\* A message handed over at once is new, so later than all others.
LEMMA PassOnKeepsInv ==
  ASSUME MailInv, NEW b \in Boxes, PassOn(b)
  PROVE  MailInv'
<1>1. MailTyped /\ Numbered /\ Queued /\ InOrder /\ AtMostOnce
  BY DEF MailInv
<1>2. posted' = posted + 1 /\ waiting' = waiting /\ exposed' = exposed
  BY DEF PassOn
<1>3. handed' = [handed EXCEPT ![b] = Append(@, posted)]
  BY DEF PassOn
<1>4. posted \in Nat /\ handed \in [Boxes -> Seq(Nat)] /\ waiting \in [Boxes -> Seq(Nat)]
  BY <1>1 DEF MailTyped
<1>5. handed' \in [Boxes -> Seq(Nat)]
  BY <1>3, <1>4
<1>6. \A d \in Boxes \ {b} : handed'[d] = handed[d]
  BY <1>3, <1>4
<1>7. /\ DOMAIN handed'[b] = DOMAIN handed[b] \cup {Len(handed[b]) + 1}
      /\ \A i \in DOMAIN handed[b] : handed'[b][i] = handed[b][i]
      /\ handed'[b][Len(handed[b]) + 1] = posted
  BY <1>3, <1>4
<1>8. \A d \in Boxes : \A i \in DOMAIN handed[d] : handed[d][i] \in Nat /\ i \in Nat /\ i <= Len(handed[d])
  BY <1>4
<1>9. \A d \in Boxes : \A i \in DOMAIN waiting[d] : waiting[d][i] \in Nat
  BY <1>4
<1>10. MailTyped'
  BY <1>1, <1>2, <1>5 DEF MailTyped
<1>11. Queued'
  BY <1>1, <1>2 DEF Queued, Ascending
<1>12. Numbered'
  <2> SUFFICES ASSUME NEW d \in Boxes
               PROVE  /\ \A i \in DOMAIN handed'[d] : handed'[d][i] < posted + 1
                      /\ \A i \in DOMAIN waiting[d] : waiting[d][i] < posted + 1
    BY <1>2 DEF Numbered
  <2>1. \A i \in DOMAIN waiting[d] : waiting[d][i] < posted + 1
    BY <1>1, <1>4, <1>9 DEF Numbered
  <2>2. \A i \in DOMAIN handed[d] : handed[d][i] < posted + 1
    BY <1>1, <1>4, <1>8 DEF Numbered
  <2>3. CASE d # b
    BY <1>6, <2>1, <2>2, <2>3
  <2>4. CASE d = b
    <3>1. posted < posted + 1
      BY <1>4
    <3>2. \A i \in DOMAIN handed'[b] : handed'[b][i] < posted + 1
      BY <1>7, <2>2, <2>4, <3>1
    <3> QED BY <2>1, <2>4, <3>2
  <2> QED BY <2>3, <2>4
<1>13. InOrder'
  <2> SUFFICES ASSUME NEW d \in Boxes, d \notin exposed
               PROVE  /\ Ascending(handed'[d])
                      /\ \A i \in DOMAIN handed'[d], j \in DOMAIN waiting[d] : handed'[d][i] < waiting[d][j]
    BY <1>2 DEF InOrder, Ascending
  <2>1. /\ Ascending(handed[d])
        /\ \A i \in DOMAIN handed[d], j \in DOMAIN waiting[d] : handed[d][i] < waiting[d][j]
    BY <1>1 DEF InOrder
  <2>2. CASE d # b
    BY <1>6, <2>1, <2>2
  <2>3. CASE d = b
    <3>1. waiting[d] = << >>
      BY <2>3 DEF PassOn
    <3>2. ASSUME NEW i \in DOMAIN handed'[b], NEW j \in DOMAIN handed'[b], i < j
          PROVE  handed'[b][i] < handed'[b][j]
      <4>1. CASE j \in DOMAIN handed[b]
        <5>1. i \in DOMAIN handed[b]
          BY <1>4, <1>7, <1>8, <3>2, <4>1
        <5> QED BY <1>7, <2>1, <2>3, <3>2, <4>1, <5>1 DEF Ascending
      <4>2. CASE j = Len(handed[b]) + 1
        <5>1. i \in DOMAIN handed[b]
          BY <1>4, <1>7, <3>2, <4>2
        <5>2. handed[b][i] < posted
          BY <1>1, <5>1 DEF Numbered
        <5> QED BY <1>7, <4>2, <5>1, <5>2
      <4> QED BY <1>7, <4>1, <4>2
    <3>3. Ascending(handed'[d])
      BY <2>3, <3>2 DEF Ascending
    <3> QED BY <3>1, <3>3
  <2> QED BY <2>2, <2>3
<1>14. AtMostOnce'
  <2>1. \A d \in Boxes : \A i \in DOMAIN handed[d] : handed[d][i] # posted
    BY <1>1, <1>4, <1>8 DEF Numbered
  <2>2. \A d \in Boxes : \A i \in DOMAIN waiting[d] : waiting[d][i] # posted
    BY <1>1, <1>4, <1>9 DEF Numbered
  <2>3. ASSUME NEW d \in Boxes, NEW i \in DOMAIN handed'[d]
        PROVE  \/ i \in DOMAIN handed[d] /\ handed'[d][i] = handed[d][i]
               \/ d = b /\ i = Len(handed[b]) + 1 /\ handed'[d][i] = posted
    BY <1>6, <1>7
  <2> SUFFICES ASSUME NEW d \in Boxes, NEW e \in Boxes
               PROVE  /\ \A i \in DOMAIN handed'[d], j \in DOMAIN handed'[e] :
                           handed'[d][i] = handed'[e][j] => d = e /\ i = j
                      /\ \A i \in DOMAIN handed'[d], j \in DOMAIN waiting[e] : handed'[d][i] # waiting[e][j]
                      /\ \A i \in DOMAIN waiting[d], j \in DOMAIN waiting[e] :
                           waiting[d][i] = waiting[e][j] => d = e /\ i = j
    BY <1>2 DEF AtMostOnce
  <2>4. \A i \in DOMAIN handed'[d], j \in DOMAIN handed'[e] :
          handed'[d][i] = handed'[e][j] => d = e /\ i = j
    BY <1>1, <2>1, <2>3 DEF AtMostOnce
  <2>5. \A i \in DOMAIN handed'[d], j \in DOMAIN waiting[e] : handed'[d][i] # waiting[e][j]
    BY <1>1, <2>2, <2>3 DEF AtMostOnce
  <2>6. \A i \in DOMAIN waiting[d], j \in DOMAIN waiting[e] :
          waiting[d][i] = waiting[e][j] => d = e /\ i = j
    BY <1>1 DEF AtMostOnce
  <2> QED BY <2>4, <2>5, <2>6
<1> QED BY <1>10, <1>11, <1>12, <1>13, <1>14 DEF MailInv

\* A message stored is new, and last in its box.
LEMMA StoreKeepsInv ==
  ASSUME MailInv, NEW b \in Boxes, NEW lost, posted' = posted + 1, handed' = handed,
         exposed' = exposed, waiting' = [Without(lost) EXCEPT ![b] = Append(@, posted)]
  PROVE  MailInv'
<1> DEFINE left == Without(lost)
           last == Len(left[b]) + 1
<1>1. MailTyped /\ Numbered /\ Queued /\ InOrder /\ AtMostOnce
  BY DEF MailInv
<1>2. left \in [Boxes -> Seq(Nat)]
  BY <1>1, WithoutFacts
<1>3. \A d \in Boxes : Ascending(left[d])
  BY <1>1, WithoutFacts
<1>4. \A d \in Boxes : \A i \in DOMAIN left[d] : \E j \in DOMAIN waiting[d] : left[d][i] = waiting[d][j]
  BY <1>1, WithoutFrom
<1>5. waiting' = [left EXCEPT ![b] = Append(@, posted)]
  OBVIOUS
<1> HIDE DEF left
<1>6. posted \in Nat /\ handed \in [Boxes -> Seq(Nat)] /\ waiting \in [Boxes -> Seq(Nat)]
  BY <1>1 DEF MailTyped
<1>7. waiting' \in [Boxes -> Seq(Nat)]
  <2>1. left[b] \in Seq(Nat)
    BY <1>2
  <2>2. Append(left[b], posted) \in Seq(Nat)
    BY <1>6, <2>1
  <2> QED BY <1>2, <1>5, <2>2
<1>8. \A d \in Boxes \ {b} : waiting'[d] = left[d]
  BY <1>2, <1>5
<1>9. /\ DOMAIN waiting'[b] = DOMAIN left[b] \cup {last}
      /\ \A i \in DOMAIN left[b] : waiting'[b][i] = left[b][i] /\ i \in Nat /\ i < last
      /\ waiting'[b][last] = posted
      /\ last \in Nat
  <2>1. left[b] \in Seq(Nat) /\ waiting'[b] = Append(left[b], posted)
    BY <1>2, <1>5
  <2> DEFINE q == left[b]
             r == waiting'[b]
  <2>2. q \in Seq(Nat) /\ r = Append(q, posted) /\ last = Len(q) + 1
    BY <2>1
  <2> HIDE DEF q, r, last
  <2>3. /\ DOMAIN r = DOMAIN q \cup {last}
        /\ \A i \in DOMAIN q : r[i] = q[i] /\ i \in Nat /\ i < last
        /\ r[last] = posted
        /\ last \in Nat
    BY <1>6, <2>2
  <2> QED BY <2>3 DEF q, r
<1> HIDE DEF last
<1>10. ASSUME NEW d \in Boxes, NEW i \in DOMAIN waiting'[d]
       PROVE  \/ i \in DOMAIN left[d] /\ waiting'[d][i] = left[d][i]
              \/ d = b /\ i = last /\ waiting'[d][i] = posted
  BY <1>8, <1>9
<1>11. \A d \in Boxes : \A i \in DOMAIN left[d] : left[d][i] \in Nat /\ left[d][i] < posted
  BY <1>1, <1>2, <1>4 DEF Numbered
<1>12. \A d \in Boxes : \A i \in DOMAIN handed[d] : handed[d][i] \in Nat /\ handed[d][i] < posted
  BY <1>1, <1>6 DEF Numbered
<1>13. MailTyped'
  BY <1>1, <1>6, <1>7 DEF MailTyped
<1>14. Numbered'
  <2>1. \A d \in Boxes : \A i \in DOMAIN handed[d] : handed[d][i] < posted + 1
    BY <1>6, <1>12
  <2>2. \A d \in Boxes : \A i \in DOMAIN left[d] : left[d][i] < posted + 1
    BY <1>6, <1>11
  <2>3. posted < posted + 1
    BY <1>6
  <2>4. \A d \in Boxes : \A i \in DOMAIN waiting'[d] : waiting'[d][i] < posted + 1
    BY <1>10, <2>2, <2>3
  <2> QED BY <2>1, <2>4 DEF Numbered
<1>15. Queued'
  <2> SUFFICES ASSUME NEW d \in Boxes, NEW i \in DOMAIN waiting'[d], NEW j \in DOMAIN waiting'[d], i < j
               PROVE  waiting'[d][i] < waiting'[d][j]
    BY DEF Queued, Ascending
  <2>1. CASE i \in DOMAIN left[d] /\ waiting'[d][i] = left[d][i]
             /\ j \in DOMAIN left[d] /\ waiting'[d][j] = left[d][j]
    BY <1>3, <2>1 DEF Ascending
  <2>2. CASE i \in DOMAIN left[d] /\ waiting'[d][i] = left[d][i] /\ waiting'[d][j] = posted
    BY <1>11, <2>2
  <2>3. CASE d = b /\ i = last
    BY <1>9, <2>3
  <2> QED BY <1>10, <2>1, <2>2, <2>3
<1>16. InOrder'
  <2> SUFFICES ASSUME NEW d \in Boxes, d \notin exposed
               PROVE  /\ Ascending(handed[d])
                      /\ \A i \in DOMAIN handed[d], j \in DOMAIN waiting'[d] : handed[d][i] < waiting'[d][j]
    BY DEF InOrder, Ascending
  <2>1. /\ Ascending(handed[d])
        /\ \A i \in DOMAIN handed[d], j \in DOMAIN waiting[d] : handed[d][i] < waiting[d][j]
    BY <1>1 DEF InOrder
  <2>2. ASSUME NEW i \in DOMAIN handed[d], NEW j \in DOMAIN waiting'[d]
        PROVE  handed[d][i] < waiting'[d][j]
    <3>1. CASE j \in DOMAIN left[d] /\ waiting'[d][j] = left[d][j]
      BY <1>4, <2>1, <3>1
    <3>2. CASE waiting'[d][j] = posted
      BY <1>12, <3>2
    <3> QED BY <1>10, <3>1, <3>2
  <2> QED BY <2>1, <2>2
<1>17. AtMostOnce'
  <2>1. \A d \in Boxes : \A i \in DOMAIN handed[d] : handed[d][i] # posted
    BY <1>6, <1>12
  <2>2. \A d \in Boxes : \A i \in DOMAIN left[d] : left[d][i] # posted
    BY <1>6, <1>11
  <2> SUFFICES ASSUME NEW d \in Boxes, NEW e \in Boxes
               PROVE  /\ \A i \in DOMAIN handed[d], j \in DOMAIN handed[e] :
                           handed[d][i] = handed[e][j] => d = e /\ i = j
                      /\ \A i \in DOMAIN handed[d], j \in DOMAIN waiting'[e] : handed[d][i] # waiting'[e][j]
                      /\ \A i \in DOMAIN waiting'[d], j \in DOMAIN waiting'[e] :
                           waiting'[d][i] = waiting'[e][j] => d = e /\ i = j
    BY DEF AtMostOnce
  <2>3. \A i \in DOMAIN handed[d], j \in DOMAIN handed[e] :
          handed[d][i] = handed[e][j] => d = e /\ i = j
    BY <1>1 DEF AtMostOnce
  <2>4. \A i \in DOMAIN handed[d], j \in DOMAIN waiting'[e] : handed[d][i] # waiting'[e][j]
    BY <1>1, <1>4, <1>10, <2>1 DEF AtMostOnce
  <2>5. ASSUME NEW i \in DOMAIN waiting'[d], NEW j \in DOMAIN waiting'[e], waiting'[d][i] = waiting'[e][j]
        PROVE  d = e
    BY <1>1, <1>4, <1>10, <2>2, <2>5 DEF AtMostOnce
  <2>6. ASSUME NEW i \in DOMAIN waiting'[d], NEW j \in DOMAIN waiting'[e], waiting'[d][i] = waiting'[e][j]
        PROVE  i = j
    <3>1. d = e
      BY <2>5, <2>6
    <3>2. i \in Nat /\ j \in Nat /\ waiting'[d][i] \in Nat
      <4>1. waiting'[d] \in Seq(Nat) /\ i \in DOMAIN waiting'[d] /\ j \in DOMAIN waiting'[d]
        BY <1>7, <3>1
      <4>2. \A q \in Seq(Nat) : DOMAIN q \subseteq Nat /\ \A k \in DOMAIN q : q[k] \in Nat
        OBVIOUS
      <4> QED BY ONLY <4>1, <4>2
    <3>3. (i < j => waiting'[d][i] < waiting'[d][j]) /\ (j < i => waiting'[d][j] < waiting'[d][i])
      BY <1>15, <2>6, <3>1 DEF Queued, Ascending
    <3> QED BY <2>6, <3>1, <3>2, <3>3
  <2> QED BY <2>3, <2>4, <2>5, <2>6
<1> QED BY <1>13, <1>14, <1>15, <1>16, <1>17 DEF MailInv

\* What HandOver makes of the two sequences of a box.
Grown(h, w, n) == h \o SubSeq(w, 1, n)
Rest(w, n) == SubSeq(w, n + 1, Len(w))

\* What was handed over and then the first n that waited.
LEMMA GrownElements ==
  ASSUME NEW h \in Seq(Nat), NEW w \in Seq(Nat), NEW n \in 1 .. Len(w)
  PROVE  /\ Grown(h, w, n) \in Seq(Nat)
         /\ DOMAIN Grown(h, w, n) = 1 .. Len(h) + n
         /\ \A i \in 1 .. Len(h) : Grown(h, w, n)[i] = h[i]
         /\ \A i \in Len(h) + 1 .. Len(h) + n : Grown(h, w, n)[i] = w[i - Len(h)]
<1> DEFINE f == SubSeq(w, 1, n)
           g == Grown(h, w, n)
<1>1. Len(h) \in Nat /\ Len(w) \in Nat /\ n \in Nat /\ n >= 1 /\ n <= Len(w)
  OBVIOUS
<1>2. f \in Seq(Nat) /\ Len(f) = n /\ \A k \in 1 .. n : f[k] = w[k]
  <2>1. 1 \in Int /\ n \in Int /\ \A k \in 1 .. n : w[k] \in Nat
    OBVIOUS
  <2>2. /\ f \in Seq(Nat)
        /\ Len(f) = IF 1 <= n THEN n - 1 + 1 ELSE 0
        /\ \A k \in 1 .. n - 1 + 1 : f[k] = w[1 + k - 1]
    BY <2>1, SubSeqProperties
  <2> QED BY <1>1, <2>2
<1>3. g = h \o f
  BY DEF Grown
<1> HIDE DEF f, g
<1>4. g \in Seq(Nat) /\ DOMAIN g = 1 .. Len(h) + n
      /\ \A i \in 1 .. Len(h) + n : g[i] = IF i <= Len(h) THEN h[i] ELSE f[i - Len(h)]
  <2>1. /\ g \in Seq(Nat)
        /\ Len(g) = Len(h) + Len(f)
        /\ \A i \in 1 .. Len(h) + Len(f) : g[i] = IF i <= Len(h) THEN h[i] ELSE f[i - Len(h)]
    BY <1>2, <1>3, ConcatProperties
  <2>2. Len(g) = Len(h) + n /\ DOMAIN g = 1 .. Len(g)
    BY <1>2, <2>1
  <2> QED BY <1>2, <2>1, <2>2
<1>5. ASSUME NEW i \in 1 .. Len(h)
      PROVE  g[i] = h[i]
  <2>1. i \in 1 .. Len(h) + n /\ i <= Len(h)
    BY <1>1
  <2> QED BY <1>4, <2>1
<1>6. ASSUME NEW i \in Len(h) + 1 .. Len(h) + n
      PROVE  g[i] = w[i - Len(h)]
  <2>1. i \in 1 .. Len(h) + n /\ ~ (i <= Len(h)) /\ i - Len(h) \in 1 .. n
    BY <1>1
  <2> QED BY <1>2, <1>4, <2>1
<1> QED BY <1>4, <1>5, <1>6 DEF g

\* What waits behind the first n.
LEMMA RestElements ==
  ASSUME NEW w \in Seq(Nat), NEW n \in 1 .. Len(w)
  PROVE  /\ Rest(w, n) \in Seq(Nat)
         /\ DOMAIN Rest(w, n) = 1 .. Len(w) - n
         /\ \A j \in 1 .. Len(w) - n : Rest(w, n)[j] = w[n + j]
<1> DEFINE r == Rest(w, n)
<1>1. Len(w) \in Nat /\ n \in Nat /\ n >= 1 /\ n <= Len(w)
  OBVIOUS
<1>2. n + 1 \in Int /\ Len(w) \in Int /\ \A k \in n + 1 .. Len(w) : w[k] \in Nat
  OBVIOUS
<1>3. /\ r \in Seq(Nat)
      /\ Len(r) = IF n + 1 <= Len(w) THEN Len(w) - (n + 1) + 1 ELSE 0
      /\ \A k \in 1 .. Len(w) - (n + 1) + 1 : r[k] = w[(n + 1) + k - 1]
  BY <1>2, SubSeqProperties DEF Rest
<1> HIDE DEF r
<1>4. Len(r) = Len(w) - n /\ Len(w) - (n + 1) + 1 = Len(w) - n
  BY <1>1, <1>3
<1>5. ASSUME NEW k \in 1 .. Len(w) - n
      PROVE  r[k] = w[n + k]
  <2>1. (n + 1) + k - 1 = n + k
    BY <1>1
  <2>2. r[k] = w[(n + 1) + k - 1]
    BY <1>3, <1>4
  <2> QED BY <2>1, <2>2
<1>6. DOMAIN r = 1 .. Len(w) - n
  BY <1>3, <1>4
<1> QED BY <1>3, <1>5, <1>6 DEF r

\* The front of a box moves to the end of what was handed over.
LEMMA HandOverKeepsInv ==
  ASSUME MailInv, NEW b \in Boxes, HandOver(b)
  PROVE  MailInv'
<1>1. MailTyped /\ Numbered /\ Queued /\ InOrder /\ AtMostOnce
  BY DEF MailInv
<1>2. PICK n \in 1 .. Len(waiting[b]) :
        /\ handed' = [handed EXCEPT ![b] = @ \o SubSeq(waiting[b], 1, n)]
        /\ waiting' = [waiting EXCEPT ![b] = SubSeq(@, n + 1, Len(@))]
  BY DEF HandOver
<1>3. posted' = posted /\ exposed \subseteq exposed' /\ exposed' \subseteq Boxes
  BY DEF HandOver
<1>4. posted \in Nat /\ handed \in [Boxes -> Seq(Nat)] /\ waiting \in [Boxes -> Seq(Nat)]
  BY <1>1 DEF MailTyped
<1> DEFINE h == handed[b]
           w == waiting[b]
<1>5. h \in Seq(Nat) /\ w \in Seq(Nat) /\ Len(h) \in Nat /\ Len(w) \in Nat /\ n \in 1 .. Len(w)
  BY <1>4
<1>6. \A d \in Boxes \ {b} : handed'[d] = handed[d] /\ waiting'[d] = waiting[d]
  BY <1>2, <1>4
<1>7. handed'[b] = h \o SubSeq(w, 1, n) /\ waiting'[b] = SubSeq(w, n + 1, Len(w))
  BY <1>2, <1>4
<1> HIDE DEF h, w
<1>8. /\ handed'[b] \in Seq(Nat) /\ waiting'[b] \in Seq(Nat)
      /\ DOMAIN handed'[b] = 1 .. Len(h) + n
      /\ \A i \in 1 .. Len(h) : handed'[b][i] = h[i]
      /\ \A i \in Len(h) + 1 .. Len(h) + n : handed'[b][i] = w[i - Len(h)]
      /\ DOMAIN waiting'[b] = 1 .. Len(w) - n
      /\ \A j \in 1 .. Len(w) - n : waiting'[b][j] = w[n + j]
  <2> DEFINE g == handed'[b]
             r == waiting'[b]
  <2>1. g = Grown(h, w, n) /\ r = Rest(w, n)
    BY <1>7 DEF Grown, Rest
  <2> HIDE DEF g, r
  <2>2. /\ g \in Seq(Nat) /\ DOMAIN g = 1 .. Len(h) + n
        /\ \A i \in 1 .. Len(h) : g[i] = h[i]
        /\ \A i \in Len(h) + 1 .. Len(h) + n : g[i] = w[i - Len(h)]
        /\ r \in Seq(Nat) /\ DOMAIN r = 1 .. Len(w) - n
        /\ \A j \in 1 .. Len(w) - n : r[j] = w[n + j]
    <3>1. h \in Seq(Nat) /\ w \in Seq(Nat) /\ n \in 1 .. Len(w)
      BY <1>5
    <3>2. /\ Grown(h, w, n) \in Seq(Nat)
          /\ DOMAIN Grown(h, w, n) = 1 .. Len(h) + n
          /\ \A i \in 1 .. Len(h) : Grown(h, w, n)[i] = h[i]
          /\ \A i \in Len(h) + 1 .. Len(h) + n : Grown(h, w, n)[i] = w[i - Len(h)]
      BY ONLY <3>1, GrownElements
    <3>3. /\ Rest(w, n) \in Seq(Nat) /\ DOMAIN Rest(w, n) = 1 .. Len(w) - n
          /\ \A j \in 1 .. Len(w) - n : Rest(w, n)[j] = w[n + j]
      BY ONLY <3>1, RestElements
    <3> QED BY ONLY <2>1, <3>2, <3>3
  <2> QED BY <2>2 DEF g, r
<1>9. handed' \in [Boxes -> Seq(Nat)] /\ waiting' \in [Boxes -> Seq(Nat)]
  BY <1>2, <1>4, <1>8
<1>10. DOMAIN handed'[b] = 1 .. Len(h) + n /\ DOMAIN waiting'[b] = 1 .. Len(w) - n
  BY <1>8
<1>11. DOMAIN h = 1 .. Len(h) /\ DOMAIN w = 1 .. Len(w)
  BY <1>5
\* Where the numbers of b come from, in terms of positions.
<1>12. ASSUME NEW i \in DOMAIN handed'[b]
       PROVE  \/ i \in DOMAIN h /\ handed'[b][i] = h[i]
              \/ /\ i \in Int /\ Len(h) < i /\ i - Len(h) \in DOMAIN w /\ i - Len(h) <= n
                 /\ handed'[b][i] = w[i - Len(h)]
  <2>1. i \in 1 .. Len(h) + n /\ i \in Int
    BY <1>5, <1>10
  <2>2. CASE i <= Len(h)
    <3>1. i \in 1 .. Len(h)
      BY <1>5, <2>1, <2>2
    <3> QED BY <1>8, <1>11, <3>1
  <2>3. CASE Len(h) < i
    <3>1. i \in Len(h) + 1 .. Len(h) + n /\ i - Len(h) \in 1 .. Len(w) /\ i - Len(h) <= n
      BY <1>5, <2>1, <2>3
    <3> QED BY <1>8, <1>11, <2>1, <2>3, <3>1
  <2> QED BY <1>5, <2>1, <2>2, <2>3
<1>13. ASSUME NEW j \in DOMAIN waiting'[b]
       PROVE  j \in Int /\ 1 <= j /\ n + j \in DOMAIN w /\ waiting'[b][j] = w[n + j]
  <2>1. j \in 1 .. Len(w) - n
    BY <1>10
  <2>2. j \in Int /\ 1 <= j /\ n + j \in 1 .. Len(w)
    BY <1>5, <2>1
  <2>3. waiting'[b][j] = w[n + j]
    BY <1>8, <2>1
  <2> QED BY <1>11, <2>2, <2>3
<1>14. /\ \A i \in DOMAIN h : h[i] < posted /\ h[i] \in Nat /\ i \in Nat /\ i <= Len(h)
       /\ \A i \in DOMAIN w : w[i] < posted /\ w[i] \in Nat /\ i \in Nat
  <2>1. \A i \in DOMAIN h : h[i] < posted
    BY <1>1 DEF Numbered, h
  <2>2. \A i \in DOMAIN w : w[i] < posted
    BY <1>1 DEF Numbered, w
  <2>3. \A q \in Seq(Nat) : \A i \in DOMAIN q : q[i] \in Nat /\ i \in Nat /\ i <= Len(q)
    OBVIOUS
  <2>4. \A i \in DOMAIN h : h[i] \in Nat /\ i \in Nat /\ i <= Len(h)
    BY <1>5, <2>3, Zenon
  <2>5. \A i \in DOMAIN w : w[i] \in Nat /\ i \in Nat
    BY <1>5, <2>3, Zenon
  <2> QED BY <2>1, <2>2, <2>4, <2>5
<1>15. \A i, j \in DOMAIN w : i < j => w[i] < w[j]
  BY <1>1 DEF Queued, Ascending, w
<1>16. \A i, j \in DOMAIN h : h[i] = h[j] => i = j
  BY <1>1 DEF AtMostOnce, h
<1>17. \A i \in DOMAIN h, j \in DOMAIN w : h[i] # w[j]
  BY <1>1 DEF AtMostOnce, h, w
<1>18. \A i, j \in DOMAIN w : w[i] = w[j] => i = j
  BY <1>1 DEF AtMostOnce, w
<1>19. MailTyped'
  BY <1>3, <1>4, <1>9 DEF MailTyped
<1>20. Numbered'
  <2>1. \A i \in DOMAIN handed'[b] : handed'[b][i] < posted
    BY <1>12, <1>14
  <2>2. \A i \in DOMAIN waiting'[b] : waiting'[b][i] < posted
    BY <1>13, <1>14
  <2>3. \A d \in Boxes \ {b} : /\ \A i \in DOMAIN handed'[d] : handed'[d][i] < posted
                             /\ \A i \in DOMAIN waiting'[d] : waiting'[d][i] < posted
    BY <1>1, <1>6 DEF Numbered
  <2> QED BY <1>3, <2>1, <2>2, <2>3 DEF Numbered
<1>21. Queued'
  <2>1. ASSUME NEW i \in DOMAIN waiting'[b], NEW j \in DOMAIN waiting'[b], i < j
        PROVE  waiting'[b][i] < waiting'[b][j]
    <3>1. n + i < n + j
      BY <1>5, <1>13, <2>1
    <3> QED BY <1>13, <1>15, <3>1
  <2>2. \A d \in Boxes \ {b} : Ascending(waiting'[d])
    BY <1>1, <1>6 DEF Queued
  <2>3. Ascending(waiting'[b])
    BY <2>1 DEF Ascending
  <2> QED BY <2>2, <2>3 DEF Queued, Ascending
<1>22. InOrder'
  <2> SUFFICES ASSUME NEW d \in Boxes, d \notin exposed
               PROVE  /\ Ascending(handed'[d])
                      /\ \A i \in DOMAIN handed'[d], j \in DOMAIN waiting'[d] : handed'[d][i] < waiting'[d][j]
    BY <1>3 DEF InOrder, Ascending
  <2>1. CASE d # b
    BY <1>1, <1>6, <2>1 DEF InOrder
  <2>2. CASE d = b
    <3>1. \A i, j \in DOMAIN h : i < j => h[i] < h[j]
      BY <1>1, <2>2 DEF InOrder, Ascending, h
    <3>2. \A i \in DOMAIN h, j \in DOMAIN w : h[i] < w[j]
      BY <1>1, <2>2 DEF InOrder, h, w
    <3>3. ASSUME NEW i \in DOMAIN handed'[b], NEW j \in DOMAIN handed'[b], i < j
          PROVE  handed'[b][i] < handed'[b][j]
      <4>1. CASE i \in DOMAIN h /\ handed'[b][i] = h[i] /\ j \in DOMAIN h /\ handed'[b][j] = h[j]
        BY <3>1, <3>3, <4>1
      <4>2. CASE /\ i \in DOMAIN h /\ handed'[b][i] = h[i]
                 /\ j - Len(h) \in DOMAIN w /\ handed'[b][j] = w[j - Len(h)]
        BY <3>2, <4>2
      <4>3. CASE /\ i \in Int /\ i - Len(h) \in DOMAIN w /\ handed'[b][i] = w[i - Len(h)]
                 /\ j \in Int /\ j - Len(h) \in DOMAIN w /\ handed'[b][j] = w[j - Len(h)]
        <5>1. i - Len(h) < j - Len(h)
          BY <1>5, <3>3, <4>3
        <5> QED BY <1>15, <4>3, <5>1
      <4>4. CASE i \in Int /\ Len(h) < i /\ j \in DOMAIN h
        BY <1>5, <1>14, <3>3, <4>4
      <4> QED BY <1>12, <4>1, <4>2, <4>3, <4>4
    <3>4. ASSUME NEW i \in DOMAIN handed'[b], NEW j \in DOMAIN waiting'[b]
          PROVE  handed'[b][i] < waiting'[b][j]
      <4>1. j \in Int /\ 1 <= j /\ n + j \in DOMAIN w /\ waiting'[b][j] = w[n + j]
        BY <1>13
      <4>2. CASE i \in DOMAIN h /\ handed'[b][i] = h[i]
        BY <3>2, <4>1, <4>2
      <4>3. CASE /\ i - Len(h) \in DOMAIN w /\ i - Len(h) <= n /\ handed'[b][i] = w[i - Len(h)]
        <5>1. i - Len(h) < n + j
          BY <1>5, <1>14, <4>1, <4>3
        <5> QED BY <1>15, <4>1, <4>3, <5>1
      <4> QED BY <1>12, <4>2, <4>3
    <3>5. Ascending(handed'[b])
      BY <3>3 DEF Ascending
    <3> QED BY <2>2, <3>4, <3>5
  <2> QED BY <2>1, <2>2
\* Every number now in a box was in that box before.
<1>23. ASSUME NEW d \in Boxes, NEW i \in DOMAIN handed'[d]
       PROVE  \/ i \in DOMAIN handed[d] /\ handed'[d][i] = handed[d][i]
              \/ d = b /\ \E j \in DOMAIN waiting[d] : handed'[d][i] = waiting[d][j]
  BY <1>6, <1>12 DEF h, w
<1>24. ASSUME NEW d \in Boxes, NEW i \in DOMAIN waiting'[d]
       PROVE  \E j \in DOMAIN waiting[d] : waiting'[d][i] = waiting[d][j]
  BY <1>6, <1>13 DEF w
<1>25. ASSUME NEW d \in Boxes, NEW e \in Boxes, d # e
       PROVE  /\ \A i \in DOMAIN handed'[d], j \in DOMAIN handed'[e] : handed'[d][i] # handed'[e][j]
              /\ \A i \in DOMAIN handed'[d], j \in DOMAIN waiting'[e] : handed'[d][i] # waiting'[e][j]
              /\ \A i \in DOMAIN waiting'[d], j \in DOMAIN waiting'[e] : waiting'[d][i] # waiting'[e][j]
  <2>1. /\ \A i \in DOMAIN handed[d], j \in DOMAIN handed[e] : handed[d][i] # handed[e][j]
        /\ \A i \in DOMAIN handed[d], j \in DOMAIN waiting[e] : handed[d][i] # waiting[e][j]
        /\ \A i \in DOMAIN handed[e], j \in DOMAIN waiting[d] : handed[e][i] # waiting[d][j]
        /\ \A i \in DOMAIN waiting[d], j \in DOMAIN waiting[e] : waiting[d][i] # waiting[e][j]
    BY <1>1, <1>25 DEF AtMostOnce
  <2>2. \A i \in DOMAIN handed'[d], j \in DOMAIN handed'[e] : handed'[d][i] # handed'[e][j]
    BY <1>23, <2>1
  <2>3. \A i \in DOMAIN handed'[d], j \in DOMAIN waiting'[e] : handed'[d][i] # waiting'[e][j]
    BY <1>23, <1>24, <2>1
  <2>4. \A i \in DOMAIN waiting'[d], j \in DOMAIN waiting'[e] : waiting'[d][i] # waiting'[e][j]
    BY <1>24, <2>1
  <2> QED BY <2>2, <2>3, <2>4
<1>26. AtMostOnce'
  <2> SUFFICES ASSUME NEW d \in Boxes
               PROVE  /\ \A i \in DOMAIN handed'[d], j \in DOMAIN handed'[d] :
                           handed'[d][i] = handed'[d][j] => i = j
                      /\ \A i \in DOMAIN handed'[d], j \in DOMAIN waiting'[d] : handed'[d][i] # waiting'[d][j]
                      /\ \A i \in DOMAIN waiting'[d], j \in DOMAIN waiting'[d] :
                           waiting'[d][i] = waiting'[d][j] => i = j
    BY <1>25 DEF AtMostOnce
  <2>1. CASE d # b
    BY <1>1, <1>6, <2>1 DEF AtMostOnce
  <2>2. CASE d = b
    <3>1. ASSUME NEW i \in DOMAIN handed'[b], NEW j \in DOMAIN handed'[b], handed'[b][i] = handed'[b][j]
          PROVE  i = j
      <4>1. CASE i \in DOMAIN h /\ handed'[b][i] = h[i] /\ j \in DOMAIN h /\ handed'[b][j] = h[j]
        BY <1>16, <3>1, <4>1
      <4>2. CASE /\ i \in Int /\ i - Len(h) \in DOMAIN w /\ handed'[b][i] = w[i - Len(h)]
                 /\ j \in Int /\ j - Len(h) \in DOMAIN w /\ handed'[b][j] = w[j - Len(h)]
        <5>1. i - Len(h) = j - Len(h)
          BY <1>18, <3>1, <4>2
        <5> QED BY <1>5, <4>2, <5>1
      <4> QED BY <1>12, <1>17, <3>1, <4>1, <4>2
    <3>2. ASSUME NEW i \in DOMAIN handed'[b], NEW j \in DOMAIN waiting'[b]
          PROVE  handed'[b][i] # waiting'[b][j]
      <4>1. j \in Int /\ 1 <= j /\ n + j \in DOMAIN w /\ waiting'[b][j] = w[n + j]
        BY <1>13
      <4>2. CASE i \in DOMAIN h /\ handed'[b][i] = h[i]
        BY <1>17, <4>1, <4>2
      <4>3. CASE /\ i - Len(h) \in DOMAIN w /\ i - Len(h) <= n /\ handed'[b][i] = w[i - Len(h)]
        <5>1. i - Len(h) # n + j
          BY <1>5, <1>14, <4>1, <4>3
        <5> QED BY <1>18, <4>1, <4>3, <5>1
      <4> QED BY <1>12, <4>2, <4>3
    <3>3. ASSUME NEW i \in DOMAIN waiting'[b], NEW j \in DOMAIN waiting'[b], waiting'[b][i] = waiting'[b][j]
          PROVE  i = j
      <4>1. n + i = n + j
        BY <1>13, <1>18, <3>3
      <4> QED BY <1>5, <1>13, <4>1
    <3> QED BY <2>2, <3>1, <3>2, <3>3
  <2> QED BY <2>1, <2>2
<1> QED BY <1>19, <1>20, <1>21, <1>22, <1>26 DEF MailInv

\* Every reachable state satisfies the invariant.
LEMMA MailInvHolds == MailSpec => []MailInv
<1>1. MailInit => MailInv
  <2> SUFFICES ASSUME MailInit PROVE MailInv
    OBVIOUS
  <2>1. posted = 0 /\ waiting = [b \in Boxes |-> << >>] /\ handed = [b \in Boxes |-> << >>]
        /\ exposed = {}
    BY DEF MailInit
  <2>2. \A b \in Boxes : waiting[b] = << >> /\ handed[b] = << >>
    BY <2>1
  <2>3. MailTyped
    <3>1. << >> \in Seq(Nat)
      OBVIOUS
    <3> QED BY <2>1, <3>1 DEF MailTyped
  <2> QED BY <2>2, <2>3 DEF MailInv, Numbered, Queued, InOrder, AtMostOnce, Ascending
<1>2. MailInv /\ [MailNext]_mailVars => MailInv'
  <2> SUFFICES ASSUME MailInv, [MailNext]_mailVars PROVE MailInv'
    OBVIOUS
  <2>1. CASE \E b \in Boxes : PassOn(b)
    BY <2>1, PassOnKeepsInv
  <2>2. CASE \E b \in Boxes : Store(b)
    <3>1. PICK b \in Boxes : Store(b)
      BY <2>2
    <3>2. PICK lost \in SUBSET Stored : waiting' = [Without(lost) EXCEPT ![b] = Append(@, posted)]
      BY <3>1 DEF Store
    <3>3. posted' = posted + 1 /\ handed' = handed /\ exposed' = exposed
      BY <3>1 DEF Store
    <3> QED BY <3>2, <3>3, StoreKeepsInv
  <2>3. CASE \E b \in Boxes : HandOver(b)
    BY <2>3, HandOverKeepsInv
  <2>4. CASE Lose
    <3>1. PICK lost \in SUBSET Stored : waiting' = Without(lost)
      BY <2>4 DEF Lose
    <3>2. posted' = posted /\ handed' = handed /\ exposed \subseteq exposed' /\ exposed' \subseteq Boxes
      BY <2>4 DEF Lose
    <3> QED BY <3>1, <3>2, LoseKeepsInv
  <2>5. CASE UNCHANGED mailVars
    <3>1. posted' = posted /\ waiting' = waiting /\ handed' = handed /\ exposed' = exposed
      BY <2>5 DEF mailVars
    <3> QED BY <3>1 DEF MailInv, MailTyped, Numbered, Queued, InOrder, AtMostOnce, Ascending
  <2> QED BY <2>1, <2>2, <2>3, <2>4, <2>5 DEF MailNext
<1> QED BY <1>1, <1>2, PTL DEF MailSpec

\* In a mailbox that is not exposed nothing is handed over out of the order of
\* posting or before something older that still waits.
THEOREM InOrderHolds == MailSpec => []InOrder
<1>1. MailInv => InOrder
  BY DEF MailInv
<1> QED BY <1>1, MailInvHolds, PTL

\* Exposed or not, every message is handed over at most once, by one mailbox, and
\* none that was handed over is still stored.
THEOREM AtMostOnceHolds == MailSpec => []AtMostOnce
<1>1. MailInv => AtMostOnce
  BY DEF MailInv
<1> QED BY <1>1, MailInvHolds, PTL

=============================================================================
