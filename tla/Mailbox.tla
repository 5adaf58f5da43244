------------------------------- MODULE Mailbox -------------------------------
(***************************************************************************)
(* What the relay promises about the messages of a channel, without its    *)
(* transports, budgets and reservations: one mailbox per role of each      *)
(* channel.  A posted message is handed over at once or stored; what is    *)
(* stored is handed over in the order it was posted, or lost.  Nothing is  *)
(* handed over twice and nothing lost comes back.  Messages are numbered   *)
(* as they are posted.                                                     *)
(***************************************************************************)
EXTENDS Queues

CONSTANT Boxes

VARIABLES
  posted,    \* how many messages have been posted
  waiting,   \* per box: the messages stored in it
  handed,    \* per box: the messages handed over, in the order they were
  exposed    \* boxes whose owner holds them without having their deliveries
             \* paced: there a message may overtake those stored before it

mailVars == <<posted, waiting, handed, exposed>>

MailInit ==
  /\ posted = 0
  /\ waiting = [b \in Boxes |-> << >>]
  /\ handed = [b \in Boxes |-> << >>]
  /\ exposed = {}

Stored == UNION {Range(waiting[b]) : b \in Boxes}

\* The boxes once the messages of lost are out of them.
Without(lost) == [b \in Boxes |-> Keep(waiting[b], Range(waiting[b]) \ lost)]

\* A message is handed over at once, which only an empty box allows.
PassOn(b) ==
  /\ posted' = posted + 1
  /\ waiting[b] = << >> \/ b \in exposed
  /\ handed' = [handed EXCEPT ![b] = Append(@, posted)]
  /\ UNCHANGED <<waiting, exposed>>

\* A message is stored; earlier ones may have to make room for it.
Store(b) ==
  /\ posted' = posted + 1
  /\ \E lost \in SUBSET Stored :
       waiting' = [Without(lost) EXCEPT ![b] = Append(@, posted)]
  /\ UNCHANGED <<handed, exposed>>

\* The oldest messages of a box are handed over.
HandOver(b) ==
  /\ UNCHANGED posted
  /\ \E n \in 1 .. Len(waiting[b]) :
       /\ handed' = [handed EXCEPT ![b] = @ \o SubSeq(waiting[b], 1, n)]
       /\ waiting' = [waiting EXCEPT ![b] = SubSeq(@, n + 1, Len(@))]
  /\ exposed \subseteq exposed' /\ exposed' \subseteq Boxes

\* Stored messages are lost: they expire or their channel closes.
Lose ==
  /\ UNCHANGED <<posted, handed>>
  /\ \E lost \in SUBSET Stored : waiting' = Without(lost)
  /\ exposed \subseteq exposed' /\ exposed' \subseteq Boxes

MailNext == (\E b \in Boxes : PassOn(b) \/ Store(b) \/ HandOver(b)) \/ Lose

MailSpec == MailInit /\ [][MailNext]_mailVars

-----------------------------------------------------------------------------
(* Properties *)

Ascending(q) == \A i, j \in DOMAIN q : i < j => q[i] < q[j]

\* In a box that is not exposed, messages are handed over in the order of posting
\* and before every message that still waits, whatever was lost in between.
InOrder ==
  \A b \in Boxes \ exposed :
    /\ Ascending(handed[b])
    /\ \A i \in DOMAIN handed[b], j \in DOMAIN waiting[b] : handed[b][i] < waiting[b][j]

\* No message is handed over twice, by one box or by two, nor stored after it has
\* been handed over, nor stored twice.
AtMostOnce ==
  \A b, d \in Boxes :
    /\ \A i \in DOMAIN handed[b], j \in DOMAIN handed[d] :
         handed[b][i] = handed[d][j] => b = d /\ i = j
    /\ \A i \in DOMAIN handed[b], j \in DOMAIN waiting[d] : handed[b][i] # waiting[d][j]
    /\ \A i \in DOMAIN waiting[b], j \in DOMAIN waiting[d] :
         waiting[b][i] = waiting[d][j] => b = d /\ i = j

=============================================================================
