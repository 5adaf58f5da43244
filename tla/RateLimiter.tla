----------------------------- MODULE RateLimiter -----------------------------
(***************************************************************************)
(* checkRateLimit of src/relay/relayServer.ts: the fixed-window counters   *)
(* every admission and event of the relay is tested against, five buckets  *)
(* per client address that share one window, and the timer that drops      *)
(* windows that are over.  A window covers the instants up to and          *)
(* including resetAt.  A refused event counts too.                         *)
(***************************************************************************)
EXTENDS Integers, Sequences

CONSTANTS
  Ips,        \* client addresses, normalized
  None,       \* no entry in the Map
  Limit,      \* RATE_LIMIT_MAX_..., per bucket
  Observed,   \* the addresses and buckets whose history is kept
  Window,     \* RATE_LIMIT_WINDOW_MS
  MaxClock,   \* bound: the clock stops here
  MaxAsked    \* bound: events an address asks for, per window and bucket

Buckets == {"connect", "handshake", "message", "join", "control"}

ASSUME LimiterAssumption ==
  /\ Limit \in [Buckets -> Nat \ {0}]
  /\ Observed \subseteq Ips \X Buckets
  /\ {Window, MaxClock, MaxAsked} \subseteq Nat

VARIABLES
  rateLimits,   \* the current window of each address
  clock,        \* Date.now()
  grants        \* history: the observed events let through, in order

limiterVars == <<rateLimits, clock, grants>>

RateLimitEntry == [counts : [Buckets -> Nat], resetAt : Nat]

\* The program tells undefined from an object.
ASSUME NoneIsNoEntry == None \notin RateLimitEntry

\* When an event was let through, and the resetAt of the window it was counted in.
Grant == [at : Nat, resetAt : Nat]

LimiterInit ==
  /\ rateLimits = [ip \in Ips |-> None]
  /\ clock = 0
  /\ grants = [o \in Observed |-> << >>]

\* The window of ip is over.
Over(ip) == rateLimits[ip] # None /\ clock > rateLimits[ip].resetAt

NewEntry == [counts |-> [bucket \in Buckets |-> 0], resetAt |-> clock + Window]

\* Operators named Definition_Mistake, here and below, are faulty variants of the
\* definition that follows them.  The specification never uses one; each shows
\* that some property notices the mistake.

Entry_KeepsOtherCounts(ip) ==
  IF rateLimits[ip] = None THEN NewEntry
  ELSE IF Over(ip) THEN [rateLimits[ip] EXCEPT !.resetAt = clock + Window,
                                               !.counts["handshake"] = 0]
  ELSE rateLimits[ip]

\* The entry an event of ip is counted in.
Entry(ip) == IF rateLimits[ip] = None \/ Over(ip) THEN NewEntry ELSE rateLimits[ip]

Counted(ip, bucket) ==
  [Entry(ip) EXCEPT !.counts[bucket] = @ + 1]

\* What checkRateLimit returns.
Allowed(ip, bucket) == Entry(ip).counts[bucket] + 1 <= Limit[bucket]

NewGrant(ip) == [at |-> clock, resetAt |-> Entry(ip).resetAt]

CheckRateLimit(ip, bucket) ==
  /\ Entry(ip).counts[bucket] < MaxAsked
  /\ rateLimits' = [rateLimits EXCEPT ![ip] = Counted(ip, bucket)]
  /\ grants' = IF <<ip, bucket>> \in Observed /\ Allowed(ip, bucket)
               THEN [grants EXCEPT ![<<ip, bucket>>] = Append(@, NewGrant(ip))]
               ELSE grants
  /\ UNCHANGED clock

RateLimitCleanup_DropsAll ==
  /\ rateLimits' = [ip \in Ips |-> None]
  /\ UNCHANGED <<clock, grants>>

\* rateLimitCleanupTimer.
RateLimitCleanup ==
  /\ rateLimits' = [ip \in Ips |-> IF Over(ip) THEN None ELSE rateLimits[ip]]
  /\ UNCHANGED <<clock, grants>>

PassTime ==
  /\ clock < MaxClock
  /\ clock' = clock + 1
  /\ UNCHANGED <<rateLimits, grants>>

LimiterNext ==
  \/ \E ip \in Ips, bucket \in Buckets : CheckRateLimit(ip, bucket)
  \/ RateLimitCleanup
  \/ PassTime

LimiterSpec == LimiterInit /\ [][LimiterNext]_limiterVars

-----------------------------------------------------------------------------
(* Properties *)

LimiterTypeOK ==
  /\ rateLimits \in [Ips -> RateLimitEntry \cup {None}]
  /\ clock \in 0 .. MaxClock
  /\ grants \in [Observed -> Seq(Grant)]

\* Of any 2 * limit + 1 consecutive events let through for an address and
\* bucket, the first and the last are more than RATE_LIMIT_WINDOW_MS apart.  A
\* fixed window admits a burst on both sides of its edge, but never a third,
\* however the cleanup timer, refused events and the other buckets of the same
\* entry fall in between.
BurstsAreBounded ==
  \A o \in Observed :
    LET g == grants[o]
        burst == 2 * Limit[o[2]]
    IN  \A i \in 1 .. Len(g) : i + burst <= Len(g) => g[i + burst].at - g[i].at > Window

\* The next event of an address is refused only if it has had the whole limit of
\* that bucket in the window that is still running: refused events, and events of
\* other buckets, never cost an address its quota of a later window.
RefusedOnlyWhenSpent ==
  \A o \in Observed :
    ~Allowed(o[1], o[2]) =>
      LET g == grants[o]
          first == Len(g) + 1 - Limit[o[2]]
      IN  /\ first > 0
          /\ clock <= g[first].resetAt
          /\ \A i \in first .. Len(g) : g[i].resetAt = g[first].resetAt

=============================================================================
