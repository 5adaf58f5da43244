-------------------------- MODULE AccountingProofs --------------------------
(***************************************************************************)
(* The byte accounting of the channel manager: its counters are exactly    *)
(* the bytes it holds, so the clamps of its subtractions never bite, and   *)
(* no budget is ever exceeded.                                             *)
(***************************************************************************)
EXTENDS DeliveryProofs

-----------------------------------------------------------------------------
(* What there is to count *)

\* The bytes of a buffered message, and those that count for an address.
Sized == [x \in Message |-> x.sizeBytes]
SizedFrom(ip) == [x \in Message |-> IF x.sourceIp = ip THEN x.sizeBytes ELSE 0]

\* The buffered messages of a channel.
Pile(m, c) == IF Known(m, c) THEN m.channels[c].messageBuffer ELSE << >>

\* What the buffers of all channels are worth together.
Held(m, v) == SumFunction([c \in Channels |-> Worth(Pile(m, c), v)])

\* The bytes of a reservation, those that count for a channel, and for an address.
Load == [r \in Reservation \cup {None} |-> IF r = None THEN 0 ELSE r.sizeBytes]
LoadOn(c) ==
  [r \in Reservation \cup {None} |-> IF r # None /\ r.channel = c THEN r.sizeBytes ELSE 0]
LoadFrom(ip) ==
  [r \in Reservation \cup {None} |-> IF r # None /\ r.sourceIp = ip THEN r.sizeBytes ELSE 0]

\* What all reservations are worth together.
Flying(m, w) == SumFunction([s \in Sockets |-> w[m.directDeliveries[s]]])

\* The counters of a channel are exact.
ExactAt(m, c) ==
  /\ m.channels[c].bufferedBytes = Worth(m.channels[c].messageBuffer, Sized)
  /\ m.channels[c].directInflightBytes = Flying(m, LoadOn(c))

\* All counters are: BytesAreExact, with the sums taken over all channels and all
\* sockets, whether they hold anything or not.
Exact(m) ==
  /\ \A c \in Channels : Known(m, c) => ExactAt(m, c)
  /\ m.totalBufferedBytes = Held(m, Sized)
  /\ m.totalDirectInflightBytes = Flying(m, Load)
  /\ \A ip \in Ips :
       m.bufferedBytesByIp[ip] = Flying(m, LoadFrom(ip)) + Held(m, SizedFrom(ip))

\* The values are numbers.
LEMMA Values ==
  /\ Sized \in [Message -> Nat]
  /\ \A ip : SizedFrom(ip) \in [Message -> Nat]
  /\ Load \in [Reservation \cup {None} -> Nat]
  /\ \A c : LoadOn(c) \in [Reservation \cup {None} -> Nat]
  /\ \A ip : LoadFrom(ip) \in [Reservation \cup {None} -> Nat]
<1>1. \A x \in Message : x.sizeBytes \in Nat
  BY ConstantsAssumption DEF Message
<1>2. \A r \in Reservation : r.sizeBytes \in Nat
  BY ConstantsAssumption DEF Reservation
<1>3. Sized \in [Message -> Nat] /\ \A ip : SizedFrom(ip) \in [Message -> Nat]
  BY <1>1 DEF Sized, SizedFrom
<1>4. /\ Load \in [Reservation \cup {None} -> Nat]
      /\ \A c : LoadOn(c) \in [Reservation \cup {None} -> Nat]
      /\ \A ip : LoadFrom(ip) \in [Reservation \cup {None} -> Nat]
  BY <1>2 DEF Load, LoadOn, LoadFrom
<1> QED
  BY <1>3, <1>4

\* Bytes and BytesFrom are what a queue is worth by these values.
LEMMA BytesOfQueue ==
  ASSUME NEW q \in Seq(Message)
  PROVE  /\ Bytes(q) = Worth(q, Sized)
         /\ \A ip : BytesFrom(q, ip) = Worth(q, SizedFrom(ip))
<1>1. \A x \in Message : x.sizeBytes \in Nat
  BY ConstantsAssumption DEF Message
<1>2. \A p \in Seq(Message) : Bytes(p) = Worth(p, Sized)
  BY <1>1, BytesAreWorth DEF Sized
<1>3. ASSUME NEW ip PROVE BytesFrom(q, ip) = Worth(q, SizedFrom(ip))
  <2> DEFINE K == {m \in Range(q) : m.sourceIp = ip}
             L == Range(q) \ K
             p == Keep(q, K)
             r == Keep(q, L)
             v == SizedFrom(ip)
  <2>1. v \in [Message -> Nat]
    BY Values
  <2>2. p \in Seq(Message) /\ Range(p) = Range(q) \cap K
    BY KeepFacts
  <2>3. r \in Seq(Message) /\ Range(r) = Range(q) \cap L
    BY KeepFacts
  <2>4. \A x \in Range(q) : (x \in K) <=> (x \notin L)
    OBVIOUS
  <2>5. BytesFrom(q, ip) = Bytes(p)
    BY DEF BytesFrom
  <2>6. \A x \in Range(p) : x.sourceIp = ip
    BY <2>2
  <2>7. \A x \in Range(r) : x.sourceIp # ip
    BY <2>3
  <2> HIDE DEF K, L, p, r, v
  <2>8. Worth(q, v) = Worth(p, v) + Worth(r, v)
    BY <2>1, <2>4, WorthDivides DEF p, r
  <2>9. Worth(r, v) = 0
    <3>1. \A i \in DOMAIN r : r[i] \in Message /\ r[i].sourceIp # ip
      BY <2>3, <2>7 DEF Range
    <3>2. \A i \in DOMAIN r : v[r[i]] = 0
      BY <3>1 DEF v, SizedFrom
    <3> QED
      BY <2>1, <2>3, <3>2, WorthNothing
  <2>10. Worth(p, v) = Worth(p, Sized)
    <3>1. \A i \in DOMAIN p : p[i] \in Message /\ p[i].sourceIp = ip
      BY <2>2, <2>6 DEF Range
    <3>2. \A i \in DOMAIN p : v[p[i]] = Sized[p[i]]
      BY <3>1 DEF v, SizedFrom, Sized
    <3>3. [i \in DOMAIN p |-> v[p[i]]] = [i \in DOMAIN p |-> Sized[p[i]]]
      BY <3>2
    <3> QED
      BY <3>3 DEF Worth
  <2>11. Worth(p, v) \in Nat
    BY <2>1, <2>2, WorthType
  <2>12. Worth(q, v) = Bytes(p)
    BY <1>2, <2>2, <2>8, <2>9, <2>10, <2>11
  <2> QED
    BY <2>5, <2>12 DEF v
<1> QED
  BY <1>2, <1>3

-----------------------------------------------------------------------------
(* How the sums change *)

\* Buffers and reservations have worths that are numbers.
LEMMA Worths ==
  ASSUME NEW m, Sane(m), NEW v \in [Message -> Nat]
  PROVE  /\ \A c \in Channels : Pile(m, c) \in Seq(Message) /\ Worth(Pile(m, c), v) \in Nat
         /\ [c \in Channels |-> Worth(Pile(m, c), v)] \in [Channels -> Nat]
         /\ Held(m, v) \in Nat
<1>1. ASSUME NEW c \in Channels PROVE Pile(m, c) \in Seq(Message)
  <2>1. CASE Known(m, c)
    BY <2>1, BufferTypes DEF Pile
  <2>2. CASE ~ Known(m, c)
    BY <2>2 DEF Pile
  <2> QED
    BY <2>1, <2>2
<1>2. \A c \in Channels : Worth(Pile(m, c), v) \in Nat
  BY <1>1, WorthType
<1>3. [c \in Channels |-> Worth(Pile(m, c), v)] \in [Channels -> Nat]
  BY <1>2
<1>4. IsFiniteSet(Channels)
  BY ConstantsAssumption
<1>5. Held(m, v) \in Nat
  BY <1>3, <1>4, SumType DEF Held
<1> QED
  BY <1>1, <1>2, <1>3, <1>5

\* One buffer changes.
LEMMA HeldChange ==
  ASSUME NEW m, Sane(m), NEW n, Sane(n), NEW c \in Channels,
         \A d \in Channels \ {c} : Pile(n, d) = Pile(m, d),
         NEW v \in [Message -> Nat]
  PROVE  /\ Held(m, v) + Worth(Pile(n, c), v) = Held(n, v) + Worth(Pile(m, c), v)
         /\ Worth(Pile(m, c), v) <= Held(m, v)
<1> DEFINE f == [d \in Channels |-> Worth(Pile(m, d), v)]
           g == [d \in Channels |-> Worth(Pile(n, d), v)]
<1>1. f \in [Channels -> Nat] /\ g \in [Channels -> Nat]
  BY Worths
<1>2. f[c] = Worth(Pile(m, c), v) /\ g[c] = Worth(Pile(n, c), v)
  OBVIOUS
<1>3. \A d \in Channels \ {c} : f[d] = g[d]
  OBVIOUS
<1>4. Held(m, v) = SumFunction(f) /\ Held(n, v) = SumFunction(g)
  BY DEF Held
<1>5. IsFiniteSet(Channels)
  BY ConstantsAssumption
<1> HIDE DEF f, g
<1>6. DifferAt(f, g, c, Channels)
  BY <1>1, <1>3 DEF DifferAt
<1>7. SumFunction(f) + g[c] = SumFunction(g) + f[c]
  BY <1>5, <1>6, SumChange
<1>8. f[c] <= SumFunction(f)
  BY <1>1, <1>5, SumAtLeast
<1> QED
  BY <1>2, <1>4, <1>7, <1>8

\* No buffer changes.
LEMMA HeldSame ==
  ASSUME NEW m, NEW n, \A d \in Channels : Pile(n, d) = Pile(m, d), NEW v
  PROVE  Held(n, v) = Held(m, v)
BY DEF Held

\* Reservations have worths that are numbers.
LEMMA Loads ==
  ASSUME NEW m, Sane(m), NEW w \in [Reservation \cup {None} -> Nat]
  PROVE  /\ \A s \in Sockets : /\ m.directDeliveries[s] \in Reservation \cup {None}
                               /\ w[m.directDeliveries[s]] \in Nat
         /\ [s \in Sockets |-> w[m.directDeliveries[s]]] \in [Sockets -> Nat]
         /\ Flying(m, w) \in Nat
<1>1. \A s \in Sockets : m.directDeliveries[s] \in Reservation \cup {None}
  BY DEF Sane, Manager
<1>2. \A s \in Sockets : w[m.directDeliveries[s]] \in Nat
  BY <1>1
<1>3. [s \in Sockets |-> w[m.directDeliveries[s]]] \in [Sockets -> Nat]
  BY <1>2
<1>4. IsFiniteSet(Sockets)
  BY ConstantsAssumption
<1>5. Flying(m, w) \in Nat
  BY <1>3, <1>4, SumType DEF Flying
<1> QED
  BY <1>1, <1>2, <1>3, <1>5

\* One reservation changes.
LEMMA FlyingChange ==
  ASSUME NEW m, Sane(m), NEW n, Sane(n), NEW s \in Sockets,
         \A t \in Sockets \ {s} : n.directDeliveries[t] = m.directDeliveries[t],
         NEW w \in [Reservation \cup {None} -> Nat]
  PROVE  /\ Flying(m, w) + w[n.directDeliveries[s]] = Flying(n, w) + w[m.directDeliveries[s]]
         /\ w[m.directDeliveries[s]] <= Flying(m, w)
<1> DEFINE f == [t \in Sockets |-> w[m.directDeliveries[t]]]
           g == [t \in Sockets |-> w[n.directDeliveries[t]]]
<1>1. f \in [Sockets -> Nat] /\ g \in [Sockets -> Nat]
  BY Loads
<1>2. f[s] = w[m.directDeliveries[s]] /\ g[s] = w[n.directDeliveries[s]]
  OBVIOUS
<1>3. \A t \in Sockets \ {s} : f[t] = g[t]
  OBVIOUS
<1>4. Flying(m, w) = SumFunction(f) /\ Flying(n, w) = SumFunction(g)
  BY DEF Flying
<1>5. IsFiniteSet(Sockets)
  BY ConstantsAssumption
<1> HIDE DEF f, g
<1>6. DifferAt(f, g, s, Sockets)
  BY <1>1, <1>3 DEF DifferAt
<1>7. SumFunction(f) + g[s] = SumFunction(g) + f[s]
  BY <1>5, <1>6, SumChange
<1>8. f[s] <= SumFunction(f)
  BY <1>1, <1>5, SumAtLeast
<1> QED
  BY <1>2, <1>4, <1>7, <1>8

\* The reservations are worth the same, one by one.
LEMMA FlyingSame ==
  ASSUME NEW m, NEW n, NEW w,
         \A s \in Sockets : w[n.directDeliveries[s]] = w[m.directDeliveries[s]]
  PROVE  Flying(n, w) = Flying(m, w)
<1>1. [s \in Sockets |-> w[n.directDeliveries[s]]] = [s \in Sockets |-> w[m.directDeliveries[s]]]
  OBVIOUS
<1> QED
  BY <1>1 DEF Flying

\* What the values say of a reservation.
LEMMA LoadFacts ==
  ASSUME NEW r \in Reservation
  PROVE  /\ Load[None] = 0 /\ \A c : LoadOn(c)[None] = 0 /\ \A ip : LoadFrom(ip)[None] = 0
         /\ r # None /\ r.sizeBytes \in Nat
         /\ Load[r] = r.sizeBytes
         /\ \A c : LoadOn(c)[r] = IF c = r.channel THEN r.sizeBytes ELSE 0
         /\ \A ip : LoadFrom(ip)[r] = IF ip = r.sourceIp THEN r.sizeBytes ELSE 0
<1>1. r # None /\ r.sizeBytes \in Nat
  BY NoneIsNoObject, ConstantsAssumption DEF Reservation
<1> QED
  BY <1>1 DEF Load, LoadOn, LoadFrom

\* Without a reservation nothing is in flight.
LEMMA NoLoad ==
  /\ Load[None] = 0 /\ \A c : LoadOn(c)[None] = 0 /\ \A ip : LoadFrom(ip)[None] = 0
BY DEF Load, LoadOn, LoadFrom

-----------------------------------------------------------------------------
(* The counters *)

\* The bytes held stay within every budget: BudgetsHold, but for the lengths.
Within(m) ==
  /\ \A c \in Channels : Known(m, c) =>
       m.channels[c].bufferedBytes + m.channels[c].directInflightBytes <= BytesPerChannel
  /\ \A ip \in Ips : m.bufferedBytesByIp[ip] <= BytesPerIp
  /\ m.totalBufferedBytes + m.totalDirectInflightBytes <= BytesGlobal

\* n has no greater counters than m.
Lower(m, n) ==
  /\ \A c \in Channels : Known(n, c) =>
       /\ Known(m, c)
       /\ n.channels[c].bufferedBytes + n.channels[c].directInflightBytes
            <= m.channels[c].bufferedBytes + m.channels[c].directInflightBytes
  /\ \A ip \in Ips : n.bufferedBytesByIp[ip] <= m.bufferedBytesByIp[ip]
  /\ n.totalBufferedBytes + n.totalDirectInflightBytes
       <= m.totalBufferedBytes + m.totalDirectInflightBytes

\* Counters are numbers.
LEMMA Counters ==
  ASSUME NEW m, Sane(m)
  PROVE  /\ \A c \in Channels : Known(m, c) => /\ m.channels[c].bufferedBytes \in Nat
                                               /\ m.channels[c].directInflightBytes \in Nat
         /\ \A ip \in Ips : m.bufferedBytesByIp[ip] \in Nat
         /\ m.totalBufferedBytes \in Nat /\ m.totalDirectInflightBytes \in Nat
<1>1. ASSUME NEW c \in Channels, Known(m, c)
      PROVE  m.channels[c].bufferedBytes \in Nat /\ m.channels[c].directInflightBytes \in Nat
  <2>1. m.channels[c] \in Channel
    BY <1>1, KnownType
  <2> QED
    BY <2>1 DEF Channel
<1>2. /\ \A ip \in Ips : m.bufferedBytesByIp[ip] \in Nat
      /\ m.totalBufferedBytes \in Nat /\ m.totalDirectInflightBytes \in Nat
  BY DEF Sane, Manager
<1> QED
  BY <1>1, <1>2

\* Less is within the budgets too.
LEMMA LowerIsWithin ==
  ASSUME NEW m, Sane(m), NEW n, Sane(n), Lower(m, n), Within(m)
  PROVE  Within(n)
<1>1. BytesPerChannel \in Nat /\ BytesPerIp \in Nat /\ BytesGlobal \in Nat
  BY ConstantsAssumption
<1>2. ASSUME NEW c \in Channels, Known(n, c)
      PROVE  n.channels[c].bufferedBytes + n.channels[c].directInflightBytes <= BytesPerChannel
  <2>1. /\ Known(m, c)
        /\ n.channels[c].bufferedBytes + n.channels[c].directInflightBytes
             <= m.channels[c].bufferedBytes + m.channels[c].directInflightBytes
        /\ m.channels[c].bufferedBytes + m.channels[c].directInflightBytes <= BytesPerChannel
    BY <1>2 DEF Lower, Within
  <2>2. /\ m.channels[c].bufferedBytes \in Nat /\ m.channels[c].directInflightBytes \in Nat
        /\ n.channels[c].bufferedBytes \in Nat /\ n.channels[c].directInflightBytes \in Nat
    BY <1>2, <2>1, Counters
  <2> QED
    BY <1>1, <2>1, <2>2
<1>3. ASSUME NEW ip \in Ips PROVE n.bufferedBytesByIp[ip] <= BytesPerIp
  <2>1. n.bufferedBytesByIp[ip] <= m.bufferedBytesByIp[ip] /\ m.bufferedBytesByIp[ip] <= BytesPerIp
    BY DEF Lower, Within
  <2>2. n.bufferedBytesByIp[ip] \in Nat /\ m.bufferedBytesByIp[ip] \in Nat
    BY Counters
  <2> QED
    BY <1>1, <2>1, <2>2
<1>4. n.totalBufferedBytes + n.totalDirectInflightBytes <= BytesGlobal
  <2>1. /\ n.totalBufferedBytes + n.totalDirectInflightBytes
             <= m.totalBufferedBytes + m.totalDirectInflightBytes
        /\ m.totalBufferedBytes + m.totalDirectInflightBytes <= BytesGlobal
    BY DEF Lower, Within
  <2>2. /\ n.totalBufferedBytes \in Nat /\ n.totalDirectInflightBytes \in Nat
        /\ m.totalBufferedBytes \in Nat /\ m.totalDirectInflightBytes \in Nat
    BY Counters
  <2> QED
    BY <1>1, <2>1, <2>2
<1> QED
  BY <1>2, <1>3, <1>4 DEF Within

\* What Minus gives when there is enough to subtract, and when not.
LEMMA MinusFacts ==
  ASSUME NEW a \in Nat, NEW b \in Nat
  PROVE  /\ Minus(a, b) \in Nat /\ Minus(a, b) <= a
         /\ b <= a => Minus(a, b) = a - b /\ Minus(a, b) + b = a
BY DEF Minus

\* The two managers have the same counters.
SameCounters(m, n) ==
  /\ \A c \in Channels : Known(n, c) =>
       /\ Known(m, c)
       /\ n.channels[c].bufferedBytes = m.channels[c].bufferedBytes
       /\ n.channels[c].directInflightBytes = m.channels[c].directInflightBytes
  /\ n.totalBufferedBytes = m.totalBufferedBytes
  /\ n.totalDirectInflightBytes = m.totalDirectInflightBytes
  /\ \A ip \in Ips : n.bufferedBytesByIp[ip] = m.bufferedBytesByIp[ip]

SamePiles(m, n) == \A c \in Channels : Pile(n, c) = Pile(m, c)

SameLoads(m, n) ==
  \A s \in Sockets :
    /\ Load[n.directDeliveries[s]] = Load[m.directDeliveries[s]]
    /\ \A c \in Channels : Known(n, c) =>
         LoadOn(c)[n.directDeliveries[s]] = LoadOn(c)[m.directDeliveries[s]]
    /\ \A ip \in Ips : LoadFrom(ip)[n.directDeliveries[s]] = LoadFrom(ip)[m.directDeliveries[s]]

\* What is counted is the same, and so are the counters.
LEMMA SameIsExact ==
  ASSUME NEW m, Sane(m), NEW n, SameCounters(m, n), SamePiles(m, n), SameLoads(m, n)
  PROVE  /\ Exact(m) => Exact(n)
         /\ Lower(m, n)
<1>1. ASSUME Exact(m) PROVE Exact(n)
  <2>1. \A v : Held(n, v) = Held(m, v)
    BY HeldSame DEF SamePiles
  <2>2. Flying(n, Load) = Flying(m, Load)
    BY FlyingSame DEF SameLoads
  <2>3. ASSUME NEW c \in Channels, Known(n, c) PROVE Flying(n, LoadOn(c)) = Flying(m, LoadOn(c))
    <3> DEFINE w == LoadOn(c)
    <3>1. \A s \in Sockets : w[n.directDeliveries[s]] = w[m.directDeliveries[s]]
      BY <2>3 DEF SameLoads
    <3> HIDE DEF w
    <3>2. Flying(n, w) = Flying(m, w)
      BY <3>1, FlyingSame
    <3> QED
      BY <3>2 DEF w
  <2>4. ASSUME NEW ip \in Ips PROVE Flying(n, LoadFrom(ip)) = Flying(m, LoadFrom(ip))
    <3> DEFINE w == LoadFrom(ip)
    <3>1. \A s \in Sockets : w[n.directDeliveries[s]] = w[m.directDeliveries[s]]
      BY DEF SameLoads
    <3> HIDE DEF w
    <3>2. Flying(n, w) = Flying(m, w)
      BY <3>1, FlyingSame
    <3> QED
      BY <3>2 DEF w
  <2>5. ASSUME NEW c \in Channels, Known(n, c) PROVE ExactAt(n, c)
    <3>1. Known(m, c) /\ ExactAt(m, c)
      BY <1>1, <2>5 DEF SameCounters, Exact
    <3>2. n.channels[c].messageBuffer = m.channels[c].messageBuffer
      BY <2>5, <3>1 DEF SamePiles, Pile
    <3> QED
      BY <2>3, <2>5, <3>1, <3>2 DEF ExactAt, SameCounters
  <2>6. \A ip \in Ips :
          n.bufferedBytesByIp[ip] = Flying(n, LoadFrom(ip)) + Held(n, SizedFrom(ip))
    BY <1>1, <2>1, <2>4 DEF SameCounters, Exact
  <2> QED
    BY <1>1, <2>1, <2>2, <2>5, <2>6 DEF Exact, SameCounters
<1>2. Lower(m, n)
  BY Counters DEF SameCounters, Lower
<1> QED
  BY <1>1, <1>2

-----------------------------------------------------------------------------
(* Messages leave a buffer *)

\* The counters of n are those of m once releaseBufferedBytes has been called for
\* every message of q, of channel c.
Released(m, n, c, q) ==
  /\ \A d \in Channels : Known(m, d) =>
       /\ n.channels[d].directInflightBytes = m.channels[d].directInflightBytes
       /\ n.channels[d].bufferedBytes =
            IF d = c THEN Minus(m.channels[d].bufferedBytes, Bytes(q))
            ELSE m.channels[d].bufferedBytes
  /\ n.totalBufferedBytes = Minus(m.totalBufferedBytes, Bytes(q))
  /\ n.totalDirectInflightBytes = m.totalDirectInflightBytes
  /\ \A ip \in Ips : n.bufferedBytesByIp[ip] = Minus(m.bufferedBytesByIp[ip], BytesFrom(q, ip))

\* The same, with subtractions that are not clamped.
Debited(m, n, c, q) ==
  /\ n.channels[c].bufferedBytes + Bytes(q) = m.channels[c].bufferedBytes
  /\ n.totalBufferedBytes + Bytes(q) = m.totalBufferedBytes
  /\ \A ip \in Ips : n.bufferedBytesByIp[ip] + BytesFrom(q, ip) = m.bufferedBytesByIp[ip]

\* The messages of q, and no others, have gone from the buffer of c.
Cashed(m, n, c, q) ==
  /\ \A d \in Channels : Known(n, d) <=> Known(m, d)
  /\ n.directDeliveries = m.directDeliveries
  /\ \A d \in Channels \ {c} : Pile(n, d) = Pile(m, d)
  /\ \A v \in [Message -> Nat] : Worth(Pile(m, c), v) = Worth(Pile(n, c), v) + Worth(q, v)

\* Releasing the bytes of what has been taken keeps the counters exact.
LEMMA CashedIsExact ==
  ASSUME NEW m, Sane(m), NEW n, Sane(n), NEW c \in Channels, Known(m, c),
         NEW q \in Seq(Message), Cashed(m, n, c, q), Released(m, n, c, q)
  PROVE  /\ Lower(m, n)
         /\ Exact(m) => Exact(n) /\ Debited(m, n, c, q)
<1>1. Bytes(q) = Worth(q, Sized) /\ \A ip : BytesFrom(q, ip) = Worth(q, SizedFrom(ip))
  BY BytesOfQueue
<1>2. Bytes(q) \in Nat /\ \A ip : BytesFrom(q, ip) \in Nat
  BY MessageBytes
<1>3. Sized \in [Message -> Nat] /\ \A ip : SizedFrom(ip) \in [Message -> Nat]
  BY Values
<1>4. Known(n, c)
  BY DEF Cashed
<1>5. \A w : Flying(n, w) = Flying(m, w)
  BY DEF Cashed, Flying
<1>6. ASSUME NEW v \in [Message -> Nat]
      PROVE  /\ Held(m, v) = Held(n, v) + Worth(q, v)
             /\ Held(m, v) \in Nat /\ Held(n, v) \in Nat /\ Worth(q, v) \in Nat
  <2> DEFINE a == Worth(Pile(m, c), v)
             b == Worth(Pile(n, c), v)
             k == Worth(q, v)
             x == Held(m, v)
             y == Held(n, v)
  <2>1. a \in Nat /\ b \in Nat /\ k \in Nat /\ x \in Nat /\ y \in Nat
    BY Worths, WorthType
  <2>2. a = b + k
    BY DEF Cashed
  <2>3. x + b = y + a
    <3>1. \A d \in Channels \ {c} : Pile(n, d) = Pile(m, d)
      BY DEF Cashed
    <3> QED
      BY <3>1, HeldChange
  <2> HIDE DEF a, b, k, x, y
  <2>4. x = y + k
    BY <2>1, <2>2, <2>3
  <2> QED
    BY <2>1, <2>4 DEF x, y, k
<1>7. /\ m.channels[c].bufferedBytes \in Nat /\ n.channels[c].bufferedBytes \in Nat
      /\ m.totalBufferedBytes \in Nat /\ n.totalBufferedBytes \in Nat
      /\ \A ip \in Ips : m.bufferedBytesByIp[ip] \in Nat /\ n.bufferedBytesByIp[ip] \in Nat
      /\ m.totalDirectInflightBytes \in Nat
  BY <1>4, Counters
<1>8. ASSUME Exact(m) PROVE Exact(n) /\ Debited(m, n, c, q)
  <2>1. n.channels[c].bufferedBytes + Bytes(q) = m.channels[c].bufferedBytes
        /\ n.channels[c].bufferedBytes = Worth(Pile(n, c), Sized)
    <3> DEFINE k == Bytes(q)
               a == m.channels[c].bufferedBytes
               b == n.channels[c].bufferedBytes
               y == Worth(Pile(n, c), Sized)
    <3>1. b = Minus(a, k)
      BY DEF Released
    <3>2. a = Worth(Pile(m, c), Sized)
      BY <1>8 DEF Exact, ExactAt, Pile
    <3>3. Worth(Pile(m, c), Sized) = y + k
      BY <1>1, <1>3 DEF Cashed
    <3>4. a \in Nat /\ b \in Nat /\ k \in Nat /\ y \in Nat
      BY <1>2, <1>3, <1>7, Worths
    <3> HIDE DEF a, b, k, y
    <3>5. a = y + k
      BY <3>2, <3>3
    <3>6. k <= a
      BY <3>4, <3>5
    <3>7. b + k = a
      BY <3>1, <3>4, <3>6, MinusFacts
    <3>8. b = y
      BY <3>4, <3>5, <3>7
    <3> QED
      BY <3>7, <3>8 DEF a, b, k, y
  <2>2. n.totalBufferedBytes + Bytes(q) = m.totalBufferedBytes
        /\ n.totalBufferedBytes = Held(n, Sized)
    <3> DEFINE k == Bytes(q)
               a == m.totalBufferedBytes
               b == n.totalBufferedBytes
               y == Held(n, Sized)
    <3>1. b = Minus(a, k)
      BY DEF Released
    <3>2. a = y + k
      BY <1>1, <1>3, <1>6, <1>8 DEF Exact
    <3>3. a \in Nat /\ b \in Nat /\ k \in Nat /\ y \in Nat
      BY <1>2, <1>3, <1>6, <1>7
    <3> HIDE DEF a, b, k, y
    <3>4. k <= a
      BY <3>2, <3>3
    <3>5. b + k = a
      BY <3>1, <3>3, <3>4, MinusFacts
    <3>6. b = y
      BY <3>2, <3>3, <3>5
    <3> QED
      BY <3>5, <3>6 DEF a, b, k, y
  <2>3. ASSUME NEW ip \in Ips
        PROVE  /\ n.bufferedBytesByIp[ip] + BytesFrom(q, ip) = m.bufferedBytesByIp[ip]
               /\ n.bufferedBytesByIp[ip] = Flying(n, LoadFrom(ip)) + Held(n, SizedFrom(ip))
    <3> DEFINE k == BytesFrom(q, ip)
               a == m.bufferedBytesByIp[ip]
               b == n.bufferedBytesByIp[ip]
               y == Held(n, SizedFrom(ip))
               z == Flying(m, LoadFrom(ip))
    <3>1. b = Minus(a, k)
      BY DEF Released
    <3>2. a = z + Held(m, SizedFrom(ip))
      BY <1>8 DEF Exact
    <3>3. Held(m, SizedFrom(ip)) = y + k
      BY <1>1, <1>3, <1>6
    <3>4. a \in Nat /\ b \in Nat /\ k \in Nat /\ y \in Nat /\ z \in Nat
      <4>1. z \in Nat
        BY Loads, Values
      <4> QED
        BY <1>2, <1>3, <1>6, <1>7, <4>1
    <3>5. Flying(n, LoadFrom(ip)) = z
      BY <1>5
    <3> HIDE DEF a, b, k, y, z
    <3>6. a = z + (y + k)
      BY <3>2, <3>3
    <3>7. k <= a
      BY <3>4, <3>6
    <3>8. b + k = a
      BY <3>1, <3>4, <3>7, MinusFacts
    <3>9. b = z + y
      BY <3>4, <3>6, <3>8
    <3> QED
      BY <3>5, <3>8, <3>9 DEF a, b, k, y, z
  <2>4. Debited(m, n, c, q)
    BY <2>1, <2>2, <2>3 DEF Debited
  <2>5. n.totalDirectInflightBytes = Flying(n, Load)
    BY <1>5, <1>8 DEF Released, Exact
  <2>6. ASSUME NEW d \in Channels, Known(n, d) PROVE ExactAt(n, d)
    <3>1. Known(m, d)
      BY <2>6 DEF Cashed
    <3>2. n.channels[d].directInflightBytes = Flying(n, LoadOn(d))
      BY <1>5, <1>8, <3>1 DEF Released, Exact, ExactAt
    <3>3. n.channels[d].bufferedBytes = Worth(n.channels[d].messageBuffer, Sized)
      <4>1. CASE d = c
        BY <1>4, <2>1, <4>1 DEF Pile
      <4>2. CASE d # c
        <5>1. n.channels[d].messageBuffer = m.channels[d].messageBuffer
          BY <2>6, <3>1, <4>2 DEF Cashed, Pile
        <5> QED
          BY <1>8, <3>1, <4>2, <5>1 DEF Released, Exact, ExactAt
      <4> QED
        BY <4>1, <4>2
    <3> QED
      BY <3>2, <3>3 DEF ExactAt
  <2>7. n.totalBufferedBytes = Held(n, Sized)
    BY <2>2
  <2>8. \A ip \in Ips :
          n.bufferedBytesByIp[ip] = Flying(n, LoadFrom(ip)) + Held(n, SizedFrom(ip))
    BY <2>3
  <2> QED
    BY <2>4, <2>5, <2>6, <2>7, <2>8 DEF Exact
<1>9. Lower(m, n)
  <2>0. \A a, b \in Nat : Minus(a, b) <= a
    BY MinusFacts
  <2>1. ASSUME NEW d \in Channels, Known(n, d)
        PROVE  /\ Known(m, d)
               /\ n.channels[d].bufferedBytes + n.channels[d].directInflightBytes
                    <= m.channels[d].bufferedBytes + m.channels[d].directInflightBytes
    <3>1. Known(m, d)
      BY <2>1 DEF Cashed
    <3>2. /\ m.channels[d].bufferedBytes \in Nat /\ m.channels[d].directInflightBytes \in Nat
          /\ n.channels[d].bufferedBytes \in Nat
      BY <2>1, <3>1, Counters
    <3>3. n.channels[d].bufferedBytes <= m.channels[d].bufferedBytes
      <4>1. \/ n.channels[d].bufferedBytes = Minus(m.channels[d].bufferedBytes, Bytes(q))
            \/ n.channels[d].bufferedBytes = m.channels[d].bufferedBytes
        BY <3>1 DEF Released
      <4> QED
        BY <1>2, <2>0, <3>2, <4>1
    <3>4. n.channels[d].directInflightBytes = m.channels[d].directInflightBytes
      BY <3>1 DEF Released
    <3> QED
      BY <3>1, <3>2, <3>3, <3>4
  <2>2. ASSUME NEW ip \in Ips PROVE n.bufferedBytesByIp[ip] <= m.bufferedBytesByIp[ip]
    <3>1. n.bufferedBytesByIp[ip] = Minus(m.bufferedBytesByIp[ip], BytesFrom(q, ip))
      BY DEF Released
    <3>2. BytesFrom(q, ip) \in Nat /\ m.bufferedBytesByIp[ip] \in Nat
      BY <1>2, <1>7
    <3> QED
      BY <2>0, <3>1, <3>2
  <2>3. n.totalBufferedBytes <= m.totalBufferedBytes
    BY <1>2, <1>7, MinusFacts DEF Released
  <2>4. n.totalBufferedBytes + n.totalDirectInflightBytes
          <= m.totalBufferedBytes + m.totalDirectInflightBytes
    <3>1. n.totalDirectInflightBytes = m.totalDirectInflightBytes
      BY DEF Released
    <3> QED
      BY <1>7, <2>3, <3>1
  <2> QED
    BY <2>1, <2>2, <2>4 DEF Lower
<1> QED
  BY <1>8, <1>9

\* ReleaseBuffered does just that to the counters.
LEMMA ReleaseBufferedCounters ==
  ASSUME NEW m, Sane(m), NEW c \in Channels, Known(m, c), NEW q \in Seq(Message)
  PROVE  Released(m, ReleaseBuffered(m, c, q), c, q)
<1> DEFINE b == Minus(m.channels[c].bufferedBytes, Bytes(q))
           ch == [m.channels[c] EXCEPT !.bufferedBytes = b]
           n == ReleaseBuffered(m, c, q)
           perIp == [ip \in Ips |-> Minus(m.bufferedBytesByIp[ip], BytesFrom(q, ip))]
           total == Minus(m.totalBufferedBytes, Bytes(q))
<1>1. m \in Manager /\ m.channels[c] \in Channel
  BY KnownType DEF Sane
<1>2. n = [m EXCEPT !.channels[c] = ch, !.totalBufferedBytes = total,
                    !.bufferedBytesByIp = perIp]
  BY DEF ReleaseBuffered
<1>3. /\ ch.bufferedBytes = b
      /\ ch.directInflightBytes = m.channels[c].directInflightBytes
  BY <1>1 DEF Channel
<1>4. \A ip \in Ips : perIp[ip] = Minus(m.bufferedBytesByIp[ip], BytesFrom(q, ip))
  OBVIOUS
<1> HIDE DEF b, ch, perIp, total
<1>5. /\ n.channels = [m.channels EXCEPT ![c] = ch]
      /\ n.totalBufferedBytes = total /\ n.bufferedBytesByIp = perIp
      /\ n.totalDirectInflightBytes = m.totalDirectInflightBytes
  BY <1>1, <1>2 DEF Manager
<1> HIDE DEF n
<1>6. n.channels[c] = ch /\ \A d \in Channels \ {c} : n.channels[d] = m.channels[d]
  BY <1>1, <1>5 DEF Manager
<1>7. ASSUME NEW d \in Channels
      PROVE  /\ n.channels[d].directInflightBytes = m.channels[d].directInflightBytes
             /\ n.channels[d].bufferedBytes =
                  IF d = c THEN Minus(m.channels[d].bufferedBytes, Bytes(q))
                  ELSE m.channels[d].bufferedBytes
  BY <1>3, <1>6 DEF b
<1> QED
  BY <1>4, <1>5, <1>7 DEF Released, n, total

-----------------------------------------------------------------------------
(* Reservations *)

\* What dropping the reservation of s does to the counters, if there is one.
LEMMA ReleaseDirectDeliveryCounters ==
  ASSUME NEW m, Sane(m), NEW s \in Sockets, m.directDeliveries[s] # None
  PROVE  LET r == m.directDeliveries[s]
             n == ReleaseDirectDelivery(m, s)
         IN  /\ \A d \in Channels : Known(m, d) =>
                  /\ n.channels[d].bufferedBytes = m.channels[d].bufferedBytes
                  /\ n.channels[d].directInflightBytes =
                       IF d = r.channel THEN Minus(m.channels[d].directInflightBytes, r.sizeBytes)
                       ELSE m.channels[d].directInflightBytes
             /\ n.totalBufferedBytes = m.totalBufferedBytes
             /\ n.totalDirectInflightBytes = Minus(m.totalDirectInflightBytes, r.sizeBytes)
             /\ \A ip \in Ips :
                  n.bufferedBytesByIp[ip] =
                    IF ip = r.sourceIp THEN Minus(m.bufferedBytesByIp[ip], r.sizeBytes)
                    ELSE m.bufferedBytesByIp[ip]
<1> DEFINE r == m.directDeliveries[s]
           total == Minus(m.totalDirectInflightBytes, r.sizeBytes)
           share == Minus(m.bufferedBytesByIp[r.sourceIp], r.sizeBytes)
           released == [m EXCEPT !.directDeliveries[s] = None,
                                 !.totalDirectInflightBytes = total,
                                 !.bufferedBytesByIp[r.sourceIp] = share]
           c == r.channel
           b == Minus(m.channels[c].directInflightBytes, r.sizeBytes)
           ch == [m.channels[c] EXCEPT !.directInflightBytes = b]
           n == ReleaseDirectDelivery(m, s)
<1>1. m \in Manager /\ Linked(m) /\ r \in Reservation
  BY DEF Sane, Manager
<1>2. released.channels = m.channels
  BY <1>1 DEF Manager
<1>3. n = IF c = None THEN released ELSE [released EXCEPT !.channels[c] = ch]
  BY <1>2 DEF ReleaseDirectDelivery
<1> HIDE DEF total, share, ch, b
<1>4. /\ released.totalBufferedBytes = m.totalBufferedBytes
      /\ released.totalDirectInflightBytes = total
      /\ \A ip \in Ips :
           released.bufferedBytesByIp[ip] = IF ip = r.sourceIp THEN share ELSE m.bufferedBytesByIp[ip]
  BY <1>1 DEF Manager, Reservation
<1>5. released \in [channels : {m.channels}, terminatedOrder : {m.terminatedOrder},
                    directDeliveries : {released.directDeliveries},
                    totalBufferedBytes : {m.totalBufferedBytes},
                    totalDirectInflightBytes : {total},
                    bufferedBytesByIp : {released.bufferedBytesByIp}]
  BY <1>1 DEF Manager
<1> HIDE DEF released, n
<1>6. /\ n.totalBufferedBytes = released.totalBufferedBytes
      /\ n.totalDirectInflightBytes = released.totalDirectInflightBytes
      /\ n.bufferedBytesByIp = released.bufferedBytesByIp
      /\ n.channels = IF c = None THEN m.channels ELSE [m.channels EXCEPT ![c] = ch]
  BY <1>2, <1>3, <1>5
<1>7. ASSUME NEW d \in Channels, Known(m, d)
      PROVE  /\ n.channels[d].bufferedBytes = m.channels[d].bufferedBytes
             /\ n.channels[d].directInflightBytes =
                  IF d = c THEN Minus(m.channels[d].directInflightBytes, r.sizeBytes)
                  ELSE m.channels[d].directInflightBytes
  <2>1. m.channels \in [Channels -> Channel \cup {None}]
    BY <1>1 DEF Manager
  <2>2. CASE d = c
    <3>1. m.channels[c] \in Channel /\ c # None
      BY <1>7, <2>2, KnownType, ConstantsAssumption
    <3>2. n.channels[d] = ch
      BY <1>6, <1>7, <2>1, <2>2, <3>1
    <3>3. ch.bufferedBytes = m.channels[c].bufferedBytes /\ ch.directInflightBytes = b
      BY <3>1 DEF ch, Channel
    <3> QED
      BY <2>2, <3>2, <3>3 DEF b
  <2>3. CASE d # c
    <3>1. n.channels[d] = m.channels[d]
      BY <1>6, <1>7, <2>1, <2>3
    <3> QED
      BY <2>3, <3>1
  <2> QED
    BY <2>2, <2>3
<1>8. /\ n.totalDirectInflightBytes = Minus(m.totalDirectInflightBytes, r.sizeBytes)
      /\ \A ip \in Ips :
           n.bufferedBytesByIp[ip] = IF ip = r.sourceIp
                                     THEN Minus(m.bufferedBytesByIp[ip], r.sizeBytes)
                                     ELSE m.bufferedBytesByIp[ip]
  BY <1>4, <1>6 DEF total, share
<1>9. n.totalBufferedBytes = m.totalBufferedBytes
  BY <1>4, <1>6
<1> QED
  BY <1>7, <1>8, <1>9 DEF n

\* The reservation of s changes, and the counters change by the difference.
Rebooked(m, n, s) ==
  /\ \A c \in Channels : Known(n, c) =>
       /\ Known(m, c)
       /\ n.channels[c].bufferedBytes = m.channels[c].bufferedBytes
       /\ n.channels[c].directInflightBytes + LoadOn(c)[m.directDeliveries[s]]
            = m.channels[c].directInflightBytes + LoadOn(c)[n.directDeliveries[s]]
  /\ n.totalBufferedBytes = m.totalBufferedBytes
  /\ n.totalDirectInflightBytes + Load[m.directDeliveries[s]]
       = m.totalDirectInflightBytes + Load[n.directDeliveries[s]]
  /\ \A ip \in Ips :
       n.bufferedBytesByIp[ip] + LoadFrom(ip)[m.directDeliveries[s]]
         = m.bufferedBytesByIp[ip] + LoadFrom(ip)[n.directDeliveries[s]]
  /\ \A t \in Sockets \ {s} : n.directDeliveries[t] = m.directDeliveries[t]
  /\ SamePiles(m, n)

\* Then the counters stay exact.
LEMMA RebookedIsExact ==
  ASSUME NEW m, Sane(m), NEW n, Sane(n), NEW s \in Sockets, Rebooked(m, n, s), Exact(m)
  PROVE  Exact(n)
<1> DEFINE old == m.directDeliveries[s]
           new == n.directDeliveries[s]
<1>1. ASSUME NEW w \in [Reservation \cup {None} -> Nat]
      PROVE  /\ Flying(m, w) + w[new] = Flying(n, w) + w[old]
             /\ Flying(m, w) \in Nat /\ Flying(n, w) \in Nat /\ w[old] \in Nat /\ w[new] \in Nat
  BY FlyingChange, Loads DEF Rebooked
<1>2. /\ Load \in [Reservation \cup {None} -> Nat]
      /\ \A c : LoadOn(c) \in [Reservation \cup {None} -> Nat]
      /\ \A ip : LoadFrom(ip) \in [Reservation \cup {None} -> Nat]
  BY Values
<1>3. \A v : Held(n, v) = Held(m, v)
  BY HeldSame DEF Rebooked, SamePiles
<1>4. \A a, b, x, y, k, l \in Nat : a + k = b + l /\ x + l = y + k /\ b = x => a = y
  OBVIOUS
<1>5. ASSUME NEW c \in Channels, Known(n, c) PROVE ExactAt(n, c)
  <2>1. Known(m, c) /\ ExactAt(m, c)
    BY <1>5 DEF Exact, Rebooked
  <2>2. n.channels[c].messageBuffer = m.channels[c].messageBuffer
    BY <1>5, <2>1 DEF Rebooked, SamePiles, Pile
  <2>3. n.channels[c].directInflightBytes = Flying(n, LoadOn(c))
    <3> DEFINE w == LoadOn(c)
               a == n.channels[c].directInflightBytes
               b == m.channels[c].directInflightBytes
    <3>1. a \in Nat /\ b \in Nat
      BY <1>5, <2>1, Counters
    <3>2. a + w[old] = b + w[new]
      BY <1>5 DEF Rebooked
    <3>3. b = Flying(m, w)
      BY <2>1 DEF ExactAt
    <3>4. w \in [Reservation \cup {None} -> Nat]
      BY <1>2
    <3> HIDE DEF a, b, w, old, new
    <3>5. a = Flying(n, w)
      BY <1>1, <1>4, <3>1, <3>2, <3>3, <3>4
    <3> QED
      BY <3>5 DEF a, w
  <2> QED
    BY <1>5, <2>1, <2>2, <2>3 DEF ExactAt, Rebooked
<1>6. n.totalDirectInflightBytes = Flying(n, Load)
  <2> DEFINE a == n.totalDirectInflightBytes
             b == m.totalDirectInflightBytes
             w == Load
  <2>1. a \in Nat /\ b \in Nat
    BY Counters
  <2>2. a + w[old] = b + w[new]
    BY DEF Rebooked
  <2>3. b = Flying(m, w) /\ w \in [Reservation \cup {None} -> Nat]
    BY <1>2 DEF Exact
  <2> HIDE DEF a, b, w, old, new
  <2>4. a = Flying(n, w)
    BY <1>1, <1>4, <2>1, <2>2, <2>3
  <2> QED
    BY <2>4 DEF a, w
<1>7. ASSUME NEW ip \in Ips
      PROVE  n.bufferedBytesByIp[ip] = Flying(n, LoadFrom(ip)) + Held(n, SizedFrom(ip))
  <2> DEFINE a == n.bufferedBytesByIp[ip]
             b == m.bufferedBytesByIp[ip]
             w == LoadFrom(ip)
             h == Held(m, SizedFrom(ip))
             x == Flying(m, w)
             y == Flying(n, w)
  <2>1. a \in Nat /\ b \in Nat /\ h \in Nat
    BY Counters, Worths, Values
  <2>2. a + w[old] = b + w[new]
    BY DEF Rebooked
  <2>3. b = x + h /\ w \in [Reservation \cup {None} -> Nat]
    BY <1>2 DEF Exact
  <2>4. x + w[new] = y + w[old] /\ x \in Nat /\ y \in Nat /\ w[old] \in Nat /\ w[new] \in Nat
    BY <1>1, <2>3
  <2>5. Held(n, SizedFrom(ip)) = h
    BY <1>3
  <2> HIDE DEF a, b, w, h, x, y, old, new
  <2>6. a = y + h
    BY <2>1, <2>2, <2>3, <2>4
  <2> QED
    BY <2>5, <2>6 DEF a, w, h, y
<1> QED
  BY <1>3, <1>5, <1>6, <1>7 DEF Exact, Rebooked

\* Buffers that are the same, channel by channel.
LEMMA SameBuffersSamePiles ==
  ASSUME NEW m, NEW n, SameTable(m, n), SameBuffers(m, n)
  PROVE  SamePiles(m, n)
BY DEF SameTable, SameBuffers, SamePiles, Pile

\* Dropping a reservation lowers the counters and keeps them exact.
LEMMA ReleaseIsExact ==
  ASSUME NEW m, Sane(m), NEW s \in Sockets
  PROVE  LET n == ReleaseDirectDelivery(m, s)
         IN  /\ Lower(m, n)
             /\ Exact(m) => Exact(n)
             /\ m.directDeliveries[s] # None /\ Exact(m) => Rebooked(m, n, s)
<1> DEFINE r == m.directDeliveries[s]
           n == ReleaseDirectDelivery(m, s)
<1>1. CASE r = None
  <2>1. n = m
    BY <1>1 DEF ReleaseDirectDelivery
  <2>2. SameCounters(m, m) /\ SamePiles(m, m) /\ SameLoads(m, m)
    BY DEF SameCounters, SamePiles, SameLoads
  <2> QED
    BY <1>1, <2>1, <2>2, SameIsExact
<1>2. CASE r # None
  <2>1. r \in Reservation
    BY <1>2 DEF Sane, Manager
  <2>2. /\ r.sizeBytes \in Nat /\ Load[r] = r.sizeBytes /\ Load[None] = 0
        /\ \A c : LoadOn(c)[r] = (IF c = r.channel THEN r.sizeBytes ELSE 0) /\ LoadOn(c)[None] = 0
        /\ \A ip : LoadFrom(ip)[r] = (IF ip = r.sourceIp THEN r.sizeBytes ELSE 0)
                   /\ LoadFrom(ip)[None] = 0
    BY <2>1, LoadFacts
  <2>3. Sane(n) /\ BytesOnly(m, n) /\ n.directDeliveries = [m.directDeliveries EXCEPT ![s] = None]
    BY ReleaseDirectDeliveryStep, ReleaseDirectDeliveryEffects DEF Step
  <2>4. /\ \A d \in Channels : Known(m, d) =>
             /\ n.channels[d].bufferedBytes = m.channels[d].bufferedBytes
             /\ n.channels[d].directInflightBytes =
                  IF d = r.channel THEN Minus(m.channels[d].directInflightBytes, r.sizeBytes)
                  ELSE m.channels[d].directInflightBytes
        /\ n.totalBufferedBytes = m.totalBufferedBytes
        /\ n.totalDirectInflightBytes = Minus(m.totalDirectInflightBytes, r.sizeBytes)
        /\ \A ip \in Ips :
             n.bufferedBytesByIp[ip] =
               IF ip = r.sourceIp THEN Minus(m.bufferedBytesByIp[ip], r.sizeBytes)
               ELSE m.bufferedBytesByIp[ip]
    BY <1>2, ReleaseDirectDeliveryCounters
  <2>5. n.directDeliveries[s] = None
        /\ \A t \in Sockets \ {s} : n.directDeliveries[t] = m.directDeliveries[t]
    BY <2>3 DEF Sane, Manager
  <2>6. SamePiles(m, n) /\ \A c \in Channels : Known(n, c) <=> Known(m, c)
    BY <2>3, SameBuffersSamePiles DEF BytesOnly, SameContent, SameTable
  <2> HIDE DEF n
  <2>7. /\ \A d \in Channels : Known(m, d) => /\ m.channels[d].bufferedBytes \in Nat
                                              /\ m.channels[d].directInflightBytes \in Nat
        /\ \A ip \in Ips : m.bufferedBytesByIp[ip] \in Nat
        /\ m.totalBufferedBytes \in Nat /\ m.totalDirectInflightBytes \in Nat
    BY Counters
  <2>8. \A a, b \in Nat : /\ Minus(a, b) \in Nat /\ Minus(a, b) <= a
                          /\ b <= a => Minus(a, b) + b = a
    BY MinusFacts
  <2>9. Lower(m, n)
    <3>1. ASSUME NEW d \in Channels, Known(n, d)
          PROVE  /\ Known(m, d)
                 /\ n.channels[d].bufferedBytes + n.channels[d].directInflightBytes
                      <= m.channels[d].bufferedBytes + m.channels[d].directInflightBytes
      <4> DEFINE a == m.channels[d].directInflightBytes
                 b == n.channels[d].directInflightBytes
                 k == m.channels[d].bufferedBytes
      <4>1. Known(m, d)
        BY <2>6, <3>1
      <4>2. a \in Nat /\ k \in Nat /\ n.channels[d].bufferedBytes = k
        BY <2>4, <2>7, <4>1
      <4>3. b = Minus(a, r.sizeBytes) \/ b = a
        BY <2>4, <4>1
      <4> HIDE DEF a, b, k, r
      <4>4. b \in Nat /\ b <= a
        BY <2>2, <2>8, <4>2, <4>3
      <4>5. k + b <= k + a
        BY <4>2, <4>4
      <4> QED
        BY <4>1, <4>2, <4>5 DEF a, b, k
    <3>2. ASSUME NEW ip \in Ips PROVE n.bufferedBytesByIp[ip] <= m.bufferedBytesByIp[ip]
      <4> DEFINE a == m.bufferedBytesByIp[ip]
                 b == n.bufferedBytesByIp[ip]
      <4>1. a \in Nat
        BY <2>7
      <4>2. b = Minus(a, r.sizeBytes) \/ b = a
        BY <2>4
      <4> HIDE DEF a, b, r
      <4>3. b <= a
        BY <2>2, <2>8, <4>1, <4>2
      <4> QED
        BY <4>3 DEF a, b
    <3>3. n.totalBufferedBytes + n.totalDirectInflightBytes
            <= m.totalBufferedBytes + m.totalDirectInflightBytes
      <4> DEFINE a == m.totalDirectInflightBytes
                 b == n.totalDirectInflightBytes
      <4>1. b = Minus(a, r.sizeBytes) /\ a \in Nat
        BY <2>4, <2>7
      <4> HIDE DEF a, b, r
      <4>2. b \in Nat /\ b <= a /\ a \in Nat
        BY <2>2, <2>8, <4>1
      <4> QED
        BY <2>4, <2>7, <4>2 DEF a, b
    <3> QED
      BY <3>1, <3>2, <3>3 DEF Lower
  <2>10. ASSUME Exact(m) PROVE Rebooked(m, n, s) /\ Exact(n)
    <3>1. ASSUME NEW w \in [Reservation \cup {None} -> Nat]
          PROVE  w[r] <= Flying(m, w) /\ Flying(m, w) \in Nat /\ w[r] \in Nat
      BY <2>3, <2>5, FlyingChange, Loads
    <3>2. /\ Load \in [Reservation \cup {None} -> Nat]
          /\ \A c : LoadOn(c) \in [Reservation \cup {None} -> Nat]
          /\ \A ip : LoadFrom(ip) \in [Reservation \cup {None} -> Nat]
      BY Values
    <3>3. ASSUME NEW c \in Channels, Known(n, c)
          PROVE  /\ Known(m, c)
                 /\ n.channels[c].bufferedBytes = m.channels[c].bufferedBytes
                 /\ n.channels[c].directInflightBytes + LoadOn(c)[r]
                      = m.channels[c].directInflightBytes + LoadOn(c)[None]
      <4> DEFINE a == m.channels[c].directInflightBytes
                 b == n.channels[c].directInflightBytes
                 w == LoadOn(c)
                 k == r.sizeBytes
      <4>1. Known(m, c)
        BY <2>6, <3>3
      <4>2. a = Flying(m, w) /\ a \in Nat /\ w[r] <= Flying(m, w)
        BY <2>7, <2>10, <3>1, <3>2, <4>1 DEF Exact, ExactAt
      <4>3. CASE c = r.channel
        <5>1. b = Minus(a, k) /\ w[r] = k /\ w[None] = 0 /\ k \in Nat
          BY <2>2, <2>4, <4>1, <4>3
        <5> HIDE DEF a, b, w, k, r
        <5>2. b + w[r] = a + w[None]
          BY <2>8, <4>2, <5>1
        <5> QED
          BY <2>4, <4>1, <5>2 DEF a, b, w
      <4>4. CASE c # r.channel
        <5>1. b = a /\ w[r] = 0 /\ w[None] = 0
          BY <2>2, <2>4, <4>1, <4>4
        <5> QED
          BY <2>4, <4>1, <5>1
      <4> QED
        BY <4>3, <4>4
    <3>4. n.totalDirectInflightBytes + Load[r] = m.totalDirectInflightBytes + Load[None]
      <4> DEFINE a == m.totalDirectInflightBytes
                 b == n.totalDirectInflightBytes
                 k == r.sizeBytes
      <4>1. a \in Nat /\ k \in Nat /\ k <= a /\ b = Minus(a, k) /\ Load[r] = k /\ Load[None] = 0
        BY <2>2, <2>4, <2>7, <2>10, <3>1, <3>2 DEF Exact
      <4> HIDE DEF a, b, k, r
      <4>2. b + Load[r] = a + Load[None]
        BY <2>8, <4>1
      <4> QED
        BY <4>2 DEF a, b
    <3>5. ASSUME NEW ip \in Ips
          PROVE  n.bufferedBytesByIp[ip] + LoadFrom(ip)[r]
                   = m.bufferedBytesByIp[ip] + LoadFrom(ip)[None]
      <4> DEFINE a == m.bufferedBytesByIp[ip]
                 b == n.bufferedBytesByIp[ip]
                 w == LoadFrom(ip)
                 k == r.sizeBytes
                 h == Held(m, SizedFrom(ip))
                 x == Flying(m, w)
      <4>1. a = x + h /\ a \in Nat /\ w[r] <= x /\ x \in Nat /\ h \in Nat /\ w[r] \in Nat
        BY <2>7, <2>10, <3>1, <3>2, Worths, Values DEF Exact
      <4>2. CASE ip = r.sourceIp
        <5>1. b = Minus(a, k) /\ w[r] = k /\ w[None] = 0 /\ k \in Nat
          BY <2>2, <2>4, <4>2
        <5> HIDE DEF a, b, w, k, r, h, x
        <5>2. k <= a
          BY <4>1, <5>1
        <5>3. b + w[r] = a + w[None]
          BY <2>8, <4>1, <5>1, <5>2
        <5> QED
          BY <5>3 DEF a, b, w
      <4>3. CASE ip # r.sourceIp
        <5>1. b = a /\ w[r] = 0 /\ w[None] = 0
          BY <2>2, <2>4, <4>3
        <5> QED
          BY <5>1
      <4> QED
        BY <4>2, <4>3
    <3>6. Rebooked(m, n, s)
      BY <2>4, <2>5, <2>6, <3>3, <3>4, <3>5 DEF Rebooked
    <3> QED
      BY <2>3, <2>10, <3>6, RebookedIsExact
  <2> QED
    BY <2>9, <2>10 DEF n
<1> QED
  BY <1>1, <1>2

\* Reserving a delivery adds its size to the counters.
LEMMA ReserveDirectCounters ==
  ASSUME NEW m, Sane(m), NEW c \in Channels, Known(m, c),
         NEW target \in Sockets, NEW ip \in Ips, NEW size \in Sizes
  PROVE  LET n == ReserveDirect(m, target, c, ip, size)
         IN  /\ \A d \in Channels : Known(m, d) =>
                  /\ n.channels[d].bufferedBytes = m.channels[d].bufferedBytes
                  /\ n.channels[d].directInflightBytes =
                       m.channels[d].directInflightBytes + (IF d = c THEN size ELSE 0)
             /\ n.totalBufferedBytes = m.totalBufferedBytes
             /\ n.totalDirectInflightBytes = m.totalDirectInflightBytes + size
             /\ \A a \in Ips :
                  n.bufferedBytesByIp[a] = m.bufferedBytesByIp[a] + (IF a = ip THEN size ELSE 0)
<1> DEFINE b == m.channels[c].directInflightBytes + size
           ch == [m.channels[c] EXCEPT !.directInflightBytes = b]
           total == m.totalDirectInflightBytes + size
           share == m.bufferedBytesByIp[ip] + size
           perIp == [m.bufferedBytesByIp EXCEPT ![ip] = share]
           n == ReserveDirect(m, target, c, ip, size)
           dd == [m.directDeliveries EXCEPT
                    ![target] = [channel |-> c, sourceIp |-> ip, sizeBytes |-> size]]
<1>1. m \in Manager /\ m.channels[c] \in Channel /\ size \in Nat
  BY KnownType, ConstantsAssumption DEF Sane
<1>2. n = [m EXCEPT !.directDeliveries = dd, !.channels[c] = ch,
                    !.totalDirectInflightBytes = total, !.bufferedBytesByIp = perIp]
  BY DEF ReserveDirect
<1>3. ch.bufferedBytes = m.channels[c].bufferedBytes /\ ch.directInflightBytes = b
  BY <1>1 DEF Channel
<1>4. \A a \in Ips : perIp[a] = m.bufferedBytesByIp[a] + (IF a = ip THEN size ELSE 0)
  <2>1. m.bufferedBytesByIp \in [Ips -> Nat]
    BY <1>1 DEF Manager
  <2> QED
    BY <1>1, <2>1
<1> HIDE DEF b, ch, total, share, perIp, dd
<1>5. /\ n.channels = [m.channels EXCEPT ![c] = ch]
      /\ n.totalBufferedBytes = m.totalBufferedBytes
      /\ n.totalDirectInflightBytes = total /\ n.bufferedBytesByIp = perIp
  BY <1>1, <1>2 DEF Manager
<1> HIDE DEF n
<1>6. n.channels[c] = ch /\ \A d \in Channels \ {c} : n.channels[d] = m.channels[d]
  BY <1>1, <1>5 DEF Manager
<1>7. ASSUME NEW d \in Channels, Known(m, d)
      PROVE  /\ n.channels[d].bufferedBytes = m.channels[d].bufferedBytes
             /\ n.channels[d].directInflightBytes =
                  m.channels[d].directInflightBytes + (IF d = c THEN size ELSE 0)
  <2>1. m.channels[d].directInflightBytes \in Nat
    BY <1>7, Counters
  <2> QED
    BY <1>3, <1>6, <2>1 DEF b
<1> QED
  BY <1>4, <1>5, <1>7 DEF n, total

\* Reserving a delivery for a free target keeps the counters exact.
LEMMA ReserveIsExact ==
  ASSUME NEW m, Sane(m), NEW c \in Channels, Known(m, c), NEW target \in Sockets,
         NEW ip \in Ips, NEW size \in Sizes, m.directDeliveries[target] = None
  PROVE  LET n == ReserveDirect(m, target, c, ip, size)
         IN  Exact(m) => Exact(n)
<1> DEFINE n == ReserveDirect(m, target, c, ip, size)
           r == [channel |-> c, sourceIp |-> ip, sizeBytes |-> size]
<1>1. Sane(n) /\ BytesOnly(m, n) /\ n.directDeliveries = [m.directDeliveries EXCEPT ![target] = r]
  BY ReserveDirectStep, ReserveDirectEffects DEF Step
<1>2. r \in Reservation /\ r.channel = c /\ r.sourceIp = ip /\ r.sizeBytes = size
  BY DEF Reservation
<1>3. n.directDeliveries[target] = r
      /\ \A t \in Sockets \ {target} : n.directDeliveries[t] = m.directDeliveries[t]
  BY <1>1 DEF Sane, Manager
<1>4. SamePiles(m, n) /\ \A d \in Channels : Known(n, d) <=> Known(m, d)
  BY <1>1, SameBuffersSamePiles DEF BytesOnly, SameContent, SameTable
<1>5. /\ \A d \in Channels : Known(m, d) =>
           /\ n.channels[d].bufferedBytes = m.channels[d].bufferedBytes
           /\ n.channels[d].directInflightBytes =
                m.channels[d].directInflightBytes + (IF d = c THEN size ELSE 0)
      /\ n.totalBufferedBytes = m.totalBufferedBytes
      /\ n.totalDirectInflightBytes = m.totalDirectInflightBytes + size
      /\ \A a \in Ips :
           n.bufferedBytesByIp[a] = m.bufferedBytesByIp[a] + (IF a = ip THEN size ELSE 0)
  BY ReserveDirectCounters
<1>6. /\ Load[r] = size /\ Load[None] = 0
      /\ \A d : LoadOn(d)[r] = (IF d = c THEN size ELSE 0) /\ LoadOn(d)[None] = 0
      /\ \A a : LoadFrom(a)[r] = (IF a = ip THEN size ELSE 0) /\ LoadFrom(a)[None] = 0
  BY <1>2, LoadFacts
<1>7. size \in Nat
  BY ConstantsAssumption
<1> HIDE DEF n, r
<1>8. ASSUME NEW d \in Channels, Known(n, d)
      PROVE  /\ Known(m, d)
             /\ n.channels[d].bufferedBytes = m.channels[d].bufferedBytes
             /\ n.channels[d].directInflightBytes + LoadOn(d)[None]
                  = m.channels[d].directInflightBytes + LoadOn(d)[r]
  <2>1. Known(m, d) /\ m.channels[d].directInflightBytes \in Nat
    BY <1>4, <1>8, Counters
  <2> QED
    BY <1>5, <1>6, <1>7, <2>1
<1>9. n.totalDirectInflightBytes + Load[None] = m.totalDirectInflightBytes + Load[r]
  <2>1. m.totalDirectInflightBytes \in Nat
    BY Counters
  <2> QED
    BY <1>5, <1>6, <1>7, <2>1
<1>10. ASSUME NEW a \in Ips
       PROVE  n.bufferedBytesByIp[a] + LoadFrom(a)[None]
                = m.bufferedBytesByIp[a] + LoadFrom(a)[r]
  <2>1. m.bufferedBytesByIp[a] \in Nat
    BY Counters
  <2> QED
    BY <1>5, <1>6, <1>7, <2>1
<1>11. Rebooked(m, n, target)
  BY <1>3, <1>4, <1>5, <1>8, <1>9, <1>10 DEF Rebooked
<1> QED
  BY <1>1, <1>11, RebookedIsExact DEF n

-----------------------------------------------------------------------------
(* Nothing that is counted changes *)

\* Neither buffers, reservations nor byte counters differ.
Uncounted(m, n) ==
  /\ SameCounters(m, n) /\ SamePiles(m, n)
  /\ n.directDeliveries = m.directDeliveries

\* So the counters stay exact, and no counter is greater.
LEMMA UncountedIsExact ==
  ASSUME NEW m, Sane(m), NEW n, Uncounted(m, n)
  PROVE  /\ Exact(m) => Exact(n)
         /\ Lower(m, n)
<1>1. SameCounters(m, n) /\ SamePiles(m, n) /\ SameLoads(m, n)
  BY DEF Uncounted, SameLoads
<1> QED
  BY <1>1, SameIsExact

\* One channel is written, but not what is counted of it.
LEMMA WriteIsUncounted ==
  ASSUME NEW m, Sane(m), NEW c \in Channels, Known(m, c), NEW ch \in Channel,
         ch.messageBuffer = m.channels[c].messageBuffer,
         ch.bufferedBytes = m.channels[c].bufferedBytes,
         ch.directInflightBytes = m.channels[c].directInflightBytes
  PROVE  Uncounted(m, [m EXCEPT !.channels[c] = ch])
<1> DEFINE n == [m EXCEPT !.channels[c] = ch]
<1>1. /\ n.channels = [m.channels EXCEPT ![c] = ch]
      /\ n.directDeliveries = m.directDeliveries
      /\ n.totalBufferedBytes = m.totalBufferedBytes
      /\ n.totalDirectInflightBytes = m.totalDirectInflightBytes
      /\ n.bufferedBytesByIp = m.bufferedBytesByIp
  BY DEF Sane, Manager
<1> HIDE DEF n
<1>2. /\ n.channels[c] = ch /\ Known(n, c)
      /\ \A d \in Channels \ {c} : n.channels[d] = m.channels[d]
      /\ \A d \in Channels : Known(n, d) <=> Known(m, d)
  <2>1. Writes(m, n, c, ch)
    BY <1>1 DEF Writes
  <2> QED
    BY <2>1, WriteFacts
<1>3. SamePiles(m, n)
  BY <1>2 DEF SamePiles, Pile
<1>4. SameCounters(m, n)
  BY <1>1, <1>2 DEF SameCounters
<1> QED
  BY <1>1, <1>3, <1>4 DEF Uncounted, n

\* Stamping a channel changes nothing that is counted.
LEMMA TouchedIsUncounted ==
  ASSUME NEW m, Sane(m), NEW c \in Channels, Known(m, c), NEW time \in Nat
  PROVE  Uncounted(m, Touched(m, c, time))
<1> DEFINE ch == [m.channels[c] EXCEPT !.lastActivity = time]
<1>1. m.channels[c] \in Channel
  BY KnownType
<1>2. /\ ch \in Channel /\ ch.messageBuffer = m.channels[c].messageBuffer
      /\ ch.bufferedBytes = m.channels[c].bufferedBytes
      /\ ch.directInflightBytes = m.channels[c].directInflightBytes
  BY <1>1 DEF Channel
<1>3. Touched(m, c, time) = [m EXCEPT !.channels[c] = ch]
  BY DEF Touched
<1> HIDE DEF ch
<1> QED
  BY <1>2, <1>3, WriteIsUncounted

\* Nor does advancing a sender's number.
LEMMA TakeSeqIsUncounted ==
  ASSUME NEW m, Sane(m), NEW c \in Channels, Known(m, c), NEW s \in Sockets,
         NEW data \in Payload
  PROVE  Uncounted(m, TakeSeq(m, c, s, data))
<1>1. CASE data.seq = None
  BY <1>1 DEF TakeSeq, Uncounted, SameCounters, SamePiles
<1>2. CASE data.seq # None
  <2> DEFINE q == [m.channels[c].seqNumbers EXCEPT ![s] = data.seq]
             ch == [m.channels[c] EXCEPT !.seqNumbers = q]
  <2>1. m.channels[c] \in Channel /\ data.seq \in Nat
    BY <1>2, KnownType, ConstantsAssumption DEF Payload
  <2>2. q \in [Sockets -> Nat \cup {-1}]
    BY <2>1 DEF Channel
  <2>3. TakeSeq(m, c, s, data) = [m EXCEPT !.channels[c] = ch]
    BY <1>2 DEF TakeSeq
  <2> HIDE DEF q
  <2>4. /\ ch \in Channel /\ ch.messageBuffer = m.channels[c].messageBuffer
        /\ ch.bufferedBytes = m.channels[c].bufferedBytes
        /\ ch.directInflightBytes = m.channels[c].directInflightBytes
    BY <2>1, <2>2 DEF Channel
  <2> HIDE DEF ch
  <2> QED
    BY <2>3, <2>4, WriteIsUncounted
<1> QED
  BY <1>1, <1>2

\* Nor does leaving: the reservation of the participant stays.
LEMMA LeaveIsUncounted ==
  ASSUME NEW m, Sane(m), NEW c \in Channels, NEW s \in Sockets, NEW time \in Nat
  PROVE  Uncounted(m, Leave(m, c, s, time))
<1>1. CASE ~ IsMember(m, c, s)
  BY <1>1 DEF Leave, Uncounted, SameCounters, SamePiles
<1>2. CASE IsMember(m, c, s)
  <2> DEFINE p == [m.channels[c].participants EXCEPT ![s] = None]
             q == [m.channels[c].seqNumbers EXCEPT ![s] = -1]
             ch == [m.channels[c] EXCEPT !.participants = p, !.seqNumbers = q,
                                         !.lastActivity = time]
  <2>1. Known(m, c) /\ m.channels[c] \in Channel
    BY <1>2, KnownType DEF IsMember
  <2>2. p \in [Sockets -> Roles \cup {None}] /\ q \in [Sockets -> Nat \cup {-1}]
    BY <2>1 DEF Channel
  <2>3. Leave(m, c, s, time) = [m EXCEPT !.channels[c] = ch]
    BY <1>2 DEF Leave
  <2> HIDE DEF p, q
  <2>4. /\ ch \in Channel /\ ch.messageBuffer = m.channels[c].messageBuffer
        /\ ch.bufferedBytes = m.channels[c].bufferedBytes
        /\ ch.directInflightBytes = m.channels[c].directInflightBytes
    BY <2>1, <2>2 DEF Channel
  <2> HIDE DEF ch
  <2> QED
    BY <2>1, <2>3, <2>4, WriteIsUncounted
<1> QED
  BY <1>1, <1>2

\* Evicting a stale holder drops its reservation, and nothing else that is counted.
LEMMA EvictIsExact ==
  ASSUME NEW m, Sane(m), NEW c \in Channels, Known(m, c), NEW s \in Sockets,
         NEW role \in Roles
  PROVE  LET e == EvictRival(m, c, s, role)
         IN  /\ Exact(m) => Exact(e)
             /\ Exact(m) /\ Within(m) => Within(e)
<1>1. CASE Rivals(m, c, s, role) = {}
  BY <1>1 DEF EvictRival
<1>2. CASE Rivals(m, c, s, role) # {}
  <2> DEFINE rival == CHOOSE t \in Rivals(m, c, s, role) : TRUE
             p == [m.channels[c].participants EXCEPT ![rival] = None]
             q == [m.channels[c].seqNumbers EXCEPT ![rival] = -1]
             ch == [m.channels[c] EXCEPT !.participants = p, !.seqNumbers = q]
             n == [m EXCEPT !.channels[c] = ch]
             e == EvictRival(m, c, s, role)
  <2>1. m.channels[c] \in Channel
    BY KnownType
  <2>2. rival \in Sockets
    BY <1>2 DEF Rivals, MembersIn
  <2>3. p \in [Sockets -> Roles \cup {None}] /\ q \in [Sockets -> Nat \cup {-1}]
    BY <2>1 DEF Channel
  <2>4. e = ReleaseDirectDelivery(n, rival)
    BY <1>2 DEF EvictRival
  <2>5. \A t \in Sockets : p[t] \in {None, m.channels[c].participants[t]}
    BY <2>1, <2>2 DEF Channel
  <2> HIDE DEF p, q, rival
  <2>6. /\ ch \in Channel /\ ch.messageBuffer = m.channels[c].messageBuffer
        /\ ch.bufferedBytes = m.channels[c].bufferedBytes
        /\ ch.directInflightBytes = m.channels[c].directInflightBytes
        /\ Keeps(m.channels[c], ch)
    BY <2>1, <2>3, <2>5 DEF Channel, Keeps
  <2> HIDE DEF ch, e
  <2>7. Sane(n) /\ Uncounted(m, n)
    BY <2>6, WriteIsUncounted, RewriteStep DEF Step
  <2> HIDE DEF n
  <2>8. (Exact(m) => Exact(n)) /\ Lower(m, n)
    BY <2>7, UncountedIsExact
  <2>9. (Exact(n) => Exact(e)) /\ Lower(n, e) /\ Sane(e)
    BY <2>2, <2>4, <2>7, ReleaseIsExact, ReleaseDirectDeliveryStep DEF Step
  <2>10. Within(m) => Within(e)
    BY <2>7, <2>8, <2>9, LowerIsWithin
  <2> QED
    BY <2>8, <2>9, <2>10 DEF e
<1> QED
  BY <1>1, <1>2

-----------------------------------------------------------------------------
(* Channels come and go *)

\* An empty buffer is worth nothing.
LEMMA EmptyIsWorthless ==
  ASSUME NEW v \in [Message -> Nat]
  PROVE  << >> \in Seq(Message) /\ Worth(<< >>, v) = 0
<1>1. << >> \in Seq(Message) /\ DOMAIN << >> = {}
  OBVIOUS
<1> QED
  BY <1>1, WorthNothing

\* A new channel holds nothing, and no reservation is for it yet.
LEMMA OpenedIsExact ==
  ASSUME NEW m, Sane(m), NEW c \in Channels, ~ Tombstone(m, c),
         NEW ip \in Ips, NEW time \in Nat, Exact(m), Within(m)
  PROVE  LET o == Opened(m, c, ip, time)
         IN  Exact(o) /\ Within(o)
<1> DEFINE o == Opened(m, c, ip, time)
           ch == NewChannel(ip, time)
<1>1. CASE Known(m, c)
  BY <1>1 DEF Opened
<1>2. CASE ~ Known(m, c)
  <2>1. m \in Manager /\ Linked(m) /\ m.channels[c] = None
    BY <1>2 DEF Sane, Known
  <2>2. ch \in Channel /\ ch # None
    BY NewChannelType
  <2>3. ch.messageBuffer = << >> /\ ch.bufferedBytes = 0 /\ ch.directInflightBytes = 0
    BY DEF NewChannel
  <2> HIDE DEF ch
  <2>4. /\ o.channels = [m.channels EXCEPT ![c] = ch]
        /\ o.directDeliveries = m.directDeliveries
        /\ o.totalBufferedBytes = m.totalBufferedBytes
        /\ o.totalDirectInflightBytes = m.totalDirectInflightBytes
        /\ o.bufferedBytesByIp = m.bufferedBytesByIp
    BY <1>2, <2>1 DEF Opened, Manager, ch
  <2> HIDE DEF o
  <2>5. o.channels[c] = ch /\ \A d \in Channels \ {c} : o.channels[d] = m.channels[d]
    BY <2>1, <2>4 DEF Manager
  <2>6. \A d \in Channels : Pile(o, d) = Pile(m, d)
    BY <1>2, <2>2, <2>3, <2>5 DEF Pile, Known
  <2>7. /\ \A v : Held(o, v) = Held(m, v)
        /\ \A w : Flying(o, w) = Flying(m, w)
    BY <2>4, <2>6, HeldSame DEF Flying
  <2>8. Flying(m, LoadOn(c)) = 0
    <3> DEFINE f == [s \in Sockets |-> LoadOn(c)[m.directDeliveries[s]]]
    <3>1. f \in [Sockets -> Nat]
      BY Loads, Values
    <3>2. ASSUME NEW s \in Sockets PROVE f[s] = 0
      <4>1. CASE m.directDeliveries[s] = None
        BY <4>1, NoLoad
      <4>2. CASE m.directDeliveries[s] # None
        <5>1. m.directDeliveries[s] \in Reservation
          BY <2>1, <4>2 DEF Manager
        <5>2. m.directDeliveries[s].channel # c
          BY <1>2, <2>1, <4>2, ConstantsAssumption DEF Linked
        <5> QED
          BY <5>1, <5>2, LoadFacts
      <4> QED
        BY <4>1, <4>2
    <3>3. IsFiniteSet(Sockets) /\ Flying(m, LoadOn(c)) = SumFunction(f)
      BY ConstantsAssumption DEF Flying
    <3> HIDE DEF f
    <3> QED
      BY <3>1, <3>2, <3>3, SumZero
  <2>9. ASSUME NEW d \in Channels, Known(o, d)
        PROVE  /\ ExactAt(o, d)
               /\ o.channels[d].bufferedBytes + o.channels[d].directInflightBytes
                    <= BytesPerChannel
    <3>1. CASE d = c
      <4>1. Worth(ch.messageBuffer, Sized) = 0
        BY <2>3, Values, EmptyIsWorthless
      <4>2. 0 <= BytesPerChannel
        BY ConstantsAssumption
      <4> QED
        BY <2>3, <2>5, <2>7, <2>8, <3>1, <4>1, <4>2 DEF ExactAt
    <3>2. CASE d # c
      <4>1. o.channels[d] = m.channels[d] /\ Known(m, d)
        BY <2>5, <2>9, <3>2 DEF Known
      <4> QED
        BY <2>7, <4>1 DEF Exact, ExactAt, Within
    <3> QED
      BY <3>1, <3>2
  <2>10. Exact(o)
    BY <2>4, <2>7, <2>9 DEF Exact
  <2>11. Within(o)
    BY <2>4, <2>9 DEF Within
  <2> QED
    BY <2>10, <2>11 DEF o
<1> QED
  BY <1>1, <1>2

\* Deleting channels whose buffers are empty changes no sum: the reservations of the
\* deleted ones still count for their addresses and in total.
LEMMA ForgetIsExact ==
  ASSUME NEW m, Sane(m), NEW gone \in SUBSET Channels, \A c \in gone : Pile(m, c) = << >>
  PROVE  LET n == Forget(m, gone)
         IN  (Exact(m) => Exact(n)) /\ Lower(m, n)
<1> DEFINE n == Forget(m, gone)
           chs == [c \in Channels |-> IF c \in gone THEN None ELSE m.channels[c]]
           dds == [s \in Sockets |->
                     IF m.directDeliveries[s] # None /\ m.directDeliveries[s].channel \in gone
                     THEN [m.directDeliveries[s] EXCEPT !.channel = None]
                     ELSE m.directDeliveries[s]]
<1>1. /\ \A c \in Channels : n.channels[c] = IF c \in gone THEN None ELSE m.channels[c]
      /\ DeliveriesKept(m, n)
  BY ForgetEffects
<1>2. n = [m EXCEPT !.channels = chs, !.directDeliveries = dds]
  BY DEF Forget, Sane, Manager
<1> HIDE DEF chs, dds
<1>3. /\ n.totalBufferedBytes = m.totalBufferedBytes
      /\ n.totalDirectInflightBytes = m.totalDirectInflightBytes
      /\ n.bufferedBytesByIp = m.bufferedBytesByIp
  BY <1>2 DEF Sane, Manager
<1> HIDE DEF n
<1>4. \A c \in Channels : Known(n, c) => Known(m, c) /\ n.channels[c] = m.channels[c]
  BY <1>1 DEF Known
<1>5. SameCounters(m, n)
  BY <1>3, <1>4 DEF SameCounters
<1>6. SamePiles(m, n)
  <2> SUFFICES ASSUME NEW c \in Channels PROVE Pile(n, c) = Pile(m, c)
    BY DEF SamePiles
  <2>1. CASE c \in gone
    BY <1>1, <2>1 DEF Pile, Known
  <2>2. CASE c \notin gone
    BY <1>1, <2>2 DEF Pile, Known
  <2> QED
    BY <2>1, <2>2
<1>7. SameLoads(m, n)
  <2> SUFFICES ASSUME NEW s \in Sockets
               PROVE  /\ Load[n.directDeliveries[s]] = Load[m.directDeliveries[s]]
                      /\ \A c \in Channels : Known(n, c) =>
                           LoadOn(c)[n.directDeliveries[s]] = LoadOn(c)[m.directDeliveries[s]]
                      /\ \A ip \in Ips :
                           LoadFrom(ip)[n.directDeliveries[s]] = LoadFrom(ip)[m.directDeliveries[s]]
    BY DEF SameLoads
  <2> DEFINE old == m.directDeliveries[s]
             new == n.directDeliveries[s]
  <2>1. CASE new = old
    BY <2>1
  <2>2. CASE new # old
    <3>1. /\ old # None /\ ~ Known(n, old.channel)
          /\ new \in Reservation /\ new = [old EXCEPT !.channel = None]
      BY <1>1, <2>2 DEF DeliveriesKept
    <3>2. old \in Reservation
      BY <3>1 DEF Sane, Manager
    <3> HIDE DEF old, new
    <3>3. new.sizeBytes = old.sizeBytes /\ new.sourceIp = old.sourceIp /\ new.channel = None
      BY <3>1, <3>2 DEF Reservation
    <3>4. Load[new] = Load[old]
      BY <3>1, <3>2, <3>3, LoadFacts
    <3>5. ASSUME NEW ip \in Ips PROVE LoadFrom(ip)[new] = LoadFrom(ip)[old]
      <4>1. LoadFrom(ip)[new] = IF ip = new.sourceIp THEN new.sizeBytes ELSE 0
        BY <3>1, LoadFacts
      <4>2. LoadFrom(ip)[old] = IF ip = old.sourceIp THEN old.sizeBytes ELSE 0
        BY <3>2, LoadFacts
      <4> QED
        BY <3>3, <4>1, <4>2
    <3>6. ASSUME NEW c \in Channels, Known(n, c) PROVE LoadOn(c)[new] = LoadOn(c)[old]
      <4>1. c # old.channel /\ c # new.channel
        BY <3>1, <3>3, <3>6, ConstantsAssumption
      <4>2. LoadOn(c)[new] = 0
        BY <3>1, <4>1, LoadFacts
      <4>3. LoadOn(c)[old] = 0
        BY <3>2, <4>1, LoadFacts
      <4> QED
        BY <4>2, <4>3
    <3> QED
      BY <3>4, <3>5, <3>6 DEF old, new
  <2> QED
    BY <2>1, <2>2
<1>8. (Exact(m) => Exact(n)) /\ Lower(m, n)
  BY <1>5, <1>6, <1>7, SameIsExact
<1> QED
  BY <1>8 DEF n

\* The tombstones left by close hold no messages.
HollowTombs(m) ==
  \A c \in Channels : Tombstone(m, c) => m.channels[c].messageBuffer = << >>

\* Closing a channel gives the bytes of its whole buffer back.
LEMMA CloseIsExact ==
  ASSUME NEW m, Sane(m), NEW c \in Channels, Live(m, c), NEW time \in Nat, HollowTombs(m),
         Exact(m), Within(m)
  PROVE  LET n == Close(m, c, time)
         IN  Exact(n) /\ Within(n)
<1> DEFINE n == Close(m, c, time)
           order == Append(m.terminatedOrder, c)
           q == m.channels[c].messageBuffer
           freed == ReleaseBuffered(m, c, q)
           h == Hollow(freed.channels[c], time)
           hollowed == [freed EXCEPT !.channels[c] = h, !.terminatedOrder = order]
           stale == Head(order)
           gone == IF Tombstone(hollowed, stale) THEN {stale} ELSE {}
           short == [hollowed EXCEPT !.terminatedOrder = Tail(order)]
<1>1. Known(m, c) /\ m.channels[c] \in Channel /\ m.terminatedOrder \in Seq(Channels)
      /\ q \in Seq(Message)
  BY KnownType, BufferTypes DEF Live, Sane, Manager
<1>2. /\ Step(m, freed) /\ Known(freed, c)
      /\ freed.directDeliveries = m.directDeliveries
      /\ BytesOnly(m, freed)
  BY <1>1, ReleaseBufferedStep, ReleaseBufferedEffects
<1>3. Released(m, freed, c, q)
  BY <1>1, ReleaseBufferedCounters
<1>4. order \in Seq(Channels) /\ Len(order) = Len(m.terminatedOrder) + 1
  BY <1>1
<1>5. n = IF Len(order) <= MaxTombstones THEN hollowed ELSE Forget(short, gone)
  <2>1. ASSUME NEW x, hollowed = x
        PROVE  [x EXCEPT !.terminatedOrder = Tail(x.terminatedOrder)] = short
    <3>1. freed \in Manager
      BY <1>2 DEF Step, Sane
    <3>2. hollowed.terminatedOrder = order
      <4> HIDE DEF order, h, freed
      <4> QED
        BY <3>1 DEF Manager
    <3> QED
      BY <2>1, <3>2
  <2> QED
    BY <2>1 DEF Close
<1> HIDE DEF freed
<1>6. freed \in Manager /\ Linked(freed) /\ freed.channels[c] \in Channel
  BY <1>2, KnownType DEF Step, Sane
<1>7. /\ h \in Channel /\ h.terminated = TRUE /\ h.messageBuffer = << >>
      /\ h.bufferedBytes = freed.channels[c].bufferedBytes
      /\ h.directInflightBytes = freed.channels[c].directInflightBytes
  <2>1. /\ h.messageBuffer = << >>
        /\ h.bufferedBytes = freed.channels[c].bufferedBytes
        /\ h.directInflightBytes = freed.channels[c].directInflightBytes
    BY <1>6 DEF Hollow, Channel
  <2> QED
    BY <1>6, <2>1, HollowType
<1> HIDE DEF h, order
<1>8. /\ hollowed \in Manager /\ hollowed.channels = [freed.channels EXCEPT ![c] = h]
      /\ hollowed.terminatedOrder = order
      /\ hollowed.directDeliveries = freed.directDeliveries
      /\ hollowed.totalBufferedBytes = freed.totalBufferedBytes
      /\ hollowed.totalDirectInflightBytes = freed.totalDirectInflightBytes
      /\ hollowed.bufferedBytesByIp = freed.bufferedBytesByIp
  BY <1>4, <1>6, <1>7 DEF Manager
<1> HIDE DEF hollowed
<1>9. hollowed.channels[c] = h /\ \A d \in Channels \ {c} : hollowed.channels[d] = freed.channels[d]
  BY <1>6, <1>8 DEF Manager
<1>10. \A d \in Channels : Known(hollowed, d) <=> Known(freed, d)
  BY <1>2, <1>7, <1>9, NoneIsNoObject DEF Known
<1>11. Sane(hollowed)
  BY <1>6, <1>8, <1>10 DEF Sane, Linked, Manager, Reservation
<1>12. \A d \in Channels : Known(hollowed, d) <=> Known(m, d)
  BY <1>2, <1>10 DEF BytesOnly, SameContent, SameTable
<1>13. \A d \in Channels \ {c} : Pile(hollowed, d) = Pile(m, d)
  BY <1>2, <1>9, <1>12 DEF BytesOnly, SameContent, SameBuffers, Pile
<1>14. Pile(hollowed, c) = << >> /\ Pile(m, c) = q
  BY <1>1, <1>7, <1>9, <1>12 DEF Pile
<1>15. Cashed(m, hollowed, c, q)
  <2>1. ASSUME NEW v \in [Message -> Nat]
        PROVE  Worth(Pile(m, c), v) = Worth(Pile(hollowed, c), v) + Worth(q, v)
    <3>1. Worth(<< >>, v) = 0 /\ Worth(q, v) \in Nat
      BY <1>1, EmptyIsWorthless, WorthType
    <3> QED
      BY <1>14, <3>1
  <2> QED
    BY <1>2, <1>8, <1>12, <1>13, <2>1 DEF Cashed
<1>16. Released(m, hollowed, c, q)
  <2>1. ASSUME NEW d \in Channels, Known(m, d)
        PROVE  /\ hollowed.channels[d].directInflightBytes = freed.channels[d].directInflightBytes
               /\ hollowed.channels[d].bufferedBytes = freed.channels[d].bufferedBytes
    BY <1>7, <1>9
  <2> HIDE DEF q
  <2> QED
    BY <1>3, <1>8, <2>1 DEF Released
<1>17. Lower(m, hollowed) /\ Exact(hollowed)
  BY <1>1, <1>11, <1>15, <1>16, CashedIsExact
<1>18. Within(hollowed)
  BY <1>11, <1>17, LowerIsWithin
<1>19. CASE Len(order) <= MaxTombstones
  BY <1>5, <1>17, <1>18, <1>19
<1>20. CASE ~ (Len(order) <= MaxTombstones)
  <2>1. Len(order) > 0 /\ stale \in Channels
    BY <1>4
  <2>2. gone \in SUBSET Channels
    BY <2>1
  <2>3. Tail(order) \in Seq(Channels)
    BY <1>4, <2>1
  <2>4. /\ short \in Manager /\ short.channels = hollowed.channels
        /\ short.terminatedOrder = Tail(order)
        /\ short.directDeliveries = hollowed.directDeliveries
        /\ short.totalBufferedBytes = hollowed.totalBufferedBytes
        /\ short.totalDirectInflightBytes = hollowed.totalDirectInflightBytes
        /\ short.bufferedBytesByIp = hollowed.bufferedBytesByIp
    BY <1>8, <2>3 DEF Manager
  <2> HIDE DEF short
  <2>5. Sane(short)
    BY <1>11, <2>4 DEF Sane, Linked, Known
  <2>6. Uncounted(hollowed, short)
    BY <2>4 DEF Uncounted, SameCounters, SamePiles, Pile, Known
  <2>7. Exact(short) /\ Lower(hollowed, short)
    BY <1>11, <1>17, <2>6, UncountedIsExact
  <2>8. ASSUME NEW d \in gone PROVE Pile(short, d) = << >>
    <3>1. d = stale /\ Tombstone(hollowed, stale)
      BY <2>8
    <3>2. Pile(short, d) = Pile(hollowed, d)
      BY <2>4 DEF Pile, Known
    <3>3. CASE d = c
      BY <1>14, <3>2, <3>3
    <3>4. CASE d # c
      <4>1. Known(m, d) /\ Pile(hollowed, d) = m.channels[d].messageBuffer
        BY <1>12, <1>13, <2>1, <3>1, <3>4 DEF Pile, Tombstone
      <4>2. m.channels[d].terminated
        BY <1>2, <1>9, <2>1, <3>1, <3>4, <4>1 DEF Tombstone, BytesOnly, SameContent, SameTable
      <4>3. m.channels[d].messageBuffer = << >>
        BY <2>1, <3>1, <4>1, <4>2 DEF HollowTombs, Tombstone
      <4> QED
        BY <3>2, <4>1, <4>3
    <3> QED
      BY <3>3, <3>4
  <2> HIDE DEF gone
  <2>9. Exact(Forget(short, gone)) /\ Lower(short, Forget(short, gone)) /\ Sane(Forget(short, gone))
    BY <2>2, <2>5, <2>7, <2>8, ForgetIsExact, ForgetFacts
  <2>10. Within(Forget(short, gone))
    <3>1. Within(short)
      BY <1>11, <1>18, <2>5, <2>7, LowerIsWithin
    <3> QED
      BY <2>5, <2>9, <3>1, LowerIsWithin
  <2>11. n = Forget(short, gone)
    BY <1>5, <1>20
  <2> QED
    BY <2>9, <2>10, <2>11
<1> QED
  BY <1>19, <1>20

-----------------------------------------------------------------------------
(* A cleanup *)

\* The messages of c a cleanup drops, for every channel id.
Lost(m, c, time) == IF Known(m, c) THEN Expired(m, c, time) ELSE << >>

\* What they are worth together.
Lapsed(m, time, v) == SumFunction([c \in Channels |-> Worth(Lost(m, c, time), v)])

\* A cleanup divides each buffer into what is lost and what is left.
LEMMA LostWorth ==
  ASSUME NEW m, Sane(m), NEW time, NEW v \in [Message -> Nat]
  PROVE  LET n == ExpireBuffers(m, time)
         IN  /\ \A c \in Channels : /\ Lost(m, c, time) \in Seq(Message)
                                    /\ Worth(Lost(m, c, time), v) \in Nat
                                    /\ Worth(Pile(m, c), v)
                                         = Worth(Pile(n, c), v) + Worth(Lost(m, c, time), v)
             /\ Lapsed(m, time, v) \in Nat
             /\ Held(m, v) = Held(n, v) + Lapsed(m, time, v)
<1> DEFINE n == ExpireBuffers(m, time)
           f == [c \in Channels |-> Worth(Pile(n, c), v)]
           g == [c \in Channels |-> Worth(Lost(m, c, time), v)]
           h == [c \in Channels |-> Worth(Pile(m, c), v)]
<1>1. Sane(n) /\ \A c \in Channels : Known(n, c) <=> Known(m, c)
  BY ExpireBuffersStep DEF Step, SameTombstones
<1>2. \A c \in Channels : Known(m, c) =>
        n.channels[c].messageBuffer =
          Keep(m.channels[c].messageBuffer,
               Range(m.channels[c].messageBuffer) \ Range(Expired(m, c, time)))
  BY ExpireBuffersEffects
<1> HIDE DEF n
<1>3. ASSUME NEW c \in Channels
      PROVE  /\ Lost(m, c, time) \in Seq(Message)
             /\ Worth(Lost(m, c, time), v) \in Nat
             /\ Worth(Pile(m, c), v) = Worth(Pile(n, c), v) + Worth(Lost(m, c, time), v)
  <2>1. CASE Known(m, c)
    <3> DEFINE q == m.channels[c].messageBuffer
               K == {x \in Range(q) : time - x.timestamp >= BufferTTL}
               L == Range(q) \ Range(Keep(q, K))
    <3>1. q \in Seq(Message)
      BY <2>1, BufferTypes
    <3>2. Lost(m, c, time) = Keep(q, K)
      BY <2>1 DEF Lost, Expired
    <3>3. Pile(n, c) = Keep(q, L) /\ Pile(m, c) = q
      BY <1>1, <1>2, <2>1 DEF Pile, Expired
    <3>4. Keep(q, K) \in Seq(Message) /\ Range(Keep(q, K)) = Range(q) \cap K
      <4> HIDE DEF K, q
      <4> QED
        BY <3>1, KeepFacts
    <3>5. \A x \in Range(q) : (x \in K) <=> (x \notin L)
      BY <3>4
    <3> HIDE DEF q, K, L
    <3>6. Worth(q, v) = Worth(Keep(q, K), v) + Worth(Keep(q, L), v)
      BY <3>1, <3>5, WorthDivides
    <3>7. Worth(Keep(q, K), v) \in Nat
      BY <3>4, WorthType
    <3>8. Worth(Keep(q, L), v) \in Nat
      BY <1>1, <3>3, Worths
    <3> QED
      BY <3>2, <3>3, <3>4, <3>6, <3>7, <3>8
  <2>2. CASE ~ Known(m, c)
    <3>1. Lost(m, c, time) = << >> /\ Pile(m, c) = << >> /\ Pile(n, c) = << >>
      BY <1>1, <2>2 DEF Lost, Pile
    <3>2. << >> \in Seq(Message) /\ Worth(<< >>, v) = 0
      BY EmptyIsWorthless
    <3> QED
      BY <3>1, <3>2
  <2> QED
    BY <2>1, <2>2
<1>4. f \in [Channels -> Nat] /\ h \in [Channels -> Nat]
  BY <1>1, Worths
<1>5. g \in [Channels -> Nat]
  BY <1>3
<1>6. \A c \in Channels : h[c] = f[c] + g[c]
  BY <1>3
<1>7. Held(m, v) = SumFunction(h) /\ Held(n, v) = SumFunction(f)
      /\ Lapsed(m, time, v) = SumFunction(g)
  BY DEF Held, Lapsed
<1>8. IsFiniteSet(Channels)
  BY ConstantsAssumption
<1> HIDE DEF f, g, h
<1>9. Plus(h, f, g, Channels)
  BY <1>4, <1>5, <1>6 DEF Plus
<1>10. SumFunction(h) = SumFunction(f) + SumFunction(g) /\ SumFunction(g) \in Nat
  BY <1>5, <1>8, <1>9, SumPlus, SumType
<1> QED
  BY <1>3, <1>7, <1>10 DEF n

\* What the loop of cleanup does to the counters.
LEMMA ExpireCounters ==
  ASSUME NEW m, Sane(m), NEW time
  PROVE  LET n == ExpireBuffers(m, time)
         IN  /\ \A c \in Channels : Known(m, c) =>
                  /\ n.channels[c].bufferedBytes =
                       Minus(m.channels[c].bufferedBytes, Worth(Lost(m, c, time), Sized))
                  /\ n.channels[c].directInflightBytes = m.channels[c].directInflightBytes
             /\ n.totalBufferedBytes = Minus(m.totalBufferedBytes, Lapsed(m, time, Sized))
             /\ n.totalDirectInflightBytes = m.totalDirectInflightBytes
             /\ \A ip \in Ips :
                  n.bufferedBytesByIp[ip] =
                    Minus(m.bufferedBytesByIp[ip], Lapsed(m, time, SizedFrom(ip)))
<1> DEFINE known == {c \in Channels : Known(m, c)}
           lost == [c \in known |-> Expired(m, c, time)]
           n == ExpireBuffers(m, time)
           chs == [c \in Channels |-> IF c \notin known THEN None
                                      ELSE Shed(m.channels[c], lost[c])]
           total == Minus(m.totalBufferedBytes, SumFunction([c \in known |-> Bytes(lost[c])]))
           perIp == [ip \in Ips |->
                      Minus(m.bufferedBytesByIp[ip],
                            SumFunction([c \in known |-> BytesFrom(lost[c], ip)]))]
<1>1. m \in Manager
  BY DEF Sane
<1>2. \A c \in known : lost[c] = Lost(m, c, time) /\ lost[c] \in Seq(Message)
  BY ExpiredType DEF Lost
<1>3. n = [m EXCEPT !.channels = chs, !.totalBufferedBytes = total,
                    !.bufferedBytesByIp = perIp]
  BY DEF ExpireBuffers
<1>4. ASSUME NEW v \in [Message -> Nat], NEW b,
             \A c \in known : b[c] = Worth(lost[c], v)
      PROVE  SumFunction([c \in known |-> b[c]]) = Lapsed(m, time, v)
  <2> DEFINE f == [c \in Channels |-> Worth(Lost(m, c, time), v)]
  <2>1. f \in [Channels -> Nat]
    BY LostWorth
  <2>2. \A c \in Channels \ known : f[c] = 0
    BY EmptyIsWorthless DEF Lost
  <2>3. \A c \in known : f[c] = b[c]
    BY <1>2, <1>4
  <2>4. known \in SUBSET Channels /\ IsFiniteSet(Channels)
    BY ConstantsAssumption
  <2>5. Lapsed(m, time, v) = SumFunction(f)
    BY DEF Lapsed
  <2> HIDE DEF f, known, lost
  <2>6. SumFunction(f) = SumFunction(Restrict(f, known))
    BY <2>1, <2>2, <2>4, SumPart
  <2>7. Restrict(f, known) = [c \in known |-> b[c]]
    BY <2>3 DEF Restrict
  <2> QED
    BY <2>5, <2>6, <2>7
<1>5. SumFunction([c \in known |-> Bytes(lost[c])]) = Lapsed(m, time, Sized)
  <2> DEFINE b == [c \in known |-> Bytes(lost[c])]
  <2>1. \A c \in known : b[c] = Worth(lost[c], Sized)
    BY <1>2, BytesOfQueue
  <2>2. [c \in known |-> b[c]] = b
    OBVIOUS
  <2>3. Sized \in [Message -> Nat]
    BY Values
  <2> HIDE DEF b, known, lost
  <2>4. SumFunction([c \in known |-> b[c]]) = Lapsed(m, time, Sized)
    BY <1>4, <2>1, <2>3
  <2>5. SumFunction(b) = Lapsed(m, time, Sized)
    BY <2>2, <2>4
  <2> QED
    BY <2>5 DEF b
<1>6. ASSUME NEW ip \in Ips
      PROVE  SumFunction([c \in known |-> BytesFrom(lost[c], ip)]) = Lapsed(m, time, SizedFrom(ip))
  <2> DEFINE b == [c \in known |-> BytesFrom(lost[c], ip)]
             v == SizedFrom(ip)
  <2>1. \A c \in known : b[c] = Worth(lost[c], v)
    BY <1>2, BytesOfQueue
  <2>2. [c \in known |-> b[c]] = b
    OBVIOUS
  <2>3. v \in [Message -> Nat]
    BY Values
  <2> HIDE DEF b, known, lost, v
  <2>4. SumFunction([c \in known |-> b[c]]) = Lapsed(m, time, v)
    BY <1>4, <2>1, <2>3
  <2>5. SumFunction(b) = Lapsed(m, time, v)
    BY <2>2, <2>4
  <2> QED
    BY <2>5 DEF b, v
<1>7. \A ip \in Ips : perIp[ip] = Minus(m.bufferedBytesByIp[ip], Lapsed(m, time, SizedFrom(ip)))
  BY <1>6
<1>8. total = Minus(m.totalBufferedBytes, Lapsed(m, time, Sized))
  BY <1>5
<1> HIDE DEF total, perIp
<1>9. /\ n.channels = chs /\ n.totalBufferedBytes = total /\ n.bufferedBytesByIp = perIp
      /\ n.totalDirectInflightBytes = m.totalDirectInflightBytes
  <2> HIDE DEF chs
  <2> QED
    BY <1>1, <1>3 DEF Manager
<1> HIDE DEF n
<1>10. ASSUME NEW c \in Channels, Known(m, c)
       PROVE  /\ n.channels[c].bufferedBytes =
                   Minus(m.channels[c].bufferedBytes, Worth(Lost(m, c, time), Sized))
              /\ n.channels[c].directInflightBytes = m.channels[c].directInflightBytes
  <2>1. c \in known
    BY <1>10
  <2>2. n.channels[c] = Shed(m.channels[c], lost[c])
    BY <1>9, <2>1
  <2>3. m.channels[c] \in Channel
    BY <1>10, KnownType
  <2>4. Bytes(lost[c]) = Worth(Lost(m, c, time), Sized)
    BY <1>2, <2>1, BytesOfQueue
  <2> HIDE DEF lost, known
  <2> QED
    BY <2>2, <2>3, <2>4 DEF Shed, Channel
<1> QED
  BY <1>7, <1>8, <1>9, <1>10 DEF n

\* Expiring messages lowers the counters and keeps them exact.
LEMMA ExpireIsExact ==
  ASSUME NEW m, Sane(m), NEW time
  PROVE  LET n == ExpireBuffers(m, time)
         IN  (Exact(m) => Exact(n)) /\ Lower(m, n)
<1> DEFINE n == ExpireBuffers(m, time)
<1>1. Sane(n) /\ \A c \in Channels : Known(n, c) <=> Known(m, c)
  BY ExpireBuffersStep DEF Step, SameTombstones
<1>2. n.directDeliveries = m.directDeliveries
  BY ExpireBuffersEffects
<1>3. /\ \A c \in Channels : Known(m, c) =>
           /\ n.channels[c].bufferedBytes =
                Minus(m.channels[c].bufferedBytes, Worth(Lost(m, c, time), Sized))
           /\ n.channels[c].directInflightBytes = m.channels[c].directInflightBytes
      /\ n.totalBufferedBytes = Minus(m.totalBufferedBytes, Lapsed(m, time, Sized))
      /\ n.totalDirectInflightBytes = m.totalDirectInflightBytes
      /\ \A ip \in Ips :
           n.bufferedBytesByIp[ip] = Minus(m.bufferedBytesByIp[ip], Lapsed(m, time, SizedFrom(ip)))
  BY ExpireCounters
<1>4. \A v \in [Message -> Nat] :
        /\ \A c \in Channels : /\ Worth(Lost(m, c, time), v) \in Nat
                               /\ Worth(Pile(m, c), v)
                                    = Worth(Pile(n, c), v) + Worth(Lost(m, c, time), v)
        /\ Lapsed(m, time, v) \in Nat
        /\ Held(m, v) = Held(n, v) + Lapsed(m, time, v)
  BY LostWorth
<1> HIDE DEF n
<1>5. \A v \in [Message -> Nat] :
        Held(n, v) \in Nat /\ \A c \in Channels : Worth(Pile(n, c), v) \in Nat
  BY <1>1, Worths
<1>6. Sized \in [Message -> Nat] /\ \A ip : SizedFrom(ip) \in [Message -> Nat]
  BY Values
<1>7. \A w : Flying(n, w) = Flying(m, w)
  BY <1>2 DEF Flying
<1>8. \A a, b \in Nat : Minus(a, b) \in Nat /\ Minus(a, b) <= a
  BY MinusFacts
<1>9. ASSUME Exact(m) PROVE Exact(n)
  <2>1. ASSUME NEW c \in Channels, Known(n, c) PROVE ExactAt(n, c)
    <3> DEFINE a == m.channels[c].bufferedBytes
               b == n.channels[c].bufferedBytes
               y == Worth(Pile(n, c), Sized)
               k == Worth(Lost(m, c, time), Sized)
    <3>1. Known(m, c) /\ ExactAt(m, c)
      BY <1>1, <1>9, <2>1 DEF Exact
    <3>2. a = y + k /\ b = Minus(a, k) /\ a \in Nat /\ y \in Nat /\ k \in Nat
      <4>1. a = Worth(Pile(m, c), Sized)
        BY <3>1 DEF ExactAt, Pile
      <4>2. a \in Nat
        BY <3>1, Counters
      <4> QED
        BY <1>3, <1>4, <1>5, <1>6, <3>1, <4>1, <4>2
    <3>3. Pile(n, c) = n.channels[c].messageBuffer
      BY <2>1 DEF Pile
    <3> HIDE DEF a, b, y, k
    <3>4. b = y
      BY <3>2 DEF Minus
    <3>5. n.channels[c].directInflightBytes = Flying(n, LoadOn(c))
      BY <1>3, <1>7, <3>1 DEF ExactAt
    <3> QED
      BY <3>3, <3>4, <3>5 DEF ExactAt, b, y
  <2>2. n.totalBufferedBytes = Held(n, Sized)
    <3> DEFINE a == m.totalBufferedBytes
               b == n.totalBufferedBytes
               y == Held(n, Sized)
               k == Lapsed(m, time, Sized)
    <3>1. a = y + k /\ b = Minus(a, k) /\ a \in Nat /\ y \in Nat /\ k \in Nat
      BY <1>3, <1>4, <1>5, <1>6, <1>9, Counters DEF Exact
    <3> HIDE DEF a, b, y, k
    <3>2. b = y
      BY <3>1 DEF Minus
    <3> QED
      BY <3>2 DEF b, y
  <2>3. ASSUME NEW ip \in Ips
        PROVE  n.bufferedBytesByIp[ip] = Flying(n, LoadFrom(ip)) + Held(n, SizedFrom(ip))
    <3> DEFINE a == m.bufferedBytesByIp[ip]
               b == n.bufferedBytesByIp[ip]
               y == Held(n, SizedFrom(ip))
               k == Lapsed(m, time, SizedFrom(ip))
               z == Flying(m, LoadFrom(ip))
               x == Held(m, SizedFrom(ip))
    <3>1. x = y + k /\ b = Minus(a, k) /\ y \in Nat /\ k \in Nat
      BY <1>3, <1>4, <1>5, <1>6
    <3>2. a = z + x
      BY <1>9 DEF Exact
    <3>3. a \in Nat /\ z \in Nat
      BY Counters, Loads, Values
    <3>4. Flying(n, LoadFrom(ip)) = z
      BY <1>7
    <3> HIDE DEF a, b, y, k, z, x
    <3>5. a = z + (y + k)
      BY <3>1, <3>2
    <3>6. b = z + y
      BY <3>1, <3>3, <3>5 DEF Minus
    <3> QED
      BY <3>4, <3>6 DEF b, y, z
  <2> QED
    BY <1>3, <1>7, <1>9, <2>1, <2>2, <2>3 DEF Exact
<1>10. Lower(m, n)
  <2>1. ASSUME NEW c \in Channels, Known(n, c)
        PROVE  /\ Known(m, c)
               /\ n.channels[c].bufferedBytes + n.channels[c].directInflightBytes
                    <= m.channels[c].bufferedBytes + m.channels[c].directInflightBytes
    <3> DEFINE a == m.channels[c].bufferedBytes
               b == n.channels[c].bufferedBytes
               k == Worth(Lost(m, c, time), Sized)
               i == m.channels[c].directInflightBytes
    <3>1. Known(m, c)
      BY <1>1, <2>1
    <3>2. b = Minus(a, k) /\ a \in Nat /\ k \in Nat /\ i \in Nat
          /\ n.channels[c].directInflightBytes = i
      BY <1>3, <1>4, <1>6, <3>1, Counters
    <3> HIDE DEF a, b, k, i
    <3>3. b \in Nat /\ b <= a
      BY <1>8, <3>2
    <3>4. b + i <= a + i
      BY <3>2, <3>3
    <3> QED
      BY <3>1, <3>2, <3>4 DEF a, b, i
  <2>2. ASSUME NEW ip \in Ips PROVE n.bufferedBytesByIp[ip] <= m.bufferedBytesByIp[ip]
    BY <1>3, <1>4, <1>6, <1>8, Counters
  <2>3. n.totalBufferedBytes + n.totalDirectInflightBytes
          <= m.totalBufferedBytes + m.totalDirectInflightBytes
    <3>1. n.totalBufferedBytes <= m.totalBufferedBytes
      BY <1>3, <1>4, <1>6, <1>8, Counters
    <3>2. n.totalBufferedBytes \in Nat /\ m.totalBufferedBytes \in Nat
          /\ m.totalDirectInflightBytes \in Nat
      BY <1>1, Counters
    <3> QED
      BY <1>3, <3>1, <3>2
  <2> QED
    BY <2>1, <2>2, <2>3 DEF Lower
<1> QED
  BY <1>9, <1>10 DEF n
\* A cleanup deletes only channels it leaves no message in: tombstones hold none, and
\* the messages of a channel idle for longer than CHANNEL_TTL_MS have all expired.
LEMMA ReapedAreEmpty ==
  ASSUME NEW m, Sane(m), NEW time \in Nat, Aged(m, time), HollowTombs(m),
         NEW c \in Reaped(m, time)
  PROVE  Pile(ExpireBuffers(m, time), c) = << >>
<1> DEFINE n == ExpireBuffers(m, time)
           q == m.channels[c].messageBuffer
           K == {x \in Range(q) : time - x.timestamp >= BufferTTL}
           L == Range(q) \ Range(Expired(m, c, time))
<1>1. c \in Channels /\ Known(m, c)
  BY DEF Reaped, Tombstone, Live
<1>2. q \in Seq(Message) /\ m.channels[c].lastActivity \in Nat
      /\ \A x \in Range(q) : x.timestamp \in Nat
  BY <1>1, BufferTypes
<1>3. Known(n, c) /\ n.channels[c].messageBuffer = Keep(q, L)
  BY <1>1, ExpireBuffersStep, ExpireBuffersEffects DEF Step, SameTombstones
<1>4. Expired(m, c, time) = Keep(q, K)
  BY DEF Expired
<1>5. \A x \in Range(q) : x \in K
  <2>1. CASE Tombstone(m, c)
    BY <1>1, <2>1 DEF HollowTombs, Range
  <2>2. CASE ~ Tombstone(m, c)
    <3>1. time - m.channels[c].lastActivity > ChannelTTL
      BY <2>2 DEF Reaped
    <3>2. \A x \in Range(q) : x.timestamp <= m.channels[c].lastActivity
      BY <1>1 DEF Aged
    <3>3. BufferTTL < ChannelTTL /\ BufferTTL \in Nat /\ ChannelTTL \in Nat
      BY ConstantsAssumption
    <3>4. ASSUME NEW x \in Range(q) PROVE time - x.timestamp >= BufferTTL
      BY <1>2, <3>1, <3>2, <3>3
    <3> QED
      BY <3>4
  <2> QED
    BY <2>1, <2>2
<1> HIDE DEF q, K, L
<1>6. Range(Keep(q, K)) = Range(q) \cap K
  BY <1>2, KeepFacts
<1>7. Range(q) \cap L = {}
  BY <1>4, <1>5, <1>6 DEF L, q
<1>8. Keep(q, L) \in Seq(Message) /\ Range(Keep(q, L)) = {}
  BY <1>2, <1>7, KeepFacts
<1>9. Keep(q, L) = << >>
  <2> DEFINE p == Keep(q, L)
  <2>1. p \in Seq(Message) /\ Range(p) = {}
    BY <1>8
  <2> HIDE DEF p
  <2>2. DOMAIN p = {}
    BY <2>1 DEF Range
  <2>3. p = << >>
    BY <2>1, <2>2
  <2> QED
    BY <2>3 DEF p
<1> QED
  BY <1>1, <1>3, <1>9 DEF Pile, n

\* A whole cleanup keeps the counters exact and within the budgets.
LEMMA CleanupIsExact ==
  ASSUME NEW m, Sane(m), NEW time \in Nat, Aged(m, time), HollowTombs(m),
         Exact(m), Within(m)
  PROVE  LET n == Cleanup(m, time)
         IN  Exact(n) /\ Within(n)
<1> DEFINE n == Cleanup(m, time)
           expired == ExpireBuffers(m, time)
           gone == Reaped(m, time)
           kept == Forget(expired, gone)
           order == Keep(kept.terminatedOrder, {c \in Channels : Known(kept, c)})
<1>1. Sane(expired) /\ Exact(expired) /\ Lower(m, expired)
  BY ExpireBuffersStep, ExpireIsExact DEF Step
<1>2. gone \in SUBSET Channels
  BY DEF Reaped
<1>3. \A c \in gone : Pile(expired, c) = << >>
  BY ReapedAreEmpty
<1>4. n = [kept EXCEPT !.terminatedOrder = order]
  BY DEF Cleanup
<1> HIDE DEF expired, gone, n, order
<1>5. Sane(kept) /\ Exact(kept) /\ Lower(expired, kept)
  BY <1>1, <1>2, <1>3, ForgetFacts, ForgetIsExact
<1>6. Sane(n)
  BY CleanupFacts DEF n
<1> HIDE DEF kept
<1>7. /\ n.channels = kept.channels /\ n.directDeliveries = kept.directDeliveries
      /\ n.totalBufferedBytes = kept.totalBufferedBytes
      /\ n.totalDirectInflightBytes = kept.totalDirectInflightBytes
      /\ n.bufferedBytesByIp = kept.bufferedBytesByIp
  BY <1>4, <1>5 DEF Sane, Manager
<1>8. Uncounted(kept, n)
  BY <1>7 DEF Uncounted, SameCounters, SamePiles, Pile, Known
<1>9. Exact(n) /\ Lower(kept, n)
  BY <1>5, <1>8, UncountedIsExact
<1>10. Within(expired)
  BY <1>1, LowerIsWithin
<1>11. Within(kept)
  BY <1>1, <1>5, <1>10, LowerIsWithin
<1>12. Within(n)
  BY <1>5, <1>6, <1>9, <1>11, LowerIsWithin
<1> QED
  BY <1>9, <1>12 DEF n

-----------------------------------------------------------------------------
(* Messages are taken out of one buffer *)

\* The channel ch is m's channel c without the messages of p.
Without(m, c, ch, p) ==
  /\ ch \in Channel
  /\ ch.bufferedBytes = m.channels[c].bufferedBytes
  /\ ch.directInflightBytes = m.channels[c].directInflightBytes
  /\ \A v \in [Message -> Nat] :
       Worth(m.channels[c].messageBuffer, v) = Worth(ch.messageBuffer, v) + Worth(p, v)

\* n is m once such a channel has been written and the bytes of p released.
TakesOut(m, n, c, ch, p) ==
  Without(m, c, ch, p) /\ n = ReleaseBuffered([m EXCEPT !.channels[c] = ch], c, p)

\* Reservations and their counters are the same.
SameInflight(m, n) ==
  /\ n.directDeliveries = m.directDeliveries
  /\ \A d \in Channels : Known(n, d) <=> Known(m, d)
  /\ n.totalDirectInflightBytes = m.totalDirectInflightBytes
  /\ \A d \in Channels : Known(m, d) =>
       n.channels[d].directInflightBytes = m.channels[d].directInflightBytes

\* Writing such a channel and releasing the bytes of p keeps the counters exact.
LEMMA TakeOutIsExact ==
  ASSUME NEW m, Sane(m), NEW c \in Channels, Known(m, c), NEW ch,
         NEW p \in Seq(Message), NEW n, TakesOut(m, n, c, ch, p)
  PROVE  /\ Sane(n) /\ Lower(m, n) /\ SameInflight(m, n)
         /\ Pile(n, c) = ch.messageBuffer
         /\ \A d \in Channels \ {c} : Pile(n, d) = Pile(m, d)
         /\ Exact(m) => Exact(n) /\ Debited(m, n, c, p)
<1> DEFINE w == [m EXCEPT !.channels[c] = ch]
<1>0. Without(m, c, ch, p) /\ n = ReleaseBuffered(w, c, p)
  BY DEF TakesOut
<1>1. m \in Manager /\ Linked(m) /\ ch \in Channel
  BY <1>0 DEF Sane, Without
<1>2. /\ w \in Manager /\ Writes(m, w, c, ch)
      /\ w.directDeliveries = m.directDeliveries
      /\ w.totalBufferedBytes = m.totalBufferedBytes
      /\ w.totalDirectInflightBytes = m.totalDirectInflightBytes
      /\ w.bufferedBytesByIp = m.bufferedBytesByIp
  BY <1>1 DEF Manager, Writes
<1> HIDE DEF w
<1>3. /\ w.channels[c] = ch
      /\ \A d \in Channels \ {c} : w.channels[d] = m.channels[d]
      /\ \A d \in Channels : Known(w, d) <=> Known(m, d)
  BY <1>1, <1>2, WriteFacts
<1>4. Sane(w) /\ Known(w, c)
  BY <1>1, <1>2, <1>3 DEF Sane, Linked, Manager, Reservation
<1>5. /\ Sane(n) /\ BytesOnly(w, n) /\ n.directDeliveries = w.directDeliveries
      /\ Released(w, n, c, p)
  BY <1>0, <1>4, ReleaseBufferedStep, ReleaseBufferedEffects, ReleaseBufferedCounters DEF Step
<1>6. \A d \in Channels : Known(n, d) <=> Known(m, d)
  BY <1>3, <1>5 DEF BytesOnly, SameContent, SameTable
<1>7. Pile(n, c) = ch.messageBuffer
  BY <1>3, <1>4, <1>5, <1>6 DEF BytesOnly, SameContent, SameBuffers, Pile
<1>8. \A d \in Channels \ {c} : Pile(n, d) = Pile(m, d)
  BY <1>3, <1>5, <1>6 DEF BytesOnly, SameContent, SameBuffers, Pile
<1>9. Cashed(m, n, c, p)
  <2>1. Pile(m, c) = m.channels[c].messageBuffer
    BY DEF Pile
  <2> QED
    BY <1>0, <1>2, <1>5, <1>6, <1>7, <1>8, <2>1 DEF Cashed, Without
<1>10. Released(m, n, c, p)
  <2>1. ASSUME NEW d \in Channels, Known(m, d)
        PROVE  /\ w.channels[d].directInflightBytes = m.channels[d].directInflightBytes
               /\ w.channels[d].bufferedBytes = m.channels[d].bufferedBytes
    BY <1>0, <1>3 DEF Without
  <2> QED
    BY <1>2, <1>3, <1>5, <2>1 DEF Released
<1>11. Lower(m, n) /\ (Exact(m) => Exact(n) /\ Debited(m, n, c, p))
  BY <1>5, <1>9, <1>10, CashedIsExact
<1>12. /\ n.totalDirectInflightBytes = m.totalDirectInflightBytes
       /\ \A d \in Channels : Known(m, d) =>
            n.channels[d].directInflightBytes = m.channels[d].directInflightBytes
  BY <1>10 DEF Released
<1> QED
  BY <1>2, <1>5, <1>6, <1>7, <1>8, <1>11, <1>12 DEF SameInflight

\* Admitting a participant releases the bytes of what it is handed.
LEMMA AdmitIsExact ==
  ASSUME NEW m, Sane(m), NEW c \in Channels, Known(m, c), NEW s \in Sockets,
         NEW role \in Roles, NEW key \in Keys \cup {None}, NEW time \in Nat,
         Exact(m), Within(m)
  PROVE  LET n == Admit(m, c, s, role, key, time).mgr
         IN  Exact(n) /\ Within(n)
<1> DEFINE n == Admit(m, c, s, role, key, time).mgr
           q == m.channels[c].messageBuffer
           mine == For(q, role)
           p == Keep(q, mine)
           ch == Seat(m.channels[c], s, role, key, time, mine)
<1>1. m.channels[c] \in Channel /\ q \in Seq(Message)
  BY KnownType, BufferTypes
<1>2. p \in Seq(Message)
  BY <1>1, KeepFacts
<1>3. n = ReleaseBuffered([m EXCEPT !.channels[c] = ch], c, p)
  BY DEF Admit
<1>4. /\ ch.messageBuffer = Keep(q, Range(q) \ mine)
      /\ ch.bufferedBytes = m.channels[c].bufferedBytes
      /\ ch.directInflightBytes = m.channels[c].directInflightBytes
  BY <1>1 DEF Seat, Channel
<1>5. ch \in Channel
  BY <1>1, SeatFacts
<1>6. ASSUME NEW v \in [Message -> Nat]
      PROVE  Worth(q, v) = Worth(ch.messageBuffer, v) + Worth(p, v)
  <2> DEFINE L == Range(q) \ mine
  <2>1. \A x \in Range(q) : (x \in L) <=> (x \notin mine)
    OBVIOUS
  <2> HIDE DEF mine, L, q
  <2>2. Worth(q, v) = Worth(Keep(q, L), v) + Worth(Keep(q, mine), v)
    BY <1>1, <2>1, WorthDivides
  <2> QED
    BY <1>4, <2>2 DEF L
<1> HIDE DEF ch, p, n
<1>7. TakesOut(m, n, c, ch, p)
  BY <1>3, <1>4, <1>5, <1>6 DEF TakesOut, Without
<1>8. Sane(n) /\ Lower(m, n) /\ Exact(n)
  BY <1>2, <1>7, TakeOutIsExact
<1>9. Within(n)
  BY <1>8, LowerIsWithin
<1> QED
  BY <1>8, <1>9 DEF n

\* A message that is in a queue once is all that is kept of it.
LEMMA KeepOne ==
  ASSUME NEW S, NEW q \in Seq(S), IsInjective(q), NEW x \in Range(q)
  PROVE  Keep(q, {x}) = <<x>>
<1> DEFINE p == Keep(q, {x})
<1>1. p \in Seq(S) /\ Range(p) = {x} /\ IsInjective(p)
  BY KeepFacts
<1> HIDE DEF p
<1>2. Len(p) \in Nat /\ DOMAIN p = 1 .. Len(p)
  BY <1>1
<1>3. \A i \in DOMAIN p : p[i] = x
  BY <1>1 DEF Range
<1>4. DOMAIN p # {}
  BY <1>1 DEF Range
<1>5. 1 \in DOMAIN p
  BY <1>2, <1>4
<1>6. Len(p) = 1
  <2>1. ASSUME Len(p) > 1 PROVE FALSE
    <3>1. 2 \in DOMAIN p /\ p[2] = p[1]
      BY <1>2, <1>3, <1>5, <2>1
    <3> QED
      BY <1>1, <1>5, <3>1 DEF IsInjective
  <2> QED
    BY <1>2, <1>5, <2>1
<1>7. p[1] = x
  BY <1>3, <1>5
<1>8. p = <<x>>
  BY <1>1, <1>6, <1>7
<1> QED
  BY <1>8 DEF p

\* No message is twice in a buffer.
Unrepeated(m) == \A c \in Channels : Known(m, c) => IsInjective(m.channels[c].messageBuffer)

\* A drain gives back one reservation; a message it promotes goes from the buffered
\* bytes to the bytes in flight, so no sum of the two grows.
LEMMA AdvanceIsExact ==
  ASSUME NEW m, Sane(m), NEW s \in Sockets, Unrepeated(m), Exact(m), Within(m)
  PROVE  LET n == AdvanceDirectDelivery(m, s).mgr
         IN  Exact(n) /\ Within(n)
<1> DEFINE r == m.directDeliveries[s]
           c == r.channel
           a == AdvanceDirectDelivery(m, s)
           released == ReleaseDirectDelivery(m, s)
           next == First(m.channels[c].messageBuffer, Promotable(m, s))
           rest == Keep(released.channels[c].messageBuffer,
                        Range(released.channels[c].messageBuffer) \ {next})
           ch == [released.channels[c] EXCEPT !.messageBuffer = rest]
           spliced == [released EXCEPT !.channels[c] = ch]
           freed == ReleaseBuffered(spliced, c, <<next>>)
           n == ReserveDirect(freed, s, c, next.sourceIp, next.sizeBytes)
<1>1. /\ Sane(released) /\ BytesOnly(m, released)
      /\ released.directDeliveries = [m.directDeliveries EXCEPT ![s] = None]
      /\ Exact(released) /\ Lower(m, released)
  BY ReleaseDirectDeliveryStep, ReleaseDirectDeliveryEffects, ReleaseIsExact DEF Step
<1>2. Within(released)
  BY <1>1, LowerIsWithin
<1>3. CASE Promotable(m, s) = {}
  <2>1. a.mgr = released
    BY <1>3 DEF AdvanceDirectDelivery
  <2> HIDE DEF released, a
  <2> QED
    BY <1>1, <1>2, <2>1 DEF a
<1>4. CASE Promotable(m, s) # {}
  <2> DEFINE q == m.channels[c].messageBuffer
  <2>1. /\ c \in Channels /\ Known(m, c)
        /\ Promotable(m, s) \subseteq Range(q)
    BY <1>4, PromotableFacts
  <2>2. q \in Seq(Message) /\ IsInjective(q)
    BY <2>1, BufferTypes DEF Unrepeated
  <2>3. next \in Message /\ next \in Range(q)
    BY <1>4, <2>1, <2>2, FirstFacts
  <2>4. a.mgr = n
    BY <1>4 DEF AdvanceDirectDelivery
  <2>5. released.channels[c].messageBuffer = q
    <3> HIDE DEF released, c
    <3> QED
      BY <1>1, <2>1 DEF BytesOnly, SameContent, SameBuffers
  <2>6. rest = Keep(q, Range(q) \ {next})
    BY <2>5
  <2>7. released.directDeliveries[s] = None
    BY <1>1 DEF Sane, Manager
  <2> HIDE DEF released, next, a, rest, r, c
  <2>8. Known(released, c)
    BY <1>1, <2>1 DEF BytesOnly, SameContent, SameTable
  <2>9. released.channels[c] \in Channel
    BY <1>1, <2>1, <2>8, KnownType
  <2>10. rest \in Seq(Message)
    BY <2>2, <2>6, KeepFacts
  <2>11. /\ ch \in Channel /\ ch.messageBuffer = rest
         /\ ch.bufferedBytes = released.channels[c].bufferedBytes
         /\ ch.directInflightBytes = released.channels[c].directInflightBytes
    BY <2>9, <2>10 DEF Channel
  <2> DEFINE p == <<next>>
  <2>12. ASSUME NEW v \in [Message -> Nat] PROVE Worth(q, v) = Worth(rest, v) + Worth(p, v)
    <3> DEFINE K == {next}
               L == Range(q) \ K
    <3>1. \A x \in Range(q) : (x \in L) <=> (x \notin K)
      OBVIOUS
    <3> HIDE DEF K, L, q
    <3>2. Worth(q, v) = Worth(Keep(q, L), v) + Worth(Keep(q, K), v)
      BY <2>2, <3>1, WorthDivides
    <3>3. Keep(q, K) = p
      BY <2>2, <2>3, KeepOne DEF K
    <3> QED
      BY <2>6, <3>2, <3>3 DEF K, L
  <2>13. p \in Seq(Message) /\ next.sourceIp \in Ips /\ next.sizeBytes \in Sizes
         /\ next.sizeBytes \in Nat
    <3>1. p \in Seq(Message)
      BY <2>3
    <3>2. next.sourceIp \in Ips /\ next.sizeBytes \in Sizes
      BY <2>3 DEF Message
    <3> QED
      BY <3>1, <3>2, ConstantsAssumption
  <2>14. /\ Bytes(p) = next.sizeBytes
         /\ \A ip : BytesFrom(p, ip) = IF next.sourceIp = ip THEN next.sizeBytes ELSE 0
    <3>1. Bytes(p) = Worth(p, Sized) /\ \A ip : BytesFrom(p, ip) = Worth(p, SizedFrom(ip))
      BY <2>13, BytesOfQueue
    <3>2. Worth(p, Sized) = Sized[next] /\ \A ip : Worth(p, SizedFrom(ip)) = SizedFrom(ip)[next]
      BY <2>3, Values, WorthOne
    <3>3. Sized[next] = next.sizeBytes
      BY <2>3 DEF Sized
    <3>4. \A ip : SizedFrom(ip)[next] = IF next.sourceIp = ip THEN next.sizeBytes ELSE 0
      BY <2>3 DEF SizedFrom
    <3> QED
      BY <3>1, <3>2, <3>3, <3>4
  <2> HIDE DEF ch, p
  <2>15. freed = ReleaseBuffered([released EXCEPT !.channels[c] = ch], c, p)
    BY DEF p
  <2> HIDE DEF freed
  <2>16. TakesOut(released, freed, c, ch, p)
    BY <2>5, <2>11, <2>12, <2>15 DEF TakesOut, Without
  <2>17. /\ Sane(freed) /\ Exact(freed) /\ Debited(released, freed, c, p)
         /\ freed.directDeliveries = released.directDeliveries
         /\ \A d \in Channels : Known(freed, d) <=> Known(released, d)
         /\ Lower(released, freed)
         /\ freed.totalDirectInflightBytes = released.totalDirectInflightBytes
         /\ \A d \in Channels : Known(released, d) =>
              freed.channels[d].directInflightBytes = released.channels[d].directInflightBytes
    <3>1. Sane(released) /\ Exact(released)
      BY <1>1
    <3>2. c \in Channels /\ Known(released, c)
      BY <2>1, <2>8
    <3>3. p \in Seq(Message)
      BY <2>13
    <3>4. Sane(freed)
      BY <2>16, <3>1, <3>2, <3>3, TakeOutIsExact
    <3>5. Exact(freed) /\ Debited(released, freed, c, p)
      BY <2>16, <3>1, <3>2, <3>3, TakeOutIsExact
    <3>6. Lower(released, freed)
      BY <2>16, <3>1, <3>2, <3>3, TakeOutIsExact
    <3>7. SameInflight(released, freed)
      BY <2>16, <3>1, <3>2, <3>3, TakeOutIsExact
    <3> QED
      BY <3>1, <3>4, <3>5, <3>6, <3>7 DEF SameInflight
  <2>18. Within(freed)
    BY <1>1, <1>2, <2>17, LowerIsWithin
  <2>19. Sane(n) /\ Exact(n)
    BY <2>1, <2>7, <2>8, <2>13, <2>17, ReserveDirectStep, ReserveIsExact DEF Step
  <2>20. /\ \A d \in Channels : Known(n, d) <=> Known(freed, d)
         /\ \A d \in Channels : Known(freed, d) =>
              /\ n.channels[d].bufferedBytes = freed.channels[d].bufferedBytes
              /\ n.channels[d].directInflightBytes =
                   freed.channels[d].directInflightBytes + (IF d = c THEN next.sizeBytes ELSE 0)
         /\ n.totalBufferedBytes = freed.totalBufferedBytes
         /\ n.totalDirectInflightBytes = freed.totalDirectInflightBytes + next.sizeBytes
         /\ \A ip \in Ips :
              n.bufferedBytesByIp[ip] =
                freed.bufferedBytesByIp[ip] + (IF ip = next.sourceIp THEN next.sizeBytes ELSE 0)
    <3>1. Known(freed, c)
      BY <2>1, <2>8, <2>17
    <3>2. \A d \in Channels : Known(n, d) <=> Known(freed, d)
      BY <2>1, <2>13, <2>17, <3>1, ReserveDirectStep DEF Step, SameTombstones
    <3> QED
      BY <2>1, <2>13, <2>17, <3>1, <3>2, ReserveDirectCounters
  <2> HIDE DEF n
  <2>21. Within(n)
    <3>1. ASSUME NEW d \in Channels, Known(n, d)
          PROVE  n.channels[d].bufferedBytes + n.channels[d].directInflightBytes <= BytesPerChannel
      <4>1. Known(freed, d) /\ Known(released, d)
        BY <2>17, <2>20, <3>1
      <4>2. CASE d # c
        <5>1. freed.channels[d].directInflightBytes \in Nat
          BY <2>17, <4>1, Counters
        <5>2. /\ n.channels[d].bufferedBytes = freed.channels[d].bufferedBytes
              /\ n.channels[d].directInflightBytes = freed.channels[d].directInflightBytes
          BY <2>20, <4>1, <4>2, <5>1
        <5> QED
          BY <2>18, <4>1, <5>2 DEF Within
      <4>3. CASE d = c
        <5> DEFINE x == released.channels[c].bufferedBytes
                   y == released.channels[c].directInflightBytes
                   b == freed.channels[c].bufferedBytes
                   k == next.sizeBytes
        <5>1. x + y <= BytesPerChannel
          BY <1>2, <2>1, <2>8 DEF Within
        <5>2. b + k = x /\ x \in Nat /\ y \in Nat /\ b \in Nat
          BY <1>1, <2>1, <2>14, <2>17, <4>1, <4>3, Counters DEF Debited
        <5>3. n.channels[c].bufferedBytes = b /\ n.channels[c].directInflightBytes = y + k
          BY <2>17, <2>20, <4>1, <4>3
        <5> HIDE DEF x, y, b, k
        <5>4. k \in Nat
          BY <2>13 DEF k
        <5>5. b + (y + k) = x + y
          BY <5>2, <5>4
        <5> QED
          BY <4>3, <5>1, <5>3, <5>5
      <4> QED
        BY <4>2, <4>3
    <3>2. ASSUME NEW ip \in Ips PROVE n.bufferedBytesByIp[ip] <= BytesPerIp
      <4>1. /\ freed.bufferedBytesByIp[ip] \in Nat /\ released.bufferedBytesByIp[ip] \in Nat
            /\ freed.bufferedBytesByIp[ip] + BytesFrom(p, ip) = released.bufferedBytesByIp[ip]
        BY <1>1, <2>17, Counters DEF Debited
      <4>2. BytesFrom(p, ip) = IF ip = next.sourceIp THEN next.sizeBytes ELSE 0
        BY <2>14
      <4>3. n.bufferedBytesByIp[ip] = freed.bufferedBytesByIp[ip] + BytesFrom(p, ip)
        BY <2>20, <4>2
      <4> QED
        BY <1>2, <4>1, <4>3 DEF Within
    <3>3. n.totalBufferedBytes + n.totalDirectInflightBytes <= BytesGlobal
      <4> DEFINE x == released.totalBufferedBytes
                 y == released.totalDirectInflightBytes
                 b == freed.totalBufferedBytes
                 k == next.sizeBytes
      <4>1. x + y <= BytesGlobal
        BY <1>2 DEF Within
      <4>2. b + k = x /\ x \in Nat /\ y \in Nat /\ b \in Nat
        BY <1>1, <2>14, <2>17, Counters DEF Debited
      <4>3. n.totalBufferedBytes = b /\ n.totalDirectInflightBytes = y + k
        BY <2>17, <2>20
      <4> HIDE DEF x, y, b, k
      <4>4. k \in Nat
        BY <2>13 DEF k
      <4>5. b + (y + k) = x + y
        BY <4>2, <4>4
      <4> QED
        BY <4>1, <4>3, <4>5
    <3> QED
      BY <3>1, <3>2, <3>3 DEF Within
  <2> QED
    BY <2>4, <2>19, <2>21 DEF a
<1> QED
  BY <1>3, <1>4

-----------------------------------------------------------------------------
(* A message is buffered *)

\* n is f with the message x appended to the buffer of c, and counted.
Queued(f, n, c, x) ==
  /\ SameInflight(f, n)
  /\ Pile(n, c) = Append(Pile(f, c), x)
  /\ \A d \in Channels \ {c} : Pile(n, d) = Pile(f, d)
  /\ \A d \in Channels : Known(f, d) =>
       n.channels[d].bufferedBytes =
         f.channels[d].bufferedBytes + (IF d = c THEN x.sizeBytes ELSE 0)
  /\ n.totalBufferedBytes = f.totalBufferedBytes + x.sizeBytes
  /\ \A a \in Ips :
       n.bufferedBytesByIp[a] =
         f.bufferedBytesByIp[a] + (IF a = x.sourceIp THEN x.sizeBytes ELSE 0)

\* Counting an appended message keeps the counters exact.
LEMMA QueuedIsExact ==
  ASSUME NEW f, Sane(f), NEW n, Sane(n), NEW c \in Channels, Known(f, c),
         NEW x \in Message, Queued(f, n, c, x), Exact(f)
  PROVE  Exact(n)
<1>1. SameInflight(f, n) /\ \A w : Flying(n, w) = Flying(f, w)
  BY DEF Queued, SameInflight, Flying
<1>2. Sized \in [Message -> Nat] /\ \A ip : SizedFrom(ip) \in [Message -> Nat]
  BY Values
<1>3. /\ Sized[x] = x.sizeBytes /\ x.sizeBytes \in Nat
      /\ \A ip : SizedFrom(ip)[x] = IF ip = x.sourceIp THEN x.sizeBytes ELSE 0
  <2>1. x.sizeBytes \in Nat
    BY ConstantsAssumption DEF Message
  <2> QED
    BY <2>1 DEF Sized, SizedFrom
<1>4. ASSUME NEW v \in [Message -> Nat]
      PROVE  /\ Worth(Pile(n, c), v) = Worth(Pile(f, c), v) + v[x]
             /\ Held(n, v) = Held(f, v) + v[x]
  <2> DEFINE a == Worth(Pile(f, c), v)
             b == Worth(Pile(n, c), v)
             y == Held(f, v)
             z == Held(n, v)
             k == v[x]
  <2>1. Pile(f, c) \in Seq(Message) /\ a \in Nat /\ b \in Nat /\ y \in Nat /\ z \in Nat /\ k \in Nat
    BY Worths
  <2>2. b = a + k
    BY <2>1, WorthAppend DEF Queued
  <2>3. y + b = z + a
    <3>1. \A d \in Channels \ {c} : Pile(n, d) = Pile(f, d)
      BY DEF Queued
    <3> QED
      BY <3>1, HeldChange
  <2> HIDE DEF a, b, y, z, k
  <2>4. z = y + k
    BY <2>1, <2>2, <2>3
  <2> QED
    BY <2>2, <2>4 DEF a, b, y, z, k
<1>5. ASSUME NEW d \in Channels, Known(n, d) PROVE ExactAt(n, d)
  <2>1. Known(f, d) /\ ExactAt(f, d)
    BY <1>1, <1>5 DEF SameInflight, Exact
  <2>2. n.channels[d].directInflightBytes = Flying(n, LoadOn(d))
    BY <1>1, <2>1 DEF SameInflight, ExactAt
  <2>3. Pile(f, d) = f.channels[d].messageBuffer /\ Pile(n, d) = n.channels[d].messageBuffer
    BY <1>5, <2>1 DEF Pile
  <2>4. f.channels[d].bufferedBytes \in Nat
    BY <2>1, Counters
  <2>5. CASE d = c
    <3>1. n.channels[d].bufferedBytes = f.channels[d].bufferedBytes + x.sizeBytes
      BY <2>1, <2>5 DEF Queued
    <3>2. f.channels[d].bufferedBytes = Worth(Pile(f, d), Sized)
      BY <2>1, <2>3 DEF ExactAt
    <3>3. Worth(Pile(n, d), Sized) = Worth(Pile(f, d), Sized) + x.sizeBytes
      BY <1>2, <1>3, <1>4, <2>5
    <3> QED
      BY <2>2, <2>3, <3>1, <3>2, <3>3 DEF ExactAt
  <2>6. CASE d # c
    <3>1. n.channels[d].bufferedBytes = f.channels[d].bufferedBytes
      BY <2>1, <2>4, <2>6 DEF Queued
    <3>2. Pile(n, d) = Pile(f, d)
      BY <2>6 DEF Queued
    <3> QED
      BY <2>1, <2>2, <2>3, <3>1, <3>2 DEF ExactAt
  <2> QED
    BY <2>5, <2>6
<1>6. n.totalBufferedBytes = Held(n, Sized)
  BY <1>2, <1>3, <1>4 DEF Queued, Exact
<1>7. n.totalDirectInflightBytes = Flying(n, Load)
  BY <1>1 DEF SameInflight, Exact
<1>8. ASSUME NEW ip \in Ips
      PROVE  n.bufferedBytesByIp[ip] = Flying(n, LoadFrom(ip)) + Held(n, SizedFrom(ip))
  <2> DEFINE a == f.bufferedBytesByIp[ip]
             b == n.bufferedBytesByIp[ip]
             y == Held(f, SizedFrom(ip))
             z == Flying(f, LoadFrom(ip))
             k == SizedFrom(ip)[x]
  <2>1. b = a + k
    BY <1>3 DEF Queued
  <2>2. a = z + y
    BY DEF Exact
  <2>3. Held(n, SizedFrom(ip)) = y + k
    BY <1>2, <1>4
  <2>4. y \in Nat /\ z \in Nat /\ k \in Nat
    BY <1>2, <1>3, Worths, Loads, Values
  <2>5. Flying(n, LoadFrom(ip)) = z
    BY <1>1
  <2> HIDE DEF a, b, y, z, k
  <2>6. b = z + (y + k)
    BY <2>1, <2>2, <2>4
  <2> QED
    BY <2>3, <2>5, <2>6 DEF b
<1> QED
  BY <1>5, <1>6, <1>7, <1>8 DEF Exact

\* n is f with the message x appended and added to the counters.
Enqueues(f, n, c, x) ==
  n = [f EXCEPT !.channels[c] = Enqueue(@, x),
                !.totalBufferedBytes = @ + x.sizeBytes,
                !.bufferedBytesByIp[x.sourceIp] = @ + x.sizeBytes]

\* What bufferMessage does, once the displaced entry is gone, to what is counted.
LEMMA EnqueueCounters ==
  ASSUME NEW f, Sane(f), NEW c \in Channels, Known(f, c), NEW x \in Message, NEW n,
         Enqueues(f, n, c, x)
  PROVE  Queued(f, n, c, x)
<1> DEFINE ch == Enqueue(f.channels[c], x)
           total == f.totalBufferedBytes + x.sizeBytes
           share == f.bufferedBytesByIp[x.sourceIp] + x.sizeBytes
           perIp == [f.bufferedBytesByIp EXCEPT ![x.sourceIp] = share]
<1>1. f \in Manager /\ f.channels[c] \in Channel
  BY KnownType DEF Sane
<1>2. x.sizeBytes \in Nat /\ x.sourceIp \in Ips
  BY ConstantsAssumption DEF Message
<1>3. n = [f EXCEPT !.channels[c] = ch, !.totalBufferedBytes = total,
                    !.bufferedBytesByIp = perIp]
  BY DEF Enqueues
<1>4. /\ ch.messageBuffer = Append(f.channels[c].messageBuffer, x)
      /\ ch.bufferedBytes = f.channels[c].bufferedBytes + x.sizeBytes
      /\ ch.directInflightBytes = f.channels[c].directInflightBytes
  BY <1>1 DEF Enqueue, Channel
<1>5. ch \in Channel
  BY <1>1, EnqueueFacts
<1>6. \A a \in Ips :
        perIp[a] = f.bufferedBytesByIp[a] + (IF a = x.sourceIp THEN x.sizeBytes ELSE 0)
  <2>1. f.bufferedBytesByIp \in [Ips -> Nat]
    BY <1>1 DEF Manager
  <2> QED
    BY <1>2, <2>1
<1> HIDE DEF ch, total, share, perIp
<1>7. /\ n.channels = [f.channels EXCEPT ![c] = ch]
      /\ n.directDeliveries = f.directDeliveries
      /\ n.totalBufferedBytes = total /\ n.bufferedBytesByIp = perIp
      /\ n.totalDirectInflightBytes = f.totalDirectInflightBytes
  BY <1>1, <1>3 DEF Manager
<1>8. /\ n.channels[c] = ch
      /\ \A d \in Channels \ {c} : n.channels[d] = f.channels[d]
      /\ \A d \in Channels : Known(n, d) <=> Known(f, d)
  <2>1. Writes(f, n, c, ch)
    BY <1>7 DEF Writes
  <2> QED
    BY <1>5, <2>1, WriteFacts
<1>9. SameInflight(f, n)
  BY <1>4, <1>7, <1>8 DEF SameInflight
<1>10. Pile(n, c) = Append(Pile(f, c), x) /\ \A d \in Channels \ {c} : Pile(n, d) = Pile(f, d)
  BY <1>4, <1>8 DEF Pile
<1>11. ASSUME NEW d \in Channels, Known(f, d)
       PROVE  n.channels[d].bufferedBytes =
                f.channels[d].bufferedBytes + (IF d = c THEN x.sizeBytes ELSE 0)
  <2>1. f.channels[d].bufferedBytes \in Nat
    BY <1>11, Counters
  <2> QED
    BY <1>4, <1>8, <2>1
<1> QED
  BY <1>6, <1>7, <1>9, <1>10, <1>11 DEF Queued, total

\* The entry that a full buffer gives up is worth what the buffer loses.
LEMMA DisplacedWorth ==
  ASSUME NEW ch \in Channel, NEW v \in [Message -> Nat]
  PROVE  LET q == ch.messageBuffer
             out == Displaced(ch)
         IN  Worth(q, v) = Worth(SubSeq(q, Len(out) + 1, Len(q)), v) + Worth(out, v)
<1> DEFINE q == ch.messageBuffer
           out == Displaced(ch)
           rest == SubSeq(q, Len(out) + 1, Len(q))
<1>1. q \in Seq(Message) /\ Len(q) \in Nat
  <2>1. q \in Seq(Message)
    BY DEF Channel
  <2> QED
    BY <2>1
<1>2. MaxBufferedMessages \in Nat \ {0}
  BY ConstantsAssumption
<1>3. CASE Len(q) >= MaxBufferedMessages
  <2>1. Len(q) > 0
    BY <1>1, <1>2, <1>3
  <2>2. out = <<q[1]>>
    BY <1>1, <1>3, <2>1 DEF Displaced
  <2> HIDE DEF q, out
  <2>3. rest = SubSeq(q, 2, Len(q))
    BY <2>2
  <2>4. q[1] \in Message /\ rest \in Seq(Message) /\ Worth(q, v) = v[q[1]] + Worth(rest, v)
    BY <1>1, <2>1, <2>3, WorthRest
  <2>5. Worth(out, v) = v[q[1]] /\ v[q[1]] \in Nat /\ Worth(rest, v) \in Nat
    BY <2>2, <2>4, WorthOne, WorthType
  <2>6. Worth(q, v) = Worth(rest, v) + Worth(out, v)
    BY <2>4, <2>5
  <2> QED
    BY <2>6 DEF q, out
<1>4. CASE ~ (Len(q) >= MaxBufferedMessages)
  <2>1. out = << >>
    BY <1>4 DEF Displaced
  <2> HIDE DEF q, out
  <2>2. rest = q
    BY <1>1, <2>1
  <2> HIDE DEF rest
  <2>3. Worth(out, v) = 0 /\ Worth(q, v) \in Nat
    BY <1>1, <2>1, EmptyIsWorthless, WorthType
  <2>4. Worth(q, v) = Worth(rest, v) + Worth(out, v)
    BY <2>2, <2>3
  <2> QED
    BY <2>4 DEF q, out, rest
<1> QED
  BY <1>3, <1>4

\* Buffering a message that fits keeps the counters exact and within the budgets.
LEMMA BufferMessageIsExact ==
  ASSUME NEW m, Sane(m), NEW c \in Channels, Known(m, c), NEW data \in Payload,
         NEW ip \in Ips, NEW time \in Nat, FitsBuffer(m, c, ip, data.sizeBytes),
         Exact(m), Within(m)
  PROVE  LET n == BufferMessage(m, c, data, ip, time)
         IN  Sane(n) /\ Exact(n) /\ Within(n)
<1> DEFINE q == m.channels[c].messageBuffer
           out == Displaced(m.channels[c])
           x == MessageOf(data, ip, time)
           rest == SubSeq(q, Len(out) + 1, Len(q))
           ch == [m.channels[c] EXCEPT !.messageBuffer = rest]
           shifted == [m EXCEPT !.channels[c] = ch]
           f == ReleaseBuffered(shifted, c, out)
           size == data.sizeBytes
           n == BufferMessage(m, c, data, ip, time)
<1>1. m \in Manager /\ m.channels[c] \in Channel
  BY KnownType DEF Sane
<1>2. size \in Sizes /\ size \in Nat /\ x \in Message /\ x.sizeBytes = size /\ x.sourceIp = ip
  BY ConstantsAssumption DEF Payload, Message, OtherRole, Roles, MessageOf
<1>3. rest \in Seq(Message) /\ out \in Seq(Message)
  BY <1>1, DisplacedType
<1>4. n = [f EXCEPT !.channels[c] = Enqueue(@, x),
                    !.totalBufferedBytes = @ + size,
                    !.bufferedBytesByIp[ip] = @ + size]
  BY DEF BufferMessage, MessageOf
<1>5. \A v \in [Message -> Nat] : Worth(q, v) = Worth(rest, v) + Worth(out, v)
  BY <1>1, DisplacedWorth
<1>6. Sane(n)
  BY BufferMessageStep DEF Step
<1> HIDE DEF x, rest, size, n
<1>7. /\ ch \in Channel /\ ch.messageBuffer = rest
      /\ ch.bufferedBytes = m.channels[c].bufferedBytes
      /\ ch.directInflightBytes = m.channels[c].directInflightBytes
  BY <1>1, <1>3 DEF Channel
<1> HIDE DEF out, ch
<1>8. f = ReleaseBuffered([m EXCEPT !.channels[c] = ch], c, out)
  OBVIOUS
<1> HIDE DEF f
<1>9. TakesOut(m, f, c, ch, out)
  BY <1>5, <1>7, <1>8 DEF TakesOut, Without
<1>10. Sane(f) /\ Lower(m, f) /\ SameInflight(m, f) /\ Exact(f) /\ Debited(m, f, c, out)
  BY <1>3, <1>9, TakeOutIsExact
<1>11. Known(f, c)
  BY <1>10 DEF SameInflight
<1>12. Enqueues(f, n, c, x)
  BY <1>2, <1>4 DEF Enqueues
<1>13. Queued(f, n, c, x)
  BY <1>2, <1>10, <1>11, <1>12, EnqueueCounters
<1>14. Exact(n)
  BY <1>2, <1>6, <1>10, <1>11, <1>13, QueuedIsExact
<1>15. Within(f)
  BY <1>10, LowerIsWithin
<1>16. Bytes(out) \in Nat /\ \A a : BytesFrom(out, a) \in Nat
  BY <1>3, MessageBytes
<1>17. /\ m.channels[c].bufferedBytes + m.channels[c].directInflightBytes - Bytes(out) + size
            <= BytesPerChannel
       /\ m.bufferedBytesByIp[ip] - BytesFrom(out, ip) + size <= BytesPerIp
       /\ m.totalBufferedBytes + m.totalDirectInflightBytes - Bytes(out) + size <= BytesGlobal
  BY DEF FitsBuffer, size, out
<1>18. ASSUME NEW d \in Channels, Known(n, d)
       PROVE  n.channels[d].bufferedBytes + n.channels[d].directInflightBytes <= BytesPerChannel
  <2>1. Known(f, d) /\ Known(m, d)
    BY <1>10, <1>13, <1>18 DEF Queued, SameInflight
  <2>2. /\ n.channels[d].directInflightBytes = f.channels[d].directInflightBytes
        /\ f.channels[d].directInflightBytes = m.channels[d].directInflightBytes
    BY <1>10, <1>13, <2>1 DEF Queued, SameInflight
  <2>3. f.channels[d].bufferedBytes \in Nat
    BY <1>10, <2>1, Counters
  <2>4. CASE d # c
    <3>1. n.channels[d].bufferedBytes = f.channels[d].bufferedBytes
      BY <1>13, <2>1, <2>3, <2>4 DEF Queued
    <3> QED
      BY <1>15, <2>1, <2>2, <3>1 DEF Within
  <2>5. CASE d = c
    <3> DEFINE a == m.channels[c].bufferedBytes
               i == m.channels[c].directInflightBytes
               b == f.channels[c].bufferedBytes
               k == Bytes(out)
    <3>1. n.channels[c].bufferedBytes = b + size
      BY <1>2, <1>11, <1>13 DEF Queued
    <3>2. b + k = a /\ a \in Nat /\ i \in Nat /\ b \in Nat
      BY <1>10, <2>3, <2>5, Counters DEF Debited
    <3>3. a + i - k + size <= BytesPerChannel
      BY <1>17
    <3> HIDE DEF a, i, b, k
    <3>4. (b + size) + i <= BytesPerChannel
      BY <1>2, <1>16, <3>2, <3>3 DEF k
    <3> QED
      BY <2>2, <2>5, <3>1, <3>4 DEF i
  <2> QED
    BY <2>4, <2>5
<1>19. ASSUME NEW a \in Ips PROVE n.bufferedBytesByIp[a] <= BytesPerIp
  <2>1. /\ m.bufferedBytesByIp[a] \in Nat /\ f.bufferedBytesByIp[a] \in Nat
        /\ f.bufferedBytesByIp[a] + BytesFrom(out, a) = m.bufferedBytesByIp[a]
    BY <1>10, Counters DEF Debited
  <2>2. CASE a # ip
    <3>1. n.bufferedBytesByIp[a] = f.bufferedBytesByIp[a]
      BY <1>2, <1>13, <2>1, <2>2 DEF Queued
    <3> QED
      BY <1>15, <3>1 DEF Within
  <2>3. CASE a = ip
    <3>1. n.bufferedBytesByIp[ip] = f.bufferedBytesByIp[ip] + size
      BY <1>2, <1>13 DEF Queued
    <3>2. BytesPerIp \in Nat
      BY ConstantsAssumption
    <3> QED
      BY <1>2, <1>16, <1>17, <2>1, <2>3, <3>1, <3>2
  <2> QED
    BY <2>2, <2>3
<1>20. n.totalBufferedBytes + n.totalDirectInflightBytes <= BytesGlobal
  <2> DEFINE a == m.totalBufferedBytes
             i == m.totalDirectInflightBytes
             b == f.totalBufferedBytes
             k == Bytes(out)
  <2>1. n.totalBufferedBytes = b + size /\ n.totalDirectInflightBytes = i
    BY <1>2, <1>10, <1>13 DEF Queued, SameInflight
  <2>2. b + k = a /\ a \in Nat /\ i \in Nat /\ b \in Nat
    BY <1>10, Counters DEF Debited
  <2>3. a + i - k + size <= BytesGlobal
    BY <1>17
  <2> HIDE DEF a, i, b, k
  <2>4. (b + size) + i <= BytesGlobal
    BY <1>2, <1>16, <2>2, <2>3 DEF k
  <2> QED
    BY <2>1, <2>4
<1>21. Within(n)
  BY <1>18, <1>19, <1>20 DEF Within
<1> QED
  BY <1>6, <1>14, <1>21 DEF n

\* Sending directly what fits keeps the counters exact and within the budgets.
LEMMA DirectIsExact ==
  ASSUME NEW m, Sane(m), NEW c \in Channels, Known(m, c), NEW target \in Sockets,
         NEW ip \in Ips, NEW size \in Sizes, NEW receptive,
         CanSendDirect(m, c, target, ip, size, receptive), Exact(m), Within(m)
  PROVE  LET n == ReserveDirect(m, target, c, ip, size)
         IN  Sane(n) /\ Exact(n) /\ Within(n)
<1> DEFINE n == ReserveDirect(m, target, c, ip, size)
<1>1. /\ m.directDeliveries[target] = None
      /\ m.channels[c].bufferedBytes + m.channels[c].directInflightBytes + size <= BytesPerChannel
      /\ m.bufferedBytesByIp[ip] + size <= BytesPerIp
      /\ m.totalBufferedBytes + m.totalDirectInflightBytes + size <= BytesGlobal
  BY DEF CanSendDirect
<1>2. Step(m, n) /\ Exact(n)
  BY <1>1, ReserveDirectStep, ReserveIsExact
<1>3. /\ \A d \in Channels : Known(m, d) =>
           /\ n.channels[d].bufferedBytes = m.channels[d].bufferedBytes
           /\ n.channels[d].directInflightBytes =
                m.channels[d].directInflightBytes + (IF d = c THEN size ELSE 0)
      /\ n.totalBufferedBytes = m.totalBufferedBytes
      /\ n.totalDirectInflightBytes = m.totalDirectInflightBytes + size
      /\ \A a \in Ips :
           n.bufferedBytesByIp[a] = m.bufferedBytesByIp[a] + (IF a = ip THEN size ELSE 0)
  BY ReserveDirectCounters
<1> HIDE DEF n
<1>4. size \in Nat
  BY ConstantsAssumption
<1>5. ASSUME NEW d \in Channels, Known(n, d)
      PROVE  n.channels[d].bufferedBytes + n.channels[d].directInflightBytes <= BytesPerChannel
  <2>1. Known(m, d)
    BY <1>2, <1>5 DEF Step, SameTombstones
  <2>2. m.channels[d].bufferedBytes \in Nat /\ m.channels[d].directInflightBytes \in Nat
    BY <2>1, Counters
  <2>3. m.channels[d].bufferedBytes + m.channels[d].directInflightBytes <= BytesPerChannel
    BY <2>1 DEF Within
  <2>4. CASE d = c
    BY <1>1, <1>3, <1>4, <2>1, <2>2, <2>4
  <2>5. CASE d # c
    BY <1>3, <2>1, <2>2, <2>3, <2>5
  <2> QED
    BY <2>4, <2>5
<1>6. ASSUME NEW a \in Ips PROVE n.bufferedBytesByIp[a] <= BytesPerIp
  <2>1. m.bufferedBytesByIp[a] \in Nat /\ m.bufferedBytesByIp[a] <= BytesPerIp
    BY Counters DEF Within
  <2>2. CASE a = ip
    BY <1>1, <1>3, <2>2
  <2>3. CASE a # ip
    BY <1>3, <2>1, <2>3
  <2> QED
    BY <2>2, <2>3
<1>7. n.totalBufferedBytes + n.totalDirectInflightBytes <= BytesGlobal
  <2>1. m.totalBufferedBytes \in Nat /\ m.totalDirectInflightBytes \in Nat
    BY Counters
  <2> QED
    BY <1>1, <1>3, <1>4, <2>1
<1>8. Within(n)
  BY <1>5, <1>6, <1>7 DEF Within
<1> QED
  BY <1>2, <1>8 DEF n, Step

\* What is asked of the budgets does not depend on the time stamp of the channel.
LEMMA TouchedBudgets ==
  ASSUME NEW m, Sane(m), NEW c \in Channels, Known(m, c), NEW time \in Nat
  PROVE  LET t == Touched(m, c, time)
         IN  /\ \A ip, size : FitsBuffer(m, c, ip, size) => FitsBuffer(t, c, ip, size)
             /\ \A target, ip, size, receptive :
                  CanSendDirect(m, c, target, ip, size, receptive)
                    => CanSendDirect(t, c, target, ip, size, receptive)
<1> DEFINE t == Touched(m, c, time)
           ch == [m.channels[c] EXCEPT !.lastActivity = time]
<1>1. m \in Manager /\ m.channels[c] \in Channel
  BY KnownType DEF Sane
<1>2. /\ ch.messageBuffer = m.channels[c].messageBuffer
      /\ ch.bufferedBytes = m.channels[c].bufferedBytes
      /\ ch.directInflightBytes = m.channels[c].directInflightBytes
  BY <1>1 DEF Channel
<1>3. t = [m EXCEPT !.channels[c] = ch]
  BY DEF Touched
<1> HIDE DEF ch
<1>4. /\ t.channels = [m.channels EXCEPT ![c] = ch]
      /\ t.directDeliveries = m.directDeliveries
      /\ t.totalBufferedBytes = m.totalBufferedBytes
      /\ t.totalDirectInflightBytes = m.totalDirectInflightBytes
      /\ t.bufferedBytesByIp = m.bufferedBytesByIp
  BY <1>1, <1>3 DEF Manager
<1> HIDE DEF t
<1>5. t.channels[c] = ch
  BY <1>1, <1>4 DEF Manager
<1>6. Displaced(ch) = Displaced(m.channels[c])
  BY <1>2 DEF Displaced
<1>7. \A ip, size : FitsBuffer(m, c, ip, size) => FitsBuffer(t, c, ip, size)
  BY <1>2, <1>4, <1>5, <1>6 DEF FitsBuffer
<1>8. \A target, ip, size, receptive :
        CanSendDirect(m, c, target, ip, size, receptive)
          => CanSendDirect(t, c, target, ip, size, receptive)
  BY <1>2, <1>4, <1>5 DEF CanSendDirect
<1> QED
  BY <1>7, <1>8 DEF t

\* However a message is routed, the counters stay exact and within the budgets.
LEMMA RouteIsExact ==
  ASSUME NEW m, Sane(m), NEW c \in Channels, NEW s \in Sockets,
         NEW data \in Payload, NEW ip \in Ips, NEW receptive \in SUBSET Sockets,
         NEW time \in Nat, Exact(m), Within(m)
  PROVE  LET n == RouteMessage(m, c, s, data, ip, receptive, time).mgr
         IN  Exact(n) /\ Within(n)
<1> DEFINE result == RouteMessage(m, c, s, data, ip, receptive, time)
           target == Counterparty(m.channels[c], s)
           size == data.sizeBytes
           touched == Touched(m, c, time)
<1>1. \/ result.mgr = m
      \/ /\ ~ Unroutable(m, c, s, data) /\ result.mgr = touched
      \/ /\ ~ Unroutable(m, c, s, data)
         /\ CanSendDirect(m, c, target, ip, size, receptive)
         /\ result.mgr = TakeSeq(ReserveDirect(touched, target, c, ip, size), c, s, data)
      \/ /\ ~ Unroutable(m, c, s, data)
         /\ FitsBuffer(m, c, ip, size)
         /\ result.mgr = TakeSeq(BufferMessage(touched, c, data, ip, time), c, s, data)
  BY RouteKinds
<1> HIDE DEF result, touched, target
<1>2. CASE result.mgr = m
  BY <1>2 DEF result
<1>3. CASE ~ Unroutable(m, c, s, data)
  <2>1. Known(m, c)
    BY <1>3 DEF Unroutable, Live
  <2>2. Sane(touched) /\ Known(touched, c)
    BY <2>1, TouchedEffects DEF Step, touched
  <2>3. Uncounted(m, touched)
    BY <2>1, TouchedIsUncounted DEF touched
  <2>4. Exact(touched) /\ Lower(m, touched)
    BY <2>3, UncountedIsExact
  <2>5. Within(touched)
    BY <2>2, <2>4, LowerIsWithin
  <2>6. ASSUME NEW f, Sane(f), Known(f, c), Exact(f), Within(f)
        PROVE  Exact(TakeSeq(f, c, s, data)) /\ Within(TakeSeq(f, c, s, data))
    <3>1. Uncounted(f, TakeSeq(f, c, s, data)) /\ Sane(TakeSeq(f, c, s, data))
      BY <2>6, TakeSeqIsUncounted, TakeSeqStep DEF Step
    <3>2. Exact(TakeSeq(f, c, s, data)) /\ Lower(f, TakeSeq(f, c, s, data))
      BY <2>6, <3>1, UncountedIsExact
    <3> QED
      BY <2>6, <3>1, <3>2, LowerIsWithin
  <2>7. CASE result.mgr = touched
    BY <2>4, <2>5, <2>7 DEF result
  <2>8. CASE /\ CanSendDirect(m, c, target, ip, size, receptive)
             /\ result.mgr = TakeSeq(ReserveDirect(touched, target, c, ip, size), c, s, data)
    <3> DEFINE f == ReserveDirect(touched, target, c, ip, size)
    <3>1. CanSendDirect(touched, c, target, ip, size, receptive)
      BY <2>1, <2>8, TouchedBudgets DEF touched
    <3>2. target \in Sockets
      BY <2>8 DEF CanSendDirect
    <3>3. size \in Sizes
      BY DEF Payload
    <3>4. Sane(f) /\ Exact(f) /\ Within(f)
      BY <2>2, <2>4, <2>5, <3>1, <3>2, <3>3, DirectIsExact
    <3>5. Known(f, c)
      BY <2>2, <3>2, <3>3, ReserveDirectStep DEF Step, SameTombstones
    <3> HIDE DEF f
    <3>6. Exact(TakeSeq(f, c, s, data)) /\ Within(TakeSeq(f, c, s, data))
      BY <2>6, <3>4, <3>5
    <3> QED
      BY <2>8, <3>6 DEF f, result
  <2>9. CASE /\ FitsBuffer(m, c, ip, size)
             /\ result.mgr = TakeSeq(BufferMessage(touched, c, data, ip, time), c, s, data)
    <3> DEFINE f == BufferMessage(touched, c, data, ip, time)
    <3>1. FitsBuffer(touched, c, ip, size)
      BY <2>1, <2>9, TouchedBudgets DEF touched
    <3>2. Sane(f) /\ Exact(f) /\ Within(f)
      BY <2>2, <2>4, <2>5, <3>1, BufferMessageIsExact
    <3>3. Known(f, c)
      BY <2>2, BufferMessageStep DEF Step, SameTombstones
    <3> HIDE DEF f
    <3>4. Exact(TakeSeq(f, c, s, data)) /\ Within(TakeSeq(f, c, s, data))
      BY <2>6, <3>2, <3>3
    <3> QED
      BY <2>9, <3>4 DEF f, result
  <2> QED
    BY <1>1, <1>2, <1>3, <2>7, <2>8, <2>9
<1> QED
  BY <1>1, <1>2, <1>3

-----------------------------------------------------------------------------
(* Joining *)

\* join opens the channel, removes a stale holder and drains a buffer: each
\* leaves the counters exact and the budgets kept.
LEMMA JoinIsExact ==
  ASSUME NEW m, Sane(m), NEW c \in Channels, NEW s \in Sockets, NEW role \in Roles,
         NEW publicKey \in Keys \cup {None}, NEW ip \in Ips, NEW active \in SUBSET Sockets,
         NEW time \in Nat, Exact(m), Within(m)
  PROVE  LET n == Join(m, c, s, role, publicKey, ip, active, time).mgr
         IN  Exact(n) /\ Within(n)
<1> DEFINE n == Join(m, c, s, role, publicKey, ip, active, time).mgr
           key == BoundKey(role, publicKey)
           o == Opened(m, c, ip, time)
           e == EvictRival(o, c, s, role)
<1>1. \/ n = m
      \/ ~ Tombstone(m, c) /\ n = e
      \/ ~ Tombstone(m, c) /\ n = Admit(e, c, s, role, key, time).mgr
  BY JoinKinds
<1>2. key \in Keys \cup {None}
  BY DEF BoundKey
<1> HIDE DEF n, key
<1>3. CASE n = m
  BY <1>3 DEF n
<1>4. ASSUME ~ Tombstone(m, c)
      PROVE  Sane(e) /\ Known(e, c) /\ Exact(e) /\ Within(e)
  <2>1. Sane(o) /\ Known(o, c)
    BY <1>4, OpenedEffects DEF Live
  <2>2. Exact(o) /\ Within(o)
    BY <1>4, OpenedIsExact
  <2> HIDE DEF o
  <2>3. Exact(e) /\ Within(e)
    BY <2>1, <2>2, EvictIsExact
  <2>4. Sane(e) /\ Known(e, c)
    BY <1>4, ReadyToAdmit DEF o
  <2> QED
    BY <2>3, <2>4
<1> HIDE DEF e
<1>5. CASE ~ Tombstone(m, c) /\ n = e
  BY <1>4, <1>5 DEF n
<1>6. CASE ~ Tombstone(m, c) /\ n = Admit(e, c, s, role, key, time).mgr
  <2>1. Exact(Admit(e, c, s, role, key, time).mgr) /\ Within(Admit(e, c, s, role, key, time).mgr)
    BY <1>2, <1>4, <1>6, AdmitIsExact
  <2> QED
    BY <1>6, <2>1 DEF n
<1> QED
  BY <1>1, <1>3, <1>5, <1>6

\* leave moves no message and no reservation.
LEMMA LeaveIsExact ==
  ASSUME NEW m, Sane(m), NEW c \in Channels, NEW s \in Sockets, NEW time \in Nat,
         Exact(m), Within(m)
  PROVE  LET n == Leave(m, c, s, time)
         IN  Exact(n) /\ Within(n)
<1> DEFINE n == Leave(m, c, s, time)
<1>1. Uncounted(m, n) /\ Sane(n)
  BY LeaveIsUncounted, LeaveStep DEF Step
<1> HIDE DEF n
<1>2. Exact(n) /\ Lower(m, n)
  BY <1>1, UncountedIsExact
<1>3. Within(n)
  BY <1>1, <1>2, LowerIsWithin
<1> QED
  BY <1>2, <1>3 DEF n

\* A dropped reservation gives back what it held.
LEMMA DropIsExact ==
  ASSUME NEW m, Sane(m), NEW s \in Sockets, Exact(m), Within(m)
  PROVE  LET n == ReleaseDirectDelivery(m, s)
         IN  Exact(n) /\ Within(n)
<1> DEFINE n == ReleaseDirectDelivery(m, s)
<1>1. Sane(n) /\ Exact(n) /\ Lower(m, n)
  BY ReleaseIsExact, ReleaseDirectDeliveryStep DEF Step
<1> HIDE DEF n
<1>2. Within(n)
  BY <1>1, LowerIsWithin
<1> QED
  BY <1>1, <1>2 DEF n

-----------------------------------------------------------------------------
(* What the accounts need to know of the buffers: no message is stored twice, *)
(* none that is still to come, and a tombstone stores nothing.                *)

Numbered(m, id) ==
  \A c \in Channels : Known(m, c) => \A x \in Range(m.channels[c].messageBuffer) : x.id < id

Tidy(m, id) == HollowTombs(m) /\ Unrepeated(m) /\ Numbered(m, id)

\* A buffer of n is empty, or that of m with entries taken out.
Loses(m, n) ==
  \A c \in Channels : Known(n, c) =>
    \/ n.channels[c].messageBuffer = << >>
    \/ /\ Known(m, c) /\ n.channels[c].terminated = m.channels[c].terminated
       /\ Range(n.channels[c].messageBuffer) \subseteq Range(m.channels[c].messageBuffer)
       /\ IsInjective(m.channels[c].messageBuffer) => IsInjective(n.channels[c].messageBuffer)

\* A sequence with no entries is the empty one.
LEMMA NoEntries ==
  ASSUME NEW S, NEW q \in Seq(S)
  PROVE  /\ Range(q) = {} => q = << >>
         /\ q = << >> => Range(q) = {} /\ IsInjective(q)
<1>1. Range(q) = {} => q = << >>
  <2>1. 1 \in DOMAIN q => q[1] \in Range(q)
    BY DEF Range
  <2> QED
    BY <2>1
<1>2. q = << >> => Range(q) = {} /\ IsInjective(q)
  BY DEF Range, IsInjective
<1> QED
  BY <1>1, <1>2

\* Operations that only take messages out keep the buffers tidy.
LEMMA LosesTidy ==
  ASSUME NEW m, Sane(m), NEW n, Sane(n), Loses(m, n), NEW id \in Nat, NEW later \in Nat,
         id <= later, Tidy(m, id)
  PROVE  Tidy(n, later)
<1>1. ASSUME NEW c \in Channels, Known(n, c)
      PROVE  /\ Tombstone(n, c) => n.channels[c].messageBuffer = << >>
             /\ IsInjective(n.channels[c].messageBuffer)
             /\ \A x \in Range(n.channels[c].messageBuffer) : x.id < later
  <2> DEFINE q == n.channels[c].messageBuffer
  <2>1. q \in Seq(Message)
    BY <1>1, BufferTypes
  <2>2. CASE q = << >>
    <3>1. Range(q) = {} /\ IsInjective(q)
      BY <2>1, <2>2, NoEntries
    <3> QED
      BY <2>2, <3>1
  <2>3. CASE /\ Known(m, c) /\ n.channels[c].terminated = m.channels[c].terminated
             /\ Range(q) \subseteq Range(m.channels[c].messageBuffer)
             /\ IsInjective(m.channels[c].messageBuffer) => IsInjective(q)
    <3> DEFINE p == m.channels[c].messageBuffer
    <3>1. p \in Seq(Message) /\ \A x \in Range(p) : x \in Message
      BY <2>3, BufferTypes
    <3>2. IsInjective(q)
      BY <2>3 DEF Tidy, Unrepeated
    <3>3. \A x \in Range(q) : x.id \in Nat /\ x.id < id
      BY <2>3, <3>1 DEF Tidy, Numbered, Message
    <3>4. Tombstone(n, c) => p = << >>
      BY <2>3 DEF Tidy, HollowTombs, Tombstone
    <3>5. Tombstone(n, c) => q = << >>
      BY <2>1, <2>3, <3>1, <3>4, NoEntries
    <3>6. \A x \in Range(q) : x.id < later
      BY <3>3
    <3> QED
      BY <3>2, <3>5, <3>6
  <2> QED
    BY <1>1, <2>2, <2>3 DEF Loses
<1>2. HollowTombs(n)
  BY <1>1 DEF HollowTombs, Tombstone
<1>3. Unrepeated(n)
  BY <1>1 DEF Unrepeated
<1>4. Numbered(n, later)
  BY <1>1 DEF Numbered
<1> QED
  BY <1>2, <1>3, <1>4 DEF Tidy

\* Operations that move no message lose none.
LEMMA SameBuffersLoses ==
  ASSUME NEW m, NEW n, SameTable(m, n), SameBuffers(m, n)
  PROVE  Loses(m, n)
BY DEF SameTable, SameBuffers, Loses

-----------------------------------------------------------------------------
(* Each method keeps the buffers tidy *)

\* The filter that keeps all but some entries.
LEMMA KeptIsPart ==
  ASSUME NEW m, Sane(m), NEW c \in Channels, Known(m, c), NEW K
  PROVE  LET p == m.channels[c].messageBuffer
         IN  /\ Range(Keep(p, K)) \subseteq Range(p)
             /\ IsInjective(p) => IsInjective(Keep(p, K))
BY BufferTypes, KeepFacts

\* leave moves no message.
LEMMA LeaveLoses ==
  ASSUME NEW m, Sane(m), NEW c \in Channels, NEW s \in Sockets, NEW time \in Nat
  PROVE  Loses(m, Leave(m, c, s, time))
BY LeaveEffects, SameBuffersLoses

\* Nor does a dropped reservation.
LEMMA DropLoses ==
  ASSUME NEW m, Sane(m), NEW s \in Sockets
  PROVE  Loses(m, ReleaseDirectDelivery(m, s))
BY ReleaseDirectDeliveryEffects, SameBuffersLoses DEF BytesOnly, SameContent

\* A drain takes the message it promotes out of its buffer.
LEMMA AdvanceLoses ==
  ASSUME NEW m, Sane(m), NEW s \in Sockets
  PROVE  Loses(m, AdvanceDirectDelivery(m, s).mgr)
<1> DEFINE a == AdvanceDirectDelivery(m, s)
           n == a.mgr
           c == m.directDeliveries[s].channel
           K == Range(m.channels[c].messageBuffer) \ {a.next}
<1>1. /\ SameTable(m, n)
      /\ a.next = None => SameBuffers(m, n)
      /\ a.next # None =>
           /\ c \in Channels /\ Known(m, c)
           /\ n.channels[c].messageBuffer = Keep(m.channels[c].messageBuffer, K)
           /\ \A d \in Channels \ {c} : Known(m, d) =>
                n.channels[d].messageBuffer = m.channels[d].messageBuffer
  BY AdvanceDirectDeliveryEffects
<1> HIDE DEF a, K
<1>2. a.next = None => Loses(m, n)
  BY <1>1, SameBuffersLoses
<1>3. ASSUME a.next # None
      PROVE  Loses(m, n)
  <2>1. /\ Range(n.channels[c].messageBuffer) \subseteq Range(m.channels[c].messageBuffer)
        /\ IsInjective(m.channels[c].messageBuffer) => IsInjective(n.channels[c].messageBuffer)
    BY <1>1, <1>3, KeptIsPart
  <2> HIDE DEF n, c
  <2>2. Loses(m, n)
    BY <1>1, <1>3, <2>1 DEF SameTable, Loses
  <2> QED
    BY <2>2 DEF n
<1>4. Loses(m, n)
  BY <1>2, <1>3
<1> QED
  BY <1>4 DEF a

\* close empties the buffer of the tombstone it leaves.
LEMMA CloseLoses ==
  ASSUME NEW m, Sane(m), NEW c \in Channels, Live(m, c), NEW time \in Nat
  PROVE  Loses(m, Close(m, c, time))
<1> DEFINE n == Close(m, c, time)
<1>1. /\ \A d \in Channels \ {c} : Known(n, d) => n.channels[d] = m.channels[d]
      /\ Known(n, c) => n.channels[c].messageBuffer = << >>
  BY CloseEffects
<1>2. \A d \in Channels : Known(n, d) /\ n.channels[d] = m.channels[d] => Known(m, d)
  BY DEF Known
<1> HIDE DEF n
<1>3. Loses(m, n)
  BY <1>1, <1>2 DEF Loses
<1> QED
  BY <1>3 DEF n

\* A cleanup takes the expired messages out.
LEMMA CleanupLoses ==
  ASSUME NEW m, Sane(m), NEW time
  PROVE  Loses(m, Cleanup(m, time))
<1> DEFINE n == Cleanup(m, time)
<1>0. CleanedUp(m, n, time)
  BY CleanupEffects
<1> HIDE DEF n
<1>1. ASSUME NEW c \in Channels, Known(n, c)
      PROVE  /\ Known(m, c) /\ n.channels[c].terminated = m.channels[c].terminated
             /\ Range(n.channels[c].messageBuffer) \subseteq Range(m.channels[c].messageBuffer)
             /\ IsInjective(m.channels[c].messageBuffer)
                  => IsInjective(n.channels[c].messageBuffer)
  <2> DEFINE K == Range(m.channels[c].messageBuffer) \ Range(Expired(m, c, time))
  <2>1. /\ Known(m, c) /\ n.channels[c].terminated = m.channels[c].terminated
        /\ n.channels[c].messageBuffer = Keep(m.channels[c].messageBuffer, K)
    BY <1>0, <1>1 DEF CleanedUp
  <2> HIDE DEF K
  <2> QED
    BY <2>1, KeptIsPart
<1>2. Loses(m, n)
  BY <1>1 DEF Loses
<1> QED
  BY <1>2 DEF n

\* A join takes the messages it drains out of the buffer.
LEMMA JoinLoses ==
  ASSUME NEW m, Sane(m), NEW c \in Channels, NEW s \in Sockets, NEW role \in Roles,
         NEW publicKey \in Keys \cup {None}, NEW ip \in Ips, NEW active \in SUBSET Sockets,
         NEW time \in Nat
  PROVE  Loses(m, Join(m, c, s, role, publicKey, ip, active, time).mgr)
<1> DEFINE n == Join(m, c, s, role, publicKey, ip, active, time).mgr
           key == BoundKey(role, publicKey)
           e == EvictRival(Opened(m, c, ip, time), c, s, role)
           a == Admit(e, c, s, role, key, time).mgr
<1>1. \/ n = m
      \/ ~ Tombstone(m, c) /\ n = e
      \/ ~ Tombstone(m, c) /\ n = a
  BY JoinKinds
<1>2. key \in Keys \cup {None}
  BY DEF BoundKey
<1> HIDE DEF n, key
<1>3. CASE n = m
  <2>1. Loses(m, m)
    BY DEF Loses
  <2> QED
    BY <1>3, <2>1 DEF n
<1>4. ASSUME ~ Tombstone(m, c)
      PROVE  /\ Sane(e) /\ Known(e, c)
             /\ \A d \in Channels : Known(e, d) =>
                  \/ e.channels[d].messageBuffer = << >>
                  \/ /\ Known(m, d) /\ e.channels[d].terminated = m.channels[d].terminated
                     /\ e.channels[d].messageBuffer = m.channels[d].messageBuffer
  <2>1. /\ Sane(e) /\ Known(e, c)
        /\ \A d \in Channels : Known(e, d) => Known(m, d) \/ d = c
        /\ \A d \in Channels : Known(m, d) =>
             /\ e.channels[d].terminated = m.channels[d].terminated
             /\ e.channels[d].messageBuffer = m.channels[d].messageBuffer
        /\ ~ Known(m, c) => e.channels[c].messageBuffer = << >>
    BY <1>4, ReadyToAdmit
  <2> HIDE DEF e
  <2> QED
    BY <2>1
<1> HIDE DEF e
<1>5. CASE ~ Tombstone(m, c) /\ n = e
  <2>1. Loses(m, e)
    BY <1>4, <1>5 DEF Loses
  <2> QED
    BY <1>5, <2>1 DEF n
<1>6. CASE ~ Tombstone(m, c) /\ n = a
  <2> DEFINE K == Range(e.channels[c].messageBuffer) \ For(e.channels[c].messageBuffer, role)
  <2>1. Admitted(e, a, c, s, role, time)
    BY <1>2, <1>4, <1>6, AdmitEffects
  <2>2. /\ SameTable(e, a)
        /\ a.channels[c].messageBuffer = Keep(e.channels[c].messageBuffer, K)
        /\ \A d \in Channels \ {c} : Known(e, d) =>
             a.channels[d].messageBuffer = e.channels[d].messageBuffer
    BY <2>1 DEF Admitted
  <2> HIDE DEF K, a
  <2>3. /\ Range(a.channels[c].messageBuffer) \subseteq Range(e.channels[c].messageBuffer)
        /\ IsInjective(e.channels[c].messageBuffer) => IsInjective(a.channels[c].messageBuffer)
    <3>1. LET p == e.channels[c].messageBuffer
          IN  /\ Range(Keep(p, K)) \subseteq Range(p)
              /\ IsInjective(p) => IsInjective(Keep(p, K))
      BY <1>4, <1>6, KeptIsPart
    <3> QED
      BY <2>2, <3>1
  <2>4. a.channels[c].messageBuffer = << >> \/ e.channels[c].messageBuffer # << >>
    <3>1. e.channels[c].messageBuffer \in Seq(Message)
      BY <1>4, <1>6, BufferTypes
    <3>2. Keep(e.channels[c].messageBuffer, K) \in Seq(Message)
      BY <3>1, KeepFacts
    <3> QED
      BY <2>2, <2>3, <3>1, <3>2, NoEntries
  <2>5. Loses(m, a)
    BY <1>4, <1>6, <2>2, <2>3, <2>4 DEF Loses, SameTable
  <2> QED
    BY <1>6, <2>5 DEF n
<1> QED
  BY <1>1, <1>3, <1>5, <1>6

\* Behind what is left of a buffer, a message whose id is above all others
\* repeats none of them.
LEMMA PushedTidy ==
  ASSUME NEW ch \in Channel, NEW x \in Message, IsInjective(ch.messageBuffer),
         \A y \in Range(ch.messageBuffer) : y.id < x.id
  PROVE  LET p == Pushed(ch, x)
         IN  /\ IsInjective(p)
             /\ Range(p) \subseteq Range(ch.messageBuffer) \cup {x}
<1> DEFINE q == ch.messageBuffer
           k == Len(Displaced(ch))
           r == SubSeq(q, k + 1, Len(q))
<1>1. q \in Seq(Message) /\ r \in Seq(Message) /\ Displaced(ch) \in Seq(Message)
  BY DisplacedType DEF Channel
<1>2. k \in Nat
  BY <1>1
<1> HIDE DEF q, k
<1>3. \A i \in DOMAIN r : i + k \in DOMAIN q /\ r[i] = q[i + k]
  BY <1>1, <1>2
<1>4. Range(r) \subseteq Range(q)
  BY <1>3 DEF Range
<1>5. IsInjective(r)
  <2> SUFFICES ASSUME NEW i \in DOMAIN r, NEW j \in DOMAIN r, r[i] = r[j] PROVE i = j
    BY DEF IsInjective
  <2>1. i + k \in DOMAIN q /\ j + k \in DOMAIN q /\ q[i + k] = q[j + k]
    BY <1>3
  <2>2. i + k = j + k
    BY <2>1 DEF IsInjective, q
  <2>3. i \in Nat /\ j \in Nat
    BY <1>1
  <2> QED
    BY <1>2, <2>2, <2>3
<1>6. x \notin Range(r)
  <2>1. x.id \in Nat
    BY DEF Message
  <2> QED
    BY <1>4, <2>1 DEF q
<1> HIDE DEF r
<1>7. IsInjective(Append(r, x)) /\ Range(Append(r, x)) = Range(r) \cup {x}
  BY <1>1, <1>5, <1>6, AppendKeepsInjective
<1>8. Pushed(ch, x) = Append(r, x)
  BY DEF Pushed, r, k, q
<1> QED
  BY <1>4, <1>7, <1>8 DEF q

\* routeMessage stores at most the message that came, whose id is the next.
LEMMA RouteTidy ==
  ASSUME NEW m, Sane(m), NEW c \in Channels, NEW s \in Sockets,
         NEW data \in Payload, NEW ip \in Ips, NEW receptive \in SUBSET Sockets,
         NEW time \in Nat, NEW later \in Nat, data.id <= later,
         RouteMessage(m, c, s, data, ip, receptive, time).status # "error" => data.id < later,
         Tidy(m, data.id)
  PROVE  Tidy(RouteMessage(m, c, s, data, ip, receptive, time).mgr, later)
<1> DEFINE result == RouteMessage(m, c, s, data, ip, receptive, time)
           n == result.mgr
           target == Counterparty(m.channels[c], s)
           size == data.sizeBytes
           touched == Touched(m, c, time)
           direct == TakeSeq(ReserveDirect(touched, target, c, ip, size), c, s, data)
           buffered == TakeSeq(BufferMessage(touched, c, data, ip, time), c, s, data)
           x == MessageOf(data, ip, time)
<1>1. \/ n = m
      \/ ~ Unroutable(m, c, s, data) /\ n = touched
      \/ /\ ~ Unroutable(m, c, s, data) /\ n = direct
         /\ CanSendDirect(m, c, target, ip, size, receptive)
      \/ ~ Unroutable(m, c, s, data) /\ n = buffered /\ result.status = "buffered"
  BY RouteKinds
<1>2. Sane(n) /\ data.id \in Nat
  BY RouteMessageStep DEF Step, Payload
<1>3. ~ Unroutable(m, c, s, data) => Live(m, c) /\ Known(m, c)
  BY DEF Unroutable, Live
<1>4. ASSUME Loses(m, n) PROVE Tidy(n, later)
  <2> HIDE DEF n
  <2> QED
    BY <1>2, <1>4, LosesTidy
<1>5. CASE n = m
  <2>1. Loses(m, m)
    BY DEF Loses
  <2> QED
    BY <1>4, <1>5, <2>1
<1>6. CASE ~ Unroutable(m, c, s, data) /\ n = touched
  <2>1. SameContent(m, touched)
    BY <1>3, <1>6, TouchedEffects
  <2>2. Loses(m, touched)
    BY <2>1, SameBuffersLoses DEF SameContent
  <2> QED
    BY <1>4, <1>6, <2>2
<1>7. CASE /\ ~ Unroutable(m, c, s, data) /\ n = direct
           /\ CanSendDirect(m, c, target, ip, size, receptive)
  <2>1. target \in Sockets
    BY <1>7 DEF CanSendDirect
  <2>2. SameTable(m, direct) /\ SameBuffers(m, direct)
    BY <1>3, <1>7, <2>1, DirectEffects
  <2>3. Loses(m, direct)
    BY <2>2, SameBuffersLoses
  <2> QED
    BY <1>4, <1>7, <2>3
<1>8. CASE ~ Unroutable(m, c, s, data) /\ n = buffered /\ result.status = "buffered"
  <2>1. /\ SameTable(m, buffered) /\ x \in Message
        /\ buffered.channels[c].messageBuffer = Pushed(m.channels[c], x)
        /\ \A d \in Channels \ {c} : Known(m, d) =>
             buffered.channels[d].messageBuffer = m.channels[d].messageBuffer
    BY <1>3, <1>8, BufferedEffects
  <2>2. x.id = data.id
    BY DEF MessageOf
  <2>3. data.id < later
    BY <1>8
  <2> HIDE DEF x, buffered
  <2>4. /\ m.channels[c] \in Channel
        /\ IsInjective(m.channels[c].messageBuffer)
        /\ \A y \in Range(m.channels[c].messageBuffer) : y.id < x.id
    BY <1>3, <1>8, <2>2, KnownType DEF Tidy, Unrepeated, Numbered
  <2>5. /\ IsInjective(buffered.channels[c].messageBuffer)
        /\ Range(buffered.channels[c].messageBuffer) \subseteq Range(m.channels[c].messageBuffer) \cup {x}
    BY <2>1, <2>4, PushedTidy
  <2>6. HollowTombs(buffered)
    BY <1>3, <1>8, <2>1 DEF Tidy, HollowTombs, SameTable, Tombstone, Live, Known
  <2>7. Unrepeated(buffered)
    BY <2>1, <2>5 DEF Tidy, Unrepeated, SameTable
  <2>8. ASSUME NEW d \in Channels, Known(m, d), NEW y \in Range(m.channels[d].messageBuffer)
        PROVE  y.id < later
    <3>1. y.id \in Nat
      BY <2>8, BufferTypes DEF Message
    <3>2. y.id < data.id
      BY <2>8 DEF Tidy, Numbered
    <3> QED
      BY <1>2, <2>3, <3>1, <3>2
  <2>9. Numbered(buffered, later)
    BY <2>1, <2>2, <2>3, <2>5, <2>8 DEF Numbered, SameTable
  <2> QED
    BY <1>8, <2>6, <2>7, <2>9 DEF Tidy
<1> QED
  BY <1>1, <1>5, <1>6, <1>7, <1>8

-----------------------------------------------------------------------------
(* The invariant of the accounts *)

AccountsInOrder(m, id) == Exact(m) /\ Within(m) /\ Tidy(m, id)

AccountInv == DeliveryInv /\ AccountsInOrder(mgr, nextId)

\* An empty manager holds nothing.
LEMMA InitAccountInv == Init => AccountInv
<1> SUFFICES ASSUME Init PROVE AccountInv
  OBVIOUS
<1>1. DeliveryInv /\ Sane(mgr)
  BY InitDeliveryInv DEF DeliveryInv, IInv
<1>2. mgr = NewManager /\ nextId = 0
  BY DEF Init
<1>3. /\ \A c \in Channels : ~ Known(mgr, c)
      /\ \A s \in Sockets : mgr.directDeliveries[s] = None
      /\ mgr.totalBufferedBytes = 0 /\ mgr.totalDirectInflightBytes = 0
      /\ \A ip \in Ips : mgr.bufferedBytesByIp[ip] = 0
  BY <1>2 DEF NewManager, Known
<1>4. /\ IsFiniteSet(Channels) /\ IsFiniteSet(Sockets)
      /\ BytesPerIp \in Nat /\ BytesGlobal \in Nat
  BY ConstantsAssumption
<1>5. ASSUME NEW v \in [Message -> Nat] PROVE Held(mgr, v) = 0
  <2> DEFINE f == [c \in Channels |-> Worth(Pile(mgr, c), v)]
  <2>1. \A c \in Channels : Pile(mgr, c) = << >>
    BY <1>3 DEF Pile
  <2>2. f \in [Channels -> Nat]
    BY <1>1, Worths
  <2>3. \A c \in Channels : f[c] = 0
    BY <2>1, EmptyIsWorthless
  <2> HIDE DEF f
  <2>4. SumFunction(f) = 0
    BY <1>4, <2>2, <2>3, SumZero
  <2> QED
    BY <2>4 DEF Held, f
<1>6. ASSUME NEW w \in [Reservation \cup {None} -> Nat], w[None] = 0
      PROVE  Flying(mgr, w) = 0
  <2> DEFINE f == [s \in Sockets |-> w[mgr.directDeliveries[s]]]
  <2>1. f \in [Sockets -> Nat]
    BY <1>1, Loads
  <2>2. \A s \in Sockets : f[s] = 0
    BY <1>3, <1>6
  <2> HIDE DEF f
  <2>3. SumFunction(f) = 0
    BY <1>4, <2>1, <2>2, SumZero
  <2> QED
    BY <2>3 DEF Flying, f
<1>7. Held(mgr, Sized) = 0 /\ \A ip \in Ips : Held(mgr, SizedFrom(ip)) = 0
  BY <1>5, Values
<1>8. Flying(mgr, Load) = 0 /\ \A ip \in Ips : Flying(mgr, LoadFrom(ip)) = 0
  BY <1>6, Values, NoLoad
<1>9. Exact(mgr)
  BY <1>3, <1>7, <1>8 DEF Exact
<1>10. Within(mgr)
  BY <1>3, <1>4 DEF Within
<1>11. Tidy(mgr, nextId)
  BY <1>3 DEF Tidy, HollowTombs, Unrepeated, Numbered, Tombstone
<1> QED
  BY <1>1, <1>9, <1>10, <1>11 DEF AccountInv, AccountsInOrder

\* No step of the manager leaves the accounts in disorder.
LEMMA NextKeepsAccounts ==
  ASSUME AccountInv, DeliveryInv', Next
  PROVE  AccountsInOrder(mgr', nextId')
<1>1. /\ now \in Nat /\ nextId \in Nat /\ Sane(mgr) /\ Aged(mgr, now)
      /\ Exact(mgr) /\ Within(mgr) /\ Tidy(mgr, nextId)
  BY DEF AccountInv, AccountsInOrder, DeliveryInv, IInv
<1>2. Sane(mgr') /\ nextId' \in Nat
  BY DEF DeliveryInv, IInv
<1>3. ASSUME Loses(mgr, mgr'), nextId' = nextId PROVE Tidy(mgr', nextId')
  BY <1>1, <1>2, <1>3, LosesTidy
<1>4. ASSUME NEW c \in Channels, NEW s \in Sockets, NEW role \in Roles,
             NEW key \in Keys \cup {None}, NEW ip \in Ips, NEW active \in Answers,
             JoinChannel(c, s, role, key, ip, active)
      PROVE  AccountsInOrder(mgr', nextId')
  <2>1. active \in SUBSET Sockets
    BY DEF Answers
  <2>2. mgr' = Join(mgr, c, s, role, key, ip, active, now).mgr /\ nextId' = nextId
    BY <1>4 DEF JoinChannel
  <2>3. Exact(mgr') /\ Within(mgr')
    BY <1>1, <2>1, <2>2, JoinIsExact
  <2>4. Loses(mgr, mgr')
    BY <1>1, <2>1, <2>2, JoinLoses
  <2> QED
    BY <1>3, <2>2, <2>3, <2>4 DEF AccountsInOrder
<1>5. ASSUME NEW c \in Channels, NEW s \in Sockets, LeaveChannel(c, s)
      PROVE  AccountsInOrder(mgr', nextId')
  <2>1. mgr' = Leave(mgr, c, s, now) /\ nextId' = nextId
    BY <1>5 DEF LeaveChannel
  <2>2. Exact(mgr') /\ Within(mgr') /\ Loses(mgr, mgr')
    BY <1>1, <2>1, LeaveIsExact, LeaveLoses
  <2> QED
    BY <1>3, <2>1, <2>2 DEF AccountsInOrder
<1>6. ASSUME NEW c \in Channels, CloseChannel(c)
      PROVE  AccountsInOrder(mgr', nextId')
  <2>1. Live(mgr, c) /\ mgr' = Close(mgr, c, now) /\ nextId' = nextId
    BY <1>6 DEF CloseChannel
  <2>2. Exact(mgr') /\ Within(mgr') /\ Loses(mgr, mgr')
    BY <1>1, <2>1, CloseIsExact, CloseLoses DEF Tidy
  <2> QED
    BY <1>3, <2>1, <2>2 DEF AccountsInOrder
<1>7. ASSUME NEW c \in Channels, NEW s \in Sockets, NEW role \in Roles,
             NEW seq \in Seqs \cup {None}, NEW size \in Sizes, NEW ip \in Ips,
             NEW receptive \in Answers,
             SendMessage(c, s, role, seq, size, ip, receptive)
      PROVE  AccountsInOrder(mgr', nextId')
  <2> DEFINE data == [id |-> nextId, clientType |-> role, seq |-> seq, sizeBytes |-> size]
             result == RouteMessage(mgr, c, s, data, ip, receptive, now)
  <2>1. data \in Payload /\ data.id = nextId /\ receptive \in SUBSET Sockets
    BY <1>1 DEF Payload, Answers
  <2>2. /\ mgr' = result.mgr
        /\ nextId' = IF result.status = "error" THEN nextId ELSE nextId + 1
    BY <1>7 DEF SendMessage
  <2> HIDE DEF data
  <2>3. Exact(mgr') /\ Within(mgr')
    BY <1>1, <2>1, <2>2, RouteIsExact
  <2>4. data.id <= nextId' /\ (result.status # "error" => data.id < nextId')
    BY <1>1, <2>1, <2>2
  <2>5. Tidy(mgr', nextId')
    BY <1>1, <1>2, <2>1, <2>2, <2>4, RouteTidy
  <2> QED
    BY <2>3, <2>5 DEF AccountsInOrder
<1>8. ASSUME NEW s \in Sockets, DropDelivery(s)
      PROVE  AccountsInOrder(mgr', nextId')
  <2>1. mgr' = ReleaseDirectDelivery(mgr, s) /\ nextId' = nextId
    BY <1>8 DEF DropDelivery
  <2>2. Exact(mgr') /\ Within(mgr') /\ Loses(mgr, mgr')
    BY <1>1, <2>1, DropIsExact, DropLoses
  <2> QED
    BY <1>3, <2>1, <2>2 DEF AccountsInOrder
<1>9. ASSUME NEW s \in Sockets, AdvanceDelivery(s)
      PROVE  AccountsInOrder(mgr', nextId')
  <2>1. mgr' = AdvanceDirectDelivery(mgr, s).mgr /\ nextId' = nextId
    BY <1>9 DEF AdvanceDelivery
  <2>2. Exact(mgr') /\ Within(mgr') /\ Loses(mgr, mgr')
    BY <1>1, <2>1, AdvanceIsExact, AdvanceLoses DEF Tidy
  <2> QED
    BY <1>3, <2>1, <2>2 DEF AccountsInOrder
<1>10. ASSUME CleanupTimer
       PROVE  AccountsInOrder(mgr', nextId')
  <2>1. mgr' = Cleanup(mgr, now) /\ nextId' = nextId
    BY <1>10 DEF CleanupTimer
  <2>2. Exact(mgr') /\ Within(mgr') /\ Loses(mgr, mgr')
    BY <1>1, <2>1, CleanupIsExact, CleanupLoses DEF Tidy
  <2> QED
    BY <1>3, <2>1, <2>2 DEF AccountsInOrder
<1>11. ASSUME Tick
       PROVE  AccountsInOrder(mgr', nextId')
  BY <1>1, <1>11 DEF Tick, AccountsInOrder
<1> QED
  BY <1>4, <1>5, <1>6, <1>7, <1>8, <1>9, <1>10, <1>11 DEF Next

\* Every reachable state satisfies the invariant.
LEMMA AccountInvariance == Spec => []AccountInv
<1>1. ASSUME AccountInv, DeliveryInv', [Next]_vars PROVE AccountInv'
  <2>1. CASE Next
    BY <1>1, <2>1, NextKeepsAccounts DEF AccountInv
  <2>2. CASE UNCHANGED vars
    BY <1>1, <2>2 DEF AccountInv, vars, AccountsInOrder
  <2> QED
    BY <1>1, <2>1, <2>2
<1> QED
  BY <1>1, InitAccountInv, DeliveryInvariance, PTL DEF Spec

-----------------------------------------------------------------------------
(* What the counters count *)

\* The bytes in flight to some sockets, when w counts these and no others.
LEMMA InflightIsFlying ==
  ASSUME NEW m, Sane(m), NEW w \in [Reservation \cup {None} -> Nat], NEW S \in SUBSET Sockets,
         \A s \in S : w[m.directDeliveries[s]] = m.directDeliveries[s].sizeBytes,
         \A s \in Sockets \ S : w[m.directDeliveries[s]] = 0
  PROVE  SumFunction([s \in S |-> m.directDeliveries[s].sizeBytes]) = Flying(m, w)
<1> DEFINE f == [s \in Sockets |-> w[m.directDeliveries[s]]]
           g == [s \in S |-> m.directDeliveries[s].sizeBytes]
<1>1. f \in [Sockets -> Nat] /\ IsFiniteSet(Sockets)
  BY Loads, ConstantsAssumption
<1>2. \A s \in Sockets \ S : f[s] = 0
  OBVIOUS
<1>3. g = Restrict(f, S)
  BY DEF Restrict
<1>4. Flying(m, w) = SumFunction(f)
  BY DEF Flying
<1> HIDE DEF f, g
<1>5. SumFunction(f) = SumFunction(Restrict(f, S))
  BY <1>1, <1>2, SumPart
<1>6. SumFunction(g) = Flying(m, w)
  BY <1>3, <1>4, <1>5
<1> QED
  BY <1>6 DEF g

\* The worth of the buffers of the channels in the map.
LEMMA HeldByKnown ==
  ASSUME NEW m, Sane(m), NEW v \in [Message -> Nat], NEW K, K = {c \in Channels : Known(m, c)}
  PROVE  SumFunction([c \in K |-> Worth(m.channels[c].messageBuffer, v)]) = Held(m, v)
<1> DEFINE f == [c \in Channels |-> Worth(Pile(m, c), v)]
           g == [c \in K |-> Worth(m.channels[c].messageBuffer, v)]
<1>1. f \in [Channels -> Nat] /\ IsFiniteSet(Channels)
  BY Worths, ConstantsAssumption
<1>2. \A c \in Channels \ K : f[c] = 0
  <2>1. \A c \in Channels \ K : Pile(m, c) = << >>
    BY DEF Pile
  <2> QED
    BY <2>1, EmptyIsWorthless
<1>3. g = Restrict(f, K)
  BY DEF Restrict, Pile
<1>4. Held(m, v) = SumFunction(f)
  BY DEF Held
<1> HIDE DEF f, g
<1>5. SumFunction(f) = SumFunction(Restrict(f, K))
  BY <1>1, <1>2, SumPart
<1>6. SumFunction(g) = Held(m, v)
  BY <1>3, <1>4, <1>5
<1> QED
  BY <1>6 DEF g

\* Exact is what BytesAreExact says, with sums over all channels and sockets instead
\* of those that hold something.
LEMMA ExactMeansBytes ==
  ASSUME Sane(mgr), Exact(mgr)
  PROVE  BytesAreExact
<1> DEFINE inflight(S) == SumFunction([s \in S |-> mgr.directDeliveries[s].sizeBytes])
<1>1. Sane(mgr) /\ Exact(mgr)
  OBVIOUS
<1>2. \A s \in Sockets : mgr.directDeliveries[s] \in Reservation \cup {None}
  BY <1>1, Loads, Values
<1>3. /\ Reserved \subseteq Sockets
      /\ \A s \in Reserved : mgr.directDeliveries[s] \in Reservation
      /\ \A s \in Sockets \ Reserved : mgr.directDeliveries[s] = None
  BY <1>2 DEF Reserved
<1>4. ASSUME NEW c \in KnownChannels
      PROVE  inflight({s \in Reserved : mgr.directDeliveries[s].channel = c})
               = Flying(mgr, LoadOn(c))
  <2> DEFINE S == {s \in Reserved : mgr.directDeliveries[s].channel = c}
  <2>1. S \in SUBSET Sockets
    BY <1>3
  <2>2. \A s \in S : LoadOn(c)[mgr.directDeliveries[s]] = mgr.directDeliveries[s].sizeBytes
    BY <1>3, LoadFacts
  <2>3. \A s \in Sockets \ S : LoadOn(c)[mgr.directDeliveries[s]] = 0
    BY <1>3, LoadFacts, NoLoad
  <2> HIDE DEF S
  <2>4. inflight(S) = Flying(mgr, LoadOn(c))
    BY <1>1, <2>1, <2>2, <2>3, InflightIsFlying, Values
  <2> QED
    BY <2>4 DEF S
<1>5. ASSUME NEW ip \in Ips
      PROVE  inflight({s \in Reserved : mgr.directDeliveries[s].sourceIp = ip})
               = Flying(mgr, LoadFrom(ip))
  <2> DEFINE S == {s \in Reserved : mgr.directDeliveries[s].sourceIp = ip}
  <2>1. S \in SUBSET Sockets
    BY <1>3
  <2>2. \A s \in S : LoadFrom(ip)[mgr.directDeliveries[s]] = mgr.directDeliveries[s].sizeBytes
    BY <1>3, LoadFacts
  <2>3. \A s \in Sockets \ S : LoadFrom(ip)[mgr.directDeliveries[s]] = 0
    BY <1>3, LoadFacts, NoLoad
  <2> HIDE DEF S
  <2>4. inflight(S) = Flying(mgr, LoadFrom(ip))
    BY <1>1, <2>1, <2>2, <2>3, InflightIsFlying, Values
  <2> QED
    BY <2>4 DEF S
<1>6. inflight(Reserved) = Flying(mgr, Load)
  <2>1. \A s \in Reserved : Load[mgr.directDeliveries[s]] = mgr.directDeliveries[s].sizeBytes
    BY <1>3, LoadFacts
  <2>2. \A s \in Sockets \ Reserved : Load[mgr.directDeliveries[s]] = 0
    BY <1>3, NoLoad
  <2> QED
    BY <1>1, <1>3, <2>1, <2>2, InflightIsFlying, Values
<1>7. ASSUME NEW c \in KnownChannels
      PROVE  /\ Bytes(mgr.channels[c].messageBuffer)
                  = Worth(mgr.channels[c].messageBuffer, Sized)
             /\ \A ip : BytesFrom(mgr.channels[c].messageBuffer, ip)
                  = Worth(mgr.channels[c].messageBuffer, SizedFrom(ip))
  <2>1. mgr.channels[c].messageBuffer \in Seq(Message)
    BY <1>1, BufferTypes DEF KnownChannels
  <2> QED
    BY <2>1, BytesOfQueue
<1>8. SumFunction([c \in KnownChannels |-> Bytes(mgr.channels[c].messageBuffer)])
        = Held(mgr, Sized)
  <2>1. [c \in KnownChannels |-> Bytes(mgr.channels[c].messageBuffer)]
          = [c \in KnownChannels |-> Worth(mgr.channels[c].messageBuffer, Sized)]
    BY <1>7
  <2>2. SumFunction([c \in KnownChannels |-> Worth(mgr.channels[c].messageBuffer, Sized)])
          = Held(mgr, Sized)
    BY <1>1, HeldByKnown, Values DEF KnownChannels
  <2> QED
    BY <2>1, <2>2
<1>9. ASSUME NEW ip \in Ips
      PROVE  SumFunction([c \in KnownChannels |-> BytesFrom(mgr.channels[c].messageBuffer, ip)])
               = Held(mgr, SizedFrom(ip))
  <2>1. [c \in KnownChannels |-> BytesFrom(mgr.channels[c].messageBuffer, ip)]
          = [c \in KnownChannels |-> Worth(mgr.channels[c].messageBuffer, SizedFrom(ip))]
    BY <1>7
  <2>2. SumFunction([c \in KnownChannels |-> Worth(mgr.channels[c].messageBuffer, SizedFrom(ip))])
          = Held(mgr, SizedFrom(ip))
    BY <1>1, HeldByKnown, Values DEF KnownChannels
  <2> QED
    BY <2>1, <2>2
<1>10. ASSUME NEW c \in KnownChannels
       PROVE  /\ mgr.channels[c].bufferedBytes = Bytes(mgr.channels[c].messageBuffer)
              /\ mgr.channels[c].directInflightBytes =
                   inflight({s \in Reserved : mgr.directDeliveries[s].channel = c})
  <2>1. ExactAt(mgr, c)
    BY <1>1 DEF Exact, KnownChannels
  <2> QED
    BY <1>4, <1>7, <2>1 DEF ExactAt
<1>11. mgr.totalBufferedBytes
         = SumFunction([c \in KnownChannels |-> Bytes(mgr.channels[c].messageBuffer)])
  BY <1>1, <1>8 DEF Exact
<1>12. mgr.totalDirectInflightBytes = inflight(Reserved)
  BY <1>1, <1>6 DEF Exact
<1>13. ASSUME NEW ip \in Ips
       PROVE  mgr.bufferedBytesByIp[ip] =
                inflight({s \in Reserved : mgr.directDeliveries[s].sourceIp = ip})
                + SumFunction([c \in KnownChannels |->
                                 BytesFrom(mgr.channels[c].messageBuffer, ip)])
  BY <1>1, <1>5, <1>9 DEF Exact
<1> QED
  BY <1>10, <1>11, <1>12, <1>13 DEF BytesAreExact

\* What BudgetsHold says of bytes and of lengths.
LEMMA WithinMeansBudgets ==
  ASSUME Within(mgr), Bounded(mgr)
  PROVE  BudgetsHold
BY DEF Within, Bounded, BudgetsHold, KnownChannels

\* The counters of the channels, of the addresses and in total are exactly the
\* bytes that buffers and reservations hold, whatever the sizes of messages, the
\* number of channels and sockets and the order of the calls: no clamp of the
\* code (Math.max(0, ...)) ever hides a byte counted twice or not at all.
THEOREM BytesAreExactHolds == Spec => []BytesAreExact
<1>1. AccountInv => BytesAreExact
  BY ExactMeansBytes DEF AccountInv, AccountsInOrder, DeliveryInv, IInv
<1> QED
  BY <1>1, AccountInvariance, PTL

\* No channel, no address and not the relay as a whole ever retains more than
\* its budget, buffered and in flight together: routeMessage's test comes before
\* anything is stored, every other operation only gives bytes back or moves them
\* from the buffer into flight, and no release loses track of a byte.
THEOREM BudgetsHoldForAll == Spec => []BudgetsHold
<1>1. AccountInv => BudgetsHold
  BY WithinMeansBudgets DEF AccountInv, AccountsInOrder, DeliveryInv
<1> QED
  BY <1>1, AccountInvariance, PTL

=============================================================================
