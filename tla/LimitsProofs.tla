---------------------------- MODULE LimitsProofs ----------------------------
(***************************************************************************)
(* Counters that several writers share: the rate limiter's, the research   *)
(* budget's and the harvest's.                                             *)
(***************************************************************************)
EXTENDS RateLimiter, ResearchBudget, HarvestHealth, TLAPS, FiniteSetTheorems

(***************************************************************************)
(* Proofs about RateLimiter, for any keys, limits, windows and clocks.     *)
(* A bucket is the end of the sequence of all instants its key was let     *)
(* through, and what it has lost is older than a window; so an instant and *)
(* the Limit-th after it are always a window apart.                        *)
(***************************************************************************)

\* b is the end of g, and the rest of g has left the window.
IsEnd(b, g, at) ==
    /\ Len(b) <= Len(g)
    /\ \A i \in 1..Len(b) : b[i] = g[Len(g) - Len(b) + i]
    /\ \A i \in 1..(Len(g) - Len(b)) : g[i] <= at - Window

\* The instants of g are in order, and none lies ahead.
Ordered(g, at) ==
    /\ \A i \in 1..Len(g) : g[i] <= at
    /\ \A i, j \in 1..Len(g) : i <= j => g[i] <= g[j]

\* An instant and the Limit-th after it are a window apart.
Spread(g) == \A i, j \in 1..Len(g) : i + Limit <= j => g[i] + Window <= g[j]

BucketIn(buckets, k) == IF k \in DOMAIN buckets THEN buckets[k] ELSE <<>>

LimiterIInv ==
    /\ LimiterTypeOK
    /\ \A k \in Callers :
        /\ IsEnd(BucketIn(bucket, k), granted[k], clock)
        /\ Ordered(granted[k], clock)
        /\ Spread(granted[k])

-----------------------------------------------------------------------------
(* Lemmas about buckets *)

\* A bucket whose last instant has left the window can go.
LEMMA StaleCanGo ==
    ASSUME NEW b \in Seq(Nat), NEW g \in Seq(Nat), NEW at \in Nat,
           IsEnd(b, g, at), Ordered(g, at), b = <<>> \/ b[Len(b)] <= at - Window
    PROVE  IsEnd(<<>>, g, at)
<1>1. CASE b = <<>>
  BY <1>1
<1>2. CASE b # <<>> /\ b[Len(b)] <= at - Window
  <2>1. Len(b) \in Nat \ {0} /\ Len(g) \in Nat /\ Len(b) <= Len(g)
    BY <1>2 DEF IsEnd
  <2>2. b[Len(b)] = g[Len(g)]
    <3>1. Len(b) \in 1..Len(b) /\ Len(g) - Len(b) + Len(b) = Len(g)
      BY <2>1
    <3> QED BY <3>1 DEF IsEnd
  <2>3. ASSUME NEW i \in 1..Len(g) PROVE g[i] <= at - Window
    <3>1. g[i] <= g[Len(g)] /\ g[i] \in Nat /\ g[Len(g)] \in Nat
      BY <2>1 DEF Ordered
    <3> QED BY <1>2, <2>2, <3>1, LimiterAssumption
  <2> QED BY <2>1, <2>3 DEF IsEnd
<1> QED BY <1>1, <1>2

\* Expired instants can be taken off its front.
LEMMA ExpiredCanGo ==
    ASSUME NEW b \in Seq(Nat), NEW g \in Seq(Nat), NEW at \in Nat, IsEnd(b, g, at),
           NEW f \in 1..(Len(b) + 1), \A i \in 1..(f - 1) : b[i] <= at - Window
    PROVE  IsEnd(SubSeq(b, f, Len(b)), g, at)
<1> DEFINE c == SubSeq(b, f, Len(b))
<1>1. Len(b) \in Nat /\ Len(g) \in Nat /\ Len(b) <= Len(g) /\ f \in Nat
  BY DEF IsEnd
<1>2. Len(c) = Len(b) - f + 1 /\ \A i \in 1..Len(c) : c[i] = b[f + i - 1]
  BY <1>1
<1> HIDE DEF c
<1>3. Len(c) <= Len(g)
  BY <1>1, <1>2
<1>4. ASSUME NEW i \in 1..Len(c) PROVE c[i] = g[Len(g) - Len(c) + i]
  <2>1. f + i - 1 \in 1..Len(b)
        /\ Len(g) - Len(b) + (f + i - 1) = Len(g) - Len(c) + i
    BY <1>1, <1>2
  <2>2. c[i] = b[f + i - 1] /\ b[f + i - 1] = g[Len(g) - Len(b) + (f + i - 1)]
    BY <1>2, <2>1 DEF IsEnd
  <2> QED BY <2>1, <2>2
<1>5. ASSUME NEW i \in 1..(Len(g) - Len(c)) PROVE g[i] <= at - Window
  <2>1. CASE i <= Len(g) - Len(b)
    BY <1>1, <2>1 DEF IsEnd
  <2>2. CASE i > Len(g) - Len(b)
    <3> DEFINE h == i - (Len(g) - Len(b))
    <3>1. h \in 1..(f - 1) /\ h \in 1..Len(b) /\ Len(g) - Len(b) + h = i
      BY <1>1, <1>2, <2>2
    <3>2. b[h] = g[i] /\ b[h] <= at - Window
      BY <3>1 DEF IsEnd
    <3> QED BY <3>2
  <2> QED BY <1>1, <1>2, <2>1, <2>2
<1> QED BY <1>3, <1>4, <1>5 DEF IsEnd, c

\* A call that is let through is put at both ends.
LEMMA AppendedEnd ==
    ASSUME NEW b \in Seq(Nat), NEW g \in Seq(Nat), NEW at \in Nat, IsEnd(b, g, at)
    PROVE  IsEnd(Append(b, at), Append(g, at), at)
<1> DEFINE c == Append(b, at)
           h == Append(g, at)
<1>1. /\ Len(b) \in Nat /\ Len(g) \in Nat /\ Len(b) <= Len(g)
      /\ Len(c) = Len(b) + 1 /\ Len(h) = Len(g) + 1
      /\ c[Len(b) + 1] = at /\ h[Len(g) + 1] = at
      /\ \A i \in 1..Len(b) : c[i] = b[i]
      /\ \A i \in 1..Len(g) : h[i] = g[i]
  BY DEF IsEnd
<1> HIDE DEF c, h
<1>2. ASSUME NEW i \in 1..Len(c) PROVE c[i] = h[Len(h) - Len(c) + i]
  <2>1. CASE i = Len(b) + 1
    BY <1>1, <2>1
  <2>2. CASE i # Len(b) + 1
    <3>1. i \in 1..Len(b) /\ Len(g) - Len(b) + i \in 1..Len(g)
          /\ Len(h) - Len(c) + i = Len(g) - Len(b) + i
      BY <1>1, <2>2
    <3> QED BY <1>1, <3>1 DEF IsEnd
  <2> QED BY <2>1, <2>2
<1>3. ASSUME NEW i \in 1..(Len(h) - Len(c)) PROVE h[i] <= at - Window
  <2>1. i \in 1..(Len(g) - Len(b)) /\ i \in 1..Len(g)
    BY <1>1
  <2> QED BY <1>1, <2>1 DEF IsEnd
<1>4. IsEnd(c, h, at)
  BY <1>1, <1>2, <1>3 DEF IsEnd
<1> QED BY <1>4 DEF c, h

LEMMA AppendedOrder ==
    ASSUME NEW g \in Seq(Nat), NEW at \in Nat, Ordered(g, at)
    PROVE  Ordered(Append(g, at), at)
<1> DEFINE h == Append(g, at)
<1>1. /\ Len(g) \in Nat /\ Len(h) = Len(g) + 1 /\ h[Len(g) + 1] = at
      /\ \A i \in 1..Len(g) : h[i] = g[i]
  OBVIOUS
<1> HIDE DEF h
<1>2. ASSUME NEW i \in 1..Len(h) PROVE h[i] <= at
  BY <1>1 DEF Ordered
<1>3. ASSUME NEW i \in 1..Len(h), NEW j \in 1..Len(h), i <= j PROVE h[i] <= h[j]
  <2>1. CASE j = Len(g) + 1
    BY <1>1, <1>2, <2>1
  <2>2. CASE j # Len(g) + 1
    <3>1. i \in 1..Len(g) /\ j \in 1..Len(g)
      BY <1>1, <1>3, <2>2
    <3> QED BY <1>1, <1>3, <3>1 DEF Ordered
  <2> QED BY <2>1, <2>2
<1> QED BY <1>2, <1>3 DEF Ordered, h

\* With fewer than Limit instants in the bucket, the Limit-th before the new
\* one has left the window.
LEMMA AppendedSpread ==
    ASSUME NEW b \in Seq(Nat), NEW g \in Seq(Nat), NEW at \in Nat,
           IsEnd(b, g, at), Spread(g), Len(b) < Limit
    PROVE  Spread(Append(g, at))
<1> DEFINE h == Append(g, at)
<1>1. /\ Len(g) \in Nat /\ Len(h) = Len(g) + 1 /\ h[Len(g) + 1] = at
      /\ \A i \in 1..Len(g) : h[i] = g[i] /\ g[i] \in Nat
      /\ Len(b) \in Nat /\ Limit \in Nat \ {0} /\ Window \in Nat
  BY LimiterAssumption
<1> HIDE DEF h
<1>2. ASSUME NEW i \in 1..Len(h), NEW j \in 1..Len(h), i + Limit <= j
      PROVE  h[i] + Window <= h[j]
  <2>1. i \in 1..Len(g)
    BY <1>1, <1>2
  <2>2. CASE j = Len(g) + 1
    <3>1. i \in 1..(Len(g) - Len(b))
      BY <1>1, <1>2, <2>2
    <3>2. g[i] <= at - Window
      BY <3>1 DEF IsEnd
    <3> QED BY <1>1, <2>1, <2>2, <3>2
  <2>3. CASE j # Len(g) + 1
    <3>1. j \in 1..Len(g)
      BY <1>1, <2>3
    <3> QED BY <1>1, <1>2, <2>1, <3>1 DEF Spread
  <2> QED BY <2>2, <2>3
<1> QED BY <1>2 DEF Spread, h
-----------------------------------------------------------------------------
(* Counting and searching *)

\* A finite set of numbers that is not empty has a smallest member.
LEMMA LeastMember ==
    ASSUME NEW S, S \subseteq Nat, IsFiniteSet(S), S # {}
    PROVE  \E m \in S : \A k \in S : m <= k
<1> DEFINE UpTo(x) == {k \in S : k <= x}
           F == {UpTo(x) : x \in S}
<1>1. IsWellFoundedOn(StrictSubsetOrdering(S), SUBSET S)
  BY FS_StrictSubsetOrderingWellFounded, FS_FiniteSubsetsOfFinite
<1>2. F \subseteq SUBSET S /\ F # {}
  OBVIOUS
<1>3. PICK T \in F : \A U \in F : <<U, T>> \notin StrictSubsetOrdering(S)
  <2> HIDE DEF F
  <2> QED BY <1>1, <1>2, WFMin
<1>4. PICK m \in S : T = UpTo(m)
  BY <1>3
<1>5. ASSUME NEW k \in S, k < m PROVE FALSE
  <2>1. UpTo(k) \in F /\ T \subseteq S
    BY <1>4, <1>5
  <2>2. ASSUME NEW j \in UpTo(k) PROVE j \in T
    <3>1. j \in S /\ j \in Int /\ k \in Int /\ m \in Int /\ j <= k
      OBVIOUS
    <3>2. j <= m
      BY <3>1, <1>5
    <3> QED BY <3>1, <3>2, <1>4
  <2>3. m \in T /\ m \notin UpTo(k)
    BY <1>4, <1>5
  <2>4. <<UpTo(k), T>> \in StrictSubsetOrdering(S)
    BY <2>1, <2>2, <2>3 DEF StrictSubsetOrdering
  <2> QED BY <2>1, <2>4, <1>3
<1> QED BY <1>5

\* popleft stops somewhere, has taken only expired instants, and has left
\* none in front.
LEMMA FirstLiveExists ==
    ASSUME NEW b \in Seq(Nat), clock \in Nat
    PROVE  /\ FirstLive(b) \in 1..(Len(b) + 1)
           /\ \A i \in 1..(FirstLive(b) - 1) : Expired(b[i])
           /\ FirstLive(b) <= Len(b) => ~Expired(b[FirstLive(b)])
<1> DEFINE S == {n \in 1..(Len(b) + 1) : n = Len(b) + 1 \/ ~Expired(b[n])}
<1>1. Len(b) \in Nat
  OBVIOUS
<1>2. S \subseteq Nat /\ IsFiniteSet(S) /\ S # {}
  <2>1. IsFiniteSet(1..(Len(b) + 1)) /\ Len(b) + 1 \in S
    BY <1>1, FS_Interval
  <2> QED BY <1>1, <2>1, FS_Subset
<1>3. PICK n \in S : \A k \in S : n <= k
  <2> HIDE DEF S
  <2> QED BY <1>2, LeastMember
<1>4. /\ n \in 1..(Len(b) + 1)
      /\ n <= Len(b) => ~Expired(b[n])
  BY <1>1, <1>3
<1>5. \A i \in 1..(n - 1) : Expired(b[i])
  <2> SUFFICES ASSUME NEW i \in 1..(n - 1), ~Expired(b[i]) PROVE FALSE
    OBVIOUS
  <2>1. i \in S /\ i < n
    BY <1>1, <1>4
  <2>2. n <= i
    BY <1>3, <2>1
  <2> QED BY <1>4, <2>1, <2>2
<1>6. StopsAt(b, n)
  BY <1>4, <1>5 DEF StopsAt
<1>7. FirstLive(b) \in 1..(Len(b) + 1) /\ StopsAt(b, FirstLive(b))
  <2> HIDE DEF S
  <2> QED BY <1>4, <1>6 DEF FirstLive
<1> QED BY <1>7 DEF StopsAt

\* Instants that are spread out come Limit to a window at most.
LEMMA SpreadFits ==
    ASSUME NEW g \in Seq(Nat), NEW at, Ordered(g, at), Spread(g), NEW from \in Nat
    PROVE  Cardinality({i \in DOMAIN g : from <= g[i] /\ g[i] < from + Window}) <= Limit
<1> DEFINE W == {i \in DOMAIN g : from <= g[i] /\ g[i] < from + Window}
<1>1. /\ Len(g) \in Nat /\ DOMAIN g = 1..Len(g)
      /\ \A i \in 1..Len(g) : g[i] \in Nat
      /\ Limit \in Nat \ {0} /\ Window \in Nat
  BY LimiterAssumption
<1>2. IsFiniteSet(W) /\ W \subseteq Nat
  <2>1. IsFiniteSet(1..Len(g)) /\ W \subseteq 1..Len(g) /\ 1..Len(g) \subseteq Nat
    BY <1>1, FS_Interval
  <2> HIDE DEF W
  <2> QED BY <2>1, FS_Subset
<1>3. ASSUME W = {} PROVE Cardinality(W) <= Limit
  <2> HIDE DEF W
  <2> QED BY <1>1, <1>3, FS_EmptySet
<1>4. ASSUME W # {} PROVE Cardinality(W) <= Limit
  <2>1. PICK m \in W : \A k \in W : m <= k
    <3> HIDE DEF W
    <3> QED BY <1>2, <1>4, LeastMember
  <2>2. m \in 1..Len(g) /\ from <= g[m]
    BY <1>1, <2>1
  <2>3. ASSUME NEW k \in W PROVE k \in m..(m + Limit - 1)
    <3>1. k \in 1..Len(g) /\ g[k] < from + Window /\ m <= k
      BY <1>1, <2>1
    <3>2. ~(m + Limit <= k)
      <4> SUFFICES ASSUME m + Limit <= k PROVE FALSE
        OBVIOUS
      <4>1. g[m] + Window <= g[k]
        BY <2>2, <3>1 DEF Spread
      <4> QED BY <1>1, <2>2, <3>1, <4>1
    <3> QED BY <1>1, <2>2, <3>1, <3>2
  <2>4. IsFiniteSet(m..(m + Limit - 1)) /\ Cardinality(m..(m + Limit - 1)) = Limit
    <3>1. m \in Int /\ m + Limit - 1 \in Int /\ ~(m > m + Limit - 1)
          /\ (m + Limit - 1) - m + 1 = Limit
      BY <1>1, <2>2
    <3> QED BY <3>1, FS_Interval
  <2>5. W \subseteq m..(m + Limit - 1)
    BY <2>3
  <2> HIDE DEF W
  <2>6. Cardinality(W) <= Cardinality(m..(m + Limit - 1))
    BY <2>4, <2>5, FS_Subset
  <2> QED BY <2>4, <2>6
<1>5. Cardinality(W) <= Limit
  BY <1>3, <1>4
<1> QED BY <1>5

-----------------------------------------------------------------------------
(* The invariant holds initially and is kept by every step. *)

LEMMA LimiterInitIInv == LimiterInit => LimiterIInv
<1> SUFFICES ASSUME LimiterInit PROVE LimiterIInv
  OBVIOUS
<1>1. LimiterTypeOK
  BY LimiterAssumption DEF LimiterInit, LimiterTypeOK
<1>2. \A k \in Callers : BucketIn(bucket, k) = <<>> /\ granted[k] = <<>>
  BY DEF LimiterInit, BucketIn
<1>3. IsEnd(<<>>, <<>>, clock) /\ Ordered(<<>>, clock) /\ Spread(<<>>)
  BY DEF IsEnd, Ordered, Spread
<1> QED BY <1>1, <1>2, <1>3 DEF LimiterIInv

LEMMA TickIInv == ASSUME LimiterIInv, TickLimiter PROVE LimiterIInv'
<1> USE LimiterAssumption
<1>1. clock \in Nat /\ clock' = clock + 1 /\ clock' \in 0..MaxClock
      /\ UNCHANGED <<bucket, nextSweep, granted>>
  BY DEF LimiterIInv, LimiterTypeOK, TickLimiter
<1>2. LimiterTypeOK'
  BY <1>1 DEF LimiterIInv, LimiterTypeOK
<1>3. ASSUME NEW k \in Callers
      PROVE  /\ IsEnd(BucketIn(bucket, k), granted[k], clock')
             /\ Ordered(granted[k], clock') /\ Spread(granted[k])
  <2> DEFINE g == granted[k]
  <2>1. /\ IsEnd(BucketIn(bucket, k), g, clock) /\ Ordered(g, clock) /\ Spread(g)
        /\ \A i \in 1..Len(g) : g[i] \in Nat
        /\ Len(g) \in Nat /\ Len(BucketIn(bucket, k)) \in Nat
    BY DEF LimiterIInv, LimiterTypeOK, BucketIn
  <2> HIDE DEF g
  <2>2. Ordered(g, clock')
    BY <1>1, <2>1 DEF Ordered
  <2>3. IsEnd(BucketIn(bucket, k), g, clock')
    BY <1>1, <2>1 DEF IsEnd
  <2> QED BY <2>1, <2>2, <2>3 DEF g
<1>4. \A k : BucketIn(bucket, k)' = BucketIn(bucket, k)
  BY <1>1 DEF BucketIn
<1> QED BY <1>1, <1>2, <1>3, <1>4 DEF LimiterIInv

\* What _evict_expired leaves of a key's bucket is still the end of what the
\* key was granted.
LEMMA KeptEnd ==
    ASSUME LimiterIInv, NEW x \in Callers
    PROVE  /\ BucketIn(Kept(bucket), x) \in Seq(Nat)
           /\ IsEnd(BucketIn(Kept(bucket), x), granted[x], clock)
<1> DEFINE kept == Kept(bucket)
<1>1. /\ BucketIn(bucket, x) \in Seq(Nat) /\ clock \in Nat /\ granted[x] \in Seq(Nat)
      /\ IsEnd(BucketIn(bucket, x), granted[x], clock) /\ Ordered(granted[x], clock)
  BY LimiterAssumption DEF LimiterIInv, LimiterTypeOK, BucketIn
<1>2. DOMAIN kept \subseteq DOMAIN bucket /\ \A k \in DOMAIN kept : kept[k] = bucket[k]
  BY DEF Kept
<1>3. CASE BucketIn(kept, x) = BucketIn(bucket, x)
  BY <1>1, <1>3
<1>4. CASE BucketIn(kept, x) # BucketIn(bucket, x)
  <2>1. x \in DOMAIN bucket /\ x \notin DOMAIN kept
    BY <1>2, <1>4 DEF BucketIn
  <2>2. Stale(bucket[x])
    BY <2>1 DEF Kept
  <2>3. BucketIn(bucket, x) = bucket[x] /\ BucketIn(kept, x) = <<>>
    BY <2>1 DEF BucketIn
  <2>4. bucket[x] = <<>> \/ bucket[x][Len(bucket[x])] <= clock - Window
    BY <2>2 DEF Stale
  <2> HIDE DEF kept
  <2>5. BucketIn(kept, x) \in Seq(Nat) /\ IsEnd(BucketIn(kept, x), granted[x], clock)
    BY <1>1, <2>3, <2>4, StaleCanGo
  <2> QED BY <2>5 DEF kept
<1> QED BY <1>3, <1>4

\* So is what popleft leaves of that, and its first instant is in the window.
LEMMA LiveEnd ==
    ASSUME LimiterIInv, NEW k \in Callers
    PROVE  LET live == Trimmed(Kept(bucket), k)
           IN  /\ live \in Seq(Nat)
               /\ IsEnd(live, granted[k], clock)
               /\ live # <<>> => live[1] > clock - Window
<1> DEFINE kept == Kept(bucket)
           live == Trimmed(kept, k)
<1>1. BucketIn(kept, k) \in Seq(Nat) /\ IsEnd(BucketIn(kept, k), granted[k], clock)
  BY KeptEnd
<1>2. clock \in Nat /\ granted[k] \in Seq(Nat) /\ Window \in Nat
  BY LimiterAssumption DEF LimiterIInv, LimiterTypeOK
<1>3. CASE k \in DOMAIN kept
  <2> DEFINE b == kept[k]
  <2>1. b \in Seq(Nat) /\ IsEnd(b, granted[k], clock)
    BY <1>1, <1>3 DEF BucketIn
  <2>2. live = SubSeq(b, FirstLive(b), Len(b))
    BY <1>3 DEF Trimmed
  <2> HIDE DEF kept, live, b
  <2>3. /\ FirstLive(b) \in 1..(Len(b) + 1)
        /\ \A i \in 1..(FirstLive(b) - 1) : b[i] <= clock - Window
        /\ FirstLive(b) <= Len(b) => ~(b[FirstLive(b)] <= clock - Window)
    BY <1>2, <2>1, FirstLiveExists DEF Expired
  <2>4. live \in Seq(Nat) /\ (live # <<>> => FirstLive(b) <= Len(b) /\ live[1] = b[FirstLive(b)])
    BY <2>1, <2>2, <2>3
  <2>5. live # <<>> => live[1] > clock - Window
    <3>1. FirstLive(b) <= Len(b) => b[FirstLive(b)] \in Nat
      BY <2>1, <2>3
    <3> QED BY <1>2, <2>3, <2>4, <3>1
  <2>6. IsEnd(live, granted[k], clock)
    BY <1>2, <2>1, <2>2, <2>3, ExpiredCanGo
  <2> QED BY <2>4, <2>5, <2>6 DEF live, kept
<1>4. CASE k \notin DOMAIN kept
  <2>1. live = <<>> /\ BucketIn(kept, k) = <<>>
    BY <1>4 DEF Trimmed, BucketIn
  <2> QED BY <1>1, <2>1
<1> QED BY <1>3, <1>4

\* An end of g whose first instant is in the window counts what is.
LEMMA EndCounts ==
    ASSUME NEW b \in Seq(Nat), NEW g \in Seq(Nat), NEW at \in Nat,
           IsEnd(b, g, at), Ordered(g, at), b # <<>> => b[1] > at - Window
    PROVE  Len(b) = Cardinality({i \in DOMAIN g : g[i] > at - Window})
<1> DEFINE W == {i \in DOMAIN g : g[i] > at - Window}
           first == Len(g) - Len(b) + 1
<1>1. /\ Len(b) \in Nat /\ Len(g) \in Nat /\ Len(b) <= Len(g) /\ DOMAIN g = 1..Len(g)
      /\ Window \in Nat /\ \A i \in 1..Len(g) : g[i] \in Nat
  BY LimiterAssumption DEF IsEnd
<1>2. ASSUME NEW i \in first..Len(g) PROVE i \in W
  <2>1. b # <<>> /\ 1 \in 1..Len(b) /\ first \in 1..Len(g) /\ i \in 1..Len(g) /\ first <= i
    BY <1>1
  <2>2. b[1] = g[first] /\ g[first] <= g[i]
    BY <1>1, <2>1 DEF IsEnd, Ordered
  <2> QED BY <1>1, <2>1, <2>2
<1>3. ASSUME NEW i \in W PROVE i \in first..Len(g)
  <2>1. i \in 1..Len(g) /\ g[i] > at - Window
    BY <1>1
  <2>2. ~(i \in 1..(Len(g) - Len(b)))
    BY <1>1, <2>1 DEF IsEnd
  <2> QED BY <1>1, <2>1, <2>2
<1>4. W = first..Len(g)
  <2> HIDE DEF W
  <2> QED BY <1>2, <1>3
<1>5. Cardinality(first..Len(g)) = Len(b)
  <2>1. first \in Int /\ Len(g) \in Int
    BY <1>1
  <2>2. Cardinality(first..Len(g)) = IF first > Len(g) THEN 0 ELSE Len(g) - first + 1
    <3> HIDE DEF first
    <3> QED BY <2>1, FS_Interval
  <2> QED BY <1>1, <2>2
<1> HIDE DEF W, first
<1>6. Len(b) = Cardinality(W)
  BY <1>4, <1>5
<1> QED BY <1>6 DEF W

LEMMA AllowIInv == ASSUME LimiterIInv, NEW k \in Callers, Allow(k) PROVE LimiterIInv'
<1> USE LimiterAssumption
<1> DEFINE kept == Kept(bucket)
           live == Trimmed(kept, k)
           put == IF Len(live) < Limit THEN Append(live, clock) ELSE live
<1>1. /\ bucket' = Put(kept, k, put)
      /\ nextSweep' = SweepAgainAt
      /\ granted' = IF Len(live) < Limit
                    THEN [granted EXCEPT ![k] = Append(granted[k], clock)] ELSE granted
      /\ clock' = clock
  BY DEF Allow, LimiterIInv, LimiterTypeOK
<1>2. clock \in 0..MaxClock /\ clock \in Nat /\ nextSweep \in Nat
      /\ \A x \in Callers : granted[x] \in Seq(Nat)
  BY DEF LimiterIInv, LimiterTypeOK
<1>3. /\ DOMAIN kept \subseteq DOMAIN bucket /\ DOMAIN kept \subseteq Callers
      /\ \A x \in DOMAIN kept : kept[x] = bucket[x] /\ kept[x] \in Seq(0..MaxClock)
  BY DEF Kept, LimiterIInv, LimiterTypeOK
<1>4. ASSUME NEW x \in Callers
      PROVE  BucketIn(kept, x) \in Seq(Nat) /\ IsEnd(BucketIn(kept, x), granted[x], clock)
  BY KeptEnd
<1>5. live \in Seq(Nat) /\ IsEnd(live, granted[k], clock)
  BY LiveEnd
<1> HIDE DEF kept, live
<1>6. put \in Seq(Nat) /\ put \in Seq(0..MaxClock)
  <2>1. live \in Seq(0..MaxClock)
    <3>1. CASE k \in DOMAIN kept
      <4>1. live = SubSeq(kept[k], FirstLive(kept[k]), Len(kept[k]))
            /\ kept[k] \in Seq(0..MaxClock) /\ kept[k] \in Seq(Nat)
        BY <1>3, <1>4, <3>1 DEF live, Trimmed, BucketIn
      <4>2. FirstLive(kept[k]) \in 1..(Len(kept[k]) + 1)
        BY <1>2, <4>1, FirstLiveExists
      <4> QED BY <4>1, <4>2
    <3>2. CASE k \notin DOMAIN kept
      BY <3>2 DEF live, Trimmed
    <3> QED BY <3>1, <3>2
  <2>2. CASE Len(live) < Limit
    <3>1. put = Append(live, clock)
      BY <2>2
    <3>2. Append(live, clock) \in Seq(Nat) /\ Append(live, clock) \in Seq(0..MaxClock)
      BY <1>2, <1>5, <2>1
    <3> QED BY <3>1, <3>2
  <2>3. CASE ~(Len(live) < Limit)
    <3>1. put = live
      BY <2>3
    <3> QED BY <1>5, <2>1, <3>1
  <2> QED BY <2>2, <2>3
<1> HIDE DEF put
<1>7. LimiterTypeOK'
  <2>1. /\ DOMAIN bucket' = DOMAIN kept \cup {k}
        /\ \A x \in DOMAIN bucket' : bucket'[x] = IF x = k THEN put ELSE kept[x]
    BY <1>1 DEF Put
  <2>2. nextSweep' \in Nat
    BY <1>1, <1>2 DEF SweepAgainAt
  <2>3. granted' \in [Callers -> Seq(Nat)]
    BY <1>1, <1>2 DEF LimiterIInv, LimiterTypeOK
  <2> QED BY <1>1, <1>2, <1>3, <1>6, <2>1, <2>2, <2>3 DEF LimiterTypeOK
<1>8. /\ BucketIn(bucket', k) = put
      /\ \A x \in Callers : x # k => BucketIn(bucket', x) = BucketIn(kept, x)
  BY <1>1 DEF BucketIn, Put
<1>9. /\ IsEnd(put, granted'[k], clock)
      /\ Ordered(granted'[k], clock) /\ Spread(granted'[k])
  <2>1. Ordered(granted[k], clock) /\ Spread(granted[k]) /\ granted[k] \in Seq(Nat)
    BY <1>2 DEF LimiterIInv
  <2>2. CASE Len(live) < Limit
    <3>1. granted'[k] = Append(granted[k], clock) /\ put = Append(live, clock)
      BY <1>1, <2>2 DEF put, LimiterIInv, LimiterTypeOK
    <3> QED BY <1>2, <1>5, <2>1, <2>2, <3>1, AppendedEnd, AppendedOrder, AppendedSpread
  <2>3. CASE ~(Len(live) < Limit)
    <3>1. granted'[k] = granted[k] /\ put = live
      BY <1>1, <2>3 DEF put
    <3> QED BY <1>5, <2>1, <3>1
  <2> QED BY <2>2, <2>3
<1>10. ASSUME NEW x \in Callers, x # k
       PROVE  /\ IsEnd(BucketIn(bucket', x), granted'[x], clock)
              /\ Ordered(granted'[x], clock) /\ Spread(granted'[x])
  <2>1. granted'[x] = granted[x] /\ BucketIn(bucket', x) = BucketIn(kept, x)
    BY <1>1, <1>8, <1>10 DEF LimiterIInv, LimiterTypeOK
  <2> QED BY <1>4, <2>1 DEF LimiterIInv
<1>11. \A x \in Callers : BucketIn(bucket, x)' = BucketIn(bucket', x)
  BY DEF BucketIn
<1> QED BY <1>1, <1>7, <1>8, <1>9, <1>10, <1>11 DEF LimiterIInv

LEMMA LimiterNextIInv == LimiterIInv /\ [LimiterNext]_limiterVars => LimiterIInv'
<1> SUFFICES ASSUME LimiterIInv, [LimiterNext]_limiterVars PROVE LimiterIInv'
  OBVIOUS
<1>1. ASSUME NEW k \in Callers, Allow(k) PROVE LimiterIInv'
  BY <1>1, AllowIInv
<1>2. CASE TickLimiter
  BY <1>2, TickIInv
<1>3. CASE UNCHANGED limiterVars
  <2>1. LimiterTypeOK'
    BY <1>3 DEF limiterVars, LimiterIInv, LimiterTypeOK
  <2>2. \A k : BucketIn(bucket, k)' = BucketIn(bucket, k)
    BY <1>3 DEF limiterVars, BucketIn
  <2> QED BY <1>3, <2>1, <2>2 DEF limiterVars, LimiterIInv
<1> QED BY <1>1, <1>2, <1>3 DEF LimiterNext

LEMMA LimiterInvariance == LimiterSpec => []LimiterIInv
BY LimiterInitIInv, LimiterNextIInv, PTL DEF LimiterSpec

-----------------------------------------------------------------------------
(* Theorems *)

\* Every reachable state of the limiter is well typed
\* (InMemoryRateLimiter.allow).
THEOREM LimiterTypeCorrect == LimiterSpec => []LimiterTypeOK
<1>1. LimiterIInv => LimiterTypeOK
  BY DEF LimiterIInv
<1> QED BY <1>1, LimiterInvariance, PTL

\* A call is judged by the requests of the last window, no fewer and no more,
\* whenever either trim has run (InMemoryRateLimiter.allow, _evict_expired).
THEOREM WindowIsCounted == LimiterSpec => []CountsTheWindow
<1>1. LimiterIInv => CountsTheWindow
  <2> SUFFICES ASSUME LimiterIInv, NEW k \in Callers
               PROVE  Len(Trimmed(Kept(bucket), k)) =
                        Cardinality({i \in DOMAIN granted[k] : granted[k][i] > clock - Window})
    BY DEF CountsTheWindow
  <2> DEFINE live == Trimmed(Kept(bucket), k)
  <2>1. live \in Seq(Nat) /\ IsEnd(live, granted[k], clock)
        /\ (live # <<>> => live[1] > clock - Window)
    BY LiveEnd
  <2>2. clock \in Nat /\ granted[k] \in Seq(Nat) /\ Ordered(granted[k], clock)
    BY LimiterAssumption DEF LimiterIInv, LimiterTypeOK
  <2> HIDE DEF live
  <2>3. Len(live) = Cardinality({i \in DOMAIN granted[k] : granted[k][i] > clock - Window})
    BY <2>1, <2>2, EndCounts
  <2> QED BY <2>3 DEF live
<1> QED BY <1>1, LimiterInvariance, PTL

\* Whatever the sweep has evicted in between, no key is let through more than
\* Limit times in any stretch of one window (InMemoryRateLimiter.allow).
THEOREM WindowHolds == LimiterSpec => []NoWindowExceeded
<1>1. LimiterIInv => NoWindowExceeded
  <2> SUFFICES ASSUME LimiterIInv, NEW k \in Callers, NEW from \in 0..MaxClock
               PROVE  Cardinality({i \in DOMAIN granted[k] :
                        from <= granted[k][i] /\ granted[k][i] < from + Window}) <= Limit
    BY DEF NoWindowExceeded
  <2>1. /\ granted[k] \in Seq(Nat) /\ from \in Nat
        /\ Ordered(granted[k], clock) /\ Spread(granted[k])
    BY DEF LimiterIInv, LimiterTypeOK
  <2> QED BY <2>1, SpreadFits
<1> QED BY <1>1, LimiterInvariance, PTL

(***************************************************************************)
(* Proofs about ResearchBudget, for any harvests and fetches, any monthly  *)
(* limits and any number of months.                                        *)
(***************************************************************************)

\* The spenders of p that have a call reserved and have not made it yet.
Reserved(p) == {c \in Holders(p) : Granted(c)}

\* What was reserved in a month before the first turn has been spent or is
\* still held; later, each spender may bring one call over from before.
CarriedOver(p) == IF month = 0 THEN 0 ELSE Cardinality(Holders(p))
SpentOrHeld ==
    \A p \in Providers :
        made[p][month] + Cardinality(Reserved(p)) <= used[p][month] + CarriedOver(p)

\* Nothing has happened in months to come.
FutureIsBlank ==
    \A p \in Providers, m \in Months : m > month => used[p][m] = 0 /\ made[p][m] = 0

\* A month that is over keeps its bound.
PastHolds ==
    \A p \in Providers, m \in Months : m <= month =>
        made[p][m] <= used[p][m] + (IF m = 0 THEN 0 ELSE Cardinality(Holders(p)))

\* A harvest that goes on has a query left.
QueriesLeft ==
    \A c \in Spenders : spender[c].step \in {"asking", "granted"} => spender[c].query < Queries

BudgetIInv ==
    /\ BudgetTypeOK
    /\ BudgetHolds
    /\ SpentOrHeld
    /\ FutureIsBlank
    /\ PastHolds
    /\ QueriesLeft

\* The states a spender may go to without a new reservation.
Ungranted ==
    {s \in [step : Steps \ {"granted"}, first : {"direct", "jina"}, query : 0..Queries] :
        s.step = "asking" => s.query < Queries}

\* A harvest that has used its grant for a query goes on or imports.
LEMMA SearchedSpender ==
    ASSUME NEW r \in [step : Steps, first : {"direct", "jina"}, query : 0..Queries],
           r.query + 1 \in 0..Queries
    PROVE  [r EXCEPT !.step = IF r.query + 1 < Queries THEN "asking" ELSE "importing",
                     !.query = r.query + 1] \in Ungranted
<1>1. ASSUME NEW a \in {"asking", "importing"}, NEW n \in 0..Queries,
             a = "asking" => n < Queries
      PROVE  [r EXCEPT !.step = a, !.query = n] \in Ungranted
  <2> DEFINE s == [r EXCEPT !.step = a, !.query = n]
  <2>1. s \in [step : Steps \ {"granted"}, first : {"direct", "jina"}, query : 0..Queries]
    BY DEF Steps
  <2>2. s.step = a /\ s.query = n
    OBVIOUS
  <2> HIDE DEF s
  <2>3. s \in Ungranted
    BY <1>1, <2>1, <2>2 DEF Ungranted
  <2> QED BY <2>3 DEF s
<1>2. CASE r.query + 1 < Queries
  BY <1>1, <1>2
<1>3. CASE ~(r.query + 1 < Queries)
  BY <1>1, <1>3
<1> QED BY <1>2, <1>3

-----------------------------------------------------------------------------
(* Counting the spenders *)

LEMMA HoldersFinite ==
    ASSUME NEW p \in Providers
    PROVE  IsFiniteSet(Holders(p)) /\ Cardinality(Holders(p)) \in Nat
<1>1. IsFiniteSet(Spenders)
  BY BudgetAssumption, FS_Union DEF Spenders
<1> QED BY <1>1, FS_Subset, FS_CardinalityType DEF Holders

LEMMA ReservedCount ==
    ASSUME NEW p \in Providers
    PROVE  /\ IsFiniteSet(Reserved(p)) /\ Cardinality(Reserved(p)) \in Nat
           /\ Cardinality(Reserved(p)) <= Cardinality(Holders(p))
BY HoldersFinite, FS_Subset, FS_CardinalityType DEF Reserved

LEMMA ProviderOfSpender == \A c \in Spenders : ProviderOf(c) \in Providers
BY DEF ProviderOf, Providers

LEMMA HoldersKept == \A p \in Providers : Holders(p)' = Holders(p)
BY DEF Holders, ProviderOf

LEMMA ReservedCountNext ==
    ASSUME NEW p \in Providers
    PROVE  IsFiniteSet(Reserved(p)') /\ Cardinality(Reserved(p)') \in Nat
<1>1. Reserved(p)' \subseteq Holders(p)
  BY HoldersKept DEF Reserved
<1> QED BY <1>1, HoldersFinite, FS_Subset, FS_CardinalityType

\* A spender that did not hold a reservation and gets one, or had one and
\* gives it up, changes its own provider's count by one.
LEMMA ReservedSteps ==
    ASSUME BudgetTypeOK, NEW c \in Spenders, NEW s, spender' = [spender EXCEPT ![c] = s],
           NEW p \in Providers
    PROVE  /\ ProviderOf(c) # p => Reserved(p)' = Reserved(p)
           /\ ProviderOf(c) = p /\ s.step = "granted" => Reserved(p)' = Reserved(p) \cup {c}
           /\ ProviderOf(c) = p /\ s.step # "granted" => Reserved(p)' = Reserved(p) \ {c}
BY DEF BudgetTypeOK, Reserved, Holders, ProviderOf, Granted, Spenders

LEMMA ReservedCountSteps ==
    ASSUME BudgetTypeOK, NEW c \in Spenders, NEW s, spender' = [spender EXCEPT ![c] = s],
           NEW p \in Providers
    PROVE  Cardinality(Reserved(p)') =
             IF ProviderOf(c) # p THEN Cardinality(Reserved(p))
             ELSE IF s.step = "granted" /\ ~Granted(c) THEN Cardinality(Reserved(p)) + 1
             ELSE IF s.step # "granted" /\ Granted(c) THEN Cardinality(Reserved(p)) - 1
             ELSE Cardinality(Reserved(p))
<1>1. IsFiniteSet(Reserved(p)) /\ Cardinality(Reserved(p)) \in Nat
  BY ReservedCount
<1>2. ProviderOf(c) = p => (c \in Reserved(p) <=> Granted(c))
  BY DEF Reserved, Holders
<1>3. CASE ProviderOf(c) # p
  BY <1>3, ReservedSteps
<1>4. CASE ProviderOf(c) = p /\ s.step = "granted"
  <2>1. Cardinality(Reserved(p) \cup {c}) =
          IF c \in Reserved(p) THEN Cardinality(Reserved(p)) ELSE Cardinality(Reserved(p)) + 1
    BY <1>1, FS_AddElement
  <2> QED BY <1>2, <1>4, <2>1, ReservedSteps
<1>5. CASE ProviderOf(c) = p /\ s.step # "granted"
  <2>1. Cardinality(Reserved(p) \ {c}) =
          IF c \in Reserved(p) THEN Cardinality(Reserved(p)) - 1 ELSE Cardinality(Reserved(p))
    BY <1>1, FS_RemoveElement
  <2> QED BY <1>2, <1>5, <2>1, ReservedSteps
<1> QED BY <1>3, <1>4, <1>5

\* A step that only moves a spender, and grants nothing, keeps the invariant.
LEMMA MoveIInv ==
    ASSUME BudgetIInv, NEW c \in Spenders,
           NEW s \in Ungranted,
           Go(c, s), UNCHANGED <<month, used, made>>
    PROVE  BudgetIInv'
<1>1. BudgetTypeOK' /\ QueriesLeft'
  BY DEF BudgetIInv, BudgetTypeOK, QueriesLeft, Go, Ungranted
<1>2. SpentOrHeld'
  <2> SUFFICES ASSUME NEW p \in Providers
               PROVE  made[p][month] + Cardinality(Reserved(p)')
                        <= used[p][month] + CarriedOver(p)
    BY DEF SpentOrHeld, CarriedOver, Holders, ProviderOf
  <2>1. Cardinality(Reserved(p)') <= Cardinality(Reserved(p))
        /\ Cardinality(Reserved(p)') \in Int
    <3>1. s.step # "granted"
      BY DEF Ungranted
    <3>2. Cardinality(Reserved(p)') \in Nat /\ Cardinality(Reserved(p)) \in Nat
      BY ReservedCount, ReservedCountNext
    <3>3. \/ Cardinality(Reserved(p)') = Cardinality(Reserved(p))
          \/ Cardinality(Reserved(p)') = Cardinality(Reserved(p)) - 1
      BY <3>1, ReservedCountSteps DEF BudgetIInv, Go
    <3> QED BY <3>2, <3>3
  <2>2. /\ made[p][month] \in Nat /\ used[p][month] \in Nat
        /\ CarriedOver(p) \in Nat /\ Cardinality(Reserved(p)) \in Nat
    BY ReservedCount, HoldersFinite DEF BudgetIInv, BudgetTypeOK, CarriedOver
  <2>3. made[p][month] + Cardinality(Reserved(p)) <= used[p][month] + CarriedOver(p)
    BY DEF BudgetIInv, SpentOrHeld
  <2> QED BY <2>1, <2>2, <2>3
<1>3. BudgetHolds' /\ FutureIsBlank'
  BY DEF BudgetIInv, BudgetHolds, FutureIsBlank, Ceiling
<1>4. PastHolds'
  BY DEF BudgetIInv, PastHolds, Holders, ProviderOf
<1> QED BY <1>1, <1>2, <1>3, <1>4 DEF BudgetIInv

-----------------------------------------------------------------------------
(* The invariant holds initially and is kept by every step. *)

LEMMA BudgetInitIInv == BudgetInit => BudgetIInv
<1> SUFFICES ASSUME BudgetInit PROVE BudgetIInv
  OBVIOUS
<1> USE BudgetAssumption DEF BudgetInit
<1>1. BudgetTypeOK
  BY DEF BudgetTypeOK, Months, Steps, AtRest
<1>2. BudgetHolds /\ FutureIsBlank /\ QueriesLeft
  BY DEF BudgetHolds, FutureIsBlank, QueriesLeft, Ceiling, Months, AtRest
<1>3. SpentOrHeld
  <2>1. \A p \in Providers : Reserved(p) = {}
    BY DEF Reserved, Holders, Granted, AtRest
  <2>2. \A p \in Providers : made[p][month] = 0 /\ used[p][month] = 0 /\ CarriedOver(p) = 0
    BY DEF CarriedOver, Months
  <2>3. \A p \in Providers : Cardinality(Reserved(p)) = 0
    BY <2>1, FS_EmptySet
  <2> QED BY <2>2, <2>3 DEF SpentOrHeld
<1>4. PastHolds
  BY HoldersFinite DEF PastHolds, Months
<1> QED BY <1>1, <1>2, <1>3, <1>4 DEF BudgetIInv

\* A reservation is counted and held.
LEMMA GrantIInv ==
    ASSUME BudgetIInv, NEW c \in Spenders, spender[c].step = "asking",
           Allowed(ProviderOf(c), used[ProviderOf(c)][month]),
           used' = [used EXCEPT ![ProviderOf(c)][month] = used[ProviderOf(c)][month] + 1],
           Go(c, [spender[c] EXCEPT !.step = "granted"]),
           UNCHANGED <<month, made>>
    PROVE  BudgetIInv'
<1> DEFINE q == ProviderOf(c)
<1>1. q \in Providers /\ month \in Months /\ used[q][month] \in Nat
  BY ProviderOfSpender DEF BudgetIInv, BudgetTypeOK
<1>2. used[q][month] + 1 <= Ceiling(q)
  BY <1>1, BudgetAssumption DEF Allowed, Ceiling
<1>3. /\ \A p \in Providers, m \in Months : p # q \/ m # month => used'[p][m] = used[p][m]
      /\ used'[q][month] = used[q][month] + 1
  BY <1>1 DEF BudgetIInv, BudgetTypeOK
<1>4. BudgetTypeOK'
  <2>1. [spender[c] EXCEPT !.step = "granted"] \in
          [step : Steps, first : {"direct", "jina"}, query : 0..Queries]
    BY DEF BudgetIInv, BudgetTypeOK, Steps
  <2>2. spender' \in [Spenders -> [step : Steps, first : {"direct", "jina"}, query : 0..Queries]]
    BY <2>1 DEF BudgetIInv, BudgetTypeOK, Go
  <2>3. used' \in [Providers -> [Months -> Nat]]
    BY <1>1 DEF BudgetIInv, BudgetTypeOK
  <2> QED BY <2>2, <2>3 DEF BudgetIInv, BudgetTypeOK
<1>5. BudgetHolds' /\ QueriesLeft'
  BY <1>2, <1>3 DEF BudgetIInv, BudgetTypeOK, BudgetHolds, Ceiling, QueriesLeft, Go
<1>6. SpentOrHeld'
  <2> SUFFICES ASSUME NEW p \in Providers
               PROVE  made[p][month] + Cardinality(Reserved(p)')
                        <= used'[p][month] + CarriedOver(p)
    BY DEF SpentOrHeld, CarriedOver, Holders, ProviderOf
  <2>1. Cardinality(Reserved(p)') =
          IF q # p THEN Cardinality(Reserved(p)) ELSE Cardinality(Reserved(p)) + 1
    <3>1. /\ [spender[c] EXCEPT !.step = "granted"].step = "granted"
          /\ ~Granted(c)
      BY DEF BudgetIInv, BudgetTypeOK, Granted
    <3> QED BY <3>1, ReservedCountSteps DEF BudgetIInv, Go
  <2>2. /\ made[p][month] \in Nat /\ used[p][month] \in Nat
        /\ CarriedOver(p) \in Nat /\ Cardinality(Reserved(p)) \in Nat
    BY ReservedCount, HoldersFinite DEF BudgetIInv, BudgetTypeOK, CarriedOver
  <2>3. made[p][month] + Cardinality(Reserved(p)) <= used[p][month] + CarriedOver(p)
    BY DEF BudgetIInv, SpentOrHeld
  <2> QED BY <1>1, <1>3, <2>1, <2>2, <2>3
<1>7. FutureIsBlank'
  BY <1>1, <1>3 DEF BudgetIInv, FutureIsBlank, Months
<1>8. PastHolds'
  <2> SUFFICES ASSUME NEW p \in Providers, NEW m \in Months, m <= month
               PROVE  made[p][m] <= used'[p][m] + (IF m = 0 THEN 0 ELSE Cardinality(Holders(p)))
    BY DEF PastHolds, Holders, ProviderOf
  <2>1. made[p][m] <= used[p][m] + (IF m = 0 THEN 0 ELSE Cardinality(Holders(p)))
    BY DEF BudgetIInv, PastHolds
  <2>2. /\ made[p][m] \in Nat /\ used[p][m] \in Nat
        /\ Cardinality(Holders(p)) \in Nat
        /\ used'[p][m] \in {used[p][m], used[p][m] + 1}
    BY <1>1, <1>3, HoldersFinite DEF BudgetIInv, BudgetTypeOK
  <2> QED BY <2>1, <2>2
<1> QED BY <1>4, <1>5, <1>6, <1>7, <1>8 DEF BudgetIInv

\* A call spends a reservation.
LEMMA CallIInv ==
    ASSUME BudgetIInv, NEW c \in Spenders, Called(c),
           NEW s \in Ungranted,
           Go(c, s), UNCHANGED <<month, used>>
    PROVE  BudgetIInv'
<1> DEFINE q == ProviderOf(c)
<1>1. q \in Providers /\ month \in Months
  BY ProviderOfSpender DEF BudgetIInv, BudgetTypeOK
<1>2. made' = [made EXCEPT ![q][month] = made[q][month] + 1]
  BY <1>1 DEF Called, BudgetIInv, BudgetTypeOK
<1>3. /\ \A p \in Providers, m \in Months : p # q \/ m # month => made'[p][m] = made[p][m]
      /\ made'[q][month] = made[q][month] + 1
  BY <1>1, <1>2 DEF BudgetIInv, BudgetTypeOK
<1>4. BudgetTypeOK'
  <2>1. made' \in [Providers -> [Months -> Nat]]
    BY <1>1, <1>2 DEF BudgetIInv, BudgetTypeOK
  <2>2. spender' \in [Spenders -> [step : Steps, first : {"direct", "jina"}, query : 0..Queries]]
    BY DEF BudgetIInv, BudgetTypeOK, Go, Ungranted
  <2> QED BY <2>1, <2>2 DEF BudgetIInv, BudgetTypeOK
<1>5. \A p \in Providers :
         /\ Cardinality(Reserved(p)') =
               IF q # p THEN Cardinality(Reserved(p)) ELSE Cardinality(Reserved(p)) - 1
         /\ Cardinality(Reserved(p)') \in Nat
         /\ Cardinality(Reserved(p)) \in Nat
  <2> SUFFICES ASSUME NEW p \in Providers
               PROVE  /\ Cardinality(Reserved(p)') =
                           IF q # p THEN Cardinality(Reserved(p))
                           ELSE Cardinality(Reserved(p)) - 1
                      /\ Cardinality(Reserved(p)') \in Nat
                      /\ Cardinality(Reserved(p)) \in Nat
    OBVIOUS
  <2>1. Cardinality(Reserved(p)') =
          IF q # p THEN Cardinality(Reserved(p)) ELSE Cardinality(Reserved(p)) - 1
    BY ReservedCountSteps DEF BudgetIInv, Go, Called, Ungranted
  <2> QED BY <2>1, ReservedCount, ReservedCountNext
<1>6. SpentOrHeld'
  <2> SUFFICES ASSUME NEW p \in Providers
               PROVE  made'[p][month] + Cardinality(Reserved(p)')
                        <= used[p][month] + CarriedOver(p)
    BY DEF SpentOrHeld, CarriedOver, Holders, ProviderOf
  <2>2. /\ made[p][month] \in Nat /\ used[p][month] \in Nat /\ CarriedOver(p) \in Nat
    BY HoldersFinite DEF BudgetIInv, BudgetTypeOK, CarriedOver
  <2>3. made[p][month] + Cardinality(Reserved(p)) <= used[p][month] + CarriedOver(p)
    BY DEF BudgetIInv, SpentOrHeld
  <2> QED BY <1>1, <1>3, <1>5, <2>2, <2>3
<1>7. BudgetHolds' /\ FutureIsBlank' /\ QueriesLeft'
  BY <1>1, <1>3 DEF BudgetIInv, BudgetTypeOK, BudgetHolds, FutureIsBlank, QueriesLeft, Ceiling, Months,
                    Go, Ungranted
<1>8. PastHolds'
  <2> SUFFICES ASSUME NEW p \in Providers, NEW m \in Months, m <= month
               PROVE  made'[p][m] <= used[p][m] + (IF m = 0 THEN 0 ELSE Cardinality(Holders(p)))
    BY DEF PastHolds, Holders, ProviderOf
  <2>1. CASE p # q \/ m # month
    BY <1>3, <2>1 DEF BudgetIInv, PastHolds
  <2>2. CASE p = q /\ m = month
    <3>1. made[p][m] + Cardinality(Reserved(p)) <= used[p][m] + CarriedOver(p)
      BY <2>2 DEF BudgetIInv, SpentOrHeld
    <3>2. made[p][m] \in Nat /\ used[p][m] \in Nat /\ CarriedOver(p) \in Nat
      BY HoldersFinite DEF BudgetIInv, BudgetTypeOK, CarriedOver
    <3>3. Cardinality(Reserved(p)) >= 1
      BY <1>5, <2>2
    <3>4. CarriedOver(p) = IF m = 0 THEN 0 ELSE Cardinality(Holders(p))
      BY <2>2 DEF CarriedOver
    <3>5. made'[p][m] = made[p][m] + 1 /\ Cardinality(Reserved(p)) \in Nat
      BY <1>3, <1>5, <2>2
    <3> QED BY <3>1, <3>2, <3>3, <3>4, <3>5
  <2> QED BY <2>1, <2>2
<1> QED BY <1>4, <1>6, <1>7, <1>8 DEF BudgetIInv

LEMMA NextMonthIInv == ASSUME BudgetIInv, NextMonth PROVE BudgetIInv'
<1>1. /\ month \in Months /\ month + 1 \in Months /\ month' = month + 1
      /\ month \in Nat /\ UNCHANGED <<used, spender, made>>
  BY BudgetAssumption DEF BudgetIInv, BudgetTypeOK, NextMonth, Months
<1>2. BudgetTypeOK' /\ BudgetHolds' /\ QueriesLeft'
  BY <1>1 DEF BudgetIInv, BudgetTypeOK, BudgetHolds, Ceiling, QueriesLeft
<1>3. FutureIsBlank'
  BY <1>1 DEF BudgetIInv, FutureIsBlank, Months
<1>4. SpentOrHeld'
  <2> SUFFICES ASSUME NEW p \in Providers
               PROVE  made[p][month + 1] + Cardinality(Reserved(p))
                        <= used[p][month + 1] + Cardinality(Holders(p))
    BY <1>1 DEF SpentOrHeld, CarriedOver, Holders, ProviderOf, Reserved, Granted
  <2>1. made[p][month + 1] = 0 /\ used[p][month + 1] = 0
    BY <1>1 DEF BudgetIInv, FutureIsBlank
  <2> QED BY <2>1, ReservedCount, HoldersFinite
<1>5. PastHolds'
  <2> SUFFICES ASSUME NEW p \in Providers, NEW m \in Months, m <= month + 1
               PROVE  made[p][m] <= used[p][m] + (IF m = 0 THEN 0 ELSE Cardinality(Holders(p)))
    BY <1>1 DEF PastHolds, Holders, ProviderOf
  <2>1. CASE m <= month
    BY <2>1 DEF BudgetIInv, PastHolds
  <2>2. CASE m = month + 1
    <3>1. made[p][m] = 0 /\ used[p][m] = 0
      BY <1>1, <2>2 DEF BudgetIInv, FutureIsBlank
    <3> QED BY <3>1, HoldersFinite
  <2> QED BY <1>1, <2>1, <2>2 DEF Months
<1> QED BY <1>2, <1>3, <1>4, <1>5 DEF BudgetIInv

LEMMA ReserveCallIInv ==
    ASSUME BudgetIInv, NEW c \in Spenders, ReserveCall(c) PROVE BudgetIInv'
<1>1. CASE Allowed(ProviderOf(c), used[ProviderOf(c)][month])
  BY <1>1, GrantIInv DEF ReserveCall
<1>2. CASE ~Allowed(ProviderOf(c), used[ProviderOf(c)][month])
  <2>1. Refused(c) \in Ungranted
    BY BudgetAssumption DEF BudgetIInv, BudgetTypeOK, Refused, AtRest, Ungranted, Steps
  <2> QED BY <1>2, <2>1, MoveIInv DEF ReserveCall
<1> QED BY <1>1, <1>2

LEMMA HarvestIInv ==
    ASSUME BudgetIInv, NEW h \in Harvesters, StartHarvest(h) \/ Search(h) \/ ImportFound(h)
    PROVE  BudgetIInv'
<1> USE BudgetAssumption
<1>1. h \in Spenders
  BY DEF Spenders
<1>2. CASE StartHarvest(h)
  <2>1. [AtRest EXCEPT !.step = "asking"] \in Ungranted
    BY DEF AtRest, Ungranted, Steps
  <2> QED BY <1>1, <1>2, <2>1, MoveIInv DEF StartHarvest
<1>3. CASE Search(h)
  <2> DEFINE s == [spender[h] EXCEPT
                !.step = IF spender[h].query + 1 < Queries THEN "asking" ELSE "importing",
                !.query = spender[h].query + 1]
  <2>1. s \in Ungranted
    <3>1. /\ spender[h] \in [step : Steps, first : {"direct", "jina"}, query : 0..Queries]
          /\ spender[h].query < Queries
      BY <1>1, <1>3 DEF BudgetIInv, BudgetTypeOK, QueriesLeft, Search, Called, Granted
    <3>2. spender[h].query + 1 \in 0..Queries
      BY <3>1
    <3> QED BY <3>1, <3>2, SearchedSpender
  <2>2. Called(h) /\ Go(h, s) /\ UNCHANGED <<month, used>>
    BY <1>3 DEF Search
  <2> QED BY <1>1, <2>1, <2>2, CallIInv
<1>4. CASE ImportFound(h)
  <2>1. AtRest \in Ungranted
    BY DEF AtRest, Ungranted, Steps
  <2> QED BY <1>1, <1>4, <2>1, MoveIInv DEF ImportFound
<1> QED BY <1>2, <1>3, <1>4

LEMMA FetchIInv ==
    ASSUME BudgetIInv, NEW f \in Fetchers, StartFetch(f) \/ ReadThroughJina(f) \/ ReadDirectly(f)
    PROVE  BudgetIInv'
<1> USE BudgetAssumption
<1>1. f \in Spenders
  BY DEF Spenders
<1>2. AtRest \in Ungranted
  BY DEF AtRest, Ungranted, Steps
<1>3. CASE StartFetch(f)
  <2>1. PICK first \in {"direct", "jina"} :
          Go(f, [AtRest EXCEPT !.step = "asking", !.first = first])
    BY <1>3 DEF StartFetch
  <2>2. [AtRest EXCEPT !.step = "asking", !.first = first] \in Ungranted
    <3>1. AtRest \in [step : Steps, first : {"direct", "jina"}, query : 0..Queries]
          /\ AtRest.query = 0
      BY DEF AtRest, Steps
    <3>2. [AtRest EXCEPT !.step = "asking", !.first = first]
            \in [step : Steps \ {"granted"}, first : {"direct", "jina"}, query : 0..Queries]
      BY <3>1 DEF Steps
    <3>3. [AtRest EXCEPT !.step = "asking", !.first = first].query = 0
      BY <3>1
    <3> DEFINE s == [AtRest EXCEPT !.step = "asking", !.first = first]
    <3>4. s \in [step : Steps \ {"granted"}, first : {"direct", "jina"}, query : 0..Queries]
          /\ s.query < Queries
      BY <3>2, <3>3
    <3> HIDE DEF s
    <3>5. s \in Ungranted
      BY <3>4 DEF Ungranted
    <3> QED BY <3>5 DEF s
  <2> QED BY <1>1, <1>3, <2>1, <2>2, MoveIInv DEF StartFetch
<1>4. CASE ReadThroughJina(f)
  <2>1. [spender[f] EXCEPT !.step = "direct"] \in Ungranted
    BY <1>1 DEF BudgetIInv, BudgetTypeOK, Ungranted, Steps
  <2> QED BY <1>1, <1>2, <1>4, <2>1, CallIInv DEF ReadThroughJina
<1>5. CASE ReadDirectly(f)
  BY <1>1, <1>2, <1>5, MoveIInv DEF ReadDirectly
<1> QED BY <1>3, <1>4, <1>5

LEMMA AbortIInv == ASSUME BudgetIInv, NEW c \in Spenders, Abort(c) PROVE BudgetIInv'
<1>1. AtRest \in Ungranted
  BY BudgetAssumption DEF AtRest, Ungranted, Steps
<1> QED BY <1>1, MoveIInv DEF Abort

LEMMA BudgetNextIInv == BudgetIInv /\ [BudgetNext]_budgetVars => BudgetIInv'
<1> SUFFICES ASSUME BudgetIInv, [BudgetNext]_budgetVars PROVE BudgetIInv'
  OBVIOUS
<1>1. ASSUME NEW c \in Spenders, ReserveCall(c) \/ Abort(c) PROVE BudgetIInv'
  BY <1>1, ReserveCallIInv, AbortIInv
<1>2. CASE NextMonth
  BY <1>2, NextMonthIInv
<1>3. CASE UNCHANGED budgetVars
  BY <1>3 DEF budgetVars, BudgetIInv, BudgetTypeOK, BudgetHolds, SpentOrHeld, FutureIsBlank, PastHolds,
              QueriesLeft, CarriedOver, Reserved, Holders, ProviderOf, Granted, Ceiling
<1> QED BY <1>1, <1>2, <1>3, HarvestIInv, FetchIInv DEF BudgetNext

LEMMA BudgetInvariance == BudgetSpec => []BudgetIInv
BY BudgetInitIInv, BudgetNextIInv, PTL DEF BudgetSpec

-----------------------------------------------------------------------------
(* Theorems *)

\* Every reachable state of the budget and its spenders is well typed.
THEOREM BudgetTypeCorrect == BudgetSpec => []BudgetTypeOK
<1>1. BudgetIInv => BudgetTypeOK
  BY DEF BudgetIInv
<1> QED BY <1>1, BudgetInvariance, PTL

\* However many harvests and fetches reserve at the same moment, a month's
\* count never passes the limit, or one if the limit is 0 (reserve_call).
THEOREM CountWithinLimit == BudgetSpec => []BudgetHolds
<1>1. BudgetIInv => BudgetHolds
  BY DEF BudgetIInv
<1> QED BY <1>1, BudgetInvariance, PTL

\* What a provider is asked in one of its months is within the limit, plus a
\* call for each spender whose reservation is older than the month.
THEOREM SpendBounded == BudgetSpec => []SpendFollowsGrant
<1>1. BudgetIInv => SpendFollowsGrant
  <2> SUFFICES ASSUME BudgetIInv, NEW p \in Providers, NEW m \in Months
               PROVE  /\ made[p][m] <= Ceiling(p) +
                            (IF m = 0 THEN 0 ELSE Cardinality(Holders(p)))
                      /\ made[p][0] <= used[p][0]
    BY DEF SpendFollowsGrant
  <2>1. /\ month \in Nat /\ 0 \in Months /\ m \in Nat
        /\ \A n \in Months : made[p][n] \in Nat /\ used[p][n] \in Nat
        /\ Ceiling(p) \in Nat
    BY BudgetAssumption DEF BudgetIInv, BudgetTypeOK, Months, Ceiling
  <2>2. made[p][0] <= used[p][0]
    BY <2>1 DEF BudgetIInv, PastHolds
  <2>3. used[p][m] <= Ceiling(p)
    BY DEF BudgetIInv, BudgetHolds
  <2>4. made[p][m] <= used[p][m] + (IF m = 0 THEN 0 ELSE Cardinality(Holders(p)))
    <3>1. CASE m <= month
      BY <3>1 DEF BudgetIInv, PastHolds
    <3>2. CASE m > month
      <4>1. made[p][m] = 0 /\ used[p][m] = 0
        BY <3>2 DEF BudgetIInv, FutureIsBlank
      <4> QED BY <4>1, HoldersFinite
    <3> QED BY <2>1, <3>1, <3>2
  <2> QED BY <2>1, <2>2, <2>3, <2>4, HoldersFinite
<1> QED BY <1>1, BudgetInvariance, PTL

-----------------------------------------------------------------------------
(***************************************************************************)
(* Proofs about HarvestHealth, for any sources, calls and runs.  A run     *)
(* that has always been alone has read the counters that are still in the  *)
(* table; as soon as two are out, every source is blurred until a run of   *)
(* its own has had an answer from it.                                      *)
(***************************************************************************)

Told == [source : HarvestSources, all : BOOLEAN]
RunRecord ==
    [at : 1..(Places + 1), chosen : SUBSET HarvestSources,
     read : [HarvestSources -> Nat], new : [HarvestSources -> Nat],
     told : SUBSET Told, alone : BOOLEAN]

HealthTypes ==
    /\ enabled \in [HarvestSources -> BOOLEAN]
    /\ failing \in [HarvestSources -> Nat]
    /\ harvest \in [Harvests -> {AtHome} \cup RunRecord]
    /\ begun \in 0..MaxHarvests
    /\ streak \in [HarvestSources -> Nat]
    /\ blurred \subseteq HarvestSources

\* A run's counters are the ones it read, changed by what it was told; it has
\* been told of a source before its place at most, and once.
All(s) == [source |-> s, all |-> TRUE]
Some(s) == [source |-> s, all |-> FALSE]
Tells(r) ==
    \A s \in HarvestSources :
        /\ All(s) \in r.told => r.new[s] = r.read[s] + 1
        /\ Some(s) \in r.told => r.new[s] = 0
        /\ All(s) \notin r.told /\ Some(s) \notin r.told => r.new[s] = r.read[s]
        /\ ~(All(s) \in r.told /\ Some(s) \in r.told)
        /\ s >= r.at => All(s) \notin r.told /\ Some(s) \notin r.told

HealthIInv ==
    /\ HealthTypes
    /\ \A h \in Harvests : Out(h) =>
        /\ Tells(harvest[h])
        /\ harvest[h].alone => Alone(h) /\ harvest[h].read = failing
        /\ ~harvest[h].alone => blurred = HarvestSources
    /\ CounterIsStreak

-----------------------------------------------------------------------------

LEMMA HealthInitIInv == HealthInit => HealthIInv
<1> SUFFICES ASSUME HealthInit PROVE HealthIInv
  OBVIOUS
<1>1. HealthTypes
  BY HealthAssumption DEF HealthInit, HealthTypes
<1>2. \A h \in Harvests : ~Out(h)
  BY DEF HealthInit, Out, AtHome
<1>3. CounterIsStreak
  BY DEF HealthInit, CounterIsStreak
<1> QED BY <1>1, <1>2, <1>3 DEF HealthIInv

LEMMA RunOut ==
    ASSUME HealthTypes, NEW h \in Harvests, Out(h)
    PROVE  harvest[h] \in RunRecord
BY DEF HealthTypes, Out, AtHome

\* StartRun: a run alone has read what is in the table; a second one blurs all.
LEMMA StartKeeps == ASSUME HealthIInv, NEW h \in Harvests, StartRun(h) PROVE HealthIInv'
<1> DEFINE r == [at |-> 1, chosen |-> {s \in HarvestSources : enabled[s]},
                 read |-> failing, new |-> failing, told |-> {}, alone |-> Alone(h)]
           seen(g) == [harvest[g] EXCEPT !.alone = FALSE]
<1>1. /\ harvest' = [g \in Harvests |->
                        IF g = h THEN r ELSE IF Out(g) THEN seen(g) ELSE harvest[g]]
      /\ begun' = begun + 1 /\ begun < MaxHarvests
      /\ blurred' = IF Alone(h) THEN blurred ELSE HarvestSources
      /\ UNCHANGED <<enabled, failing, streak>>
      /\ HealthTypes
  BY DEF StartRun, HealthIInv
<1>2. r \in RunRecord /\ r.at = 1 /\ r.alone = Alone(h) /\ r.read = failing /\ r.new = failing
      /\ r.told = {}
  BY <1>1, HealthAssumption DEF HealthTypes, RunRecord, Alone
<1>3. \A g \in Harvests : Out(g) => /\ seen(g) \in RunRecord /\ ~seen(g).alone
                                    /\ seen(g).told = harvest[g].told
                                    /\ seen(g).read = harvest[g].read
                                    /\ seen(g).new = harvest[g].new
                                    /\ seen(g).at = harvest[g].at
  BY <1>1, RunOut DEF RunRecord
<1> HIDE DEF r, seen
<1>4. HealthTypes'
  BY <1>1, <1>2, <1>3, HealthAssumption DEF HealthTypes
<1>5. Tells(r)
  BY <1>2 DEF Tells
<1>6. ASSUME NEW g \in Harvests, Out(g)'
      PROVE  /\ Tells(harvest'[g])
             /\ harvest'[g].alone => (\A k \in Harvests \ {g} : harvest'[k].at = 0)
                                     /\ harvest'[g].read = failing
             /\ ~harvest'[g].alone => blurred' = HarvestSources
  <2>1. CASE g = h
    <3>1. harvest'[g] = r
      BY <1>1, <2>1
    <3>2. Alone(h) => \A k \in Harvests \ {h} : harvest'[k] = harvest[k] /\ harvest'[k].at = 0
      BY <1>1 DEF Alone, Out
    <3>3. QED  BY <1>1, <1>2, <1>5, <2>1, <3>1, <3>2
  <2>2. CASE g # h
    <3>1. Out(g)
      BY <1>1, <1>6, <2>2 DEF Out
    <3>2. harvest'[g] = seen(g) /\ ~Alone(h)
      BY <1>1, <2>2, <3>1 DEF Alone
    <3>3. Tells(seen(g))
      BY <1>3, <3>1 DEF HealthIInv, Tells
    <3>4. QED  BY <1>1, <1>3, <3>1, <3>2, <3>3
  <2>3. QED  BY <2>1, <2>2
<1>7. CounterIsStreak'
  BY <1>1 DEF HealthIInv, CounterIsStreak
<1>8. QED
  BY <1>1, <1>4, <1>6, <1>7 DEF HealthIInv, Alone, Out

\* A step of run h that leaves the table alone.
LEMMA RunSteps ==
    ASSUME HealthIInv, NEW h \in Harvests, NEW r \in {AtHome} \cup RunRecord,
           harvest' = [harvest EXCEPT ![h] = r],
           UNCHANGED <<enabled, failing, begun, streak, blurred>>,
           r.at # 0 => /\ Out(h) /\ Tells(r)
                       /\ r.alone = harvest[h].alone /\ r.read = harvest[h].read
    PROVE  HealthIInv'
<1>1. /\ harvest'[h] = r /\ HealthTypes
      /\ \A g \in Harvests : g # h => harvest'[g] = harvest[g]
  BY DEF HealthIInv, HealthTypes
<1>2. HealthTypes'
  BY <1>1 DEF HealthTypes
<1>3. \A g \in Harvests : Out(g)' => Out(g)
  BY <1>1 DEF Out
<1>4. ASSUME NEW g \in Harvests, Out(g)'
      PROVE  /\ Tells(harvest'[g])
             /\ harvest'[g].alone => Alone(g)' /\ harvest'[g].read = failing
             /\ ~harvest'[g].alone => blurred = HarvestSources
  <2>1. /\ Out(g) /\ Tells(harvest'[g]) /\ harvest'[g].alone = harvest[g].alone
        /\ harvest'[g].read = harvest[g].read
    BY <1>1, <1>3, <1>4 DEF HealthIInv, Out
  <2>2. Alone(g) => Alone(g)'
    BY <1>3 DEF Alone
  <2>3. QED  BY <2>1, <2>2 DEF HealthIInv
<1>5. QED
  BY <1>1, <1>2, <1>4 DEF HealthIInv, CounterIsStreak

\* HarvestSource
LEMMA SourceKeeps == ASSUME HealthIInv, NEW h \in Harvests, HarvestSource(h) PROVE HealthIInv'
<1>1. PICK s, q : s = harvest[h].at /\ q = harvest[h]
  OBVIOUS
<1>2. /\ Out(h) /\ s <= Places /\ q \in RunRecord /\ s \in HarvestSources /\ s \in Nat /\ Places \in Nat
      /\ Tells(q) /\ HealthTypes /\ s + 1 \in 1..(Places + 1) /\ q.at = s
  <2>1. Out(h) /\ s <= Places /\ Tells(q) /\ HealthTypes /\ Places \in Nat
    BY <1>1, HealthAssumption DEF HarvestSource, Current, HealthIInv
  <2>2. q \in RunRecord
    BY <1>1, <2>1, RunOut
  <2>3. s \in 1..(Places + 1) /\ q.at = s
    BY <1>1, <2>2 DEF RunRecord
  <2>4. QED  BY <2>1, <2>2, <2>3 DEF HarvestSources
<1>3. CASE s \in q.chosen
  <2>1. PICK failures \in 0..Calls[s] :
            harvest' = [harvest EXCEPT
                ![h].at = s + 1,
                ![h].new[s] = NewCount(harvest[h].read[s], Calls[s], failures),
                ![h].told = @ \cup {[source |-> s, all |-> failures = Calls[s]]}]
    BY <1>1, <1>3 DEF HarvestSource, Current
  <2> DEFINE k == NewCount(q.read[s], Calls[s], failures)
             word == [source |-> s, all |-> failures = Calls[s]]
             r == [q EXCEPT !.at = s + 1, !.new = [q.new EXCEPT ![s] = k], !.told = q.told \cup {word}]
  <2>2. Calls[s] \in Nat \ {0} /\ q.read[s] \in Nat
    BY <1>2, HealthAssumption DEF RunRecord
  <2>3. k = IF failures = Calls[s] THEN q.read[s] + 1 ELSE 0
    BY <2>2 DEF NewCount
  <2>4. word = IF failures = Calls[s] THEN All(s) ELSE Some(s)
    BY DEF All, Some
  <2>5. word \in Told /\ k \in Nat
    BY <1>2, <2>2, <2>3 DEF Told
  <2>6. harvest' = [harvest EXCEPT ![h] = r]
    BY <1>1, <1>2, <2>1 DEF RunRecord, HealthTypes
  <2> HIDE DEF k, word
  <2>7. /\ r \in RunRecord /\ r.at = s + 1 /\ r.new = [q.new EXCEPT ![s] = k]
        /\ r.told = q.told \cup {word} /\ r.read = q.read /\ r.alone = q.alone
    BY <1>2, <2>5 DEF RunRecord
  <2> HIDE DEF r
  <2>8. \A t \in HarvestSources : /\ All(t) # Some(s) /\ Some(t) # All(s)
                                  /\ t # s => All(t) # All(s) /\ Some(t) # Some(s)
    BY DEF All, Some
  <2>9. Tells(r)
    <3>1. SUFFICES ASSUME NEW t \in HarvestSources
                   PROVE  /\ All(t) \in r.told => r.new[t] = r.read[t] + 1
                          /\ Some(t) \in r.told => r.new[t] = 0
                          /\ All(t) \notin r.told /\ Some(t) \notin r.told => r.new[t] = r.read[t]
                          /\ ~(All(t) \in r.told /\ Some(t) \in r.told)
                          /\ t >= r.at => All(t) \notin r.told /\ Some(t) \notin r.told
      BY DEF Tells
    <3>2. q.new \in [HarvestSources -> Nat]
      BY <1>2 DEF RunRecord
    <3>3. CASE t = s
      <4>1. All(s) \notin q.told /\ Some(s) \notin q.told
        BY <1>2 DEF Tells
      <4>2. r.new[s] = k /\ ~(s >= s + 1)
        BY <1>2, <2>7, <3>2
      <4>3. QED  BY <1>2, <2>3, <2>4, <2>7, <2>8, <3>3, <4>1, <4>2
    <3>4. CASE t # s
      <4>1. r.new[t] = q.new[t]
        BY <2>7, <3>2, <3>4
      <4>2. All(t) \in r.told <=> All(t) \in q.told
        BY <2>4, <2>7, <2>8, <3>4
      <4>3. Some(t) \in r.told <=> Some(t) \in q.told
        BY <2>4, <2>7, <2>8, <3>4
      <4>4. t >= s + 1 => t >= s
        BY <1>2 DEF HarvestSources
      <4>5. QED  BY <1>2, <2>7, <4>1, <4>2, <4>3, <4>4 DEF Tells
    <3>5. QED  BY <3>3, <3>4
  <2>10. UNCHANGED <<enabled, failing, begun, streak, blurred>>
    BY DEF HarvestSource
  <2>11. QED  BY <1>1, <1>2, <2>6, <2>7, <2>9, <2>10, RunSteps
<1>4. CASE s \notin q.chosen
  <2> DEFINE r == [q EXCEPT !.at = s + 1]
  <2>1. harvest' = [harvest EXCEPT ![h] = r]
    BY <1>1, <1>2, <1>4 DEF HarvestSource, Current, RunRecord, HealthTypes
  <2>2. /\ r \in RunRecord /\ r.at = s + 1 /\ r.new = q.new
        /\ r.told = q.told /\ r.read = q.read /\ r.alone = q.alone
    BY <1>2 DEF RunRecord
  <2> HIDE DEF r
  <2>3. Tells(r)
    <3>1. \A t \in HarvestSources : t >= s + 1 => t >= s
      BY <1>2 DEF HarvestSources
    <3>2. QED  BY <1>2, <2>2, <3>1 DEF Tells
  <2>4. UNCHANGED <<enabled, failing, begun, streak, blurred>>
    BY DEF HarvestSource
  <2>5. QED  BY <1>1, <1>2, <2>1, <2>2, <2>3, <2>4, RunSteps
<1>5. QED  BY <1>3, <1>4

\* RunEnds and RunBreaks
LEMMA SaveKeeps ==
    ASSUME HealthIInv, NEW h \in Harvests, Out(h), SaveCounters(h), UNCHANGED <<enabled, begun>>
    PROVE  HealthIInv'
<1>1. /\ HealthTypes /\ harvest[h] \in RunRecord /\ Tells(harvest[h])
  BY RunOut DEF HealthIInv
<1>2. /\ harvest'[h] = AtHome /\ AtHome.at = 0
      /\ \A g \in Harvests : g # h => harvest'[g] = harvest[g]
      /\ harvest' \in [Harvests -> {AtHome} \cup RunRecord]
  BY <1>1 DEF SaveCounters, HealthTypes, AtHome
<1>3. /\ failing' \in [HarvestSources -> Nat] /\ streak' \in [HarvestSources -> Nat]
      /\ blurred' \subseteq HarvestSources
  BY <1>1 DEF SaveCounters, HealthTypes, RunRecord, Flushed
<1>4. HealthTypes'
  BY <1>1, <1>2, <1>3 DEF HealthTypes
<1>5. \A s \in HarvestSources : /\ s \in AllFailed(h) <=> All(s) \in harvest[h].told
                                /\ s \in SomeAnswered(h) <=> Some(s) \in harvest[h].told
  <2>1. \A t \in harvest[h].told : /\ t.source \in HarvestSources /\ t.all \in BOOLEAN
                                   /\ t = [source |-> t.source, all |-> t.all]
    BY <1>1 DEF RunRecord, Told
  <2>2. QED  BY <2>1 DEF AllFailed, SomeAnswered, All, Some
<1>6. CASE harvest[h].alone
  <2>1. Alone(h) /\ harvest[h].read = failing
    BY <1>6 DEF HealthIInv
  <2>2. \A g \in Harvests : ~Out(g)'
    BY <1>2, <2>1 DEF Alone, Out
  <2>3. ASSUME NEW s \in HarvestSources, s \notin blurred' PROVE failing'[s] = streak'[s]
    <3>1. /\ failing'[s] = IF harvest[h].new[s] = failing[s] THEN failing[s] ELSE harvest[h].new[s]
          /\ streak'[s] = IF s \in AllFailed(h) THEN streak[s] + 1
                          ELSE IF s \in SomeAnswered(h) THEN 0 ELSE streak[s]
          /\ blurred' = blurred \ SomeAnswered(h)
      BY <1>6, <2>1 DEF SaveCounters, Flushed
    <3>2. /\ All(s) \in harvest[h].told => harvest[h].new[s] = failing[s] + 1
          /\ Some(s) \in harvest[h].told => harvest[h].new[s] = 0
          /\ All(s) \notin harvest[h].told /\ Some(s) \notin harvest[h].told
                => harvest[h].new[s] = failing[s]
          /\ ~(All(s) \in harvest[h].told /\ Some(s) \in harvest[h].told)
      BY <1>1, <2>1 DEF Tells
    <3>3. Some(s) \notin harvest[h].told => failing[s] = streak[s]
      BY <1>5, <2>3, <3>1 DEF HealthIInv, CounterIsStreak
    <3>4. failing[s] \in Nat
      BY <1>1 DEF HealthTypes
    <3>5. QED  BY <1>5, <3>1, <3>2, <3>3, <3>4
  <2>4. QED  BY <1>4, <2>2, <2>3 DEF HealthIInv, CounterIsStreak
<1>7. CASE ~harvest[h].alone
  <2>1. blurred = HarvestSources /\ blurred' = HarvestSources
    BY <1>7 DEF HealthIInv, SaveCounters
  <2>2. ASSUME NEW g \in Harvests, Out(g)'
        PROVE  Tells(harvest'[g]) /\ ~harvest'[g].alone
    <3>1. g # h /\ harvest'[g] = harvest[g] /\ Out(g)
      BY <1>2, <2>2 DEF Out
    <3>2. QED  BY <3>1 DEF HealthIInv, Alone
  <2>3. QED  BY <1>4, <2>1, <2>2 DEF HealthIInv, CounterIsStreak
<1>8. QED
  BY <1>1, <1>6, <1>7 DEF RunRecord

LEMMA HealthNextIInv == HealthIInv /\ [HealthNext]_healthVars => HealthIInv'
<1> SUFFICES ASSUME HealthIInv, [HealthNext]_healthVars PROVE HealthIInv'
  OBVIOUS
<1>1. ASSUME NEW h \in Harvests, StartRun(h) PROVE HealthIInv'
  BY <1>1, StartKeeps
<1>2. ASSUME NEW h \in Harvests, HarvestSource(h) PROVE HealthIInv'
  BY <1>2, SourceKeeps
<1>3. ASSUME NEW h \in Harvests, RunEnds(h) \/ RunBreaks(h) PROVE HealthIInv'
  BY <1>3, SaveKeeps DEF RunEnds, RunBreaks
<1>4. ASSUME NEW h \in Harvests, RunLost(h) PROVE HealthIInv'
  <2>1. AtHome.at = 0
    BY DEF AtHome
  <2>2. QED  BY <1>4, <2>1, RunSteps DEF RunLost
<1>5. ASSUME NEW s \in HarvestSources, Disable(s) PROVE HealthIInv'
  BY <1>5 DEF Disable, HealthIInv, HealthTypes, CounterIsStreak, Alone, Out
<1>6. CASE UNCHANGED healthVars
  BY <1>6 DEF healthVars, HealthIInv, HealthTypes, CounterIsStreak, Alone, Out
<1> QED
  BY <1>1, <1>2, <1>3, <1>4, <1>5, <1>6 DEF HealthNext

LEMMA HealthInvariance == HealthSpec => []HealthIInv
BY HealthInitIInv, HealthNextIInv, PTL DEF HealthSpec

\* Runs, counters and history have their types (_harvest_parsebot).
THEOREM HealthTypeCorrect == HealthSpec => []HealthTypeOK
<1>1. HealthIInv => HealthTypeOK
  BY RunOut DEF HealthIInv, HealthTypes, HealthTypeOK, RunRecord
<1> QED BY <1>1, HealthInvariance, PTL

\* A source's counter is its streak of failed runs, whatever runs overlap,
\* break off or are lost (_update_harvest_health).
THEOREM StreakCounted == HealthSpec => []CounterIsStreak
<1>1. HealthIInv => CounterIsStreak
  BY DEF HealthIInv
<1> QED BY <1>1, HealthInvariance, PTL
=============================================================================
