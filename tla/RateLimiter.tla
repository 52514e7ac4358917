---------------------------- MODULE RateLimiter ----------------------------
(***************************************************************************)
(* The sliding-window limiter in front of search, replay, joining and      *)
(* match explanations: per key the instants of the requests it let         *)
(* through, trimmed when the key is used again and swept for all keys at   *)
(* most once per window.                                                   *)
(***************************************************************************)
EXTENDS Integers, FiniteSets, Sequences

CONSTANTS
    Callers,     \* keys: client addresses, or session ids
    Limit,       \* requests per window
    Window,      \* window_seconds
    MaxClock     \* the clock stops here

ASSUME LimiterAssumption ==
    /\ Limit \in Nat \ {0}
    /\ Window \in Nat \ {0}
    /\ MaxClock \in Nat

VARIABLES
    clock,       \* monotonic()
    bucket,      \* _requests: a sequence of instants for the keys present
    nextSweep,   \* _next_sweep
    granted      \* history: granted[k] has all instants k was let through

limiterVars == <<clock, bucket, nextSweep, granted>>

-----------------------------------------------------------------------------

LimiterInit ==
    /\ clock = 0
    /\ bucket = [k \in {} |-> <<>>]
    /\ nextSweep = 0
    /\ granted = [k \in Callers |-> <<>>]

StaleFirst(b) == b = <<>> \/ b[1] <= clock - Window \* mutant: its oldest entry
Stale(b) == b = <<>> \/ b[Len(b)] <= clock - Window

\* _evict_expired
Kept(buckets) ==
    IF clock < nextSweep THEN buckets
    ELSE [k \in {k \in DOMAIN buckets : ~Stale(buckets[k])} |-> buckets[k]]
SweepAgainAt == IF clock < nextSweep THEN nextSweep ELSE clock + Window

\* Where popleft stops: the first instant that has not left the window.
ExpiredLater(t) == t < clock - Window               \* mutant: < for <=
Expired(t) == t <= clock - Window
StopsAt(b, n) == /\ \A i \in 1..(n - 1) : Expired(b[i])
                 /\ n <= Len(b) => ~Expired(b[n])
FirstLive(b) == CHOOSE n \in 1..(Len(b) + 1) : StopsAt(b, n)

\* The key's deque from there on; a key not in the map gets an empty one
\* (defaultdict).
Trimmed(buckets, k) ==
    IF k \in DOMAIN buckets
    THEN SubSeq(buckets[k], FirstLive(buckets[k]), Len(buckets[k])) ELSE <<>>

\* The map with k's bucket.
Put(buckets, k, b) ==
    [x \in DOMAIN buckets \cup {k} |-> IF x = k THEN b ELSE buckets[x]]

\* allow(k)
Allow(k) ==
    LET kept == Kept(bucket)
        live == Trimmed(kept, k)
        pass == Len(live) < Limit
    IN  /\ bucket' = Put(kept, k, IF pass THEN Append(live, clock) ELSE live)
        /\ nextSweep' = SweepAgainAt
        /\ granted' = IF pass THEN [granted EXCEPT ![k] = Append(@, clock)] ELSE granted
        /\ UNCHANGED clock

TickLimiter ==
    /\ clock < MaxClock
    /\ clock' = clock + 1
    /\ UNCHANGED <<bucket, nextSweep, granted>>

LimiterNext == (\E k \in Callers : Allow(k)) \/ TickLimiter

LimiterSpec == LimiterInit /\ [][LimiterNext]_limiterVars

-----------------------------------------------------------------------------
(* Properties *)

LimiterTypeOK ==
    /\ clock \in 0..MaxClock
    /\ DOMAIN bucket \subseteq Callers
    /\ \A k \in DOMAIN bucket : bucket[k] \in Seq(0..MaxClock)
    /\ nextSweep \in Nat
    /\ granted \in [Callers -> Seq(Nat)]

\* Whatever has been evicted in between, no key is let through more than
\* Limit times in any stretch of one window (InMemoryRateLimiter.allow).
NoWindowExceeded ==
    \A k \in Callers, from \in 0..MaxClock :
        Cardinality({i \in DOMAIN granted[k] :
                        from <= granted[k][i] /\ granted[k][i] < from + Window}) <= Limit

\* What a call finds counted against its key is what the key was let through
\* in the last window: the two trims forget no such instant, which would let
\* too many through, and keep no other, which would refuse too early (allow,
\* _evict_expired).
CountsTheWindow ==
    \A k \in Callers :
        Len(Trimmed(Kept(bucket), k)) =
            Cardinality({i \in DOMAIN granted[k] : granted[k][i] > clock - Window})
=============================================================================
