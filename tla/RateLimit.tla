------------------------------ MODULE RateLimit ------------------------------
(***************************************************************************)
(* The rate map of ratelimit.rs: sliding-window limits per caller and      *)
(* bucket (allow), and cooldowns (record_op, cooldown_active), all in one  *)
(* map of hits. Each function is one section under the map's mutex, so one *)
(* action; RequestGuards calls them in the order of the handlers. The      *)
(* clock counts seconds of Instant, which is read just before the lock.    *)
(***************************************************************************)
EXTENDS Integers, Sequences, FiniteSets

CONSTANTS
  Limits,     \* buckets of allow
  Cooldowns,  \* buckets of record_op
  Callers,    \* IPs in the former, keys in the latter
  Window,     \* Window[b]: seconds a hit of bucket b counts
  Max,        \* Max[b]: hits of bucket b allowed in a window
  CleanupAt   \* 50_000: a larger map is cleaned up

Buckets == Limits \cup Cooldowns
Keys    == Buckets \X Callers

VARIABLES
  now,
  rate,       \* the map: rate[k] is the sequence of k's hits, for its keys
  log         \* history: the admitted calls and recorded operations of k that
              \* its window still holds

-----------------------------------------------------------------------------
Hits(k) == IF k \in DOMAIN rate THEN rate[k] ELSE <<>>

\* hits.retain: the hits that lie less than a window before t, in their order.
Retain(hits, t, window) ==
  LET kept[i \in 0 .. Len(hits)] ==
        IF i = 0 THEN <<>>
        ELSE IF t - hits[i] < window THEN Append(kept[i - 1], hits[i])
                                     ELSE kept[i - 1]
  IN  kept[Len(hits)]

\* The hits that still count in bucket k[1].
Recent(k) == Retain(Hits(k), now, Window[k[1]])

Put(m, k, hits) == [j \in DOMAIN m \cup {k} |-> IF j = k THEN hits ELSE m[j]]

InWindow(k) == Retain(log[k], now, Window[k[1]])

Log(k) == log' = [log EXCEPT ![k] = Append(InWindow(k), now)]

\* MUTANT: one call too many.
AllowedOffByOne(k) == Len(Recent(k)) <= Max[k[1]]

Allowed(k) == Len(Recent(k)) < Max[k[1]]

Large(keys) == Cardinality(keys) > CleanupAt

\* MUTANT: the cleanup runs at any size of the map.
CleanedAlways(m, window) ==
  LET kept == {k \in DOMAIN m : \E i \in 1 .. Len(m[k]) : now - m[k][i] < window}
  IN  [k \in kept |-> m[k]]

\* The cleanup: keys with no hit in the calling bucket's window are dropped,
\* whichever bucket they are of.
Cleaned(m, window) ==
  LET kept == {k \in DOMAIN m : \E i \in 1 .. Len(m[k]) : now - m[k][i] < window}
  IN  IF Large(DOMAIN m) THEN [k \in kept |-> m[k]] ELSE m

\* MUTANT: a refused call is a hit too.
AllowRecordsRefused(k) ==
  /\ rate' = Cleaned(Put(rate, k, Append(Recent(k), now)), Window[k[1]])
  /\ IF Allowed(k) THEN Log(k) ELSE UNCHANGED log

Allow(k) ==
  IF Allowed(k)
    THEN /\ rate' = Cleaned(Put(rate, k, Append(Recent(k), now)), Window[k[1]])
         /\ Log(k)
    ELSE rate' = Put(rate, k, Recent(k)) /\ UNCHANGED log

\* cooldown_active's answer, and what it does to the map.
Active(k) == Recent(k) # <<>>

CooldownActive(k) ==
  /\ rate' = IF k \in DOMAIN rate THEN Put(rate, k, Recent(k)) ELSE rate
  /\ UNCHANGED log

RecordOp(k) == rate' = Put(rate, k, Append(Hits(k), now)) /\ Log(k)

\* Nothing of the map is persisted.
RateReset == rate' = <<>> /\ log' = [k \in Keys |-> <<>>]

RateInit == rate = <<>> /\ log = [k \in Keys |-> <<>>]

-----------------------------------------------------------------------------
(* No window of time, wherever it starts, holds more admitted calls of one   *)
(* caller than the ceiling (ratelimit.rs:43-59).                             *)
WithinRate ==
  \A b \in Limits, c \in Callers : Len(InWindow(<<b, c>>)) <= Max[b]

(* Refused calls, other callers and other buckets cost a caller nothing: the *)
(* next call is admitted exactly if the last window holds fewer admitted     *)
(* calls than the ceiling (ratelimit.rs:43-52).                              *)
LimiterExact ==
  \A b \in Limits, c \in Callers :
    Allowed(<<b, c>>) <=> Len(InWindow(<<b, c>>)) < Max[b]

(* ratelimit.rs:24: cooldown_active is true when an operation in this bucket *)
(* happened within the window. It is, while the map stays below the cleanup  *)
(* size; above it a call in a bucket with a shorter window drops the hits of *)
(* longer ones.                                                              *)
CooldownExact ==
  \A b \in Cooldowns, c \in Callers :
    Active(<<b, c>>) <=> InWindow(<<b, c>>) # <<>>

=============================================================================
