------------------------- MODULE RequestGuardsProofs -------------------------
(***************************************************************************)
(* Proofs about RequestGuards: the hits a bucket retains, the replay       *)
(* table, the look-alike names, and the limits and cooldowns, for any      *)
(* number of requests in flight and any windows.                           *)
(***************************************************************************)
EXTENDS RequestGuards, Induction

\* The hits of the last window seconds at time t.
Retain(hits, t, window) == Limiter!Retain(hits, t, window)

\* kept is the sequence Retain(hits, t, window) builds, hit by hit.
Keeps(kept, hits, t, window) ==
  /\ kept \in [0 .. Len(hits) -> Seq(Nat)]
  /\ kept[0] = <<>>
  /\ \A i \in 1 .. Len(hits) :
       kept[i] = IF t - hits[i] < window THEN Append(kept[i - 1], hits[i])
                                         ELSE kept[i - 1]

(* Retain builds its result hit by hit, whatever the hits.                   *)
LEMMA KeepsSome ==
  ASSUME NEW hits \in Seq(Nat), NEW t \in Nat, NEW window \in Nat
  PROVE  \E kept : Keeps(kept, hits, t, window)
<1> DEFINE n == Len(hits)
           V == Seq(Nat)
           step == [p \in V \X (1 .. n) |->
                      IF t - hits[p[2]] < window THEN Append(p[1], hits[p[2]])
                                                 ELSE p[1]]
<1>1. n \in Nat /\ <<>> \in V /\ \A i \in 1 .. n : hits[i] \in Nat
  OBVIOUS
<1> HIDE DEF n
<1>2. step \in [V \X (1 .. n) -> V]
  BY <1>1
<1>3. \E f \in [0 .. n -> V] : Steps(f, <<>>, n, step)
  <2> HIDE DEF V, step
  <2> QED
    BY <1>1, <1>2, FunctionRecursion
<1>4. PICK f \in [0 .. n -> V] :
        f[0] = <<>> /\ \A i \in 1 .. n : f[i] = step[<<f[i - 1], i>>]
  BY <1>3 DEF Steps
<1>5. ASSUME NEW i \in 1 .. n
      PROVE  f[i] = IF t - hits[i] < window
                      THEN Append(f[i - 1], hits[i]) ELSE f[i - 1]
  <2> DEFINE h == f[i - 1]
  <2>1. i - 1 \in 0 .. n
    BY <1>1
  <2>2. h \in V
    BY <1>4, <2>1
  <2>3. f[i] = step[<<h, i>>]
    BY <1>4
  <2> HIDE DEF h
  <2>4. step[<<h, i>>] = IF t - hits[i] < window THEN Append(h, hits[i]) ELSE h
    BY <2>2
  <2> QED
    BY <2>3, <2>4 DEF h
<1> QED
  BY <1>4, <1>5 DEF Keeps, n

(* And the result is the last sequence built.                                *)
LEMMA KeepsOne ==
  ASSUME NEW hits \in Seq(Nat), NEW t \in Nat, NEW window \in Nat,
         NEW kept, Keeps(kept, hits, t, window)
  PROVE  Retain(hits, t, window) = kept[Len(hits)]
<1> DEFINE n == Len(hits)
           body(f, i) == IF i = 0 THEN <<>>
                         ELSE IF t - hits[i] < window
                                THEN Append(f[i - 1], hits[i]) ELSE f[i - 1]
           Kept(f) == f = [i \in 0 .. n |-> body(f, i)]
           g == CHOOSE f : Kept(f)
<1>1. n \in Nat
  OBVIOUS
<1>2. Retain(hits, t, window) = g[n]
  BY DEF Retain, Limiter!Retain
<1>3. DOMAIN kept = 0 .. n /\ kept = [i \in 0 .. n |-> kept[i]]
  BY DEF Keeps
<1>4. \A i \in 0 .. n : kept[i] = body(kept, i)
  <2>1. \A i \in 1 .. n : kept[i] = body(kept, i)
    BY DEF Keeps
  <2>2. kept[0] = body(kept, 0)
    BY DEF Keeps
  <2> HIDE DEF n, body
  <2> QED
    BY <1>1, <2>1, <2>2
<1> HIDE DEF n, body
<1>5. Kept(kept)
  BY <1>3, <1>4
<1>6. Kept(g)
  <2> HIDE DEF Kept
  <2> QED
    BY <1>5
<1>7. \A i \in 0 .. n : g[i] = body(g, i)
  <2> HIDE DEF g
  <2> QED
    BY <1>6
<1> HIDE DEF g
<1> DEFINE S == {i \in Nat : i \in 0 .. n => g[i] = kept[i]}
<1>8. 0 \in S
  BY <1>1, <1>4, <1>7 DEF body
<1>9. ASSUME NEW i \in Nat, i \in S PROVE i + 1 \in S
  <2> SUFFICES ASSUME i + 1 \in 0 .. n PROVE g[i + 1] = kept[i + 1]
    OBVIOUS
  <2>1. i \in 0 .. n /\ i + 1 # 0 /\ (i + 1) - 1 = i /\ g[i] = kept[i]
    BY <1>1, <1>9
  <2>2. body(g, i + 1) = body(kept, i + 1)
    BY <2>1 DEF body
  <2> QED
    BY <1>4, <1>7, <2>2
<1>10. n \in S
  <2> HIDE DEF S
  <2> QED
    BY <1>1, <1>8, <1>9, SetInduction
<1> QED
  BY <1>1, <1>2, <1>10 DEF n

(* What is retained of nothing is nothing.                                   *)
LEMMA RetainNone ==
  ASSUME NEW t \in Nat, NEW window \in Nat
  PROVE  Retain(<<>>, t, window) = <<>>
<1>1. <<>> \in Seq(Nat) /\ Len(<<>>) = 0
  OBVIOUS
<1>2. PICK kept : Keeps(kept, <<>>, t, window)
  BY <1>1, KeepsSome
<1>3. Retain(<<>>, t, window) = kept[0]
  BY <1>1, <1>2, KeepsOne
<1> QED
  BY <1>2, <1>3 DEF Keeps

(* What is retained are times.                                               *)
LEMMA RetainType ==
  ASSUME NEW hits \in Seq(Nat), NEW t \in Nat, NEW window \in Nat
  PROVE  Retain(hits, t, window) \in Seq(Nat)
<1>1. PICK kept : Keeps(kept, hits, t, window)
  BY KeepsSome
<1>2. Retain(hits, t, window) = kept[Len(hits)]
  BY <1>1, KeepsOne
<1>3. Len(hits) \in 0 .. Len(hits)
  OBVIOUS
<1> QED
  BY <1>1, <1>2, <1>3 DEF Keeps

(* A hit is retained, after the others, exactly if it is recent.             *)
LEMMA RetainAppend ==
  ASSUME NEW hits \in Seq(Nat), NEW x \in Nat, NEW t \in Nat, NEW window \in Nat
  PROVE  Retain(Append(hits, x), t, window) =
           IF t - x < window THEN Append(Retain(hits, t, window), x)
                             ELSE Retain(hits, t, window)
<1> DEFINE n == Len(hits)
           more == Append(hits, x)
<1>1. /\ n \in Nat /\ more \in Seq(Nat) /\ Len(more) = n + 1 /\ more[n + 1] = x
      /\ \A i \in 1 .. n : more[i] = hits[i]
  OBVIOUS
<1> HIDE DEF more
<1>2. PICK kept : Keeps(kept, more, t, window)
  BY <1>1, KeepsSome
<1> DEFINE first == [i \in 0 .. n |-> kept[i]]
<1>3. Keeps(first, hits, t, window)
  <2>1. first \in [0 .. n -> Seq(Nat)]
    BY <1>1, <1>2 DEF Keeps
  <2>2. first[0] = <<>>
    BY <1>1, <1>2 DEF Keeps
  <2>3. \A i \in 1 .. n :
          first[i] = IF t - hits[i] < window THEN Append(first[i - 1], hits[i])
                                             ELSE first[i - 1]
    <3> SUFFICES ASSUME NEW i \in 1 .. n
                 PROVE  first[i] = IF t - hits[i] < window
                                     THEN Append(first[i - 1], hits[i])
                                     ELSE first[i - 1]
      OBVIOUS
    <3>1. first[i] = kept[i] /\ first[i - 1] = kept[i - 1] /\ i \in 1 .. n + 1
      BY <1>1
    <3> HIDE DEF first
    <3> QED
      BY <1>1, <1>2, <3>1 DEF Keeps
  <2> QED
    BY <2>1, <2>2, <2>3 DEF Keeps
<1>4. Retain(hits, t, window) = kept[n]
  <2>1. Retain(hits, t, window) = first[n]
    BY <1>3, KeepsOne
  <2> QED
    BY <1>1, <2>1
<1>5. Retain(more, t, window) = kept[n + 1]
  BY <1>1, <1>2, KeepsOne
<1>6. kept[n + 1] = IF t - x < window THEN Append(kept[n], x) ELSE kept[n]
  <2>1. n + 1 \in 1 .. n + 1 /\ (n + 1) - 1 = n
    BY <1>1
  <2> HIDE DEF n
  <2> QED
    BY <1>1, <1>2, <2>1 DEF Keeps
<1> QED
  BY <1>4, <1>5, <1>6 DEF more

(* Retaining shortens.                                                       *)
LEMMA RetainShorter ==
  ASSUME NEW t \in Nat, NEW window \in Nat
  PROVE  \A hits \in Seq(Nat) : Len(Retain(hits, t, window)) <= Len(hits)
<1> DEFINE S == {h \in Seq(Nat) : Len(Retain(h, t, window)) <= Len(h)}
<1>1. <<>> \in S
  BY RetainNone
<1>2. ASSUME NEW h \in Seq(Nat), NEW x \in Nat, h \in S PROVE Append(h, x) \in S
  <2>1. Retain(h, t, window) \in Seq(Nat) /\ Len(Retain(h, t, window)) <= Len(h)
    BY <1>2, RetainType
  <2>2. Retain(Append(h, x), t, window) = IF t - x < window
          THEN Append(Retain(h, t, window), x) ELSE Retain(h, t, window)
    BY RetainAppend
  <2> QED
    BY <2>1, <2>2
<1>3. \A h \in Seq(Nat) : h \in S
  <2> HIDE DEF S
  <2> QED
    BY <1>1, <1>2, SequenceInduction
<1> QED
  BY <1>3

(* What is retained now and again later is what is retained later.           *)
LEMMA RetainTwice ==
  ASSUME NEW t \in Nat, NEW u \in Nat, t <= u, NEW window \in Nat
  PROVE  \A hits \in Seq(Nat) :
           Retain(Retain(hits, t, window), u, window) = Retain(hits, u, window)
<1> DEFINE S == {h \in Seq(Nat) :
                   Retain(Retain(h, t, window), u, window) = Retain(h, u, window)}
<1>1. <<>> \in S
  BY RetainNone
<1>2. ASSUME NEW h \in Seq(Nat), NEW x \in Nat, h \in S PROVE Append(h, x) \in S
  <2> DEFINE now1 == Retain(h, t, window)
             later == Retain(h, u, window)
  <2>1. now1 \in Seq(Nat) /\ later \in Seq(Nat) /\ Retain(now1, u, window) = later
    BY <1>2, RetainType
  <2>2. /\ Retain(Append(h, x), t, window) =
             IF t - x < window THEN Append(now1, x) ELSE now1
        /\ Retain(Append(h, x), u, window) =
             IF u - x < window THEN Append(later, x) ELSE later
    BY RetainAppend
  <2>3. Retain(Append(now1, x), u, window) =
          IF u - x < window THEN Append(later, x) ELSE later
    BY <2>1, RetainAppend
  <2>4. u - x < window => t - x < window
    OBVIOUS
  <2>5. Append(h, x) \in Seq(Nat)
    OBVIOUS
  <2> HIDE DEF now1, later
  <2>6. Retain(Retain(Append(h, x), t, window), u, window)
          = Retain(Append(h, x), u, window)
    <3>1. CASE t - x < window
      BY <2>2, <2>3, <3>1
    <3>2. CASE ~(t - x < window)
      BY <2>1, <2>2, <2>4, <3>2
    <3> QED
      BY <3>1, <3>2
  <2> QED
    BY <2>5, <2>6
<1>3. \A h \in Seq(Nat) : h \in S
  <2> HIDE DEF S
  <2> QED
    BY <1>1, <1>2, SequenceInduction
<1> QED
  BY <1>3

(* Nothing is retained exactly if no hit is recent.                          *)
LEMMA RetainNothing ==
  ASSUME NEW t \in Nat, NEW window \in Nat
  PROVE  \A hits \in Seq(Nat) :
           Retain(hits, t, window) = <<>>
             <=> \A i \in 1 .. Len(hits) : ~(t - hits[i] < window)
<1> DEFINE Old(h) == \A i \in 1 .. Len(h) : ~(t - h[i] < window)
           S == {h \in Seq(Nat) : Retain(h, t, window) = <<>> <=> Old(h)}
<1>1. <<>> \in S
  BY RetainNone
<1>2. ASSUME NEW h \in Seq(Nat), NEW x \in Nat, h \in S PROVE Append(h, x) \in S
  <2> DEFINE r == Retain(h, t, window)
  <2>1. r \in Seq(Nat) /\ (r = <<>> <=> Old(h))
    BY <1>2, RetainType
  <2>2. Retain(Append(h, x), t, window) =
          IF t - x < window THEN Append(r, x) ELSE r
    BY RetainAppend
  <2>3. Append(r, x) # <<>>
    <3> HIDE DEF r
    <3>1. Len(Append(r, x)) # 0
      BY <2>1
    <3>2. \A q : q = <<>> => Len(q) = 0
      OBVIOUS
    <3> QED
      BY <3>1, <3>2, Zenon
  <2>4. Old(Append(h, x)) <=> Old(h) /\ ~(t - x < window)
    OBVIOUS
  <2> HIDE DEF r, Old
  <2> QED
    BY <2>1, <2>2, <2>3, <2>4
<1>3. \A h \in Seq(Nat) : h \in S
  <2> HIDE DEF S
  <2> QED
    BY <1>1, <1>2, SequenceInduction
<1> QED
  BY <1>3

-----------------------------------------------------------------------------
\* From time n on, two sequences of hits count the same.
CountAlike(h, l, n, window) ==
  \A t \in Nat : n <= t => Retain(h, t, window) = Retain(l, t, window)

LEMMA AlikeRetained ==
  ASSUME NEW h \in Seq(Nat), NEW l \in Seq(Nat), NEW n \in Nat, NEW window \in Nat,
         CountAlike(h, l, n, window)
  PROVE  CountAlike(Retain(h, n, window), l, n, window)
BY RetainTwice DEF CountAlike

LEMMA AlikeAppended ==
  ASSUME NEW h \in Seq(Nat), NEW l \in Seq(Nat), NEW n \in Nat, NEW window \in Nat,
         CountAlike(h, l, n, window), NEW x \in Nat
  PROVE  CountAlike(Append(h, x), Append(l, x), n, window)
<1> SUFFICES ASSUME NEW t \in Nat, n <= t
             PROVE  Retain(Append(h, x), t, window) = Retain(Append(l, x), t, window)
  BY DEF CountAlike
<1>1. Retain(h, t, window) = Retain(l, t, window)
  BY DEF CountAlike
<1>2. ASSUME NEW s \in Seq(Nat)
      PROVE  Retain(Append(s, x), t, window) =
               IF t - x < window THEN Append(Retain(s, t, window), x)
                                 ELSE Retain(s, t, window)
  BY RetainAppend
<1> QED
  BY <1>1, <1>2

LEMMA AlikeForgotten ==
  ASSUME NEW h \in Seq(Nat), NEW l \in Seq(Nat), NEW n \in Nat, NEW window \in Nat,
         CountAlike(h, l, n, window), \A i \in 1 .. Len(h) : ~(n - h[i] < window)
  PROVE  CountAlike(<<>>, l, n, window)
<1>1. Retain(h, n, window) = <<>>
  BY RetainNothing
<1> QED
  BY <1>1, AlikeRetained

\* The counted hits of a bucket are those of the history, now and later.
RateAgrees(k) == CountAlike(Limiter!Hits(k), log[k], now, RateWindow[k[1]])

\* A call more does not make the map large enough for a cleanup.
NoCleanup ==
  \A k \in Limits \X Ips : ~Limiter!Large(DOMAIN rate \cup {k})

\* No cleanup can drop a hit that bucket b still counts.
Sheltered(b) == NoCleanup \/ \A c \in Limits : RateWindow[b] <= RateWindow[c]

-----------------------------------------------------------------------------
Time == 0 .. MaxTime

\* A use is in the past, and the table remembers it, or a later one, as long as
\* it has to.
Remembers ==
  \A e \in Events : \A i \in 1 .. Len(uses[e]) :
    /\ uses[e][i] <= now
    /\ \/ seen[e] # None /\ uses[e][i] <= seen[e]
       \/ now - uses[e][i] >= Window

ReplayInv ==
  /\ now \in Time
  /\ seen \in [Events -> Time \cup {None}]
  /\ uses \in [Events -> Seq(Time)]
  /\ Remembers
  /\ UsesApart

USE GuardsAssumption, ReplayAssumption DEF Time

-----------------------------------------------------------------------------
(* What the table forgets is a whole window old. *)
LEMMA ForgottenIsOld ==
  ASSUME ReplayInv, NEW e \in Events, Remembered[e] = None,
         NEW i \in 1 .. Len(uses[e])
  PROVE  now - uses[e][i] >= Window
<1>1. now \in Nat /\ uses[e][i] \in Nat /\ Window \in Nat
  BY DEF ReplayInv, Window
<1>2. seen[e] = None \/ now - seen[e] >= Window
  BY <1>1 DEF ReplayInv, Remembered
<1>3. CASE seen[e] = None
  BY <1>3 DEF ReplayInv, Remembers
<1>4. CASE seen[e] # None /\ now - seen[e] >= Window
  <2>1. seen[e] \in Nat
    BY <1>4 DEF ReplayInv
  <2> QED
    BY <1>1, <1>4, <2>1 DEF ReplayInv, Remembers
<1> QED
  BY <1>2, <1>3, <1>4

LEMMA FreshReplayInv ==
  ASSUME ReplayInv, NEW e \in Events, AuthEventFresh(e), UNCHANGED now
  PROVE  ReplayInv'
<1>1. now \in Nat /\ now \in Time /\ Window \in Nat
  BY DEF ReplayInv, Window
<1>2. /\ Remembered \in [Events -> Time \cup {None}]
      /\ \A d \in Events : Remembered[d] = None \/ Remembered[d] = seen[d]
  BY DEF ReplayInv, Remembered
<1>3. CASE IsFresh(e) /\ seen' = [Remembered EXCEPT ![e] = now]
                      /\ uses' = [uses EXCEPT ![e] = Append(@, now)]
  <2>1. seen' \in [Events -> Time \cup {None}] /\ seen'[e] = now
    BY <1>1, <1>2, <1>3
  <2>2. uses' \in [Events -> Seq(Time)]
    BY <1>1, <1>3 DEF ReplayInv
  <2>3. /\ Len(uses'[e]) = Len(uses[e]) + 1
        /\ uses'[e][Len(uses[e]) + 1] = now
        /\ \A i \in 1 .. Len(uses[e]) :
             uses'[e][i] = uses[e][i] /\ uses[e][i] \in Nat
        /\ Len(uses[e]) \in Nat
    BY <1>1, <1>3 DEF ReplayInv
  <2>4. \A d \in Events : d # e =>
          uses'[d] = uses[d] /\ seen'[d] = Remembered[d]
    BY <1>2, <1>3 DEF ReplayInv
  <2>5. Remembers'
    <3> SUFFICES ASSUME NEW d \in Events, NEW i \in 1 .. Len(uses'[d])
                 PROVE  /\ uses'[d][i] <= now
                        /\ \/ seen'[d] # None /\ uses'[d][i] <= seen'[d]
                           \/ now - uses'[d][i] >= Window
      BY DEF Remembers, Window
    <3>1. CASE d = e
      <4>1. now # None
        BY <1>1
      <4>2. uses'[e][i] <= now
        <5>1. CASE i = Len(uses[e]) + 1
          BY <1>1, <2>3, <5>1
        <5>2. CASE i \in 1 .. Len(uses[e])
          BY <2>3, <5>2 DEF ReplayInv, Remembers
        <5> QED
          BY <2>3, <3>1, <5>1, <5>2
      <4> QED
        BY <2>1, <3>1, <4>1, <4>2
    <3>2. CASE d # e
      <4>1. CASE Remembered[d] = None
        BY <2>4, <3>2, <4>1, ForgottenIsOld DEF ReplayInv, Remembers
      <4>2. CASE Remembered[d] = seen[d]
        BY <2>4, <3>2, <4>2 DEF ReplayInv, Remembers
      <4> QED
        BY <1>2, <4>1, <4>2
    <3> QED
      BY <3>1, <3>2
  <2>6. UsesApart'
    <3> SUFFICES ASSUME NEW d \in Events, NEW i \in 1 .. Len(uses'[d]),
                        NEW j \in 1 .. Len(uses'[d]), i < j
                 PROVE  uses'[d][j] - uses'[d][i] >= Window
      BY DEF UsesApart, Window
    <3>1. CASE d # e
      BY <2>4, <3>1 DEF ReplayInv, UsesApart
    <3>2. CASE d = e /\ j = Len(uses[e]) + 1
      <4>1. i \in 1 .. Len(uses[e])
        BY <2>3, <3>2
      <4>2. now - uses[e][i] >= Window
        BY <1>3, <4>1, ForgottenIsOld DEF IsFresh
      <4> QED
        BY <2>3, <3>2, <4>1, <4>2
    <3>3. CASE d = e /\ j # Len(uses[e]) + 1
      <4>1. i \in 1 .. Len(uses[e]) /\ j \in 1 .. Len(uses[e])
        BY <2>3, <3>3
      <4> QED
        BY <2>3, <3>3, <4>1 DEF ReplayInv, UsesApart
    <3> QED
      BY <3>1, <3>2, <3>3
  <2> QED
    BY <1>1, <2>1, <2>2, <2>5, <2>6 DEF ReplayInv
<1>4. CASE seen' = Remembered /\ UNCHANGED uses
  <2>1. Remembers'
    <3> SUFFICES ASSUME NEW d \in Events, NEW i \in 1 .. Len(uses[d])
                 PROVE  /\ uses[d][i] <= now
                        /\ \/ seen'[d] # None /\ uses[d][i] <= seen'[d]
                           \/ now - uses[d][i] >= Window
      BY <1>4 DEF Remembers, Window
    <3>1. CASE Remembered[d] = None
      BY <3>1, ForgottenIsOld DEF ReplayInv, Remembers
    <3>2. CASE Remembered[d] = seen[d]
      BY <1>4, <3>2 DEF ReplayInv, Remembers
    <3> QED
      BY <1>2, <3>1, <3>2
  <2>2. UsesApart'
    BY <1>4 DEF ReplayInv, UsesApart, Window
  <2> QED
    BY <1>1, <1>2, <1>4, <2>1, <2>2 DEF ReplayInv
<1> QED
  BY <1>3, <1>4 DEF AuthEventFresh

-----------------------------------------------------------------------------
LEMMA InitReplayInv == Init => ReplayInv
<1> SUFFICES ASSUME Init PROVE ReplayInv
  OBVIOUS
<1>1. now \in Time /\ seen \in [Events -> Time \cup {None}]
  BY DEF Init, ReplayInit
<1>2. uses \in [Events -> Seq(Time)] /\ \A e \in Events : Len(uses[e]) = 0
  BY DEF Init, ReplayInit
<1>3. Remembers /\ UsesApart
  BY <1>2 DEF Remembers, UsesApart
<1> QED
  BY <1>1, <1>2, <1>3 DEF ReplayInv

LEMMA TickReplayInv == ReplayInv /\ Tick => ReplayInv'
<1> SUFFICES ASSUME ReplayInv, Tick PROVE ReplayInv'
  OBVIOUS
<1>1. now \in Nat /\ now' \in Time /\ now' = now + 1 /\ UNCHANGED <<seen, uses>>
  BY DEF ReplayInv, Tick, replay
<1>2. Remembers'
  <2> SUFFICES ASSUME NEW e \in Events, NEW i \in 1 .. Len(uses[e])
               PROVE  /\ uses[e][i] <= now'
                      /\ \/ seen[e] # None /\ uses[e][i] <= seen[e]
                         \/ now' - uses[e][i] >= Window
    BY <1>1 DEF Remembers, Window
  <2>1. uses[e][i] \in Nat /\ Window \in Nat
    BY DEF ReplayInv, Window
  <2> QED
    BY <1>1, <2>1 DEF ReplayInv, Remembers
<1>3. UsesApart'
  BY <1>1 DEF ReplayInv, UsesApart, Window
<1> QED
  BY <1>1, <1>2, <1>3 DEF ReplayInv

LEMMA RestartReplayInv == ReplayInv /\ Restart => ReplayInv'
<1> SUFFICES ASSUME ReplayInv, Restart PROVE ReplayInv'
  OBVIOUS
<1>1. now' \in Time /\ seen' \in [Events -> Time \cup {None}]
  BY DEF ReplayInv, Restart, ReplayReset
<1>2. /\ uses' \in [Events -> Seq(Time)]
      /\ \A e \in Events : Len(uses'[e]) = 0
  BY DEF Restart, ReplayReset
<1>3. Remembers' /\ UsesApart'
  BY <1>2 DEF Remembers, UsesApart
<1> QED
  BY <1>1, <1>2, <1>3 DEF ReplayInv

LEMMA OtherReplayInv ==
  ReplayInv /\ UNCHANGED <<now, seen, uses>> => ReplayInv'
BY DEF ReplayInv, Remembers, UsesApart, Window

\* A task is at a guard only with an event.
TaskInv == task \in [Workers -> Request \cup {Idle}]

LEMMA TaskInvKept == TaskInv /\ [Next]_vars => TaskInv'
<1> SUFFICES ASSUME TaskInv, [Next]_vars PROVE TaskInv'
  OBVIOUS
<1>1. ASSUME NEW w \in Workers, task[w].pc # "idle", NEW pc,
             pc \in {"limit", "verify", "fresh", "cooldown", "release", "record"},
             Goto(w, pc) \/ Return(w)
      PROVE  TaskInv'
  BY <1>1 DEF TaskInv, Goto, Return, Request, Idle
<1>2. CASE \E w \in Workers : HandlerStep(w)
  <2> SUFFICES ASSUME NEW w \in Workers, HandlerStep(w) PROVE TaskInv'
    BY <1>2
  <2> QED
    BY <1>1 DEF HandlerStep, Limit, Verify, Fresh, CheckCooldown, Release, Record,
                Check
<1>3. CASE \E w \in Workers, ip \in Ips, e \in Events : Arrive(w, ip, e)
  BY <1>3 DEF Arrive, TaskInv, Request
<1>4. CASE (\E ip \in Ips : Read(ip)) \/ Tick \/ UNCHANGED vars
  BY <1>4 DEF Read, Tick, vars, TaskInv
<1>5. CASE Restart
  BY <1>5 DEF Restart, TaskInv
<1> QED
  BY <1>2, <1>3, <1>4, <1>5 DEF Next

LEMMA NextReplayInv == TaskInv /\ ReplayInv /\ [Next]_vars => ReplayInv'
<1> SUFFICES ASSUME TaskInv, ReplayInv, [Next]_vars PROVE ReplayInv'
  OBVIOUS
<1>1. ASSUME NEW w \in Workers, Fresh(w) PROVE ReplayInv'
  <2>1. task[w].event \in Events
    BY <1>1 DEF TaskInv, Fresh, Request, Idle
  <2> QED
    BY <1>1, <2>1, FreshReplayInv DEF Fresh
<1>2. ASSUME NEW w \in Workers, HandlerStep(w), ~Fresh(w) PROVE ReplayInv'
  BY <1>2, OtherReplayInv
     DEF HandlerStep, Limit, Verify, CheckCooldown, Release, Record, replay
<1>3. CASE \/ \E w \in Workers, ip \in Ips, e \in Events : Arrive(w, ip, e)
           \/ \E ip \in Ips : Read(ip)
           \/ UNCHANGED vars
  BY <1>3, OtherReplayInv DEF Arrive, Read, vars, replay
<1> QED
  BY <1>1, <1>2, <1>3, TickReplayInv, RestartReplayInv DEF Next

(* No auth event is let through twice within MaxAge + Skew seconds by one    *)
(* process, however many requests carry it at the same time                  *)
(* (ratelimit.rs:11-21).                                                     *)
THEOREM ReplaysRefused == Spec => []UsesApart
<1>1. Init => TaskInv
  BY DEF Init, TaskInv
<1>2. ReplayInv => UsesApart
  BY DEF ReplayInv
<1> QED
  BY <1>1, <1>2, InitReplayInv, TaskInvKept, NextReplayInv, PTL DEF Spec

(* What the last step let through, if anything, is a name that was asked for. *)
ClaimInv == claimed \in Spellings \cup {None}

LEMMA NextClaimInv == ClaimInv /\ [Next]_vars => ClaimInv'
<1> SUFFICES ASSUME ClaimInv, [Next]_vars PROVE ClaimInv'
  OBVIOUS
<1>1. CASE claimed' = None \/ UNCHANGED claimed
  BY <1>1 DEF ClaimInv
<1>2. ASSUME NEW w \in Workers, CheckCooldown(w) PROVE ClaimInv'
  BY <1>2 DEF CheckCooldown, Silent, ClaimInv
<1>3. ASSUME NEW w \in Workers, HandlerStep(w) PROVE ClaimInv'
  BY <1>1, <1>2, <1>3
     DEF HandlerStep, Limit, Verify, Fresh, Release, Record, Silent
<1> QED
  BY <1>1, <1>3 DEF Next, Arrive, Read, Tick, Restart, Silent, vars

(* The table, the history and the tasks keep their types; only a name that   *)
(* was asked for is claimed (ratelimit.rs:10-21, registry.rs:66-155).        *)
THEOREM GuardsTypeCorrect == Spec => []TypeOK
<1>1. Init => TaskInv /\ ClaimInv
  BY DEF Init, TaskInv, ClaimInv
<1>2. ReplayInv /\ TaskInv /\ ClaimInv => TypeOK
  BY DEF ReplayInv, TaskInv, ClaimInv, TypeOK
<1> QED
  BY <1>1, <1>2, InitReplayInv, TaskInvKept, NextReplayInv, NextClaimInv, PTL
     DEF Spec

-----------------------------------------------------------------------------
RateTypes ==
  /\ now \in Nat
  /\ \A k \in DOMAIN rate : rate[k] \in Seq(Nat)
  /\ log \in [Limiter!Keys -> Seq(Nat)]

LEMMA KeyTypes ==
  ASSUME RateTypes, NEW k \in Limiter!Keys
  PROVE  /\ Limiter!Hits(k) \in Seq(Nat) /\ log[k] \in Seq(Nat)
         /\ RateWindow[k[1]] \in Nat /\ k[1] \in Limiter!Buckets
         /\ Limiter!Recent(k) = Retain(Limiter!Hits(k), now, RateWindow[k[1]])
         /\ Limiter!InWindow(k) = Retain(log[k], now, RateWindow[k[1]])
         /\ Limiter!Recent(k) \in Seq(Nat) /\ Limiter!InWindow(k) \in Seq(Nat)
<1>1. Limiter!Hits(k) \in Seq(Nat) /\ log[k] \in Seq(Nat)
  BY DEF RateTypes, Limiter!Hits
<1>2. RateWindow[k[1]] \in Nat /\ k[1] \in Limiter!Buckets
  BY DEF Limiter!Keys
<1>3. /\ Limiter!Recent(k) = Retain(Limiter!Hits(k), now, RateWindow[k[1]])
      /\ Limiter!InWindow(k) = Retain(log[k], now, RateWindow[k[1]])
  BY DEF Limiter!Recent, Limiter!InWindow, Retain
<1>4. now \in Nat
  BY DEF RateTypes
<1>5. Retain(Limiter!Hits(k), now, RateWindow[k[1]]) \in Seq(Nat)
  BY <1>1, <1>2, <1>4, RetainType
<1>6. Retain(log[k], now, RateWindow[k[1]]) \in Seq(Nat)
  BY <1>1, <1>2, <1>4, RetainType
<1> QED
  BY <1>1, <1>2, <1>3, <1>5, <1>6

-----------------------------------------------------------------------------
\* The hits of j in the map m.
HitsIn(m, j) == IF j \in DOMAIN m THEN m[j] ELSE <<>>

LEMMA PutHits ==
  ASSUME NEW m, NEW k, NEW hits, NEW j
  PROVE  HitsIn(Limiter!Put(m, k, hits), j) = IF j = k THEN hits ELSE HitsIn(m, j)
BY DEF HitsIn, Limiter!Put

(* A cleanup either leaves the hits of a key or drops them all, and then the *)
(* map was large and none of them was within the window of the call.         *)
LEMMA CleanedHits ==
  ASSUME NEW m, NEW window, NEW j
  PROVE  \/ HitsIn(Limiter!Cleaned(m, window), j) = HitsIn(m, j)
         \/ /\ HitsIn(Limiter!Cleaned(m, window), j) = <<>>
            /\ Limiter!Large(DOMAIN m)
            /\ \A i \in 1 .. Len(HitsIn(m, j)) : ~(now - HitsIn(m, j)[i] < window)
<1> DEFINE kept == {k \in DOMAIN m : \E i \in 1 .. Len(m[k]) : now - m[k][i] < window}
           clean == [k \in kept |-> m[k]]
<1>1. Limiter!Cleaned(m, window) =
        IF Limiter!Large(DOMAIN m) THEN clean ELSE m
  BY DEF Limiter!Cleaned
<1>2. j \in kept => HitsIn(clean, j) = HitsIn(m, j)
  BY DEF HitsIn
<1>3. j \notin kept => HitsIn(clean, j) = <<>>
  BY DEF HitsIn
<1>4. j \in DOMAIN m /\ j \notin kept =>
        \A i \in 1 .. Len(HitsIn(m, j)) : ~(now - HitsIn(m, j)[i] < window)
  BY DEF HitsIn
<1>5. j \notin DOMAIN m => HitsIn(m, j) = <<>>
  BY DEF HitsIn
<1> HIDE DEF clean, kept
<1>6. CASE ~Limiter!Large(DOMAIN m)
  BY <1>1, <1>6
<1>7. CASE Limiter!Large(DOMAIN m)
  BY <1>1, <1>2, <1>3, <1>4, <1>5, <1>7
<1> QED
  BY <1>6, <1>7

(* A cleanup changes nothing that a sheltered bucket counts.                 *)
LEMMA CleanedAgrees ==
  ASSUME RateTypes, NEW k \in Limits \X Ips, NEW hits \in Seq(Nat),
         NEW j \in Limiter!Keys, Sheltered(j[1]), NEW l \in Seq(Nat),
         NEW m, m = Limiter!Put(rate, k, hits), HitsIn(m, j) \in Seq(Nat),
         CountAlike(HitsIn(m, j), l, now, RateWindow[j[1]])
  PROVE  CountAlike(HitsIn(Limiter!Cleaned(m, RateWindow[k[1]]), j), l, now,
                    RateWindow[j[1]])
<1> DEFINE w == RateWindow[j[1]]
           v == RateWindow[k[1]]
           h == HitsIn(m, j)
           c == HitsIn(Limiter!Cleaned(m, v), j)
<1>1. now \in Nat /\ w \in Nat /\ v \in Nat /\ k[1] \in Limits
  BY KeyTypes DEF RateTypes, Limiter!Buckets
<1>2. DOMAIN m = DOMAIN rate \cup {k}
  BY DEF Limiter!Put
<1> HIDE DEF w, v, h
<1>3. \/ c = h
      \/ /\ c = <<>>
         /\ Limiter!Large(DOMAIN m)
         /\ \A i \in 1 .. Len(h) : ~(now - h[i] < v)
  BY CleanedHits DEF h
<1> HIDE DEF c
<1>4. CASE c = h
  BY <1>4 DEF c, h, v
<1>5. ASSUME c = <<>>, Limiter!Large(DOMAIN m),
             \A i \in 1 .. Len(h) : ~(now - h[i] < v)
      PROVE  CountAlike(c, l, now, w)
  <2>1. Limiter!Large(DOMAIN rate \cup {k})
    BY <1>2, <1>5
  <2>2. ~NoCleanup
    BY <2>1 DEF NoCleanup
  <2>3. w <= v
    BY <1>1, <2>2 DEF Sheltered, w, v
  <2>4. h \in Seq(Nat) /\ CountAlike(h, l, now, w)
    BY DEF h, w
  <2>5. \A i \in 1 .. Len(h) : ~(now - h[i] < w)
    BY <1>1, <1>5, <2>3, <2>4
  <2> QED
    BY <1>1, <1>5, <2>4, <2>5, AlikeForgotten
<1> QED
  BY <1>3, <1>4, <1>5 DEF c, w, v

LEMMA HitsAre == \A k : Limiter!Hits(k) = HitsIn(rate, k)
BY DEF Limiter!Hits, HitsIn

LEMMA PutTypes ==
  ASSUME RateTypes, NEW k, NEW hits \in Seq(Nat)
  PROVE  \A j \in DOMAIN Limiter!Put(rate, k, hits) :
           Limiter!Put(rate, k, hits)[j] \in Seq(Nat)
BY DEF RateTypes, Limiter!Put

LEMMA CleanedTypes ==
  ASSUME NEW m, \A j \in DOMAIN m : m[j] \in Seq(Nat), NEW window
  PROVE  \A j \in DOMAIN Limiter!Cleaned(m, window) :
           Limiter!Cleaned(m, window)[j] \in Seq(Nat)
BY DEF Limiter!Cleaned

LEMMA LogTypes ==
  ASSUME RateTypes, NEW k \in Limiter!Keys, Limiter!Log(k)
  PROVE  /\ log' \in [Limiter!Keys -> Seq(Nat)]
         /\ log'[k] = Append(Limiter!InWindow(k), now)
         /\ \A j \in Limiter!Keys : j # k => log'[j] = log[j]
<1>1. Limiter!InWindow(k) \in Seq(Nat) /\ now \in Nat
  BY KeyTypes DEF RateTypes
<1>2. Append(Limiter!InWindow(k), now) \in Seq(Nat)
  BY <1>1
<1> QED
  BY <1>2 DEF RateTypes, Limiter!Log

(* What allow does.                                                          *)
LEMMA AllowAgrees ==
  ASSUME RateTypes, NEW k \in Limits \X Ips, Limiter!Allow(k), UNCHANGED now
  PROVE  /\ RateTypes'
         /\ \A j \in Limiter!Keys :
              Sheltered(j[1]) /\ RateAgrees(j) => RateAgrees(j)'
<1> DEFINE w == RateWindow[k[1]]
           h == Limiter!Hits(k)
           r == Limiter!Recent(k)
           l == Limiter!InWindow(k)
<1>1. k \in Limiter!Keys
  BY DEF Limiter!Keys, Limiter!Buckets
<1>2. /\ h \in Seq(Nat) /\ r \in Seq(Nat) /\ l \in Seq(Nat) /\ log[k] \in Seq(Nat)
      /\ w \in Nat /\ now \in Nat
      /\ r = Retain(h, now, w) /\ l = Retain(log[k], now, w)
  BY <1>1, KeyTypes DEF RateTypes
<1>3. \A j \in Limiter!Keys : /\ Limiter!Hits(j) \in Seq(Nat) /\ log[j] \in Seq(Nat)
                              /\ RateWindow[j[1]] \in Nat
  BY KeyTypes
<1>4. RateAgrees(k) => CountAlike(r, log[k], now, w) /\ CountAlike(r, l, now, w)
  <2> SUFFICES ASSUME RateAgrees(k)
               PROVE  CountAlike(r, log[k], now, w) /\ CountAlike(r, l, now, w)
    OBVIOUS
  <2>1. CountAlike(h, log[k], now, w)
    BY DEF RateAgrees
  <2> HIDE DEF h, r, l, w
  <2>2. CountAlike(r, log[k], now, w)
    BY <1>2, <2>1, AlikeRetained
  <2>3. CountAlike(log[k], r, now, w)
    BY <2>2 DEF CountAlike
  <2>4. CountAlike(l, r, now, w)
    BY <1>2, <2>3, AlikeRetained
  <2> QED
    BY <2>2, <2>4 DEF CountAlike
<1>5. CASE Limiter!Allowed(k)
  <2> DEFINE more == Append(r, now)
             m == Limiter!Put(rate, k, more)
  <2>1. rate' = Limiter!Cleaned(m, w) /\ Limiter!Log(k)
    BY <1>5 DEF Limiter!Allow
  <2> HIDE DEF h, r, l, w
  <2>2. more \in Seq(Nat)
    BY <1>2
  <2> HIDE DEF more
  <2>3. /\ log' \in [Limiter!Keys -> Seq(Nat)] /\ log'[k] = Append(l, now)
        /\ \A j \in Limiter!Keys : j # k => log'[j] = log[j]
    BY <1>1, <2>1, LogTypes DEF l
  <2>4. RateTypes'
    <3>1. \A j \in DOMAIN m : m[j] \in Seq(Nat)
      BY <2>2, PutTypes
    <3> HIDE DEF m
    <3> QED
      BY <1>2, <2>1, <2>3, <3>1, CleanedTypes DEF RateTypes
  <2>5. ASSUME NEW j \in Limiter!Keys, Sheltered(j[1]), RateAgrees(j)
        PROVE  RateAgrees(j)'
    <3> DEFINE v == RateWindow[j[1]]
    <3>1. log'[j] \in Seq(Nat)
      BY <2>3
    <3>2. HitsIn(m, j) = IF j = k THEN more ELSE Limiter!Hits(j)
      BY PutHits, HitsAre
    <3>3. HitsIn(m, j) \in Seq(Nat)
      BY <1>3, <2>2, <3>2
    <3>4. CountAlike(HitsIn(m, j), log'[j], now, v)
      <4>1. CASE j = k
        <5>1. CountAlike(r, l, now, w)
          BY <1>4, <2>5, <4>1
        <5>2. CountAlike(Append(r, now), Append(l, now), now, w)
          BY <1>2, <5>1, AlikeAppended
        <5> QED
          BY <2>3, <3>2, <4>1, <5>2 DEF more, w
      <4>2. CASE j # k
        <5>1. HitsIn(m, j) = Limiter!Hits(j) /\ log'[j] = log[j]
          BY <2>3, <3>2, <4>2
        <5> HIDE DEF m
        <5> QED
          BY <2>5, <5>1 DEF RateAgrees
      <4> QED
        BY <4>1, <4>2
    <3>5. CountAlike(HitsIn(rate', j), log'[j], now, v)
      BY <2>1, <2>2, <2>5, <3>1, <3>3, <3>4, CleanedAgrees DEF w
    <3>6. Limiter!Hits(j)' = HitsIn(rate', j)
      BY DEF Limiter!Hits, HitsIn
    <3> QED
      BY <3>5, <3>6 DEF RateAgrees
  <2> QED
    BY <2>4, <2>5
<1>6. CASE ~Limiter!Allowed(k)
  <2>1. rate' = Limiter!Put(rate, k, r) /\ log' = log
    BY <1>6 DEF Limiter!Allow
  <2> HIDE DEF h, r, l, w
  <2>2. RateTypes'
    BY <1>2, <2>1, PutTypes DEF RateTypes
  <2>3. ASSUME NEW j \in Limiter!Keys, RateAgrees(j)
        PROVE  RateAgrees(j)'
    <3>1. Limiter!Hits(j)' = HitsIn(rate', j)
      BY DEF Limiter!Hits, HitsIn
    <3>2. Limiter!Hits(j)' = IF j = k THEN r ELSE Limiter!Hits(j)
      BY <2>1, <3>1, PutHits, HitsAre
    <3>3. CASE j = k
      BY <1>4, <2>1, <2>3, <3>2, <3>3 DEF RateAgrees, w
    <3>4. CASE j # k
      BY <2>1, <2>3, <3>2, <3>4 DEF RateAgrees
    <3> QED
      BY <3>3, <3>4
  <2> QED
    BY <2>2, <2>3
<1> QED
  BY <1>5, <1>6

(* What cooldown_active does.                                                *)
LEMMA CooldownAgrees ==
  ASSUME RateTypes, NEW k \in Limiter!Keys, Limiter!CooldownActive(k), UNCHANGED now
  PROVE  RateTypes' /\ \A j \in Limiter!Keys : RateAgrees(j) => RateAgrees(j)'
<1> DEFINE w == RateWindow[k[1]]
           h == Limiter!Hits(k)
           r == Limiter!Recent(k)
<1>1. /\ h \in Seq(Nat) /\ r \in Seq(Nat) /\ log[k] \in Seq(Nat)
      /\ w \in Nat /\ now \in Nat /\ r = Retain(h, now, w)
  BY KeyTypes DEF RateTypes
<1>2. log' = log /\ (rate' = Limiter!Put(rate, k, r) \/ rate' = rate)
  BY DEF Limiter!CooldownActive
<1>3. RateAgrees(k) => CountAlike(r, log[k], now, w)
  <2> SUFFICES ASSUME CountAlike(h, log[k], now, w)
               PROVE  CountAlike(r, log[k], now, w)
    BY DEF RateAgrees
  <2> HIDE DEF h, r, w
  <2> QED
    BY <1>1, AlikeRetained
<1> HIDE DEF h, r, w
<1>4. RateTypes'
  BY <1>1, <1>2, PutTypes DEF RateTypes
<1>5. ASSUME NEW j \in Limiter!Keys, RateAgrees(j) PROVE RateAgrees(j)'
  <2>1. Limiter!Hits(j)' = HitsIn(rate', j) /\ Limiter!Hits(j) = HitsIn(rate, j)
    BY DEF Limiter!Hits, HitsIn
  <2>2. CASE rate' = rate
    BY <1>2, <1>5, <2>1, <2>2 DEF RateAgrees
  <2>3. CASE rate' = Limiter!Put(rate, k, r)
    <3>1. Limiter!Hits(j)' = IF j = k THEN r ELSE Limiter!Hits(j)
      BY <2>1, <2>3, PutHits
    <3>2. CASE j = k
      BY <1>2, <1>3, <1>5, <3>1, <3>2 DEF RateAgrees, w
    <3>3. CASE j # k
      BY <1>2, <1>5, <3>1, <3>3 DEF RateAgrees
    <3> QED
      BY <3>2, <3>3
  <2> QED
    BY <1>2, <2>2, <2>3
<1> QED
  BY <1>4, <1>5

(* What record_op does.                                                      *)
LEMMA RecordAgrees ==
  ASSUME RateTypes, NEW k \in Limiter!Keys, Limiter!RecordOp(k), UNCHANGED now
  PROVE  RateTypes' /\ \A j \in Limiter!Keys : RateAgrees(j) => RateAgrees(j)'
<1> DEFINE w == RateWindow[k[1]]
           h == Limiter!Hits(k)
           l == Limiter!InWindow(k)
           more == Append(h, now)
<1>1. /\ h \in Seq(Nat) /\ l \in Seq(Nat) /\ log[k] \in Seq(Nat)
      /\ w \in Nat /\ now \in Nat /\ l = Retain(log[k], now, w)
  BY KeyTypes DEF RateTypes
<1>2. rate' = Limiter!Put(rate, k, more) /\ Limiter!Log(k)
  BY DEF Limiter!RecordOp
<1>3. more \in Seq(Nat)
  BY <1>1
<1>4. /\ log' \in [Limiter!Keys -> Seq(Nat)] /\ log'[k] = Append(l, now)
      /\ \A j \in Limiter!Keys : j # k => log'[j] = log[j]
  BY <1>2, LogTypes
<1>5. RateAgrees(k) => CountAlike(more, log'[k], now, w)
  <2> SUFFICES ASSUME CountAlike(h, log[k], now, w)
               PROVE  CountAlike(more, log'[k], now, w)
    BY DEF RateAgrees
  <2> HIDE DEF h, l, w
  <2>1. CountAlike(log[k], h, now, w)
    BY DEF CountAlike
  <2>2. CountAlike(l, h, now, w)
    BY <1>1, <2>1, AlikeRetained
  <2>3. CountAlike(h, l, now, w)
    BY <2>2 DEF CountAlike
  <2> QED
    BY <1>1, <1>4, <2>3, AlikeAppended
<1> HIDE DEF h, l, w, more
<1>6. RateTypes'
  BY <1>1, <1>2, <1>3, <1>4, PutTypes DEF RateTypes
<1>7. ASSUME NEW j \in Limiter!Keys, RateAgrees(j) PROVE RateAgrees(j)'
  <2>1. Limiter!Hits(j)' = IF j = k THEN more ELSE Limiter!Hits(j)
    <3>1. Limiter!Hits(j)' = HitsIn(rate', j) /\ Limiter!Hits(j) = HitsIn(rate, j)
      BY DEF Limiter!Hits, HitsIn
    <3> QED
      BY <1>2, <3>1, PutHits
  <2>2. CASE j = k
    BY <1>5, <1>7, <2>1, <2>2 DEF RateAgrees, w
  <2>3. CASE j # k
    BY <1>4, <1>7, <2>1, <2>3 DEF RateAgrees
  <2> QED
    BY <2>2, <2>3
<1> QED
  BY <1>6, <1>7

(* Time passes: what counts the same from now on does so from later on.      *)
LEMMA TickAgrees ==
  ASSUME RateTypes, Tick
  PROVE  RateTypes' /\ \A j \in Limiter!Keys : RateAgrees(j) => RateAgrees(j)'
<1>1. now \in Nat /\ now' = now + 1 /\ UNCHANGED <<rate, log>>
  BY DEF RateTypes, Tick, limiter
<1>2. RateTypes'
  BY <1>1 DEF RateTypes
<1>3. ASSUME NEW j \in Limiter!Keys, RateAgrees(j) PROVE RateAgrees(j)'
  <2>1. Limiter!Hits(j)' = Limiter!Hits(j) /\ log'[j] = log[j]
    BY <1>1 DEF Limiter!Hits
  <2>2. \A t \in Nat : now' <= t => now <= t
    BY <1>1
  <2> QED
    BY <1>3, <2>1, <2>2 DEF RateAgrees, CountAlike
<1> QED
  BY <1>2, <1>3

LEMMA ResetAgrees ==
  ASSUME now' \in Nat, rate' = <<>>, log' = [k \in Limiter!Keys |-> <<>>]
  PROVE  RateTypes' /\ \A j \in Limiter!Keys : RateAgrees(j)'
<1>1. DOMAIN rate' = {} /\ <<>> \in Seq(Nat)
  OBVIOUS
<1>2. RateTypes'
  BY <1>1 DEF RateTypes
<1>3. \A j \in Limiter!Keys : Limiter!Hits(j)' = <<>> /\ log'[j] = <<>>
  BY <1>1 DEF Limiter!Hits
<1> QED
  BY <1>2, <1>3 DEF RateAgrees, CountAlike

(* Each request is counted under an address, and each name change under a    *)
(* key.                                                                      *)
LEMMA TaskKeys ==
  ASSUME TaskInv, NEW w \in Workers, task[w].pc # "idle"
  PROVE  /\ <<Bucket[Op(w)], task[w].ip>> \in Limits \X Ips
         /\ Cooldown(task[w].event) \in Limiter!Keys
<1>1. task[w].ip \in Ips /\ task[w].event \in Events
  BY DEF TaskInv, Request, Idle
<1>2. Op(w) \in Ops /\ Signed[task[w].event].key \in Pubkeys
  BY <1>1 DEF Op
<1>3. Bucket[Op(w)] \in Limits
  BY <1>2 DEF Bucket, Ops, Limits
<1> QED
  BY <1>1, <1>2, <1>3 DEF Cooldown, Limiter!Keys, Limiter!Buckets

(* So every step keeps the agreement of the buckets that are sheltered.      *)
LEMMA NextAgrees ==
  ASSUME TaskInv, RateTypes, [Next]_vars
  PROVE  /\ RateTypes'
         /\ \A j \in Limiter!Keys :
              Sheltered(j[1]) /\ RateAgrees(j) => RateAgrees(j)'
<1> DEFINE Goal == /\ RateTypes'
                   /\ \A j \in Limiter!Keys :
                        Sheltered(j[1]) /\ RateAgrees(j) => RateAgrees(j)'
<1>1. ASSUME UNCHANGED <<now, rate, log>> PROVE Goal
  BY <1>1 DEF RateTypes, RateAgrees, Limiter!Hits
<1>2. ASSUME NEW w \in Workers, HandlerStep(w) PROVE Goal
  <2>1. CASE Limit(w)
    BY <2>1, TaskKeys, AllowAgrees DEF Limit
  <2>2. CASE CheckCooldown(w)
    BY <2>2, TaskKeys, CooldownAgrees DEF CheckCooldown
  <2>3. CASE Record(w)
    BY <2>3, TaskKeys, RecordAgrees DEF Record
  <2>4. CASE Verify(w) \/ Fresh(w) \/ Release(w)
    BY <1>1, <2>4 DEF Verify, Fresh, Release, limiter
  <2> HIDE DEF Goal
  <2> QED
    BY <1>2, <2>1, <2>2, <2>3, <2>4 DEF HandlerStep
<1>3. ASSUME NEW ip \in Ips, Read(ip) PROVE Goal
  <2>1. <<"read", ip>> \in Limits \X Ips
    BY DEF Limits
  <2> QED
    BY <1>3, <2>1, AllowAgrees DEF Read
<1>4. ASSUME Tick PROVE Goal
  BY <1>4, TickAgrees
<1>5. ASSUME Restart PROVE Goal
  BY <1>5, ResetAgrees DEF Restart, Limiter!RateReset, RateTypes
<1>6. ASSUME NEW w \in Workers, NEW ip \in Ips, NEW e \in Events, Arrive(w, ip, e)
      PROVE  Goal
  BY <1>1, <1>6 DEF Arrive, limiter
<1>7. ASSUME UNCHANGED vars PROVE Goal
  BY <1>1, <1>7 DEF vars, limiter
<1> HIDE DEF Goal
<1>8. Goal
  BY <1>2, <1>3, <1>4, <1>5, <1>6, <1>7 DEF Next
<1> QED
  BY <1>8 DEF Goal

(* The history of a limit grows only by a call that was allowed.             *)
LEMMA NextLog ==
  ASSUME TaskInv, RateTypes, [Next]_vars, NEW j \in Limits \X (Ips \cup Pubkeys)
  PROVE  \/ log'[j] = log[j] /\ now \in Nat /\ now' \in Nat /\ now <= now'
         \/ log'[j] = <<>> /\ now' \in Nat
         \/ /\ Limiter!Allowed(j) /\ UNCHANGED now
            /\ log'[j] = Append(Limiter!InWindow(j), now)
<1> DEFINE Goal == \/ log'[j] = log[j] /\ now \in Nat /\ now' \in Nat /\ now <= now'
                   \/ log'[j] = <<>> /\ now' \in Nat
                   \/ /\ Limiter!Allowed(j) /\ UNCHANGED now
                      /\ log'[j] = Append(Limiter!InWindow(j), now)
<1>0. now \in Nat /\ j \in Limiter!Keys
  BY DEF RateTypes, Limiter!Keys, Limiter!Buckets
<1>1. ASSUME UNCHANGED <<now, log>> PROVE Goal
  BY <1>0, <1>1
<1>2. ASSUME NEW k \in Limits \X Ips, Limiter!Allow(k), UNCHANGED now PROVE Goal
  <2>1. k \in Limiter!Keys
    BY DEF Limiter!Keys, Limiter!Buckets
  <2>2. CASE Limiter!Allowed(k)
    <3>1. Limiter!Log(k)
      BY <1>2, <2>2 DEF Limiter!Allow
    <3>2. IF j = k THEN log'[j] = Append(Limiter!InWindow(j), now)
                   ELSE log'[j] = log[j]
      BY <1>0, <2>1, <3>1, LogTypes
    <3> QED
      BY <1>0, <1>2, <2>2, <3>2
  <2>3. CASE ~Limiter!Allowed(k)
    BY <1>1, <1>2, <2>3 DEF Limiter!Allow
  <2> QED
    BY <2>2, <2>3
<1>3. ASSUME NEW w \in Workers, HandlerStep(w) PROVE Goal
  <2>1. CASE Limit(w)
    BY <1>2, <2>1, TaskKeys DEF Limit
  <2>2. CASE CheckCooldown(w)
    BY <1>1, <2>2 DEF CheckCooldown, Limiter!CooldownActive
  <2>3. CASE Record(w)
    <3> DEFINE k == Cooldown(task[w].event)
    <3>1. k \in Limiter!Keys /\ Limiter!Log(k) /\ UNCHANGED now
      BY <2>3, TaskKeys DEF Record, Limiter!RecordOp
    <3>2. j # k
      BY DEF Cooldown, Limits
    <3> QED
      BY <1>0, <3>1, <3>2, LogTypes
  <2>4. CASE Verify(w) \/ Fresh(w) \/ Release(w)
    BY <1>1, <2>4 DEF Verify, Fresh, Release, limiter
  <2> HIDE DEF Goal
  <2>5. Limit(w) \/ CheckCooldown(w) \/ Record(w) \/ Verify(w) \/ Fresh(w) \/ Release(w)
    BY <1>3 DEF HandlerStep
  <2> QED
    BY <2>1, <2>2, <2>3, <2>4, <2>5
<1>4. ASSUME NEW ip \in Ips, Read(ip) PROVE Goal
  <2>1. <<"read", ip>> \in Limits \X Ips
    BY DEF Limits
  <2> QED
    BY <1>2, <1>4, <2>1 DEF Read
<1>5. ASSUME Tick PROVE Goal
  BY <1>0, <1>5 DEF Tick, limiter
<1>6. ASSUME Restart PROVE Goal
  BY <1>0, <1>6 DEF Restart, Limiter!RateReset
<1>7. ASSUME NEW w \in Workers, NEW ip \in Ips, NEW e \in Events, Arrive(w, ip, e)
      PROVE  Goal
  BY <1>1, <1>7 DEF Arrive, limiter
<1>8. ASSUME UNCHANGED vars PROVE Goal
  BY <1>1, <1>8 DEF vars, limiter
<1> HIDE DEF Goal
<1>9. Goal
  BY <1>3, <1>4, <1>5, <1>6, <1>7, <1>8 DEF Next
<1> QED
  BY <1>9 DEF Goal

LEMMA AgreesNow ==
  ASSUME RateTypes, NEW k \in Limiter!Keys, RateAgrees(k)
  PROVE  Limiter!Recent(k) = Limiter!InWindow(k)
BY KeyTypes DEF RateAgrees, CountAlike, RateTypes

\* What bucket b lets through, and what it counts, for every caller.
WithinLimit(b) ==
  \A c \in Ips \cup Pubkeys : Len(Limiter!InWindow(<<b, c>>)) <= Max[b]
BucketAgrees(b) == \A c \in Ips \cup Pubkeys : RateAgrees(<<b, c>>)

LEMMA NextWithinLimit ==
  ASSUME TaskInv, RateTypes, [Next]_vars, RateTypes', NEW b \in Limits,
         WithinLimit(b), BucketAgrees(b)
  PROVE  WithinLimit(b)'
<1> SUFFICES ASSUME NEW c \in Ips \cup Pubkeys
             PROVE  Len(Limiter!InWindow(<<b, c>>))' <= Max[b]
  BY DEF WithinLimit
<1> DEFINE j == <<b, c>>
           w == RateWindow[b]
           l == Limiter!InWindow(j)
<1>1. j \in Limits \X (Ips \cup Pubkeys) /\ j \in Limiter!Keys /\ j[1] = b
  BY DEF Limiter!Keys, Limiter!Buckets
<1>2. /\ w \in Nat /\ Max[b] \in Nat /\ now \in Nat /\ now' \in Nat
      /\ l \in Seq(Nat) /\ log[j] \in Seq(Nat) /\ log'[j] \in Seq(Nat)
      /\ l = Retain(log[j], now, w) /\ Len(l) <= Max[b]
  BY <1>1, KeyTypes DEF RateTypes, WithinLimit
<1>3. l' = Retain(log'[j], now', w)
  BY <1>1 DEF Limiter!InWindow, Retain
<1> HIDE DEF j, l, w
<1>4. \/ log'[j] = log[j] /\ now <= now'
      \/ log'[j] = <<>>
      \/ Limiter!Allowed(j) /\ log'[j] = Append(l, now)
  BY <1>1, NextLog DEF l
<1>5. Len(l') <= Len(log'[j])
  BY <1>2, <1>3, RetainShorter
<1>6. CASE log'[j] = log[j] /\ now <= now'
  <2>1. l' = Retain(l, now', w)
    BY <1>2, <1>3, <1>6, RetainTwice
  <2>2. l' \in Seq(Nat) /\ Len(l') <= Len(l)
    BY <1>2, <2>1, RetainShorter, RetainType
  <2> QED
    BY <1>2, <2>2 DEF l, j
<1>7. CASE log'[j] = <<>>
  <2>1. l' = <<>>
    BY <1>2, <1>3, <1>7, RetainNone
  <2> QED
    BY <1>2, <2>1 DEF l, j
<1>8. CASE Limiter!Allowed(j) /\ log'[j] = Append(l, now)
  <2>1. Len(Limiter!Recent(j)) < Max[b]
    BY <1>1, <1>8 DEF Limiter!Allowed
  <2>2. Limiter!Recent(j) = l
    BY <1>1, AgreesNow DEF l, j, BucketAgrees
  <2>3. l' \in Seq(Nat) /\ Len(l') <= Len(l) + 1
    <3>1. Len(Append(l, now)) = Len(l) + 1
      BY <1>2
    <3> QED
      BY <1>2, <1>3, <1>5, <1>8, <3>1, RetainType
  <2> QED
    BY <1>2, <2>1, <2>2, <2>3 DEF l, j
<1> QED
  BY <1>4, <1>6, <1>7, <1>8

\* At every limit, and at the cooldown, no cleanup drops what still counts.
LimitsSheltered   == \A b \in Limits : Sheltered(b)
CooldownSheltered == Sheltered("namechange")

LimitsAgree    == \A b \in Limits : BucketAgrees(b)
CooldownsAgree == BucketAgrees("namechange")

LEMMA InitAgrees ==
  ASSUME Init
  PROVE  RateTypes /\ (\A j \in Limiter!Keys : RateAgrees(j)) /\ WithinRate
<1>1. now \in Nat /\ rate = <<>> /\ log = [k \in Limiter!Keys |-> <<>>]
  BY DEF Init, Limiter!RateInit
<1>2. DOMAIN rate = {} /\ <<>> \in Seq(Nat)
  BY <1>1
<1>3. RateTypes
  BY <1>1, <1>2 DEF RateTypes
<1>4. \A j \in Limiter!Keys : Limiter!Hits(j) = <<>> /\ log[j] = <<>>
  BY <1>1, <1>2 DEF Limiter!Hits
<1>5. \A j \in Limiter!Keys : RateAgrees(j)
  BY <1>4 DEF RateAgrees, CountAlike
<1>6. ASSUME NEW b \in Limits, NEW c \in Ips \cup Pubkeys
      PROVE  Len(Limiter!InWindow(<<b, c>>)) <= Max[b]
  <2>1. <<b, c>> \in Limiter!Keys
    BY DEF Limiter!Keys, Limiter!Buckets
  <2>2. /\ Limiter!InWindow(<<b, c>>) = Retain(<<>>, now, RateWindow[b])
        /\ RateWindow[b] \in Nat /\ Max[b] \in Nat
    BY <1>3, <1>4, <2>1, KeyTypes
  <2>3. Limiter!InWindow(<<b, c>>) = <<>>
    BY <1>1, <2>2, RetainNone
  <2> QED
    BY <2>2, <2>3
<1> QED
  BY <1>3, <1>5, <1>6 DEF WithinRate, Limiter!WithinRate

LEMMA InitTaskInv == Init => TaskInv
BY DEF Init, TaskInv

LEMMA BucketKeys ==
  \A b \in Limits \cup {"namechange"} :
    \A c \in Ips \cup Pubkeys : <<b, c>> \in Limiter!Keys /\ <<b, c>>[1] = b
BY DEF Limiter!Keys, Limiter!Buckets

LEMMA NextBucketAgrees ==
  ASSUME NEW b \in Limits \cup {"namechange"}, TaskInv, RateTypes,
         BucketAgrees(b), Sheltered(b), [Next]_vars
  PROVE  BucketAgrees(b)'
<1> SUFFICES ASSUME NEW c \in Ips \cup Pubkeys PROVE RateAgrees(<<b, c>>)'
  BY DEF BucketAgrees
<1> DEFINE j == <<b, c>>
<1>1. j \in Limiter!Keys /\ j[1] = b /\ RateAgrees(j)
  BY BucketKeys DEF BucketAgrees
<1> HIDE DEF j
<1>2. RateAgrees(j)'
  BY <1>1, NextAgrees
<1> QED
  BY <1>2 DEF j

LEMMA NextLimitsAgree ==
  TaskInv /\ RateTypes /\ LimitsAgree /\ LimitsSheltered /\ [Next]_vars
    => LimitsAgree'
BY NextBucketAgrees DEF LimitsAgree, LimitsSheltered

LEMMA NextTypes == TaskInv /\ RateTypes /\ [Next]_vars => RateTypes'
BY NextAgrees

(* A limit with the shortest window of all - reads, with the default windows *)
(* - holds however large the map grows: a cleanup goes by the window of a    *)
(* limit, so it drops nothing that this one counts (ratelimit.rs:43-59).     *)
THEOREM ShortestLimitKept ==
  ASSUME NEW b \in Limits, \A c \in Limits : RateWindow[b] <= RateWindow[c]
  PROVE  Spec => []WithinLimit(b)
<1>1. Sheltered(b)
  BY DEF Sheltered
<1>2. Init => RateTypes /\ BucketAgrees(b) /\ WithinLimit(b)
  BY InitAgrees, BucketKeys DEF BucketAgrees, WithinLimit, WithinRate, Limiter!WithinRate
<1>3. TaskInv /\ RateTypes /\ BucketAgrees(b) /\ [Next]_vars => BucketAgrees(b)'
  BY <1>1, NextBucketAgrees
<1>4. TaskInv /\ RateTypes /\ BucketAgrees(b) /\ WithinLimit(b) /\ [Next]_vars
        => WithinLimit(b)'
  BY NextWithinLimit, NextTypes
<1> QED
  BY <1>2, <1>3, <1>4, InitTaskInv, TaskInvKept, NextTypes, PTL DEF Spec

(* As long as no cleanup can drop what a limit still counts, no window of    *)
(* time, wherever it starts, holds more admitted calls of one address than   *)
(* the ceiling, for any addresses, windows and ceilings, with any number of  *)
(* requests in flight (ratelimit.rs:43-59).                                  *)
THEOREM RateKept == Spec /\ []LimitsSheltered => []WithinRate
<1>1. Init => RateTypes /\ LimitsAgree /\ WithinRate
  BY InitAgrees, BucketKeys DEF LimitsAgree, BucketAgrees
<1>2. WithinRate = \A b \in Limits : WithinLimit(b)
  BY DEF WithinRate, Limiter!WithinRate, WithinLimit
<1>3. TaskInv /\ RateTypes /\ LimitsAgree /\ WithinRate /\ [Next]_vars
        => WithinRate'
  BY <1>2, NextWithinLimit, NextTypes DEF LimitsAgree, WithinRate,
     Limiter!WithinRate, WithinLimit
<1> QED
  BY <1>1, <1>3, InitTaskInv, TaskInvKept, NextTypes, NextLimitsAgree, PTL DEF Spec

(* And refused calls, other addresses and other buckets cost a caller        *)
(* nothing (ratelimit.rs:43-52).                                             *)
THEOREM LimiterCounts == Spec /\ []LimitsSheltered => []LimiterExact
<1>1. Init => RateTypes /\ LimitsAgree
  BY InitAgrees, BucketKeys DEF LimitsAgree, BucketAgrees
<1>2. RateTypes /\ LimitsAgree => LimiterExact
  <2> SUFFICES ASSUME RateTypes, LimitsAgree, NEW b \in Limits,
                      NEW c \in Ips \cup Pubkeys
               PROVE  Limiter!Allowed(<<b, c>>)
                        <=> Len(Limiter!InWindow(<<b, c>>)) < Max[b]
    BY DEF LimiterExact, Limiter!LimiterExact
  <2>1. Limiter!Recent(<<b, c>>) = Limiter!InWindow(<<b, c>>)
    BY BucketKeys, AgreesNow DEF LimitsAgree, BucketAgrees
  <2> QED
    BY <2>1 DEF Limiter!Allowed
<1> QED
  BY <1>1, <1>2, InitTaskInv, TaskInvKept, NextTypes, NextLimitsAgree, PTL DEF Spec

(* As long as no cleanup can drop a recorded release, a key is on cooldown   *)
(* exactly while a release of it is within the window (ratelimit.rs:24-41).  *)
THEOREM CooldownCounts == Spec /\ []CooldownSheltered => []CooldownExact
<1>1. Init => RateTypes /\ CooldownsAgree
  BY InitAgrees, BucketKeys DEF CooldownsAgree, BucketAgrees
<1>2. TaskInv /\ RateTypes /\ CooldownsAgree /\ CooldownSheltered /\ [Next]_vars
        => CooldownsAgree'
  BY NextBucketAgrees DEF CooldownsAgree, CooldownSheltered
<1>3. RateTypes /\ CooldownsAgree => CooldownExact
  <2> SUFFICES ASSUME RateTypes, CooldownsAgree, NEW c \in Ips \cup Pubkeys
               PROVE  Limiter!Active(<<"namechange", c>>)
                        <=> Limiter!InWindow(<<"namechange", c>>) # <<>>
    BY DEF CooldownExact, Limiter!CooldownExact
  <2>1. Limiter!Recent(<<"namechange", c>>) = Limiter!InWindow(<<"namechange", c>>)
    BY BucketKeys, AgreesNow DEF CooldownsAgree, BucketAgrees
  <2> QED
    BY <2>1 DEF Limiter!Active
<1> QED
  BY <1>1, <1>2, <1>3, InitTaskInv, TaskInvKept, NextTypes, PTL DEF Spec

\* All keys together do not make the map large.
FewCallers == \A keys \in SUBSET Limiter!Keys : ~Limiter!Large(keys)

MapKeys == DOMAIN rate \subseteq Limiter!Keys

LEMMA NextMapKeys ==
  ASSUME TaskInv, MapKeys, [Next]_vars
  PROVE  MapKeys'
<1>1. ASSUME UNCHANGED rate PROVE MapKeys'
  BY <1>1 DEF MapKeys
<1>2. ASSUME NEW k \in Limiter!Keys, NEW hits
      PROVE  DOMAIN Limiter!Put(rate, k, hits) \subseteq Limiter!Keys
  BY DEF MapKeys, Limiter!Put
<1>3. ASSUME NEW m, NEW window, DOMAIN m \subseteq Limiter!Keys
      PROVE  DOMAIN Limiter!Cleaned(m, window) \subseteq Limiter!Keys
  BY <1>3 DEF Limiter!Cleaned
<1>4. ASSUME NEW k \in Limits \X Ips, Limiter!Allow(k) PROVE MapKeys'
  <2>1. k \in Limiter!Keys
    BY DEF Limiter!Keys, Limiter!Buckets
  <2> QED
    BY <1>2, <1>3, <1>4, <2>1 DEF Limiter!Allow, MapKeys
<1>5. ASSUME NEW w \in Workers, HandlerStep(w) PROVE MapKeys'
  <2>1. CASE Limit(w)
    BY <1>4, <2>1, TaskKeys DEF Limit
  <2>2. CASE CheckCooldown(w)
    BY <1>1, <1>2, <2>2, TaskKeys DEF CheckCooldown, Limiter!CooldownActive, MapKeys
  <2>3. CASE Record(w)
    BY <1>2, <2>3, TaskKeys DEF Record, Limiter!RecordOp, MapKeys
  <2>4. CASE Verify(w) \/ Fresh(w) \/ Release(w)
    BY <1>1, <2>4 DEF Verify, Fresh, Release, limiter
  <2> QED
    BY <1>5, <2>1, <2>2, <2>3, <2>4 DEF HandlerStep
<1>6. ASSUME NEW ip \in Ips, Read(ip) PROVE MapKeys'
  <2>1. <<"read", ip>> \in Limits \X Ips
    BY DEF Limits
  <2> QED
    BY <1>4, <1>6, <2>1 DEF Read
<1>7. ASSUME Restart PROVE MapKeys'
  <2>1. DOMAIN rate' = {}
    BY <1>7 DEF Restart, Limiter!RateReset
  <2> QED
    BY <2>1 DEF MapKeys
<1>8. ASSUME Tick \/ UNCHANGED vars \/
             \E w \in Workers, ip \in Ips, e \in Events : Arrive(w, ip, e)
      PROVE  MapKeys'
  BY <1>1, <1>8 DEF Tick, Arrive, vars, limiter
<1> QED
  BY <1>5, <1>6, <1>7, <1>8 DEF Next

(* With so few addresses and keys that the map stays below the cleanup size, *)
(* every bucket is sheltered, in every state (ratelimit.rs:54-59).           *)
THEOREM FewCallersSuffice ==
  ASSUME FewCallers
  PROVE  Spec => [](LimitsSheltered /\ CooldownSheltered)
<1>1. Init => MapKeys
  <2>1. Init => DOMAIN rate = {}
    BY DEF Init, Limiter!RateInit
  <2> QED
    BY <2>1 DEF MapKeys
<1>2. MapKeys => LimitsSheltered /\ CooldownSheltered
  <2> SUFFICES ASSUME MapKeys PROVE NoCleanup
    BY DEF LimitsSheltered, CooldownSheltered, Sheltered
  <2>1. \A k \in Limits \X Ips : k \in Limiter!Keys
    BY DEF Limiter!Keys, Limiter!Buckets
  <2> QED
    BY <2>1 DEF MapKeys, FewCallers, NoCleanup
<1>3. TaskInv /\ MapKeys /\ [Next]_vars => MapKeys'
  BY NextMapKeys
<1> QED
  BY <1>1, <1>2, <1>3, InitTaskInv, TaskInvKept, PTL DEF Spec

=============================================================================
