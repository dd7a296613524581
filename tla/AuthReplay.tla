------------------------------ MODULE AuthReplay ------------------------------
(***************************************************************************)
(* One-time use of NIP-98 auth events: the age check of verify_nip98       *)
(* (auth.rs) and the table of seen event ids behind auth_event_fresh       *)
(* (ratelimit.rs). RequestGuards runs the two, with other requests between *)
(* them. One clock in seconds stands for the wall clock and for Instant;   *)
(* the reading of Instant and the lock section that follows it are one     *)
(* step.                                                                   *)
(***************************************************************************)
EXTENDS Integers, Sequences

CONSTANTS
  Events,     \* signed auth events
  Created,    \* Created[e]: created_at of e
  None,
  MaxAge,     \* auth_max_age_secs
  Skew        \* seconds an event may be post-dated

ASSUME ReplayAssumption ==
  /\ MaxAge \in Nat /\ Skew \in Nat
  /\ Created \in [Events -> Int]
  /\ None \notin Events /\ None \notin Int

VARIABLES
  now,
  seen,       \* seen_auth: seen[e] is the Instant e was recorded at, or None
  uses        \* history: when this process let e through

\* How long an event id is remembered.
Window == MaxAge + Skew

Age(e) == now - Created[e]

\* Not too old and not too far in the future.
AgeAdmitted(e) == Age(e) \in -Skew .. MaxAge

\* MUTANT: an id is remembered for auth_max_age_secs only.
RememberedMaxAge == [e \in Events |-> IF seen[e] # None /\ now - seen[e] < MaxAge
                                        THEN seen[e] ELSE None]

\* seen.retain: what is still remembered.
Remembered == [e \in Events |-> IF seen[e] # None /\ now - seen[e] < Window
                                  THEN seen[e] ELSE None]

IsFresh(e) == Remembered[e] = None

\* auth_event_fresh: the first use is recorded and let through, a replay is
\* refused and does not renew the record.
AuthEventFresh(e) ==
  IF IsFresh(e)
    THEN /\ seen' = [Remembered EXCEPT ![e] = now]
         /\ uses' = [uses EXCEPT ![e] = Append(@, now)]
    ELSE seen' = Remembered /\ UNCHANGED uses

\* The table is not persisted: a new process starts with an empty one.
ReplayReset ==
  /\ seen' = [e \in Events |-> None]
  /\ uses' = [e \in Events |-> <<>>]

ReplayInit ==
  /\ seen = [e \in Events |-> None]
  /\ uses = [e \in Events |-> <<>>]

-----------------------------------------------------------------------------
(* However requests with the same event interleave, and whichever other      *)
(* request prunes the table in between, one process lets an event through    *)
(* again only MaxAge + Skew seconds after it last did (ratelimit.rs:11-21).  *)
UsesApart ==
  \A e \in Events : \A i, j \in 1 .. Len(uses[e]) :
    i < j => uses[e][j] - uses[e][i] >= Window

(* README.md:240-242 and auth.rs:45-46: event ids are one-time. The window   *)
(* in which an event of maximal post-dating passes the age check is one      *)
(* second longer than the table's memory.                                    *)
UsedOnce == \A e \in Events : Len(uses[e]) <= 1

=============================================================================
