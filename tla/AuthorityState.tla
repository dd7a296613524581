--------------------------- MODULE AuthorityState ---------------------------
(***************************************************************************)
(* The state every handler of one running name authority shares (the App   *)
(* struct of db.rs), and the tasks that run the handlers.                  *)
(*                                                                         *)
(* axum runs each request as a task of tokio's multi-threaded runtime. A   *)
(* handler takes the database mutex, or the mutex of the rate map, once    *)
(* per statement and drops it again, so two tasks interleave between any   *)
(* two statements. A worker is a slot for one request in flight; its task  *)
(* record holds the program counter and the locals the handler still needs.*)
(***************************************************************************)
CONSTANTS
  Names,      \* names that pass valid_name and are not reserved
  Pubkeys,    \* nostr public keys
  Workers,    \* slots for requests in flight
  None,       \* SQL NULL, Rust None
  DbFaults,   \* whether a statement on the database may fail
  PayMode     \* FLOONET_PAY_MODE

ASSUME NoneAssumption == None \notin Pubkeys

ASSUME DbFaultsAssumption == DbFaults \in BOOLEAN

ASSUME PayModeAssumption == PayMode \in {"off", "name", "write"}

VARIABLES
  owner,      \* table names: owner[n] is the key of n's row with released_at
              \* NULL; None when n has no row or only a released one
  cooldown,   \* rate map, bucket "namechange": keys with a hit in the window
  task        \* task[w]: the request worker w is handling, or Idle

Idle == [pc |-> "idle"]

-----------------------------------------------------------------------------
(* Queries on the names table. *)

Lookup(n) == owner[n]

NameOf(p) == {n \in Names : owner[n] = p}

-----------------------------------------------------------------------------
(* Moves of a task. *)

Begin(w, t) == task[w] = Idle /\ task' = [task EXCEPT ![w] = t]

Goto(w, pc) == task' = [task EXCEPT ![w].pc = pc]

\* The handler answers and its future is dropped.
Return(w) == task' = [task EXCEPT ![w] = Idle]

\* An early return: go on when cond holds, answer with an error otherwise.
Check(w, cond, pc) == IF cond THEN Goto(w, pc) ELSE Return(w)

-----------------------------------------------------------------------------
StateInit ==
  /\ owner = [n \in Names |-> None]
  /\ cooldown = {}
  /\ task = [w \in Workers |-> Idle]

\* The last hit of p leaves the cooldown window.
CooldownElapses(p) ==
  /\ p \in cooldown
  /\ cooldown' = cooldown \ {p}
  /\ UNCHANGED <<owner, task>>

\* The process stops between two statements and is started again: what is
\* committed stays, the in-memory maps and the requests in flight are lost.
Restart ==
  /\ cooldown' = {}
  /\ task' = [w \in Workers |-> Idle]
  /\ UNCHANGED owner

\* record_op("namechange", p).
ArmCooldown(p) == cooldown' = cooldown \cup {p}

=============================================================================
