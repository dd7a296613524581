---------------------------- MODULE RequestGuards ----------------------------
(***************************************************************************)
(* What stands in front of the registry's handlers: the limiter, NIP-98    *)
(* authentication, the replay table, the cooldown and the name rules, in   *)
(* the order in which register, unregister and the readers run them. Each  *)
(* guard takes its lock for itself, so requests interleave between guards. *)
(* The statements on the database that follow are Registry's.              *)
(***************************************************************************)
EXTENDS AuthReplay, NameRules

CONSTANTS
  Workers,    \* requests in flight
  Ips, Pubkeys, \* client addresses, and public keys
  Signed,     \* Signed[e]: the public key of e, and the call it was signed for
  Spellings,  \* names requests ask for, in lowercase
  RateWindow, Max, CleanupAt,   \* see RateLimit
  MaxTime     \* bound of the clock

Ops    == {"register", "unregister"}
Limits == {"read", "reg", "unreg"}
Bucket == [register |-> "reg", unregister |-> "unreg"]

VARIABLES
  rate, log,  \* see RateLimit
  task,       \* task[w]: the guard worker w is at, or Idle
  claimed     \* the name the last step let through, or None

Limiter == INSTANCE RateLimit
             WITH Cooldowns <- {"namechange"}, Callers <- Ips \cup Pubkeys,
                  Window <- RateWindow

ASSUME GuardsAssumption ==
  /\ Signed \in [Events -> [key : Pubkeys, op : Ops]]
  /\ RateWindow \in [Limiter!Buckets -> Nat] /\ Max \in [Limits -> Nat]
  /\ CleanupAt \in Nat /\ MaxTime \in Nat

Idle == [pc |-> "idle"]

Request == [pc : {"limit", "verify", "fresh", "cooldown", "release", "record"},
            ip : Ips, event : Events]

replay  == <<seen, uses>>
limiter == <<rate, log>>
vars == <<now, replay, limiter, task, claimed>>

Cooldown(e) == <<"namechange", Signed[e].key>>

-----------------------------------------------------------------------------
Goto(w, pc) == task' = [task EXCEPT ![w].pc = pc]
Return(w)   == task' = [task EXCEPT ![w] = Idle]

Check(w, holds, pc) == IF holds THEN Goto(w, pc) ELSE Return(w)

Op(w) == Signed[task[w].event].op

Silent == claimed' = None

\* A request arrives, perhaps with an event that was seen before.
Arrive(w, ip, e) ==
  /\ task[w] = Idle
  /\ task' = [task EXCEPT ![w] = [pc |-> "limit", ip |-> ip, event |-> e]]
  /\ Silent
  /\ UNCHANGED <<now, replay, limiter>>

\* A GET: nothing but the limiter guards it.
Read(ip) ==
  /\ Limiter!Allow(<<"read", ip>>)
  /\ Silent
  /\ UNCHANGED <<now, replay, task>>

\* allow_write
Limit(w) ==
  LET k == <<Bucket[Op(w)], task[w].ip>> IN
  /\ task[w].pc = "limit"
  /\ Limiter!Allow(k)
  /\ Check(w, Limiter!Allowed(k), "verify")
  /\ Silent
  /\ UNCHANGED <<now, replay>>

\* verify_nip98: what depends on the request alone (signature, kind, url, method
\* and payload) an event here has passed; its age is left.
Verify(w) ==
  /\ task[w].pc = "verify"
  /\ Check(w, AgeAdmitted(task[w].event), "fresh")
  /\ Silent
  /\ UNCHANGED <<now, replay, limiter>>

Fresh(w) ==
  LET e == task[w].event IN
  /\ task[w].pc = "fresh"
  /\ AuthEventFresh(e)
  /\ Check(w, IsFresh(e), IF Op(w) = "register" THEN "cooldown" ELSE "release")
  /\ Silent
  /\ UNCHANGED <<now, limiter>>

\* MUTANT: the folded name is what is claimed.
CheckCooldownFolded(w) ==
  LET k == Cooldown(task[w].event) IN
  /\ task[w].pc = "cooldown"
  /\ Limiter!CooldownActive(k)
  /\ \/ Limiter!Active(k) /\ Silent
     \/ ~Limiter!Active(k) /\ \E n \in Spellings :
          claimed' = IF valid_name(n) /\ ~is_reserved(n) THEN fold_lookalike(n)
                                                        ELSE None
  /\ Return(w)
  /\ UNCHANGED <<now, replay>>

\* register: the cooldown of the key, then the name. What is claimed goes on to
\* the database.
CheckCooldown(w) ==
  LET k == Cooldown(task[w].event) IN
  /\ task[w].pc = "cooldown"
  /\ Limiter!CooldownActive(k)
  /\ \/ Limiter!Active(k) /\ Silent
     \/ ~Limiter!Active(k) /\ \E n \in Spellings :
          claimed' = IF valid_name(n) /\ ~is_reserved(n) THEN n ELSE None
  /\ Return(w)
  /\ UNCHANGED <<now, replay>>

\* unregister: only the UPDATE of the owner arms the cooldown.
Release(w) ==
  /\ task[w].pc = "release"
  /\ Goto(w, "record") \/ Return(w)
  /\ Silent
  /\ UNCHANGED <<now, replay, limiter>>

Record(w) ==
  /\ task[w].pc = "record"
  /\ Limiter!RecordOp(Cooldown(task[w].event))
  /\ Return(w)
  /\ Silent
  /\ UNCHANGED <<now, replay>>

Tick ==
  /\ now < MaxTime
  /\ now' = now + 1
  /\ Silent
  /\ UNCHANGED <<replay, limiter, task>>

Restart ==
  /\ ReplayReset /\ Limiter!RateReset
  /\ task' = [w \in Workers |-> Idle]
  /\ Silent
  /\ UNCHANGED now

Init ==
  /\ now = 0
  /\ ReplayInit /\ Limiter!RateInit
  /\ task = [w \in Workers |-> Idle]
  /\ claimed = None

HandlerStep(w) ==
  Limit(w) \/ Verify(w) \/ Fresh(w) \/ CheckCooldown(w) \/ Release(w) \/ Record(w)

Next ==
  \/ \E w \in Workers : HandlerStep(w)
  \/ \E w \in Workers, ip \in Ips, e \in Events : Arrive(w, ip, e)
  \/ \E ip \in Ips : Read(ip)
  \/ Tick
  \/ Restart

Spec == Init /\ [][Next]_vars

-----------------------------------------------------------------------------
TypeOK ==
  /\ now \in 0 .. MaxTime
  /\ seen \in [Events -> (0 .. MaxTime) \cup {None}]
  /\ uses \in [Events -> Seq(0 .. MaxTime)]
  /\ task \in [Workers -> Request \cup {Idle}]
  /\ claimed \in Spellings \cup {None}

(* No window of time, wherever it starts, holds more admitted calls of one   *)
(* address than the ceiling (ratelimit.rs:43-59).                            *)
WithinRate == Limiter!WithinRate

(* Refused calls, other addresses and other buckets cost a caller nothing    *)
(* (ratelimit.rs:43-52).                                                     *)
LimiterExact == Limiter!LimiterExact

(* A key is on cooldown exactly while an operation of it is within the       *)
(* window, below the size at which the map is cleaned up                     *)
(* (ratelimit.rs:24-41).                                                     *)
CooldownExact == Limiter!CooldownExact

-----------------------------------------------------------------------------
(* What the documentation says and the code does not keep.                   *)

(* names.rs:101-104, README.md:223-224: no name that goes on to the database *)
(* can be taken for a reserved term, one of the operator's domain labels or  *)
(* a listed one, whichever digits and separators it is spelled with.         *)
NoLookalikes ==
  claimed # None => \A r \in Reserved : ~LooksLike(claimed, r)

=============================================================================
