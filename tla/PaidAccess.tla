----------------------------- MODULE PaidAccess -----------------------------
(***************************************************************************)
(* Paid write access end to end: a client's quote, its payment, the grant  *)
(* at the authority, the plugin's lookup through paid_status, its cache,   *)
(* and the verdict on the client's event. FLOONET_PAY_MODE is "write".     *)
(***************************************************************************)
EXTENDS PaidGrants, Integers, Sequences

CONSTANTS
  Events, Authors, RequireAuth, CacheSecs, FailSecs,   \* see WritePolicy
  LookupSecs   \* timeout of a lookup

VARIABLES
  cache, req, out,  \* the plugin, see WritePolicy
  paidFor,  \* history: the seconds p's grant has been paid for
  yesAge,   \* history: the seconds since the authority answered that p has paid
  excused   \* history: the seconds a failed lookup or query still explains that
            \* p is refused

Plugin == INSTANCE WritePolicy WITH Keys <- Pubkeys

ASSUME AccessAssumption ==
  /\ PayMode = "write" /\ RequireAuth \in BOOLEAN
  /\ Events \subseteq
       [kind : Plugin!Kinds, author : Pubkeys, tags : Seq(Plugin!Tag)]
  /\ Authors \subseteq Pubkeys
  /\ {CacheSecs, FailSecs, LookupSecs} \subseteq Nat

plugin == <<cache, req, out>>
authority == <<owner, cooldown, task, payVars>>
vars == <<authority, plugin, paidFor, yesAge, excused>>

MaxOf(a, b) == IF a < b THEN b ELSE a

\* The longest that a verdict is used after it was given.
VerdictSecs == MaxOf(CacheSecs - 1, LookupSecs)

\* The histories count up to "longer ago than any property asks".
LongAgo == VerdictSecs + 1

Older(secs) == IF secs < LongAgo THEN secs + 1 ELSE secs

\* The histories follow the grants and the answers.
Track ==
  /\ paidFor' = [p \in Pubkeys |->
       IF grant'[p].status = "paid" THEN paidFor[p] ELSE 0]
  /\ yesAge' = [p \in Pubkeys |->
       IF req' # req /\ req'.answer = "yes" /\ req'.authed = p THEN 0
                                                             ELSE yesAge[p]]

Excuse(p, secs) == excused' = [excused EXCEPT ![p] = MaxOf(@, secs)]

Silent == out' = Plugin!NoReply

-----------------------------------------------------------------------------
(* The plugin's lookup at the authority. *)

Answer(holds) ==
  req' = [req EXCEPT !.answer = IF holds THEN "yes" ELSE "no"]

\* paid_status: a paid grant is answered from the table, and so is a missing
\* one, or one that the query fails to read; a pending one goes to ensure_paid.
LookupArrives(w) ==
  LET p == req.authed IN
  /\ req.answer = "unread"
  /\ \/ /\ grant[p].status = "pending"
        /\ Begin(w, EnsurePaid("lookup", p, None))
        /\ req' = [req EXCEPT !.answer = "taken"]
        /\ UNCHANGED excused
     \/ /\ grant[p].status # "pending"
        /\ Answer(grant[p].status = "paid")
        /\ UNCHANGED <<task, excused>>
     \/ /\ DbFaults
        /\ Answer(FALSE)
        /\ Excuse(p, MaxOf(CacheSecs, LookupSecs + 1))
        /\ UNCHANGED task
  /\ Silent
  /\ UNCHANGED <<owner, cooldown, payVars, cache>>
  /\ Track

\* A step of ensure_paid or of the webhook. When it ends a lookup, the plugin
\* gets the outcome: only two statements end in PaidOutcome::Paid.
HandlerStep(w) ==
  LET ends == /\ task[w].pc \in PayPC /\ task[w].caller = "lookup"
              /\ task'[w] = Idle
  IN
  /\ PayStep(w)
  /\ IF ends THEN Answer(task[w].pc \in {"pay_grant", "pay_mark"})
             ELSE UNCHANGED req
  /\ Silent
  /\ UNCHANGED <<cache, excused>>
  /\ Track

\* The plugin gets no answer: the limiter refuses it (all lookups share the
\* caller "unknown", they carry no X-Real-IP), the authority is down, or the
\* timeout passes. Nobody waits for an ensure_paid in progress then.
GiveUp ==
  /\ Plugin!LookupFails
  /\ task' = [w \in Workers |->
       IF task[w].pc \in PayPC /\ task[w].caller = "lookup"
         THEN [task[w] EXCEPT !.caller = "gone"] ELSE task[w]]
  /\ Excuse(req.authed, FailSecs)
  /\ UNCHANGED <<owner, cooldown, payVars>>
  /\ Track

-----------------------------------------------------------------------------
(* Everybody else. *)

PluginStep ==
  /\ \/ \E ev \in Events, p \in Pubkeys \cup {None} :
          Plugin!Decide(ev, p) \/ Plugin!StartLookup(ev, p)
     \/ Plugin!LookupAnswered
     \/ Plugin!Reload
  /\ UNCHANGED <<authority, excused>>
  /\ Track

ClientStep ==
  /\ \/ \E w \in Workers :
          \/ PayStart(w) \/ (\E p \in Pubkeys : StartStatus(w, p))
          \/ HangUp(w) /\ task[w].caller # "lookup"
     \/ PayEnvironment
  /\ Silent
  /\ UNCHANGED <<cache, req, excused>>
  /\ Track

Tick ==
  /\ req # Plugin!NoRequest => req.age < LookupSecs
  /\ Plugin!SecondPasses
  /\ paidFor' = [p \in Pubkeys |->
       IF grant[p].status = "paid" THEN Older(paidFor[p]) ELSE 0]
  /\ yesAge' = [p \in Pubkeys |-> Older(yesAge[p])]
  /\ excused' = [p \in Pubkeys |-> Plugin!Less(excused[p], 1)]
  /\ UNCHANGED authority

\* The authority restarts: a lookup it was serving gets no answer any more.
Crash ==
  /\ Restart /\ polled' = {}
  /\ Silent
  /\ UNCHANGED <<grant, bill, quoted, cache, req, excused>>
  /\ Track

Init ==
  /\ StateInit /\ PayInit /\ Plugin!PolicyInit
  /\ paidFor = [p \in Pubkeys |-> 0]
  /\ yesAge = [p \in Pubkeys |-> LongAgo]
  /\ excused = [p \in Pubkeys |-> 0]

Next ==
  \/ \E w \in Workers : LookupArrives(w) \/ HandlerStep(w)
  \/ GiveUp
  \/ PluginStep
  \/ ClientStep
  \/ Tick
  \/ Crash

Spec == Init /\ [][Next]_vars

-----------------------------------------------------------------------------
(* An event is accepted only from a publisher that has settled an invoice    *)
(* made out to it, whichever answers are lost, late, cached or misread on    *)
(* the way from GoblinPay to strfry (paidapi.rs:37-76,                       *)
(* floonet_writepolicy.py:335-361).                                          *)
PublishersHavePaid ==
  Plugin!Accepted =>
    \E i \in Invoices : bill[i] = [key |-> out.authed, status |-> "paid"]

(* An event is accepted only on an answer of the authority that is younger   *)
(* than the cache time, or than a slow lookup: no failed lookup prolongs an  *)
(* old verdict (floonet_writepolicy.py:335-361).                             *)
AcceptedOnFreshVerdict ==
  Plugin!Accepted => yesAge[out.authed] <= VerdictSecs

(* A publisher whose grant has been paid for longer than a cache time or a   *)
(* slow lookup explains is told to pay again only in the FailSecs after a    *)
(* failed lookup, or a cache time after the authority failed to read the     *)
(* grant (floonet_writepolicy.py:343-358, paid.rs:170-195).                  *)
PaidIsHonoured ==
  out.msg = "payment required" /\ paidFor[out.authed] > VerdictSecs
    => excused[out.authed] > 0

-----------------------------------------------------------------------------
(* What the documentation says and the code does not keep.                   *)

(* floonet_writepolicy.py:20-26 and 144: a recipient is 64 lowercase hex     *)
(* digits, anchored at both ends.                                            *)
RecipientIsHex == Plugin!RecipientIsHex

(* floonet_writepolicy.py:26-30 and 409-413: any tag other than the single p *)
(* tag is rejected, so that a gift wrap has exactly one.                     *)
WrapHasOneTag == Plugin!WrapHasOneTag

(* paidapi.rs:71-73: an unauthenticated scraper can never mint invoices.     *)
StatusMintsNothing ==
  [][\A w \in Workers :
       task[w].pc = "pay_create" /\ task[w].caller = "status"
         /\ task'[w] # task[w] => bill' = bill]_vars

=============================================================================
