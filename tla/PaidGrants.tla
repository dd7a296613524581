----------------------------- MODULE PaidGrants -----------------------------
(***************************************************************************)
(* The paid layer (paid.rs, handlers/paidapi.rs): the table paid_grants,   *)
(* ensure_paid and its callers, and the GoblinPay webhook. An authority    *)
(* sells one resource, "name" or "write" by FLOONET_PAY_MODE, so a grant   *)
(* is indexed by the key alone.                                            *)
(*                                                                         *)
(* ensure_paid runs on a blocking thread: when the client hangs up the     *)
(* handler is dropped, ensure_paid is not. GoblinPay is the environment:   *)
(* invoices are created, settle or expire there, and any call may fail,    *)
(* a create call also after the invoice exists.                            *)
(***************************************************************************)
EXTENDS AuthorityState

CONSTANT Invoices    \* ids GoblinPay may give out

ASSUME InvoicesAssumption == None \notin Invoices

VARIABLES
  grant,      \* grant[p]: the row of p in paid_grants, or NoGrant
  polled,     \* rate map, bucket "paidpoll": keys polled in the last interval
  bill,       \* bill[i]: what GoblinPay knows of invoice i
  quoted      \* invoices whose pay URL a client has been sent

payVars == <<grant, polled, bill, quoted>>
payRest == <<owner, cooldown>>

NoGrant == [invoice |-> None, status |-> "none"]
NoBill  == [key |-> None, status |-> "none"]

GrantRow == [invoice : Invoices, status : {"pending", "paid"}]
BillRow  == [key : Pubkeys, status : {"open", "paid", "expired"}]

PayPC == {"pay_grant", "pay_throttle", "pay_record", "pay_poll", "pay_mark",
          "pay_create", "pay_put"}

\* caller is who waits for the outcome: register, quote, a client or the
\* plugin ("lookup") that reads paid_status or, once it is gone, nobody.
\* invoice is None until a grant or bill is read.
PayTask == [pc : PayPC,
            caller : {"register", "quote", "status", "lookup", "gone"},
            pubkey : Pubkeys, name : Names \cup {None},
            invoice : Invoices \cup {None}]

HookTask == [pc : {"hook_poll", "hook_mark"}, invoice : Invoices]

EnsurePaid(caller, p, n) ==
  [pc |-> "pay_grant", caller |-> caller, pubkey |-> p, name |-> n,
   invoice |-> None]

-----------------------------------------------------------------------------
(* Statements on paid_grants. *)

\* MUTANT: the row stores the status the invoice came with.
PutPendingGrantAsQuoted(p, i) ==
  grant' = [grant EXCEPT ![p] = [invoice |-> i, status |-> "open"]]

\* The upsert: whatever row the key has is replaced.
PutPendingGrant(p, i) ==
  grant' = [grant EXCEPT ![p] = [invoice |-> i, status |-> "pending"]]

\* MUTANT: the row is found by key instead of by invoice.
MarkGrantPaidByKey(i) ==
  grant' = [p \in Pubkeys |-> IF bill[i].key = p /\ grant[p] # NoGrant
                                THEN [grant[p] EXCEPT !.status = "paid"]
                                ELSE grant[p]]

MarkGrantPaid(i) ==
  grant' = [p \in Pubkeys |-> IF grant[p].invoice = i
                                THEN [grant[p] EXCEPT !.status = "paid"]
                                ELSE grant[p]]

DeleteGrant(p) == grant' = [grant EXCEPT ![p] = NoGrant]

-----------------------------------------------------------------------------
(* How ensure_paid ends. *)

\* PaidOutcome::Paid: a registration goes on to its insert, others answer.
Paid(w) ==
  IF task[w].caller = "register"
    THEN task' = [task EXCEPT ![w] = [pc     |-> "reg_insert",
                                      pubkey |-> task[w].pubkey,
                                      name   |-> task[w].name]]
    ELSE Return(w)

\* PaidOutcome::Due: register and quote answer 402 with the pay URL.
Due402(w, i) ==
  /\ Return(w)
  /\ quoted' = IF task[w].caller \in {"register", "quote"}
                 THEN quoted \cup {i} ELSE quoted

\* PaidOutcome::Unavailable: callers fail closed.
Unavailable(w) == Return(w) /\ UNCHANGED quoted

SetInvoice(w, pc, i) ==
  task' = [task EXCEPT ![w].pc = pc, ![w].invoice = i]

-----------------------------------------------------------------------------
(* ensure_paid, one action per lock section and per call to GoblinPay. *)

PayGrant(w) ==
  LET g == grant[task[w].pubkey] IN
  /\ task[w].pc = "pay_grant"
  /\ \/ g.status = "paid" /\ Paid(w)
     \/ g.status = "pending" /\ SetInvoice(w, "pay_throttle", g.invoice)
     \/ (g = NoGrant \/ DbFaults) /\ Goto(w, "pay_create")
  /\ UNCHANGED <<payVars, payRest>>

PayThrottle(w) ==
  /\ task[w].pc = "pay_throttle"
  /\ IF task[w].pubkey \in polled
       THEN Due402(w, task[w].invoice)
       ELSE Goto(w, "pay_record") /\ UNCHANGED quoted
  /\ UNCHANGED <<grant, polled, bill, payRest>>

PayRecord(w) ==
  /\ task[w].pc = "pay_record"
  /\ polled' = polled \cup {task[w].pubkey}
  /\ Goto(w, "pay_poll")
  /\ UNCHANGED <<grant, bill, quoted, payRest>>

\* MUTANT: an answer that is not understood, or none, counts as paid.
PayPollFailsOpen(w) ==
  /\ task[w].pc = "pay_poll"
  /\ Goto(w, "pay_mark")
  /\ UNCHANGED <<payVars, payRest>>

\* invoice_status: paid, expired (a fresh invoice is rolled), or open, or no
\* answer: the pay URL again.
PayPoll(w) ==
  LET i == task[w].invoice IN
  /\ task[w].pc = "pay_poll"
  /\ \/ bill[i].status = "paid" /\ Goto(w, "pay_mark") /\ UNCHANGED quoted
     \/ bill[i].status = "expired" /\ Goto(w, "pay_create") /\ UNCHANGED quoted
     \/ Due402(w, i)
  /\ UNCHANGED <<grant, polled, bill, payRest>>

\* The outcome is Paid whether or not the UPDATE found the row.
PayMark(w) ==
  /\ task[w].pc = "pay_mark"
  /\ \/ MarkGrantPaid(task[w].invoice)
     \/ DbFaults /\ UNCHANGED grant
  /\ Paid(w)
  /\ UNCHANGED <<polled, bill, quoted, payRest>>

\* new_grant: the create call, with its answer, without it, or failed.
PayCreate(w) ==
  /\ task[w].pc = "pay_create"
  /\ \/ \E i \in Invoices :
          /\ bill[i] = NoBill
          /\ bill' = [bill EXCEPT ![i] = [key    |-> task[w].pubkey,
                                          status |-> "open"]]
          /\ \/ SetInvoice(w, "pay_put", i) /\ UNCHANGED quoted
             \/ Unavailable(w)
     \/ Unavailable(w) /\ UNCHANGED bill
  /\ UNCHANGED <<grant, polled, payRest>>

PayPut(w) ==
  LET t == task[w] IN
  /\ t.pc = "pay_put"
  /\ \/ PutPendingGrant(t.pubkey, t.invoice)
     \/ DbFaults /\ UNCHANGED grant
  /\ Due402(w, t.invoice)
  /\ UNCHANGED <<polled, bill, payRest>>

\* The client hangs up while the handler waits for the blocking thread.
HangUp(w) ==
  /\ task[w].pc \in PayPC /\ task[w].caller # "gone"
  /\ task' = [task EXCEPT ![w].caller = "gone"]
  /\ UNCHANGED <<payVars, payRest>>

-----------------------------------------------------------------------------
(* quote and paid_status *)

StartQuote(w, p) ==
  /\ PayMode \in {"name", "write"}
  /\ Begin(w, EnsurePaid("quote", p, None))
  /\ UNCHANGED <<payVars, payRest>>

\* Only a pending grant makes paid_status do more than answer from the table,
\* and only where write access is sold: PaidAccess has it.
StartStatus(w, p) ==
  /\ PayMode = "write"
  /\ grant[p].status = "pending"
  /\ Begin(w, EnsurePaid("status", p, None))
  /\ UNCHANGED <<payVars, payRest>>

-----------------------------------------------------------------------------
(* goblinpay_webhook: a delivery, perhaps late or repeated, about invoice i. *)

StartWebhook(w, i) ==
  /\ \E p \in Pubkeys : grant[p] = [invoice |-> i, status |-> "pending"]
  /\ Begin(w, [pc |-> "hook_poll", invoice |-> i])
  /\ UNCHANGED <<payVars, payRest>>

\* Anything but a "paid" from the REST API, or a hang-up, changes nothing.
HookPoll(w) ==
  /\ task[w].pc = "hook_poll"
  /\ \/ bill[task[w].invoice].status = "paid" /\ Goto(w, "hook_mark")
     \/ Return(w)
  /\ UNCHANGED <<payVars, payRest>>

HookMark(w) ==
  /\ task[w].pc = "hook_mark"
  /\ \/ MarkGrantPaid(task[w].invoice)
     \/ DbFaults /\ UNCHANGED grant
  /\ Return(w)
  /\ UNCHANGED <<polled, bill, quoted, payRest>>

-----------------------------------------------------------------------------
(* The environment: GoblinPay and the poll interval. *)

\* A client pays at the pay URL it was sent and the payment settles.
Settle(i) ==
  /\ i \in quoted /\ bill[i].status = "open"
  /\ bill' = [bill EXCEPT ![i].status = "paid"]
  /\ UNCHANGED <<task, grant, polled, quoted, payRest>>

Expire(i) ==
  /\ bill[i].status = "open"
  /\ bill' = [bill EXCEPT ![i].status = "expired"]
  /\ UNCHANGED <<task, grant, polled, quoted, payRest>>

PollIntervalElapses(p) ==
  /\ p \in polled
  /\ polled' = polled \ {p}
  /\ UNCHANGED <<task, grant, bill, quoted, payRest>>

PayInit ==
  /\ grant = [p \in Pubkeys |-> NoGrant]
  /\ polled = {}
  /\ bill = [i \in Invoices |-> NoBill]
  /\ quoted = {}

EnsurePaidStep(w) ==
  \/ PayGrant(w)
  \/ PayThrottle(w)
  \/ PayRecord(w)
  \/ PayPoll(w)
  \/ PayMark(w)
  \/ PayCreate(w)
  \/ PayPut(w)

PayStart(w) ==
  \/ \E p \in Pubkeys : StartQuote(w, p)
  \/ \E i \in Invoices : StartWebhook(w, i)

PayStep(w) == EnsurePaidStep(w) \/ HookPoll(w) \/ HookMark(w)

PayEnvironment ==
  \/ \E i \in Invoices : Settle(i) \/ Expire(i)
  \/ \E p \in Pubkeys : PollIntervalElapses(p)

PayNext ==
  \/ \E w \in Workers : PayStart(w) \/ PayStep(w) \/ HangUp(w)
  \/ PayEnvironment

=============================================================================
