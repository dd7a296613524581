---------------------------- MODULE PaidRegistry ----------------------------
(***************************************************************************)
(* The registry with a paywall: FLOONET_PAY_MODE=name puts ensure_paid     *)
(* between the checks of a registration and its insert, and consumes the   *)
(* grant after it. Write access is sold in PaidAccess.                     *)
(* Sales of names never touch the paywall (db.rs:104-105) and are left out.*)
(***************************************************************************)
EXTENDS Registry, PaidGrants

vars == <<owner, cooldown, task, payVars>>

Init == StateInit /\ PayInit

\* register hands over to ensure_paid on a blocking thread.
AskPaid(w) ==
  /\ task[w].pc = "reg_paid"
  /\ task' = [task EXCEPT ![w] =
                EnsurePaid("register", task[w].pubkey, task[w].name)]
  /\ UNCHANGED <<payVars, payRest>>

\* The insert succeeded: the grant it was paid with goes, whichever it is now.
ConsumeGrant(w) ==
  /\ task[w].pc = "reg_consume"
  /\ \/ DeleteGrant(task[w].pubkey)
     \/ DbFaults /\ UNCHANGED grant
  /\ Return(w)
  /\ UNCHANGED <<polled, bill, quoted, payRest>>

Elapse(p) == CooldownElapses(p) /\ UNCHANGED payVars

\* The grants are on disk, the poll throttle is not.
Crash == Restart /\ polled' = {} /\ UNCHANGED <<grant, bill, quoted>>

Next ==
  \/ RegistryNext /\ UNCHANGED payVars
  \/ \E w \in Workers : AskPaid(w) \/ ConsumeGrant(w)
  \/ PayNext
  \/ \E p \in Pubkeys : Elapse(p)
  \/ Crash

Spec == Init /\ [][Next]_vars

-----------------------------------------------------------------------------
TypeOK ==
  /\ owner \in [Names -> Pubkeys \cup {None}]
  /\ cooldown \in SUBSET Pubkeys
  /\ task \in [Workers -> {Idle} \cup RegistryTask \cup PayTask \cup HookTask]
  /\ grant \in [Pubkeys -> {NoGrant} \cup GrantRow]
  /\ polled \in SUBSET Pubkeys
  /\ bill \in [Invoices -> {NoBill} \cup BillRow]
  /\ quoted \in SUBSET Invoices

(* A grant counts as paid only when the very invoice it holds was made out   *)
(* to its key and has settled, whatever polls, webhook deliveries and fresh  *)
(* invoices cross each other (paid.rs:220-230, paidapi.rs:177-182).          *)
PaidGrantSettled ==
  \A p \in Pubkeys :
    grant[p].status = "paid" =>
      bill[grant[p].invoice] = [key |-> p, status |-> "paid"]

(* In paid-name mode a free name is taken only by a key that has settled an  *)
(* invoice, whatever the backend answers or fails to (registry.rs:174-212).  *)
NamesArePaidFor ==
  [][\A n \in Names :
       PayMode = "name" /\ owner[n] = None /\ owner'[n] # None =>
         \E i \in Invoices : bill[i] = [key |-> owner'[n], status |-> "paid"]]_vars

-----------------------------------------------------------------------------
(* What the documentation says and the code does not keep.                   *)

(* README.md:190-192 (registry.rs:229-230): a paid claim consumes its grant, *)
(* so claiming another name needs a fresh payment.                           *)
FreshPaymentPerClaim ==
  [][\A n \in Names :
       owner[n] = None /\ owner'[n] # None => grant[owner'[n]] # NoGrant]_vars

(* README.md:186-189: the client pays and retries the same call once the     *)
(* invoice settles. A settled invoice it was sent must be the one its grant  *)
(* holds until a claim consumes it.                                          *)
SettledInvoiceKept ==
  [][\A i \in Invoices :
       bill[i].status = "open" /\ bill'[i].status = "paid" =>
         grant[bill[i].key].invoice = i]_vars

=============================================================================
