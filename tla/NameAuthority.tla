---------------------------- MODULE NameAuthority ----------------------------
(***************************************************************************)
(* The running authority: registrations, releases and sales in flight at   *)
(* the same time on one database, with the chain, the clock and restarts   *)
(* of the process. Names are free here (PayMode "off" or "write");         *)
(* PaidRegistry is the composition for FLOONET_PAY_MODE=name.              *)
(***************************************************************************)
EXTENDS Registry, Transfer

vars == <<owner, cooldown, task, transferVars>>

Init == StateInit /\ TransferInit

Elapse(p) == CooldownElapses(p) /\ UNCHANGED transferVars

Crash == Restart /\ UNCHANGED transferVars

Next ==
  \/ RegistryNext /\ UNCHANGED transferVars
  \/ TransferNext
  \/ \E p \in Pubkeys : Elapse(p)
  \/ Crash

Spec == Init /\ [][Next]_vars

\* tokio polls every ready task, a statement returns, and a node request times
\* out after 20 s: a handler takes its next step. Nothing else is fair.
HandlerStep(w) ==
  (RegistryStep(w) /\ UNCHANGED transferVars) \/ TransferStep(w)

FairSpec == Spec /\ \A w \in Workers : WF_vars(HandlerStep(w))

-----------------------------------------------------------------------------
TypeOK ==
  /\ owner \in [Names -> Pubkeys \cup {None}]
  /\ cooldown \in SUBSET Pubkeys
  /\ task \in [Workers -> {Idle} \cup RegistryTask \cup RequestTask \cup ClaimTask]
  /\ offers \in [Offers -> OfferRow]
  /\ transfers \in SUBSET TransferRow
  /\ now \in Time
  /\ tip \in Heights
  /\ mined \in [Excesses -> {NoHeight} \cup Heights]

(* A key holds at most one active name, whatever registrations, releases and *)
(* claims are in flight and whichever queries fail: the checks of register   *)
(* and claim are only advice, idx_active_pubkey decides (db.rs:28-31).       *)
OneNamePerKey ==
  \A m, n \in Names : owner[m] # None /\ owner[m] = owner[n] => m = n

(* An offer is sold at most once and a payment buys at most one name, also   *)
(* when one proof is presented for two offers, or twice at the same time     *)
(* (transfers.offer_id and transfers.kernel_excess, db.rs:66-74).            *)
SoldOnce ==
  \A r, s \in transfers :
    r.offer = s.offer \/ r.excess = s.excess => r = s

(* Whatever happened between the checks of a claim and its transaction, a    *)
(* recorded transfer was paid: a fully signed proof of exactly the event's   *)
(* price to the offer's address, whose kernel is on chain, MinConf deep      *)
(* (transfer.rs:511-538).                                                    *)
TransfersPaid ==
  \A r \in transfers :
    /\ \E f \in Proofs : /\ f.excess = r.excess /\ f.signed
                         /\ f.address = r.offer.address
                         /\ f.amount = r.offer.price
    /\ mined[r.excess] # NoHeight
    /\ tip - mined[r.excess] + 1 >= MinConf

(* The price the transfers table records is the price that was agreed and    *)
(* paid, also for a price that does not fit the i64 column (transfer.rs:209, *)
(* 519-522).                                                                 *)
RecordedPriceExact ==
  \A r \in transfers : AsI64(r.offer.price) = r.offer.price

(* A claim that found its offer dead gets no further than the node with a    *)
(* kernel mined after the death the table still records: nothing that runs   *)
(* in between replaces or erases the death height (transfer.rs:328-333,      *)
(* 540-547).                                                                 *)
LateClaimsSettled ==
  \A w \in Workers :
    task[w].pc \in {"claim_excess", "claim_buyer", "claim_txn", "claim_arm"}
      /\ task[w].height # NoHeight =>
        /\ offers[task[w].offer].end_height = task[w].height
        /\ task[w].kernel # NoHeight
        /\ task[w].kernel <= offers[task[w].offer].end_height

(* Only a paid sale moves a name from one key to another: every other change *)
(* of hands goes through a release (transfer.rs:351-353).                    *)
OnlySalesMoveNames ==
  [][\A n \in Names :
       owner[n] # None /\ owner'[n] \notin {None, owner[n]} =>
         \E r \in transfers' \ transfers :
           /\ r.offer.name = n
           /\ r.offer.seller = owner[n] /\ r.offer.buyer = owner'[n]]_vars

(* An offer that left "live" never comes back to life, and the death record  *)
(* its late claims are judged by is written at most once (db.rs:253-255,     *)
(* transfer.rs:328-329).                                                     *)
DeathIsFinal ==
  [][\A o \in Offers :
       offers[o].status \notin {"absent", "live"} =>
         /\ offers'[o].status \notin {"absent", "live"}
         /\ offers'[o].end_height = offers[o].end_height
         /\ offers'[o].changed = offers[o].changed]_vars

(* Requests, statements, crashes and the node implement the book: the names  *)
(* table and the transfers table change as the promise allows, at once.      *)
Book == INSTANCE NameBook
          WITH ledger <- {[offer |-> r.offer, excess |-> r.excess] :
                           r \in transfers}

ImplementsBook == Book!BookSpec

(* Every request is answered, or lost in a restart: no order of statements,  *)
(* no answer of the node and no state of the offer leaves a handler stuck.   *)
RequestsAnswered == \A w \in Workers : task[w] # Idle ~> task[w] = Idle

-----------------------------------------------------------------------------
(* What the documentation says and the code does not keep.                   *)

(* README.md:232: release is for the owner only.                             *)
ReleaseByOwner ==
  [][\A n \in Names, w \in Workers :
       task[w].pc = "unreg_release" /\ task'[w] # task[w] /\ owner'[n] # owner[n]
         => owner[n] = task[w].pubkey]_vars

(* transfer.rs:540-541, tests/transfer.rs:616-637: what a dead offer is sold *)
(* for was on chain at or before the height the offer died at.               *)
LatePaymentRefused ==
  \A r \in transfers :
    offers[r.offer].end_height # NoHeight
      => mined[r.excess] <= offers[r.offer].end_height

(* transfer.rs:97-100: an offer observed past its expiration is expired, and *)
(* a late claim fails closed unless the height of its death is on record.    *)
LateClaimFailsClosed ==
  [][\A w \in Workers :
       task[w].pc = "settle_reload" /\ task'[w].pc = "claim_owner"
         => task'[w].height # NoHeight]_vars

(* registry.rs:100-102: a release blocks re-registering for the window.      *)
CooldownRespected ==
  [][\A n \in Names :
       owner[n] = None /\ owner'[n] # None => owner'[n] \notin cooldown]_vars

(* transfer.rs:201: at most one live offer per name.                         *)
OneLiveOffer ==
  \A a, b \in LiveAt(now) : a.name = b.name => a = b

(* tests/transfer.rs:550: revoking a consumed offer conflicts.               *)
ConsumedStays ==
  [][\A o \in Offers :
       offers[o].status = "consumed" => offers'[o].status = "consumed"]_vars

=============================================================================
