------------------------------ MODULE Transfer ------------------------------
(***************************************************************************)
(* The sale of a name against a Grin payment proof: POST, GET and DELETE   *)
(* /api/v1/transfer/offer and POST /api/v1/transfer/claim                  *)
(* (handlers/transfer.rs), on the tables offers and transfers.             *)
(*                                                                         *)
(* An offer is identified by the hash of its signed event, so its terms    *)
(* never change and are a constant record; the variable offers keeps the   *)
(* mutable columns. The Grin chain is the environment: blocks only extend  *)
(* it, and a node may answer with any earlier tip or not at all.           *)
(***************************************************************************)
EXTENDS AuthorityState, Integers, FiniteSets

CONSTANTS
  Offers,       \* signed offers [name, seller, buyer, price, address, expiration]
  Proofs,       \* payment proofs [excess, amount, address, signed]
  Addresses, Excesses,
  MaxI64,       \* largest i64: a price is a u64, the column an i64
  MaxOfferTtl,  \* transfer_max_offer_ttl
  Grace,        \* transfer_claim_grace
  MinConf,      \* transfer_min_conf
  MaxTime, MaxHeight    \* bounds of the clock and of the chain

NoHeight == 0           \* SQL NULL in a height column: real heights start at 1
Time     == 0 .. MaxTime
Heights  == 1 .. MaxHeight

ASSUME BoundsAssumption ==
  /\ MaxTime \in Nat /\ MaxHeight \in Nat \ {0} /\ MaxI64 \in Nat
  /\ MaxOfferTtl \in Nat /\ Grace \in Nat /\ MinConf \in Nat

ASSUME OffersAssumption ==
  Offers \subseteq [name : Names, seller : Pubkeys, buyer : Pubkeys,
                    price : 0 .. 2 * MaxI64 + 1, address : Addresses,
                    expiration : Int]

ASSUME ProofsAssumption ==
  /\ Proofs \subseteq [excess : Excesses, amount : 0 .. 2 * MaxI64 + 1,
                       address : Addresses, signed : BOOLEAN]
  /\ None \notin Proofs

VARIABLES
  offers,     \* offers[o]: status, end_height and state_changed_at of o's row
  transfers,  \* rows of table transfers
  now,        \* the authority's clock
  tip,        \* height of the Grin chain
  mined       \* height of the block that holds the kernel, or NoHeight

chainVars    == <<now, tip, mined>>
transferVars == <<offers, transfers, now, tip, mined>>
transferRest == <<owner, cooldown, chainVars>>

Absent == [status |-> "absent", end_height |-> NoHeight, changed |-> 0]

OfferRow == [status : {"absent", "live", "consumed", "revoked", "expired"},
             end_height : {NoHeight} \cup Heights, changed : Time]

TransferRow == [offer : Offers, excess : Excesses,
                height : {NoHeight} \cup Heights]

RequestPC ==
  {"lodge_owner", "lodge_name", "lodge_addr", "lodge_insert",
   "settle_tip", "settle_mark", "settle_reload",
   "revoke_tip", "revoke_mark", "revoke_flip"}

ClaimPC == {"claim_owner", "claim_kernel", "claim_depth", "claim_excess",
            "claim_buyer", "claim_txn", "claim_arm"}

\* height is the tip an offer dies at, or the limit a late claim must meet.
TaskOf(pcs, keys, proofs) ==
  [pc : pcs, offer : Offers, pubkey : keys, proof : proofs, now : Time,
   height : {NoHeight} \cup Heights, kernel : {NoHeight} \cup Heights]

\* A reader of an offer has no key and only a claimant has a proof.
RequestTask == TaskOf(RequestPC, Pubkeys \cup {None}, Proofs \cup {None})

ClaimTask == TaskOf(ClaimPC, Pubkeys, Proofs)

\* A request on offer o from p, with proof f when it is a claim.
Request(pc, o, p, f) ==
  [pc |-> pc, offer |-> o, pubkey |-> p, proof |-> f, now |-> now,
   height |-> NoHeight, kernel |-> NoHeight]

-----------------------------------------------------------------------------
(* Queries and statements on the offers and transfers tables. *)

\* price as i64: two's complement wrap of a u64.
AsI64(price) == IF price > MaxI64 THEN price - 2 * (MaxI64 + 1) ELSE price

\* The live, unexpired offers at time t.
LiveAt(t) == {o \in Offers : offers[o].status = "live" /\ o.expiration >= t}

LiveOfferForName(n, t) == \E o \in LiveAt(t) : o.name = n

LiveOfferBinding(a, t) == \E o \in LiveAt(t) : o.address = a

InsertOffer(o) ==
  offers' = IF offers[o] = Absent
              THEN [offers EXCEPT ![o].status = "live"] ELSE offers

\* MUTANT: the UPDATE without its guard on the status.
MarkAnyOfferDead(o, status, height, t) ==
  offers' = [offers EXCEPT ![o] = [status     |-> status,
                                   end_height |-> height,
                                   changed    |-> t]]

\* MUTANT: the row records when its grace window closes.
MarkOfferDeadAtGraceEnd(o, status, height, t) ==
  offers' = IF offers[o].status = "live"
              THEN [offers EXCEPT ![o] = [status     |-> status,
                                          end_height |-> height,
                                          changed    |-> t + Grace]]
              ELSE offers

\* UPDATE ... WHERE status = 'live'.
MarkOfferDead(o, status, height, t) ==
  offers' = IF offers[o].status = "live"
              THEN [offers EXCEPT ![o] = [status     |-> status,
                                          end_height |-> height,
                                          changed    |-> t]]
              ELSE offers

ExcessUsed(e) == \E r \in transfers : r.excess = e

SetHeight(w, pc, h) == task' = [task EXCEPT ![w].pc = pc, ![w].height = h]

-----------------------------------------------------------------------------
(* lodge_offer: three reads and the insert, each a lock section of its own. *)

StartLodge(w, o) ==
  /\ now < o.expiration /\ o.expiration <= now + MaxOfferTtl
  /\ Begin(w, Request("lodge_owner", o, o.seller, None))
  /\ UNCHANGED <<offers, transfers, transferRest>>

LodgeOwner(w) ==
  /\ task[w].pc = "lodge_owner"
  /\ Check(w, Lookup(task[w].offer.name) = task[w].offer.seller, "lodge_name")
  /\ UNCHANGED <<offers, transfers, transferRest>>

LodgeName(w) ==
  /\ task[w].pc = "lodge_name"
  /\ Check(w, ~LiveOfferForName(task[w].offer.name, task[w].now), "lodge_addr")
  /\ UNCHANGED <<offers, transfers, transferRest>>

LodgeAddr(w) ==
  /\ task[w].pc = "lodge_addr"
  /\ Check(w, ~LiveOfferBinding(task[w].offer.address, task[w].now),
           "lodge_insert")
  /\ UNCHANGED <<offers, transfers, transferRest>>

LodgeInsert(w) ==
  /\ task[w].pc = "lodge_insert"
  /\ InsertOffer(task[w].offer)
  /\ Return(w)
  /\ UNCHANGED <<transfers, transferRest>>

-----------------------------------------------------------------------------
(* settle_expiry, for a reader (pubkey and proof None) or a claimant. *)

Due(o) == offers[o].status = "live" /\ o.expiration < now

StartSettle(w, o, p, f) ==
  /\ Due(o)
  /\ Begin(w, Request("settle_tip", o, p, f))
  /\ UNCHANGED <<offers, transfers, transferRest>>

StartRead(w, o) == StartSettle(w, o, None, None)

\* The node answers with a tip it has seen, or fails and NULL is recorded.
SettleTip(w) ==
  /\ task[w].pc = "settle_tip"
  /\ \E h \in {NoHeight} \cup 1 .. tip : SetHeight(w, "settle_mark", h)
  /\ UNCHANGED <<offers, transfers, transferRest>>

\* The result of the UPDATE is ignored: an error leaves the row live.
SettleMark(w) ==
  /\ task[w].pc = "settle_mark"
  /\ \/ MarkOfferDead(task[w].offer, "expired", task[w].height, task[w].now)
     \/ DbFaults /\ UNCHANGED offers
  /\ SetHeight(w, "settle_reload", NoHeight)
  /\ UNCHANGED <<transfers, transferRest>>

-----------------------------------------------------------------------------
(* claim *)

\* Step 3: a dead offer is honoured in its grace window, if its death height
\* is known. A consumed one is answered from the transfers table.
Honoured(o, t) ==
  \/ offers[o].status = "live"
  \/ /\ offers[o].status \in {"revoked", "expired"}
     /\ t - offers[o].changed <= Grace
     /\ offers[o].end_height # NoHeight

\* The height a late claim's kernel must not exceed; none for a live offer.
DeathHeight(o) ==
  IF offers[o].status = "live" THEN NoHeight ELSE offers[o].end_height

\* Steps 3 and 4 hold, and the claim goes on with the offer as it read it.
Admitted(o, p, f, limit) ==
  [pc |-> "claim_owner", offer |-> o, pubkey |-> p, proof |-> f, now |-> 0,
   height |-> limit, kernel |-> NoHeight]

StartClaim(w, o, p, f) ==
  /\ ~Due(o) /\ Honoured(o, now) /\ p = o.buyer
  /\ Begin(w, Admitted(o, p, f, DeathHeight(o)))
  /\ UNCHANGED <<offers, transfers, transferRest>>

StartLateClaim(w, o, p, f) == StartSettle(w, o, p, f)

\* settle_expiry reads the row again; a reader answers with it.
SettleReload(w) ==
  LET t == task[w] IN
  /\ t.pc = "settle_reload"
  /\ IF t.proof # None /\ Honoured(t.offer, t.now) /\ t.pubkey = t.offer.buyer
       THEN task' = [task EXCEPT ![w] =
                       Admitted(t.offer, t.pubkey, t.proof,
                                DeathHeight(t.offer))]
       ELSE Return(w)
  /\ UNCHANGED <<offers, transfers, transferRest>>

\* MUTANT: the proof's signatures are not verified.
ProofMatchesUnsigned(f, o) ==
  /\ f.address = o.address
  /\ AsI64(o.price) >= 0 /\ f.amount = AsI64(o.price)

\* MUTANT: the amount is compared with the column cast back to u64.
ProofMatchesCast(f, o) == f.signed /\ f.address = o.address /\ f.amount = o.price

\* Steps 6 to 8: both signatures, the address and the exact amount.
ProofMatches(f, o) ==
  /\ f.signed
  /\ f.address = o.address
  /\ AsI64(o.price) >= 0 /\ f.amount = AsI64(o.price)

\* Steps 5 to 8.
ClaimOwner(w) ==
  LET t == task[w] IN
  /\ t.pc = "claim_owner"
  /\ Check(w, /\ Lookup(t.offer.name) = t.offer.seller
              /\ ProofMatches(t.proof, t.offer), "claim_kernel")
  /\ UNCHANGED <<offers, transfers, transferRest>>

\* MUTANT: the handler waits for the payment instead of answering
\* payment_unconfirmed.
ClaimKernelWaits(w) ==
  LET e == task[w].proof.excess IN
  /\ task[w].pc = "claim_kernel"
  /\ mined[e] # NoHeight
  /\ task' = [task EXCEPT ![w].pc = "claim_depth", ![w].kernel = mined[e]]
  /\ UNCHANGED <<offers, transfers, transferRest>>

\* get_kernel: not found, or the block height of the kernel, or found with no
\* readable height.
ClaimKernel(w) ==
  LET e == task[w].proof.excess IN
  /\ task[w].pc = "claim_kernel"
  /\ \/ Return(w)
     \/ /\ mined[e] # NoHeight
        /\ \E h \in {NoHeight, mined[e]} :
             task' = [task EXCEPT ![w].pc = "claim_depth", ![w].kernel = h]
  /\ UNCHANGED <<offers, transfers, transferRest>>

\* KernelResult.confirmations of a kernel at height k under tip h.
Confirmations(k, h) == IF k = NoHeight \/ h < k THEN 1 ELSE h - k + 1

\* get_tip, then step 9 and the death window gate.
ClaimDepth(w) ==
  LET t == task[w] IN
  /\ t.pc = "claim_depth"
  /\ \E h \in 1 .. tip :
       Check(w, /\ Confirmations(t.kernel, h) >= MinConf
                /\ \/ t.height = NoHeight
                   \/ t.kernel # NoHeight /\ t.kernel <= t.height,
             "claim_excess")
  /\ UNCHANGED <<offers, transfers, transferRest>>

ClaimExcess(w) ==
  /\ task[w].pc = "claim_excess"
  /\ Check(w, ~ExcessUsed(task[w].proof.excess), "claim_buyer")
  /\ UNCHANGED <<offers, transfers, transferRest>>

ClaimBuyer(w) ==
  /\ task[w].pc = "claim_buyer"
  /\ Check(w, NameOf(task[w].offer.buyer) = {}, "claim_txn")
  /\ UNCHANGED <<offers, transfers, transferRest>>

\* MUTANT: the UPDATE of the name without "AND pubkey = seller".
TransferableByAnyone(o, e) ==
  /\ NameOf(o.buyer) \ {o.name} = {}
  /\ \A r \in transfers : r.offer # o /\ r.excess # e

\* MUTANT: transfers.kernel_excess without UNIQUE.
TransferableReused(o, e) ==
  /\ owner[o.name] = o.seller
  /\ NameOf(o.buyer) \ {o.name} = {}
  /\ \A r \in transfers : r.offer # o

\* What the transaction's guard and constraints demand: the seller still owns
\* the name, idx_active_pubkey takes the buyer, and neither the offer nor the
\* excess is in transfers.
Transferable(o, e) ==
  /\ owner[o.name] = o.seller
  /\ NameOf(o.buyer) \ {o.name} = {}
  /\ \A r \in transfers : r.offer # o /\ r.excess # e

\* run_claim_txn: all three statements or none. The status is not looked at.
ClaimTxn(w) ==
  LET t == task[w] IN
  /\ t.pc = "claim_txn"
  /\ IF Transferable(t.offer, t.proof.excess)
       THEN /\ owner' = [owner EXCEPT ![t.offer.name] = t.offer.buyer]
            /\ transfers' = transfers \cup
                 {[offer |-> t.offer, excess |-> t.proof.excess,
                   height |-> t.kernel]}
            /\ offers' = [offers EXCEPT ![t.offer].status = "consumed"]
            /\ Goto(w, "claim_arm")
       ELSE Return(w) /\ UNCHANGED <<owner, transfers, offers>>
  /\ UNCHANGED <<cooldown, chainVars>>

ClaimArm(w) ==
  /\ task[w].pc = "claim_arm"
  /\ ArmCooldown(task[w].offer.seller)
  /\ Return(w)
  /\ UNCHANGED <<owner, offers, transfers, chainVars>>

-----------------------------------------------------------------------------
(* revoke_offer: the seller's DELETE, on the status it reads first. *)

StartRevoke(w, o) ==
  /\ \/ /\ offers[o].status = "live"
        /\ Begin(w, Request("revoke_tip", o, o.seller, None))
     \/ /\ offers[o].status = "expired"
        /\ Begin(w, Request("revoke_flip", o, o.seller, None))
  /\ UNCHANGED <<offers, transfers, transferRest>>

RevokeTip(w) ==
  /\ task[w].pc = "revoke_tip"
  /\ \E h \in {NoHeight} \cup 1 .. tip : SetHeight(w, "revoke_mark", h)
  /\ UNCHANGED <<offers, transfers, transferRest>>

\* Its result is ignored too: the answer is "revoked" either way.
RevokeMark(w) ==
  /\ task[w].pc = "revoke_mark"
  /\ MarkOfferDead(task[w].offer, "revoked", task[w].height, task[w].now)
  /\ Return(w)
  /\ UNCHANGED <<transfers, transferRest>>

\* The UPDATE for an offer read as expired names no status.
RevokeFlip(w) ==
  /\ task[w].pc = "revoke_flip"
  /\ offers' = [offers EXCEPT ![task[w].offer].status = "revoked"]
  /\ Return(w)
  /\ UNCHANGED <<transfers, transferRest>>

-----------------------------------------------------------------------------
(* Failures. *)

\* A write fails and nothing is written.
TransferWriteError(w) ==
  /\ DbFaults
  /\ task[w].pc \in {"lodge_insert", "revoke_mark", "revoke_flip", "claim_txn"}
  /\ Return(w)
  /\ UNCHANGED <<offers, transfers, transferRest>>

\* A query fails and reads as "no row": no live offer, an unused excess, a
\* buyer with no name, the live offer settle_expiry started from.
TransferReadError(w) ==
  LET t == task[w] IN
  /\ DbFaults
  /\ \/ t.pc = "lodge_name" /\ Goto(w, "lodge_addr")
     \/ t.pc = "lodge_addr" /\ Goto(w, "lodge_insert")
     \/ t.pc = "claim_excess" /\ Goto(w, "claim_buyer")
     \/ t.pc = "claim_buyer" /\ Goto(w, "claim_txn")
     \/ /\ t.pc = "settle_reload" /\ t.proof # None
        /\ t.pubkey = t.offer.buyer
        /\ task' = [task EXCEPT ![w] =
                      Admitted(t.offer, t.pubkey, t.proof, NoHeight)]
     \/ t.pc \in {"lodge_owner", "claim_owner"} /\ Return(w)
  /\ UNCHANGED <<offers, transfers, transferRest>>

\* At an await on the node: every endpoint fails (a claim answers
\* payment_unconfirmed), or the client hangs up and the future is dropped.
TransferAbort(w) ==
  /\ task[w].pc \in {"settle_tip", "revoke_tip", "claim_kernel", "claim_depth"}
  /\ Return(w)
  /\ UNCHANGED <<offers, transfers, transferRest>>

-----------------------------------------------------------------------------
(* The environment: the clock, and blocks that confirm payments. *)

Tick ==
  /\ now < MaxTime
  /\ now' = now + 1
  /\ UNCHANGED <<owner, cooldown, task, offers, transfers, tip, mined>>

MineBlock(E) ==
  /\ tip < MaxHeight
  /\ tip' = tip + 1
  /\ mined' = [e \in Excesses |-> IF e \in E /\ mined[e] = NoHeight
                                    THEN tip + 1 ELSE mined[e]]
  /\ UNCHANGED <<owner, cooldown, task, offers, transfers, now>>

-----------------------------------------------------------------------------
TransferInit ==
  /\ offers = [o \in Offers |-> Absent]
  /\ transfers = {}
  /\ now = 0
  /\ tip = 1
  /\ mined = [e \in Excesses |-> NoHeight]

TransferStart(w) ==
  \E o \in Offers :
    \/ StartLodge(w, o)
    \/ StartRead(w, o)
    \/ StartRevoke(w, o)
    \/ \E p \in Pubkeys, f \in Proofs :
         StartClaim(w, o, p, f) \/ StartLateClaim(w, o, p, f)

LodgeStep(w)  == LodgeOwner(w) \/ LodgeName(w) \/ LodgeAddr(w) \/ LodgeInsert(w)
SettleStep(w) == SettleTip(w) \/ SettleMark(w) \/ SettleReload(w)
RevokeStep(w) == RevokeTip(w) \/ RevokeMark(w) \/ RevokeFlip(w)

ClaimStep(w) ==
  \/ ClaimOwner(w)
  \/ ClaimKernel(w)
  \/ ClaimDepth(w)
  \/ ClaimExcess(w)
  \/ ClaimBuyer(w)
  \/ ClaimTxn(w)
  \/ ClaimArm(w)

TransferStep(w) ==
  LodgeStep(w) \/ SettleStep(w) \/ RevokeStep(w) \/ ClaimStep(w)

TransferError(w) ==
  TransferWriteError(w) \/ TransferReadError(w) \/ TransferAbort(w)

ChainStep == Tick \/ \E E \in SUBSET Excesses : MineBlock(E)

TransferNext ==
  \/ \E w \in Workers : TransferStart(w) \/ TransferStep(w) \/ TransferError(w)
  \/ ChainStep

=============================================================================
