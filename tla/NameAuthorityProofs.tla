------------------------- MODULE NameAuthorityProofs -------------------------
(***************************************************************************)
(* Theorems about NameAuthority, for every choice of the constants.        *)
(***************************************************************************)
EXTENDS NameAuthority, TLAPS

Tasks == {Idle} \cup RegistryTask \cup RequestTask \cup ClaimTask

-----------------------------------------------------------------------------
(* What the program counter tells of a task's record.                        *)

LEMMA TaskKind ==
  ASSUME NEW w \in Workers, task[w] \in Tasks
  PROVE  /\ task[w].pc \in RegistryPC => task[w] \in RegistryTask
         /\ task[w].pc \in RequestPC => task[w] \in RequestTask
         /\ task[w].pc \in ClaimPC => task[w] \in ClaimTask
  BY DEF Tasks, Idle, RegistryTask, RequestTask, ClaimTask, TaskOf,
         RegistryPC, RequestPC, ClaimPC

(* The moves of a task keep the task array well typed. *)
LEMMA ReturnType ==
  ASSUME task \in [Workers -> Tasks], NEW w \in Workers, Return(w)
  PROVE  task' \in [Workers -> Tasks]
  BY DEF Return, Tasks

LEMMA GotoType ==
  ASSUME task \in [Workers -> Tasks], NEW w \in Workers, NEW pc, Goto(w, pc),
         \/ task[w] \in RegistryTask /\ pc \in RegistryPC
         \/ task[w] \in RequestTask /\ pc \in RequestPC
         \/ task[w] \in ClaimTask /\ pc \in ClaimPC
  PROVE  task' \in [Workers -> Tasks]
  <1>1. [task[w] EXCEPT !.pc = pc] \in Tasks
    BY DEF Tasks, RegistryTask, RequestTask, ClaimTask, TaskOf
  <1> QED
    BY <1>1 DEF Goto

LEMMA CheckType ==
  ASSUME task \in [Workers -> Tasks], NEW w \in Workers, NEW pc, NEW c,
         Check(w, c, pc),
         \/ task[w] \in RegistryTask /\ pc \in RegistryPC
         \/ task[w] \in RequestTask /\ pc \in RequestPC
         \/ task[w] \in ClaimTask /\ pc \in ClaimPC
  PROVE  task' \in [Workers -> Tasks]
  BY ReturnType, GotoType DEF Check

LEMMA BeginType ==
  ASSUME task \in [Workers -> Tasks], NEW w \in Workers, NEW t \in Tasks,
         Begin(w, t)
  PROVE  task' \in [Workers -> Tasks]
  BY DEF Begin

-----------------------------------------------------------------------------
(* Type correctness, one lemma per component. *)

LEMMA RegistryTypeOK ==
  ASSUME TypeOK, RegistryNext, UNCHANGED transferVars
  PROVE  TypeOK'
  <1> USE DEF TypeOK, Tasks
  <1>a. task \in [Workers -> Tasks]
    OBVIOUS
  <1>b. PICK w \in Workers :
          RegistryStart(w) \/ RegistryStep(w) \/ RegistryError(w)
    BY DEF RegistryNext
  <1>c. /\ task[w].pc \in RegistryPC => task[w] \in RegistryTask
    BY <1>a, TaskKind
  <1>d. /\ UNCHANGED <<offers, transfers, now, tip, mined>>
    BY DEF transferVars
  <1> SUFFICES /\ owner' \in [Names -> Pubkeys \cup {None}]
               /\ cooldown' \in SUBSET Pubkeys
               /\ task' \in [Workers -> Tasks]
    BY <1>d DEF TypeOK, Tasks
  <1> HIDE DEF TypeOK, Tasks
  <1>t. /\ owner \in [Names -> Pubkeys \cup {None}]
        /\ cooldown \in SUBSET Pubkeys
    BY DEF TypeOK
  <1>1. CASE RegistryStart(w)
    <2>1. PICK p \in Pubkeys, n \in Names :
            StartRegister(w, p, n) \/ StartUnregister(w, p, n)
      BY <1>1 DEF RegistryStart
    <2>2. PICK t \in Tasks : Begin(w, t)
      BY <2>1 DEF StartRegister, StartUnregister, Tasks, RegistryTask, RegistryPC
    <2> QED
      BY <1>a, <1>t, <2>1, <2>2, BeginType DEF StartRegister, StartUnregister
  <1>2. CASE RegisterLookup(w)
    BY <1>2, <1>a, <1>c, <1>t, CheckType DEF RegisterLookup, RegistryPC
  <1>3. CASE RegisterNameOf(w)
    BY <1>3, <1>a, <1>c, <1>t, CheckType
       DEF RegisterNameOf, RegistryPC, AfterNameOf
  <1>4. CASE RegisterInsert(w)
    <2>1. task' \in [Workers -> Tasks]
      BY <1>4, <1>a, <1>c, CheckType DEF RegisterInsert, RegistryPC
    <2>2. task[w].name \in Names /\ task[w].pubkey \in Pubkeys
      BY <1>4, <1>c DEF RegisterInsert, RegistryPC, RegistryTask
    <2> QED
      BY <1>4, <2>1, <2>2, <1>t DEF RegisterInsert, InsertName
  <1>5. CASE UnregisterLookup(w)
    BY <1>5, <1>a, <1>c, <1>t, CheckType DEF UnregisterLookup, RegistryPC
  <1>6. CASE UnregisterRelease(w)
    <2>1. task' \in [Workers -> Tasks]
      BY <1>6, <1>a, <1>c, GotoType DEF UnregisterRelease, RegistryPC
    <2> QED
      BY <1>6, <2>1, <1>t DEF UnregisterRelease, ReleaseName
  <1>7. CASE UnregisterArm(w)
    <2>1. task' \in [Workers -> Tasks]
      BY <1>7, <1>a, ReturnType DEF UnregisterArm
    <2>2. task[w].pubkey \in Pubkeys
      BY <1>7, <1>c DEF UnregisterArm, RegistryPC, RegistryTask
    <2> QED
      BY <1>7, <2>1, <2>2, <1>t DEF UnregisterArm, ArmCooldown
  <1>8. CASE RegistryWriteError(w)
    BY <1>8, <1>a, <1>t, ReturnType DEF RegistryWriteError
  <1>9. CASE RegistryReadError(w)
    <2>1. task' \in [Workers -> Tasks]
      BY <1>9, <1>a, <1>c, ReturnType, GotoType
         DEF RegistryReadError, RegistryPC, AfterNameOf
    <2> QED
      BY <1>9, <2>1, <1>t DEF RegistryReadError
  <1> QED
    BY <1>b, <1>1, <1>2, <1>3, <1>4, <1>5, <1>6, <1>7, <1>8, <1>9
       DEF RegistryStep, RegistryError


(* What every step of a request on an offer has in common. *)
LEMMA RequestType ==
  ASSUME TypeOK, NEW pc \in RequestPC, NEW o \in Offers,
         NEW p \in Pubkeys \cup {None}, NEW f \in Proofs \cup {None}
  PROVE  Request(pc, o, p, f) \in Tasks
  BY DEF Request, Tasks, RequestTask, TaskOf, TypeOK

LEMMA AdmittedType ==
  ASSUME TypeOK, NEW o \in Offers, NEW p \in Pubkeys, NEW f \in Proofs,
         NEW h \in {NoHeight} \cup Heights
  PROVE  Admitted(o, p, f, h) \in Tasks
  BY BoundsAssumption
     DEF Admitted, Tasks, ClaimTask, TaskOf, ClaimPC, TypeOK, Time, NoHeight

LEMMA DeathHeightType ==
  ASSUME TypeOK, NEW o \in Offers
  PROVE  DeathHeight(o) \in {NoHeight} \cup Heights
  BY DEF DeathHeight, TypeOK, OfferRow

LEMMA SeenTip ==
  ASSUME TypeOK, NEW h \in {NoHeight} \cup 1 .. tip
  PROVE  h \in {NoHeight} \cup Heights
  BY BoundsAssumption DEF TypeOK, Heights, NoHeight

LEMMA SetHeightType ==
  ASSUME task \in [Workers -> Tasks], NEW w \in Workers, NEW pc \in RequestPC,
         NEW h \in {NoHeight} \cup Heights, task[w] \in RequestTask,
         SetHeight(w, pc, h)
  PROVE  task' \in [Workers -> Tasks]
  BY DEF SetHeight, Tasks, RequestTask, TaskOf

LEMMA MarkOfferDeadType ==
  ASSUME TypeOK, NEW o \in Offers, NEW status \in {"revoked", "expired"},
         NEW h \in {NoHeight} \cup Heights, NEW t \in Time,
         MarkOfferDead(o, status, h, t)
  PROVE  offers' \in [Offers -> OfferRow]
  BY DEF MarkOfferDead, TypeOK, OfferRow

LEMMA TransferStartType ==
  ASSUME TypeOK, NEW w \in Workers, TransferStart(w)
  PROVE  /\ task' \in [Workers -> Tasks]
         /\ UNCHANGED <<offers, transfers, owner, cooldown, now, tip, mined>>
  <1>a. task \in [Workers -> Tasks]
    BY DEF TypeOK, Tasks
  <1>o. \A o \in Offers : o.seller \in Pubkeys
    BY OffersAssumption
  <1>b. PICK o \in Offers :
          \/ StartLodge(w, o)
          \/ StartRead(w, o)
          \/ StartRevoke(w, o)
          \/ \E p \in Pubkeys, f \in Proofs :
               StartClaim(w, o, p, f) \/ StartLateClaim(w, o, p, f)
    BY DEF TransferStart
  <1>1. CASE StartLodge(w, o)
    <2>1. Request("lodge_owner", o, o.seller, None) \in Tasks
      BY <1>o, RequestType DEF RequestPC
    <2> QED
      BY <2>1, <1>1, <1>a, BeginType DEF StartLodge, transferRest, chainVars
  <1>2. CASE StartRead(w, o)
    <2>1. Request("settle_tip", o, None, None) \in Tasks
      BY RequestType DEF RequestPC
    <2> QED
      BY <2>1, <1>2, <1>a, BeginType
         DEF StartRead, StartSettle, transferRest, chainVars
  <1>3. CASE StartRevoke(w, o)
    <2>1. /\ Request("revoke_tip", o, o.seller, None) \in Tasks
          /\ Request("revoke_flip", o, o.seller, None) \in Tasks
      BY <1>o, RequestType DEF RequestPC
    <2> QED
      BY <2>1, <1>3, <1>a, BeginType DEF StartRevoke, transferRest, chainVars
  <1>4. ASSUME NEW p \in Pubkeys, NEW f \in Proofs, StartClaim(w, o, p, f)
        PROVE  /\ task' \in [Workers -> Tasks]
               /\ UNCHANGED <<offers, transfers, owner, cooldown, now, tip, mined>>
    <2>1. Admitted(o, p, f, DeathHeight(o)) \in Tasks
      BY AdmittedType, DeathHeightType
    <2> QED
      BY <2>1, <1>4, <1>a, BeginType DEF StartClaim, transferRest, chainVars
  <1>5. ASSUME NEW p \in Pubkeys, NEW f \in Proofs, StartLateClaim(w, o, p, f)
        PROVE  /\ task' \in [Workers -> Tasks]
               /\ UNCHANGED <<offers, transfers, owner, cooldown, now, tip, mined>>
    <2>1. Request("settle_tip", o, p, f) \in Tasks
      BY RequestType DEF RequestPC
    <2> QED
      BY <2>1, <1>5, <1>a, BeginType
         DEF StartLateClaim, StartSettle, transferRest, chainVars
  <1> QED
    BY <1>b, <1>1, <1>2, <1>3, <1>4, <1>5

(* The steps of the four handlers and their failures keep TypeOK. *)
LEMMA TransferStepType ==
  ASSUME TypeOK, NEW w \in Workers, TransferStep(w) \/ TransferError(w)
  PROVE  TypeOK'
  <1>a. task \in [Workers -> Tasks]
    BY DEF TypeOK, Tasks
  <1>c. /\ task[w].pc \in RequestPC => task[w] \in RequestTask
        /\ task[w].pc \in ClaimPC => task[w] \in ClaimTask
    BY <1>a, TaskKind
  <1>t. /\ owner \in [Names -> Pubkeys \cup {None}]
        /\ cooldown \in SUBSET Pubkeys
        /\ offers \in [Offers -> OfferRow]
        /\ transfers \in SUBSET TransferRow
        /\ now \in Time /\ tip \in Heights
        /\ mined \in [Excesses -> {NoHeight} \cup Heights]
    BY DEF TypeOK
  <1>o. \A o \in Offers :
          o.name \in Names /\ o.seller \in Pubkeys /\ o.buyer \in Pubkeys
    BY OffersAssumption
  <1>p. \A f \in Proofs : f.excess \in Excesses
    BY ProofsAssumption
  <1>r. ASSUME task' \in [Workers -> Tasks],
               UNCHANGED <<offers, transfers, transferRest>>
        PROVE  TypeOK'
    BY <1>t, <1>r DEF TypeOK, transferRest, chainVars, Tasks
  <1>1. CASE LodgeOwner(w) \/ LodgeName(w) \/ LodgeAddr(w)
    <2>1. task' \in [Workers -> Tasks]
      BY <1>1, <1>a, <1>c, CheckType
         DEF LodgeOwner, LodgeName, LodgeAddr, RequestPC
    <2> QED
      BY <1>1, <2>1, <1>r DEF LodgeOwner, LodgeName, LodgeAddr
  <1>2. CASE LodgeInsert(w)
    <2>1. task' \in [Workers -> Tasks]
      BY <1>2, <1>a, ReturnType DEF LodgeInsert
    <2>2. offers' \in [Offers -> OfferRow]
      BY <1>2, <1>t DEF LodgeInsert, InsertOffer, OfferRow
    <2> QED
      BY <1>2, <2>1, <2>2, <1>t
         DEF LodgeInsert, TypeOK, transferRest, chainVars, Tasks
  <1>3. CASE SettleTip(w)
    <2>1. task[w] \in RequestTask
      BY <1>3, <1>c DEF SettleTip, RequestPC
    <2>2. task' \in [Workers -> Tasks]
      BY <1>3, <2>1, <1>a, SeenTip, SetHeightType DEF SettleTip, RequestPC
    <2> QED
      BY <1>3, <2>2, <1>r DEF SettleTip
  <1>4. CASE SettleMark(w)
    <2>1. task[w] \in RequestTask
      BY <1>4, <1>c DEF SettleMark, RequestPC
    <2>2. task' \in [Workers -> Tasks]
      BY <1>4, <2>1, <1>a, SetHeightType DEF SettleMark, RequestPC
    <2>3. /\ task[w].offer \in Offers /\ task[w].now \in Time
          /\ task[w].height \in {NoHeight} \cup Heights
      BY <2>1 DEF RequestTask, TaskOf
    <2>4. offers' \in [Offers -> OfferRow]
      BY <1>4, <2>3, <1>t, MarkOfferDeadType DEF SettleMark
    <2> QED
      BY <1>4, <2>2, <2>4, <1>t
         DEF SettleMark, TypeOK, transferRest, chainVars, Tasks
  <1>5. CASE SettleReload(w)
    <2>1. task[w] \in RequestTask
      BY <1>5, <1>c DEF SettleReload, RequestPC
    <2>2. /\ task[w].offer \in Offers /\ task[w].pubkey \in Pubkeys \cup {None}
          /\ task[w].proof \in Proofs \cup {None}
      BY <2>1 DEF RequestTask, TaskOf
    <2>3. ASSUME task[w].proof # None, task[w].pubkey = task[w].offer.buyer
          PROVE  Admitted(task[w].offer, task[w].pubkey, task[w].proof,
                          DeathHeight(task[w].offer)) \in Tasks
      BY <2>2, <2>3, <1>o, DeathHeightType, AdmittedType
    <2>4. task' \in [Workers -> Tasks]
      BY <1>5, <2>3, <1>a, ReturnType DEF SettleReload
    <2> QED
      BY <1>5, <2>4, <1>r DEF SettleReload
  <1>6. CASE RevokeTip(w)
    <2>1. task[w] \in RequestTask
      BY <1>6, <1>c DEF RevokeTip, RequestPC
    <2>2. task' \in [Workers -> Tasks]
      BY <1>6, <2>1, <1>a, SeenTip, SetHeightType DEF RevokeTip, RequestPC
    <2> QED
      BY <1>6, <2>2, <1>r DEF RevokeTip
  <1>7. CASE RevokeMark(w)
    <2>1. task[w] \in RequestTask
      BY <1>7, <1>c DEF RevokeMark, RequestPC
    <2>2. task' \in [Workers -> Tasks]
      BY <1>7, <1>a, ReturnType DEF RevokeMark
    <2>3. /\ task[w].offer \in Offers /\ task[w].now \in Time
          /\ task[w].height \in {NoHeight} \cup Heights
      BY <2>1 DEF RequestTask, TaskOf
    <2>4. offers' \in [Offers -> OfferRow]
      BY <1>7, <2>3, MarkOfferDeadType DEF RevokeMark
    <2> QED
      BY <1>7, <2>2, <2>4, <1>t
         DEF RevokeMark, TypeOK, transferRest, chainVars, Tasks
  <1>8. CASE RevokeFlip(w)
    <2>1. task' \in [Workers -> Tasks]
      BY <1>8, <1>a, ReturnType DEF RevokeFlip
    <2>2. offers' \in [Offers -> OfferRow]
      BY <1>8, <1>t DEF RevokeFlip, OfferRow
    <2> QED
      BY <1>8, <2>1, <2>2, <1>t
         DEF RevokeFlip, TypeOK, transferRest, chainVars, Tasks
  <1>9. CASE ClaimOwner(w) \/ ClaimDepth(w) \/ ClaimExcess(w) \/ ClaimBuyer(w)
    <2>1. task' \in [Workers -> Tasks]
      BY <1>9, <1>a, <1>c, CheckType
         DEF ClaimOwner, ClaimDepth, ClaimExcess, ClaimBuyer, ClaimPC
    <2> QED
      BY <1>9, <2>1, <1>r DEF ClaimOwner, ClaimDepth, ClaimExcess, ClaimBuyer
  <1>10. CASE ClaimKernel(w)
    <2>1. task[w] \in ClaimTask
      BY <1>10, <1>c DEF ClaimKernel, ClaimPC
    <2>2. mined[task[w].proof.excess] \in {NoHeight} \cup Heights
      BY <2>1, <1>t, <1>p DEF ClaimTask, TaskOf
    <2>3. ASSUME NEW h \in {NoHeight} \cup Heights,
                 task' = [task EXCEPT ![w].pc = "claim_depth", ![w].kernel = h]
          PROVE  task' \in [Workers -> Tasks]
      BY <2>1, <2>3, <1>a DEF Tasks, ClaimTask, TaskOf, ClaimPC
    <2>4. task' \in [Workers -> Tasks]
      BY <1>10, <2>2, <2>3, <1>a, ReturnType DEF ClaimKernel
    <2> QED
      BY <1>10, <2>4, <1>r DEF ClaimKernel
  <1>11. CASE ClaimTxn(w)
    <2>1. task[w] \in ClaimTask
      BY <1>11, <1>c DEF ClaimTxn, ClaimPC
    <2>2. /\ task[w].offer \in Offers /\ task[w].proof \in Proofs
          /\ task[w].kernel \in {NoHeight} \cup Heights
      BY <2>1 DEF ClaimTask, TaskOf
    <2>3. task' \in [Workers -> Tasks]
      BY <1>11, <2>1, <1>a, ReturnType, GotoType DEF ClaimTxn, ClaimPC
    <2>4. /\ owner' \in [Names -> Pubkeys \cup {None}]
          /\ offers' \in [Offers -> OfferRow]
          /\ transfers' \in SUBSET TransferRow
      BY <1>11, <2>2, <1>t, <1>o, <1>p DEF ClaimTxn, OfferRow, TransferRow
    <2> QED
      BY <1>11, <2>3, <2>4, <1>t DEF ClaimTxn, TypeOK, chainVars, Tasks
  <1>12. CASE ClaimArm(w)
    <2>1. task[w].offer.seller \in Pubkeys
      BY <1>12, <1>c, <1>o DEF ClaimArm, ClaimPC, ClaimTask, TaskOf
    <2>2. task' \in [Workers -> Tasks]
      BY <1>12, <1>a, ReturnType DEF ClaimArm
    <2> QED
      BY <1>12, <2>1, <2>2, <1>t
         DEF ClaimArm, ArmCooldown, TypeOK, chainVars, Tasks
  <1>13. CASE TransferWriteError(w) \/ TransferAbort(w)
    <2>1. task' \in [Workers -> Tasks]
      BY <1>13, <1>a, ReturnType DEF TransferWriteError, TransferAbort
    <2> QED
      BY <1>13, <2>1, <1>r DEF TransferWriteError, TransferAbort
  <1>14. CASE TransferReadError(w)
    <2>1. ASSUME task[w].pc = "settle_reload", task[w].proof # None,
                 task[w].pubkey = task[w].offer.buyer
          PROVE  Admitted(task[w].offer, task[w].pubkey, task[w].proof, NoHeight)
                   \in Tasks
      <3>1. task[w] \in RequestTask
        BY <2>1, <1>c DEF RequestPC
      <3>2. task[w].offer \in Offers /\ task[w].proof \in Proofs
        BY <2>1, <3>1 DEF RequestTask, TaskOf
      <3> QED
        BY <2>1, <3>2, <1>o, AdmittedType
    <2>2. task' \in [Workers -> Tasks]
      BY <1>14, <2>1, <1>a, <1>c, ReturnType, GotoType
         DEF TransferReadError, RequestPC, ClaimPC
    <2> QED
      BY <1>14, <2>2, <1>r DEF TransferReadError
  <1> QED
    BY <1>1, <1>2, <1>3, <1>4, <1>5, <1>6, <1>7, <1>8, <1>9, <1>10, <1>11,
       <1>12, <1>13, <1>14
       DEF TransferStep, LodgeStep, SettleStep, RevokeStep, ClaimStep,
           TransferError

LEMMA ChainTypeOK ==
  ASSUME TypeOK, ChainStep
  PROVE  TypeOK'
  <1>1. CASE Tick
    BY <1>1, BoundsAssumption DEF Tick, TypeOK, Time
  <1>2. ASSUME NEW E \in SUBSET Excesses, MineBlock(E)
        PROVE  TypeOK'
    <2>1. tip' \in Heights /\ tip' = tip + 1
      BY <1>2, BoundsAssumption DEF MineBlock, TypeOK, Heights
    <2>2. mined' \in [Excesses -> {NoHeight} \cup Heights]
      BY <1>2, <2>1 DEF MineBlock, TypeOK
    <2> QED
      BY <1>2, <2>1, <2>2 DEF MineBlock, TypeOK
  <1> QED
    BY <1>1, <1>2 DEF ChainStep

LEMMA InitTypeOK == Init => TypeOK
  <1> SUFFICES ASSUME Init PROVE TypeOK
    OBVIOUS
  <1>1. Absent \in OfferRow
    BY BoundsAssumption DEF Absent, OfferRow, Time
  <1>2. 0 \in Time /\ 1 \in Heights
    BY BoundsAssumption DEF Time, Heights
  <1> QED
    BY <1>1, <1>2 DEF Init, StateInit, TransferInit, TypeOK

LEMMA NextTypeOK == TypeOK /\ [Next]_vars => TypeOK'
  <1> SUFFICES ASSUME TypeOK, [Next]_vars PROVE TypeOK'
    OBVIOUS
  <1>1. CASE RegistryNext /\ UNCHANGED transferVars
    BY <1>1, RegistryTypeOK
  <1>2. CASE TransferNext
    <2>1. ASSUME NEW w \in Workers, TransferStart(w)
          PROVE  TypeOK'
      BY <2>1, TransferStartType DEF TypeOK, Tasks
    <2> QED
      BY <1>2, <2>1, TransferStepType, ChainTypeOK DEF TransferNext
  <1>3. ASSUME NEW p \in Pubkeys, Elapse(p)
        PROVE  TypeOK'
    BY <1>3 DEF Elapse, CooldownElapses, transferVars, TypeOK
  <1>4. CASE Crash
    BY <1>4 DEF Crash, Restart, transferVars, TypeOK
  <1>5. CASE UNCHANGED vars
    BY <1>5 DEF vars, transferVars, TypeOK
  <1> QED
    BY <1>1, <1>2, <1>3, <1>4, <1>5 DEF Next

(* Every reachable state is well typed: no handler, failed statement or      *)
(* crash leaves a malformed row or task.                                     *)
THEOREM TypeCorrect == Spec => []TypeOK
  BY InitTypeOK, NextTypeOK, PTL DEF Spec

-----------------------------------------------------------------------------
(* What a step may do to the names and transfers tables. The safety of the   *)
(* book rests on this lemma alone.                                           *)

\* Worker w's claim transaction commits.
Sale(w) ==
  LET t == task[w] IN
  /\ t.pc = "claim_txn" /\ t \in ClaimTask
  /\ Transferable(t.offer, t.proof.excess)
  /\ owner' = [owner EXCEPT ![t.offer.name] = t.offer.buyer]
  /\ transfers' = transfers \cup
       {[offer |-> t.offer, excess |-> t.proof.excess, height |-> t.kernel]}

LEMMA BookStep ==
  ASSUME TypeOK, [Next]_vars
  PROVE  \/ UNCHANGED <<owner, transfers>>
         \/ \E n \in Names, p \in Pubkeys :
              /\ Insertable(n, p)
              /\ owner' = [owner EXCEPT ![n] = p] /\ UNCHANGED transfers
         \/ \E n \in Names :
              /\ owner[n] # None
              /\ owner' = [owner EXCEPT ![n] = None] /\ UNCHANGED transfers
         \/ \E w \in Workers : Sale(w)
  <1>a. task \in [Workers -> Tasks] /\ owner \in [Names -> Pubkeys \cup {None}]
    BY DEF TypeOK, Tasks
  <1>1. ASSUME NEW w \in Workers, RegisterInsert(w), UNCHANGED transferVars
        PROVE  \/ UNCHANGED <<owner, transfers>>
               \/ \E n \in Names, p \in Pubkeys :
                    /\ Insertable(n, p)
                    /\ owner' = [owner EXCEPT ![n] = p] /\ UNCHANGED transfers
    <2>1. task[w].name \in Names /\ task[w].pubkey \in Pubkeys
      BY <1>1, <1>a, TaskKind DEF RegisterInsert, RegistryPC, RegistryTask
    <2> QED
      BY <1>1, <2>1 DEF RegisterInsert, InsertName, transferVars
  <1>2. ASSUME NEW w \in Workers, UnregisterRelease(w), UNCHANGED transferVars
        PROVE  \/ UNCHANGED <<owner, transfers>>
               \/ \E n \in Names :
                    /\ owner[n] # None
                    /\ owner' = [owner EXCEPT ![n] = None] /\ UNCHANGED transfers
    <2>1. task[w].name \in Names
      BY <1>2, <1>a, TaskKind DEF UnregisterRelease, RegistryPC, RegistryTask
    <2>2. CASE owner[task[w].name] = None
      BY <1>2, <2>1, <2>2, <1>a DEF UnregisterRelease, ReleaseName, transferVars
    <2>3. CASE owner[task[w].name] # None
      BY <1>2, <2>1, <2>3 DEF UnregisterRelease, ReleaseName, transferVars
    <2> QED
      BY <2>2, <2>3
  <1>3. ASSUME NEW w \in Workers, ClaimTxn(w)
        PROVE  UNCHANGED <<owner, transfers>> \/ Sale(w)
    <2>1. task[w] \in ClaimTask
      BY <1>3, <1>a, TaskKind DEF ClaimTxn, ClaimPC
    <2> QED
      BY <1>3, <2>1 DEF ClaimTxn, Sale
  <1>4. ASSUME NEW w \in Workers,
               RegistryStart(w) \/ RegistryStep(w) \/ RegistryError(w),
               ~RegisterInsert(w), ~UnregisterRelease(w),
               UNCHANGED transferVars
        PROVE  UNCHANGED <<owner, transfers>>
    BY <1>4
       DEF RegistryStart, StartRegister, StartUnregister, RegistryStep,
           RegisterLookup, RegisterNameOf, UnregisterLookup, UnregisterArm,
           RegistryError, RegistryWriteError, RegistryReadError, transferVars
  <1>5. ASSUME NEW w \in Workers,
               TransferStart(w) \/ TransferStep(w) \/ TransferError(w),
               ~ClaimTxn(w)
        PROVE  UNCHANGED <<owner, transfers>>
    <2>1. CASE TransferStart(w)
      BY <2>1, TransferStartType
    <2>2. CASE LodgeStep(w) \/ SettleStep(w) \/ RevokeStep(w)
      BY <2>2 DEF LodgeStep, LodgeOwner, LodgeName, LodgeAddr, LodgeInsert,
           SettleStep, SettleTip, SettleMark, SettleReload,
           RevokeStep, RevokeTip, RevokeMark, RevokeFlip, transferRest
    <2>3. CASE ClaimStep(w)
      BY <1>5, <2>3 DEF ClaimStep, ClaimOwner, ClaimKernel, ClaimDepth,
           ClaimExcess, ClaimBuyer, ClaimArm, transferRest
    <2>4. CASE TransferError(w)
      BY <2>4 DEF TransferError, TransferWriteError, TransferReadError,
           TransferAbort, transferRest
    <2> QED
      BY <1>5, <2>1, <2>2, <2>3, <2>4 DEF TransferStep
  <1>6. CASE RegistryNext /\ UNCHANGED transferVars
    BY <1>6, <1>1, <1>2, <1>4 DEF RegistryNext
  <1>7. CASE TransferNext
    <2>1. CASE ChainStep
      BY <2>1 DEF ChainStep, Tick, MineBlock
    <2> QED
      BY <1>7, <2>1, <1>3, <1>5 DEF TransferNext
  <1>8. CASE (\E p \in Pubkeys : Elapse(p)) \/ Crash \/ UNCHANGED vars
    BY <1>8 DEF Elapse, CooldownElapses, Crash, Restart, transferVars, vars
  <1> QED
    BY <1>6, <1>7, <1>8 DEF Next

-----------------------------------------------------------------------------
(* The book: one name per key, and every sale entered once. *)

LEMMA OneNameStep ==
  ASSUME TypeOK, OneNamePerKey, [Next]_vars
  PROVE  OneNamePerKey'
  <1>a. owner \in [Names -> Pubkeys \cup {None}]
    BY DEF TypeOK
  <1>1. ASSUME NEW n \in Names, NEW p \in Pubkeys, Insertable(n, p),
               owner' = [owner EXCEPT ![n] = p]
        PROVE  OneNamePerKey'
    BY <1>1, <1>a DEF OneNamePerKey, Insertable, NameOf
  <1>2. ASSUME NEW n \in Names, owner' = [owner EXCEPT ![n] = None]
        PROVE  OneNamePerKey'
    BY <1>2, <1>a DEF OneNamePerKey
  <1>3. ASSUME NEW w \in Workers, Sale(w)
        PROVE  OneNamePerKey'
    <2>1. /\ task[w].offer.name \in Names
          /\ NameOf(task[w].offer.buyer) \ {task[w].offer.name} = {}
      BY <1>3, OffersAssumption DEF Sale, Transferable, ClaimTask, TaskOf
    <2> QED
      BY <1>3, <1>a, <2>1 DEF Sale, OneNamePerKey, NameOf
  <1>4. CASE UNCHANGED owner
    BY <1>4 DEF OneNamePerKey
  <1> QED
    BY <1>1, <1>2, <1>3, <1>4, BookStep

(* For any number of workers, names and keys, and whatever queries fail, the *)
(* names table never binds two active names to one key.                      *)
THEOREM OneName == Spec => []OneNamePerKey
  <1>1. Init => OneNamePerKey
    BY DEF Init, StateInit, OneNamePerKey
  <1>2. TypeOK /\ OneNamePerKey /\ [Next]_vars => OneNamePerKey'
    BY OneNameStep
  <1> QED
    BY <1>1, <1>2, TypeCorrect, PTL DEF Spec

LEMMA SoldOnceStep ==
  ASSUME TypeOK, SoldOnce, [Next]_vars
  PROVE  SoldOnce'
  <1>1. ASSUME NEW w \in Workers, Sale(w)
        PROVE  SoldOnce'
    <2>1. \A r \in transfers :
            r.offer # task[w].offer /\ r.excess # task[w].proof.excess
      BY <1>1 DEF Sale, Transferable
    <2> QED
      BY <1>1, <2>1 DEF Sale, SoldOnce
  <1>2. CASE UNCHANGED transfers
    BY <1>2 DEF SoldOnce
  <1> QED
    BY <1>1, <1>2, BookStep

(* However many claims of however many offers race, no offer is sold twice   *)
(* and no payment is accepted twice.                                         *)
THEOREM SingleUse == Spec => []SoldOnce
  <1>1. Init => SoldOnce
    BY DEF Init, TransferInit, SoldOnce
  <1>2. TypeOK /\ SoldOnce /\ [Next]_vars => SoldOnce'
    BY SoldOnceStep
  <1> QED
    BY <1>1, <1>2, TypeCorrect, PTL DEF Spec

(* In every behaviour a name changes hands only in a step that also enters   *)
(* its sale, from that seller to that buyer, in the ledger.                  *)
THEOREM SalesMoveNames == Spec => OnlySalesMoveNames
  <1>1. ASSUME TypeOK, [Next]_vars, NEW n \in Names,
               owner[n] # None, owner'[n] \notin {None, owner[n]}
        PROVE  \E r \in transfers' \ transfers :
                 /\ r.offer.name = n
                 /\ r.offer.seller = owner[n] /\ r.offer.buyer = owner'[n]
    <2>a. owner \in [Names -> Pubkeys \cup {None}]
      BY <1>1 DEF TypeOK
    <2>1. PICK w \in Workers : Sale(w)
      BY <1>1, <2>a, BookStep DEF Insertable
    <2>2. task[w].offer.name = n
      BY <1>1, <2>1, <2>a, OffersAssumption DEF Sale, ClaimTask, TaskOf
    <2>3. /\ owner[n] = task[w].offer.seller
          /\ owner'[n] = task[w].offer.buyer
      BY <2>1, <2>2, <2>a DEF Sale, Transferable
    <2> DEFINE row == [offer |-> task[w].offer, excess |-> task[w].proof.excess,
                       height |-> task[w].kernel]
    <2>4. row \in transfers' \ transfers
      BY <2>1 DEF Sale, Transferable
    <2> QED
      BY <2>2, <2>3, <2>4
  <1>2. TypeOK /\ [Next]_vars =>
          [\A n \in Names :
             owner[n] # None /\ owner'[n] \notin {None, owner[n]} =>
               \E r \in transfers' \ transfers :
                 /\ r.offer.name = n
                 /\ r.offer.seller = owner[n] /\ r.offer.buyer = owner'[n]]_vars
    BY <1>1
  <1> QED
    BY <1>2, TypeCorrect, PTL DEF Spec, OnlySalesMoveNames

-----------------------------------------------------------------------------
(* Refinement: the authority implements the book. *)

Ledger == {[offer |-> r.offer, excess |-> r.excess] : r \in transfers}

LEMMA SaleRefines ==
  ASSUME TypeOK, NEW w \in Workers, Sale(w)
  PROVE  Book!BookNext
  <1>1. PICK o \in Offers, e \in Excesses :
          o = task[w].offer /\ e = task[w].proof.excess
    BY ProofsAssumption DEF Sale, ClaimTask, TaskOf
  <1> DEFINE row == [offer |-> o, excess |-> e, height |-> task[w].kernel]
             entry == [offer |-> o, excess |-> e]
  <1>2. /\ o.name \in Names /\ o.seller \in Pubkeys /\ o.buyer \in Pubkeys
    BY <1>1, OffersAssumption
  <1>3. owner[o.name] = o.seller
    BY <1>1 DEF Sale, Transferable
  <1>4. Book!Unnamed(o.buyer) \/ o.buyer = o.seller
    <2>1. NameOf(o.buyer) \subseteq {o.name}
      BY <1>1 DEF Sale, Transferable
    <2>2. CASE owner[o.name] = o.buyer
      BY <2>2, <1>3
    <2>3. CASE owner[o.name] # o.buyer
      BY <2>1, <2>3 DEF NameOf, Book!Unnamed
    <2> QED
      BY <2>2, <2>3
  <1>5. \A r \in Ledger : r.offer # o /\ r.excess # e
    BY <1>1 DEF Sale, Transferable, Ledger
  <1>6. owner' = [owner EXCEPT ![o.name] = o.buyer]
    BY <1>1 DEF Sale
  <1>7. Ledger' = Ledger \cup {entry}
    <2>1. transfers' = transfers \cup {row}
      BY <1>1 DEF Sale
    <2>2. row.offer = o /\ row.excess = e
      OBVIOUS
    <2> QED
      BY <2>1, <2>2 DEF Ledger
  <1>8. Book!Sell(o, e)
    BY <1>3, <1>4, <1>5, <1>6, <1>7 DEF Book!Sell, Ledger
  <1> QED
    BY <1>8 DEF Book!BookNext

LEMMA StepRefines ==
  ASSUME TypeOK, [Next]_vars
  PROVE  [Book!BookNext]_Book!bookVars
  <1>a. owner \in [Names -> Pubkeys \cup {None}]
    BY DEF TypeOK
  <1>1. ASSUME NEW n \in Names, NEW p \in Pubkeys, Insertable(n, p),
               owner' = [owner EXCEPT ![n] = p], UNCHANGED transfers
        PROVE  Book!BookNext
    <2>1. Book!Claim(n, p)
      BY <1>1 DEF Insertable, NameOf, Book!Claim, Book!Unnamed
    <2> QED
      BY <2>1 DEF Book!BookNext
  <1>2. ASSUME NEW n \in Names, owner[n] # None,
               owner' = [owner EXCEPT ![n] = None], UNCHANGED transfers
        PROVE  Book!BookNext
    <2>1. Book!Release(n)
      BY <1>2 DEF Book!Release
    <2> QED
      BY <2>1 DEF Book!BookNext
  <1>3. CASE UNCHANGED <<owner, transfers>>
    BY <1>3 DEF Book!bookVars
  <1> QED
    BY <1>1, <1>2, <1>3, BookStep, SaleRefines

(* Everything the requests, statements, crashes and node answers do to the   *)
(* two tables is a claim, a release or a sale of the abstract book, at once. *)
THEOREM Refinement == Spec => ImplementsBook
  <1>1. Init => Book!BookInit
    BY DEF Init, StateInit, TransferInit, Book!BookInit
  <1>2. TypeOK /\ [Next]_vars => [Book!BookNext]_Book!bookVars
    BY StepRefines
  <1> QED
    BY <1>1, <1>2, TypeCorrect, PTL DEF Spec, ImplementsBook, Book!BookSpec

-----------------------------------------------------------------------------
(* What only grows: kernels stay where they were mined, and a dead offer     *)
(* stays dead with the death record it has.                                  *)

Dead(o) == offers[o].status \notin {"absent", "live"}

LEMMA ChainGrows ==
  ASSUME TypeOK, [Next]_vars
  PROVE  /\ tip' >= tip
         /\ \A e \in Excesses : mined[e] # NoHeight => mined'[e] = mined[e]
         /\ \A e \in Excesses : mined'[e] # mined[e] => mined'[e] = tip'
  <1>t. tip \in Nat /\ mined \in [Excesses -> {NoHeight} \cup Heights]
    BY BoundsAssumption DEF TypeOK, Heights
  <1>1. ASSUME NEW E \in SUBSET Excesses, MineBlock(E)
        PROVE  /\ tip' >= tip
               /\ \A e \in Excesses : mined[e] # NoHeight => mined'[e] = mined[e]
               /\ \A e \in Excesses : mined'[e] # mined[e] => mined'[e] = tip'
    BY <1>1, <1>t DEF MineBlock
  <1>2. CASE UNCHANGED <<tip, mined>>
    BY <1>2, <1>t
  <1>3. ASSUME NEW w \in Workers,
               TransferStart(w) \/ TransferStep(w) \/ TransferError(w)
        PROVE  UNCHANGED <<tip, mined>>
    <2>1. CASE TransferStart(w)
      BY <2>1, TransferStartType
    <2>2. CASE LodgeStep(w) \/ SettleStep(w) \/ RevokeStep(w)
      BY <2>2 DEF LodgeStep, LodgeOwner, LodgeName, LodgeAddr, LodgeInsert,
           SettleStep, SettleTip, SettleMark, SettleReload, RevokeStep,
           RevokeTip, RevokeMark, RevokeFlip, transferRest, chainVars
    <2>3. CASE ClaimStep(w)
      BY <2>3 DEF ClaimStep, ClaimOwner, ClaimKernel, ClaimDepth, ClaimExcess,
           ClaimBuyer, ClaimTxn, ClaimArm, transferRest, chainVars
    <2>4. CASE TransferError(w)
      BY <2>4 DEF TransferError, TransferWriteError, TransferReadError,
           TransferAbort, transferRest, chainVars
    <2> QED
      BY <1>3, <2>1, <2>2, <2>3, <2>4 DEF TransferStep
  <1>4. CASE \/ RegistryNext /\ UNCHANGED transferVars
             \/ \E p \in Pubkeys : Elapse(p)
             \/ Crash
             \/ UNCHANGED vars
    BY <1>4, <1>2 DEF Elapse, Crash, vars, transferVars
  <1>5. CASE TransferNext
    BY <1>5, <1>1, <1>2, <1>3 DEF TransferNext, ChainStep, Tick
  <1> QED
    BY <1>4, <1>5 DEF Next

LEMMA DeathKept ==
  ASSUME TypeOK, [Next]_vars, NEW o \in Offers, Dead(o)
  PROVE  /\ Dead(o)'
         /\ offers'[o].end_height = offers[o].end_height
         /\ offers'[o].changed = offers[o].changed
  <1>t. offers \in [Offers -> OfferRow] /\ task \in [Workers -> Tasks]
    BY DEF TypeOK, Tasks
  <1>1. CASE UNCHANGED offers
    BY <1>1 DEF Dead
  <1>2. ASSUME NEW x, InsertOffer(x) \/ \E s, h, t : MarkOfferDead(x, s, h, t)
        PROVE  offers'[o] = offers[o]
    BY <1>2, <1>t DEF InsertOffer, MarkOfferDead, Absent, Dead
  <1>3. ASSUME NEW x, NEW s \in {"consumed", "revoked"},
               offers' = [offers EXCEPT ![x].status = s]
        PROVE  /\ Dead(o)'
               /\ offers'[o].end_height = offers[o].end_height
               /\ offers'[o].changed = offers[o].changed
    BY <1>3, <1>t DEF Dead, OfferRow
  <1>4. ASSUME NEW w \in Workers,
               TransferStart(w) \/ TransferStep(w) \/ TransferError(w)
        PROVE  \/ UNCHANGED offers
               \/ \E x : InsertOffer(x) \/ \E s, h, t : MarkOfferDead(x, s, h, t)
               \/ \E x, s : /\ s \in {"consumed", "revoked"}
                            /\ offers' = [offers EXCEPT ![x].status = s]
    <2>1. CASE TransferStart(w)
      BY <2>1, TransferStartType
    <2>2. CASE LodgeStep(w)
      BY <2>2 DEF LodgeStep, LodgeOwner, LodgeName, LodgeAddr, LodgeInsert
    <2>3. CASE SettleStep(w)
      BY <2>3 DEF SettleStep, SettleTip, SettleMark, SettleReload
    <2>4. CASE RevokeStep(w)
      BY <2>4 DEF RevokeStep, RevokeTip, RevokeMark, RevokeFlip
    <2>5. CASE ClaimStep(w)
      BY <2>5 DEF ClaimStep, ClaimOwner, ClaimKernel, ClaimDepth, ClaimExcess,
                  ClaimBuyer, ClaimTxn, ClaimArm
    <2>6. CASE TransferError(w)
      BY <2>6 DEF TransferError, TransferWriteError, TransferReadError,
                  TransferAbort
    <2> QED
      BY <1>4, <2>1, <2>2, <2>3, <2>4, <2>5, <2>6 DEF TransferStep
  <1>5. CASE TransferNext
    <2>1. CASE ChainStep
      BY <2>1, <1>1 DEF ChainStep, Tick, MineBlock
    <2>2. ASSUME NEW w \in Workers,
                 TransferStart(w) \/ TransferStep(w) \/ TransferError(w)
          PROVE  /\ Dead(o)'
                 /\ offers'[o].end_height = offers[o].end_height
                 /\ offers'[o].changed = offers[o].changed
      <3>1. offers'[o] = offers[o] => Dead(o)'
        BY DEF Dead
      <3> QED
        BY <2>2, <3>1, <1>1, <1>2, <1>3, <1>4
    <2> QED
      BY <1>5, <2>1, <2>2 DEF TransferNext
  <1>6. CASE \/ RegistryNext /\ UNCHANGED transferVars
             \/ \E p \in Pubkeys : Elapse(p)
             \/ Crash
             \/ UNCHANGED vars
    BY <1>6, <1>1 DEF Elapse, Crash, vars, transferVars
  <1> QED
    BY <1>5, <1>6 DEF Next

(* In every behaviour the death record an offer's late claims are judged by  *)
(* is written at most once, and no offer comes back to life.                 *)
THEOREM DeathFinal == Spec => DeathIsFinal
  <1>1. TypeOK /\ [Next]_vars =>
          [\A o \in Offers :
             offers[o].status \notin {"absent", "live"} =>
               /\ offers'[o].status \notin {"absent", "live"}
               /\ offers'[o].end_height = offers[o].end_height
               /\ offers'[o].changed = offers[o].changed]_vars
    BY DeathKept DEF Dead
  <1> QED
    BY <1>1, TypeCorrect, PTL DEF Spec, DeathIsFinal

-----------------------------------------------------------------------------
(* The inductive invariant of the payment checks. TransfersPaid speaks of    *)
(* the rows; it is inductive only together with what a claim has checked so  *)
(* far and that no later step can take back.                                 *)

\* The claim has seen its kernel; it has passed the confirmation gates.
FoundPC == {"claim_depth", "claim_excess", "claim_buyer", "claim_txn", "claim_arm"}
GatedPC == {"claim_excess", "claim_buyer", "claim_txn", "claim_arm"}

OnChain(e) == mined[e] # NoHeight

Deep(e) == OnChain(e) /\ tip - mined[e] + 1 >= MinConf

\* What a claim task t knows. A limit is the offer's death height, for good.
Evidence(t) ==
  /\ t.pc \in ClaimPC /\ t.height # NoHeight =>
       Dead(t.offer) /\ offers[t.offer].end_height = t.height
  /\ t.pc \in ClaimPC \ {"claim_owner"} => ProofMatches(t.proof, t.offer)
  /\ t.pc \in FoundPC => /\ OnChain(t.proof.excess)
                         /\ t.kernel \in {NoHeight, mined[t.proof.excess]}
  /\ t.pc \in GatedPC =>
       /\ Deep(t.proof.excess)
       /\ t.height # NoHeight => t.kernel # NoHeight /\ t.kernel <= t.height

RowPaid(r) ==
  /\ \E f \in Proofs : f.excess = r.excess /\ ProofMatches(f, r.offer)
  /\ Deep(r.excess)

PaymentInv ==
  /\ TypeOK
  /\ \A e \in Excesses : mined[e] <= tip
  /\ \A w \in Workers : Evidence(task[w])
  /\ \A r \in transfers : RowPaid(r)

\* Evidence outlives every step.
LEMMA EvidenceKept ==
  ASSUME TypeOK, TypeOK', [Next]_vars, NEW t \in Tasks, Evidence(t)
  PROVE  Evidence(t)'
  <1>n. tip \in Int /\ tip' \in Int /\ MinConf \in Int
    BY BoundsAssumption DEF TypeOK, Heights
  <1>1. CASE t.pc \notin ClaimPC
    BY <1>1 DEF Evidence, ClaimPC, FoundPC, GatedPC
  <1>2. CASE t.pc \in ClaimPC
    <2>1. t \in ClaimTask
      BY <1>2 DEF Tasks, Idle, RegistryTask, RequestTask, ClaimTask, TaskOf,
                  RegistryPC, RequestPC, ClaimPC
    <2>2. t.offer \in Offers /\ t.proof.excess \in Excesses
      BY <2>1, ProofsAssumption DEF ClaimTask, TaskOf
    <2>3. t.height # NoHeight => (Dead(t.offer) /\ offers[t.offer].end_height = t.height)'
      BY <1>2, <2>2, DeathKept DEF Evidence
    <2>4. OnChain(t.proof.excess) =>
            mined'[t.proof.excess] = mined[t.proof.excess] /\ OnChain(t.proof.excess)'
      BY <2>2, ChainGrows DEF OnChain
    <2>m. mined[t.proof.excess] \in Int
      BY <2>2, BoundsAssumption DEF TypeOK, Heights, NoHeight
    <2>5. Deep(t.proof.excess) => Deep(t.proof.excess)'
      BY <2>4, <2>m, <1>n, ChainGrows DEF Deep
    <2>6. ProofMatches(t.proof, t.offer) => ProofMatches(t.proof, t.offer)'
      BY DEF ProofMatches
    <2> QED
      BY <1>2, <2>3, <2>4, <2>5, <2>6 DEF Evidence
  <1> QED
    BY <1>1, <1>2

\* A step of a claim from record t to record u.
ClaimMove(t, u) ==
  /\ t \in ClaimTask
  /\ u.proof = t.proof /\ u.offer = t.offer /\ u.height = t.height
  /\ \/ /\ t.pc = "claim_owner" /\ u.pc = "claim_kernel"
        /\ ProofMatches(t.proof, t.offer)
     \/ /\ t.pc = "claim_kernel" /\ u.pc = "claim_depth"
        /\ OnChain(t.proof.excess)
        /\ u.kernel \in {NoHeight, mined[t.proof.excess]}
     \/ /\ t.pc = "claim_depth" /\ u.pc = "claim_excess" /\ u.kernel = t.kernel
        /\ \E h \in 1 .. tip : Confirmations(t.kernel, h) >= MinConf
        /\ t.height # NoHeight => t.kernel # NoHeight /\ t.kernel <= t.height
     \/ t.pc \in GatedPC /\ u.pc \in GatedPC /\ u.kernel = t.kernel

LEMMA MoveKeepsEvidence ==
  ASSUME TypeOK, \A e \in Excesses : mined[e] <= tip,
         NEW t, NEW u, Evidence(t), ClaimMove(t, u)
  PROVE  Evidence(u)
  <1>1. /\ t \in ClaimTask /\ t.proof.excess \in Excesses
        /\ t.kernel \in {NoHeight} \cup Heights
    BY ProofsAssumption DEF ClaimMove, ClaimTask, TaskOf
  <1>n. tip \in Int /\ MinConf \in Nat /\ mined[t.proof.excess] \in Int
    BY <1>1, BoundsAssumption DEF TypeOK, Heights, NoHeight
  <1>2. CASE t.pc = "claim_owner" /\ u.pc = "claim_kernel"
    BY <1>1, <1>2 DEF Evidence, ClaimMove, ClaimPC, FoundPC, GatedPC
  <1>3. CASE t.pc = "claim_kernel" /\ u.pc = "claim_depth"
    BY <1>1, <1>3 DEF Evidence, ClaimMove, ClaimPC, FoundPC, GatedPC
  <1>4. CASE t.pc = "claim_depth" /\ u.pc = "claim_excess"
    <2>1. PICK h \in 1 .. tip : Confirmations(t.kernel, h) >= MinConf
      BY <1>4 DEF ClaimMove, GatedPC
    <2>2. /\ OnChain(t.proof.excess)
          /\ t.kernel \in {NoHeight, mined[t.proof.excess]}
      BY <1>4 DEF Evidence, FoundPC
    <2>3. tip - mined[t.proof.excess] + 1 >= MinConf
      <3>1. CASE t.kernel = NoHeight \/ h < t.kernel
        <4>1. 1 >= MinConf
          BY <2>1, <3>1 DEF Confirmations
        <4> QED
          BY <4>1, <1>1, <1>n
      <3>2. CASE ~(t.kernel = NoHeight \/ h < t.kernel)
        <4>1. h - mined[t.proof.excess] + 1 >= MinConf
          BY <2>1, <2>2, <3>2 DEF Confirmations
        <4> QED
          BY <4>1, <1>n
      <3> QED
        BY <3>1, <3>2
    <2>4. Deep(t.proof.excess)
      BY <2>2, <2>3 DEF Deep
    <2> QED
      BY <1>4, <2>2, <2>4 DEF Evidence, ClaimMove, ClaimPC, FoundPC, GatedPC
  <1>5. CASE t.pc \in GatedPC /\ u.pc \in GatedPC /\ u.kernel = t.kernel
    BY <1>5 DEF Evidence, ClaimMove, ClaimPC, FoundPC, GatedPC
  <1> QED
    BY <1>2, <1>3, <1>4, <1>5 DEF ClaimMove

\* A claim enters with no limit, or with the death height of a dead offer.
Admission(u) ==
  /\ u.pc = "claim_owner"
  /\ u.height # NoHeight =>
       Dead(u.offer) /\ offers[u.offer].end_height = u.height

LEMMA AdmittedEvidence ==
  ASSUME NEW u, Admission(u)
  PROVE  Evidence(u)
  BY DEF Admission, Evidence, FoundPC, GatedPC

\* The ways a task record changes, as far as Evidence is concerned.
Change(v) ==
  \/ task'[v] = task[v]
  \/ task'[v].pc \notin ClaimPC
  \/ Admission(task'[v])
  \/ ClaimMove(task[v], task'[v])

LEMMA ReturnChange ==
  ASSUME task \in [Workers -> Tasks], NEW v \in Workers, NEW w \in Workers,
         Return(w)
  PROVE  Change(v)
  BY DEF Return, Change, Idle, ClaimPC

LEMMA GotoChange ==
  ASSUME task \in [Workers -> Tasks], NEW v \in Workers, NEW w \in Workers,
         NEW pc \in RegistryPC \cup RequestPC, Goto(w, pc),
         task[w].pc \in RegistryPC \cup RequestPC
  PROVE  Change(v)
  <1>1. task'[v] = task[v] \/ task'[v] = [task[w] EXCEPT !.pc = pc]
    BY DEF Goto
  <1>2. [task[w] EXCEPT !.pc = pc].pc = pc
    BY DEF Tasks, Idle, RegistryTask, RequestTask, ClaimTask, TaskOf,
           RegistryPC, RequestPC
  <1> QED
    BY <1>1, <1>2 DEF Change, ClaimPC, RegistryPC, RequestPC

LEMMA CheckChange ==
  ASSUME task \in [Workers -> Tasks], NEW v \in Workers, NEW w \in Workers,
         NEW pc \in RegistryPC \cup RequestPC, NEW c, Check(w, c, pc),
         task[w].pc \in RegistryPC \cup RequestPC
  PROVE  Change(v)
  BY ReturnChange, GotoChange DEF Check

\* A claim's own goto: the record is the same but for the counter.
LEMMA ClaimGoto ==
  ASSUME task \in [Workers -> Tasks], NEW v \in Workers, NEW w \in Workers,
         NEW pc \in ClaimPC, Goto(w, pc), task[w] \in ClaimTask
  PROVE  \/ task'[v] = task[v]
         \/ v = w /\ task'[v].pc = pc /\ task'[v].proof = task[v].proof
              /\ task'[v].offer = task[v].offer
              /\ task'[v].height = task[v].height
              /\ task'[v].kernel = task[v].kernel
  BY DEF Goto, ClaimTask, TaskOf

LEMMA RegistryChange ==
  ASSUME TypeOK, RegistryNext, NEW v \in Workers
  PROVE  Change(v)
  <1>a. task \in [Workers -> Tasks]
    BY DEF TypeOK, Tasks
  <1>b. PICK w \in Workers :
          RegistryStart(w) \/ RegistryStep(w) \/ RegistryError(w)
    BY DEF RegistryNext
  <1>1. CASE RegistryStart(w)
    BY <1>1, <1>a DEF RegistryStart, StartRegister, StartUnregister, Begin,
                      Change, ClaimPC
  <1>2. CASE RegistryStep(w)
    BY <1>2, <1>a, ReturnChange, GotoChange, CheckChange
       DEF RegistryStep, RegisterLookup, RegisterNameOf, RegisterInsert,
           UnregisterLookup, UnregisterRelease, UnregisterArm, AfterNameOf,
           RegistryPC
  <1>3. CASE RegistryError(w)
    BY <1>3, <1>a, ReturnChange, GotoChange
       DEF RegistryError, RegistryWriteError, RegistryReadError, AfterNameOf,
           RegistryPC
  <1> QED
    BY <1>b, <1>1, <1>2, <1>3

LEMMA RequestChange ==
  ASSUME TypeOK, NEW v \in Workers, NEW w \in Workers,
         TransferStart(w) \/ LodgeStep(w) \/ SettleStep(w) \/ RevokeStep(w)
  PROVE  Change(v)
  <1>a. task \in [Workers -> Tasks]
    BY DEF TypeOK, Tasks
  <1>h. ASSUME NEW o \in Offers, NEW p, NEW f,
               Honoured(o, now) \/ \E t : Honoured(o, t),
               task' = [task EXCEPT ![w] = Admitted(o, p, f, DeathHeight(o))],
               UNCHANGED offers
        PROVE  Change(v)
    <2>1. Admission(Admitted(o, p, f, DeathHeight(o)))
      BY <1>h DEF Admission, Admitted, DeathHeight, Honoured, Dead
    <2> QED
      BY <1>h, <2>1, <1>a DEF Change, Admission, Dead
  <1>1. CASE TransferStart(w)
    <2>1. PICK o \in Offers :
            \/ StartLodge(w, o)
            \/ StartRead(w, o)
            \/ StartRevoke(w, o)
            \/ \E p \in Pubkeys, f \in Proofs :
                 StartClaim(w, o, p, f) \/ StartLateClaim(w, o, p, f)
      BY <1>1 DEF TransferStart
    <2>2. CASE \/ StartLodge(w, o) \/ StartRead(w, o) \/ StartRevoke(w, o)
               \/ \E p \in Pubkeys, f \in Proofs : StartLateClaim(w, o, p, f)
      BY <2>2, <1>a DEF StartLodge, StartRead, StartRevoke, StartLateClaim,
                        StartSettle, Begin, Request, Change, ClaimPC
    <2>3. ASSUME NEW p \in Pubkeys, NEW f \in Proofs, StartClaim(w, o, p, f)
          PROVE  Change(v)
      BY <2>3, <1>h DEF StartClaim, Begin
    <2> QED
      BY <2>1, <2>2, <2>3
  <1>2. CASE LodgeStep(w)
    BY <1>2, <1>a, ReturnChange, CheckChange
       DEF LodgeStep, LodgeOwner, LodgeName, LodgeAddr, LodgeInsert, RequestPC
  <1>3. ASSUME NEW pc \in RequestPC, NEW h, SetHeight(w, pc, h),
               task[w].pc \in RequestPC
        PROVE  Change(v)
    <2>1. task[w] \in RequestTask
      BY <1>3, <1>a, TaskKind
    <2> QED
      BY <1>3, <2>1, <1>a
         DEF SetHeight, RequestTask, TaskOf, Change, RequestPC, ClaimPC
  <1>4. CASE SettleTip(w) \/ SettleMark(w) \/ RevokeTip(w)
    BY <1>4, <1>3 DEF SettleTip, SettleMark, RevokeTip, RequestPC
  <1>5. CASE RevokeMark(w) \/ RevokeFlip(w)
    BY <1>5, <1>a, ReturnChange DEF RevokeMark, RevokeFlip
  <1>6. CASE SettleReload(w)
    <2>1. task[w].offer \in Offers
      BY <1>6, <1>a, TaskKind DEF SettleReload, RequestPC, RequestTask, TaskOf
    <2> QED
      BY <1>6, <2>1, <1>a, <1>h, ReturnChange DEF SettleReload
  <1> QED
    BY <1>1, <1>2, <1>4, <1>5, <1>6 DEF SettleStep, RevokeStep

LEMMA ClaimChange ==
  ASSUME TypeOK, NEW v \in Workers, NEW w \in Workers, ClaimStep(w)
  PROVE  Change(v)
  <1>a. task \in [Workers -> Tasks]
    BY DEF TypeOK, Tasks
  <1>c. task[w].pc \in ClaimPC => task[w] \in ClaimTask
    BY <1>a, TaskKind
  <1>r. Return(w) => Change(v)
    BY <1>a, ReturnChange
  <1>1. CASE ClaimOwner(w)
    <2>1. CASE ProofMatches(task[w].proof, task[w].offer) /\ Goto(w, "claim_kernel")
      BY <1>1, <2>1, <1>a, <1>c, ClaimGoto DEF ClaimOwner, ClaimPC, Change, ClaimMove
    <2> QED
      BY <1>1, <2>1, <1>r DEF ClaimOwner, Check
  <1>2. CASE ClaimKernel(w)
    <2>1. task[w] \in ClaimTask
      BY <1>2, <1>c DEF ClaimKernel, ClaimPC
    <2>2. ASSUME NEW h \in {NoHeight, mined[task[w].proof.excess]},
                 mined[task[w].proof.excess] # NoHeight,
                 task' = [task EXCEPT ![w].pc = "claim_depth", ![w].kernel = h]
          PROVE  Change(v)
      <3>1. CASE v # w
        BY <3>1, <2>2, <1>a DEF Change
      <3>2. CASE v = w
        <4>1. /\ task'[w].pc = "claim_depth" /\ task'[w].kernel = h
              /\ task'[w].proof = task[w].proof
              /\ task'[w].offer = task[w].offer
              /\ task'[w].height = task[w].height
          BY <2>1, <2>2, <1>a DEF ClaimTask, TaskOf
        <4> QED
          BY <1>2, <2>1, <2>2, <3>2, <4>1
             DEF ClaimKernel, Change, ClaimMove, OnChain
      <3> QED
        BY <3>1, <3>2
    <2> QED
      BY <1>2, <2>2, <1>r DEF ClaimKernel
  <1>3. CASE ClaimDepth(w)
    <2>1. PICK h \in 1 .. tip :
            Check(w, /\ Confirmations(task[w].kernel, h) >= MinConf
                     /\ \/ task[w].height = NoHeight
                        \/ /\ task[w].kernel # NoHeight
                           /\ task[w].kernel <= task[w].height,
                  "claim_excess")
      BY <1>3 DEF ClaimDepth
    <2>2. CASE /\ Confirmations(task[w].kernel, h) >= MinConf
               /\ \/ task[w].height = NoHeight
                  \/ task[w].kernel # NoHeight /\ task[w].kernel <= task[w].height
      <3>1. Goto(w, "claim_excess") /\ task[w] \in ClaimTask
        BY <1>3, <2>1, <2>2, <1>c DEF Check, ClaimDepth, ClaimPC
      <3> QED
        BY <1>3, <2>2, <3>1, <1>a, ClaimGoto
           DEF ClaimDepth, ClaimPC, Change, ClaimMove
    <2> QED
      BY <2>1, <2>2, <1>r DEF Check
  <1>4. CASE ClaimExcess(w) \/ ClaimBuyer(w) \/ ClaimTxn(w)
    <2>1. task[w] \in ClaimTask /\ task[w].pc \in GatedPC
      BY <1>4, <1>c DEF ClaimExcess, ClaimBuyer, ClaimTxn, ClaimPC, GatedPC
    <2>2. Return(w) \/ \E pc \in GatedPC : Goto(w, pc)
      BY <1>4 DEF ClaimExcess, ClaimBuyer, ClaimTxn, Check, GatedPC
    <2>3. ASSUME NEW pc \in GatedPC, Goto(w, pc)
          PROVE  Change(v)
      BY <2>1, <2>3, <1>a, ClaimGoto DEF GatedPC, ClaimPC, Change, ClaimMove
    <2> QED
      BY <2>2, <2>3, <1>r
  <1>5. CASE ClaimArm(w)
    BY <1>5, <1>r DEF ClaimArm
  <1> QED
    BY <1>1, <1>2, <1>3, <1>4, <1>5 DEF ClaimStep

LEMMA ErrorChange ==
  ASSUME TypeOK, NEW v \in Workers, NEW w \in Workers, TransferError(w)
  PROVE  Change(v)
  <1>a. task \in [Workers -> Tasks]
    BY DEF TypeOK, Tasks
  <1>1. CASE TransferWriteError(w) \/ TransferAbort(w)
    BY <1>1, <1>a, ReturnChange DEF TransferWriteError, TransferAbort
  <1>2. CASE TransferReadError(w)
    <2>1. CASE \/ task[w].pc = "lodge_name" /\ Goto(w, "lodge_addr")
               \/ task[w].pc = "lodge_addr" /\ Goto(w, "lodge_insert")
               \/ Return(w)
      BY <2>1, <1>a, ReturnChange, GotoChange DEF RequestPC
    <2>2. CASE \/ task[w].pc = "claim_excess" /\ Goto(w, "claim_buyer")
               \/ task[w].pc = "claim_buyer" /\ Goto(w, "claim_txn")
      <3>1. task[w] \in ClaimTask
        BY <2>2, <1>a, TaskKind DEF ClaimPC
      <3> QED
        BY <2>2, <3>1, <1>a, ClaimGoto DEF ClaimPC, GatedPC, Change, ClaimMove
    <2>3. CASE task' = [task EXCEPT ![w] =
                          Admitted(task[w].offer, task[w].pubkey, task[w].proof,
                                   NoHeight)]
      BY <2>3, <1>a DEF Admitted, Change, Admission
    <2> QED
      BY <1>2, <2>1, <2>2, <2>3 DEF TransferReadError
  <1> QED
    BY <1>1, <1>2 DEF TransferError

LEMMA TaskStep ==
  ASSUME TypeOK, [Next]_vars, NEW v \in Workers
  PROVE  Change(v)
  <1>a. task \in [Workers -> Tasks]
    BY DEF TypeOK, Tasks
  <1>1. CASE RegistryNext
    BY <1>1, RegistryChange
  <1>2. CASE TransferNext
    <2>1. CASE ChainStep
      BY <2>1 DEF ChainStep, Tick, MineBlock, Change
    <2> QED
      BY <1>2, <2>1, RequestChange, ClaimChange, ErrorChange
         DEF TransferNext, TransferStep
  <1>3. CASE (\E p \in Pubkeys : Elapse(p)) \/ Crash \/ UNCHANGED vars
    BY <1>3, <1>a DEF Elapse, CooldownElapses, Crash, Restart, vars, Change,
                      Idle, ClaimPC
  <1> QED
    BY <1>1, <1>2, <1>3 DEF Next

-----------------------------------------------------------------------------
LEMMA PaymentInvInit == Init => PaymentInv
  <1> SUFFICES ASSUME Init PROVE PaymentInv
    OBVIOUS
  <1>1. \A e \in Excesses : mined[e] <= tip
    BY DEF Init, TransferInit, NoHeight
  <1>2. \A w \in Workers : Evidence(task[w])
    BY DEF Init, StateInit, Idle, Evidence, ClaimPC, FoundPC, GatedPC
  <1>3. \A r \in transfers : RowPaid(r)
    BY DEF Init, TransferInit
  <1> QED
    BY <1>1, <1>2, <1>3, InitTypeOK DEF PaymentInv

LEMMA PaymentInvNext ==
  ASSUME PaymentInv, [Next]_vars
  PROVE  PaymentInv'
  <1>t. TypeOK /\ TypeOK'
    BY NextTypeOK DEF PaymentInv
  <1>n. /\ tip \in Int /\ tip' \in Int /\ MinConf \in Int
        /\ \A e \in Excesses : mined[e] \in Int
    BY <1>t, BoundsAssumption DEF TypeOK, Heights, NoHeight
  <1>1. \A e \in Excesses : mined'[e] <= tip'
    BY <1>t, <1>n, ChainGrows DEF PaymentInv
  <1>2. ASSUME NEW v \in Workers
        PROVE  Evidence(task[v])'
    <2>1. task'[v] \in Tasks /\ task[v] \in Tasks
      BY <1>t DEF TypeOK, Tasks
    <2>2. PICK u : u = task'[v]
      OBVIOUS
    <2>3. Evidence(u)
      <3>1. CASE u = task[v] \/ ClaimMove(task[v], u)
        BY <1>t, <3>1, MoveKeepsEvidence DEF PaymentInv
      <3>2. CASE u.pc \notin ClaimPC
        BY <3>2 DEF Evidence, ClaimPC, FoundPC, GatedPC
      <3>3. CASE Admission(u)
        BY <3>3, AdmittedEvidence
      <3> QED
        BY <1>t, <2>2, <3>1, <3>2, <3>3, TaskStep DEF Change
    <2>4. Evidence(u)'
      BY <1>t, <2>1, <2>2, <2>3, EvidenceKept
    <2> QED
      BY <2>2, <2>4 DEF Evidence
  <1>3. ASSUME NEW r, r.excess \in Excesses, RowPaid(r)
        PROVE  RowPaid(r)'
    <2>1. /\ mined[r.excess] # NoHeight
          /\ tip - mined[r.excess] + 1 >= MinConf
      BY <1>3 DEF RowPaid, Deep, OnChain
    <2>2. mined'[r.excess] = mined[r.excess] /\ tip' >= tip
      BY <2>1, <1>3, <1>t, ChainGrows
    <2>3. Deep(r.excess)'
      BY <2>1, <2>2, <1>3, <1>n DEF Deep, OnChain
    <2> QED
      BY <2>3, <1>3 DEF RowPaid, ProofMatches
  <1>4. ASSUME NEW r \in transfers'
        PROVE  RowPaid(r)'
    <2>1. r.excess \in Excesses
      BY <1>t DEF TypeOK, TransferRow
    <2>2. CASE r \in transfers
      BY <2>1, <2>2, <1>3 DEF PaymentInv
    <2>3. ASSUME NEW w \in Workers, Sale(w), r \notin transfers
          PROVE  RowPaid(r)
      <3>1. /\ r.offer = task[w].offer /\ r.excess = task[w].proof.excess
            /\ task[w].proof \in Proofs /\ task[w].pc = "claim_txn"
        BY <2>3 DEF Sale, ClaimTask, TaskOf
      <3> QED
        BY <3>1 DEF PaymentInv, Evidence, ClaimPC, GatedPC, RowPaid
    <2> QED
      BY <1>t, <2>1, <2>2, <2>3, <1>3, BookStep
  <1>5. \A r \in transfers' : RowPaid(r)'
    BY <1>4
  <1> QED
    BY <1>t, <1>1, <1>2, <1>5 DEF PaymentInv

THEOREM PaymentInvariant == Spec => []PaymentInv
  BY PaymentInvInit, PaymentInvNext, PTL DEF Spec

LEMMA ExactPrice ==
  ASSUME NEW price \in 0 .. 2 * MaxI64 + 1, AsI64(price) >= 0
  PROVE  AsI64(price) = price
  BY BoundsAssumption DEF AsI64

(* Every transfer ever recorded was paid to the full, to the right address,  *)
(* by a signed proof whose kernel is on chain and MinConf deep.              *)
THEOREM Paid == Spec => []TransfersPaid
  <1>1. PaymentInv => TransfersPaid
    <2> SUFFICES ASSUME PaymentInv, NEW r \in transfers
                 PROVE  /\ \E f \in Proofs : /\ f.excess = r.excess /\ f.signed
                                             /\ f.address = r.offer.address
                                             /\ f.amount = r.offer.price
                        /\ mined[r.excess] # NoHeight
                        /\ tip - mined[r.excess] + 1 >= MinConf
      BY DEF TransfersPaid
    <2>1. r.offer.price \in 0 .. 2 * MaxI64 + 1
      BY OffersAssumption DEF PaymentInv, TypeOK, TransferRow
    <2>2. RowPaid(r)
      BY DEF PaymentInv
    <2> QED
      BY <2>1, <2>2, ExactPrice DEF RowPaid, ProofMatches, Deep, OnChain
  <1> QED
    BY <1>1, PaymentInvariant, PTL

(* The recorded price is the agreed one, whatever the width of the column.   *)
THEOREM PriceExact == Spec => []RecordedPriceExact
  <1>1. PaymentInv => RecordedPriceExact
    <2> SUFFICES ASSUME PaymentInv, NEW r \in transfers
                 PROVE  AsI64(r.offer.price) = r.offer.price
      BY DEF RecordedPriceExact
    <2>1. r.offer.price \in 0 .. 2 * MaxI64 + 1
      BY OffersAssumption DEF PaymentInv, TypeOK, TransferRow
    <2> QED
      BY <2>1, ExactPrice DEF PaymentInv, RowPaid, ProofMatches
  <1> QED
    BY <1>1, PaymentInvariant, PTL

(* A late claim past the gates met the death height the table still holds.   *)
THEOREM LateClaims == Spec => []LateClaimsSettled
  <1>1. PaymentInv => LateClaimsSettled
    BY DEF PaymentInv, LateClaimsSettled, Evidence, GatedPC, ClaimPC
  <1> QED
    BY <1>1, PaymentInvariant, PTL

=============================================================================
