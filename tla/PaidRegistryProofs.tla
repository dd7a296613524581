-------------------------- MODULE PaidRegistryProofs --------------------------
(***************************************************************************)
(* The registry behind the paywall: its tables are typed, a paid grant     *)
(* holds a settled invoice, and in paid-name mode nobody gets a free name  *)
(* without one. The invariant of the paid layer is that of                 *)
(* PaidGrantsProofs; the steps of the registry keep it.                    *)
(***************************************************************************)
EXTENDS PaidRegistry, PaidGrantsProofs

RegistryTyped ==
  /\ owner \in [Names -> Pubkeys \cup {None}]
  /\ cooldown \in SUBSET Pubkeys

Inv == RegistryTyped /\ PayInv

\* A step of a request that stays in the registry, or is answered.
LEMMA RegistryMoves ==
  ASSUME PayInv, UNCHANGED payVars, NEW w \in Workers,
         task[w].pc \in RegistryPC, NEW pc \in RegistryPC,
         pc = "reg_insert" => PayMode # "name",
         Goto(w, pc) \/ Return(w)
  PROVE  PayInv'
<1> DEFINE t == [task[w] EXCEPT !.pc = pc]
<1>1. UNCHANGED <<bill, grant, polled, quoted>>
  BY DEF payVars
<1>2. CASE Goto(w, pc)
  <2>1. task[w] \in RegistryTask
    BY TaskKinds DEF PayInv, TasksBilled
  <2>2. t \in RegistryTask
    BY <2>1 DEF RegistryTask
  <2>3. TaskBilled(bill', t)
    BY <2>2 DEF TaskBilled, RegistryTask, RegistryPC, PayPC
  <2>4. task' = [task EXCEPT ![w] = t]
    BY <1>2 DEF Goto
  <2> HIDE DEF t
  <2> QED
    BY <1>1, <2>2, <2>3, <2>4, SameBills, TaskMoves, TablesStay
       DEF Tasks, PayInv, TablesTyped
<1>3. CASE Return(w)
  BY <1>1, <1>3, SameBills, ReturnBilled, TablesStay DEF PayInv, TablesTyped
<1> QED
  BY <1>2, <1>3

LEMMA RegistryStarts ==
  ASSUME PayInv, UNCHANGED payVars, NEW w \in Workers, RegistryStart(w)
  PROVE  PayInv'
<1> PICK p \in Pubkeys, n \in Names :
      StartRegister(w, p, n) \/ StartUnregister(w, p, n)
  BY DEF RegistryStart
<1>1. ASSUME NEW pc \in {"reg_lookup", "unreg_lookup"},
             Begin(w, [pc |-> pc, pubkey |-> p, name |-> n])
      PROVE  PayInv'
  <2> DEFINE t == [pc |-> pc, pubkey |-> p, name |-> n]
  <2>1. t \in Tasks /\ TaskBilled(bill, t)
    BY DEF Tasks, RegistryTask, RegistryPC, TaskBilled, PayPC
  <2> QED
    BY <1>1, <2>1, BeginKeeps
<1> QED
  BY <1>1 DEF StartRegister, StartUnregister

\* In paid-name mode no step of the registry itself reaches the insert.
LEMMA RegistryKeeps ==
  ASSUME PayInv, UNCHANGED payVars, RegistryNext
  PROVE  PayInv'
<1> PICK w \in Workers :
      RegistryStep(w) \/ RegistryError(w) \/ RegistryStart(w)
  BY DEF RegistryNext
<1>1. AfterNameOf \in RegistryPC /\ (AfterNameOf = "reg_insert" => PayMode # "name")
  BY DEF AfterNameOf, RegistryPC
<1>2. CASE RegisterLookup(w)
  BY <1>2, RegistryMoves DEF RegisterLookup, Check, RegistryPC
<1>3. CASE RegisterNameOf(w)
  BY <1>1, <1>3, RegistryMoves DEF RegisterNameOf, Check, RegistryPC
<1>4. CASE RegisterInsert(w)
  BY <1>4, RegistryMoves DEF RegisterInsert, Check, RegistryPC
<1>5. CASE UnregisterLookup(w)
  BY <1>5, RegistryMoves DEF UnregisterLookup, Check, RegistryPC
<1>6. CASE UnregisterRelease(w)
  BY <1>6, RegistryMoves DEF UnregisterRelease, RegistryPC
<1>7. CASE UnregisterArm(w)
  BY <1>7, RegistryMoves DEF UnregisterArm, RegistryPC
<1>8. CASE RegistryWriteError(w)
  BY <1>8, RegistryMoves DEF RegistryWriteError, RegistryPC
<1>9. CASE RegistryReadError(w)
  BY <1>1, <1>9, RegistryMoves DEF RegistryReadError, RegistryPC
<1> QED
  BY <1>2, <1>3, <1>4, <1>5, <1>6, <1>7, <1>8, <1>9, RegistryStarts
     DEF RegistryStep, RegistryError

LEMMA AskPaidKeeps ==
  ASSUME PayInv, NEW w \in Workers, AskPaid(w)
  PROVE  PayInv'
<1> DEFINE t == EnsurePaid("register", task[w].pubkey, task[w].name)
<1>1. task[w] \in RegistryTask
  BY TaskKinds DEF AskPaid, PayInv, TasksBilled, RegistryPC
<1>2. t \in Tasks /\ TaskBilled(bill, t)
  BY <1>1, AskingBilled DEF RegistryTask
<1>3. UNCHANGED <<bill, grant, polled, quoted>>
  BY DEF AskPaid, payVars
<1>4. task' = [task EXCEPT ![w] = t]
  BY DEF AskPaid
<1> HIDE DEF t
<1> QED
  BY <1>2, <1>3, <1>4, SameBills, TaskMoves, TablesStay DEF PayInv, TablesTyped

LEMMA ConsumeGrantKeeps ==
  ASSUME PayInv, NEW w \in Workers, ConsumeGrant(w)
  PROVE  PayInv'
<1> DEFINE p == task[w].pubkey
<1>1. bill' = bill /\ polled' = polled /\ quoted' = quoted
  BY DEF ConsumeGrant
<1>2. TasksBilled'
  BY <1>1, SameBills, ReturnBilled DEF ConsumeGrant
<1>3. grant' \in Grants /\ GrantsBilled(bill, grant')
  <2>1. CASE UNCHANGED grant
    BY <2>1 DEF PayInv, TablesTyped
  <2>2. CASE DeleteGrant(p)
    <3>1. \A q \in Pubkeys : grant'[q] = IF q = p THEN NoGrant ELSE grant[q]
      BY <2>2 DEF DeleteGrant, PayInv, TablesTyped, Grants
    <3>2. grant' \in Grants
      BY <2>2 DEF DeleteGrant, PayInv, TablesTyped, Grants
    <3> QED
      BY <3>1, <3>2 DEF PayInv, GrantsBilled
  <2> QED
    BY <2>1, <2>2 DEF ConsumeGrant
<1> QED
  BY <1>1, <1>2, <1>3 DEF PayInv, TablesTyped

-----------------------------------------------------------------------------
(* Names and cooldowns *)

\* Who changes them: an insert, a release and the arming of a cooldown.
LEMMA RegistryWrites ==
  ASSUME Inv, Next
  PROVE  \/ \E w \in Workers : RegisterInsert(w) \/ UnregisterRelease(w)
         \/ \E w \in Workers : UnregisterArm(w)
         \/ owner' = owner /\ cooldown' \subseteq cooldown
  BY DEF Next, RegistryNext, RegistryStart, RegistryStep, RegistryError,
         StartRegister, StartUnregister, RegisterLookup, RegisterNameOf,
         UnregisterLookup, RegistryWriteError, RegistryReadError,
         AskPaid, ConsumeGrant, Elapse, CooldownElapses, Crash, Restart,
         PayNext, PayStart, PayStep, EnsurePaidStep, PayEnvironment, HangUp,
         PayGrant, PayThrottle, PayRecord, PayPoll, PayMark, PayCreate, PayPut,
         StartQuote, StartWebhook, HookPoll, HookMark,
         Settle, Expire, PollIntervalElapses, payRest

LEMMA RegistryStaysTyped ==
  ASSUME Inv, Next
  PROVE  RegistryTyped'
<1>1. ASSUME NEW w \in Workers, task[w].pc \in RegistryPC
      PROVE  task[w].pubkey \in Pubkeys /\ task[w].name \in Names
  BY <1>1, TaskKinds DEF Inv, PayInv, TasksBilled, RegistryTask
<1>2. ASSUME NEW w \in Workers, RegisterInsert(w)
      PROVE  RegistryTyped'
  BY <1>1, <1>2 DEF RegisterInsert, InsertName, Inv, RegistryTyped, RegistryPC
<1>3. ASSUME NEW w \in Workers, UnregisterRelease(w)
      PROVE  RegistryTyped'
  BY <1>1, <1>3
     DEF UnregisterRelease, ReleaseName, Inv, RegistryTyped, RegistryPC
<1>4. ASSUME NEW w \in Workers, UnregisterArm(w)
      PROVE  RegistryTyped'
  BY <1>1, <1>4
     DEF UnregisterArm, ArmCooldown, Inv, RegistryTyped, RegistryPC
<1> QED
  BY <1>2, <1>3, <1>4, RegistryWrites DEF Inv, RegistryTyped

-----------------------------------------------------------------------------
(* The invariant *)

LEMMA InvInit == Init => Inv
  BY PayInitHolds DEF Init, StateInit, Inv, RegistryTyped

LEMMA InvNext == Inv /\ [Next]_vars => Inv'
<1> SUFFICES ASSUME Inv, [Next]_vars PROVE Inv'
  OBVIOUS
<1>1. CASE Next
  <2> SUFFICES PayInv'
    BY <1>1, RegistryStaysTyped DEF Inv
  <2>1. CASE RegistryNext /\ UNCHANGED payVars
    BY <2>1, RegistryKeeps DEF Inv
  <2>2. ASSUME NEW w \in Workers, AskPaid(w) \/ ConsumeGrant(w)
        PROVE  PayInv'
    BY <2>2, AskPaidKeeps, ConsumeGrantKeeps DEF Inv
  <2>3. CASE PayNext
    BY <2>3, PayStartKeeps, PayStepKeeps, HangUpKeeps, PayEnvironmentKeeps
       DEF PayNext, Inv
  <2>4. ASSUME NEW p \in Pubkeys, Elapse(p)
        PROVE  PayInv'
    <3>1. UNCHANGED <<task, bill, grant, polled, quoted>>
      BY <2>4 DEF Elapse, CooldownElapses, payVars
    <3> QED
      BY <3>1, SameBills, TasksStay, TablesStay DEF Inv, PayInv, TablesTyped
  <2>5. CASE Crash
    BY <2>5, RestartKeeps DEF Crash, Inv
  <2> QED
    BY <1>1, <2>1, <2>2, <2>3, <2>4, <2>5 DEF Next
<1>2. CASE UNCHANGED vars
  BY <1>2
     DEF vars, payVars, Inv, RegistryTyped, PayInv, TablesTyped, TasksBilled,
         GrantsBilled, TaskBilled, SettledIn
<1> QED
  BY <1>1, <1>2

\* The strengthening of PaidGrantSettled holds throughout.
LEMMA AlwaysInv == Spec => []Inv
  BY InvInit, InvNext, PTL DEF Spec

(* Every table and every request in flight keeps its type, whatever the mode *)
(* of payment, the faults of the database and the order of the requests.     *)
THEOREM PaidRegistryTyped == Spec => []TypeOK
<1>1. Inv => TypeOK
  BY DEF Inv, RegistryTyped, PayInv, TablesTyped, TasksBilled, TypeOK,
         Tasks, Bills, Grants
<1> QED
  BY <1>1, AlwaysInv, PTL

(* A paid grant holds an invoice that was made out to its key and has        *)
(* settled, whatever polls, deliveries and fresh invoices cross each other.  *)
THEOREM PaidGrantsSettle == Spec => []PaidGrantSettled
<1>1. Inv => PaidGrantSettled
  <2> SUFFICES ASSUME Inv, NEW p \in Pubkeys, grant[p].status = "paid"
               PROVE  bill[grant[p].invoice] = [key |-> p, status |-> "paid"]
    BY DEF PaidGrantSettled
  <2> DEFINE i == grant[p].invoice
  <2>1. grant[p] # NoGrant /\ i \in Invoices
    BY DEF Inv, PayInv, TablesTyped, Grants, GrantRow, NoGrant
  <2>2. bill[i].key = p /\ bill[i].status = "paid"
    BY <2>1 DEF Inv, PayInv, GrantsBilled
  <2>3. bill[i] \in BillRow
    BY <2>1, <2>2 DEF Inv, PayInv, TablesTyped, Bills, NoBill
  <2> QED
    BY <2>2, <2>3 DEF BillRow
<1> QED
  BY <1>1, AlwaysInv, PTL

(* In paid-name mode a free name is taken only by a key that has settled an  *)
(* invoice: ensure_paid lets nobody else through to the insert, and no other *)
(* statement gives a free name an owner.                                     *)
THEOREM ClaimsArePaidFor == Spec => NamesArePaidFor
<1> DEFINE Claimed ==
      \A n \in Names :
        PayMode = "name" /\ owner[n] = None /\ owner'[n] # None =>
          \E i \in Invoices : bill[i] = [key |-> owner'[n], status |-> "paid"]
<1>1. Inv /\ [Next]_vars => Claimed
  <2> SUFFICES ASSUME Inv, [Next]_vars, NEW n \in Names,
                      PayMode = "name", owner[n] = None, owner'[n] # None
               PROVE  SettledIn(bill, owner'[n])
    BY DEF SettledIn
  <2>1. Next
    BY DEF vars
  <2>2. PICK w \in Workers :
          RegisterInsert(w) \/ UnregisterRelease(w) \/ UnregisterArm(w)
    BY <2>1, RegistryWrites
  <2>3. RegisterInsert(w)
    BY <2>2
       DEF UnregisterRelease, ReleaseName, UnregisterArm, Inv, RegistryTyped
  <2>4. owner'[n] = task[w].pubkey
    BY <2>3 DEF RegisterInsert, InsertName, Inv, RegistryTyped
  <2>5. SettledIn(bill, task[w].pubkey)
    BY <2>3 DEF RegisterInsert, Inv, PayInv, TasksBilled, TaskBilled
  <2> QED
    BY <2>4, <2>5
<1>2. Inv /\ [Next]_vars => [Claimed]_vars
  BY <1>1
<1> QED
  BY <1>2, AlwaysInv, PTL DEF Spec, NamesArePaidFor

=============================================================================
