--------------------------- MODULE PaidGrantsProofs ---------------------------
(***************************************************************************)
(* What every step of the paid layer keeps, whichever other requests run   *)
(* beside it. PaidRegistryProofs and PaidAccessProofs rest on it.          *)
(*                                                                         *)
(* That a paid grant has a settled invoice is not inductive: a request     *)
(* about to mark a grant must have seen its invoice paid, and the invoice  *)
(* must be one made out to the grant's key. PayInv says both, of the table *)
(* and of the requests in flight.                                          *)
(***************************************************************************)
EXTENDS Registry, PaidGrants, TLAPS

Tasks  == {Idle} \cup RegistryTask \cup PayTask \cup HookTask
Bills  == [Invoices -> {NoBill} \cup BillRow]
Grants == [Pubkeys -> {NoGrant} \cup GrantRow]

\* p has settled an invoice made out to it.
SettledIn(b, p) == \E i \in Invoices : b[i] = [key |-> p, status |-> "paid"]

\* From bills b to c an invoice keeps its key, and stays paid once it is.
Kept(b, c) ==
  \A i \in Invoices : b[i] # NoBill =>
    /\ c[i].key = b[i].key
    /\ b[i].status = "paid" => c[i].status = "paid"

\* Grants hold invoices made out to their key, paid ones if they are paid.
GrantsBilled(b, g) ==
  \A p \in Pubkeys : g[p] # NoGrant =>
    /\ b[g[p].invoice].key = p
    /\ g[p].status = "paid" => b[g[p].invoice].status = "paid"

\* What a request in flight knows of the bills.
TaskBilled(b, t) ==
  /\ t.pc \in PayPC /\ t.caller = "register" => t.name \in Names
  /\ t.pc \in PayPC /\ t.pc \notin {"pay_grant", "pay_create"} =>
       t.invoice \in Invoices /\ b[t.invoice].key = t.pubkey
  /\ t.pc \in {"pay_mark", "hook_mark"} => b[t.invoice].status = "paid"
  /\ t.pc = "reg_insert" /\ PayMode = "name" => SettledIn(b, t.pubkey)

TablesTyped ==
  /\ bill \in Bills /\ grant \in Grants
  /\ polled \in SUBSET Pubkeys /\ quoted \in SUBSET Invoices

TasksBilled ==
  /\ task \in [Workers -> Tasks]
  /\ \A w \in Workers : TaskBilled(bill, task[w])

PayInv == TablesTyped /\ TasksBilled /\ GrantsBilled(bill, grant)

-----------------------------------------------------------------------------
(* Bills *)

\* NoBill and NoGrant are no rows of their tables.
LEMMA RowsAreRows ==
  /\ NoBill \notin BillRow /\ NoGrant \notin GrantRow
  /\ \A i \in Invoices : i # None
  BY NoneAssumption, InvoicesAssumption DEF NoBill, BillRow, NoGrant, GrantRow

\* The kinds of tasks are told apart by their program counter.
LEMMA TaskKinds ==
  ASSUME NEW t \in Tasks
  PROVE  /\ t.pc \in PayPC => t \in PayTask
         /\ t.pc \in {"hook_poll", "hook_mark"} => t \in HookTask
         /\ t.pc \in RegistryPC => t \in RegistryTask
  BY DEF Tasks, Idle, RegistryTask, RegistryPC, PayTask, PayPC, HookTask

LEMMA TaskBilledKept ==
  ASSUME NEW b \in Bills, NEW c \in Bills, Kept(b, c),
         NEW t \in Tasks, TaskBilled(b, t)
  PROVE  TaskBilled(c, t)
<1>1. /\ t.pc \in PayPC => t \in PayTask
      /\ t.pc \in {"hook_poll", "hook_mark"} => t \in HookTask
  BY TaskKinds
<1>2. ASSUME NEW p \in Pubkeys, SettledIn(b, p) PROVE SettledIn(c, p)
  <2>1. PICK i \in Invoices : b[i] = [key |-> p, status |-> "paid"]
    BY <1>2 DEF SettledIn
  <2>2. b[i] # NoBill
    BY <2>1 DEF NoBill
  <2>3. c[i].key = p /\ c[i].status = "paid"
    BY <2>1, <2>2 DEF Kept
  <2>4. c[i] \in BillRow
    BY <2>3 DEF Bills, NoBill
  <2>5. c[i] = [key |-> p, status |-> "paid"]
    BY <2>3, <2>4 DEF BillRow
  <2> QED
    BY <2>5 DEF SettledIn
<1>3. t.pc = "reg_insert" => t.pubkey \in Pubkeys
  BY TaskKinds DEF RegistryPC, RegistryTask
<1>4. ASSUME NEW i \in Invoices, NEW p \in Pubkeys, b[i].key = p
      PROVE  c[i].key = p /\ (b[i].status = "paid" => c[i].status = "paid")
  BY <1>4, NoneAssumption DEF Kept, NoBill
<1>5. ASSUME NEW i \in Invoices, b[i].status = "paid" PROVE c[i].status = "paid"
  BY <1>5 DEF Kept, NoBill
<1>6. ASSUME t.pc \in PayPC, t.pc \notin {"pay_grant", "pay_create"}
      PROVE  t.invoice \in Invoices /\ c[t.invoice].key = t.pubkey
  <2>1. t.pubkey \in Pubkeys /\ t.invoice \in Invoices
    BY <1>1, <1>6 DEF PayTask, TaskBilled
  <2> QED
    BY <2>1, <1>4, <1>6 DEF TaskBilled
<1>7. ASSUME t.pc \in {"pay_mark", "hook_mark"}
      PROVE  c[t.invoice].status = "paid"
  <2>1. t.invoice \in Invoices
    BY <1>1, <1>7 DEF HookTask, TaskBilled, PayPC
  <2> QED
    BY <2>1, <1>5, <1>7 DEF TaskBilled
<1> QED
  BY <1>2, <1>3, <1>6, <1>7 DEF TaskBilled

LEMMA GrantsBilledKept ==
  ASSUME NEW b \in Bills, NEW c \in Bills, Kept(b, c),
         NEW g \in Grants, GrantsBilled(b, g)
  PROVE  GrantsBilled(c, g)
<1> SUFFICES ASSUME NEW p \in Pubkeys, g[p] # NoGrant
             PROVE  /\ c[g[p].invoice].key = p
                    /\ g[p].status = "paid" => c[g[p].invoice].status = "paid"
  BY DEF GrantsBilled
<1>1. g[p].invoice \in Invoices
  BY DEF Grants, GrantRow
<1>2. /\ b[g[p].invoice].key = p
      /\ g[p].status = "paid" => b[g[p].invoice].status = "paid"
  BY DEF GrantsBilled
<1> QED
  BY <1>1, <1>2, NoneAssumption DEF Kept, NoBill

LEMMA KeptSame == ASSUME NEW b PROVE Kept(b, b)
  BY DEF Kept

\* A worker moves on to task t, which knows what it must of the bills.
LEMMA TaskMoves ==
  ASSUME PayInv, bill' \in Bills, Kept(bill, bill'),
         NEW w \in Workers, NEW t \in Tasks, TaskBilled(bill', t),
         task' = [task EXCEPT ![w] = t]
  PROVE  TasksBilled'
<1>1. \A v \in Workers : TaskBilled(bill', task[v])
  BY TaskBilledKept DEF PayInv, TablesTyped, TasksBilled
<1>2. \A v \in Workers : task'[v] = IF v = w THEN t ELSE task[v]
  BY DEF PayInv, TasksBilled
<1> QED
  BY <1>1, <1>2 DEF PayInv, TasksBilled

LEMMA TasksStay ==
  ASSUME PayInv, bill' \in Bills, Kept(bill, bill'), UNCHANGED task
  PROVE  TasksBilled'
  BY TaskBilledKept DEF PayInv, TablesTyped, TasksBilled

\* A finished request knows nothing.
LEMMA IdleBilled == ASSUME NEW b PROVE Idle \in Tasks /\ TaskBilled(b, Idle)
  BY DEF Idle, Tasks, TaskBilled, PayPC

LEMMA ReturnBilled ==
  ASSUME PayInv, bill' \in Bills, Kept(bill, bill'), NEW w \in Workers, Return(w)
  PROVE  TasksBilled'
  BY IdleBilled, TaskMoves DEF Return

-----------------------------------------------------------------------------
(* Moves of a task inside the paid layer *)

LEMMA PayTaskAt ==
  ASSUME PayInv, NEW w \in Workers
  PROVE  /\ task[w].pc \in PayPC => task[w] \in PayTask
         /\ task[w].pc \in {"hook_poll", "hook_mark"} => task[w] \in HookTask
         /\ TaskBilled(bill, task[w])
  BY TaskKinds DEF PayInv, TasksBilled

\* An invoice made out to p that has settled.
LEMMA SettledBill ==
  ASSUME TablesTyped, NEW i \in Invoices, NEW p \in Pubkeys,
         bill[i].key = p, bill[i].status = "paid"
  PROVE  SettledIn(bill, p)
<1>1. bill[i] \in BillRow
  BY DEF TablesTyped, Bills, NoBill
<1>2. bill[i] = [key |-> p, status |-> "paid"]
  BY <1>1 DEF BillRow
<1> QED
  BY <1>2 DEF SettledIn

LEMMA PaidMoves ==
  ASSUME PayInv, bill' = bill, NEW w \in Workers, task[w].pc \in PayPC,
         SettledIn(bill, task[w].pubkey), Paid(w)
  PROVE  TasksBilled'
<1>1. bill' \in Bills /\ Kept(bill, bill')
  BY KeptSame DEF PayInv, TablesTyped
<1>2. CASE task[w].caller = "register"
  <2> DEFINE t == [pc |-> "reg_insert", pubkey |-> task[w].pubkey,
                   name |-> task[w].name]
  <2>1. task[w].pubkey \in Pubkeys /\ task[w].name \in Names
    BY <1>2, PayTaskAt DEF PayTask, TaskBilled
  <2>2. t \in Tasks
    BY <2>1 DEF Tasks, RegistryTask, RegistryPC
  <2>3. TaskBilled(bill', t)
    BY DEF TaskBilled, PayPC
  <2>4. task' = [task EXCEPT ![w] = t]
    BY <1>2 DEF Paid
  <2> QED
    BY <1>1, <2>2, <2>3, <2>4, TaskMoves
<1>3. CASE task[w].caller # "register"
  BY <1>1, <1>3, ReturnBilled DEF Paid
<1> QED
  BY <1>2, <1>3

LEMMA GotoMoves ==
  ASSUME PayInv, bill' = bill, NEW w \in Workers, task[w].pc \in PayPC,
         NEW pc \in PayPC \ {"pay_grant"}, Goto(w, pc),
         pc # "pay_create" =>
           task[w].invoice \in Invoices /\ bill[task[w].invoice].key = task[w].pubkey,
         pc = "pay_mark" => bill[task[w].invoice].status = "paid"
  PROVE  TasksBilled'
<1> DEFINE t == [task[w] EXCEPT !.pc = pc]
<1>1. bill' \in Bills /\ Kept(bill, bill')
  BY KeptSame DEF PayInv, TablesTyped
<1>2. task[w] \in PayTask /\ TaskBilled(bill, task[w])
  BY PayTaskAt
<1>3. t \in PayTask
  BY <1>2 DEF PayTask
<1>4. TaskBilled(bill', t)
  BY <1>2 DEF TaskBilled, PayTask, PayPC
<1>5. task' = [task EXCEPT ![w] = t]
  BY DEF Goto
<1> HIDE DEF t
<1> QED
  BY <1>1, <1>3, <1>4, <1>5, TaskMoves DEF Tasks

LEMMA SetInvoiceMoves ==
  ASSUME PayInv, bill' \in Bills, Kept(bill, bill'),
         NEW w \in Workers, task[w].pc \in PayPC,
         NEW pc \in {"pay_throttle", "pay_put"}, NEW i \in Invoices,
         SetInvoice(w, pc, i), bill'[i].key = task[w].pubkey
  PROVE  TasksBilled'
<1> DEFINE t == [task[w] EXCEPT !.pc = pc, !.invoice = i]
<1>1. task[w] \in PayTask /\ TaskBilled(bill, task[w])
  BY PayTaskAt
<1>2. t \in PayTask
  BY <1>1 DEF PayTask, PayPC
<1>3. TaskBilled(bill', t)
  BY <1>1 DEF TaskBilled, PayTask, PayPC
<1>4. task' = [task EXCEPT ![w] = t]
  BY DEF SetInvoice
<1> HIDE DEF t
<1> QED
  BY <1>2, <1>3, <1>4, TaskMoves DEF Tasks

\* A request that has just asked ensure_paid knows no invoice yet.
LEMMA AskingBilled ==
  ASSUME NEW caller \in {"register", "quote", "status", "lookup"},
         NEW p \in Pubkeys, NEW n \in Names \cup {None}, NEW b,
         caller = "register" => n \in Names
  PROVE  /\ EnsurePaid(caller, p, n) \in Tasks
         /\ TaskBilled(b, EnsurePaid(caller, p, n))
  BY DEF EnsurePaid, Tasks, PayTask, PayPC, TaskBilled

\* A grant of p marked or replaced.
LEMMA MarkedBilled ==
  ASSUME PayInv, NEW i \in Invoices, bill[i].status = "paid",
         MarkGrantPaid(i)
  PROVE  grant' \in Grants /\ GrantsBilled(bill, grant')
<1>1. ASSUME NEW p \in Pubkeys
      PROVE  /\ grant'[p] \in {NoGrant} \cup GrantRow
             /\ grant'[p] # NoGrant =>
                  /\ bill[grant'[p].invoice].key = p
                  /\ grant'[p].status = "paid" =>
                       bill[grant'[p].invoice].status = "paid"
  <2>1. grant[p] \in {NoGrant} \cup GrantRow
    BY DEF PayInv, TablesTyped, Grants
  <2>2. CASE grant[p].invoice = i
    <3>1. grant[p] \in GrantRow /\ grant[p] # NoGrant
      BY <2>1, <2>2, RowsAreRows DEF NoGrant
    <3>2. grant'[p] = [grant[p] EXCEPT !.status = "paid"]
      BY <2>2 DEF MarkGrantPaid
    <3>3. grant'[p] \in GrantRow /\ grant'[p].invoice = i
      BY <3>1, <3>2, <2>2 DEF GrantRow
    <3>4. bill[i].key = p
      BY <3>1, <2>2 DEF PayInv, GrantsBilled
    <3> QED
      BY <3>3, <3>4
  <2>3. CASE grant[p].invoice # i
    <3>1. grant'[p] = grant[p]
      BY <2>3 DEF MarkGrantPaid
    <3> QED
      BY <2>1, <3>1 DEF PayInv, GrantsBilled
  <2> QED
    BY <2>2, <2>3
<1>2. grant' = [p \in Pubkeys |-> grant'[p]]
  BY DEF MarkGrantPaid
<1> QED
  BY <1>1, <1>2 DEF Grants, GrantsBilled

-----------------------------------------------------------------------------
(* The steps of ensure_paid *)

\* A step that leaves the tables alone but for what clients were sent.
LEMMA TablesStay ==
  ASSUME PayInv, UNCHANGED <<bill, grant>>,
         polled' \in SUBSET Pubkeys, quoted' \in SUBSET Invoices
  PROVE  TablesTyped' /\ GrantsBilled(bill, grant)'
  BY DEF PayInv, TablesTyped, GrantsBilled

LEMMA SameBills ==
  ASSUME PayInv, bill' = bill
  PROVE  bill' \in Bills /\ Kept(bill, bill')
  BY KeptSame DEF PayInv, TablesTyped

LEMMA DueMoves ==
  ASSUME PayInv, bill' \in Bills, Kept(bill, bill'),
         NEW w \in Workers, NEW i \in Invoices, Due402(w, i)
  PROVE  TasksBilled' /\ quoted' \in SUBSET Invoices
<1>1. TasksBilled'
  BY ReturnBilled DEF Due402
<1>2. quoted' \in SUBSET Invoices
  BY DEF Due402, PayInv, TablesTyped
<1> QED
  BY <1>1, <1>2

LEMMA PayGrantKeeps ==
  ASSUME PayInv, NEW w \in Workers, PayGrant(w)
  PROVE  PayInv'
<1> DEFINE p == task[w].pubkey
           g == grant[p]
<1>1. task[w].pc \in PayPC /\ p \in Pubkeys
  BY PayTaskAt DEF PayGrant, PayPC, PayTask
<1>2. /\ bill' = bill /\ grant' = grant /\ polled' = polled
      /\ quoted' = quoted
  BY DEF PayGrant, payVars
<1>3. TablesTyped' /\ GrantsBilled(bill, grant)'
  BY <1>2, TablesStay DEF PayInv, TablesTyped
<1>4. g.status # "none" =>
        /\ g.invoice \in Invoices /\ bill[g.invoice].key = p
        /\ g.status = "paid" => bill[g.invoice].status = "paid"
  BY <1>1 DEF PayInv, TablesTyped, Grants, GrantRow, GrantsBilled, NoGrant
<1>5. CASE g.status = "paid" /\ Paid(w)
  <2>1. SettledIn(bill, p)
    BY <1>1, <1>4, <1>5, SettledBill DEF PayInv
  <2> QED
    BY <1>1, <1>2, <1>3, <1>5, <2>1, PaidMoves DEF PayInv
<1>6. CASE g.status = "pending" /\ SetInvoice(w, "pay_throttle", g.invoice)
  BY <1>1, <1>2, <1>3, <1>4, <1>6, SameBills, SetInvoiceMoves DEF PayInv
<1>7. CASE Goto(w, "pay_create")
  BY <1>1, <1>2, <1>3, <1>7, GotoMoves DEF PayInv, PayPC
<1> QED
  BY <1>5, <1>6, <1>7 DEF PayGrant

LEMMA PayThrottleKeeps ==
  ASSUME PayInv, NEW w \in Workers, PayThrottle(w)
  PROVE  PayInv'
<1>1. /\ task[w].pc \in PayPC /\ task[w].invoice \in Invoices
      /\ bill[task[w].invoice].key = task[w].pubkey
  BY PayTaskAt DEF PayThrottle, PayPC, TaskBilled
<1>2. bill' = bill /\ grant' = grant /\ polled' = polled
  BY DEF PayThrottle
<1>3. CASE Due402(w, task[w].invoice)
  BY <1>1, <1>2, <1>3, SameBills, DueMoves, TablesStay DEF PayInv, TablesTyped
<1>4. CASE Goto(w, "pay_record") /\ UNCHANGED quoted
  <2>1. TasksBilled'
    BY <1>1, <1>2, <1>4, GotoMoves DEF PayPC
  <2> QED
    BY <1>2, <1>4, <2>1, TablesStay DEF PayInv, TablesTyped
<1> QED
  BY <1>3, <1>4 DEF PayThrottle

LEMMA PayRecordKeeps ==
  ASSUME PayInv, NEW w \in Workers, PayRecord(w)
  PROVE  PayInv'
<1>1. /\ task[w].pc \in PayPC /\ task[w].invoice \in Invoices
      /\ bill[task[w].invoice].key = task[w].pubkey
      /\ task[w].pubkey \in Pubkeys
  BY PayTaskAt DEF PayRecord, PayPC, TaskBilled, PayTask
<1>2. /\ bill' = bill /\ grant' = grant /\ quoted' = quoted
      /\ polled' = polled \cup {task[w].pubkey}
  BY DEF PayRecord
<1>3. TasksBilled'
  BY <1>1, <1>2, GotoMoves DEF PayRecord, PayPC
<1> QED
  BY <1>1, <1>2, <1>3, TablesStay DEF PayInv, TablesTyped

LEMMA PayPollKeeps ==
  ASSUME PayInv, NEW w \in Workers, PayPoll(w)
  PROVE  PayInv'
<1> DEFINE i == task[w].invoice
<1>1. /\ task[w].pc \in PayPC /\ i \in Invoices
      /\ bill[i].key = task[w].pubkey
  BY PayTaskAt DEF PayPoll, PayPC, TaskBilled
<1>2. bill' = bill /\ grant' = grant /\ polled' = polled
  BY DEF PayPoll
<1>3. CASE bill[i].status = "paid" /\ Goto(w, "pay_mark") /\ UNCHANGED quoted
  <2>1. TasksBilled'
    BY <1>1, <1>2, <1>3, GotoMoves DEF PayPC
  <2> QED
    BY <1>2, <1>3, <2>1, TablesStay DEF PayInv, TablesTyped
<1>4. CASE Goto(w, "pay_create") /\ UNCHANGED quoted
  <2>1. TasksBilled'
    BY <1>1, <1>2, <1>4, GotoMoves DEF PayPC
  <2> QED
    BY <1>2, <1>4, <2>1, TablesStay DEF PayInv, TablesTyped
<1>5. CASE Due402(w, i)
  BY <1>1, <1>2, <1>5, SameBills, DueMoves, TablesStay DEF PayInv, TablesTyped
<1> QED
  BY <1>3, <1>4, <1>5 DEF PayPoll

LEMMA PayMarkKeeps ==
  ASSUME PayInv, NEW w \in Workers, PayMark(w)
  PROVE  PayInv'
<1> DEFINE i == task[w].invoice
<1>1. /\ task[w].pc \in PayPC /\ i \in Invoices /\ task[w].pubkey \in Pubkeys
      /\ bill[i].key = task[w].pubkey /\ bill[i].status = "paid"
  BY PayTaskAt DEF PayMark, PayPC, TaskBilled, PayTask
<1>2. bill' = bill /\ polled' = polled /\ quoted' = quoted
  BY DEF PayMark
<1>3. SettledIn(bill, task[w].pubkey)
  BY <1>1, SettledBill DEF PayInv
<1>4. TasksBilled'
  BY <1>1, <1>2, <1>3, PaidMoves DEF PayMark
<1>5. grant' \in Grants /\ GrantsBilled(bill, grant')
  BY <1>1, MarkedBilled DEF PayMark, PayInv, TablesTyped
<1> QED
  BY <1>2, <1>4, <1>5 DEF PayInv, TablesTyped

\* The invoice of a new grant did not exist before.
LEMMA PayCreateKeeps ==
  ASSUME PayInv, NEW w \in Workers, PayCreate(w)
  PROVE  PayInv'
<1>1. task[w].pc \in PayPC /\ task[w].pubkey \in Pubkeys
  BY PayTaskAt DEF PayCreate, PayPC, PayTask
<1>2. grant' = grant /\ polled' = polled
  BY DEF PayCreate
<1>3. CASE Unavailable(w) /\ bill' = bill
  <2>1. TasksBilled'
    BY <1>3, SameBills, ReturnBilled DEF Unavailable
  <2> QED
    BY <1>2, <1>3, <2>1, TablesStay DEF Unavailable, PayInv, TablesTyped
<1>4. ASSUME NEW i \in Invoices, bill[i] = NoBill,
             bill' = [bill EXCEPT ![i] = [key    |-> task[w].pubkey,
                                          status |-> "open"]],
             \/ SetInvoice(w, "pay_put", i) /\ UNCHANGED quoted
             \/ Unavailable(w)
      PROVE  PayInv'
  <2>1. bill' \in Bills /\ Kept(bill, bill')
    BY <1>1, <1>4 DEF PayInv, TablesTyped, Bills, BillRow, Kept
  <2>2. bill'[i].key = task[w].pubkey
    BY <1>4 DEF PayInv, TablesTyped, Bills
  <2>3. TasksBilled'
    BY <1>1, <1>4, <2>1, <2>2, SetInvoiceMoves, ReturnBilled DEF Unavailable
  <2>4. quoted' = quoted
    BY <1>4 DEF Unavailable
  <2>5. GrantsBilled(bill', grant)
    BY <2>1, GrantsBilledKept DEF PayInv, TablesTyped
  <2> QED
    BY <1>2, <2>1, <2>3, <2>4, <2>5 DEF PayInv, TablesTyped
<1> QED
  BY <1>3, <1>4 DEF PayCreate

LEMMA PayPutKeeps ==
  ASSUME PayInv, NEW w \in Workers, PayPut(w)
  PROVE  PayInv'
<1> DEFINE p == task[w].pubkey
           i == task[w].invoice
<1>1. p \in Pubkeys /\ i \in Invoices /\ bill[i].key = p
  BY PayTaskAt DEF PayPut, PayPC, PayTask, TaskBilled
<1>2. bill' = bill /\ polled' = polled
  BY DEF PayPut
<1>3. TasksBilled' /\ quoted' \in SUBSET Invoices
  BY <1>1, <1>2, SameBills, DueMoves DEF PayPut
<1>4. grant' \in Grants /\ GrantsBilled(bill, grant')
  <2>1. CASE UNCHANGED grant
    BY <2>1 DEF PayInv, TablesTyped
  <2>2. CASE PutPendingGrant(p, i)
    <3> DEFINE g == [invoice |-> i, status |-> "pending"]
    <3>1. g \in GrantRow
      BY <1>1 DEF GrantRow
    <3>2. grant' = [grant EXCEPT ![p] = g]
      BY <2>2 DEF PutPendingGrant
    <3>3. grant' \in Grants
      BY <3>1, <3>2 DEF PayInv, TablesTyped, Grants
    <3>4. \A q \in Pubkeys : grant'[q] = IF q = p THEN g ELSE grant[q]
      BY <3>2 DEF PayInv, TablesTyped, Grants
    <3> QED
      BY <1>1, <3>3, <3>4 DEF PayInv, GrantsBilled
  <2> QED
    BY <2>1, <2>2 DEF PayPut
<1> QED
  BY <1>2, <1>3, <1>4 DEF PayInv, TablesTyped

LEMMA HangUpKeeps ==
  ASSUME PayInv, NEW w \in Workers, HangUp(w)
  PROVE  PayInv'
<1> DEFINE t == [task[w] EXCEPT !.caller = "gone"]
<1>1. task[w] \in PayTask /\ TaskBilled(bill, task[w])
  BY PayTaskAt DEF HangUp
<1>2. UNCHANGED <<bill, grant, polled, quoted>>
  BY DEF HangUp, payVars
<1>3. t \in PayTask /\ TaskBilled(bill', t)
  BY <1>1, <1>2 DEF PayTask, TaskBilled, PayPC
<1>4. task' = [task EXCEPT ![w] = t]
  BY DEF HangUp
<1> HIDE DEF t
<1>5. TasksBilled'
  BY <1>2, <1>3, <1>4, SameBills, TaskMoves DEF Tasks
<1> QED
  BY <1>2, <1>5, TablesStay DEF PayInv, TablesTyped

-----------------------------------------------------------------------------
(* quote, paid_status and the webhook *)

\* A request begins that knows nothing yet.
LEMMA BeginKeeps ==
  ASSUME PayInv, NEW w \in Workers, NEW t \in Tasks, TaskBilled(bill, t),
         Begin(w, t), UNCHANGED payVars
  PROVE  PayInv'
<1>1. UNCHANGED <<bill, grant, polled, quoted>>
  BY DEF payVars
<1>2. TasksBilled'
  BY <1>1, SameBills, TaskMoves DEF Begin
<1> QED
  BY <1>1, <1>2, TablesStay DEF PayInv, TablesTyped

LEMMA PayStartKeeps ==
  ASSUME PayInv, NEW w \in Workers, PayStart(w)
  PROVE  PayInv'
<1>1. ASSUME NEW p \in Pubkeys, StartQuote(w, p)
      PROVE  PayInv'
  BY <1>1, AskingBilled, BeginKeeps DEF StartQuote
<1>2. ASSUME NEW i \in Invoices, StartWebhook(w, i)
      PROVE  PayInv'
  <2> DEFINE t == [pc |-> "hook_poll", invoice |-> i]
  <2>1. t \in Tasks /\ TaskBilled(bill, t)
    BY DEF Tasks, HookTask, TaskBilled, PayPC
  <2> QED
    BY <1>2, <2>1, BeginKeeps DEF StartWebhook
<1> QED
  BY <1>1, <1>2 DEF PayStart

LEMMA StatusStartKeeps ==
  ASSUME PayInv, NEW w \in Workers, NEW p \in Pubkeys, StartStatus(w, p)
  PROVE  PayInv'
BY AskingBilled, BeginKeeps DEF StartStatus

LEMMA HookPollKeeps ==
  ASSUME PayInv, NEW w \in Workers, HookPoll(w)
  PROVE  PayInv'
<1> DEFINE t == [task[w] EXCEPT !.pc = "hook_mark"]
<1>1. UNCHANGED <<bill, grant, polled, quoted>>
  BY DEF HookPoll, payVars
<1>2. task[w] \in HookTask
  BY PayTaskAt DEF HookPoll
<1>3. ASSUME bill[task[w].invoice].status = "paid", Goto(w, "hook_mark")
      PROVE  TasksBilled'
  <2>1. t \in HookTask /\ TaskBilled(bill', t)
    BY <1>1, <1>2, <1>3 DEF HookTask, TaskBilled, PayPC
  <2>2. task' = [task EXCEPT ![w] = t]
    BY <1>3 DEF Goto
  <2> HIDE DEF t
  <2> QED
    BY <1>1, <2>1, <2>2, SameBills, TaskMoves DEF Tasks
<1>4. TasksBilled'
  BY <1>1, <1>3, SameBills, ReturnBilled DEF HookPoll
<1> QED
  BY <1>1, <1>4, TablesStay DEF PayInv, TablesTyped

LEMMA HookMarkKeeps ==
  ASSUME PayInv, NEW w \in Workers, HookMark(w)
  PROVE  PayInv'
<1>1. /\ task[w].invoice \in Invoices
      /\ bill[task[w].invoice].status = "paid"
  BY PayTaskAt DEF HookMark, HookTask, TaskBilled
<1>2. bill' = bill /\ polled' = polled /\ quoted' = quoted
  BY DEF HookMark
<1>3. TasksBilled'
  BY <1>2, SameBills, ReturnBilled DEF HookMark
<1>4. grant' \in Grants /\ GrantsBilled(bill, grant')
  BY <1>1, MarkedBilled DEF HookMark, PayInv, TablesTyped
<1> QED
  BY <1>2, <1>3, <1>4 DEF PayInv, TablesTyped

LEMMA PayStepKeeps ==
  ASSUME PayInv, NEW w \in Workers, PayStep(w)
  PROVE  PayInv'
  BY PayGrantKeeps, PayThrottleKeeps, PayRecordKeeps, PayPollKeeps,
     PayMarkKeeps, PayCreateKeeps, PayPutKeeps, HookPollKeeps, HookMarkKeeps
     DEF PayStep, EnsurePaidStep

LEMMA PayStepKept ==
  ASSUME PayInv, NEW w \in Workers, PayStep(w)
  PROVE  Kept(bill, bill')
<1>1. CASE bill' = bill
  BY <1>1, SameBills
<1>2. ASSUME NEW i \in Invoices, NEW b, bill[i] = NoBill,
             bill' = [bill EXCEPT ![i] = b]
      PROVE  Kept(bill, bill')
  BY <1>2 DEF PayInv, TablesTyped, Bills, Kept
<1> QED
  BY <1>1, <1>2
     DEF PayStep, EnsurePaidStep, PayGrant, PayThrottle, PayRecord, PayPoll,
         PayMark, PayCreate, PayPut, HookPoll, HookMark, payVars

-----------------------------------------------------------------------------
(* The environment *)

LEMMA PayEnvironmentKeeps ==
  ASSUME PayInv, PayEnvironment
  PROVE  PayInv' /\ Kept(bill, bill')
<1>1. ASSUME NEW i \in Invoices, NEW status \in {"paid", "expired"},
             bill[i].status = "open",
             bill' = [bill EXCEPT ![i].status = status],
             UNCHANGED <<task, grant, polled, quoted>>
      PROVE  PayInv' /\ Kept(bill, bill')
  <2>1. bill[i] \in BillRow
    BY <1>1 DEF PayInv, TablesTyped, Bills, NoBill
  <2>2. bill' \in Bills /\ Kept(bill, bill')
    BY <1>1, <2>1 DEF PayInv, TablesTyped, Bills, BillRow, Kept
  <2>3. GrantsBilled(bill', grant) /\ TasksBilled'
    BY <1>1, <2>2, GrantsBilledKept, TasksStay DEF PayInv, TablesTyped
  <2> QED
    BY <1>1, <2>2, <2>3 DEF PayInv, TablesTyped
<1>2. ASSUME NEW p \in Pubkeys, PollIntervalElapses(p)
      PROVE  PayInv' /\ Kept(bill, bill')
  <2>1. bill' = bill /\ grant' = grant /\ quoted' = quoted /\ task' = task
    BY <1>2 DEF PollIntervalElapses
  <2>2. TasksBilled' /\ Kept(bill, bill')
    BY <2>1, SameBills, TasksStay
  <2>3. polled' \in SUBSET Pubkeys
    BY <1>2 DEF PollIntervalElapses, PayInv, TablesTyped
  <2> QED
    BY <2>1, <2>2, <2>3, TablesStay DEF PayInv, TablesTyped
<1> QED
  BY <1>1, <1>2 DEF PayEnvironment, Settle, Expire

\* A restart of the process: the tables stay, the requests are gone.
LEMMA RestartKeeps ==
  ASSUME PayInv, Restart, polled' = {}, UNCHANGED <<grant, bill, quoted>>
  PROVE  PayInv'
<1>1. \A w \in Workers : task'[w] = Idle
  BY DEF Restart
<1>2. TasksBilled'
  BY <1>1, IdleBilled DEF Restart, TasksBilled
<1> QED
  BY <1>2, TablesStay DEF PayInv, TablesTyped

\* At the start there is neither grant nor bill.
LEMMA PayInitHolds ==
  ASSUME StateInit, PayInit
  PROVE  PayInv
  BY IdleBilled
     DEF StateInit, PayInit, PayInv, TablesTyped, TasksBilled, GrantsBilled,
         Bills, Grants

=============================================================================
