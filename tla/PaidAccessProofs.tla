--------------------------- MODULE PaidAccessProofs ---------------------------
(***************************************************************************)
(* Paid write access, for any keys, events and times: what the plugin has  *)
(* cached, the lookup it waits for and its last reply each stand in a      *)
(* relation to the bills and to the clock that no step breaks.             *)
(***************************************************************************)
EXTENDS PaidAccess, PaidGrantsProofs

Settled(p) == SettledIn(bill, p)

Looking(t) == t.pc \in PayPC /\ t.caller = "lookup"

Requests == [event : Events, authed : Pubkeys, age : Nat,
             answer : {"unread", "taken", "yes", "no"}]

\* One ensure_paid at most works for the plugin, on the lookup it waits for.
LookupServed ==
  /\ \A w \in Workers : Looking(task[w]) =>
       req.answer = "taken" /\ task[w].pubkey = req.authed
  /\ \A v, w \in Workers : Looking(task[v]) /\ Looking(task[w]) => v = w

HistoryTyped ==
  /\ paidFor \in [Pubkeys -> Nat]
  /\ yesAge \in [Pubkeys -> Nat]
  /\ excused \in [Pubkeys -> Nat]

\* A cached verdict expires a cache time after the answer it was made of, or
\* before what excuses it does.
CacheSound ==
  /\ cache \in [Pubkeys -> [paid : BOOLEAN, left : Nat]]
  /\ \A p \in Pubkeys :
       /\ cache[p].paid => Settled(p)
       /\ cache[p].left > 0 =>
            IF cache[p].paid
              THEN yesAge[p] + cache[p].left <= CacheSecs
              ELSE \/ paidFor[p] + cache[p].left <= CacheSecs
                   \/ excused[p] >= cache[p].left

LookupSound ==
  req # Plugin!NoRequest =>
    /\ req \in Requests /\ Plugin!Admissible(req.event)
    /\ req.age <= LookupSecs
    /\ req.answer = "yes" =>
         Settled(req.authed) /\ yesAge[req.authed] <= req.age
    /\ req.answer = "taken" => paidFor[req.authed] <= req.age
    /\ req.answer = "no" =>
         \/ paidFor[req.authed] <= req.age
         \/ excused[req.authed] + req.age >= MaxOf(CacheSecs, LookupSecs + 1)

ReplySound ==
  /\ Plugin!Accepted =>
       /\ Plugin!Admissible(out.event)
       /\ out.authed \in Pubkeys /\ Settled(out.authed)
       /\ yesAge[out.authed] <= VerdictSecs
  /\ out.msg = "payment required" =>
       /\ out.authed \in Pubkeys
       /\ \/ paidFor[out.authed] <= VerdictSecs
          \/ excused[out.authed] > 0

Inv == /\ PayInv /\ LookupServed /\ HistoryTyped
       /\ CacheSound /\ LookupSound /\ ReplySound

-----------------------------------------------------------------------------
LEMMA Seconds ==
  /\ CacheSecs \in Nat /\ FailSecs \in Nat /\ LookupSecs \in Nat
  /\ VerdictSecs \in Nat
  /\ CacheSecs <= VerdictSecs + 1 /\ LookupSecs <= VerdictSecs
  BY AccessAssumption DEF VerdictSecs, MaxOf

LEMMA SettledKept ==
  ASSUME PayInv, bill' \in Bills, Kept(bill, bill'),
         NEW p \in Pubkeys, Settled(p)
  PROVE  Settled(p)'
<1>1. PICK i \in Invoices : bill[i] = [key |-> p, status |-> "paid"]
  BY DEF Settled, SettledIn
<1>2. bill[i] # NoBill
  BY <1>1 DEF NoBill
<1>3. bill'[i].key = p /\ bill'[i].status = "paid"
  BY <1>1, <1>2 DEF Kept
<1>4. bill'[i] \in BillRow
  BY <1>3 DEF Bills, NoBill
<1>5. bill'[i] = [key |-> p, status |-> "paid"]
  BY <1>3, <1>4 DEF BillRow
<1> QED
  BY <1>5 DEF Settled, SettledIn

\* The histories under Track: a grant that is not paid has been for no time.
LEMMA Tracked ==
  ASSUME HistoryTyped, Track, excused' \in [Pubkeys -> Nat]
  PROVE  /\ HistoryTyped'
         /\ \A p \in Pubkeys :
              /\ paidFor'[p] <= paidFor[p]
              /\ grant'[p].status # "paid" => paidFor'[p] = 0
              /\ yesAge'[p] <= yesAge[p]
              /\ req' # req /\ req'.answer = "yes" /\ req'.authed = p =>
                   yesAge'[p] = 0
  BY DEF HistoryTyped, Track

LEMMA Excused ==
  ASSUME HistoryTyped, NEW p \in Pubkeys, NEW secs \in Nat, Excuse(p, secs)
  PROVE  /\ excused' \in [Pubkeys -> Nat] /\ excused'[p] >= secs
         /\ \A q \in Pubkeys : excused'[q] >= excused[q]
  BY DEF Excuse, MaxOf, HistoryTyped

LEMMA Unreplied == Plugin!NoReply.msg = "none" /\ Plugin!NoRequest.answer = "none"
  BY DEF Plugin!NoReply, Plugin!NoRequest

\* What was cached stays sound while invoices stay settled and the histories
\* do not age.
LEMMA CacheStays ==
  ASSUME Inv, bill' \in Bills, Kept(bill, bill'), UNCHANGED cache, Track,
         excused' \in [Pubkeys -> Nat],
         \A p \in Pubkeys : excused'[p] >= excused[p]
  PROVE  CacheSound'
<1>1. HistoryTyped' /\ \A p \in Pubkeys :
        paidFor'[p] <= paidFor[p] /\ yesAge'[p] <= yesAge[p]
  BY Tracked DEF Inv
<1> SUFFICES ASSUME NEW p \in Pubkeys
             PROVE  /\ cache[p].paid => Settled(p)'
                    /\ cache[p].left > 0 =>
                         IF cache[p].paid
                           THEN yesAge'[p] + cache[p].left <= CacheSecs
                           ELSE \/ paidFor'[p] + cache[p].left <= CacheSecs
                                \/ excused'[p] >= cache[p].left
  BY DEF Inv, CacheSound
<1>2. cache[p].paid => Settled(p)'
  BY SettledKept DEF Inv, CacheSound
<1>3. /\ yesAge[p] \in Nat /\ yesAge'[p] \in Nat /\ paidFor[p] \in Nat
      /\ paidFor'[p] \in Nat /\ excused[p] \in Nat /\ excused'[p] \in Nat
      /\ cache[p].left \in Nat
  BY <1>1 DEF Inv, HistoryTyped, CacheSound
<1> QED
  BY <1>1, <1>2, <1>3, Seconds DEF Inv, CacheSound

LEMMA LookupStays ==
  ASSUME Inv, bill' \in Bills, Kept(bill, bill'), UNCHANGED req, Track,
         excused' \in [Pubkeys -> Nat],
         \A p \in Pubkeys : excused'[p] >= excused[p]
  PROVE  LookupSound'
<1> SUFFICES ASSUME req # Plugin!NoRequest PROVE LookupSound'
  BY DEF LookupSound
<1> DEFINE p == req.authed
<1>1. /\ req \in Requests /\ p \in Pubkeys
      /\ req.answer = "yes" => Settled(p)'
  BY SettledKept DEF Inv, LookupSound, Requests
<1>2. /\ yesAge[p] \in Nat /\ yesAge'[p] \in Nat /\ paidFor[p] \in Nat
      /\ paidFor'[p] \in Nat /\ excused[p] \in Nat /\ excused'[p] \in Nat
      /\ paidFor'[p] <= paidFor[p] /\ yesAge'[p] <= yesAge[p]
      /\ req.age \in Nat
  BY <1>1, Tracked DEF Inv, HistoryTyped, Requests
<1>3. MaxOf(CacheSecs, LookupSecs + 1) \in Nat
  BY Seconds DEF MaxOf
<1> QED
  BY <1>1, <1>2, <1>3 DEF Inv, LookupSound

LEMMA SilentReply == ASSUME Silent PROVE ReplySound'
  BY Unreplied DEF Silent, ReplySound, Plugin!Accepted

\* A step that the plugin has no part in.
LEMMA PluginStays ==
  ASSUME Inv, bill' \in Bills, Kept(bill, bill'), Silent, Track,
         UNCHANGED <<cache, req, excused>>
  PROVE  HistoryTyped' /\ CacheSound' /\ LookupSound' /\ ReplySound'
<1>1. excused' \in [Pubkeys -> Nat] /\ \A p \in Pubkeys : excused'[p] >= excused[p]
  BY DEF Inv, HistoryTyped
<1> QED
  BY <1>1, Tracked, CacheStays, LookupStays, SilentReply DEF Inv

-----------------------------------------------------------------------------
(* The authority's side of a lookup *)

\* What a step of the paid layer does to the ensure_paid of a lookup.
LEMMA PayStepLooks ==
  ASSUME PayInv, NEW w \in Workers, PayStep(w)
  PROVE  /\ \A v \in Workers \ {w} : task'[v] = task[v]
         /\ Looking(task'[w]) =>
              Looking(task[w]) /\ task'[w].pubkey = task[w].pubkey
<1>1. task \in [Workers -> Tasks]
  BY DEF PayInv, TasksBilled
<1>2. CASE \E pc : Goto(w, pc)
  <2>1. PICK pc : task' = [task EXCEPT ![w] = [task[w] EXCEPT !.pc = pc]]
    BY <1>2 DEF Goto
  <2>2. task[w] \in PayTask \cup HookTask
    BY PayTaskAt DEF PayStep, EnsurePaidStep, PayGrant, PayThrottle, PayRecord,
         PayPoll, PayMark, PayCreate, PayPut, HookPoll, HookMark, PayPC
  <2>3. CASE task[w] \in PayTask
    BY <1>1, <2>1, <2>3 DEF Looking, PayTask
  <2>4. CASE task[w] \in HookTask
    <3>1. \E pc2 \in {"hook_mark"} : Goto(w, pc2)
      BY <1>1, <1>2, <2>4
         DEF HookTask, PayStep, EnsurePaidStep, PayGrant, PayThrottle,
             PayRecord, PayPoll, PayMark, PayCreate, PayPut, HookPoll,
             HookMark, Return, Goto, Idle
    <3> QED
      BY <1>1, <3>1 DEF Goto, Looking, PayPC
  <2> QED
    BY <2>2, <2>3, <2>4
<1>3. CASE Return(w)
  BY <1>1, <1>3 DEF Return, Idle, Looking, PayPC
<1>4. CASE Paid(w)
  BY <1>1, <1>4 DEF Paid, Return, Idle, Looking, PayPC
<1>5. CASE \E pc, i : SetInvoice(w, pc, i) /\ task[w].pc \in PayPC
  <2>1. PICK pc, i : SetInvoice(w, pc, i)
    BY <1>5
  <2>2. task[w] \in PayTask
    BY <1>5, PayTaskAt
  <2>3. task' = [task EXCEPT ![w] = [task[w] EXCEPT !.pc = pc, !.invoice = i]]
    BY <2>1 DEF SetInvoice
  <2> QED
    BY <1>1, <2>2, <2>3 DEF Looking, PayTask
<1> QED
  BY <1>2, <1>3, <1>4, <1>5
     DEF PayStep, EnsurePaidStep, PayGrant, PayThrottle, PayRecord, PayPoll,
         PayMark, PayCreate, PayPut, HookPoll, HookMark, Due402, Unavailable,
         PayPC

\* ensure_paid answers that p has paid only if it has.
LEMMA YesIsSettled ==
  ASSUME PayInv, NEW w \in Workers, PayStep(w), Looking(task[w]),
         task'[w] = Idle, task[w].pc \in {"pay_grant", "pay_mark"}
  PROVE  Settled(task[w].pubkey) /\ bill' = bill
<1> DEFINE p == task[w].pubkey
<1>1. task[w] \in PayTask /\ TaskBilled(bill, task[w]) /\ p \in Pubkeys
  BY PayTaskAt DEF Looking, PayTask
<1>2. CASE task[w].pc = "pay_grant"
  <2>1. PayGrant(w)
    BY <1>2 DEF PayStep, EnsurePaidStep, PayGrant, PayThrottle, PayRecord,
                PayPoll, PayMark, PayCreate, PayPut, HookPoll, HookMark
  <2>2. task \in [Workers -> Tasks]
    BY DEF PayInv, TasksBilled
  <2>3. task'[w].pc = "idle"
    BY DEF Idle
  <2>4. grant[p].status = "paid"
    <3>1. ASSUME NEW i PROVE ~SetInvoice(w, "pay_throttle", i)
      <4> SUFFICES ASSUME SetInvoice(w, "pay_throttle", i) PROVE FALSE
        OBVIOUS
      <4>1. task' = [task EXCEPT ![w] =
                       [task[w] EXCEPT !.pc = "pay_throttle", !.invoice = i]]
        BY DEF SetInvoice
      <4> QED
        BY <1>1, <2>2, <2>3, <4>1 DEF PayTask
    <3>2. ~Goto(w, "pay_create")
      BY <1>1, <2>2, <2>3 DEF Goto, PayTask
    <3> QED
      BY <2>1, <3>1, <3>2 DEF PayGrant
  <2>5. grant[p].invoice \in Invoices /\ grant[p] # NoGrant
    BY <1>1, <2>4 DEF PayInv, TablesTyped, Grants, GrantRow, NoGrant
  <2>6. Settled(p)
    BY <1>1, <2>4, <2>5, SettledBill DEF PayInv, GrantsBilled, Settled
  <2> QED
    BY <2>1, <2>6 DEF PayGrant, payVars
<1>3. CASE task[w].pc = "pay_mark"
  <2>1. PayMark(w)
    BY <1>3 DEF PayStep, EnsurePaidStep, PayGrant, PayThrottle, PayRecord,
                PayPoll, PayMark, PayCreate, PayPut, HookPoll, HookMark
  <2>2. task[w].invoice \in Invoices
    BY <1>1, <1>3 DEF TaskBilled, PayPC
  <2>3. Settled(p)
    BY <1>1, <1>3, <2>2, SettledBill DEF PayInv, TaskBilled, PayPC, Settled
  <2> QED
    BY <2>1, <2>3 DEF PayMark
<1> QED
  BY <1>2, <1>3

LEMMA LookupArrivesKeeps ==
  ASSUME Inv, NEW w \in Workers, LookupArrives(w)
  PROVE  Inv'
<1> DEFINE p == req.authed
<1>1. req # Plugin!NoRequest /\ req \in Requests /\ p \in Pubkeys
  BY Unreplied DEF LookupArrives, Inv, LookupSound, Requests
<1>2. UNCHANGED <<owner, cooldown, cache, grant, bill, polled, quoted>>
  BY DEF LookupArrives, payVars
<1>3. excused' \in [Pubkeys -> Nat] /\ \A q \in Pubkeys : excused'[q] >= excused[q]
  <2>1. MaxOf(CacheSecs, LookupSecs + 1) \in Nat
    BY Seconds DEF MaxOf
  <2>2. CASE Excuse(p, MaxOf(CacheSecs, LookupSecs + 1))
    BY <1>1, <2>1, <2>2, Excused DEF Inv
  <2>3. CASE UNCHANGED excused
    BY <2>3 DEF Inv, HistoryTyped
  <2> QED
    BY <2>2, <2>3 DEF LookupArrives
<1>4. HistoryTyped' /\ CacheSound' /\ ReplySound'
  BY <1>2, <1>3, Tracked, SameBills, CacheStays, SilentReply
     DEF LookupArrives, Inv
<1>5. ASSUME grant[p].status = "pending",
             Begin(w, EnsurePaid("lookup", p, None)),
             req' = [req EXCEPT !.answer = "taken"]
      PROVE  PayInv' /\ LookupServed' /\ LookupSound'
  <2> DEFINE t == EnsurePaid("lookup", p, None)
  <2>1. t \in Tasks /\ TaskBilled(bill, t)
    BY <1>1, AskingBilled
  <2>2. PayInv'
    BY <1>2, <1>5, <2>1, BeginKeeps DEF Inv, payVars
  <2>3. \A v \in Workers : ~Looking(task[v])
    BY DEF LookupArrives, Inv, LookupServed
  <2>4. \A v \in Workers : task'[v] = IF v = w THEN t ELSE task[v]
    BY <1>5 DEF Begin, Inv, PayInv, TasksBilled
  <2>5. t.pubkey = p /\ req'.answer = "taken" /\ req'.authed = p
    BY <1>1, <1>5 DEF EnsurePaid, Requests
  <2>6. LookupServed'
    BY <2>3, <2>4, <2>5 DEF LookupServed
  <2>7. req' \in Requests /\ req'.event = req.event /\ req'.age = req.age
    BY <1>1, <1>5 DEF Requests
  <2>8. paidFor'[p] = 0 /\ req.age \in Nat
    BY <1>1, <1>2, <1>3, <1>5, Tracked DEF LookupArrives, Inv, Requests
  <2> QED
    BY <1>1, <2>2, <2>5, <2>6, <2>7, <2>8 DEF Inv, LookupSound
<1>6. ASSUME NEW holds \in BOOLEAN, Answer(holds), UNCHANGED task,
             holds => grant[p].status = "paid",
             ~holds => \/ grant[p].status # "paid"
                       \/ Excuse(p, MaxOf(CacheSecs, LookupSecs + 1))
      PROVE  PayInv' /\ LookupServed' /\ LookupSound'
  <2>1. TasksBilled'
    BY <1>2, <1>6, SameBills, TasksStay DEF Inv
  <2>2. PayInv'
    BY <1>2, <2>1, TablesStay DEF Inv, PayInv, TablesTyped
  <2>3. LookupServed'
    BY <1>6 DEF LookupArrives, Inv, LookupServed
  <2>4. /\ req' \in Requests /\ req'.event = req.event /\ req'.age = req.age
        /\ req'.authed = p /\ req'.answer = IF holds THEN "yes" ELSE "no"
    BY <1>1, <1>6 DEF Answer, Requests
  <2>5. holds => Settled(p)' /\ yesAge'[p] = 0
    <3> SUFFICES ASSUME holds PROVE Settled(p)' /\ yesAge'[p] = 0
      OBVIOUS
    <3>1. grant[p].invoice \in Invoices /\ grant[p] # NoGrant
      BY <1>1, <1>6 DEF Inv, PayInv, TablesTyped, Grants, GrantRow, NoGrant
    <3>2. Settled(p)
      BY <1>1, <1>6, <3>1, SettledBill DEF Inv, PayInv, GrantsBilled, Settled
    <3>3. req' # req /\ req'.answer = "yes"
      BY <2>4 DEF LookupArrives
    <3> QED
      BY <1>1, <1>2, <1>3, <2>4, <3>2, <3>3, SameBills, SettledKept, Tracked
         DEF Inv, LookupArrives
  <2>6. ~holds => \/ paidFor'[p] <= req.age
                  \/ excused'[p] + req.age >= MaxOf(CacheSecs, LookupSecs + 1)
    <3>1. req.age \in Nat /\ MaxOf(CacheSecs, LookupSecs + 1) \in Nat
      BY <1>1, Seconds DEF Requests, MaxOf
    <3>2. CASE grant[p].status # "paid"
      <4>1. paidFor'[p] = 0
        BY <1>1, <1>2, <1>3, <3>2, Tracked DEF LookupArrives, Inv
      <4> QED
        BY <3>1, <4>1
    <3>3. CASE Excuse(p, MaxOf(CacheSecs, LookupSecs + 1))
      <4>1. excused'[p] >= MaxOf(CacheSecs, LookupSecs + 1) /\ excused'[p] \in Nat
        BY <1>1, <1>3, <3>1, <3>3, Excused DEF Inv
      <4> QED
        BY <3>1, <4>1
    <3> QED
      BY <1>6, <3>2, <3>3
  <2>7. req.age \in Nat
    BY <1>1 DEF Requests
  <2> QED
    BY <1>1, <2>2, <2>3, <2>4, <2>5, <2>6, <2>7 DEF Inv, LookupSound
<1>7. PayInv' /\ LookupServed' /\ LookupSound'
  BY <1>5, <1>6 DEF LookupArrives
<1> QED
  BY <1>4, <1>7 DEF Inv

\* The step either leaves the lookup alone, or ends it with the outcome.
LEMMA HandlerStepKeeps ==
  ASSUME Inv, NEW w \in Workers, HandlerStep(w)
  PROVE  Inv'
<1> DEFINE p == req.authed
           ends == /\ task[w].pc \in PayPC /\ task[w].caller = "lookup"
                   /\ task'[w] = Idle
           holds == task[w].pc \in {"pay_grant", "pay_mark"}
<1>1. PayInv' /\ Kept(bill, bill') /\ bill' \in Bills
  BY PayStepKeeps, PayStepKept DEF HandlerStep, Inv, PayInv, TablesTyped
<1>2. /\ \A v \in Workers \ {w} : task'[v] = task[v]
      /\ Looking(task'[w]) =>
           Looking(task[w]) /\ task'[w].pubkey = task[w].pubkey
  BY PayStepLooks DEF HandlerStep, Inv
<1>3. CASE ~ends
  <2>1. UNCHANGED req
    BY <1>3 DEF HandlerStep
  <2>2. LookupServed'
    BY <1>2, <2>1 DEF Inv, LookupServed
  <2> QED
    BY <1>1, <2>1, <2>2, PluginStays DEF HandlerStep, Inv
<1>4. CASE ends
  <2>1. Looking(task[w]) /\ req.answer = "taken" /\ task[w].pubkey = p
    BY <1>4 DEF Looking, Inv, LookupServed
  <2>2. req # Plugin!NoRequest /\ req \in Requests /\ p \in Pubkeys
    BY <2>1, Unreplied DEF Inv, LookupSound, Requests
  <2>3. /\ req' \in Requests /\ req'.event = req.event /\ req'.age = req.age
        /\ req'.authed = p /\ req'.answer = IF holds THEN "yes" ELSE "no"
    BY <1>4, <2>2 DEF HandlerStep, Answer, Requests
  <2>4. \A v \in Workers : ~Looking(task'[v])
    BY <1>2, <1>4, <2>1 DEF Inv, LookupServed, Looking, Idle, PayPC
  <2>5. LookupServed'
    BY <2>4 DEF LookupServed
  <2>6. excused' \in [Pubkeys -> Nat] /\ \A q \in Pubkeys : excused'[q] >= excused[q]
    BY DEF HandlerStep, Inv, HistoryTyped
  <2>7. HistoryTyped' /\ CacheSound' /\ ReplySound'
    BY <1>1, <2>6, Tracked, CacheStays, SilentReply DEF HandlerStep, Inv
  <2>8. req.age \in Nat
    BY <2>2 DEF Requests
  <2>9. holds => Settled(p)' /\ yesAge'[p] = 0
    <3> SUFFICES ASSUME holds PROVE Settled(p)' /\ yesAge'[p] = 0
      OBVIOUS
    <3>1. Settled(p)
      BY <1>4, <2>1, YesIsSettled DEF HandlerStep, Inv
    <3>2. req' # req /\ req'.answer = "yes"
      BY <2>1, <2>3
    <3> QED
      BY <1>1, <2>2, <2>3, <2>6, <3>1, <3>2, SettledKept, Tracked
         DEF HandlerStep, Inv
  <2>10. paidFor'[p] <= req.age
    <3>1. paidFor[p] <= req.age
      BY <2>1, <2>2 DEF Inv, LookupSound
    <3>2. paidFor'[p] <= paidFor[p] /\ paidFor[p] \in Nat /\ paidFor'[p] \in Nat
      BY <2>2, <2>6, <2>7, Tracked DEF HandlerStep, Inv, HistoryTyped
    <3> QED
      BY <2>8, <3>1, <3>2
  <2>11. LookupSound'
    BY <2>2, <2>3, <2>8, <2>9, <2>10 DEF Inv, LookupSound
  <2> QED
    BY <1>1, <2>5, <2>7, <2>11 DEF Inv
<1> QED
  BY <1>3, <1>4

LEMMA CrashKeeps ==
  ASSUME Inv, Crash
  PROVE  Inv'
<1>1. PayInv'
  BY RestartKeeps DEF Crash, Inv
<1>2. LookupServed'
  BY DEF Crash, Restart, LookupServed, Looking, Idle, PayPC
<1> QED
  BY <1>1, <1>2, SameBills, PluginStays DEF Crash, Inv

LEMMA ClientStepKeeps ==
  ASSUME Inv, ClientStep
  PROVE  Inv'
<1>1. ASSUME NEW w \in Workers,
             PayStart(w) \/ (\E p \in Pubkeys : StartStatus(w, p))
      PROVE  PayInv' /\ Kept(bill, bill') /\ LookupServed'
  <2>1. PayInv' /\ bill' = bill
    BY <1>1, PayStartKeeps, StatusStartKeeps
       DEF Inv, PayStart, StartQuote, StartStatus, StartWebhook, payVars
  <2>2. \E t : Begin(w, t) /\ ~Looking(t)
    <3>1. ASSUME NEW p \in Pubkeys, NEW caller \in {"quote", "status"}
          PROVE  ~Looking(EnsurePaid(caller, p, None))
      BY DEF EnsurePaid, Looking
    <3>2. ASSUME NEW i \in Invoices
          PROVE  ~Looking([pc |-> "hook_poll", invoice |-> i])
      BY DEF Looking, PayPC
    <3> QED
      BY <1>1, <3>1, <3>2 DEF PayStart, StartQuote, StartStatus, StartWebhook
  <2>3. /\ \A v \in Workers \ {w} : task'[v] = task[v]
        /\ ~Looking(task'[w])
    BY <2>2 DEF Begin, Inv, PayInv, TasksBilled
  <2> QED
    BY <2>1, <2>3, SameBills DEF ClientStep, Inv, LookupServed
<1>2. ASSUME NEW w \in Workers, HangUp(w), task[w].caller # "lookup"
      PROVE  PayInv' /\ Kept(bill, bill') /\ LookupServed'
  <2>1. PayInv' /\ bill' = bill
    BY <1>2, HangUpKeeps DEF Inv, HangUp, payVars
  <2>2. task[w] \in PayTask /\ task \in [Workers -> Tasks]
    BY <1>2, PayTaskAt DEF HangUp, Inv, PayInv, TasksBilled
  <2>3. /\ \A v \in Workers \ {w} : task'[v] = task[v]
        /\ task'[w].caller = "gone"
    BY <1>2, <2>2 DEF HangUp, PayTask
  <2> QED
    BY <2>1, <2>3, SameBills DEF ClientStep, Inv, LookupServed, Looking
<1>3. ASSUME PayEnvironment
      PROVE  PayInv' /\ Kept(bill, bill') /\ LookupServed'
  <2>1. PayInv' /\ Kept(bill, bill')
    BY <1>3, PayEnvironmentKeeps DEF Inv
  <2>2. UNCHANGED task
    BY <1>3 DEF PayEnvironment, Settle, Expire, PollIntervalElapses
  <2> QED
    BY <2>1, <2>2 DEF ClientStep, Inv, LookupServed
<1>4. PayInv' /\ Kept(bill, bill') /\ LookupServed'
  BY <1>1, <1>2, <1>3 DEF ClientStep
<1> QED
  BY <1>4, PluginStays DEF ClientStep, Inv, PayInv, TablesTyped

-----------------------------------------------------------------------------
(* The plugin *)

\* No history ages in the step.
NothingAges ==
  /\ HistoryTyped'
  /\ \A p \in Pubkeys : /\ paidFor'[p] <= paidFor[p]
                         /\ yesAge'[p] <= yesAge[p]
                         /\ excused'[p] >= excused[p]

\* The plugin forgets its request when it has replied.
LEMMA ForgetsLookup ==
  ASSUME req' = Plugin!NoRequest
  PROVE  LookupSound'
  BY DEF LookupSound, Plugin!NoRequest

\* A cached verdict on p is replaced.
LEMMA RemembersSoundly ==
  ASSUME CacheSound, UNCHANGED bill, HistoryTyped, NothingAges,
         NEW p \in Pubkeys, NEW holds \in BOOLEAN, NEW secs \in Nat,
         req.age \in Nat, Plugin!Remember(p, holds, secs),
         holds => Settled(p),
         secs > req.age =>
           IF holds THEN yesAge'[p] + secs <= CacheSecs + req.age
                    ELSE \/ paidFor'[p] + secs <= CacheSecs + req.age
                         \/ excused'[p] + req.age >= secs
  PROVE  CacheSound'
<1> DEFINE row == [paid |-> holds, left |-> Plugin!Less(secs, req.age)]
<1>1. Plugin!Less(secs, req.age) = IF secs > req.age THEN secs - req.age ELSE 0
  BY DEF Plugin!Less
<1>2. row \in [paid : BOOLEAN, left : Nat]
  BY <1>1
<1>3. cache' = [cache EXCEPT ![p] = row]
  BY DEF Plugin!Remember
<1>4. /\ cache' \in [Pubkeys -> [paid : BOOLEAN, left : Nat]]
      /\ cache'[p] = row
      /\ \A q \in Pubkeys \ {p} : cache'[q] = cache[q]
  BY <1>2, <1>3 DEF CacheSound
<1>5. \A q \in Pubkeys : Settled(q) <=> Settled(q)'
  BY DEF Settled, SettledIn
<1>6. \A q \in Pubkeys :
        /\ yesAge[q] \in Nat /\ yesAge'[q] \in Nat /\ paidFor[q] \in Nat
        /\ paidFor'[q] \in Nat /\ excused[q] \in Nat /\ excused'[q] \in Nat
        /\ cache[q].left \in Nat
  BY DEF HistoryTyped, CacheSound, NothingAges
<1>7. ASSUME NEW q \in Pubkeys, q # p
      PROVE  /\ cache'[q].paid => Settled(q)'
             /\ cache'[q].left > 0 =>
                  IF cache'[q].paid
                    THEN yesAge'[q] + cache'[q].left <= CacheSecs
                    ELSE \/ paidFor'[q] + cache'[q].left <= CacheSecs
                         \/ excused'[q] >= cache'[q].left
  BY <1>4, <1>5, <1>6, <1>7, Seconds DEF CacheSound, NothingAges
<1>8. /\ cache'[p].paid => Settled(p)'
      /\ cache'[p].left > 0 =>
           IF cache'[p].paid
             THEN yesAge'[p] + cache'[p].left <= CacheSecs
             ELSE \/ paidFor'[p] + cache'[p].left <= CacheSecs
                  \/ excused'[p] >= cache'[p].left
  BY <1>1, <1>4, <1>5, <1>6, Seconds
<1> QED
  BY <1>4, <1>7, <1>8 DEF CacheSound

\* Nobody waits any more for the ensure_paid of the lookup.
LEMMA GiveUpKeeps ==
  ASSUME Inv, GiveUp
  PROVE  Inv'
<1> DEFINE p == req.authed
<1>1. /\ req # Plugin!NoRequest /\ req \in Requests /\ p \in Pubkeys
      /\ req.age \in Nat
  BY DEF GiveUp, Plugin!LookupFails, Inv, LookupSound, Requests
<1>2. UNCHANGED <<grant, bill, polled, quoted>>
  BY DEF GiveUp, payVars
<1>3. ASSUME NEW w \in Workers
      PROVE  /\ task'[w] \in Tasks /\ TaskBilled(bill, task'[w])
             /\ ~Looking(task'[w])
  <2>1. task[w] \in Tasks /\ TaskBilled(bill, task[w])
    BY DEF Inv, PayInv, TasksBilled
  <2>2. task'[w] = IF Looking(task[w]) THEN [task[w] EXCEPT !.caller = "gone"]
                                       ELSE task[w]
    BY DEF GiveUp, Looking
  <2>3. CASE ~Looking(task[w])
    BY <2>1, <2>2, <2>3
  <2>4. CASE Looking(task[w])
    <3>1. task[w] \in PayTask
      BY <2>4, PayTaskAt DEF Looking, Inv
    <3>2. task'[w] \in PayTask
      BY <2>2, <2>4, <3>1 DEF PayTask
    <3>3. /\ task'[w].pc = task[w].pc /\ task'[w].invoice = task[w].invoice
          /\ task'[w].pubkey = task[w].pubkey /\ task'[w].caller = "gone"
      BY <2>2, <2>4, <3>1 DEF PayTask
    <3>4. task[w].pc \in PayPC
      BY <2>4 DEF Looking
    <3> QED
      BY <2>1, <3>2, <3>3, <3>4 DEF Tasks, TaskBilled, PayPC, Looking
  <2> QED
    BY <2>3, <2>4
<1>4. PayInv'
  <2>1. task' \in [Workers -> Tasks]
    BY <1>3 DEF GiveUp
  <2>2. TasksBilled'
    BY <1>2, <1>3, <2>1 DEF TasksBilled
  <2> QED
    BY <1>2, <2>2, TablesStay DEF Inv, PayInv, TablesTyped
<1>5. LookupServed'
  BY <1>3 DEF LookupServed
<1>6. /\ excused' \in [Pubkeys -> Nat] /\ excused'[p] >= FailSecs
      /\ \A q \in Pubkeys : excused'[q] >= excused[q]
  BY <1>1, Excused, Seconds DEF GiveUp, Inv
<1>7. NothingAges
  BY <1>6, Tracked DEF GiveUp, Inv, NothingAges
<1>8. CacheSound'
  <2> DEFINE secs == Plugin!MinOf(CacheSecs, FailSecs)
  <2>1. secs \in Nat /\ secs <= FailSecs
    BY Seconds DEF Plugin!MinOf
  <2>2. excused'[p] + req.age >= secs
    BY <1>1, <1>6, <2>1, Seconds
  <2>3. Plugin!Remember(p, FALSE, secs)
    BY DEF GiveUp, Plugin!LookupFails
  <2> HIDE DEF secs
  <2> QED
    BY <1>1, <1>2, <1>7, <2>1, <2>2, <2>3, RemembersSoundly DEF Inv
<1>9. LookupSound' /\ ReplySound'
  BY ForgetsLookup
     DEF GiveUp, Plugin!LookupFails, Plugin!Reply, ReplySound, Plugin!Accepted
<1> QED
  BY <1>4, <1>5, <1>7, <1>8, <1>9 DEF Inv, NothingAges

\* An event that passes the checks in "write" mode is judged by the cache.
LEMMA DecideKeeps ==
  ASSUME Inv, NEW ev \in Events, NEW p \in Pubkeys \cup {None},
         Plugin!Decide(ev, p), NothingAges, UNCHANGED bill
  PROVE  ReplySound'
<1>1. CASE out'.msg \in {"blocked", "auth-required"}
  BY <1>1 DEF ReplySound, Plugin!Accepted
<1>2. ASSUME Plugin!Admissible(ev), Plugin!CheckAuth(p), Plugin!VerdictKnown(p),
             Plugin!Reply(ev, p, Plugin!Verdict(Plugin!PaidGate(p)))
      PROVE  ReplySound'
  <2>1. /\ p \in Pubkeys /\ cache[p].left > 0
        /\ Plugin!PaidGate(p) <=> cache[p].paid
    BY <1>2, AccessAssumption
       DEF Plugin!CheckAuth, Plugin!VerdictKnown, Plugin!Cached, Plugin!PaidGate
  <2>2. out' = [event |-> ev, authed |-> p,
                msg |-> IF cache[p].paid THEN "accepted" ELSE "payment required"]
    BY <1>2, <2>1 DEF Plugin!Reply, Plugin!Verdict
  <2>3. /\ yesAge[p] \in Nat /\ paidFor[p] \in Nat /\ excused[p] \in Nat
        /\ yesAge'[p] \in Nat /\ paidFor'[p] \in Nat /\ excused'[p] \in Nat
        /\ paidFor'[p] <= paidFor[p] /\ yesAge'[p] <= yesAge[p]
        /\ excused'[p] >= excused[p] /\ cache[p].left \in Nat
    BY <2>1 DEF Inv, HistoryTyped, CacheSound, NothingAges
  <2>4. CASE cache[p].paid
    <3>1. Settled(p) /\ yesAge[p] + cache[p].left <= CacheSecs
      BY <2>1, <2>4 DEF Inv, CacheSound
    <3>2. yesAge'[p] <= VerdictSecs
      BY <2>1, <2>3, <3>1, Seconds
    <3>3. Settled(p)'
      BY <3>1 DEF Settled, SettledIn
    <3> QED
      BY <1>2, <2>1, <2>2, <2>4, <3>2, <3>3 DEF ReplySound, Plugin!Accepted
  <2>5. CASE ~cache[p].paid
    <3>1. \/ paidFor[p] + cache[p].left <= CacheSecs
          \/ excused[p] >= cache[p].left
      BY <2>1, <2>5 DEF Inv, CacheSound
    <3>2. paidFor'[p] <= VerdictSecs \/ excused'[p] > 0
      BY <2>1, <2>3, <3>1, Seconds
    <3> QED
      BY <2>1, <2>2, <2>5, <3>2 DEF ReplySound, Plugin!Accepted
  <2> QED
    BY <2>4, <2>5
<1> QED
  BY <1>1, <1>2 DEF Plugin!Decide, Plugin!Reply

\* The answer is remembered for a cache time from before the lookup, and the
\* event is judged by it.
LEMMA AnsweredKeeps ==
  ASSUME Inv, Plugin!LookupAnswered, NothingAges, UNCHANGED bill
  PROVE  CacheSound' /\ LookupSound' /\ ReplySound'
<1> DEFINE p == req.authed
           holds == req.answer = "yes"
<1>1. /\ req # Plugin!NoRequest /\ req \in Requests /\ p \in Pubkeys
      /\ req.age \in Nat /\ req.age <= LookupSecs
      /\ Plugin!Admissible(req.event)
  BY Unreplied DEF Plugin!LookupAnswered, Inv, LookupSound, Requests
<1>2. /\ yesAge[p] \in Nat /\ paidFor[p] \in Nat /\ excused[p] \in Nat
      /\ yesAge'[p] \in Nat /\ paidFor'[p] \in Nat /\ excused'[p] \in Nat
      /\ paidFor'[p] <= paidFor[p] /\ yesAge'[p] <= yesAge[p]
      /\ excused'[p] >= excused[p]
  BY <1>1 DEF Inv, HistoryTyped, NothingAges
<1>4. holds => Settled(p) /\ yesAge[p] <= req.age
  BY <1>1 DEF Inv, LookupSound
<1>5. ~holds => \/ paidFor[p] <= req.age
                \/ /\ excused[p] + req.age >= CacheSecs
                   /\ excused[p] > 0
  <2>1. ~holds => \/ paidFor[p] <= req.age
                  \/ excused[p] + req.age >= MaxOf(CacheSecs, LookupSecs + 1)
    BY <1>1 DEF Inv, LookupSound, Plugin!LookupAnswered
  <2>2. /\ MaxOf(CacheSecs, LookupSecs + 1) \in Nat
        /\ MaxOf(CacheSecs, LookupSecs + 1) >= CacheSecs
        /\ MaxOf(CacheSecs, LookupSecs + 1) >= LookupSecs + 1
    BY Seconds DEF MaxOf
  <2> QED
    BY <1>1, <1>2, <2>1, <2>2, Seconds
<1>6. CacheSound'
  <2>1. holds => yesAge'[p] + CacheSecs <= CacheSecs + req.age
    BY <1>1, <1>2, <1>4, Seconds
  <2>2. ~holds => \/ paidFor'[p] + CacheSecs <= CacheSecs + req.age
                  \/ excused'[p] + req.age >= CacheSecs
    BY <1>1, <1>2, <1>5, Seconds
  <2>3. Plugin!Remember(p, holds, CacheSecs)
    BY DEF Plugin!LookupAnswered
  <2>4. holds \in BOOLEAN
    OBVIOUS
  <2> HIDE DEF holds
  <2> QED
    BY <1>1, <1>4, <2>1, <2>2, <2>3, <2>4, Seconds, RemembersSoundly
       DEF Inv
<1>7. LookupSound'
  BY ForgetsLookup DEF Plugin!LookupAnswered
<1>8. ReplySound'
  <2>1. out' = [event |-> req.event, authed |-> p,
                msg |-> IF holds THEN "accepted" ELSE "payment required"]
    BY DEF Plugin!LookupAnswered, Plugin!Reply, Plugin!Verdict
  <2>2. CASE holds
    <3>1. yesAge'[p] <= VerdictSecs
      BY <1>1, <1>2, <1>4, <2>2, Seconds
    <3>2. SettledIn(bill', p)
      BY <1>4, <2>2 DEF Settled
    <3> QED
      BY <1>1, <2>1, <2>2, <3>1, <3>2 DEF ReplySound, Plugin!Accepted, Settled
  <2>3. CASE ~holds
    <3>1. paidFor'[p] <= VerdictSecs \/ excused'[p] > 0
      BY <1>1, <1>2, <1>5, <2>3, Seconds
    <3> QED
      BY <1>1, <2>1, <2>3, <3>1 DEF ReplySound, Plugin!Accepted
  <2> QED
    BY <2>2, <2>3
<1> QED
  BY <1>6, <1>7, <1>8

LEMMA PluginStepKeeps ==
  ASSUME Inv, PluginStep
  PROVE  Inv'
<1>1. /\ UNCHANGED <<task, grant, bill, polled, quoted, excused>>
      /\ Track /\ excused' \in [Pubkeys -> Nat]
      /\ \A p \in Pubkeys : excused'[p] >= excused[p]
  BY DEF PluginStep, authority, payVars, Inv, HistoryTyped
<1>2. PayInv'
  <2>1. TasksBilled'
    BY <1>1, SameBills, TasksStay DEF Inv
  <2> QED
    BY <1>1, <2>1, TablesStay DEF Inv, PayInv, TablesTyped
<1>3. NothingAges
  BY <1>1, Tracked DEF Inv, NothingAges
<1>4. ASSUME UNCHANGED <<cache, req>>, ReplySound'
      PROVE  LookupServed' /\ CacheSound' /\ LookupSound' /\ ReplySound'
  BY <1>1, <1>4, SameBills, CacheStays, LookupStays DEF Inv, LookupServed
<1>5. ASSUME NEW ev \in Events, NEW p \in Pubkeys \cup {None},
             Plugin!Decide(ev, p)
      PROVE  LookupServed' /\ CacheSound' /\ LookupSound' /\ ReplySound'
  BY <1>1, <1>3, <1>4, <1>5, DecideKeeps DEF Plugin!Decide
<1>6. ASSUME NEW ev \in Events, NEW p \in Pubkeys \cup {None},
             Plugin!StartLookup(ev, p)
      PROVE  LookupServed' /\ CacheSound' /\ LookupSound' /\ ReplySound'
  <2>1. UNCHANGED cache /\ Silent
    BY <1>6 DEF Plugin!StartLookup, Silent
  <2>2. p \in Pubkeys /\ Plugin!Admissible(ev)
    BY <1>6, AccessAssumption DEF Plugin!StartLookup, Plugin!CheckAuth
  <2>3. \A w \in Workers : ~Looking(task[w])
    BY <1>6, Unreplied DEF Plugin!StartLookup, Inv, LookupServed
  <2>4. req' = [event |-> ev, authed |-> p, age |-> 0, answer |-> "unread"]
    BY <1>6 DEF Plugin!StartLookup
  <2>5. LookupSound'
    BY <2>2, <2>4, Seconds DEF LookupSound, Requests
  <2>6. LookupServed'
    BY <1>1, <2>3 DEF LookupServed
  <2> QED
    BY <1>1, <2>1, <2>5, <2>6, SameBills, CacheStays, SilentReply DEF Inv
<1>7. ASSUME Plugin!LookupAnswered
      PROVE  LookupServed' /\ CacheSound' /\ LookupSound' /\ ReplySound'
  <2>1. \A w \in Workers : ~Looking(task[w])
    BY <1>7 DEF Plugin!LookupAnswered, Inv, LookupServed
  <2>2. LookupServed'
    BY <1>1, <2>1 DEF LookupServed
  <2> QED
    BY <1>1, <1>3, <1>7, <2>2, AnsweredKeeps
<1>8. ASSUME Plugin!Reload
      PROVE  LookupServed' /\ CacheSound' /\ LookupSound' /\ ReplySound'
  <2>1. UNCHANGED req /\ Silent /\ cache' = [p \in Pubkeys |-> Plugin!NotCached]
    BY <1>8 DEF Plugin!Reload, Silent
  <2>2. CacheSound'
    BY <2>1 DEF CacheSound, Plugin!NotCached
  <2>3. LookupServed'
    BY <1>1, <2>1 DEF Inv, LookupServed
  <2> QED
    BY <1>1, <2>1, <2>2, <2>3, SameBills, LookupStays, SilentReply DEF Inv
<1> QED
  BY <1>2, <1>3, <1>5, <1>6, <1>7, <1>8 DEF PluginStep, Inv, NothingAges

-----------------------------------------------------------------------------
(* The clock *)

LEMMA TickKeeps ==
  ASSUME Inv, Tick
  PROVE  Inv'
<1>1. UNCHANGED <<task, grant, bill, polled, quoted>> /\ Silent
  BY DEF Tick, authority, payVars, Plugin!SecondPasses, Silent
<1>2. PayInv'
  <2>1. TasksBilled'
    BY <1>1, SameBills, TasksStay DEF Inv
  <2> QED
    BY <1>1, <2>1, TablesStay DEF Inv, PayInv, TablesTyped
<1>3. ASSUME NEW p \in Pubkeys
      PROVE  /\ paidFor'[p] \in Nat /\ paidFor'[p] <= paidFor[p] + 1
             /\ yesAge'[p] \in Nat /\ yesAge'[p] <= yesAge[p] + 1
             /\ excused'[p] \in Nat /\ excused'[p] + 1 >= excused[p]
             /\ paidFor[p] \in Nat /\ yesAge[p] \in Nat /\ excused[p] \in Nat
             /\ Settled(p)' <=> Settled(p)
  <2>1. paidFor[p] \in Nat /\ yesAge[p] \in Nat /\ excused[p] \in Nat
    BY DEF Inv, HistoryTyped
  <2>2. Settled(p)' <=> Settled(p)
    BY <1>1 DEF Settled, SettledIn
  <2>3. excused'[p] = IF excused[p] > 1 THEN excused[p] - 1 ELSE 0
    BY DEF Tick, Plugin!Less
  <2>4. paidFor'[p] \in {0, paidFor[p], paidFor[p] + 1}
    BY DEF Tick, Older
  <2>5. yesAge'[p] \in {yesAge[p], yesAge[p] + 1}
    BY DEF Tick, Older
  <2> QED
    BY <2>1, <2>2, <2>3, <2>4, <2>5
<1>4. HistoryTyped'
  BY <1>3 DEF Tick, HistoryTyped
<1>5. CacheSound'
  <2>1. ASSUME NEW p \in Pubkeys
        PROVE  /\ cache'[p] \in [paid : BOOLEAN, left : Nat]
               /\ cache'[p].paid = cache[p].paid
               /\ cache'[p].left > 0 => cache'[p].left = cache[p].left - 1
               /\ cache[p].left \in Nat /\ cache'[p].left \in Nat
    <3>1. cache'[p] = [cache[p] EXCEPT !.left =
                         IF cache[p].left > 1 THEN cache[p].left - 1 ELSE 0]
      BY DEF Tick, Plugin!SecondPasses, Plugin!Less
    <3>2. cache[p] \in [paid : BOOLEAN, left : Nat]
      BY DEF Inv, CacheSound
    <3> QED
      BY <3>1, <3>2
  <2>2. cache' \in [Pubkeys -> [paid : BOOLEAN, left : Nat]]
    BY <2>1 DEF Tick, Plugin!SecondPasses
  <2>3. ASSUME NEW p \in Pubkeys
        PROVE  /\ cache'[p].paid => Settled(p)'
               /\ cache'[p].left > 0 =>
                    IF cache'[p].paid
                      THEN yesAge'[p] + cache'[p].left <= CacheSecs
                      ELSE \/ paidFor'[p] + cache'[p].left <= CacheSecs
                           \/ excused'[p] >= cache'[p].left
    BY <1>3, <2>1, Seconds DEF Inv, CacheSound
  <2> QED
    BY <2>2, <2>3 DEF CacheSound
<1>6. LookupSound' /\ LookupServed'
  <2>1. CASE req = Plugin!NoRequest
    <3>1. req' = req
      BY <2>1 DEF Tick, Plugin!SecondPasses
    <3> QED
      BY <1>1, <2>1, <3>1, ForgetsLookup DEF Inv, LookupServed
  <2>2. CASE req # Plugin!NoRequest
    <3> DEFINE p == req.authed
    <3>1. req \in Requests /\ req.age < LookupSecs /\ p \in Pubkeys
      BY <2>2 DEF Tick, Inv, LookupSound, Requests
    <3>2. /\ req' \in Requests /\ req'.age = req.age + 1 /\ req'.authed = p
          /\ req'.event = req.event /\ req'.answer = req.answer
          /\ req.age \in Nat
      BY <2>2, <3>1 DEF Tick, Plugin!SecondPasses, Requests
    <3>3. MaxOf(CacheSecs, LookupSecs + 1) \in Nat
      BY Seconds DEF MaxOf
    <3>4. LookupSound'
      BY <1>3, <2>2, <3>1, <3>2, <3>3, Seconds DEF Inv, LookupSound
    <3>5. LookupServed'
      BY <1>1, <3>2 DEF Inv, LookupServed
    <3> QED
      BY <3>4, <3>5
  <2> QED
    BY <2>1, <2>2
<1> QED
  BY <1>1, <1>2, <1>4, <1>5, <1>6, SilentReply DEF Inv

-----------------------------------------------------------------------------
(* The invariant *)

LEMMA InvInit == Init => Inv
<1> SUFFICES ASSUME Init PROVE Inv
  OBVIOUS
<1>1. PayInv
  BY PayInitHolds DEF Init
<1>2. LookupServed
  BY DEF Init, StateInit, LookupServed, Looking, Idle, PayPC
<1>3. HistoryTyped
  BY Seconds DEF Init, HistoryTyped, LongAgo
<1>4. CacheSound
  BY DEF Init, Plugin!PolicyInit, Plugin!NotCached, CacheSound
<1>5. LookupSound /\ ReplySound
  BY Unreplied
     DEF Init, Plugin!PolicyInit, LookupSound, ReplySound, Plugin!Accepted
<1> QED
  BY <1>1, <1>2, <1>3, <1>4, <1>5 DEF Inv

LEMMA InvNext == Inv /\ [Next]_vars => Inv'
<1> SUFFICES ASSUME Inv, [Next]_vars PROVE Inv'
  OBVIOUS
<1>1. CASE UNCHANGED vars
  BY <1>1
     DEF vars, authority, plugin, payVars, Inv, PayInv, TablesTyped,
         TasksBilled, GrantsBilled, TaskBilled, SettledIn, Settled,
         LookupServed, HistoryTyped, CacheSound, LookupSound, ReplySound,
         Plugin!Accepted
<1> QED
  BY <1>1, LookupArrivesKeeps, HandlerStepKeeps, GiveUpKeeps, PluginStepKeeps,
     ClientStepKeeps, TickKeeps, CrashKeeps DEF Next

\* What is cached, looked up and replied stays in step with the authority.
LEMMA AlwaysInv == Spec => []Inv
  BY InvInit, InvNext, PTL DEF Spec

(* Only publishers that have settled an invoice get an event accepted, for   *)
(* every setting of the cache, order of the requests, fault and restart.     *)
THEOREM AcceptedHavePaid == Spec => []PublishersHavePaid
<1>1. Inv => PublishersHavePaid
  BY DEF Inv, ReplySound, PublishersHavePaid, Settled, SettledIn
<1> QED
  BY <1>1, AlwaysInv, PTL

(* No event is accepted on an answer older than the cache time, or than a    *)
(* slow lookup.                                                              *)
THEOREM VerdictsAreFresh == Spec => []AcceptedOnFreshVerdict
<1>1. Inv => AcceptedOnFreshVerdict
  BY DEF Inv, ReplySound, AcceptedOnFreshVerdict
<1> QED
  BY <1>1, AlwaysInv, PTL

(* A publisher that has paid long enough ago is not told to pay again, but   *)
(* for a failed lookup or query shortly before.                              *)
THEOREM PaidAreHonoured == Spec => []PaidIsHonoured
<1>1. ASSUME Inv PROVE PaidIsHonoured
  <2>1. CASE out.msg # "payment required"
    BY <2>1 DEF PaidIsHonoured
  <2>2. CASE out.msg = "payment required"
    <3>1. /\ out.authed \in Pubkeys
          /\ paidFor[out.authed] <= VerdictSecs \/ excused[out.authed] > 0
      BY <1>1, <2>2 DEF Inv, ReplySound
    <3>2. paidFor[out.authed] \in Nat /\ excused[out.authed] \in Nat
      BY <1>1, <3>1 DEF Inv, HistoryTyped
    <3>3. paidFor[out.authed] > VerdictSecs => excused[out.authed] > 0
      BY <3>1, <3>2, Seconds
    <3> QED
      BY <3>3 DEF PaidIsHonoured
  <2> QED
    BY <2>1, <2>2
<1> QED
  BY <1>1, AlwaysInv, PTL

=============================================================================
