-------------------------- MODULE NodeClientProofs --------------------------
(***************************************************************************)
(* Proofs about NodeClient, for any number of endpoints, any depth of      *)
(* reorganisations and any growth between two calls.                       *)
(***************************************************************************)
EXTENDS NodeClient, TLAPS

\* Blocks below the last ReorgDepth of b are those of c, and c is as high.
Behind(b, c) ==
  /\ b.height <= c.height
  /\ \A k \in 1 .. b.height :
       k + ReorgDepth <= b.height => (b.kernel = k <=> c.kernel = k)

ViewsBehind ==
  \A e \in 1 .. Endpoints : WellFormed(view[e]) /\ Behind(view[e], chain)

Asking == call.op = "kernel" /\ call.step = "get_tip"

\* The kernel get_kernel found is on the chain if it was deep enough for the
\* endpoint then, and the endpoint has gained no more than Burst blocks since.
FoundSettled ==
  Asking =>
    /\ call.seen <= chain.height
    /\ view[call.at].height <= call.seen + Burst
    /\ call.height # Unread =>
         /\ call.height \in 1 .. call.seen
         /\ call.height + ReorgDepth <= call.seen => chain.kernel = call.height

\* The depth of a reported kernel leaves room for the reorganisation and for
\* what the endpoint gained between the calls.
DepthSuffices == MinConf > 1 /\ MinConf > ReorgDepth + Burst

\* A kernel reported as confirmed lies too deep for a reorganisation.
ReportedSettled ==
  DepthSuffices /\ answer.found /\ answer.conf >= MinConf =>
    /\ answer.height \in 1 .. MaxHeight
    /\ answer.height + ReorgDepth <= chain.height
    /\ chain.kernel = answer.height

\* The endpoints are asked in the order of the list.
AskedInTurn == call # Idle => call.failed = 1 .. call.at - 1

IInv ==
  /\ TypeOK /\ ViewsBehind /\ FoundSettled /\ ReportedSettled
  /\ AskedInTurn /\ FailsOnlyAfterAll

USE DEF Heights, Chain, Unmined, Unread

-----------------------------------------------------------------------------
(* A branch that agrees with the settled blocks of c is behind c. *)
LEMMA BranchBehind ==
  ASSUME NEW b \in Chain, NEW c \in Chain,
         SettledAlike(b, c), b.height <= c.height
  PROVE  Behind(b, c)
BY NodeAssumption DEF SettledAlike, Behind

(* What is settled in b stays settled when c reorganises: an outgrowing      *)
(* branch replaces none of the blocks b has settled.                         *)
LEMMA BehindStays ==
  ASSUME NEW b \in Chain, NEW c \in Chain, NEW d \in Chain,
         Behind(b, c), Outgrows(d, c)
  PROVE  Behind(b, d)
BY NodeAssumption DEF Behind, Outgrows, SettledAlike

(* A kernel that is settled on the chain stays where it is. *)
LEMMA SettledStays ==
  ASSUME NEW c \in Chain, NEW d \in Chain, NEW k \in 1 .. MaxHeight,
         Outgrows(d, c), k + ReorgDepth <= c.height, c.kernel = k
  PROVE  d.kernel = k
BY NodeAssumption DEF Outgrows, SettledAlike

-----------------------------------------------------------------------------
LEMMA InitIInv == Init => IInv
<1> SUFFICES ASSUME Init PROVE IInv
  OBVIOUS
<1>1. TypeOK
  BY NodeAssumption
     DEF Init, TypeOK, WellFormed, Idle, NoAnswer, Answer
<1>2. ViewsBehind
  BY NodeAssumption DEF Init, ViewsBehind, WellFormed, Behind
<1>3. FoundSettled /\ ReportedSettled
  BY DEF Init, FoundSettled, Asking, ReportedSettled, Idle, NoAnswer
<1>4. AskedInTurn /\ FailsOnlyAfterAll
  BY DEF Init, AskedInTurn, FailsOnlyAfterAll, NoAnswer
<1> QED
  BY <1>1, <1>2, <1>3, <1>4 DEF IInv

\* What a lookup step may not disturb.
LEMMA ChainGrowsIInv == IInv /\ ChainGrows => IInv'
<1> SUFFICES ASSUME IInv, ChainGrows PROVE IInv'
  OBVIOUS
<1>1. PICK d \in Chain : Outgrows(d, chain) /\ chain' = d
  BY DEF ChainGrows
<1>2. UNCHANGED <<view, call, answer>>
  BY DEF ChainGrows
<1>3. TypeOK'
  BY <1>1, <1>2 DEF IInv, TypeOK, Outgrows
<1>4. ViewsBehind'
  BY <1>1, <1>2, BehindStays DEF IInv, TypeOK, ViewsBehind
<1>5. chain.height <= chain'.height
  BY <1>1, NodeAssumption DEF Outgrows, IInv, TypeOK
<1>6. FoundSettled'
  <2> SUFFICES ASSUME Asking PROVE FoundSettled'
    BY <1>2 DEF FoundSettled, Asking
  <2>1. call.seen \in Nat /\ chain.height \in Nat /\ chain'.height \in Nat
    BY <1>1, NodeAssumption DEF IInv, TypeOK, Call, Idle, Asking
  <2>2. call.seen <= chain'.height
    BY <1>5, <2>1 DEF IInv, FoundSettled
  <2>3. view[call.at].height <= call.seen + Burst
    BY DEF IInv, FoundSettled
  <2>4. ASSUME call.height # Unread
        PROVE  /\ call.height \in 1 .. call.seen
               /\ call.height + ReorgDepth <= call.seen
                    => chain'.kernel = call.height
    <3>1. call.height \in 1 .. call.seen /\ call.height \in 1 .. MaxHeight
      BY <2>1, <2>4, NodeAssumption DEF IInv, FoundSettled, TypeOK
    <3>2. ASSUME call.height + ReorgDepth <= call.seen
          PROVE  chain'.kernel = call.height
      <4>1. chain.kernel = call.height /\ call.height + ReorgDepth <= chain.height
        BY <2>1, <2>4, <3>1, <3>2, NodeAssumption DEF IInv, FoundSettled
      <4> QED
        BY <1>1, <3>1, <4>1, SettledStays DEF IInv, TypeOK
    <3> QED
      BY <3>1, <3>2
  <2> QED
    BY <1>2, <2>2, <2>3, <2>4 DEF FoundSettled
<1>7. ReportedSettled'
  <2> SUFFICES ASSUME DepthSuffices, answer.found, answer.conf >= MinConf
               PROVE  ReportedSettled'
    BY <1>2 DEF ReportedSettled
  <2>1. /\ answer.height \in 1 .. MaxHeight
        /\ answer.height + ReorgDepth <= chain.height
        /\ chain.kernel = answer.height
    BY DEF IInv, ReportedSettled
  <2>2. chain'.kernel = answer.height
    BY <1>1, <2>1, SettledStays DEF IInv, TypeOK
  <2>3. answer.height + ReorgDepth <= chain'.height
    BY <1>1, <1>5, <2>1, NodeAssumption DEF IInv, TypeOK
  <2> QED
    BY <1>2, <2>1, <2>2, <2>3 DEF ReportedSettled
<1>8. AskedInTurn' /\ FailsOnlyAfterAll'
  BY <1>2 DEF IInv, AskedInTurn, FailsOnlyAfterAll
<1> QED
  BY <1>3, <1>4, <1>6, <1>7, <1>8 DEF IInv

LEMMA EndpointMovesIInv ==
  ASSUME IInv, NEW e \in 1 .. Endpoints, EndpointMoves(e)
  PROVE  IInv'
<1>1. PICK b \in Chain :
        /\ WellFormed(b) /\ SettledAlike(b, chain)
        /\ b.height <= chain.height
        /\ Asking /\ call.at = e => b.height <= call.seen + Burst
        /\ view' = [view EXCEPT ![e] = b]
  BY DEF EndpointMoves, Asking
<1>2. UNCHANGED <<chain, call, answer>>
  BY DEF EndpointMoves
<1>3. TypeOK'
  BY <1>1, <1>2 DEF IInv, TypeOK
<1>4. Behind(b, chain)
  BY <1>1, BranchBehind DEF IInv, TypeOK
<1>5. ViewsBehind'
  BY <1>1, <1>2, <1>4 DEF IInv, TypeOK, ViewsBehind
<1>6. FoundSettled'
  <2> SUFFICES ASSUME Asking PROVE FoundSettled'
    BY <1>2 DEF FoundSettled, Asking
  <2>1. call.at \in 1 .. Endpoints
    BY DEF IInv, TypeOK, Call, Idle, Asking
  <2>2. view'[call.at].height <= call.seen + Burst
    BY <1>1, <2>1 DEF IInv, TypeOK, FoundSettled
  <2> QED
    BY <1>2, <2>2 DEF IInv, FoundSettled, Asking
<1>7. ReportedSettled'
  BY <1>2 DEF IInv, ReportedSettled
<1>8. AskedInTurn' /\ FailsOnlyAfterAll'
  BY <1>2 DEF IInv, AskedInTurn, FailsOnlyAfterAll
<1> QED
  BY <1>3, <1>5, <1>6, <1>7, <1>8 DEF IInv

-----------------------------------------------------------------------------
(* Steps of a lookup leave the chain and the nodes alone. *)

\* A question begins without what get_kernel has found.
LEMMA AskIInv ==
  ASSUME IInv, NEW op \in {"kernel", "tip"}, NEW e \in 1 .. Endpoints,
         Ask(op, e, 1 .. e - 1), UNCHANGED <<chain, view, answer>>
  PROVE  IInv'
<1>1. TypeOK'
  <2>1. 1 .. e - 1 \in SUBSET (1 .. Endpoints)
    BY NodeAssumption
  <2> QED
    BY <2>1, NodeAssumption DEF IInv, TypeOK, Ask, First, Call
<1>2. ViewsBehind' /\ ReportedSettled' /\ FailsOnlyAfterAll'
  BY DEF IInv, ViewsBehind, ReportedSettled, FailsOnlyAfterAll
<1>3. FoundSettled' /\ AskedInTurn'
  BY DEF FoundSettled, Asking, Ask, First, AskedInTurn
<1> QED
  BY <1>1, <1>2, <1>3 DEF IInv

\* A failed lookup reports no kernel.
LEMMA ReturnErrorIInv ==
  ASSUME IInv, NEW op \in {"kernel", "tip"},
         ReturnError(op, 1 .. Endpoints), UNCHANGED <<chain, view>>
  PROVE  IInv'
<1>1. TypeOK'
  BY NodeAssumption DEF IInv, TypeOK, ReturnError, Answer
<1>2. ViewsBehind' /\ FoundSettled' /\ ReportedSettled'
  BY DEF IInv, ViewsBehind, FoundSettled, Asking, ReportedSettled, ReturnError,
         Idle
<1>3. AskedInTurn' /\ FailsOnlyAfterAll'
  BY DEF AskedInTurn, FailsOnlyAfterAll, ReturnError
<1> QED
  BY <1>1, <1>2, <1>3 DEF IInv

\* An answered lookup is no failed one.
LEMMA ReturnInTurn ==
  ASSUME NEW op, NEW found, NEW conf, NEW h, Return(op, found, conf, h)
  PROVE  AskedInTurn' /\ FailsOnlyAfterAll'
BY DEF Return, AskedInTurn, FailsOnlyAfterAll

LEMMA StartIInv ==
  ASSUME IInv, NEW op \in {"kernel", "tip"}, Start(op)
  PROVE  IInv'
<1>1. CASE Endpoints > 0 /\ Ask(op, 1, {}) /\ UNCHANGED answer
  <2>1. 1 .. 1 - 1 = {} /\ 1 \in 1 .. Endpoints
    BY <1>1, NodeAssumption
  <2>2. UNCHANGED <<chain, view, answer>>
    BY <1>1 DEF Start
  <2>3. Ask(op, 1, 1 .. 1 - 1)
    BY <1>1, <2>1
  <2> QED
    BY <2>1, <2>2, <2>3, AskIInv
<1>2. CASE Endpoints = 0 /\ ReturnError(op, {})
  <2>1. 1 .. Endpoints = {}
    BY <1>2
  <2>2. UNCHANGED <<chain, view>>
    BY DEF Start
  <2> QED
    BY <1>2, <2>1, <2>2, ReturnErrorIInv
<1> QED
  BY <1>1, <1>2 DEF Start

LEMMA EndpointFailsIInv == IInv /\ EndpointFails => IInv'
<1> SUFFICES ASSUME IInv, EndpointFails PROVE IInv'
  OBVIOUS
<1>1. call.op \in {"kernel", "tip"} /\ call.at \in 1 .. Endpoints
  BY DEF IInv, TypeOK, EndpointFails, Call
<1>2. Failed = 1 .. call.at
  <2>1. call.failed = 1 .. call.at - 1
    BY DEF IInv, AskedInTurn, EndpointFails
  <2> QED
    BY <1>1, <2>1, NodeAssumption DEF Failed
<1>3. UNCHANGED <<chain, view>>
  BY DEF EndpointFails
<1>4. CASE call.at < Endpoints /\ Ask(call.op, call.at + 1, Failed)
            /\ UNCHANGED answer
  <2>1. call.at + 1 \in 1 .. Endpoints /\ (call.at + 1) - 1 = call.at
    BY <1>1, <1>4, NodeAssumption
  <2>2. Ask(call.op, call.at + 1, 1 .. (call.at + 1) - 1)
    BY <1>2, <1>4, <2>1
  <2> QED
    BY <1>1, <1>3, <1>4, <2>1, <2>2, AskIInv
<1>5. CASE call.at = Endpoints /\ ReturnError(call.op, Failed)
  <2>1. ReturnError(call.op, 1 .. Endpoints)
    BY <1>2, <1>5
  <2> QED
    BY <1>1, <1>3, <2>1, ReturnErrorIInv
<1> QED
  BY <1>4, <1>5 DEF EndpointFails

LEMMA GetKernelIInv == IInv /\ GetKernel => IInv'
<1> SUFFICES ASSUME IInv, GetKernel PROVE IInv'
  OBVIOUS
<1> DEFINE v == view[call.at]
<1>1. /\ call \in Call /\ call.at \in 1 .. Endpoints /\ v \in Chain
      /\ WellFormed(v) /\ Behind(v, chain)
  BY DEF IInv, TypeOK, ViewsBehind, GetKernel, Idle, Call
<1>2. ViewsBehind'
  BY DEF IInv, ViewsBehind, GetKernel
<1>3. CASE v.kernel = Unmined
            /\ Return("kernel", FALSE, 0, 0)
  <2>1. TypeOK'
    BY <1>1, <1>3, NodeAssumption
       DEF IInv, TypeOK, GetKernel, Return, Answer, Call
  <2>2. FoundSettled' /\ ReportedSettled'
    BY <1>3 DEF FoundSettled, Asking, ReportedSettled, Return, Idle
  <2> QED
    BY <1>2, <1>3, <2>1, <2>2, ReturnInTurn DEF IInv
<1>4. ASSUME v.kernel # Unmined, UNCHANGED answer,
             NEW h \in {v.kernel, Unread},
             call' = [call EXCEPT !.step = "get_tip", !.height = h,
                                  !.seen = v.height]
      PROVE  IInv'
  <2>1. TypeOK'
    BY <1>1, <1>4, NodeAssumption DEF IInv, TypeOK, GetKernel, Call
  <2>2. call'.seen <= chain'.height
    BY <1>1, <1>4 DEF Behind, GetKernel, Call
  <2>3. view'[call'.at].height <= call'.seen + Burst
    BY <1>1, <1>4, NodeAssumption DEF GetKernel, Call
  <2>4. ASSUME call'.height # Unread
        PROVE  /\ call'.height \in 1 .. call'.seen
               /\ call'.height + ReorgDepth <= call'.seen
                    => chain'.kernel = call'.height
    <3>1. call'.height = v.kernel /\ call'.seen = v.height
      BY <1>1, <1>4, <2>4 DEF Call
    <3>2. v.kernel \in 1 .. v.height
      BY <1>1, <1>4, NodeAssumption DEF WellFormed
    <3>3. v.kernel + ReorgDepth <= v.height => chain.kernel = v.kernel
      BY <1>1, <3>2 DEF Behind
    <3> QED
      BY <3>1, <3>2, <3>3 DEF GetKernel
  <2>5. FoundSettled'
    BY <2>2, <2>3, <2>4 DEF FoundSettled
  <2>6. ReportedSettled'
    BY <1>4 DEF IInv, ReportedSettled, GetKernel
  <2>7. AskedInTurn' /\ FailsOnlyAfterAll'
    <3>1. /\ call # Idle /\ call'.failed = call.failed /\ call'.at = call.at
          /\ UNCHANGED answer
      BY <1>1, <1>4 DEF Call, Idle
    <3> QED
      BY <3>1 DEF IInv, AskedInTurn, FailsOnlyAfterAll
  <2> QED
    BY <1>2, <2>1, <2>5, <2>6, <2>7 DEF IInv
<1> QED
  BY <1>3, <1>4 DEF GetKernel

\* The depth counted from the tip of a later view still is the depth in the
\* view that held the kernel, less what the endpoint gained since.
LEMMA DepthLeavesRoom ==
  ASSUME NEW h \in Nat, NEW tip \in Nat, NEW seen \in Nat, DepthSuffices,
         tip <= seen + Burst, Confirmations(h, tip) >= MinConf
  PROVE  h # Unread /\ h + ReorgDepth <= seen
BY NodeAssumption DEF Confirmations, DepthSuffices

LEMMA GetTipForDepthIInv == IInv /\ GetTipForDepth => IInv'
<1> SUFFICES ASSUME IInv, GetTipForDepth PROVE IInv'
  OBVIOUS
<1>1. /\ call \in Call /\ call.at \in 1 .. Endpoints /\ Asking
      /\ view[call.at] \in Chain
  BY DEF IInv, TypeOK, GetTipForDepth, Idle, Call, Asking
<1>2. PICK tip \in {view[call.at].height, Unread} :
        Return("kernel", TRUE, Confirmations(call.height, tip), call.height)
  BY DEF GetTipForDepth
<1>3. /\ tip \in Nat /\ call.height \in Nat /\ call.seen \in Nat
      /\ Confirmations(call.height, tip) \in Nat
  BY <1>1, NodeAssumption DEF Call, Confirmations
<1>4. TypeOK'
  <2>1. /\ call.height \in Heights \cup {Unread}
        /\ call.failed \in SUBSET (1 .. Endpoints)
    BY <1>1 DEF Call
  <2>2. answer' \in Answer
    BY <1>2, <1>3, <2>1 DEF Return, Answer
  <2> QED
    BY <1>2, <2>2 DEF IInv, TypeOK, GetTipForDepth, Return
<1>5. ViewsBehind' /\ FoundSettled'
  BY <1>2 DEF IInv, ViewsBehind, FoundSettled, Asking, Return, Idle,
              GetTipForDepth
<1>6. ReportedSettled'
  <2> SUFFICES ASSUME DepthSuffices, Confirmations(call.height, tip) >= MinConf
               PROVE  /\ call.height \in 1 .. MaxHeight
                      /\ call.height + ReorgDepth <= chain.height
                      /\ chain.kernel = call.height
    BY <1>2 DEF ReportedSettled, Return, GetTipForDepth
  <2>1. tip # Unread
    BY <1>3, NodeAssumption DEF Confirmations, DepthSuffices
  <2>2. tip <= call.seen + Burst
    BY <1>1, <2>1 DEF IInv, FoundSettled
  <2>3. call.height # Unread /\ call.height + ReorgDepth <= call.seen
    BY <1>3, <2>2, DepthLeavesRoom
  <2>4. call.seen <= chain.height /\ call.height \in 1 .. call.seen
        /\ chain.kernel = call.height
    BY <1>1, <2>3 DEF IInv, FoundSettled
  <2> QED
    BY <1>1, <1>3, <2>3, <2>4, NodeAssumption DEF IInv, TypeOK, Call
<1> QED
  BY <1>2, <1>4, <1>5, <1>6, ReturnInTurn DEF IInv

LEMMA GetTipIInv == IInv /\ GetTip => IInv'
<1> SUFFICES ASSUME IInv, GetTip PROVE IInv'
  OBVIOUS
<1>1. call \in Call /\ call.at \in 1 .. Endpoints
  BY DEF IInv, TypeOK, GetTip, Idle, Call
<1>2. TypeOK'
  <2>1. /\ view[call.at].height \in Heights
        /\ call.failed \in SUBSET (1 .. Endpoints)
    BY <1>1 DEF IInv, TypeOK, Call
  <2>2. answer' \in Answer
    BY <2>1 DEF GetTip, Return, Answer
  <2> QED
    BY <2>2 DEF IInv, TypeOK, GetTip, Return
<1>3. ViewsBehind' /\ FoundSettled' /\ ReportedSettled'
  BY DEF IInv, ViewsBehind, FoundSettled, Asking, ReportedSettled, GetTip,
         Return, Idle
<1> QED
  BY <1>2, <1>3, ReturnInTurn DEF IInv, GetTip

-----------------------------------------------------------------------------
LEMMA NextIInv == IInv /\ [Next]_vars => IInv'
<1> SUFFICES ASSUME IInv, [Next]_vars PROVE IInv'
  OBVIOUS
<1>1. CASE ChainGrows
  BY <1>1, ChainGrowsIInv
<1>2. CASE \E e \in 1 .. Endpoints : EndpointMoves(e)
  BY <1>2, EndpointMovesIInv
<1>3. CASE \E op \in {"kernel", "tip"} : Start(op)
  BY <1>3, StartIInv
<1>4. CASE LookupStep
  BY <1>4, GetKernelIInv, GetTipForDepthIInv, GetTipIInv, EndpointFailsIInv
     DEF LookupStep
<1>5. CASE UNCHANGED vars
  BY <1>5 DEF vars, IInv, TypeOK, ViewsBehind, FoundSettled, Asking,
              ReportedSettled, AskedInTurn, FailsOnlyAfterAll
<1> QED
  BY <1>1, <1>2, <1>3, <1>4, <1>5 DEF Next

(* Every state of a lookup is one the code can represent: an endpoint of the *)
(* list is asked, heights are those of the chain (node.rs:51-159).           *)
THEOREM NodeTypeCorrect == Spec => []TypeOK
<1>1. IInv => TypeOK
  BY DEF IInv
<1> QED
  BY <1>1, InitIInv, NextIInv, PTL DEF Spec

(* A payment kernel a claim may rely on never leaves the chain, for every    *)
(* depth of reorganisations and growth between the two calls that the depth  *)
(* asked for exceeds (node.rs:96-125, transfer.rs:523-565).                  *)
THEOREM KernelConfirmedStays == DepthSuffices => (Spec => []ConfirmedStays)
<1>1. DepthSuffices /\ IInv => ConfirmedStays
  BY DEF IInv, ReportedSettled, ConfirmedStays
<1> SUFFICES ASSUME DepthSuffices PROVE Spec => []ConfirmedStays
  OBVIOUS
<1> QED
  BY <1>1, InitIInv, NextIInv, PTL DEF Spec

(* A lookup reports an error only when every endpoint of the list was asked  *)
(* and failed it, for a list of any length (node.rs:128-159).                *)
THEOREM LookupFailsOnlyAfterAll == Spec => []FailsOnlyAfterAll
<1>1. IInv => FailsOnlyAfterAll
  BY DEF IInv
<1> QED
  BY <1>1, InitIInv, NextIInv, PTL DEF Spec

=============================================================================
