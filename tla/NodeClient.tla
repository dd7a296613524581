----------------------------- MODULE NodeClient -----------------------------
(***************************************************************************)
(* The Grin node client of the authority (node.rs) before a chain that     *)
(* reorganises: get_kernel and get_tip are two calls to an endpoint, and   *)
(* the next endpoint is asked when one of them fails. The chain and the    *)
(* nodes are the environment. One kernel is looked up.                     *)
(***************************************************************************)
EXTENDS Naturals

CONSTANTS
  Endpoints,   \* number of endpoints in FLOONET_GRIN_NODE_URL
  ReorgDepth,  \* blocks a reorganisation of the chain replaces at most
  Burst,       \* blocks an endpoint gains at most between the two calls
  MinConf,     \* FLOONET_TRANSFER_MIN_CONF
  MaxHeight    \* bound of the chain

ASSUME NodeAssumption ==
  /\ Endpoints \in Nat /\ ReorgDepth \in Nat /\ Burst \in Nat
  /\ MinConf \in Nat /\ MaxHeight \in Nat

VARIABLES
  chain,   \* the heaviest chain: its height, and the height of the block that
           \* holds the kernel, or Unmined
  view,    \* view[e]: the chain endpoint e is on
  call,    \* the lookup in progress, or Idle
  answer   \* what the last lookup returned

Unmined == 0             \* the genesis block holds no payment
Unread  == MaxHeight + 1 \* a height that the answer does not carry as a number

Heights == 0 .. MaxHeight
Chain == [height : Heights, kernel : Heights]

Idle == [op |-> "idle", at |-> 0, step |-> "none", height |-> 0, seen |-> 0,
         failed |-> {}]

\* height and seen are what get_kernel found: the height of the kernel, and the
\* height of the endpoint then. failed is a history: the endpoints that were
\* asked and failed.
Call == [op : {"kernel", "tip"}, at : 1 .. Endpoints,
         step : {"get_kernel", "get_tip"}, height : Heights \cup {Unread},
         seen : Heights, failed : SUBSET (1 .. Endpoints)]

Answer == [op : {"none", "kernel", "tip"}, ok : BOOLEAN, found : BOOLEAN,
           conf : Nat, height : Heights \cup {Unread},
           failed : SUBSET (1 .. Endpoints)]

NoAnswer == [op |-> "none", ok |-> FALSE, found |-> FALSE, conf |-> 0,
             height |-> 0, failed |-> {}]

vars == <<chain, view, call, answer>>

-----------------------------------------------------------------------------
(* The chain and the nodes. A heavier chain is never a shorter one, and no   *)
(* node leaves its chain for a shorter one.                                  *)

WellFormed(c) == c.kernel <= c.height

\* Blocks that no reorganisation of c replaces any more are the same in b.
SettledAlike(b, c) ==
  \A k \in 1 .. b.height :
    k + ReorgDepth <= c.height => (b.kernel = k <=> c.kernel = k)

\* b is heavier than c, and forks off it in its last ReorgDepth blocks.
Outgrows(b, c) ==
  /\ WellFormed(b)
  /\ b.height \in {c.height, c.height + 1}
  /\ SettledAlike(b, c)

ChainGrows ==
  /\ \E b \in Chain : Outgrows(b, chain) /\ chain' = b
  /\ UNCHANGED <<view, call, answer>>

\* An endpoint moves on, to the heaviest chain or to a branch that lost.
EndpointMoves(e) ==
  /\ \E b \in Chain :
       /\ WellFormed(b) /\ SettledAlike(b, chain)
       /\ view[e].height <= b.height /\ b.height <= chain.height
       /\ call.op = "kernel" /\ call.step = "get_tip" /\ call.at = e
            => b.height <= call.seen + Burst
       /\ view' = [view EXCEPT ![e] = b]
  /\ UNCHANGED <<chain, call, answer>>

-----------------------------------------------------------------------------
(* NodeClient::kernel and NodeClient::tip_height *)

First(op) == IF op = "kernel" THEN "get_kernel" ELSE "get_tip"

Ask(op, e, failed) ==
  call' = [op |-> op, at |-> e, step |-> First(op), height |-> 0, seen |-> 0,
           failed |-> failed]

Return(op, found, conf, h) ==
  /\ call' = Idle
  /\ answer' = [op |-> op, ok |-> TRUE, found |-> found, conf |-> conf,
                height |-> h, failed |-> call.failed]

ReturnError(op, failed) ==
  /\ call' = Idle
  /\ answer' = [op |-> op, ok |-> FALSE, found |-> FALSE, conf |-> 0,
                height |-> 0, failed |-> failed]

\* The endpoints that have failed once the one asked now has.
Failed == call.failed \cup {call.at}

Start(op) ==
  /\ call = Idle
  /\ \/ Endpoints > 0 /\ Ask(op, 1, {}) /\ UNCHANGED answer
     \/ Endpoints = 0 /\ ReturnError(op, {})
  /\ UNCHANGED <<chain, view>>

\* MUTANT: the endpoint after the failed one is passed over.
EndpointFailsSkipping ==
  /\ call # Idle
  /\ \/ /\ call.at + 1 < Endpoints
        /\ Ask(call.op, call.at + 2, Failed)
        /\ UNCHANGED answer
     \/ /\ call.at + 1 >= Endpoints
        /\ ReturnError(call.op, Failed)
  /\ UNCHANGED <<chain, view>>

\* MUTANT: the endpoints are asked in a circle until one answers.
EndpointFailsRound ==
  /\ call # Idle
  /\ Ask(call.op, 1, Failed)
  /\ UNCHANGED <<chain, view, answer>>

\* MUTANT: the last endpoint is not told from the others.
EndpointFailsPastLast ==
  /\ call # Idle
  /\ Ask(call.op, call.at + 1, Failed)
  /\ UNCHANGED <<chain, view, answer>>

\* Transport error or timeout, HTTP status, undecodable body, error or Err.
EndpointFails ==
  /\ call # Idle
  /\ \/ /\ call.at < Endpoints
        /\ Ask(call.op, call.at + 1, Failed)
        /\ UNCHANGED answer
     \/ /\ call.at = Endpoints
        /\ ReturnError(call.op, Failed)
  /\ UNCHANGED <<chain, view>>

\* kernel_one: a null answer ends the lookup, no other endpoint is asked.
GetKernel ==
  LET v == view[call.at] IN
  /\ call.step = "get_kernel"
  /\ \/ /\ v.kernel = Unmined
        /\ Return("kernel", FALSE, 0, 0)
     \/ /\ v.kernel # Unmined
        /\ \E h \in {v.kernel, Unread} :
             call' = [call EXCEPT !.step = "get_tip", !.height = h,
                                  !.seen = v.height]
        /\ UNCHANGED answer
  /\ UNCHANGED <<chain, view>>

\* (tip - h, saturating) + 1, and 1 when a height cannot be read.
Confirmations(h, tip) ==
  IF h = Unread \/ tip = Unread \/ tip < h THEN 1 ELSE tip - h + 1

\* MUTANT: the tip of whichever endpoint answers first.
GetTipForDepthAnywhere ==
  /\ call.op = "kernel" /\ call.step = "get_tip"
  /\ \E e \in 1 .. Endpoints :
       Return("kernel", TRUE, Confirmations(call.height, view[e].height),
              call.height)
  /\ UNCHANGED <<chain, view>>

\* kernel_one: the tip of the same endpoint, for the depth of the kernel.
GetTipForDepth ==
  /\ call.op = "kernel" /\ call.step = "get_tip"
  /\ \E tip \in {view[call.at].height, Unread} :
       Return("kernel", TRUE, Confirmations(call.height, tip), call.height)
  /\ UNCHANGED <<chain, view>>

\* tip_height: an answer without a height counts as a failure.
GetTip ==
  /\ call.op = "tip"
  /\ Return("tip", FALSE, 0, view[call.at].height)
  /\ UNCHANGED <<chain, view>>

LookupStep == GetKernel \/ GetTipForDepth \/ GetTip \/ EndpointFails

Init ==
  /\ chain = [height |-> 0, kernel |-> Unmined]
  /\ view = [e \in 1 .. Endpoints |-> chain]
  /\ call = Idle
  /\ answer = NoAnswer

Next ==
  \/ ChainGrows
  \/ \E e \in 1 .. Endpoints : EndpointMoves(e)
  \/ \E op \in {"kernel", "tip"} : Start(op)
  \/ LookupStep

Spec == Init /\ [][Next]_vars

\* Every call is answered or ends with reqwest's timeout.
FairSpec == Spec /\ WF_vars(LookupStep)

-----------------------------------------------------------------------------
TypeOK ==
  /\ chain \in Chain /\ WellFormed(chain)
  /\ view \in [1 .. Endpoints -> Chain]
  /\ call \in Call \cup {Idle}
  /\ answer \in Answer

(* A kernel reported with enough confirmations for a claim is on the chain   *)
(* at the height reported, and stays there whatever the chain does later:    *)
(* the two calls may see different chains, the endpoint may lag or be on a   *)
(* branch that loses (node.rs:96-125, transfer.rs:523-565).                  *)
ConfirmedStays ==
  answer.found /\ answer.conf >= MinConf => chain.kernel = answer.height

(* A lookup fails only when every endpoint of the list has been asked and    *)
(* has failed it, none skipped; a claim is told that the node is unavailable *)
(* for no smaller reason (node.rs:128-159).                                  *)
FailsOnlyAfterAll ==
  answer.op # "none" /\ ~answer.ok => answer.failed = 1 .. Endpoints

(* Every lookup ends: each endpoint is asked at most once (node.rs:130-159). *)
LookupEnds == call # Idle ~> call = Idle

-----------------------------------------------------------------------------
(* What the code does not give.                                              *)

(* Tips that offers are closed at do not fall: false, the second endpoint    *)
(* may lag behind the first (node.rs:143-159).                               *)
TipsNeverFall ==
  [][answer'.op = "tip" /\ answer'.ok /\ answer.op = "tip" /\ answer.ok
       => answer.height <= answer'.height]_vars

=============================================================================
