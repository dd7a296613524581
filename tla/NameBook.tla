------------------------------ MODULE NameBook ------------------------------
(***************************************************************************)
(* What the name authority promises, with no requests, statements or node  *)
(* in sight: a book of names in which a key holds at most one, and a       *)
(* ledger of sales in which every offer and every payment serves once.     *)
(***************************************************************************)
CONSTANTS Names, Pubkeys, Offers, Excesses, None

VARIABLES
  owner,      \* owner[n]: the key n is bound to, or None
  ledger      \* completed sales [offer, excess]

bookVars == <<owner, ledger>>

Unnamed(p) == \A n \in Names : owner[n] # p

BookInit ==
  /\ owner = [n \in Names |-> None]
  /\ ledger = {}

\* A key without a name takes a free one.
Claim(n, p) ==
  /\ owner[n] = None /\ Unnamed(p)
  /\ owner' = [owner EXCEPT ![n] = p]
  /\ UNCHANGED ledger

Release(n) ==
  /\ owner[n] # None
  /\ owner' = [owner EXCEPT ![n] = None]
  /\ UNCHANGED ledger

\* The name passes from seller to buyer and the payment is entered, at once.
Sell(o, e) ==
  /\ owner[o.name] = o.seller
  /\ Unnamed(o.buyer) \/ o.buyer = o.seller
  /\ \A r \in ledger : r.offer # o /\ r.excess # e
  /\ owner' = [owner EXCEPT ![o.name] = o.buyer]
  /\ ledger' = ledger \cup {[offer |-> o, excess |-> e]}

BookNext ==
  \/ \E n \in Names, p \in Pubkeys : Claim(n, p)
  \/ \E n \in Names : Release(n)
  \/ \E o \in Offers, e \in Excesses : Sell(o, e)

BookSpec == BookInit /\ [][BookNext]_bookVars

=============================================================================
