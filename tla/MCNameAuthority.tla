--------------------------- MODULE MCNameAuthority ---------------------------
(***************************************************************************)
(* Finite instances of NameAuthority for TLC.                              *)
(***************************************************************************)
EXTENDS NameAuthority, TLC

CONSTANTS alice, bob, carol, goblin, troll, w1, w2, addrA, addrB, k1, k2

\* Alice sells "goblin" to Bob for 1 nanogrin until time 1.
OfferBob == [name |-> goblin, seller |-> alice, buyer |-> bob, price |-> 1,
             address |-> addrA, expiration |-> 1]

\* The same name and address offered to Carol.
OfferCarol == [OfferBob EXCEPT !.buyer = carol]

\* A price beyond i64 (MaxI64 is 1): it is stored as -2.
OfferHuge == [OfferBob EXCEPT !.price = 2]

\* The terms of OfferBob once more, in an event of its own.
OfferBobAgain == [OfferBob EXCEPT !.expiration = 2]

OneOffer    == {OfferBob}
TwoOffers   == {OfferBob, OfferCarol}
TwiceBob    == {OfferBob, OfferBobAgain}
PriceOffers == {OfferBob, OfferHuge}
NoOffers    == {}

Proof(e, amount, a, s) ==
  [excess |-> e, amount |-> amount, address |-> a, signed |-> s]

GoodProof  == {Proof(k1, 1, addrA, TRUE)}
\* A second payment that only an unsigned proof vouches for.
MixedProofs == GoodProof \cup {Proof(k2, 1, addrA, FALSE)}
PriceProofs == GoodProof \cup {Proof(k1, 2, addrA, TRUE)}
NoProofs  == {}

WorkerSymmetry == Permutations(Workers)

=============================================================================
