---------------------------- MODULE MCPaidAccess ----------------------------
(***************************************************************************)
(* Finite instances of PaidAccess for TLC.                                 *)
(***************************************************************************)
EXTENDS PaidAccess, TLC

CONSTANTS alice, w1, w2, i1, i2

Event(kind, p, tags) == [kind |-> kind, author |-> p, tags |-> tags]

Value(name, v) == [name |-> name, value |-> v]

Wrap(tags) == Event("wrap", alice, tags)

\* A gift wrap that passes the static checks, and one that each check denies.
Wraps ==
  {Wrap(tags) :
     tags \in {<<Value("p", "hex")>>, <<>>, <<Value("p", "other")>>,
               <<Value("p", "hex"), Value("p", "hex")>>,
               <<Value("p", "hex"), Value("expiration", "other")>>,
               <<Value("p", "hex"), Value("other", "other")>>}}

\* Gift wraps that pass against the words of the documentation.
OddWraps ==
  {Wrap(tags) : tags \in {<<Value("p", "hex_newline")>>,
                          <<Value("p", "hex"), Value("p", "none")>>}}

AccessSymmetry == Permutations(Workers) \cup Permutations(Invoices)

=============================================================================
