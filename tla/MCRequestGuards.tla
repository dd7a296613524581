--------------------------- MODULE MCRequestGuards ---------------------------
(***************************************************************************)
(* Finite instances of RequestGuards for TLC: an event that registers,     *)
(* dated now, and one that releases, post-dated by what the age check      *)
(* admits at time 0. Reads count for a second, writes for two, and a       *)
(* released name for three.                                                *)
(***************************************************************************)
EXTENDS RequestGuards, TLC

CONSTANTS e1, e2, w1, w2, alice, ip

MCCreated == [e \in Events |-> IF e = e2 THEN 1 ELSE 0]

MCSigned == [e \in Events |->
  [key |-> alice, op |-> IF e = e2 THEN "unregister" ELSE "register"]]

MCWindow == [b \in Limits \cup {"namechange"} |->
  CASE b = "read" -> 1 [] b = "namechange" -> 3 [] OTHER -> 2]

MCMax == [b \in Limits |-> IF b = "reg" THEN 2 ELSE 1]

MCLetters == {"b", "l", "o", "s"}

\* lob.example, with the names lob, l0b, l-o8, s0s, -b and 1ob.
MCDomain == <<<<"l", "o", "b">>, <<"e", "x">>>>

MCSpellings == {<<"l", "o", "b">>, <<"l", "0", "b">>, <<"l", "-", "o", "8">>,
                <<"s", "0", "s">>, <<"-", "b">>, <<"1", "o", "b">>}

GuardsSymmetry == Permutations(Workers)

=============================================================================
