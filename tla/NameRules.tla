------------------------------ MODULE NameRules ------------------------------
(***************************************************************************)
(* Which names may be claimed (names.rs): length and characters, the       *)
(* reserved terms, and the folding that keeps look-alikes of them out. A   *)
(* name is a sequence of characters, each a string of length one.          *)
(***************************************************************************)
EXTENDS Naturals, Sequences

CONSTANTS
  Letters,         \* a to z
  NameMin, NameMax, \* FLOONET_NAME_MIN, FLOONET_NAME_MAX
  Domain,          \* FLOONET_DOMAIN as the sequence of its labels
  BuiltIn, Listed  \* RESERVED, and the lines of the reserved file

ASSUME NameRulesAssumption ==
  NameMin \in Nat \ {0} /\ NameMax \in Nat /\ NameMin <= NameMax

Digits     == {"0", "1", "2", "3", "4", "5", "6", "7", "8", "9"}
Separators == {".", "_", "-"}

AlphaNum(c) == c \in Letters \cup Digits

valid_name(n) ==
  /\ Len(n) \in NameMin .. NameMax
  /\ \A i \in 1 .. Len(n) : n[i] \in Letters \cup Digits \cup Separators
  /\ AlphaNum(n[1]) /\ AlphaNum(n[Len(n)])

\* The letter a digit is read as; 2 and 6 are left alone.
Glyph(c) ==
  CASE c = "0" -> "o" [] c = "1" -> "i" [] c = "3" -> "e" [] c = "4" -> "a"
    [] c = "5" -> "s" [] c = "7" -> "t" [] c = "8" -> "b" [] c = "9" -> "g"
    [] OTHER -> c

NoSeparators(n) == SelectSeq(n, LAMBDA c : c \notin Separators)

fold_lookalike(n) ==
  LET kept == NoSeparators(n) IN [i \in 1 .. Len(kept) |-> Glyph(kept[i])]

\* The labels of the domain but the last, or the only one.
domain_reserved ==
  LET keep == IF Len(Domain) > 1 THEN Len(Domain) - 1 ELSE Len(Domain)
  IN  {Domain[i] : i \in 1 .. keep}

Reserved == BuiltIn \cup domain_reserved \cup Listed

is_reserved(n) == \E r \in Reserved : fold_lookalike(n) = fold_lookalike(r)

-----------------------------------------------------------------------------
\* What a reader may take for the same name, letter by letter, whatever the
\* code folds. A 1 is read as an i or as an l.
Alike == {{"0", "o"}, {"1", "i"}, {"1", "l"}, {"3", "e"}, {"4", "a"},
          {"5", "s"}, {"7", "t"}, {"8", "b"}, {"9", "g"}}

LooksLike(n, r) ==
  LET a == NoSeparators(n)
      b == NoSeparators(r)
  IN  /\ Len(a) = Len(b)
      /\ \A i \in 1 .. Len(a) : a[i] = b[i] \/ {a[i], b[i]} \in Alike

=============================================================================
