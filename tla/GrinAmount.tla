----------------------------- MODULE GrinAmount -----------------------------
(***************************************************************************)
(* GRIN amounts (config.rs): the decimal text an operator writes, and the  *)
(* number of nanogrin the program counts in. A text is its digits before   *)
(* and after the dot; junk says that it has anything else in it, a sign or *)
(* a comma. A text without a dot has no digits after it.                   *)
(***************************************************************************)
EXTENDS Integers, Sequences, FiniteSetsExt

CONSTANTS
  Decimals,   \* decimal places of one GRIN (9)
  MaxU64      \* the largest u64

Digit == 0 .. 9

Amount == [whole : Seq(Digit), frac : Seq(Digit), junk : BOOLEAN]

ASSUME AmountAssumption == Decimals \in Nat /\ MaxU64 \in Nat

TenTo(k) ==
  LET power[i \in 0 .. k] == IF i = 0 THEN 1 ELSE 10 * power[i - 1]
  IN  power[k]

Nanogrin == TenTo(Decimals)

Invalid == -1

Number(digits) ==
  LET read[i \in 0 .. Len(digits)] ==
        IF i = 0 THEN 0 ELSE 10 * read[i - 1] + digits[i]
  IN  read[Len(digits)]

Malformed(a) ==
  \/ a.junk
  \/ a.whole = <<>> /\ a.frac = <<>>
  \/ Len(a.frac) > Decimals

\* MUTANT: the digits after the dot are not scaled to the places they miss.
grin_to_nanogrin_unscaled(a) ==
  IF Malformed(a) THEN Invalid
                  ELSE Number(a.whole) * Nanogrin + Number(a.frac)

\* parse, checked_mul and checked_add each refuse what exceeds a u64, and the
\* sum exceeds it if one of them does.
grin_to_nanogrin(a) ==
  LET frac == Number(a.frac) * TenTo(Decimals - Len(a.frac))
      nano == Number(a.whole) * Nanogrin + frac
  IN IF Malformed(a) \/ nano > MaxU64 THEN Invalid ELSE nano

\* The last width digits of n, with zeros in front.
Padded(n, width) == [k \in 1 .. width |-> (n \div TenTo(width - k)) % 10]

Width(n) == CHOOSE k \in 1 .. n + 1 :
              n < TenTo(k) /\ (k = 1 \/ n >= TenTo(k - 1))

TrimEndZeros(digits) ==
  SubSeq(digits, 1, Max({0} \cup {k \in DOMAIN digits : digits[k] # 0}))

nanogrin_to_grin(nano) ==
  LET whole == nano \div Nanogrin IN
  [whole |-> Padded(whole, Width(whole)),
   frac  |-> TrimEndZeros(Padded(nano % Nanogrin, Decimals)),
   junk  |-> FALSE]

-----------------------------------------------------------------------------
(* The reference: an amount is the number all its digits make, divided by    *)
(* ten for every digit after the dot. nano is exact for a when both agree    *)
(* without a division.                                                       *)

Exact(nano, a) ==
  nano * TenTo(Len(a.frac)) = Number(a.whole \o a.frac) * Nanogrin

=============================================================================
