------------------------------ MODULE Induction ------------------------------
(***************************************************************************)
(* Induction and definition by recursion over the numbers, stated of sets  *)
(* and of functions, so that the provers can instantiate them: the set of  *)
(* the numbers a statement holds of takes the place of the statement, and  *)
(* the function that makes a step the place of the step. All of it comes   *)
(* from the well-foundedness of the order of the naturals.                 *)
(***************************************************************************)
EXTENDS Integers, Sequences, WellFoundedInduction, TLAPS

Below == {p \in Nat \X Nat : p[1] < p[2]}

LEMMA BelowWellFounded == IsWellFoundedOn(Below, Nat)
BY NatLessThanWellFounded, Zenon DEF OpToRel, Below

(* A set of numbers that holds 0, and the successor of each it holds, holds  *)
(* them all.                                                                 *)
LEMMA SetInduction ==
  ASSUME NEW S, 0 \in S, \A n \in Nat : n \in S => n + 1 \in S
  PROVE  \A n \in Nat : n \in S
<1> SUFFICES ASSUME NEW n \in Nat, n \notin S PROVE FALSE
  OBVIOUS
<1> DEFINE T == Nat \ S
<1>1. \E x \in T : \A y \in T : ~(<<y, x>> \in Below)
  <2>1. T \subseteq Nat /\ T # {}
    OBVIOUS
  <2> HIDE DEF T
  <2> QED
    BY <2>1, BelowWellFounded, WFMin
<1>2. PICK x \in T : \A y \in T : ~(<<y, x>> \in Below)
  BY <1>1
<1>3. \A y \in Nat : y < x => <<y, x>> \in Below
  <2> SUFFICES ASSUME NEW y \in Nat, y < x PROVE <<y, x>> \in Below
    OBVIOUS
  <2>1. <<y, x>> \in Nat \X Nat /\ <<y, x>>[1] = y /\ <<y, x>>[2] = x
    BY <1>2
  <2> QED
    BY <2>1 DEF Below
<1>4. x \in Nat /\ x # 0 /\ x \notin S
  BY <1>2
<1>5. x - 1 \in Nat /\ x - 1 < x /\ (x - 1) + 1 = x
  BY <1>4
<1>6. x - 1 \in S
  BY <1>2, <1>3, <1>5
<1> QED
  BY <1>4, <1>5, <1>6

\* f, a function on 0 .. n, starts at base and goes on by step.
Steps(f, base, n, step) ==
  f[0] = base /\ \A i \in 1 .. n : f[i] = step[<<f[i - 1], i>>]

(* A start and a step define a function on 0 .. n.                           *)
LEMMA FunctionRecursion ==
  ASSUME NEW V, NEW base \in V, NEW n \in Nat,
         NEW step \in [V \X (1 .. n) -> V]
  PROVE  \E f \in [0 .. n -> V] : Steps(f, base, n, step)
<1> USE DEF Steps
<1> DEFINE Upto(m) == \E f \in [0 .. m -> V] : Steps(f, base, m, step)
           S == {m \in Nat : m <= n => Upto(m)}
<1>1. Upto(0)
  <2> DEFINE f == [i \in 0 .. 0 |-> base]
  <2>1. f \in [0 .. 0 -> V] /\ f[0] = base /\ \A i \in 1 .. 0 : FALSE
    OBVIOUS
  <2> HIDE DEF f
  <2> QED
    BY <2>1
<1>2. ASSUME NEW m \in Nat, m \in S, m + 1 <= n PROVE Upto(m + 1)
  <2>1. PICK f \in [0 .. m -> V] : Steps(f, base, m, step)
    BY <1>2
  <2>2. f[m] \in V /\ m + 1 \in 1 .. n
    BY <1>2, <2>1
  <2> DEFINE last == step[<<f[m], m + 1>>]
             g == [i \in 0 .. m + 1 |-> IF i = m + 1 THEN last ELSE f[i]]
  <2>3. last \in V
    <3>1. <<f[m], m + 1>> \in V \X (1 .. n)
      BY <2>2
    <3> QED
      BY <3>1
  <2> HIDE DEF last
  <2>4. g \in [0 .. m + 1 -> V] /\ g[0] = base
    BY <2>1, <2>3
  <2>5. \A i \in 1 .. m + 1 : g[i] = step[<<g[i - 1], i>>]
    <3> SUFFICES ASSUME NEW i \in 1 .. m + 1 PROVE g[i] = step[<<g[i - 1], i>>]
      OBVIOUS
    <3>1. g[i - 1] = f[i - 1]
      OBVIOUS
    <3>2. CASE i = m + 1
      <4>1. i - 1 = m /\ g[i] = last
        BY <3>2
      <4> QED
        BY <3>1, <3>2, <4>1 DEF last
    <3>3. CASE i \in 1 .. m
      BY <2>1, <3>1, <3>3
    <3> QED
      BY <3>2, <3>3
  <2> QED
    BY <2>4, <2>5
<1>3. 0 \in S /\ \A m \in Nat : m \in S => m + 1 \in S
  <2> HIDE DEF Upto
  <2> QED
    BY <1>1, <1>2
<1>4. n \in S
  <2> HIDE DEF S
  <2> QED
    BY <1>3, SetInduction
<1> QED
  BY <1>4

(* A set that holds the empty sequence over V, and with each sequence over V *)
(* the sequence with one value more, holds them all.                         *)
LEMMA SequenceInduction ==
  ASSUME NEW V, NEW S, <<>> \in S,
         \A s \in Seq(V) : \A x \in V : s \in S => Append(s, x) \in S
  PROVE  \A s \in Seq(V) : s \in S
<1> DEFINE N == {n \in Nat : \A s \in Seq(V) : Len(s) = n => s \in S}
<1>1. 0 \in N
  <2>1. \A s \in Seq(V) : Len(s) = 0 => s = <<>>
    OBVIOUS
  <2> QED
    BY <2>1
<1>2. ASSUME NEW n \in Nat, n \in N PROVE n + 1 \in N
  <2> SUFFICES ASSUME NEW s \in Seq(V), Len(s) = n + 1 PROVE s \in S
    OBVIOUS
  <2> DEFINE front == [i \in 1 .. n |-> s[i]]
  <2>1. front \in Seq(V) /\ Len(front) = n /\ s[n + 1] \in V
    OBVIOUS
  <2>2. s = Append(front, s[n + 1])
    OBVIOUS
  <2>3. front \in S
    BY <1>2, <2>1
  <2> HIDE DEF front
  <2> QED
    BY <2>1, <2>2, <2>3
<1>3. \A n \in Nat : n \in N
  <2> HIDE DEF N
  <2> QED
    BY <1>1, <1>2, SetInduction
<1> QED
  BY <1>3

=============================================================================
