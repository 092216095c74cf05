-------------------------- MODULE EncodingsProofs --------------------------
(***************************************************************************)
(* Proofs about Encodings, for any size of a byte, an alphabet and an      *)
(* index, any code of the key type, and inputs of any length.              *)
(***************************************************************************)
EXTENDS Encodings, SequenceTheorems, WellFoundedInduction, TLAPS
-----------------------------------------------------------------------------
(* Induction, as facts about sets.                                         *)

\* A set of natural numbers that is not empty has a least element.
LEMMA LeastElement ==
  ASSUME NEW T, T \subseteq Nat, T # {}
  PROVE  \E x \in T : \A y \in T : x <= y
<1>1. IsWellFoundedOn(OpToRel(<, Nat), Nat)
  BY NatLessThanWellFounded
<1>2. PICK x \in T : \A y \in T : ~ (<<y, x>> \in OpToRel(<, Nat))
  BY <1>1, WFMin
<1>3. \A y \in T : ~ (y < x)
  <2> TAKE y \in T
  <2>1. y < x => <<y, x>> \in OpToRel(<, Nat)
    BY Zenon DEF OpToRel
  <2> QED BY <1>2, <2>1
<1> QED BY <1>3

\* A set that contains each number whose predecessors it contains has all.
LEMMA StrongInduction ==
  ASSUME NEW S, \A n \in Nat : (\A m \in 0..(n - 1) : m \in S) => n \in S
  PROVE  \A n \in Nat : n \in S
<1> SUFFICES ASSUME NEW k \in Nat, k \notin S PROVE FALSE
  OBVIOUS
<1> DEFINE T == Nat \ S
<1>1. PICK x \in T : \A y \in T : x <= y
  <2> T \subseteq Nat /\ T # {} OBVIOUS
  <2> HIDE DEF T
  <2> QED BY LeastElement
<1>2. \A m \in 0..(x - 1) : m \in S
  BY <1>1
<1> QED BY <1>2

\* A set that contains zero and each successor of its numbers has all.
LEMMA Induction ==
  ASSUME NEW S, 0 \in S, \A n \in Nat : n \in S => n + 1 \in S
  PROVE  \A n \in Nat : n \in S
<1>1. \A n \in Nat : (\A m \in 0..(n - 1) : m \in S) => n \in S
  <2> SUFFICES ASSUME NEW n \in Nat, \A m \in 0..(n - 1) : m \in S
               PROVE  n \in S
    OBVIOUS
  <2>1. CASE n = 0 BY <2>1
  <2>2. CASE n # 0
    <3> n - 1 \in Nat /\ n - 1 \in S BY <2>2
    <3> (n - 1) + 1 \in S OBVIOUS
    <3> QED OBVIOUS
  <2> QED BY <2>1, <2>2
<1> QED BY <1>1, StrongInduction

\* A set that contains the empty sequence, and with a sequence each that is
\* one element longer, has all sequences.
LEMMA SeqInduction ==
  ASSUME NEW S, NEW T, <<>> \in T,
         \A s \in Seq(S) : s \in T => \A d \in S : Append(s, d) \in T
  PROVE  \A s \in Seq(S) : s \in T
<1> DEFINE L == {n \in Nat : \A s \in Seq(S) : Len(s) = n => s \in T}
<1>1. 0 \in L
  BY EmptySeq
<1>2. ASSUME NEW n \in Nat, n \in L
      PROVE  n + 1 \in L
  <2> SUFFICES ASSUME NEW s \in Seq(S), Len(s) = n + 1 PROVE s \in T
    OBVIOUS
  <2> DEFINE t == SubSeq(s, 1, n)
  <2>1. t \in Seq(S) /\ Len(t) = n /\ s[n + 1] \in S
    BY SubSeqProperties
  <2>2. s = Append(t, s[n + 1])
    OBVIOUS
  <2> QED BY <1>2, <2>1, <2>2
<1> HIDE DEF L
<1>3. \A n \in Nat : n \in L
  BY <1>1, <1>2, Induction
<1> QED BY <1>3 DEF L

\* A sequence is cut in two, p and t, after k elements.
Cut(S, s, k, p, t) ==
  /\ p \in Seq(S) /\ Len(p) = k
  /\ \A i \in 1..k : p[i] = s[i]
  /\ t \in Seq(S) /\ Len(t) = Len(s) - k
  /\ \A i \in 1..(Len(s) - k) : t[i] = s[k + i]
  /\ s = p \o t

\* A sequence can be cut at any place.
LEMMA SplitAt ==
  ASSUME NEW S, NEW s \in Seq(S), NEW k \in 0..Len(s)
  PROVE  Cut(S, s, k, SubSeq(s, 1, k), SubSeq(s, k + 1, Len(s)))
<1>1. Len(s) \in Nat /\ k \in Nat /\ k <= Len(s)
  OBVIOUS
<1>2. \A i \in 1..Len(s) : s[i] \in S
  OBVIOUS
<1>3. /\ SubSeq(s, 1, k) \in Seq(S)
      /\ Len(SubSeq(s, 1, k)) = k
      /\ \A i \in 1..k : SubSeq(s, 1, k)[i] = s[i]
  BY <1>1, <1>2, SubSeqProperties
<1> DEFINE l == Len(s)
           t == SubSeq(s, k + 1, l)
<1>4. /\ t \in Seq(S)
      /\ Len(t) = IF k + 1 <= l THEN l - (k + 1) + 1 ELSE 0
      /\ \A i \in 1..(l - (k + 1) + 1) : t[i] = s[(k + 1) + i - 1]
  <2>1. k + 1 \in Int /\ l \in Int /\ \A i \in (k + 1)..l : s[i] \in S
    BY <1>1, <1>2
  <2> HIDE DEF l
  <2> QED BY <2>1, SubSeqProperties
<1>5. s = SubSeq(s, 1, k) \o t
  <2>1. SubSeq(s, 1, l) = s
    BY SubSeqFull
  <2>2. 1 \in 1..(l + 1) /\ k \in (1 - 1)..l /\ l \in k..l
    BY <1>1
  <2>3. SubSeq(s, 1, k) \o t = SubSeq(s, 1, l)
    BY <2>2, ConcatAdjacentSubSeq
  <2> QED BY <2>1, <2>3
<1> HIDE DEF t
<1>6. Len(t) = l - k /\ \A i \in 1..(l - k) : t[i] = s[k + i]
  BY <1>1, <1>4
<1> QED BY <1>3, <1>4, <1>5, <1>6 DEF t, Cut

\* Min is a least element.
LEMMA MinIsLeast ==
  ASSUME NEW I, I \subseteq Nat, I # {}
  PROVE  Min(I) \in I /\ \A y \in I : Min(I) <= y
BY LeastElement DEF Min

\* Max is a greatest element.
LEMMA MaxIsGreatest ==
  ASSUME NEW n \in Nat, NEW I, I \subseteq 1..n, I # {}
  PROVE  Max(I) \in I /\ \A y \in I : y <= Max(I)
<1> DEFINE T == {n - i : i \in I}
<1>1. T \subseteq Nat /\ T # {}
  <2>1. \A i \in I : n - i \in Nat OBVIOUS
  <2>2. PICK j \in I : TRUE OBVIOUS
  <2>3. n - j \in T BY <2>2
  <2> QED BY <2>1, <2>3
<1>2. PICK x \in T : \A y \in T : x <= y
  <2> HIDE DEF T
  <2> QED BY <1>1, LeastElement
<1>3. PICK i \in I : x = n - i
  BY <1>2
<1>4. \A j \in I : i >= j
  <2> TAKE j \in I
  <2>1. n - j \in T OBVIOUS
  <2>2. x <= n - j BY <1>2, <2>1
  <2> QED BY <1>3, <2>2
<1>5. Max(I) \in I /\ \A y \in I : Max(I) >= y
  BY <1>4 DEF Max
<1> QED BY <1>5
-----------------------------------------------------------------------------
(* Numbers and their digits.                                               *)

\* The last digit of a number, and the number without it.
LastDigit(x, b) == x % b
Rest(x, b) == x \div b

WithLastDigit(digits, x, b) == <<LastDigit(x, b)>> \o digits

\* The rest of a number is smaller, and it is a digit that is taken from it.
LEMMA RestSmaller ==
  ASSUME NEW b \in Nat, b > 1, NEW x \in Nat
  PROVE  /\ Rest(x, b) \in Nat
         /\ LastDigit(x, b) \in 0..(b - 1)
         /\ x # 0 => Rest(x, b) < x
BY DEF Rest, LastDigit

\* A number is made of its rest and its last digit, and of no others.
LEMMA DivMod ==
  ASSUME NEW b \in Nat, b > 1
  PROVE  /\ \A x \in Nat : Rest(x, b) * b + LastDigit(x, b) = x
         /\ \A x \in Nat, d \in 0..(b - 1) :
              Rest(x * b + d, b) = x /\ LastDigit(x * b + d, b) = d
BY DEF Rest, LastDigit

\* The values of the prefixes of s, as Number computes them.
Values(v, s, b) ==
  v = [n \in 0..Len(s) |-> IF n = 0 THEN 0 ELSE v[n - 1] * b + s[n]]

\* Number is what its recursive function says: there is one function with
\* those values.
LEMMA NumberValues ==
  ASSUME NEW s \in Seq(Nat), NEW b \in Nat
  PROVE  \E v \in [0..Len(s) -> Nat] :
           Values(v, s, b) /\ Number(s, b) = v[Len(s)]
<1> DEFINE F(g, n) == IF n = 0 THEN 0 ELSE g[n - 1] * b + s[n]
           Upto(k) == \E g \in [0..k -> Nat] : \A n \in 0..k : g[n] = F(g, n)
           E == {k \in Nat : k <= Len(s) => Upto(k)}
<1>1. Upto(0)
  <2>1. \A n \in 0..0 : [m \in 0..0 |-> 0][n] = F([m \in 0..0 |-> 0], n)
    OBVIOUS
  <2>2. [m \in 0..0 |-> 0] \in [0..0 -> Nat]
    OBVIOUS
  <2> QED BY <2>1, <2>2
<1>2. ASSUME NEW k \in Nat, k + 1 <= Len(s), Upto(k) PROVE Upto(k + 1)
  <2>1. PICK g \in [0..k -> Nat] : \A n \in 0..k : g[n] = F(g, n)
    BY <1>2
  <2> DEFINE last == g[k] * b + s[k + 1]
             h == [n \in 0..(k + 1) |-> IF n <= k THEN g[n] ELSE last]
  <2>2. last \in Nat
    <3>0. k + 1 \in 1..Len(s) BY <1>2
    <3>1. s[k + 1] \in Nat BY <3>0, ElementOfSeq
    <3>2. g[k] \in Nat OBVIOUS
    <3>3. g[k] * b \in Nat BY <3>2
    <3> QED BY <3>1, <3>3
  <2>3. h \in [0..(k + 1) -> Nat]
    <3> HIDE DEF last
    <3> QED BY <2>2
  <2>4. ASSUME NEW n \in 0..(k + 1) PROVE h[n] = F(h, n)
    <3>1. CASE n <= k BY <3>1, <2>1
    <3>2. CASE n = k + 1 BY <3>2
    <3> QED BY <3>1, <3>2
  <2> HIDE DEF h
  <2> QED BY <2>3, <2>4
<1>3. Upto(Len(s))
  <2> HIDE DEF Upto
  <2>1. 0 \in E /\ \A k \in Nat : k \in E => k + 1 \in E
    BY <1>1, <1>2
  <2> HIDE DEF E
  <2>2. \A k \in Nat : k \in E
    BY <2>1, Induction
  <2> QED BY <2>2 DEF E
<1>4. \E g : Values(g, s, b)
  <2>1. PICK g \in [0..Len(s) -> Nat] : \A n \in 0..Len(s) : g[n] = F(g, n)
    BY <1>3
  <2>2. g = [n \in 0..Len(s) |-> F(g, n)]
    BY <2>1
  <2> QED BY <2>2 DEF Values
<1> DEFINE v == CHOOSE f : f = [n \in 0..Len(s) |->
                               IF n = 0 THEN 0 ELSE f[n - 1] * b + s[n]]
<1>5. Values(v, s, b) /\ Number(s, b) = v[Len(s)]
  BY <1>4 DEF Values, Number
<1> HIDE DEF v
<1>6. \A n \in 0..Len(s) : v[n] \in Nat
  <2> DEFINE A == {n \in Nat : n <= Len(s) => v[n] \in Nat}
  <2>1. 0 \in A BY <1>5 DEF Values
  <2>2. ASSUME NEW n \in Nat, n \in A PROVE n + 1 \in A
    <3> SUFFICES ASSUME n + 1 <= Len(s) PROVE v[n + 1] \in Nat
      OBVIOUS
    <3>1. v[n] \in Nat /\ s[n + 1] \in Nat
      BY <2>2, ElementOfSeq
    <3>2. v[n + 1] = v[n] * b + s[n + 1]
      BY <1>5 DEF Values
    <3>3. v[n] * b \in Nat
      BY <3>1
    <3> HIDE DEF A
    <3> QED BY <3>1, <3>2, <3>3
  <2> HIDE DEF A
  <2>3. \A n \in Nat : n \in A
    BY <2>1, <2>2, Induction
  <2> QED BY <2>3 DEF A
<1>7. v \in [0..Len(s) -> Nat]
  <2>1. \A n \in 0..Len(s) : F(v, n) \in Nat
    BY <1>5, <1>6 DEF Values
  <2> QED BY <2>1, <1>5 DEF Values
<1> QED BY <1>5, <1>7

\* Digits stand for a natural number.
LEMMA NumberType ==
  ASSUME NEW s \in Seq(Nat), NEW b \in Nat
  PROVE  Number(s, b) \in Nat
BY NumberValues

\* No digits stand for zero.
LEMMA NumberEmpty ==
  ASSUME NEW b \in Nat
  PROVE  Number(<<>>, b) = 0
<1> DEFINE e == <<>>
<1>1. e \in Seq(Nat) /\ Len(e) = 0
  OBVIOUS
<1> HIDE DEF e
<1>2. PICK v : Values(v, e, b) /\ Number(e, b) = v[Len(e)]
  BY <1>1, NumberValues
<1>3. v[0] = 0
  BY <1>1, <1>2 DEF Values
<1> QED BY <1>1, <1>2, <1>3 DEF e

\* One more digit multiplies the number by the base and adds the digit.
LEMMA NumberAppend ==
  ASSUME NEW s \in Seq(Nat), NEW d \in Nat, NEW b \in Nat
  PROVE  Number(Append(s, d), b) = Number(s, b) * b + d
<1> DEFINE t == Append(s, d)
<1>0. t \in Seq(Nat) /\ Len(t) = Len(s) + 1 /\ t[Len(t)] = d
      /\ \A n \in 1..Len(s) : t[n] = s[n]
  OBVIOUS
<1> HIDE DEF t
<1>1. PICK v : Values(v, s, b) /\ Number(s, b) = v[Len(s)]
  BY NumberValues
<1>2. PICK w : Values(w, t, b) /\ Number(t, b) = w[Len(t)]
  BY NumberValues, <1>0
<1> DEFINE A == {n \in Nat : n <= Len(s) => v[n] = w[n]}
<1>3. 0 \in A BY <1>0, <1>1, <1>2 DEF Values
<1>4. ASSUME NEW n \in Nat, n \in A PROVE n + 1 \in A
  <2> SUFFICES ASSUME n + 1 <= Len(s) PROVE v[n + 1] = w[n + 1]
    OBVIOUS
  <2>1. v[n + 1] = v[n] * b + s[n + 1]
    BY <1>1 DEF Values
  <2>2. w[n + 1] = w[n] * b + t[n + 1]
    <3>1. n + 1 \in 0..Len(t) /\ n + 1 # 0 /\ (n + 1) - 1 = n
      BY <1>0
    <3> HIDE DEF A
    <3> QED BY <1>2, <3>1 DEF Values
  <2>3. v[n] = w[n] /\ t[n + 1] = s[n + 1]
    BY <1>0, <1>4
  <2> QED BY <2>1, <2>2, <2>3
<1> HIDE DEF A
<1>5. v[Len(s)] = w[Len(s)]
  <2>1. \A n \in Nat : n \in A BY <1>3, <1>4, Induction
  <2> QED BY <2>1 DEF A
<1>6. w[Len(t)] = w[Len(s)] * b + t[Len(t)]
  BY <1>0, <1>2 DEF Values
<1> QED BY <1>0, <1>1, <1>2, <1>5, <1>6 DEF t

\* The digits of the numbers up to x, as Digits computes them.
Expansions(f, x, b) ==
  f = [n \in 0..x |->
         IF n = 0 THEN <<>> ELSE WithLastDigit(f[Rest(n, b)], n, b)]

\* Digits is what its recursive function says: the recursion ends, because the
\* rest is smaller.
LEMMA DigitsExpansions ==
  ASSUME NEW x \in Nat, NEW b \in Nat, b > 1
  PROVE  \E f \in [0..x -> Seq(0..(b - 1))] :
           Expansions(f, x, b) /\ Digits(x, b) = f[x]
<1> DEFINE D == Seq(0..(b - 1))
           F(g, n) == IF n = 0 THEN <<>> ELSE WithLastDigit(g[Rest(n, b)], n, b)
           Upto(k) == \E g \in [0..k -> D] : \A n \in 0..k : g[n] = F(g, n)
           E == {k \in Nat : Upto(k)}
<1>0. \A s \in D, n \in Nat : WithLastDigit(s, n, b) \in D
  BY RestSmaller DEF WithLastDigit
<1>1. Upto(0)
  <2>1. \A n \in 0..0 : [m \in 0..0 |-> <<>>][n] = F([m \in 0..0 |-> <<>>], n)
    OBVIOUS
  <2>2. [m \in 0..0 |-> <<>>] \in [0..0 -> D]
    OBVIOUS
  <2> QED BY <2>1, <2>2
<1> HIDE DEF D
<1>2. ASSUME NEW k \in Nat, Upto(k) PROVE Upto(k + 1)
  <2>1. PICK g \in [0..k -> D] : \A n \in 0..k : g[n] = F(g, n)
    BY <1>2
  <2> DEFINE last == WithLastDigit(g[Rest(k + 1, b)], k + 1, b)
             h == [n \in 0..(k + 1) |-> IF n <= k THEN g[n] ELSE last]
  <2>2. ASSUME NEW n \in 1..(k + 1)
        PROVE  Rest(n, b) \in 0..k /\ Rest(n, b) < n
    BY RestSmaller, n \in Nat
  <2>3. last \in D
    BY <2>2, <1>0
  <2>4. h \in [0..(k + 1) -> D]
    <3> HIDE DEF last
    <3> QED BY <2>3
  <2>5. ASSUME NEW n \in 0..(k + 1) PROVE h[n] = F(h, n)
    <3>1. CASE n <= k
      <4>1. h[n] = g[n] /\ g[n] = F(g, n) BY <3>1, <2>1
      <4>2. n # 0 => h[Rest(n, b)] = g[Rest(n, b)] BY <3>1, <2>2
      <4> QED BY <4>1, <4>2
    <3>2. CASE n = k + 1
      <4>1. h[n] = last /\ n # 0 BY <3>2
      <4>2. h[Rest(n, b)] = g[Rest(n, b)] BY <3>2, <2>2
      <4> QED BY <4>1, <4>2, <3>2
    <3> QED BY <3>1, <3>2
  <2> HIDE DEF h
  <2> QED BY <2>4, <2>5
<1>3. Upto(x)
  <2> HIDE DEF Upto
  <2>1. 0 \in E /\ \A k \in Nat : k \in E => k + 1 \in E
    BY <1>1, <1>2
  <2> HIDE DEF E
  <2>2. \A k \in Nat : k \in E
    BY <2>1, Induction
  <2> QED BY <2>2 DEF E
<1>4. \E g : Expansions(g, x, b)
  <2>1. PICK g \in [0..x -> D] : \A n \in 0..x : g[n] = F(g, n)
    BY <1>3
  <2>2. g = [n \in 0..x |-> F(g, n)]
    BY <2>1
  <2> QED BY <2>2 DEF Expansions
<1> DEFINE f == CHOOSE g :
                  g = [n \in 0..x |->
                         IF n = 0 THEN <<>>
                         ELSE WithLastDigit(g[Rest(n, b)], n, b)]
<1>5. Expansions(f, x, b) /\ Digits(x, b) = f[x]
  BY <1>4 DEF Expansions, Digits, WithLastDigit, LastDigit, Rest
<1> HIDE DEF f
<1>6. \A n \in 0..x : f[n] \in D
  <2> DEFINE A == {n \in Nat : n <= x => f[n] \in D}
  <2>1. ASSUME NEW n \in Nat, \A m \in 0..(n - 1) : m \in A
        PROVE  n \in A
    <3>1. CASE n = 0 BY <3>1, <1>5 DEF Expansions, D
    <3>2. CASE n # 0 /\ n <= x
      <4>1. Rest(n, b) \in 0..(n - 1) /\ LastDigit(n, b) \in 0..(b - 1)
        BY <3>2, RestSmaller
      <4>2. f[Rest(n, b)] \in D
        BY <4>1, <2>1, <3>2
      <4>3. f[n] = WithLastDigit(f[Rest(n, b)], n, b)
        BY <3>2, <1>5 DEF Expansions
      <4> QED BY <4>1, <4>2, <4>3, <1>0
    <3> QED BY <3>1, <3>2
  <2> HIDE DEF A
  <2>2. \A n \in Nat : n \in A
    BY <2>1, StrongInduction
  <2> QED BY <2>2 DEF A
<1>7. f \in [0..x -> D]
  <2>1. \A n \in 0..x : F(f, n) \in D
    BY <1>5, <1>6 DEF Expansions
  <2> QED BY <2>1, <1>5 DEF Expansions
<1> QED BY <1>5, <1>7 DEF D

\* Digits gives digits of the base.
LEMMA DigitsType ==
  ASSUME NEW x \in Nat, NEW b \in Nat, b > 1
  PROVE  Digits(x, b) \in Seq(0..(b - 1))
<1>1. PICK f \in [0..x -> Seq(0..(b - 1))] : Digits(x, b) = f[x]
  BY DigitsExpansions
<1> QED BY <1>1

\* Zero has no digits.
LEMMA DigitsZero ==
  ASSUME NEW b \in Nat, b > 1
  PROVE  Digits(0, b) = <<>>
<1>1. PICK f : Expansions(f, 0, b) /\ Digits(0, b) = f[0]
  BY DigitsExpansions
<1> QED BY <1>1 DEF Expansions

\* The digits of a number are its last digit and the digits of the rest.
LEMMA DigitsStep ==
  ASSUME NEW x \in Nat, x # 0, NEW b \in Nat, b > 1
  PROVE  Digits(x, b) = WithLastDigit(Digits(Rest(x, b), b), x, b)
<1> DEFINE y == Rest(x, b)
<1>0. y \in Nat /\ y < x
  BY RestSmaller
<1> HIDE DEF y
<1>1. PICK f : Expansions(f, x, b) /\ Digits(x, b) = f[x]
  BY DigitsExpansions
<1>2. PICK g : Expansions(g, y, b) /\ Digits(y, b) = g[y]
  BY DigitsExpansions, <1>0
<1> DEFINE A == {n \in Nat : n <= y => f[n] = g[n]}
<1>3. ASSUME NEW n \in Nat, \A m \in 0..(n - 1) : m \in A
      PROVE  n \in A
  <2>1. CASE n = 0
    BY <2>1, <1>0, <1>1, <1>2 DEF Expansions
  <2>2. CASE n # 0 /\ n <= y
    <3>1. Rest(n, b) \in 0..(n - 1)
      BY <2>2, RestSmaller
    <3>2. f[Rest(n, b)] = g[Rest(n, b)]
      BY <3>1, <1>0, <1>3, <2>2
    <3>3. f[n] = WithLastDigit(f[Rest(n, b)], n, b)
      BY <2>2, <1>0, <1>1 DEF Expansions
    <3>4. g[n] = WithLastDigit(g[Rest(n, b)], n, b)
      BY <2>2, <1>0, <1>2 DEF Expansions
    <3> QED BY <3>2, <3>3, <3>4
  <2> QED BY <2>1, <2>2
<1> HIDE DEF A
<1>4. f[y] = g[y]
  <2>1. \A n \in Nat : n \in A BY <1>3, StrongInduction
  <2> QED BY <2>1, <1>0 DEF A
<1>5. f[x] = WithLastDigit(f[Rest(x, b)], x, b)
  BY <1>1 DEF Expansions
<1> QED BY <1>1, <1>2, <1>4, <1>5 DEF y

\* A representation of a number: digits, of which the first is not zero.
IsNumeral(s, b) ==
  /\ s \in Seq(0..(b - 1))
  /\ s # <<>> => s[1] # 0

\* What comes first, least significant, is last in the numeral.
LEMMA ReverseWithLastDigit ==
  ASSUME NEW x \in Nat, NEW b \in Nat, b > 1, NEW s \in Seq(0..(b - 1))
  PROVE  Reverse(WithLastDigit(s, x, b)) = Append(Reverse(s), LastDigit(x, b))
<1>1. LastDigit(x, b) \in 0..(b - 1)
  BY RestSmaller
<1> QED BY <1>1, SMTT(30) DEF WithLastDigit, Reverse

\* Reversing keeps the elements and their number.
LEMMA ReverseType ==
  ASSUME NEW S, NEW s \in Seq(S)
  PROVE  /\ Reverse(s) \in Seq(S)
         /\ Len(Reverse(s)) = Len(s)
         /\ \A i \in 1..Len(s) : Reverse(s)[i] = s[Len(s) - i + 1]
BY DEF Reverse

\* The digits of a number represent it.
LEMMA NumberOfDigits ==
  ASSUME NEW x \in Nat, NEW b \in Nat, b > 1
  PROVE  /\ IsNumeral(Reverse(Digits(x, b)), b)
         /\ Number(Reverse(Digits(x, b)), b) = x
<1> DEFINE R(n) == Reverse(Digits(n, b))
           A == {n \in Nat : IsNumeral(R(n), b) /\ Number(R(n), b) = n}
<1>1. ASSUME NEW n \in Nat, \A m \in 0..(n - 1) : m \in A
      PROVE  n \in A
  <2>1. CASE n = 0
    <3>1. R(n) = <<>>
      BY <2>1, DigitsZero DEF Reverse
    <3>2. IsNumeral(R(n), b)
      BY <3>1 DEF IsNumeral
    <3>3. Number(R(n), b) = n
      BY <3>1, <2>1, NumberEmpty
    <3> QED BY <3>2, <3>3
  <2>2. CASE n # 0
    <3> DEFINE m == Rest(n, b)
               d == LastDigit(n, b)
    <3>1. m \in 0..(n - 1) /\ d \in 0..(b - 1)
      BY <2>2, RestSmaller
    <3>2. IsNumeral(R(m), b) /\ Number(R(m), b) = m
      BY <3>1, <1>1
    <3>3. R(n) = Append(R(m), d)
      <4>1. Digits(m, b) \in Seq(0..(b - 1))
        BY <3>1, DigitsType
      <4>2. Digits(n, b) = WithLastDigit(Digits(m, b), n, b)
        BY <2>2, DigitsStep
      <4> QED BY <4>1, <4>2, ReverseWithLastDigit
    <3>4. m * b + d = n
      BY DivMod
    <3> HIDE DEF m, d, R
    <3>5. R(m) \in Seq(Nat) /\ Len(R(m)) \in Nat /\ d \in Nat
      BY <3>1, <3>2 DEF IsNumeral
    <3>6. Number(R(n), b) = n
      BY <3>2, <3>3, <3>4, <3>5, NumberAppend
    <3>7. R(n) \in Seq(0..(b - 1))
      BY <3>1, <3>2, <3>3 DEF IsNumeral
    <3>8. R(n)[1] # 0
      <4>1. CASE R(m) = <<>>
        <5>1. m = 0 BY <4>1, <3>2, NumberEmpty
        <5>2. R(n)[1] = d BY <4>1, <3>3
        <5> QED BY <5>1, <5>2, <3>1, <3>4, <2>2
      <4>2. CASE R(m) # <<>>
        <5>1. R(n)[1] = R(m)[1] BY <4>2, <3>3, <3>5
        <5> QED BY <5>1, <4>2, <3>2 DEF IsNumeral
      <4> QED BY <4>1, <4>2
    <3> QED BY <3>6, <3>7, <3>8 DEF IsNumeral
  <2> QED BY <2>1, <2>2
<1> HIDE DEF A
<1>2. \A n \in Nat : n \in A
  BY <1>1, StrongInduction
<1> QED BY <1>2 DEF A

\* A number has one representation only.
LEMMA DigitsOfNumber ==
  ASSUME NEW b \in Nat, b > 1, NEW s, IsNumeral(s, b)
  PROVE  Reverse(Digits(Number(s, b), b)) = s
<1> DEFINE D == 0..(b - 1)
           R(n) == Reverse(Digits(n, b))
           A == {t \in Seq(D) : IsNumeral(t, b) =>
                   /\ t # <<>> => Number(t, b) # 0
                   /\ R(Number(t, b)) = t}
<1>1. <<>> \in A
  BY NumberEmpty, DigitsZero DEF Reverse
<1>2. ASSUME NEW t \in Seq(D), t \in A, NEW d \in D
      PROVE  Append(t, d) \in A
  <2> SUFFICES ASSUME IsNumeral(Append(t, d), b)
               PROVE  /\ Number(Append(t, d), b) # 0
                      /\ R(Number(Append(t, d), b)) = Append(t, d)
    OBVIOUS
  <2> DEFINE m == Number(t, b)
             n == Number(Append(t, d), b)
  <2>1. t \in Seq(Nat) /\ d \in Nat
    OBVIOUS
  <2>2. m \in Nat /\ n \in Nat /\ n = m * b + d
    <3>1. n = m * b + d BY <2>1, NumberAppend
    <3>2. m \in Nat BY <2>1, NumberType
    <3>3. Append(t, d) \in Seq(Nat) BY <2>1
    <3>4. n \in Nat BY <3>3, NumberType
    <3> QED BY <3>1, <3>2, <3>4
  <2>3. IsNumeral(t, b)
    BY DEF IsNumeral
  <2>4. (t # <<>> => m # 0) /\ R(m) = t
    BY <2>3, <1>2
  <2>5. n # 0
    <3>1. CASE t = <<>>
      <4>1. d # 0 BY <3>1 DEF IsNumeral
      <4>2. m = 0 BY <3>1, NumberEmpty
      <4> QED BY <4>1, <4>2, <2>2
    <3>2. CASE t # <<>>
      <4>1. m # 0 BY <3>2, <2>4
      <4> HIDE DEF m, n
      <4>2. m * b > 0 BY <4>1, <2>2
      <4> QED BY <4>2, <2>2
    <3> QED BY <3>1, <3>2
  <2>6. Rest(n, b) = m /\ LastDigit(n, b) = d
    <3> HIDE DEF m, n
    <3> QED BY <2>2, DivMod
  <2>7. Digits(n, b) = WithLastDigit(Digits(m, b), n, b)
    BY <2>2, <2>5, <2>6, DigitsStep
  <2>8. R(n) = Append(R(m), d)
    BY <2>2, <2>6, <2>7, DigitsType, ReverseWithLastDigit
  <2> QED BY <2>4, <2>5, <2>8
<1> HIDE DEF A
<1>3. \A t \in Seq(D) : t \in A
  BY <1>1, <1>2, SeqInduction
<1> QED BY <1>3 DEF A, IsNumeral
-----------------------------------------------------------------------------
(* Base58.                                                                 *)

\* The leading zeros are the longest beginning without another digit.
LEMMA LeadingZerosAre ==
  ASSUME NEW s \in Seq(Nat)
  PROVE  \E k \in 0..Len(s) :
           /\ LeadingZeros(s) = SubSeq(s, 1, k)
           /\ \A i \in 1..k : s[i] = 0
           /\ k < Len(s) => s[k + 1] # 0
<1> DEFINE I == {i \in 1..Len(s) : s[i] # 0}
           m == Min(I)
<1>1. SelectInSeq(s, LAMBDA d : d # 0) = IF I # {} THEN m ELSE 0
  BY DEF SelectInSeq
<1>2. CASE I = {}
  <2>1. LeadingZeros(s) = SubSeq(s, 1, Len(s))
    BY <1>1, <1>2 DEF LeadingZeros
  <2> QED BY <1>2, <2>1
<1>3. CASE I # {}
  <2>1. m \in I /\ \A i \in I : m <= i
    <3> I \subseteq Nat OBVIOUS
    <3> HIDE DEF I
    <3> QED BY <1>3, MinIsLeast
  <2> HIDE DEF m
  <2>2. m \in 1..Len(s) /\ Len(s) \in Nat /\ s[m] # 0
    BY <2>1
  <2>3. LeadingZeros(s) = SubSeq(s, 1, m - 1)
    BY <1>1, <1>3, <2>2 DEF LeadingZeros
  <2>4. \A i \in 1..(m - 1) : s[i] = 0
    BY <2>1, <2>2
  <2>5. m - 1 \in 0..Len(s) /\ s[(m - 1) + 1] # 0
    BY <2>2
  <2> QED BY <2>3, <2>4, <2>5
<1> QED BY <1>2, <1>3

\* A sequence of digits is its leading zeros and a representation.
LEMMA LeadingZerosSplit ==
  ASSUME NEW b \in Nat, b > 1, NEW s \in Seq(0..(b - 1))
  PROVE  /\ LeadingZeros(s) \in Seq({0})
         /\ \E t : IsNumeral(t, b) /\ s = LeadingZeros(s) \o t
<1>1. s \in Seq(Nat) /\ Len(s) \in Nat
  OBVIOUS
<1>2. PICK k \in 0..Len(s) :
        /\ LeadingZeros(s) = SubSeq(s, 1, k)
        /\ \A i \in 1..k : s[i] = 0
        /\ k < Len(s) => s[k + 1] # 0
  BY <1>1, LeadingZerosAre
<1> DEFINE p == SubSeq(s, 1, k)
           t == SubSeq(s, k + 1, Len(s))
<1>0. Cut(0..(b - 1), s, k, p, t)
  BY SplitAt
<1> HIDE DEF p, t
<1>3. /\ p \in Seq(0..(b - 1)) /\ Len(p) = k /\ \A i \in 1..k : p[i] = s[i]
      /\ t \in Seq(0..(b - 1)) /\ Len(t) = Len(s) - k
      /\ \A i \in 1..(Len(s) - k) : t[i] = s[k + i]
      /\ s = p \o t
  BY <1>0 DEF Cut
<1>4. p \in Seq({0})
  <2>1. p \in [1..k -> {0}] BY <1>2, <1>3
  <2>2. k \in Nat BY <1>1
  <2> QED BY <2>1, <2>2, SeqDef
<1>5. t # <<>> => t[1] # 0
  <2> SUFFICES ASSUME t # <<>> PROVE t[1] # 0
    OBVIOUS
  <2>1. Len(t) # 0 /\ Len(t) \in Nat
    BY <1>3
  <2>2. k < Len(s) /\ 1 \in 1..(Len(s) - k)
    BY <1>1, <1>3, <2>1
  <2> QED BY <1>2, <1>3, <2>2
<1> QED BY <1>2, <1>3, <1>4, <1>5 DEF IsNumeral, p

\* The leading zeros of zeros and a numeral are those zeros.
LEMMA LeadingZerosOfConcat ==
  ASSUME NEW b \in Nat, b > 1, NEW z \in Seq({0}), NEW t, IsNumeral(t, b)
  PROVE  LeadingZeros(z \o t) = z
<1> DEFINE s == z \o t
<1>1. /\ t \in Seq(Nat) /\ z \in Seq(Nat) /\ s \in Seq(Nat)
      /\ Len(s) = Len(z) + Len(t)
      /\ \A i \in 1..Len(z) : s[i] = z[i] /\ z[i] = 0
      /\ Len(t) > 0 => s[Len(z) + 1] = t[1] /\ t[1] # 0
  BY DEF IsNumeral
<1> HIDE DEF s
<1>2. PICK k \in 0..Len(s) :
        /\ LeadingZeros(s) = SubSeq(s, 1, k)
        /\ \A i \in 1..k : s[i] = 0
        /\ k < Len(s) => s[k + 1] # 0
  BY <1>1, LeadingZerosAre
<1>3. k = Len(z)
  <2>1. /\ Len(z) \in Nat /\ Len(t) \in Nat /\ k \in Nat
        /\ Len(s) = Len(z) + Len(t)
    BY <1>1
  <2>2. ASSUME k < Len(z) PROVE FALSE
    <3>1. k + 1 \in 1..Len(z) BY <2>1, <2>2
    <3>2. s[k + 1] = 0 BY <3>1, <1>1
    <3>3. k < Len(s) BY <2>1, <2>2
    <3> QED BY <1>2, <3>2, <3>3
  <2>3. ASSUME k > Len(z) PROVE FALSE
    <3>1. Len(z) + 1 \in 1..k /\ Len(t) > 0 BY <2>1, <2>3
    <3>2. s[Len(z) + 1] # 0 BY <1>1, <3>1
    <3> QED BY <1>2, <3>1, <3>2
  <2> QED BY <2>1, <2>2, <2>3
<1>4. SubSeq(s, 1, Len(z)) = z
  BY <1>1
<1> QED BY <1>2, <1>3, <1>4 DEF s

\* Zeros in front do not change a number.
LEMMA NumberOfConcat ==
  ASSUME NEW b \in Nat, NEW z \in Seq({0}), NEW t \in Seq(Nat)
  PROVE  Number(z \o t, b) = Number(t, b)
<1> DEFINE Z == {s \in Seq({0}) : Number(s, b) = 0}
           A == {s \in Seq(Nat) : Number(z \o s, b) = Number(s, b)}
<1>1. Number(z, b) = 0
  <2>1. <<>> \in Z BY NumberEmpty
  <2>2. ASSUME NEW s \in Seq({0}), s \in Z, NEW d \in {0}
        PROVE  Append(s, d) \in Z
    <3>1. s \in Seq(Nat) OBVIOUS
    <3>2. Number(Append(s, d), b) = Number(s, b) * b + d
      BY <3>1, NumberAppend
    <3> QED BY <2>2, <3>2
  <2> HIDE DEF Z
  <2>3. \A s \in Seq({0}) : s \in Z
    BY <2>1, <2>2, SeqInduction
  <2> QED BY <2>3 DEF Z
<1>2. <<>> \in A
  <2>1. z \o <<>> = z OBVIOUS
  <2> QED BY <1>1, <2>1, NumberEmpty
<1>3. ASSUME NEW s \in Seq(Nat), s \in A, NEW d \in Nat
      PROVE  Append(s, d) \in A
  <2>1. z \o s \in Seq(Nat) OBVIOUS
  <2>2. z \o Append(s, d) = Append(z \o s, d) OBVIOUS
  <2>3. Number(Append(z \o s, d), b) = Number(z \o s, b) * b + d
    BY <2>1, NumberAppend
  <2>4. Number(Append(s, d), b) = Number(s, b) * b + d
    BY NumberAppend
  <2>5. Number(z \o Append(s, d), b) = Number(Append(s, d), b)
    BY <1>3, <2>2, <2>3, <2>4
  <2> QED BY <2>5
<1> HIDE DEF A
<1>4. \A s \in Seq(Nat) : s \in A
  BY <1>2, <1>3, SeqInduction
<1> QED BY <1>4 DEF A

\* Digits from one base to another, as both directions of Base58 do it.
Convert(s, from, to) ==
  LeadingZeros(s) \o Reverse(Digits(Number(s, from), to))

\* A conversion from one base to another and back gives the same sequence,
\* since it keeps the number and the zeros in front of it.
LEMMA ConvertBack ==
  ASSUME NEW from \in Nat, from > 1, NEW to \in Nat, to > 1,
         NEW s \in Seq(0..(from - 1))
  PROVE  /\ Convert(s, from, to) \in Seq(0..(to - 1))
         /\ Convert(Convert(s, from, to), to, from) = s
<1> DEFINE z == LeadingZeros(s)
           n == Number(s, from)
           u == Reverse(Digits(n, to))
<1>1. z \in Seq({0})
  BY LeadingZerosSplit
<1>2. PICK t : IsNumeral(t, from) /\ s = z \o t
  BY LeadingZerosSplit
<1>3. s \in Seq(Nat) /\ n \in Nat
  <2>1. s \in Seq(Nat) OBVIOUS
  <2> QED BY <2>1, NumberType
<1>4. IsNumeral(u, to) /\ Number(u, to) = n
  BY <1>3, NumberOfDigits
<1> HIDE DEF z, u
<1>5. Convert(s, from, to) = z \o u
  BY DEF Convert, z, u
<1>6. z \o u \in Seq(0..(to - 1))
  BY <1>1, <1>4 DEF IsNumeral
<1>7. LeadingZeros(z \o u) = z
  BY <1>1, <1>4, LeadingZerosOfConcat
<1>8. Number(z \o u, to) = n
  <2>1. u \in Seq(Nat) BY <1>4 DEF IsNumeral
  <2> QED BY <1>1, <1>4, <2>1, NumberOfConcat
<1>9. n = Number(t, from)
  <2>1. t \in Seq(Nat) BY <1>2 DEF IsNumeral
  <2> QED BY <1>1, <1>2, <2>1, NumberOfConcat
<1>10. Reverse(Digits(n, from)) = t
  BY <1>2, <1>9, DigitsOfNumber
<1>11. Convert(z \o u, to, from) = z \o t
  BY <1>7, <1>8, <1>10 DEF Convert
<1> QED BY <1>2, <1>5, <1>6, <1>11

\* What the proofs need of the sizes.
LEMMA Sizes ==
  /\ Byte \in Nat /\ Byte > 1
  /\ Radix \in Nat /\ Radix > 1
  /\ Half \in Nat /\ Half > 1 /\ Byte = Half + Half
  /\ HardenedKeyStart \in Nat /\ HardenedKeyStart > 0
  /\ Word = HardenedKeyStart + HardenedKeyStart
BY EncodingsAssumption DEF Half, HardenedKeyStart

\* ToBase58 is a conversion of bytes to characters.
LEMMA ToBase58Converts ==
  ASSUME NEW bytes \in Seq(0..(Byte - 1))
  PROVE  ToBase58(bytes) = Convert(bytes, Byte, Radix)
<1> DEFINE digits == Digits(Number(bytes, Byte), Radix)
           z == LeadingZeros(bytes)
<1>1. bytes \in Seq(Nat)
  BY Sizes
<1>2. digits \in Seq(0..(Radix - 1))
  BY <1>1, Sizes, NumberType, DigitsType
<1>3. z \in Seq({0})
  BY Sizes, LeadingZerosSplit
<1> HIDE DEF digits, z
<1>4. Reverse(digits \o z) = z \o Reverse(digits)
  BY <1>2, <1>3, SMTT(30) DEF Reverse
<1> QED BY <1>4 DEF ToBase58, Convert, digits, z

\* FromBase58 is a conversion of characters to bytes, if all are in the
\* alphabet.
LEMMA FromBase58Converts ==
  ASSUME NEW text \in Seq(0..(Radix - 1))
  PROVE  FromBase58(text) = Convert(text, Radix, Byte)
<1>1. ~ \E i \in DOMAIN text : text[i] = -1
  BY Sizes
<1> QED BY <1>1 DEF FromBase58, Convert
-----------------------------------------------------------------------------
(* DIDs.                                                                   *)

\* A byte is seven bits and a flag (for bytes of eight bits).
LEMMA Mask ==
  /\ \A d \in 0..(Half - 1) : d % Half = d /\ (d + Half) % Half = d
  /\ \A d \in 0..(Byte - 1) :
       /\ d % Half \in 0..(Half - 1)
       /\ d = IF d < Half THEN d % Half ELSE (d % Half) + Half
<1>1. \A x \in Nat, d \in 0..(Half - 1) : (x * Half + d) % Half = d
  BY Sizes, DivMod DEF LastDigit
<1>2. \A d \in 0..(Half - 1) : d % Half = d /\ (d + Half) % Half = d
  <2> TAKE d \in 0..(Half - 1)
  <2>1. (0 * Half + d) % Half = d /\ (1 * Half + d) % Half = d
    BY <1>1
  <2>2. 0 * Half + d = d /\ 1 * Half + d = d + Half
    BY Sizes
  <2> QED BY <2>1, <2>2
<1>3. ASSUME NEW d \in 0..(Byte - 1)
      PROVE  /\ d % Half \in 0..(Half - 1)
             /\ d = IF d < Half THEN d % Half ELSE (d % Half) + Half
  <2>1. CASE d < Half
    <3>1. d \in 0..(Half - 1) BY <2>1, Sizes
    <3>2. d % Half = d BY <3>1, <1>2
    <3> QED BY <2>1, <3>1, <3>2
  <2>2. CASE ~ (d < Half)
    <3>1. d - Half \in 0..(Half - 1) /\ (d - Half) + Half = d BY <2>2, Sizes
    <3>2. d % Half = d - Half BY <3>1, <1>2
    <3> QED BY <2>2, <3>1, <3>2
  <2> QED BY <2>1, <2>2
<1> QED BY <1>2, <1>3

\* A varint ends with the first byte that has no flag.
LEMMA UvarintLengthIs ==
  ASSUME NEW e \in Seq(0..(Byte - 1))
  PROVE  \/ UvarintLength(e) = 0
         \/ /\ UvarintLength(e) \in 1..Len(e)
            /\ e[UvarintLength(e)] < Half
            /\ \A i \in 1..(UvarintLength(e) - 1) : e[i] >= Half
<1> DEFINE I == {i \in 1..Len(e) : e[i] < Half}
           m == Min(I)
<1>1. UvarintLength(e) = IF I # {} THEN m ELSE 0
  BY DEF UvarintLength, SelectInSeq
<1>2. CASE I = {}
  BY <1>1, <1>2
<1>3. CASE I # {}
  <2>1. m \in I /\ \A i \in I : m <= i
    <3> I \subseteq Nat OBVIOUS
    <3> HIDE DEF I
    <3> QED BY <1>3, MinIsLeast
  <2> HIDE DEF m
  <2>2. m \in 1..Len(e) /\ Len(e) \in Nat /\ e[m] < Half
    BY <2>1
  <2>3. ASSUME NEW i \in 1..(m - 1) PROVE e[i] >= Half
    <3>1. i \in 1..Len(e) /\ i \notin I BY <2>1, <2>2
    <3>2. e[i] \in Nat BY <3>1, Sizes
    <3> QED BY <3>1, <3>2, Sizes
  <2> QED BY <1>1, <1>3, <2>2, <2>3
<1> QED BY <1>2, <1>3

\* If the varint ends where a byte without a flag is the first one.
LEMMA UvarintLengthEquals ==
  ASSUME NEW e \in Seq(0..(Byte - 1)), NEW k \in 1..Len(e), e[k] < Half,
         \A i \in 1..(k - 1) : e[i] >= Half
  PROVE  UvarintLength(e) = k
<1> DEFINE I == {i \in 1..Len(e) : e[i] < Half}
           m == Min(I)
<1>1. UvarintLength(e) = IF I # {} THEN m ELSE 0
  BY DEF UvarintLength, SelectInSeq
<1>2. k \in I
  OBVIOUS
<1>3. m \in I /\ \A i \in I : m <= i
  <2> I \subseteq Nat OBVIOUS
  <2> HIDE DEF I
  <2> QED BY <1>2, MinIsLeast
<1> HIDE DEF m
<1>4. m \in 1..Len(e) /\ e[m] < Half /\ m <= k
  BY <1>2, <1>3
<1>5. ~ (m < k)
  <2> SUFFICES ASSUME m < k PROVE FALSE
    OBVIOUS
  <2>1. m \in 1..(k - 1) BY <1>4
  <2>2. e[m] >= Half BY <2>1
  <2>3. e[m] \in Nat BY <1>4, Sizes
  <2> QED BY <1>4, <2>2, <2>3, Sizes
<1> QED BY <1>1, <1>2, <1>4, <1>5

\* The bytes of the code of the key type.
LEMMA KeyTypeBytes ==
  LET g == Digits(KeyType, Half)
      p == PutUvarint(KeyType)
  IN /\ g \in Seq(0..(Half - 1))
     /\ p \in Seq(0..(Byte - 1))
     /\ Len(p) = Len(g) /\ Len(p) >= 1
     /\ \A i \in 1..Len(p) : p[i] = IF i < Len(p) THEN g[i] + Half ELSE g[i]
     /\ Number(Reverse(g), Half) = KeyType
<1> DEFINE g == Digits(KeyType, Half)
           p == PutUvarint(KeyType)
<1>1. KeyType \in Nat /\ KeyType # 0
  BY EncodingsAssumption
<1>2. g \in Seq(0..(Half - 1)) /\ Number(Reverse(g), Half) = KeyType
  BY <1>1, Sizes, DigitsType, NumberOfDigits
<1>3. g # <<>>
  <2>1. Number(Reverse(<<>>), Half) = 0
    BY Sizes, NumberEmpty DEF Reverse
  <2> QED BY <1>1, <1>2, <2>1
<1>4. p = [i \in DOMAIN g |-> IF i < Len(g) THEN g[i] + Half ELSE g[i]]
  BY DEF PutUvarint
<1> HIDE DEF g, p
<1>5. DOMAIN g = 1..Len(g) /\ Len(g) \in Nat /\ Len(g) # 0
  BY <1>2, <1>3
<1>6. \A i \in 1..Len(g) : g[i] \in 0..(Half - 1)
  BY <1>2, ElementOfSeq
<1>7. \A i \in 1..Len(g) :
        (IF i < Len(g) THEN g[i] + Half ELSE g[i]) \in 0..(Byte - 1)
  BY <1>6, Sizes
<1>8. p \in Seq(0..(Byte - 1)) /\ Len(p) = Len(g)
  BY <1>4, <1>5, <1>7
<1> QED BY <1>2, <1>4, <1>5, <1>8 DEF g, p

\* What is written before a key is read back, and only that.
LEMMA ReadKeyType ==
  ASSUME NEW k \in Seq(0..(Byte - 1))
  PROVE  LET e == PutUvarint(KeyType) \o k IN
         /\ e \in Seq(0..(Byte - 1))
         /\ Uvarint(e) = KeyType
         /\ SubSeq(e, UvarintLength(e) + 1, Len(e)) = k
<1> DEFINE g == Digits(KeyType, Half)
           p == PutUvarint(KeyType)
           e == p \o k
           l == Len(p)
<1>1. /\ g \in Seq(0..(Half - 1))
      /\ p \in Seq(0..(Byte - 1))
      /\ l = Len(g) /\ l >= 1
      /\ \A i \in 1..l : p[i] = IF i < l THEN g[i] + Half ELSE g[i]
      /\ Number(Reverse(g), Half) = KeyType
  BY KeyTypeBytes
<1> HIDE DEF g, p
<1>2. /\ e \in Seq(0..(Byte - 1)) /\ Len(e) = l + Len(k) /\ l \in Nat
      /\ \A i \in 1..l : e[i] = p[i]
      /\ \A i \in 1..Len(k) : e[l + i] = k[i]
      /\ Len(k) \in Nat
  <2>1. Len(k) \in Nat /\ l \in Nat
    BY <1>1, LenProperties
  <2>2. /\ e \in Seq(0..(Byte - 1)) /\ Len(e) = l + Len(k)
        /\ \A i \in 1..(l + Len(k)) : e[i] = IF i <= l THEN p[i] ELSE k[i - l]
    BY <1>1, ConcatProperties
  <2> HIDE DEF e, l
  <2> QED BY <2>1, <2>2
<1>3. \A i \in 1..l : g[i] \in 0..(Half - 1)
  BY <1>1, ElementOfSeq
<1> HIDE DEF e, l
<1>4. UvarintLength(e) = l
  <2>1. l \in 1..Len(e)
    BY <1>1, <1>2
  <2>2. e[l] < Half
    <3>1. l \in 1..l /\ e[l] = g[l] BY <1>1, <1>2
    <3> QED BY <3>1, <1>3, Sizes
  <2>3. ASSUME NEW i \in 1..(l - 1) PROVE e[i] >= Half
    <3>1. i \in 1..l /\ i < l BY <1>2
    <3>2. e[i] = g[i] + Half BY <3>1, <1>1, <1>2
    <3> QED BY <3>1, <3>2, <1>3, Sizes
  <2> QED BY <1>2, <2>1, <2>2, <2>3, UvarintLengthEquals
<1> DEFINE groups == SubSeq(e, 1, l)
           masked == [i \in DOMAIN groups |-> groups[i] % Half]
<1>5. l \in 0..Len(e)
  BY <1>2
<1>6. Len(groups) = l /\ (\A i \in 1..l : groups[i] = e[i])
      /\ groups \in Seq(0..(Byte - 1))
  BY <1>2, <1>5, SplitAt DEF Cut
<1>7. masked = g
  <2> HIDE DEF groups
  <2>1. DOMAIN groups = 1..l /\ DOMAIN g = 1..l
    BY <1>1, <1>6
  <2>2. ASSUME NEW i \in 1..l PROVE groups[i] % Half = g[i]
    <3>1. groups[i] = g[i] + Half \/ groups[i] = g[i]
      BY <1>1, <1>2, <1>6
    <3> QED BY <3>1, <1>3, Mask
  <2>3. g = [i \in 1..l |-> g[i]]
    BY <1>1, <2>1
  <2> QED BY <2>1, <2>2, <2>3
<1>8. Uvarint(e) = KeyType
  <2>1. Uvarint(e) = Number(Reverse(masked), Half)
    BY <1>4 DEF Uvarint
  <2> HIDE DEF masked
  <2> QED BY <2>1, <1>1, <1>7
<1>9. SubSeq(e, l + 1, Len(e)) = k
  <2> DEFINE t == SubSeq(e, l + 1, Len(e))
  <2>1. /\ t \in Seq(0..(Byte - 1)) /\ Len(t) = Len(e) - l
        /\ \A i \in 1..(Len(e) - l) : t[i] = e[l + i]
    BY <1>2, <1>5, SplitAt DEF Cut
  <2> HIDE DEF t
  <2>2. Len(e) - l = Len(k)
    BY <1>2
  <2>3. Len(t) = Len(k) /\ \A i \in 1..Len(k) : t[i] = k[i]
    BY <1>2, <2>1, <2>2
  <2>4. t = k BY <2>1, <2>3, SeqEqual
  <2> QED BY <2>4 DEF t
<1> QED BY <1>2, <1>4, <1>8, <1>9 DEF e, p

\* What reads as the key type, in no more bytes than it needs, is what is
\* written for it.
LEMMA ReadOnlyKeyType ==
  ASSUME NEW e \in Seq(0..(Byte - 1)), Uvarint(e) = KeyType,
         UvarintLength(e) <= Len(PutUvarint(KeyType))
  PROVE  /\ e = PutUvarint(KeyType) \o SubSeq(e, UvarintLength(e) + 1, Len(e))
         /\ SubSeq(e, UvarintLength(e) + 1, Len(e)) \in Seq(0..(Byte - 1))
<1> DEFINE g == Digits(KeyType, Half)
           p == PutUvarint(KeyType)
           m == UvarintLength(e)
           groups == SubSeq(e, 1, m)
           masked == [i \in DOMAIN groups |-> groups[i] % Half]
<1>1. /\ g \in Seq(0..(Half - 1))
      /\ p \in Seq(0..(Byte - 1))
      /\ Len(p) = Len(g) /\ Len(p) >= 1
      /\ \A i \in 1..Len(p) : p[i] = IF i < Len(p) THEN g[i] + Half ELSE g[i]
      /\ Number(Reverse(g), Half) = KeyType
  BY KeyTypeBytes
<1>2. Number(Reverse(masked), Half) = KeyType
  BY DEF Uvarint
<1>3. m <= Len(p)
  OBVIOUS
<1>4. \/ m = 0
      \/ m \in 1..Len(e) /\ e[m] < Half /\ \A i \in 1..(m - 1) : e[i] >= Half
  BY UvarintLengthIs
<1>5. m \in 0..Len(e) /\ m \in Nat /\ Len(e) \in Nat
  <2> HIDE DEF m
  <2> QED BY <1>4, LenProperties
<1>6. /\ groups \in Seq(0..(Byte - 1)) /\ Len(groups) = m
      /\ \A i \in 1..m : groups[i] = e[i]
      /\ SubSeq(e, m + 1, Len(e)) \in Seq(0..(Byte - 1))
      /\ e = groups \o SubSeq(e, m + 1, Len(e))
  <2> DEFINE rest == SubSeq(e, m + 1, Len(e))
  <2>1. Cut(0..(Byte - 1), e, m, groups, rest)
    BY <1>5, SplitAt
  <2> HIDE DEF groups, rest
  <2>2. /\ groups \in Seq(0..(Byte - 1)) /\ Len(groups) = m
        /\ \A i \in 1..m : groups[i] = e[i]
        /\ rest \in Seq(0..(Byte - 1))
        /\ e = groups \o rest
    BY <2>1 DEF Cut
  <2> QED BY <2>2 DEF rest
<1> HIDE DEF g, p, m
<1>7. /\ masked \in Seq(0..(Half - 1)) /\ Len(masked) = m
      /\ \A i \in 1..m : masked[i] = groups[i] % Half
  <2> HIDE DEF groups
  <2>1. \A i \in 1..m : groups[i] \in 0..(Byte - 1)
    BY <1>6, ElementOfSeq
  <2>2. \A i \in 1..m : groups[i] % Half \in 0..(Half - 1)
    BY <2>1, Mask
  <2>3. DOMAIN groups = 1..m
    BY <1>6
  <2>4. masked \in [1..m -> 0..(Half - 1)]
    BY <2>2, <2>3
  <2> QED BY <2>3, <2>4, <1>5
<1> HIDE DEF groups, masked
<1> DEFINE r == Reverse(masked)
<1>8. r \in Seq(0..(Half - 1)) /\ Len(r) = m
  BY <1>7, ReverseType
<1>9. PICK z, t : z \in Seq({0}) /\ IsNumeral(t, Half) /\ r = z \o t
  BY <1>8, Sizes, LeadingZerosSplit
<1>10. Reverse(g) = t
  <2>1. t \in Seq(Nat) BY <1>9, Sizes DEF IsNumeral
  <2>2. Number(t, Half) = KeyType
    BY <1>2, <1>9, <2>1, Sizes, NumberOfConcat
  <2> QED BY <1>9, <2>2, Sizes, DigitsOfNumber DEF g
<1>11. Len(t) = Len(p)
  BY <1>1, <1>10, ReverseType
<1>12. z = <<>> /\ r = t /\ m = Len(p)
  <2>1. t \in Seq(0..(Half - 1)) /\ z \in Seq(Int) /\ t \in Seq(Int)
    BY <1>9, Sizes DEF IsNumeral
  <2>2. Len(z) \in Nat /\ Len(t) \in Nat /\ Len(r) = Len(z) + Len(t)
    BY <1>9, <2>1, ConcatProperties
  <2>3. Len(z) = 0
    BY <1>3, <1>8, <1>11, <2>2
  <2>4. z = <<>>
    BY <2>3, <1>9
  <2>5. r = t
    BY <1>9, <2>1, <2>4, ConcatEmptySeq
  <2> QED BY <2>4, <2>5, <1>8, <1>11
<1>13. ASSUME NEW i \in 1..m PROVE masked[i] = g[i]
  <2>1. m - i + 1 \in 1..m /\ m - (m - i + 1) + 1 = i
    BY <1>5
  <2>2. r[m - i + 1] = masked[i]
    <3>1. \A j \in 1..m : r[j] = masked[m - j + 1]
      BY <1>7, ReverseType
    <3> QED BY <3>1, <2>1
  <2>3. Reverse(g)[m - i + 1] = g[i]
    <3>1. \A j \in 1..Len(g) : Reverse(g)[j] = g[Len(g) - j + 1]
      BY <1>1, ReverseType
    <3>2. Len(g) = m
      BY <1>1, <1>12
    <3> QED BY <3>1, <3>2, <2>1
  <2> QED BY <2>2, <2>3, <1>10, <1>12
<1>14. groups = p
  <2>1. Len(groups) = Len(p)
    BY <1>6, <1>12
  <2>2. ASSUME NEW i \in 1..Len(groups) PROVE groups[i] = p[i]
    <3>1. i \in 1..m /\ m \in 1..Len(e)
      BY <1>1, <1>4, <1>5, <1>6, <1>12
    <3>2. e[i] \in 0..(Byte - 1) /\ groups[i] = e[i] /\ e[i] % Half = g[i]
      <4>1. i \in 1..Len(e)
        BY <3>1, <1>5
      <4>2. e[i] \in 0..(Byte - 1)
        BY <4>1, ElementOfSeq
      <4>3. groups[i] = e[i]
        BY <3>1, <1>6
      <4> QED BY <3>1, <4>2, <4>3, <1>7, <1>13
    <3>3. e[i] = IF e[i] < Half THEN g[i] ELSE g[i] + Half
      BY <3>2, Mask
    <3>4. CASE i < m
      <4>1. e[i] >= Half BY <3>1, <3>4, <1>1, <1>4, <1>12
      <4>2. ~ (e[i] < Half) BY <4>1, <3>2, Sizes
      <4>3. p[i] = g[i] + Half BY <3>1, <3>4, <1>1, <1>12
      <4> QED BY <4>2, <4>3, <3>2, <3>3
    <3>5. CASE i = m
      <4>1. e[i] < Half BY <3>1, <3>5, <1>1, <1>4, <1>12
      <4>2. p[i] = g[i] BY <3>1, <3>5, <1>1, <1>12
      <4> QED BY <4>1, <4>2, <3>2, <3>3
    <3> QED BY <3>1, <3>4, <3>5
  <2> QED BY <2>1, <2>2, <1>1, <1>6, SeqEqual
<1> QED BY <1>6, <1>14 DEF m, p
-----------------------------------------------------------------------------
(* The inputs, and the properties of texts.                                *)

\* An input is made of the symbols of its kind.
TypeOK ==
  /\ kind \in {"bytes", "text", "descriptor"}
  /\ input \in Seq(Symbols[kind])

\* Every behaviour makes inputs of bytes, characters or parts only
\* (Init and Next).
LEMMA InputsTyped == Spec => []TypeOK
<1>1. Init => TypeOK
  BY DEF Init, TypeOK
<1>2. TypeOK /\ [Next]_<<kind, input>> => TypeOK'
  <2> SUFFICES ASSUME TypeOK, [Next]_<<kind, input>> PROVE TypeOK'
    OBVIOUS
  <2>1. CASE Next
    <3>1. PICK symbol \in Symbols[kind] : input' = Append(input, symbol)
      BY <2>1 DEF Next
    <3>2. kind' = kind
      BY <2>1 DEF Next
    <3>3. input' \in Seq(Symbols[kind])
      BY <3>1, AppendProperties DEF TypeOK
    <3> QED BY <3>2, <3>3 DEF TypeOK
  <2>2. CASE UNCHANGED <<kind, input>>
    BY <2>2 DEF TypeOK
  <2> QED BY <2>1, <2>2
<1> QED BY <1>1, <1>2, PTL DEF Spec

\* What an input is made of, kind by kind.
LEMMA InputKinds ==
  ASSUME TypeOK
  PROVE  /\ kind = "bytes" => input \in Seq(0..(Byte - 1))
         /\ kind = "text" => input \in Seq(-1..(Radix - 1))
         /\ kind = "descriptor" => input \in Seq(Parts)
BY DEF TypeOK, Symbols

\* A text over the alphabet, and one with another character.
LEMMA TextKinds ==
  ASSUME NEW text \in Seq(-1..(Radix - 1))
  PROVE  IF \E i \in DOMAIN text : text[i] = -1
         THEN FromBase58(text) = <<>>
         ELSE text \in Seq(0..(Radix - 1))
<1>1. CASE \E i \in DOMAIN text : text[i] = -1
  BY <1>1 DEF FromBase58
<1>2. CASE ~ \E i \in DOMAIN text : text[i] = -1
  <2>1. \A i \in 1..Len(text) : text[i] \in 0..(Radix - 1)
    <3> TAKE i \in 1..Len(text)
    <3>1. text[i] \in -1..(Radix - 1) BY ElementOfSeq
    <3>2. text[i] # -1 BY <1>2, LenProperties
    <3> QED BY <3>1, <3>2, Sizes
  <2>2. PICK n \in Nat : text \in [1..n -> 0..(Radix - 1)]
    BY <2>1, LenProperties
  <2>3. text \in Seq(0..(Radix - 1))
    <3> DEFINE S == 0..(Radix - 1)
    <3> HIDE DEF S
    <3>1. text \in [1..n -> S] BY <2>2 DEF S
    <3>2. text \in Seq(S) BY <3>1, SeqDef
    <3> QED BY <3>2 DEF S
  <2> QED BY <1>2, <2>3
<1> QED BY <1>1, <1>2

\* Decoding is the inverse of encoding and encoding that of decoding
\* (FromBase58 and ToBase58), for inputs of any length.
THEOREM Base58Inverse == Spec => []Base58Bijective
<1>1. TypeOK => Base58Bijective
  <2> SUFFICES ASSUME TypeOK PROVE Base58Bijective
    OBVIOUS
  <2>1. ASSUME kind = "bytes" PROVE FromBase58(ToBase58(input)) = input
    <3>1. input \in Seq(0..(Byte - 1))
      BY <2>1, InputKinds
    <3>2. /\ Convert(input, Byte, Radix) \in Seq(0..(Radix - 1))
          /\ Convert(Convert(input, Byte, Radix), Radix, Byte) = input
      BY <3>1, Sizes, ConvertBack
    <3> QED BY <3>1, <3>2, ToBase58Converts, FromBase58Converts
  <2>2. ASSUME kind = "text"
        PROVE  IF \E i \in DOMAIN input : input[i] = -1
               THEN FromBase58(input) = <<>>
               ELSE ToBase58(FromBase58(input)) = input
    <3>1. CASE \E i \in DOMAIN input : input[i] = -1
      BY <2>2, <3>1, InputKinds, TextKinds
    <3>2. CASE ~ \E i \in DOMAIN input : input[i] = -1
      <4>1. input \in Seq(0..(Radix - 1))
        BY <2>2, <3>2, InputKinds, TextKinds
      <4>2. /\ Convert(input, Radix, Byte) \in Seq(0..(Byte - 1))
            /\ Convert(Convert(input, Radix, Byte), Byte, Radix) = input
        BY <4>1, Sizes, ConvertBack
      <4>3. ToBase58(FromBase58(input)) = input
        BY <4>1, <4>2, ToBase58Converts, FromBase58Converts
      <4> QED BY <3>2, <4>3
    <3> QED BY <3>1, <3>2
  <2> QED BY <2>1, <2>2 DEF Base58Bijective
<1> QED BY <1>1, InputsTyped, PTL

\* A DID gives back its key and is determined by it (PublicKeyFromDID), unless
\* the code of the key type is written with more bytes than needed.
THEOREM DIDInverse == Spec => []DIDIdentifiesKey
<1>1. TypeOK => DIDIdentifiesKey
  <2> SUFFICES ASSUME TypeOK PROVE DIDIdentifiesKey
    OBVIOUS
  <2>1. ASSUME kind = "bytes" PROVE PublicKeyFromDID(DID(input)) = input
    <3> DEFINE e == PutUvarint(KeyType) \o input
    <3>1. input \in Seq(0..(Byte - 1))
      BY <2>1, InputKinds
    <3>2. /\ e \in Seq(0..(Byte - 1))
          /\ Uvarint(e) = KeyType
          /\ SubSeq(e, UvarintLength(e) + 1, Len(e)) = input
      BY <3>1, ReadKeyType
    <3> HIDE DEF e
    <3>3. FromBase58(ToBase58(e)) = e
      <4>1. /\ Convert(e, Byte, Radix) \in Seq(0..(Radix - 1))
            /\ Convert(Convert(e, Byte, Radix), Radix, Byte) = e
        BY <3>2, Sizes, ConvertBack
      <4> QED BY <3>2, <4>1, ToBase58Converts, FromBase58Converts
    <3>4. DID(input) = ToBase58(e)
      BY DEF DID, e
    <3> QED BY <3>2, <3>3, <3>4 DEF PublicKeyFromDID
  <2>2. ASSUME kind = "text", PublicKeyFromDID(input) # NoKey,
               ~ (UvarintLength(FromBase58(input)) > Len(PutUvarint(KeyType)))
        PROVE  input = DID(PublicKeyFromDID(input))
    <3> DEFINE e == FromBase58(input)
               k == SubSeq(e, UvarintLength(e) + 1, Len(e))
    <3>1. Uvarint(e) = KeyType /\ PublicKeyFromDID(input) = k
      BY <2>2 DEF PublicKeyFromDID
    <3>2. input \in Seq(0..(Radix - 1))
      <4>1. e # <<>>
        <5> SUFFICES ASSUME e = <<>> PROVE FALSE
          OBVIOUS
        <5>1. e \in Seq(0..(Byte - 1)) /\ Len(e) = 0
          OBVIOUS
        <5>2. UvarintLength(e) = 0
          <6> HIDE DEF e
          <6>1. UvarintLength(e) = 0 \/ UvarintLength(e) \in 1..Len(e)
            BY <5>1, UvarintLengthIs
          <6> QED BY <6>1, <5>1
        <5>3. Uvarint(e) = Number(<<>>, Half)
          <6> HIDE DEF e
          <6>1. SubSeq(e, 1, 0) = <<>> BY <5>1
          <6> QED BY <5>2, <6>1 DEF Uvarint, Reverse
        <5> QED BY <3>1, <5>3, Sizes, NumberEmpty, EncodingsAssumption
      <4> QED BY <2>2, <4>1, InputKinds, TextKinds
    <3>3. e = Convert(input, Radix, Byte)
      BY <3>2, FromBase58Converts
    <3>4. e \in Seq(0..(Byte - 1)) /\ Convert(e, Byte, Radix) = input
      BY <3>2, <3>3, Sizes, ConvertBack
    <3>5. UvarintLength(e) <= Len(PutUvarint(KeyType))
      <4>1. UvarintLength(e) \in Nat
        BY <3>4, UvarintLengthIs, LenProperties
      <4>2. Len(PutUvarint(KeyType)) \in Nat
        BY KeyTypeBytes, LenProperties
      <4> QED BY <2>2, <4>1, <4>2
    <3> HIDE DEF e
    <3>6. e = PutUvarint(KeyType) \o k
      BY <3>1, <3>4, <3>5, ReadOnlyKeyType
    <3>7. DID(k) = ToBase58(e)
      BY <3>6 DEF DID
    <3>8. ToBase58(e) = input
      BY <3>4, ToBase58Converts
    <3> QED BY <3>1, <3>7, <3>8
  <2> QED BY <2>1, <2>2 DEF DIDIdentifiesKey
<1> QED BY <1>1, InputsTyped, PTL
-----------------------------------------------------------------------------
(* Derivation paths.                                                       *)

\* Components, and one part more.
WithPart(components, part) ==
  IF part.what = "empty" THEN components ELSE Append(components, part)

\* The components of the beginnings of a path, as Components computes them.
Beginnings(c, path) ==
  c = [n \in 0..Len(path) |->
         IF n = 0 THEN <<>> ELSE WithPart(c[n - 1], path[n])]

\* Components is what its recursive function says: there is one function of the
\* beginnings of the path with those values.
LEMMA ComponentsBeginnings ==
  ASSUME NEW path \in Seq(Parts)
  PROVE  \E c : Beginnings(c, path) /\ Components(path) = c[Len(path)]
<1> DEFINE F(g, n) == IF n = 0 THEN <<>> ELSE WithPart(g[n - 1], path[n])
           Upto(k) == \E g : /\ g = [n \in 0..k |-> g[n]]
                             /\ \A n \in 0..k : g[n] = F(g, n)
           E == {k \in Nat : Upto(k)}
<1>1. Upto(0)
  <2> DEFINE g == [n \in 0..0 |-> <<>>]
  <2>1. g = [n \in 0..0 |-> g[n]] /\ \A n \in 0..0 : g[n] = F(g, n)
    OBVIOUS
  <2> HIDE DEF g
  <2> QED BY <2>1
<1>2. ASSUME NEW k \in Nat, Upto(k) PROVE Upto(k + 1)
  <2>1. PICK g : \A n \in 0..k : g[n] = F(g, n)
    BY <1>2
  <2> DEFINE last == F(g, k + 1)
             h == [n \in 0..(k + 1) |-> IF n <= k THEN g[n] ELSE last]
  <2>2. h = [n \in 0..(k + 1) |-> h[n]]
    <3> HIDE DEF last
    <3> QED OBVIOUS
  <2>3. ASSUME NEW n \in 0..(k + 1) PROVE h[n] = F(h, n)
    <3>1. CASE n <= k
      <4>1. h[n] = g[n] /\ (n # 0 => h[n - 1] = g[n - 1]) BY <3>1
      <4> HIDE DEF h
      <4>2. F(h, n) = F(g, n) BY <4>1
      <4> QED BY <3>1, <2>1, <4>1, <4>2
    <3>2. CASE n = k + 1
      <4>1. h[n] = last /\ h[n - 1] = g[n - 1] BY <3>2
      <4> HIDE DEF h
      <4>2. F(h, n) = F(g, n) BY <4>1
      <4> QED BY <3>2, <4>1, <4>2
    <3> QED BY <3>1, <3>2
  <2> HIDE DEF h
  <2> QED BY <2>2, <2>3
<1>3. Upto(Len(path))
  <2> HIDE DEF Upto
  <2>1. 0 \in E /\ \A k \in Nat : k \in E => k + 1 \in E
    BY <1>1, <1>2
  <2> HIDE DEF E
  <2>2. \A k \in Nat : k \in E
    BY <2>1, Induction
  <2> QED BY <2>2 DEF E
<1>4. \E g : Beginnings(g, path)
  <2>1. PICK g : /\ g = [n \in 0..Len(path) |-> g[n]]
                 /\ \A n \in 0..Len(path) : g[n] = F(g, n)
    BY <1>3
  <2>2. g = [n \in 0..Len(path) |-> F(g, n)]
    <3> HIDE DEF F
    <3> QED BY <2>1
  <2> QED BY <2>2 DEF Beginnings
<1> QED BY <1>4 DEF Beginnings, Components, WithPart

\* The empty path has no components.
LEMMA ComponentsEmpty == Components(<<>>) = <<>>
<1> DEFINE e == <<>>
<1>1. e \in Seq(Parts) /\ Len(e) = 0
  OBVIOUS
<1> HIDE DEF e
<1>2. PICK c : Beginnings(c, e) /\ Components(e) = c[Len(e)]
  BY <1>1, ComponentsBeginnings
<1>3. c[0] = <<>>
  BY <1>1, <1>2 DEF Beginnings
<1> QED BY <1>1, <1>2, <1>3 DEF e

\* The loop over the parts: one more part is one more component, or none if it
\* is empty.
LEMMA ComponentsAppend ==
  ASSUME NEW path \in Seq(Parts), NEW part \in Parts
  PROVE  Components(Append(path, part)) = WithPart(Components(path), part)
<1> DEFINE t == Append(path, part)
<1>0. t \in Seq(Parts) /\ Len(t) = Len(path) + 1 /\ t[Len(t)] = part
      /\ \A n \in 1..Len(path) : t[n] = path[n]
  OBVIOUS
<1> HIDE DEF t
<1>1. PICK v : Beginnings(v, path) /\ Components(path) = v[Len(path)]
  BY ComponentsBeginnings
<1>2. PICK w : Beginnings(w, t) /\ Components(t) = w[Len(t)]
  BY ComponentsBeginnings, <1>0
<1> DEFINE A == {n \in Nat : n <= Len(path) => v[n] = w[n]}
<1>3. 0 \in A BY <1>0, <1>1, <1>2 DEF Beginnings
<1>4. ASSUME NEW n \in Nat, n \in A PROVE n + 1 \in A
  <2> SUFFICES ASSUME n + 1 <= Len(path) PROVE v[n + 1] = w[n + 1]
    OBVIOUS
  <2>1. v[n + 1] = WithPart(v[n], path[n + 1])
    BY <1>1 DEF Beginnings
  <2>2. w[n + 1] = WithPart(w[n], t[n + 1])
    BY <1>2, <1>0 DEF Beginnings
  <2>3. v[n] = w[n] /\ t[n + 1] = path[n + 1]
    BY <1>0, <1>4
  <2> QED BY <2>1, <2>2, <2>3
<1> HIDE DEF A
<1>5. v[Len(path)] = w[Len(path)]
  <2>1. \A n \in Nat : n \in A BY <1>3, <1>4, Induction
  <2> QED BY <2>1 DEF A
<1>6. w[Len(t)] = WithPart(w[Len(path)], t[Len(t)])
  <2>1. Len(path) \in Nat OBVIOUS
  <2> QED BY <2>1, <1>0, <1>2 DEF Beginnings
<1> QED BY <1>0, <1>1, <1>2, <1>5, <1>6 DEF t

\* Components are parts of the path, and no part but an empty one is lost.
LEMMA ComponentsAre ==
  ASSUME NEW path \in Seq(Parts)
  PROVE  /\ Components(path) \in Seq(Parts)
         /\ \A i \in 1..Len(path) :
              path[i].what # "empty" =>
                \E j \in 1..Len(Components(path)) :
                  Components(path)[j] = path[i]
<1> DEFINE Kept(p) == \A i \in 1..Len(p) :
                        p[i].what # "empty" =>
                          \E j \in 1..Len(Components(p)) :
                            Components(p)[j] = p[i]
           A == {p \in Seq(Parts) : Components(p) \in Seq(Parts) /\ Kept(p)}
<1>1. <<>> \in A
  <2>1. Components(<<>>) \in Seq(Parts)
    BY ComponentsEmpty, EmptySeq
  <2>2. Kept(<<>>)
    OBVIOUS
  <2> HIDE DEF Kept
  <2> QED BY <2>1, <2>2
<1>2. ASSUME NEW p \in Seq(Parts), p \in A, NEW part \in Parts
      PROVE  Append(p, part) \in A
  <2> DEFINE t == Append(p, part)
             c == Components(p)
             d == Components(t)
  <2>1. d = IF part.what = "empty" THEN c ELSE Append(c, part)
    BY ComponentsAppend DEF WithPart
  <2>2. c \in Seq(Parts) /\ Kept(p)
    BY <1>2
  <2>3. /\ t \in Seq(Parts) /\ Len(t) = Len(p) + 1 /\ t[Len(p) + 1] = part
        /\ \A i \in 1..Len(p) : t[i] = p[i]
        /\ Len(p) \in Nat
    OBVIOUS
  <2> HIDE DEF t, c, d
  <2>4. d \in Seq(Parts)
    BY <2>1, <2>2
  <2>5. \A j \in 1..Len(c) : j \in 1..Len(d) /\ d[j] = c[j]
    BY <2>1, <2>2
  <2>6. ASSUME NEW i \in 1..Len(t), t[i].what # "empty"
        PROVE  \E j \in 1..Len(d) : d[j] = t[i]
    <3>1. CASE i \in 1..Len(p)
      <4>1. PICK j \in 1..Len(c) : c[j] = p[i]
        BY <3>1, <2>2, <2>3, <2>6 DEF c
      <4> QED BY <4>1, <3>1, <2>3, <2>5
    <3>2. CASE i = Len(p) + 1
      <4>1. part.what # "empty" BY <3>2, <2>3, <2>6
      <4>2. d = Append(c, part) BY <4>1, <2>1
      <4>3. Len(c) + 1 \in 1..Len(d) /\ d[Len(c) + 1] = part
        BY <4>2, <2>2
      <4> QED BY <4>3, <3>2, <2>3
    <3> QED BY <3>1, <3>2, <2>3
  <2> QED BY <2>3, <2>4, <2>6 DEF t, d
<1> HIDE DEF A
<1>3. \A p \in Seq(Parts) : p \in A
  BY <1>1, <1>2, SeqInduction
<1> QED BY <1>3 DEF A

\* What a number in a path is.
LEMMA PartTypes ==
  ASSUME NEW part \in Parts, part.what = "number"
  PROVE  part.text \in Text /\ part.hardened \in BOOLEAN
<1>1. PICK text \in Component, hardened \in BOOLEAN :
        part = Index(text, hardened)
  BY DEF Parts, Part
<1> QED BY <1>1, EncodingsAssumption DEF Index

\* A decimal number that is an index keeps its value, and a hardened one its
\* offset.
LEMMA PathIndexIs ==
  ASSUME NEW part \in Parts, part.what = "number", IsIndex(part.text)
  PROVE  /\ PathIndex(part) % HardenedKeyStart = Number(part.text.digits, 10)
         /\ PathIndex(part) >= HardenedKeyStart <=> part.hardened
<1> DEFINE H == HardenedKeyStart
           m == Number(part.text.digits, 10)
           x == IF part.hardened THEN m + H ELSE m
<1>1. H \in Nat /\ H > 0 /\ Word = H + H
  BY Sizes
<1>2. m \in 0..(H - 1) /\ part.hardened \in BOOLEAN
  BY PartTypes DEF IsIndex
<1>3. PathIndex(part) = x % Word
  <2>1. Base[part.text.notation] = 10
    BY DEF IsIndex, Base
  <2>2. Value(part.text) = m
    BY <2>1 DEF Value
  <2> HIDE DEF m
  <2>3. PathIndex(part) = (m + (IF part.hardened THEN H ELSE 0)) % Word
    BY <2>2 DEF PathIndex
  <2> QED BY <1>1, <1>2, <2>3
<1> HIDE DEF H, m
<1>4. x \in 0..(Word - 1) /\ (x >= H <=> part.hardened)
  BY <1>1, <1>2
<1>5. x % Word = x
  <2> HIDE DEF x
  <2>1. \A d \in 0..(Word - 1) : (0 * Word + d) % Word = d
    <3>1. Word \in Nat /\ Word > 1 BY <1>1
    <3> QED BY <3>1, DivMod DEF LastDigit
  <2>2. 0 * Word + x = x
    BY <1>1, <1>4
  <2> QED BY <1>4, <2>1, <2>2
<1>6. x % H = m
  <2>1. CASE H = 1
    BY <1>1, <1>2, <2>1
  <2>2. CASE H > 1
    <3>1. \A d \in 0..(H - 1), y \in Nat : (y * H + d) % H = d
      BY <1>1, <2>2, DivMod DEF LastDigit
    <3>2. (0 * H + m) % H = m /\ (1 * H + m) % H = m
      BY <3>1, <1>2
    <3>3. 0 * H + m = m /\ 1 * H + m = m + H
      BY <1>1, <1>2
    <3> QED BY <3>2, <3>3
  <2> QED BY <1>1, <2>1, <2>2
<1> HIDE DEF x
<1> QED BY <1>3, <1>4, <1>5, <1>6 DEF H, m

\* A descriptor that is accepted names the pod's key once and last, and the
\* key is derived along the path written there
\* (ExtractGordianKeyDerivationPath and ParseDerivationPath).
THEOREM PathAsWritten == Spec => []DerivesAsWritten
<1>1. TypeOK => DerivesAsWritten
  <2> DEFINE path == ExtractGordianKeyDerivationPath(input)
             indices == ParseDerivationPath(path)
             own == SelectInSeq(input, LAMBDA part : part.what = "own")
             last == SelectLastInSeq(input, IsKey)
             c == Components(path)
  <2> SUFFICES ASSUME TypeOK, kind = "descriptor", path # <<>>, indices # NoPath
               PROVE  /\ own = last
                      /\ Len(indices) = Len(Written(input))
                      /\ \A i \in DOMAIN Written(input) :
                           IsIndex(Written(input)[i].text) =>
                             /\ indices[i] % HardenedKeyStart
                                  = Number(Written(input)[i].text.digits, 10)
                             /\ indices[i] >= HardenedKeyStart
                                  <=> Written(input)[i].hardened
    BY DEF DerivesAsWritten
  <2>1. input \in Seq(Parts) /\ Len(input) \in Nat
    BY InputKinds, LenProperties
  <2>2. own # 0 /\ path = SubSeq(input, own + 1, Len(input))
    BY DEF ExtractGordianKeyDerivationPath
  <2>3. own \in 1..Len(input) /\ input[own].what = "own"
    <3> DEFINE I == {i \in 1..Len(input) : input[i].what = "own"}
    <3>1. own = IF I # {} THEN Min(I) ELSE 0
      BY DEF SelectInSeq
    <3>2. I \subseteq Nat
      OBVIOUS
    <3> HIDE DEF I
    <3>3. own \in I
      BY <2>2, <3>1, <3>2, MinIsLeast
    <3> QED BY <3>3 DEF I
  <2>4. last \in own..Len(input) /\ IsKey(input[last])
    <3> DEFINE I == {i \in 1..Len(input) : IsKey(input[i])}
    <3>1. last = IF I # {} THEN Max(I) ELSE 0
      BY DEF SelectLastInSeq
    <3>2. I \subseteq 1..Len(input) /\ own \in I
      BY <2>3 DEF IsKey
    <3> HIDE DEF I
    <3>3. last \in I /\ own <= last
      BY <2>1, <3>1, <3>2, MaxIsGreatest
    <3> HIDE DEF last
    <3> QED BY <2>1, <2>3, <3>3 DEF I
  <2> HIDE DEF own, last
  <2>5. own \in 0..Len(input)
    BY <2>3
  <2>6. /\ path \in Seq(Parts) /\ Len(path) = Len(input) - own
        /\ \A i \in 1..(Len(input) - own) : path[i] = input[own + i]
    BY <2>1, <2>2, <2>5, SplitAt DEF Cut
  <2> HIDE DEF path
  <2>7. /\ c \in Seq(Parts)
        /\ \A i \in 1..Len(path) :
             path[i].what # "empty" => \E j \in 1..Len(c) : c[j] = path[i]
    BY <2>6, ComponentsAre
  <2>8. /\ \A i \in DOMAIN c : c[i].what = "number"
        /\ indices = [i \in DOMAIN c |-> PathIndex(c[i])]
    BY DEF ParseDerivationPath, IsNumber
  <2> HIDE DEF c, indices
  <2>9. DOMAIN c = 1..Len(c) /\ Len(c) \in Nat
    BY <2>7, LenProperties
  <2>10. own = last
    <3> SUFFICES ASSUME own < last PROVE FALSE
      BY <2>3, <2>4
    <3>1. last - own \in 1..Len(path) /\ own + (last - own) = last
      BY <2>1, <2>3, <2>4, <2>6
    <3>2. path[last - own] = input[last]
      BY <2>6, <3>1
    <3>3. input[last].what \notin {"empty", "number"}
      BY <2>4 DEF IsKey
    <3>4. PICK j \in 1..Len(c) : c[j] = path[last - own]
      BY <2>7, <3>1, <3>2, <3>3
    <3> QED BY <2>8, <2>9, <3>2, <3>3, <3>4
  <2>11. Written(input) = c
    BY <2>2, <2>10 DEF Written, c, last
  <2>12. Len(indices) = Len(c)
    BY <2>8, <2>9
  <2>13. ASSUME NEW i \in 1..Len(c), IsIndex(c[i].text)
         PROVE  /\ indices[i] % HardenedKeyStart = Number(c[i].text.digits, 10)
                /\ indices[i] >= HardenedKeyStart <=> c[i].hardened
    <3>1. c[i] \in Parts
      BY <2>7, ElementOfSeq
    <3>2. c[i].what = "number" /\ indices[i] = PathIndex(c[i])
      BY <2>8, <2>9
    <3> QED BY <2>13, <3>1, <3>2, PathIndexIs
  <2> QED BY <2>9, <2>10, <2>11, <2>12, <2>13
<1> QED BY <1>1, InputsTyped, PTL
=============================================================================
