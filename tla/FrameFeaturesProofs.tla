------------------------ MODULE FrameFeaturesProofs ------------------------
(***************************************************************************)
(* The features of a frame are those of the samples it stands for, by      *)
(* every table, permutation, butterfly and weight on the way.  The proof   *)
(* goes as the code does:                                                  *)
(*   - the points of the field are a circle, and cosine and sine on it     *)
(*     obey the laws of addition;                                          *)
(*   - make_sintbl's loop over differences has the sine of every angle;    *)
(*   - make_bitrev's carry counts with the digits reversed, and the swaps  *)
(*     put every sample where its reversed digits say;                     *)
(*   - a butterfly makes the transform of a block from those of its        *)
(*     halves, so that the last block has the transform of the frame;      *)
(*   - a filter's weights, from its first bin to its last, are those of    *)
(*     the whole triangle.                                                 *)
(* Induction over data is a set of numbers without a least counterexample. *)
(***************************************************************************)
EXTENDS FrameFeatures, NaturalsInduction, WellFoundedInduction,
        FiniteSetTheorems, FunctionTheorems, TLAPS

-----------------------------------------------------------------------------
(* Induction, as far as it needs no operator: a set of numbers has a least. *)

\* The library's well-founded relation on the numbers, put to one set.
LEMMA LeastNatural ==
    ASSUME NEW T, T \subseteq Nat, T # {}
    PROVE  \E n \in T : \A m \in T : n <= m
  <1> DEFINE Less == OpToRel(<, Nat)
  <1>1. IsWellFoundedOn(Less, Nat)
    BY NatLessThanWellFounded
  <1>2. PICK n \in T : \A m \in T : <<m, n>> \notin Less
    <2> HIDE DEF Less
    <2> QED BY <1>1, WFMin
  <1>3. \A m \in T : ~ (m < n)
    BY <1>2 DEF OpToRel
  <1> QED BY <1>3

\* A set with 0 and with every successor of its members holds all numbers.
LEMMA Induction ==
    ASSUME NEW S, 0 \in S, \A n \in Nat : n \in S => n + 1 \in S
    PROVE  Nat \subseteq S
  <1> DEFINE T == Nat \ S
  <1> SUFFICES ASSUME T # {} PROVE FALSE
    OBVIOUS
  <1>1. PICK n \in T : \A m \in T : n <= m
    <2> HIDE DEF T
    <2>1. T \subseteq Nat BY DEF T
    <2> QED BY <2>1, LeastNatural
  <1>2. n # 0 /\ n - 1 \in Nat
    BY <1>1
  <1>3. n - 1 \notin T
    BY <1>1, <1>2
  <1> QED BY <1>1, <1>2, <1>3

\* A function that is described step by step exists.
Rules(n, S) == [1..n -> [S -> S]]
Follows(f, n, base, step) == f[0] = base /\ \A i \in 1..n : f[i] = step[i][f[i - 1]]

LEMMA Recursion ==
    ASSUME NEW n \in Nat, NEW S, NEW base \in S, NEW step \in Rules(n, S)
    PROVE  \E f \in [0..n -> S] : Follows(f, n, base, step)
  <1> USE DEF Rules, Follows
  <1> DEFINE Upto(m) == \E f \in [0..m -> S] :
                 f[0] = base /\ \A i \in 1..m : f[i] = step[i][f[i - 1]]
             T == {m \in Nat : m <= n => Upto(m)}
  <1>1. 0 \in T
    <2> DEFINE f == [i \in 0..0 |-> base]
    <2>1. f \in [0..0 -> S] /\ f[0] = base /\ \A i \in 1..0 : f[i] = step[i][f[i - 1]]
      OBVIOUS
    <2>2. Upto(0)
      BY <2>1
    <2> QED BY <2>2
  <1>2. ASSUME NEW m \in Nat, m \in T PROVE m + 1 \in T
    <2> SUFFICES ASSUME m + 1 <= n PROVE Upto(m + 1)
      OBVIOUS
    <2>1. PICK f \in [0..m -> S] : f[0] = base /\ \A i \in 1..m : f[i] = step[i][f[i - 1]]
      BY <1>2
    <2> DEFINE g == [i \in 0..(m + 1) |-> IF i = m + 1 THEN step[m + 1][f[m]] ELSE f[i]]
    <2>2. step[m + 1][f[m]] \in S
      <3>1. m + 1 \in 1..n /\ m \in 0..m
        OBVIOUS
      <3> QED BY <2>1, <3>1
    <2>3. g \in [0..(m + 1) -> S]
      BY <2>1, <2>2
    <2>4. g[0] = base
      BY <2>1
    <2>5. ASSUME NEW i \in 1..(m + 1) PROVE g[i] = step[i][g[i - 1]]
      BY <2>1
    <2> QED BY <2>3, <2>4, <2>5
  <1>3. Nat \subseteq T
    <2> HIDE DEF T
    <2> QED BY <1>1, <1>2, Induction
  <1> QED BY <1>3

-----------------------------------------------------------------------------
(* Division.                                                               *)

\* What quotient and remainder are, for a divisor above 0.
LEMMA Division ==
    ASSUME NEW d \in Nat \ {0}, NEW a \in Int
    PROVE  a \div d \in Int /\ a % d \in 0..(d - 1) /\ a = ((a \div d) * d) + (a % d)
  BY SMT

LEMMA DivisionIs ==
    ASSUME NEW d \in Nat \ {0}, NEW q \in Int, NEW r \in 0..(d - 1)
    PROVE  (q * d + r) \div d = q /\ (q * d + r) % d = r
  BY SMT

\* And what makes two numbers the quotient and the remainder.
LEMMA DivisionOf ==
    ASSUME NEW d \in Nat \ {0}, NEW q \in Int, NEW r \in 0..(d - 1), NEW a \in Int,
           a = q * d + r
    PROVE  a \div d = q /\ a % d = r
  BY DivisionIs

\* A remainder of 0 is a product.
LEMMA Divides ==
    ASSUME NEW d \in Nat \ {0}, NEW a \in Int
    PROVE  /\ a % d = 0 => a = (a \div d) * d
           /\ \A q \in Int : a = q * d => a % d = 0 /\ a \div d = q
  <1>1. a % d = 0 => a = (a \div d) * d
    BY Division
  <1>2. ASSUME NEW q \in Int, a = q * d PROVE a % d = 0 /\ a \div d = q
    BY <1>2, DivisionOf
  <1> QED BY <1>1, <1>2

-----------------------------------------------------------------------------
(* The field.                                                              *)

\* The member of the field that a number stands for.
Mod(a) == a % P

LEMMA PType == P \in Nat \ {0} /\ P > 2 /\ P - 1 \in Nat \ {0}
  BY FieldAssumption

LEMMA ModType == \A a \in Int : Mod(a) \in Field /\ Mod(a) \in Int
  BY PType, Division DEF Mod, Field

LEMMA ModOfField == \A a \in Field : a \in Int /\ Mod(a) = a
  <1>1. ASSUME NEW a \in Field PROVE a \in Int /\ Mod(a) = a
    <2>1. a \in 0..(P - 1)
      BY DEF Field
    <2> QED BY <2>1, PType, DivisionOf, a = 0 * P + a DEF Mod
  <1> QED BY <1>1

\* Equal up to multiples of P.
LEMMA ModSame ==
    ASSUME NEW a \in Int, NEW b \in Int
    PROVE  Mod(a) = Mod(b) <=> \E q \in Int : a = b + q * P
  <1>1. ASSUME Mod(a) = Mod(b) PROVE \E q \in Int : a = b + q * P
    <2>1. a = ((a \div P) * P) + Mod(a) /\ b = ((b \div P) * P) + Mod(b)
          /\ a \div P \in Int /\ b \div P \in Int
      BY PType, Division DEF Mod
    <2>2. a = b + ((a \div P) - (b \div P)) * P
      BY <1>1, <2>1, PType, ModType
    <2> QED BY <2>1, <2>2
  <1>2. ASSUME NEW q \in Int, a = b + q * P PROVE Mod(a) = Mod(b)
    <2>1. b = ((b \div P) * P) + Mod(b) /\ b \div P \in Int /\ Mod(b) \in 0..(P - 1)
      BY PType, Division DEF Mod
    <2>2. a = ((b \div P) + q) * P + Mod(b)
      BY <1>2, <2>1, PType
    <2> DEFINE r == (b \div P) + q
               c == Mod(b)
    <2>3. r \in Int /\ c \in 0..(P - 1) /\ a = r * P + c
      BY <2>1, <2>2
    <2> HIDE DEF r, c
    <2>4. a % P = c
      BY <2>3, PType, DivisionOf
    <2> QED BY <2>4 DEF Mod, c
  <1> QED BY <1>1, <1>2

\* Equal in the field.
Same(a, b) == Mod(a) = Mod(b)

\* Sums, differences and products of equals are equal in the field.
LEMMA SameOps ==
    ASSUME NEW a \in Int, NEW b \in Int, NEW c \in Int, NEW d \in Int,
           Same(a, b), Same(c, d)
    PROVE  Same(a + c, b + d) /\ Same(a - c, b - d) /\ Same(a * c, b * d)
  <1>1. PICK q \in Int : a = b + q * P
    BY ModSame DEF Same
  <1>2. PICK r \in Int : c = d + r * P
    BY ModSame DEF Same
  <1>3. a + c = (b + d) + (q + r) * P
    BY <1>1, <1>2, PType
  <1>4. a - c = (b - d) + (q - r) * P
    BY <1>1, <1>2, PType
  <1>5. a * c = (b * d) + (q * d + r * b + q * r * P) * P
    BY <1>1, <1>2, PType
  <1>6. /\ a + c \in Int /\ b + d \in Int /\ a - c \in Int /\ b - d \in Int
        /\ a * c \in Int /\ b * d \in Int /\ q + r \in Int /\ q - r \in Int
        /\ q * d + r * b + q * r * P \in Int
    BY PType
  <1> QED BY <1>3, <1>4, <1>5, <1>6, ModSame DEF Same

LEMMA SameRefl == \A a \in Int : Same(a, a) /\ Same(Mod(a), a) /\ Same(a, Mod(a))
  <1>1. \A a \in Int : Mod(Mod(a)) = Mod(a)
    BY ModType, ModOfField
  <1> QED BY <1>1 DEF Same

LEMMA ModMod == \A a \in Int : Mod(Mod(a)) = Mod(a)
  BY SameRefl DEF Same

\* An operand may be reduced before the operation.
LEMMA ModIn ==
    ASSUME NEW a \in Int, NEW b \in Int
    PROVE  /\ Mod(Mod(a) + b) = Mod(a + b) /\ Mod(b + Mod(a)) = Mod(b + a)
           /\ Mod(Mod(a) - b) = Mod(a - b) /\ Mod(b - Mod(a)) = Mod(b - a)
           /\ Mod(Mod(a) * b) = Mod(a * b) /\ Mod(b * Mod(a)) = Mod(b * a)
  <1> DEFINE c == Mod(a)
  <1>1. c \in Int /\ Same(c, a) /\ Same(b, b)
    BY SameRefl, ModType
  <1> HIDE DEF c
  <1>2. Same(c + b, a + b) /\ Same(c - b, a - b) /\ Same(c * b, a * b)
    BY <1>1, SameOps
  <1>3. Same(b + c, b + a) /\ Same(b - c, b - a) /\ Same(b * c, b * a)
    BY <1>1, SameOps
  <1> QED BY <1>2, <1>3 DEF c, Same

\* What is 0 in the field makes everything it multiplies 0.
LEMMA ModZero ==
    ASSUME NEW a \in Int, NEW b \in Int, Mod(a) = 0
    PROVE  Mod(a * b) = 0 /\ Mod(b * a) = 0
  <1>1. PICK q \in Int : a = q * P
    BY PType, Divides, Division DEF Mod
  <1>2. a * b = (q * b) * P /\ b * a = (q * b) * P /\ q * b \in Int
    BY <1>1, PType
  <1> DEFINE r == q * b
             c == a * b
  <1>3. c = b * a /\ c \in Int /\ c = r * P /\ r \in Int
    BY <1>2
  <1> HIDE DEF c, r
  <1>4. c % P = 0
    BY <1>3, PType, Divides
  <1> QED BY <1>3, <1>4 DEF Mod, c

\* Equals differ by 0.
LEMMA ModDifference ==
    ASSUME NEW a \in Int, NEW b \in Int
    PROVE  Same(a, b) <=> Mod(a - b) = 0
  <1>1. Mod(0) = 0
    BY ModOfField, PType DEF Field
  <1>2. ASSUME Same(a, b) PROVE Mod(a - b) = 0
    <2>1. Same(a - b, b - b)
      BY <1>2, SameOps, SameRefl
    <2> QED BY <1>1, <2>1 DEF Same
  <1>3. ASSUME Mod(a - b) = 0 PROVE Same(a, b)
    <2> DEFINE c == a - b
    <2>1. c \in Int /\ Same(c, 0) /\ Same(b, b) /\ a = c + b /\ b = 0 + b
      BY <1>1, <1>3, SameRefl DEF Same
    <2> HIDE DEF c
    <2>2. Same(c + b, 0 + b)
      BY <2>1, SameOps
    <2> QED BY <2>1, <2>2
  <1> QED BY <1>2, <1>3

\* A prime divides a product only with a factor.
LEMMA Euclid ==
    ASSUME NEW a \in Int, NEW b \in Int, Mod(a * b) = 0
    PROVE  Mod(a) = 0 \/ Mod(b) = 0
  <1> SUFFICES ASSUME Mod(b) # 0 PROVE Mod(a) = 0
    OBVIOUS
  <1> DEFINE T == {t \in Nat \ {0} : Mod(t * b) = 0}
  <1>1. P \in T
    <2>1. Mod(P * b) = 0
      BY PType, Divides, P * b \in Int, P * b = b * P DEF Mod
    <2> QED BY <2>1, PType
  <1>2. PICK t \in T : \A u \in T : t <= u
    <2>1. T \subseteq Nat /\ T # {}
      BY <1>1
    <2> HIDE DEF T
    <2> QED BY <2>1, LeastNatural
  <1>3. P % t = 0
    <2> DEFINE r == P % t
               q == P \div t
    <2>1. q \in Int /\ r \in 0..(t - 1) /\ P = q * t + r
      BY PType, Division
    <2> HIDE DEF q, r
    <2>2. r * b = P * b - q * (t * b)
      BY <2>1, PType
    <2>3. Mod(P * b) = 0 /\ Mod(q * (t * b)) = 0
      BY <1>1, <1>2, <2>1, ModZero, t * b \in Int, q \in Int
    <2>4. Mod(r * b) = 0
      <3> DEFINE u == P * b
                 v == q * (t * b)
      <3>1. u \in Int /\ v \in Int /\ r * b = u - v /\ Same(u, v)
        BY <2>1, <2>2, <2>3, PType DEF Same
      <3> HIDE DEF u, v
      <3> QED BY <3>1, ModDifference
    <2>5. r = 0
      BY <1>2, <2>1, <2>4
    <2> QED BY <2>5 DEF r
  <1>4. t = P
    <2>1. t <= P
      BY <1>1, <1>2
    <2>2. t # 1
      BY <1>2
    <2>3. t \notin 2..(P - 1)
      BY <1>3, FieldAssumption
    <2> QED BY <2>1, <2>2, <2>3, PType
  <1>5. Mod(a) \in 0..(P - 1)
    BY ModType DEF Field
  <1>6. Mod(Mod(a) * b) = 0
    BY ModIn
  <1> QED BY <1>2, <1>4, <1>5, <1>6, PType

-----------------------------------------------------------------------------
(* The circle.                                                             *)

LEMMA GeneratorType == Generator \in Int /\ Generator \in Field /\ 1 \in Field /\ 0 \in Field
  BY FieldAssumption, PType, ModOfField DEF Field

\* Points[e] is the generator to the power of e.
LEMMA PointsAre ==
    /\ Points \in [0..(P - 2) -> Field]
    /\ Points[0] = 1
    /\ \A e \in 1..(P - 2) : Points[e] = Mod(Points[e - 1] * Generator)
  <1> DEFINE step == [i \in 1..(P - 2) |-> [x \in Field |-> Mod(x * Generator)]]
  <1>1. PICK r \in [0..(P - 2) -> Field] :
            r[0] = 1 /\ \A i \in 1..(P - 2) : r[i] = step[i][r[i - 1]]
    <2>1. \A x \in Field : Mod(x * Generator) \in Field
      BY ModType, ModOfField, GeneratorType
    <2>2. step \in [1..(P - 2) -> [Field -> Field]]
      BY <2>1
    <2>3. P - 2 \in Nat /\ step \in Rules(P - 2, Field)
      BY <2>2, PType DEF Rules
    <2> HIDE DEF step
    <2>4. \E r \in [0..(P - 2) -> Field] : Follows(r, P - 2, 1, step)
      BY <2>3, GeneratorType, Recursion
    <2> QED BY <2>4 DEF Follows
  <1>2. \A i \in 1..(P - 2) : r[i] = Mod(r[i - 1] * Generator)
    <2> TAKE i \in 1..(P - 2)
    <2>1. i - 1 \in 0..(P - 2)
      BY PType
    <2>2. r[i - 1] \in Field
      BY <2>1, <1>1
    <2> QED BY <2>2, <1>1
  <1> HIDE DEF step
  <1>3. \A a, b \in Nat : a + b <= P - 2 => r[a + b] = Mod(r[a] * r[b])
    <2> TAKE a \in Nat
    <2> DEFINE T == {b \in Nat : a + b <= P - 2 => r[a + b] = Mod(r[a] * r[b])}
    <2>1. 0 \in T
      <3> SUFFICES ASSUME a <= P - 2 PROVE r[a] = Mod(r[a] * 1)
        BY <1>1
      <3>1. r[a] \in Field
        BY <1>1
      <3> QED BY <3>1, ModOfField
    <2>2. ASSUME NEW b \in Nat, b \in T PROVE b + 1 \in T
      <3> SUFFICES ASSUME a + (b + 1) <= P - 2
                   PROVE  r[a + (b + 1)] = Mod(r[a] * r[b + 1])
        OBVIOUS
      <3> DEFINE u == r[a]
                 v == r[b]
                 w == r[a + b]
      <3>1. a + b \in 0..(P - 2) /\ b + 1 \in 1..(P - 2) /\ a + (b + 1) \in 1..(P - 2)
        BY PType
      <3>2. u \in Int /\ v \in Int /\ w = Mod(u * v)
        <4>1. a \in 0..(P - 2) /\ b \in 0..(P - 2) /\ a + b <= P - 2
          BY <3>1, PType
        <4>2. r[a] \in Field /\ r[b] \in Field
          BY <4>1, <1>1
        <4> QED BY <4>1, <4>2, <2>2, ModOfField
      <3>3. r[b + 1] = Mod(v * Generator) /\ r[a + (b + 1)] = Mod(w * Generator)
        <4>1. (b + 1) - 1 = b /\ (a + (b + 1)) - 1 = a + b
          OBVIOUS
        <4> QED BY <4>1, <3>1, <1>2
      <3> HIDE DEF u, v, w
      <3>4. Mod(w * Generator) = Mod((u * v) * Generator)
        BY <3>2, GeneratorType, ModIn, u * v \in Int
      <3>5. Mod(u * Mod(v * Generator)) = Mod(u * (v * Generator))
        BY <3>2, GeneratorType, ModIn, v * Generator \in Int
      <3>6. (u * v) * Generator = u * (v * Generator)
        BY <3>2, GeneratorType
      <3> QED BY <3>3, <3>4, <3>5, <3>6 DEF u
    <2>3. Nat \subseteq T
      <3> HIDE DEF T
      <3> QED BY <2>1, <2>2, Induction
    <2> QED BY <2>3
  <1> DEFINE Half1(f, e) == f[e \div 2]
             Def(f, e) == IF e = 0 THEN 1
                          ELSE (Half1(f, e) * Half1(f, e)
                                 * (IF e % 2 = 1 THEN Generator ELSE 1)) % P
  <1>4. \A e \in 1..(P - 2) : e \div 2 \in 0..(P - 2) /\ e \div 2 < e
    BY PType
  <1>5. \A e \in 0..(P - 2) : r[e] = Def(r, e)
    <2> TAKE e \in 0..(P - 2)
    <2>1. CASE e = 0
      BY <2>1, <1>1
    <2>2. CASE e # 0
      <3> DEFINE h == e \div 2
                 v == r[h]
      <3>1. h \in Nat /\ h + h <= P - 2 /\ ((e = h + h /\ e % 2 = 0) \/ (e = h + h + 1 /\ e % 2 = 1))
        BY <2>2, PType
      <3>2. v \in Int
        <4>1. h \in 0..(P - 2)
          BY <1>4, <2>2
        <4> QED BY <4>1, <1>1, ModOfField
      <3>3. r[h + h] = Mod(v * v)
        BY <3>1, <1>3
      <3> HIDE DEF h, v
      <3>4. CASE e = h + h /\ e % 2 = 0
        <4>1. Def(r, e) = Mod(v * v * 1)
          BY <2>2, <3>4 DEF h, v, Mod
        <4> QED BY <4>1, <3>2, <3>3, <3>4
      <3>5. CASE e = h + h + 1 /\ e % 2 = 1
        <4>1. Def(r, e) = Mod(v * v * Generator)
          BY <2>2, <3>5 DEF h, v, Mod
        <4>2. r[e] = Mod(r[h + h] * Generator)
          <5>1. e \in 1..(P - 2) /\ e - 1 = h + h
            BY <3>1, <3>5, <2>2
          <5> QED BY <5>1, <1>2
        <4>3. Mod(Mod(v * v) * Generator) = Mod((v * v) * Generator)
          BY <3>2, ModIn, GeneratorType, v * v \in Int
        <4> QED BY <4>1, <4>2, <4>3, <3>3
      <3> QED BY <3>1, <3>4, <3>5
    <2> QED BY <2>1, <2>2
  <1>6. Points = [e \in 0..(P - 2) |-> Def(Points, e)]
    <2>1. r = [e \in 0..(P - 2) |-> Def(r, e)]
      BY <1>1, <1>5
    <2>2. \E f : f = [e \in 0..(P - 2) |-> Def(f, e)]
      BY <2>1
    <2> QED BY <2>2 DEF Points
  <1>7. \A e \in 0..(P - 2) : Points[e] = r[e]
    <2> DEFINE T == {e \in 0..(P - 2) : Points[e] # r[e]}
    <2> SUFFICES ASSUME T # {} PROVE FALSE
      OBVIOUS
    <2>1. PICK e \in T : \A d \in T : e <= d
      <3>1. T \subseteq Nat
        OBVIOUS
      <3> HIDE DEF T
      <3> QED BY <3>1, LeastNatural
    <2>2. e \in 0..(P - 2) /\ Points[e] # r[e]
      BY <2>1
    <2>3. Points[e] = Def(Points, e) /\ r[e] = Def(r, e)
      BY <2>2, <1>6, <1>5
    <2>4. e # 0
      BY <2>2, <2>3
    <2>5. e \div 2 \in 0..(P - 2) /\ e \div 2 < e
      BY <2>2, <2>4, <1>4, PType
    <2>6. Points[e \div 2] = r[e \div 2]
      BY <2>5, <2>1, <2>2
    <2>7. Def(Points, e) = Def(r, e)
      BY <2>6
    <2> QED BY <2>2, <2>3, <2>7
  <1>8. Points = r
    BY <1>1, <1>6, <1>7
  <1> QED BY <1>1, <1>2, <1>8

LEMMA PointsType == \A e \in 0..(P - 2) : Points[e] \in Int /\ Points[e] \in Field
  BY PointsAre, ModOfField

\* Once around, each point is met once.
LEMMA PointsInjective ==
    \A d, e \in 0..(P - 2) : Points[d] = Points[e] => d = e
  <1> DEFINE S == 0..(P - 2)
             T == 1..(P - 1)
  <1>1. T = Field \ {0}
    BY PType DEF Field
  <1>2. Points \in Surjection(S, T)
    <2>1. {Points[e] : e \in S} = T
      BY <1>1, FieldAssumption
    <2>2. Points \in [S -> T]
      BY <2>1, PointsAre
    <2>3. \A t \in T : \E e \in S : Points[e] = t
      BY <2>1
    <2> HIDE DEF S, T
    <2> QED BY <2>2, <2>3, Fun_IsSurj
  <1>3. IsFiniteSet(S) /\ IsFiniteSet(T) /\ Cardinality(S) = Cardinality(T)
    <2>1. 0 \in Int /\ 1 \in Int /\ P - 2 \in Int /\ P - 1 \in Int
      BY PType
    <2>2. IsFiniteSet(S) /\ Cardinality(S) = IF 0 > P - 2 THEN 0 ELSE (P - 2) - 0 + 1
      BY <2>1, FS_Interval
    <2>3. IsFiniteSet(T) /\ Cardinality(T) = IF 1 > P - 1 THEN 0 ELSE (P - 1) - 1 + 1
      BY <2>1, FS_Interval
    <2> QED BY <2>2, <2>3, PType
  <1>4. Points \in Injection(S, T)
    <2> HIDE DEF S, T
    <2> QED BY <1>2, <1>3, FS_SurjSameCardinalityImpliesInj
  <1>5. \A d, e \in S : Points[d] = Points[e] => d = e
    <2> HIDE DEF S, T
    <2> QED BY <1>4 DEF Injection, IsInjective
  <1> QED BY <1>5

\* Steps once around, and the point e steps from 1, in either direction.
Steps == P - 1
At(e) == Points[e % Steps]

LEMMA StepsType == Steps \in Nat \ {0} /\ Steps > 1 /\ P = Steps + 1
  BY PType DEF Steps

\* Every number of steps is turns and a place on the circle.
LEMMA Turn ==
    \A e \in Int : e \div Steps \in Int /\ e % Steps \in 0..(P - 2)
                   /\ e = (e % Steps) + (e \div Steps) * Steps
  <1> TAKE e \in Int
  <1>1. e \div Steps \in Int /\ e % Steps \in 0..(Steps - 1)
        /\ e = ((e \div Steps) * Steps) + (e % Steps)
    BY StepsType, Division
  <1>2. 0..(Steps - 1) = 0..(P - 2)
    BY StepsType
  <1> DEFINE q == e \div Steps
             r == e % Steps
  <1>3. q \in Int /\ r \in 0..(P - 2) /\ e = (q * Steps) + r
    BY <1>1, <1>2
  <1> HIDE DEF q, r
  <1>4. e = r + q * Steps
    BY <1>3, StepsType
  <1> QED BY <1>3, <1>4 DEF q, r

LEMMA TurnOf ==
    ASSUME NEW q \in Int, NEW r \in 0..(P - 2), NEW a \in Int, a = q * Steps + r
    PROVE  a % Steps = r
  <1>1. r \in 0..(Steps - 1)
    BY StepsType
  <1> QED BY <1>1, StepsType, DivisionOf

LEMMA AtType == \A e \in Int : At(e) \in Int /\ At(e) \in Field /\ At(e) # 0
  <1> TAKE e \in Int
  <1>1. e % Steps \in 0..(P - 2)
    BY Turn
  <1>2. Points[e % Steps] \in Field \ {0}
    BY <1>1, FieldAssumption
  <1> QED BY <1>1, <1>2, PointsType DEF At

\* A turn more or less leads to the same point.
LEMMA AtPeriod ==
    ASSUME NEW e \in Int, NEW q \in Int
    PROVE  At(e + q * Steps) = At(e)
  <1> DEFINE d == e \div Steps
             r == e % Steps
             c == d + q
             a == e + q * Steps
  <1>1. d \in Int /\ r \in 0..(P - 2) /\ e = r + d * Steps
    BY Turn
  <1>2. c \in Int /\ a \in Int /\ a = c * Steps + r
    BY <1>1, StepsType
  <1> HIDE DEF a, c, r
  <1>3. a % Steps = r
    BY <1>1, <1>2, TurnOf
  <1> QED BY <1>3 DEF At, a, r

LEMMA AtZero == At(0) = 1
  <1>1. 0 = 0 * Steps + 0 /\ 0 \in 0..(P - 2)
    BY StepsType
  <1>2. 0 % Steps = 0
    BY <1>1, TurnOf
  <1> QED BY <1>2, PointsAre DEF At

\* One step on is one more generator, past the end of the table too.
LEMMA AtStep == \A e \in Int : Same(At(e + 1), At(e) * Generator)
  <1> TAKE e \in Int
  <1> DEFINE d == e \div Steps
             r == e % Steps
  <1>1. d \in Int /\ r \in 0..(P - 2) /\ e = r + d * Steps
    BY Turn
  <1>2. At(e) = Points[r]
    BY DEF At
  <1>3. CASE r < P - 2
    <2> DEFINE a == e + 1
               b == r + 1
    <2>1. b \in 1..(P - 2) /\ b - 1 = r /\ b \in 0..(P - 2) /\ a = d * Steps + b /\ a \in Int
      BY <1>1, <1>3, StepsType
    <2>2. a % Steps = b
      <3> HIDE DEF a, b, d
      <3> QED BY <1>1, <2>1, TurnOf
    <2>3. Points[b] = Mod(Points[r] * Generator)
      BY <2>1, PointsAre
    <2>4. Points[r] * Generator \in Int
      BY <1>1, PointsType, GeneratorType
    <2>5. At(e + 1) = Mod(Points[r] * Generator)
      BY <2>2, <2>3 DEF At
    <2> QED BY <1>2, <2>4, <2>5, SameRefl
  <1>4. CASE r = P - 2
    <2>1. At(e + 1) = 1
      <3> DEFINE b == d + 1
      <3>1. e + 1 = 0 + b * Steps /\ b \in Int
        BY <1>1, <1>4, StepsType
      <3> HIDE DEF b
      <3> QED BY <3>1, AtPeriod, AtZero
    \* Nothing but 1 can come after the last point.
    <2> DEFINE v == Mod(Points[P - 2] * Generator)
    <2>2. Points[P - 2] \in Int /\ Points[P - 2] \in Field \ {0}
      BY PType, PointsType, FieldAssumption
    <2>3. Generator # 0
      <3>1. 1 \in 1..(P - 2) /\ 1 - 1 = 0 /\ 1 \in 0..(P - 2)
        BY PType
      <3>2. Points[1] = Mod(1 * Generator)
        BY <3>1, PointsAre
      <3>3. Points[1] # 0
        BY <3>1, FieldAssumption
      <3>4. 1 * Generator = Generator
        BY GeneratorType
      <3> QED BY <3>2, <3>3, <3>4, GeneratorType, ModOfField
    <2>4. Mod(Points[P - 2]) # 0 /\ Mod(Generator) # 0
      BY <2>2, <2>3, GeneratorType, ModOfField
    <2>5. v \in Field \ {0}
      <3>1. Points[P - 2] * Generator \in Int
        BY <2>2, GeneratorType
      <3> QED BY <3>1, <2>2, <2>4, GeneratorType, Euclid, ModType
    <2>6. PICK j \in 0..(P - 2) : Points[j] = v
      BY <2>5, FieldAssumption
    <2>7. j = 0
      <3> SUFFICES ASSUME j # 0 PROVE FALSE
        OBVIOUS
      <3> DEFINE a == Points[P - 2]
                 b == Points[j - 1]
      <3>1. j - 1 \in 0..(P - 2) /\ j \in 1..(P - 2) /\ P - 2 \in 0..(P - 2) /\ j - 1 # P - 2
        BY <2>6, PType
      <3>2. a \in Field /\ b \in Field /\ a \in Int /\ b \in Int /\ Generator \in Int
        BY <3>1, PointsType, GeneratorType
      <3>3. Same(a * Generator, b * Generator)
        BY <2>6, <3>1, PointsAre DEF Same
      <3>4. a # b
        BY <3>1, PointsInjective
      <3> HIDE DEF a, b
      <3>5. Mod(a * Generator - b * Generator) = 0
        BY <3>3, <3>2, ModDifference, a * Generator \in Int, b * Generator \in Int
      <3>6. Mod((a - b) * Generator) = 0
        <4>1. (a - b) * Generator = a * Generator - b * Generator
          BY <3>2
        <4> QED BY <4>1, <3>5
      <3>7. Mod(a - b) = 0
        BY <3>2, <3>6, <2>4, Euclid, a - b \in Int
      <3>8. Mod(a) = Mod(b)
        BY <3>2, <3>7, ModDifference DEF Same
      <3> QED BY <3>2, <3>4, <3>8, ModOfField
    <2>8. v = 1
      BY <2>6, <2>7, PointsAre
    <2>9. At(e) = Points[P - 2] /\ Points[P - 2] * Generator \in Int
      BY <1>2, <1>4, <2>2, GeneratorType
    <2>10. Mod(1) = 1
      BY GeneratorType, ModOfField
    <2> QED BY <2>1, <2>8, <2>9, <2>10 DEF Same
  <1> QED BY <1>1, <1>3, <1>4, PType

\* Steps add where points multiply.
LEMMA AtSum == \A d, e \in Int : Same(At(d + e), At(d) * At(e))
  <1> TAKE d \in Int, c \in Int
  <1> DEFINE T == {e \in Nat : Same(At(d + e), At(d) * At(e))}
  <1>1. 0 \in T
    <2>1. At(d) \in Int /\ At(d) * 1 = At(d)
      BY AtType
    <2> QED BY <2>1, AtZero, SameRefl
  <1>2. ASSUME NEW e \in Nat, e \in T PROVE e + 1 \in T
    <2> DEFINE u == At(d)
               v == At(e)
               w == At(d + e)
    <2>1. u \in Int /\ v \in Int /\ w \in Int /\ Same(w, u * v) /\ Generator \in Int
          /\ At(e + 1) \in Int /\ At(d + (e + 1)) \in Int
      BY <1>2, AtType, GeneratorType
    <2>2. Same(At(e + 1), v * Generator) /\ Same(At(d + (e + 1)), w * Generator)
      <3>1. d + (e + 1) = (d + e) + 1 /\ d + e \in Int
        OBVIOUS
      <3> QED BY <3>1, AtStep
    <2> HIDE DEF u, v, w
    <2>3. Same(w * Generator, (u * v) * Generator)
      BY <2>1, SameOps, SameRefl, u * v \in Int
    <2>4. Same(u * At(e + 1), u * (v * Generator))
      BY <2>1, <2>2, SameOps, SameRefl, v * Generator \in Int
    <2>5. (u * v) * Generator = u * (v * Generator)
      BY <2>1
    <2>6. Same(At(d + (e + 1)), u * At(e + 1))
      BY <2>2, <2>3, <2>4, <2>5 DEF Same
    <2> QED BY <2>6 DEF u
  <1>3. Nat \subseteq T
    <2> HIDE DEF T
    <2> QED BY <1>1, <1>2, Induction
  <1> DEFINE q == c \div Steps
             e == c % Steps
  <1>7. q \in Int /\ e \in 0..(P - 2) /\ c = e + q * Steps
    BY Turn
  <1> HIDE DEF q, e
  <1>4. q \in Int /\ e \in Nat /\ c = e + q * Steps /\ d + c = (d + e) + q * Steps /\ d + e \in Int
    BY <1>7, StepsType
  <1>5. At(c) = At(e) /\ At(d + c) = At(d + e)
    BY <1>4, AtPeriod
  <1>6. Same(At(d + e), At(d) * At(e))
    BY <1>3, <1>4
  <1> QED BY <1>5, <1>6

\* The same point is reached only by whole turns.
LEMMA AtInjective ==
    ASSUME NEW d \in Int, NEW e \in Int, At(d) = At(e)
    PROVE  \E q \in Int : d = e + q * Steps
  <1> DEFINE q == d \div Steps
             p == e \div Steps
             r == d % Steps
             s == e % Steps
  <1>1. q \in Int /\ p \in Int /\ r \in 0..(P - 2) /\ s \in 0..(P - 2)
        /\ d = r + q * Steps /\ e = s + p * Steps
    BY Turn
  <1>2. r = s
    BY <1>1, PointsInjective DEF At
  <1> HIDE DEF q, p, r, s
  <1>3. d = e + (q - p) * Steps /\ q - p \in Int
    BY <1>1, <1>2, StepsType
  <1> QED BY <1>3

\* Half a turn is -1.
LEMMA AtHalf ==
    ASSUME NEW h \in Int, h + h = Steps
    PROVE  Same(At(h), -1)
  <1> DEFINE x == At(h)
  <1>1. h \in Int /\ h + h = Steps /\ h > 0 /\ h < Steps
    BY StepsType
  <1>2. x \in Int /\ x \in Field
    BY <1>1, AtType
  <1>3. Same(x * x, 1)
    <2>1. h + h = 0 + 1 * Steps
      BY <1>1, StepsType
    <2>2. At(h + h) = 1
      BY <2>1, AtPeriod, AtZero
    <2>3. Same(At(h + h), x * x)
      BY <1>1, AtSum
    <2> QED BY <2>2, <2>3 DEF Same
  <1>4. x # 1
    <2>1. x = 1 => \E q \in Int : h = 0 + q * Steps
      BY <1>1, AtInjective, AtZero
    <2>2. \A q \in Int : h # 0 + q * Steps
      <3> TAKE q \in Int
      <3>1. q <= 0 => q * Steps <= 0
        BY StepsType
      <3>2. q >= 1 => q * Steps >= Steps
        BY StepsType
      <3> QED BY <3>1, <3>2, <1>1, StepsType
    <2> QED BY <2>1, <2>2
  <1> HIDE DEF x
  <1>5. Mod(x * x - 1) = 0
    BY <1>2, <1>3, ModDifference, x * x \in Int
  <1>6. x * x - 1 = (x - 1) * (x + 1)
    BY <1>2
  <1>7. Mod(x - 1) = 0 \/ Mod(x + 1) = 0
    BY <1>2, <1>5, <1>6, Euclid, x - 1 \in Int, x + 1 \in Int
  <1>8. Mod(x - 1) # 0
    <2>1. Mod(x - 1) = 0 => Same(x, 1)
      BY <1>2, ModDifference
    <2> QED BY <2>1, <1>2, <1>4, GeneratorType, ModOfField DEF Same
  <1>9. Same(x, -1)
    <2>1. x - (-1) = x + 1 /\ -1 \in Int
      BY <1>2
    <2> QED BY <2>1, <1>2, <1>7, <1>8, ModDifference
  <1> QED BY <1>9 DEF x

\* Angles that are parts of a turn of m.
Turns(m) == m \in Nat \ {0} /\ Steps % m = 0

\* The steps in one of m equal parts of a turn.
LEMMA UnitType ==
    ASSUME NEW m, Turns(m)
    PROVE  m \in Nat \ {0} /\ Steps \div m \in Nat \ {0} /\ Steps = (Steps \div m) * m
  <1>1. m \in Nat \ {0} /\ Steps \in Int /\ Steps % m = 0
    BY StepsType DEF Turns
  <1> DEFINE q == Steps \div m
  <1>2. Steps = q * m
    BY <1>1, Divides
  <1>3. q \in Int
    BY <1>1, Division
  <1> HIDE DEF q
  <1>4. q > 0
    <2>1. q <= 0 => q * m <= 0
      BY <1>1, <1>3
    <2> QED BY <2>1, <1>2, <1>3, StepsType
  <1> QED BY <1>1, <1>2, <1>3, <1>4 DEF q

LEMMA UnitIs ==
    ASSUME NEW m \in Nat \ {0}, NEW q \in Int, Steps = q * m
    PROVE  Turns(m) /\ Steps \div m = q
  BY StepsType, Divides DEF Turns

\* Fft's Circle on this circle.
LEMMA CircleIsAt ==
    \A m, j : Circle(m, j) = At(j * (Steps \div m))
  BY DEF Circle, At, Steps

LEMMA CircleType ==
    ASSUME NEW m, Turns(m), NEW j \in Int
    PROVE  Circle(m, j) \in Int /\ Circle(m, j) \in Field
  <1> DEFINE q == Steps \div m
             e == j * q
  <1>1. e \in Int
    BY UnitType
  <1> HIDE DEF e
  <1>2. At(e) \in Int /\ At(e) \in Field
    BY <1>1, AtType
  <1> QED BY <1>2, CircleIsAt DEF e

LEMMA CircleZero ==
    ASSUME NEW m, Turns(m)
    PROVE  Circle(m, 0) = 1
  <1>1. 0 * (Steps \div m) = 0
    BY UnitType
  <1> QED BY <1>1, CircleIsAt, AtZero

LEMMA CircleSum ==
    ASSUME NEW m, Turns(m), NEW i \in Int, NEW j \in Int
    PROVE  Same(Circle(m, i + j), Circle(m, i) * Circle(m, j))
  <1> DEFINE q == Steps \div m
             d == i * q
             e == j * q
  <1>1. d \in Int /\ e \in Int /\ (i + j) * q = d + e
    BY UnitType
  <1> HIDE DEF d, e
  <1>2. Same(At(d + e), At(d) * At(e))
    BY <1>1, AtSum
  <1> QED BY <1>1, <1>2, CircleIsAt DEF d, e

\* Whole turns of m lead back.
LEMMA CirclePeriod ==
    ASSUME NEW m, Turns(m), NEW j \in Int, NEW c \in Int
    PROVE  Circle(m, j + c * m) = Circle(m, j)
  <1> DEFINE q == Steps \div m
             e == j * q
  <1>1. e \in Int /\ (j + c * m) * q = e + c * Steps
    <2>1. q \in Nat /\ m \in Nat /\ Steps = q * m
      BY UnitType
    <2> HIDE DEF q
    <2>2. (j + c * m) * q = j * q + c * (q * m)
      BY <2>1
    <2> QED BY <2>1, <2>2
  <1> HIDE DEF e
  <1>2. At(e + c * Steps) = At(e)
    BY <1>1, AtPeriod
  <1> QED BY <1>1, <1>2, CircleIsAt DEF e

\* A circle of a * m has the circle of m at every a-th place.
LEMMA CircleFiner ==
    ASSUME NEW m \in Nat \ {0}, NEW c \in Nat \ {0}, Turns(c * m)
    PROVE  Turns(m) /\ \A j \in Int : Circle(c * m, c * j) = Circle(m, j)
  <1> DEFINE a == c * m
             q == Steps \div a
             u == q * c
  <1>1. q \in Nat /\ Steps = q * a
    BY UnitType
  <1> HIDE DEF q
  <1>2. u \in Int /\ Steps = u * m
    BY <1>1
  <1> HIDE DEF u
  <1>3. Turns(m) /\ Steps \div m = u
    BY <1>2, UnitIs
  <1>4. ASSUME NEW j \in Int PROVE Circle(c * m, c * j) = Circle(m, j)
    <2>1. (c * j) * q = j * u
      BY <1>1 DEF u
    <2>2. Circle(a, c * j) = At((c * j) * q)
      BY CircleIsAt DEF q
    <2> QED BY <1>3, <2>1, <2>2, CircleIsAt
  <1> QED BY <1>3, <1>4

\* Half a turn of 2 * m is -1.
LEMMA CircleHalf ==
    ASSUME NEW m \in Nat \ {0}, Turns(2 * m)
    PROVE  Same(Circle(2 * m, m), -1)
  <1> DEFINE q == Steps \div (2 * m)
             h == m * q
  <1>1. q \in Nat /\ Steps = q * (2 * m)
    BY UnitType
  <1> HIDE DEF q
  <1>2. h \in Int /\ h + h = Steps
    BY <1>1
  <1> HIDE DEF h
  <1>3. Same(At(h), -1)
    BY <1>2, AtHalf
  <1> QED BY <1>3, CircleIsAt DEF h, q

-----------------------------------------------------------------------------
(* Reciprocals.                                                            *)

\* Whatever is not 0 divides 1.
LEMMA ReciprocalIs ==
    ASSUME NEW a \in Int, Mod(a) # 0
    PROVE  Reciprocal(a) \in Field /\ Reciprocal(a) \in Int /\ Same(a * Reciprocal(a), 1)
  <1>1. Mod(a) \in Field \ {0}
    BY ModType
  <1>2. PICK e \in 0..(P - 2) : Points[e] = Mod(a)
    BY <1>1, FieldAssumption
  <1>3. At(e) = Mod(a)
    <2>1. e \in Int /\ e = 0 * Steps + e
      BY StepsType
    <2>2. e % Steps = e
      BY <2>1, TurnOf
    <2> QED BY <1>2, <2>2 DEF At
  <1> DEFINE f == 0 - e
             y == At(f)
  <1>4. Same(At(e) * y, 1)
    <2>1. e \in Int /\ f \in Int /\ e + f = 0
      OBVIOUS
    <2> HIDE DEF f
    <2>2. Same(At(e + f), At(e) * At(f))
      BY <2>1, AtSum
    <2> QED BY <2>1, <2>2, AtZero DEF Same
  <1>5. y \in Field /\ y \in Int
    <2>1. f \in Int
      OBVIOUS
    <2> HIDE DEF f
    <2> QED BY <2>1, AtType
  <1> HIDE DEF y
  <1>6. Mod(Mod(a) * y) = Mod(a * y)
    BY <1>5, ModIn
  <1>7. Mod(1) = 1
    BY GeneratorType, ModOfField
  <1>8. (a * y) % P = 1
    BY <1>3, <1>4, <1>6, <1>7 DEF Same, Mod
  <1>9. Reciprocal(a) \in Field /\ (a * Reciprocal(a)) % P = 1
    BY <1>5, <1>8 DEF Reciprocal
  <1>10. Reciprocal(a) \in Int
    BY <1>9, ModOfField
  <1> QED BY <1>7, <1>9, <1>10 DEF Same, Mod

LEMMA HalfIs == Half \in Int /\ Half \in Field /\ Same(2 * Half, 1)
  <1>1. 2 \in Field
    BY PType DEF Field
  <1>2. Mod(2) = 2
    BY <1>1, ModOfField
  <1> QED BY <1>2, ReciprocalIs DEF Half

\* The quarter turn: its square is -1.
LEMMA QuarterIs ==
    /\ Turns(4) /\ Turns(2)
    /\ Circle(4, 1) \in Int /\ Same(Circle(4, 1) * Circle(4, 1), -1)
    /\ Circle(4, -1) \in Int /\ Same(Circle(4, -1), 0 - Circle(4, 1))
  <1>1. Turns(4)
    BY FieldAssumption DEF Turns, Steps
  <1>2. Circle(4, 1) \in Int /\ Circle(4, -1) \in Int /\ Circle(4, 2) \in Int
    BY <1>1, CircleType
  <1>3. Same(Circle(4, 2), -1)
    <2>1. 4 = 2 * 2 /\ 2 \in Nat \ {0}
      OBVIOUS
    <2>2. Turns(2 * 2)
      BY <1>1, <2>1
    <2>3. Same(Circle(2 * 2, 2), -1)
      BY <2>1, <2>2, CircleHalf
    <2> QED BY <2>1, <2>3
  <1>4. Same(Circle(4, 2), Circle(4, 1) * Circle(4, 1))
    <2>1. 1 + 1 = 2
      OBVIOUS
    <2>2. Same(Circle(4, 1 + 1), Circle(4, 1) * Circle(4, 1))
      BY <1>1, CircleSum
    <2> QED BY <2>1, <2>2
  <1>5. Same(Circle(4, 1), Circle(4, 2) * Circle(4, -1))
    <2>1. 2 + (-1) = 1 /\ 2 \in Int /\ -1 \in Int
      OBVIOUS
    <2>2. Same(Circle(4, 2 + (-1)), Circle(4, 2) * Circle(4, -1))
      BY <1>1, <2>1, CircleSum
    <2> QED BY <2>1, <2>2
  <1> DEFINE a == Circle(4, 1)
             b == Circle(4, -1)
             c == Circle(4, 2)
  <1>6. Same(b, 0 - a)
    <2>1. a \in Int /\ b \in Int /\ c \in Int /\ Same(c, -1) /\ Same(a, c * b) /\ -1 \in Int
      BY <1>2, <1>3, <1>5
    <2> HIDE DEF a, b, c
    <2>2. Same(c * b, (-1) * b)
      BY <2>1, SameOps, SameRefl
    <2>3. Same(a, (-1) * b) /\ (-1) * b \in Int
      BY <2>1, <2>2 DEF Same
    <2>4. Same(0 - a, 0 - (-1) * b)
      BY <2>1, <2>3, SameOps, SameRefl, 0 \in Int
    <2>5. 0 - (-1) * b = b
      BY <2>1
    <2> QED BY <2>4, <2>5 DEF Same
  <1>8. Turns(2)
    <2>1. 4 = 2 * 2 /\ 2 \in Nat \ {0}
      OBVIOUS
    <2>2. Turns(2 * 2)
      BY <1>1, <2>1
    <2> QED BY <2>1, <2>2, CircleFiner
  <1> QED BY <1>1, <1>2, <1>3, <1>4, <1>6, <1>8 DEF Same

\* 1 / (2 * I) is -I / 2.
LEMMA HalfTurnIs ==
    HalfTurn \in Int /\ Same(HalfTurn, (0 - Circle(4, 1)) * Half)
  <1> DEFINE a == Circle(4, 1)
             c == Mod(2 * a)
             t == HalfTurn
  <1>1. a \in Int /\ Same(a * a, -1) /\ 2 * a \in Int /\ -1 \in Int
    BY QuarterIs
  <1> HIDE DEF a
  <1>2. Mod(-1) # 0
    <2>1. -1 = (-1) * P + (P - 1) /\ P - 1 \in 0..(P - 1) /\ -1 \in Int
      BY PType
    <2>2. (-1) % P = P - 1
      BY <2>1, PType, DivisionOf
    <2> QED BY <2>2, PType DEF Mod
  <1>3. Mod(a) # 0
    <2>1. Mod(a) = 0 => Mod(a * a) = 0
      BY <1>1, ModZero
    <2> QED BY <1>1, <1>2, <2>1 DEF Same
  <1>4. Mod(2 * a) # 0
    <2>1. 2 \in Field
      BY PType DEF Field
    <2>2. Mod(2) = 2
      BY <2>1, ModOfField
    <2> QED BY <1>1, <1>3, <2>2, Euclid
  <1>5. c \in Int /\ Mod(c) # 0 /\ Same(c, 2 * a)
    BY <1>1, <1>4, ModType, ModMod, SameRefl
  <1> HIDE DEF c
  <1>6. HalfTurn = Reciprocal(c)
    BY DEF HalfTurn, c, a, Mod
  <1>7. t \in Int /\ Same(c * t, 1)
    BY <1>5, <1>6, ReciprocalIs
  <1> HIDE DEF t
  <1>8. Same(c * t, (2 * a) * t)
    BY <1>1, <1>5, <1>7, SameOps, SameRefl
  \* t = t * (2h) = -I*I*t*2*h = -I*h
  <1> DEFINE h == Half
             u == (0 - a) * h
             v == (2 * a) * t
  <1>9. h \in Int /\ Same(2 * h, 1)
    BY HalfIs
  <1> HIDE DEF h
  <1>10. u \in Int /\ v \in Int /\ Same(v, 1) /\ 2 * h \in Int /\ a * a \in Int
    BY <1>1, <1>7, <1>8, <1>9 DEF Same
  <1>11. u * v = (0 - (a * a)) * (t * (2 * h))
    BY <1>1, <1>7, <1>9
  <1>12. Same(u * v, u * 1)
    <2> HIDE DEF u, v
    <2> QED BY <1>10, SameOps, SameRefl
  <1>13. Same(t * (2 * h), t * 1)
    BY <1>7, <1>9, <1>10, SameOps, SameRefl
  <1>14. Same(0 - (a * a), 0 - (-1))
    BY <1>1, <1>10, SameOps, SameRefl, 0 \in Int
  <1>15. Same((0 - (a * a)) * (t * (2 * h)), (0 - (-1)) * (t * 1))
    <2> DEFINE r == 0 - (a * a)
               s == t * (2 * h)
               p == 0 - (-1)
               q == t * 1
    <2>1. r \in Int /\ s \in Int /\ p \in Int /\ q \in Int /\ Same(r, p) /\ Same(s, q)
      BY <1>7, <1>10, <1>13, <1>14
    <2> HIDE DEF r, s, p, q
    <2>2. Same(r * s, p * q)
      BY <2>1, SameOps
    <2> QED BY <2>2 DEF r, s, p, q
  <1>16. u * 1 = u /\ (0 - (-1)) * (t * 1) = t
    BY <1>10, <1>7
  <1>17. Same(t, u)
    BY <1>11, <1>12, <1>15, <1>16 DEF Same
  <1> QED BY <1>7, <1>17 DEF u, t, a, h

\* Times 1 and take away times 0.
LEMMA SameBy ==
    ASSUME NEW x \in Int, NEW y \in Int, NEW u \in Int, NEW v \in Int,
           Same(u, 1), Same(v, 0)
    PROVE  Same(x * u - y * v, x)
  <1> DEFINE a == x * u
             b == y * v
             c == x * 1
             d == y * 0
  <1>1. Same(a, c) /\ Same(b, d)
    <2>1. Same(x, x) /\ Same(y, y) /\ 1 \in Int /\ 0 \in Int
      BY SameRefl
    <2> QED BY <2>1, SameOps
  <1>2. a \in Int /\ b \in Int /\ c \in Int /\ d \in Int /\ c - d = x
    OBVIOUS
  <1> HIDE DEF a, b, c, d
  <1>3. Same(a - b, c - d)
    BY <1>1, <1>2, SameOps
  <1> QED BY <1>2, <1>3 DEF a, b

\* Cosine and sine by points of the circle.
Quarter == 0 - Circle(4, 1)

\* Half the sum of a point and its mirror image.
LEMMA CosineIs ==
    ASSUME NEW m, Turns(m), NEW j \in Int
    PROVE  /\ Cosine(m, j) \in Field /\ Cosine(m, j) \in Int
           /\ Same(Cosine(m, j), (Circle(m, j) + Circle(m, 0 - j)) * Half)
  <1> DEFINE i == 0 - j
             a == (Circle(m, j) + Circle(m, i)) * Half
  <1>1. a \in Int
    <2>1. i \in Int
      OBVIOUS
    <2> HIDE DEF i
    <2>2. Circle(m, j) \in Int /\ Circle(m, i) \in Int
      BY <2>1, CircleType
    <2> QED BY <2>2, HalfIs
  <1>2. Cosine(m, j) = Mod(a)
    <2>1. -j = 0 - j
      OBVIOUS
    <2> QED BY <2>1 DEF Cosine, Mod
  <1> HIDE DEF a
  <1>3. Cosine(m, j) \in Field /\ Cosine(m, j) \in Int /\ Same(Cosine(m, j), a)
    BY <1>1, <1>2, ModType, SameRefl
  <1> QED BY <1>3 DEF a, i

\* And half their difference, a quarter turn back.
LEMMA SineIs ==
    ASSUME NEW m, Turns(m), NEW j \in Int
    PROVE  /\ Sine(m, j) \in Field /\ Sine(m, j) \in Int
           /\ Same(Sine(m, j), (Circle(m, j) - Circle(m, 0 - j)) * (Quarter * Half))
  <1> DEFINE i == 0 - j
             c == Circle(m, j) - Circle(m, i)
             a == c * HalfTurn
             b == Quarter * Half
  <1>1. c \in Int /\ a \in Int /\ b \in Int /\ HalfTurn \in Int /\ Same(HalfTurn, b)
    <2>1. i \in Int
      OBVIOUS
    <2> HIDE DEF i
    <2>2. Circle(m, j) \in Int /\ Circle(m, i) \in Int
      BY <2>1, CircleType
    <2> QED BY <2>2, HalfTurnIs, HalfIs, QuarterIs DEF Quarter
  <1>2. Sine(m, j) = Mod(a)
    <2>1. -j = 0 - j
      OBVIOUS
    <2> QED BY <2>1 DEF Sine, Mod
  <1> HIDE DEF b, c
  <1>3. Same(a, c * b)
    BY <1>1, SameOps, SameRefl
  <1> HIDE DEF a
  <1>4. Sine(m, j) \in Field /\ Sine(m, j) \in Int /\ Same(Sine(m, j), a)
    BY <1>1, <1>2, ModType, SameRefl
  <1> QED BY <1>3, <1>4 DEF Same, b, c, i

\* The quarter turn plays the imaginary unit.
LEMMA QuarterSquare == Quarter \in Int /\ Same(Quarter * Quarter + 1, 0)
  <1> DEFINE a == Circle(4, 1)
             b == a * a
  <1>1. a \in Int /\ b \in Int /\ Same(b, -1) /\ -1 \in Int
    BY QuarterIs
  <1>2. Quarter * Quarter = b
    BY <1>1 DEF Quarter
  <1> HIDE DEF b
  <1>3. Same(b + 1, (-1) + 1)
    BY <1>1, SameOps, SameRefl, 1 \in Int
  <1>4. (-1) + 1 = 0
    OBVIOUS
  <1> QED BY <1>1, <1>2, <1>3, <1>4 DEF Quarter

\* The laws of addition.
LEMMA AngleSum ==
    ASSUME NEW m, Turns(m), NEW i \in Int, NEW j \in Int
    PROVE  /\ Same(Cosine(m, i + j), Cosine(m, i) * Cosine(m, j) - Sine(m, i) * Sine(m, j))
           /\ Same(Sine(m, i + j), Sine(m, i) * Cosine(m, j) + Cosine(m, i) * Sine(m, j))
  <1> DEFINE a == Circle(m, i)
             e == Circle(m, 0 - i)
             b == Circle(m, j)
             f == Circle(m, 0 - j)
             c == Circle(m, i + j)
             g == Circle(m, 0 - (i + j))
             h == Half
             q == Quarter
             ci == Cosine(m, i)
             cj == Cosine(m, j)
             si == Sine(m, i)
             sj == Sine(m, j)
             cs == Cosine(m, i + j)
             ss == Sine(m, i + j)
  <1>1. /\ a \in Int /\ e \in Int /\ b \in Int /\ f \in Int /\ c \in Int /\ g \in Int
        /\ h \in Int /\ q \in Int /\ Same(2 * h, 1) /\ Same(q * q + 1, 0)
        /\ ci \in Int /\ cj \in Int /\ si \in Int /\ sj \in Int /\ cs \in Int /\ ss \in Int
        /\ Same(ci, (a + e) * h) /\ Same(cj, (b + f) * h) /\ Same(cs, (c + g) * h)
        /\ Same(si, (a - e) * (q * h)) /\ Same(sj, (b - f) * (q * h))
        /\ Same(ss, (c - g) * (q * h))
        /\ Same(c, a * b) /\ Same(g, e * f)
    <2> DEFINE r == i + j
               s == 0 - i
               t == 0 - j
               u == 0 - r
    <2>1. r \in Int /\ s \in Int /\ t \in Int /\ u \in Int /\ u = s + t
      OBVIOUS
    <2>2. Circle(m, i) \in Int /\ Circle(m, j) \in Int /\ Circle(m, r) \in Int
          /\ Circle(m, s) \in Int /\ Circle(m, t) \in Int /\ Circle(m, u) \in Int
      <3> HIDE DEF r, s, t, u
      <3> QED BY <2>1, CircleType
    <2>3. Same(Circle(m, r), Circle(m, i) * Circle(m, j))
      BY CircleSum
    <2>4. Same(Circle(m, s + t), Circle(m, s) * Circle(m, t))
      <3> HIDE DEF r, s, t, u
      <3> QED BY <2>1, CircleSum
    <2>5. /\ Cosine(m, i) \in Int /\ Cosine(m, j) \in Int /\ Cosine(m, r) \in Int
          /\ Sine(m, i) \in Int /\ Sine(m, j) \in Int /\ Sine(m, r) \in Int
          /\ Same(Cosine(m, i), (Circle(m, i) + Circle(m, 0 - i)) * Half)
          /\ Same(Cosine(m, j), (Circle(m, j) + Circle(m, 0 - j)) * Half)
          /\ Same(Cosine(m, r), (Circle(m, r) + Circle(m, 0 - r)) * Half)
          /\ Same(Sine(m, i), (Circle(m, i) - Circle(m, 0 - i)) * (Quarter * Half))
          /\ Same(Sine(m, j), (Circle(m, j) - Circle(m, 0 - j)) * (Quarter * Half))
          /\ Same(Sine(m, r), (Circle(m, r) - Circle(m, 0 - r)) * (Quarter * Half))
      <3> HIDE DEF r
      <3> QED BY <2>1, CosineIs, SineIs
    <2> QED BY <2>1, <2>2, <2>3, <2>4, <2>5, HalfIs, QuarterSquare
  <1> HIDE DEF a, b, c, e, f, g, h, q, ci, cj, si, sj, cs, ss
  <1> DEFINE x == (a * b + e * f) * h
             y == h * h * (a - e) * (b - f)
             u == 2 * h
             v == q * q + 1
             ca == (a + e) * h
             cb == (b + f) * h
             sa == (a - e) * (q * h)
             sb == (b - f) * (q * h)
             cp == a * b
             gp == e * f
             cc == c + g
             pp == cp + gp
  <1>2. /\ x \in Int /\ y \in Int /\ u \in Int /\ v \in Int /\ Same(u, 1) /\ Same(v, 0)
        /\ ca \in Int /\ cb \in Int /\ sa \in Int /\ sb \in Int
        /\ cp \in Int /\ gp \in Int /\ cc \in Int /\ pp \in Int
        /\ Same(ci, ca) /\ Same(cj, cb) /\ Same(si, sa) /\ Same(sj, sb)
        /\ Same(c, cp) /\ Same(g, gp) /\ Same(cs, cc * h) /\ x = pp * h
    BY <1>1
  <1>3. ca * cb - sa * sb = x * u - y * v
    BY <1>1
  <1> HIDE DEF x, y, u, v, ca, cb, sa, sb, cp, gp
  <1>4. Same(x * u - y * v, x)
    BY <1>2, SameBy
  <1>5. Same(ci * cj, ca * cb) /\ Same(si * sj, sa * sb)
    BY <1>1, <1>2, SameOps
  <1>6. Same(ci * cj - si * sj, ca * cb - sa * sb)
    <2> DEFINE z1 == ci * cj
               z2 == si * sj
               z3 == ca * cb
               z4 == sa * sb
    <2>1. z1 \in Int /\ z2 \in Int /\ z3 \in Int /\ z4 \in Int /\ Same(z1, z3) /\ Same(z2, z4)
      BY <1>1, <1>2, <1>5
    <2> HIDE DEF z1, z2, z3, z4
    <2>2. Same(z1 - z2, z3 - z4)
      BY <2>1, SameOps
    <2> QED BY <2>2 DEF z1, z2, z3, z4
  <1>7. Same(cc, pp)
    BY <1>1, <1>2, SameOps
  <1>8. Same(cc * h, pp * h)
    <2> HIDE DEF cc, pp
    <2> QED BY <1>1, <1>2, <1>7, SameOps, SameRefl
  <1>9. Same(cs, ci * cj - si * sj)
    BY <1>2, <1>3, <1>4, <1>6, <1>8 DEF Same
  <1> DEFINE sh == q * h
             xs == (cp - gp) * sh
             dd == c - g
             dp == cp - gp
             k0 == 0
  <1>10. /\ sh \in Int /\ xs \in Int /\ dd \in Int /\ dp \in Int /\ k0 \in Int
         /\ Same(ss, dd * sh) /\ xs = dp * sh
    BY <1>1, <1>2
  <1>11. sa * cb + ca * sb = xs * u - k0 * v
    BY <1>1 DEF ca, cb, sa, sb, cp, gp, u, v
  <1> HIDE DEF xs, k0, sh
  <1>12. Same(xs * u - k0 * v, xs)
    BY <1>2, <1>10, SameBy
  <1>13. Same(si * cj, sa * cb) /\ Same(ci * sj, ca * sb)
    BY <1>1, <1>2, SameOps
  <1>14. Same(si * cj + ci * sj, sa * cb + ca * sb)
    <2> DEFINE z1 == si * cj
               z2 == ci * sj
               z3 == sa * cb
               z4 == ca * sb
    <2>1. z1 \in Int /\ z2 \in Int /\ z3 \in Int /\ z4 \in Int /\ Same(z1, z3) /\ Same(z2, z4)
      BY <1>1, <1>2, <1>13
    <2> HIDE DEF z1, z2, z3, z4
    <2>2. Same(z1 + z2, z3 + z4)
      BY <2>1, SameOps
    <2> QED BY <2>2 DEF z1, z2, z3, z4
  <1>15. Same(dd, dp)
    BY <1>1, <1>2, SameOps
  <1>16. Same(dd * sh, dp * sh)
    <2> HIDE DEF dd, dp
    <2> QED BY <1>10, <1>15, SameOps, SameRefl
  <1>17. Same(ss, si * cj + ci * sj)
    BY <1>10, <1>11, <1>12, <1>14, <1>16 DEF Same
  <1> QED BY <1>9, <1>17 DEF ci, cj, si, sj, cs, ss

LEMMA FieldSame ==
    ASSUME NEW a \in Field, NEW b \in Field, Same(a, b)
    PROVE  a = b
  BY ModOfField DEF Same

\* Cosine and sine are in the field.
LEMMA AngleType ==
    ASSUME NEW m, Turns(m), NEW j \in Int
    PROVE  /\ Cosine(m, j) \in Field /\ Cosine(m, j) \in Int
           /\ Sine(m, j) \in Field /\ Sine(m, j) \in Int
  BY CosineIs, SineIs

\* At angle 0.
LEMMA AngleZero ==
    ASSUME NEW m, Turns(m)
    PROVE  Cosine(m, 0) = 1 /\ Sine(m, 0) = 0
  <1>1. Same(Cosine(m, 0), (1 + 1) * Half) /\ Same(Sine(m, 0), (1 - 1) * (Quarter * Half))
    <2>1. 0 \in Int /\ 0 - 0 = 0 /\ Circle(m, 0) = 1
      BY CircleZero
    <2>2. /\ Same(Cosine(m, 0), (Circle(m, 0) + Circle(m, 0 - 0)) * Half)
          /\ Same(Sine(m, 0), (Circle(m, 0) - Circle(m, 0 - 0)) * (Quarter * Half))
      BY <2>1, CosineIs, SineIs
    <2> QED BY <2>1, <2>2
  <1>2. (1 + 1) * Half = 2 * Half /\ (1 - 1) * (Quarter * Half) = 0
    BY HalfIs, QuarterSquare
  <1>3. Same(Cosine(m, 0), 1) /\ Same(Sine(m, 0), 0)
    BY <1>1, <1>2, HalfIs DEF Same
  <1>4. Cosine(m, 0) \in Field /\ Sine(m, 0) \in Field
    BY AngleType, 0 \in Int
  <1> QED BY <1>3, <1>4, GeneratorType, FieldSame

\* Cosine is even and sine is odd.
LEMMA AngleNegative ==
    ASSUME NEW m, Turns(m), NEW j \in Int
    PROVE  /\ Cosine(m, 0 - j) = Cosine(m, j)
           /\ Same(Sine(m, 0 - j), 0 - Sine(m, j))
  <1> DEFINE i == 0 - j
             a == Circle(m, j)
             b == Circle(m, i)
             h == Half
             r == Quarter * Half
             u == (a - b) * r
             v == (b - a) * r
  <1>1. i \in Int /\ 0 - i = j
    OBVIOUS
  <1>2. a \in Int /\ b \in Int /\ h \in Int /\ r \in Int
    <2>1. h \in Int /\ r \in Int
      BY HalfIs, QuarterSquare
    <2> HIDE DEF i
    <2> QED BY <1>1, <2>1, CircleType
  <1>3. /\ Same(Cosine(m, j), (a + b) * h) /\ Same(Cosine(m, i), (b + a) * h)
        /\ Same(Sine(m, j), u) /\ Same(Sine(m, i), v)
    <2>1. /\ Same(Cosine(m, j), (Circle(m, j) + Circle(m, 0 - j)) * Half)
          /\ Same(Sine(m, j), (Circle(m, j) - Circle(m, 0 - j)) * (Quarter * Half))
      BY CosineIs, SineIs
    <2>2. /\ Same(Cosine(m, i), (Circle(m, i) + Circle(m, 0 - i)) * Half)
          /\ Same(Sine(m, i), (Circle(m, i) - Circle(m, 0 - i)) * (Quarter * Half))
      <3> HIDE DEF i
      <3> QED BY <1>1, CosineIs, SineIs
    <2> QED BY <1>1, <2>1, <2>2
  <1>4. (a + b) * h = (b + a) * h /\ v = 0 - u /\ u \in Int /\ v \in Int
    BY <1>2
  <1>5. Cosine(m, i) \in Field /\ Cosine(m, j) \in Field
        /\ Sine(m, i) \in Int /\ Sine(m, j) \in Int
    <2> HIDE DEF i
    <2> QED BY <1>1, AngleType
  <1>6. Cosine(m, i) = Cosine(m, j)
    BY <1>3, <1>4, <1>5, FieldSame DEF Same
  <1>7. Same(0 - Sine(m, j), 0 - u)
    <2> HIDE DEF u
    <2> QED BY <1>3, <1>4, <1>5, SameOps, SameRefl, 0 \in Int
  <1> QED BY <1>3, <1>4, <1>6, <1>7 DEF Same

\* Both repeat after a turn.
LEMMA AnglePeriod ==
    ASSUME NEW m, Turns(m), NEW j \in Int, NEW c \in Int
    PROVE  Cosine(m, j + c * m) = Cosine(m, j) /\ Sine(m, j + c * m) = Sine(m, j)
  <1> DEFINE i == j + c * m
             d == 0 - c
             f == 0 - j
  <1>1. m \in Nat
    BY UnitType
  <1>2. d \in Int /\ f \in Int /\ i \in Int /\ 0 - i = f + d * m
    BY <1>1
  <1>3. Circle(m, i) = Circle(m, j)
    BY CirclePeriod
  <1>4. Circle(m, f + d * m) = Circle(m, f)
    <2> HIDE DEF d, f
    <2> QED BY <1>2, CirclePeriod
  <1>5. -i = f + d * m /\ -j = f
    BY <1>1, <1>2
  <1>6. Circle(m, -i) = Circle(m, -j)
    BY <1>4, <1>5
  <1> QED BY <1>3, <1>6 DEF Cosine, Sine

\* Both are the same on a finer circle.
LEMMA AngleFiner ==
    ASSUME NEW m \in Nat \ {0}, NEW c \in Nat \ {0}, Turns(c * m), NEW j \in Int
    PROVE  Turns(m) /\ Cosine(c * m, c * j) = Cosine(m, j) /\ Sine(c * m, c * j) = Sine(m, j)
  <1>1. Turns(m) /\ \A i \in Int : Circle(c * m, c * i) = Circle(m, i)
    BY CircleFiner
  <1>2. -j \in Int /\ -(c * j) = c * (-j)
    OBVIOUS
  <1>3. Circle(c * m, c * j) = Circle(m, j)
    BY <1>1
  <1>4. Circle(c * m, -(c * j)) = Circle(m, -j)
    BY <1>1, <1>2
  <1> QED BY <1>1, <1>3, <1>4 DEF Cosine, Sine

\* At a quarter turn.
LEMMA AngleQuarter ==
    ASSUME NEW q \in Nat \ {0}, Turns(4 * q)
    PROVE  Cosine(4 * q, q) = 0 /\ Sine(4 * q, q) = 1
  <1> DEFINE a == Circle(4, 1)
             b == Circle(4, -1)
             h == Half
             r == Quarter
  <1>1. /\ a \in Int /\ b \in Int /\ h \in Int /\ r \in Int /\ Same(2 * h, 1) /\ r = 0 - a
        /\ Same(r * r + 1, 0) /\ Same(b, r)
    BY QuarterIs, QuarterSquare, HalfIs DEF Quarter
  <1>2. Same(Cosine(4, 1), (a + b) * h) /\ Same(Sine(4, 1), (a - b) * (r * h))
    <2>1. 0 - 1 = -1 /\ 1 \in Int /\ Turns(4)
      BY QuarterIs
    <2>2. /\ Same(Cosine(4, 1), (Circle(4, 1) + Circle(4, 0 - 1)) * Half)
          /\ Same(Sine(4, 1), (Circle(4, 1) - Circle(4, 0 - 1)) * (Quarter * Half))
      BY <2>1, CosineIs, SineIs
    <2> QED BY <2>1, <2>2
  <1>3. Cosine(4, 1) \in Field /\ Sine(4, 1) \in Field
    BY QuarterIs, AngleType, 1 \in Int
  <1> HIDE DEF a, b, h, r
  <1>4. Same(a + b, 0)
    <2>1. a + r = 0
      BY <1>1
    <2>2. Same(a + b, a + r)
      BY <1>1, SameOps, SameRefl
    <2> QED BY <2>1, <2>2
  <1>5. Same((a + b) * h, 0)
    <2> DEFINE c == a + b
    <2>1. c \in Int /\ Same(c, 0) /\ 0 \in Int /\ 0 * h = 0
      BY <1>1, <1>4
    <2> HIDE DEF c
    <2>2. Same(c * h, 0 * h)
      BY <1>1, <2>1, SameOps, SameRefl
    <2> QED BY <2>1, <2>2 DEF c
  <1>6. Same((a - b) * (r * h), 1)
    <2> DEFINE c == a - b
               d == (0 - r) - r
               e == r * h
               u == 2 * h
               v == r * r + 1
               o == 1
    <2>1. c \in Int /\ d \in Int /\ e \in Int /\ u \in Int /\ v \in Int /\ o \in Int
          /\ Same(u, 1) /\ Same(v, 0) /\ u \in Int /\ a = 0 - r
      BY <1>1
    <2>2. Same(c, d)
      <3>1. Same(a - b, a - r)
        BY <1>1, SameOps, SameRefl
      <3> QED BY <2>1, <3>1
    <2>3. d * e = o * u - u * v
      BY <1>1
    <2> HIDE DEF c, d, e, u, v, o
    <2>4. Same(c * e, d * e)
      BY <2>1, <2>2, SameOps, SameRefl
    <2>5. Same(o * u - u * v, o)
      BY <2>1, SameBy
    <2> QED BY <2>3, <2>4, <2>5 DEF Same, c, e, o
  <1>7. Cosine(4, 1) = 0 /\ Sine(4, 1) = 1
    BY <1>2, <1>3, <1>5, <1>6, GeneratorType, FieldSame DEF Same
  <1>8. Cosine(q * 4, q * 1) = Cosine(4, 1) /\ Sine(q * 4, q * 1) = Sine(4, 1)
    <2>1. 4 \in Nat \ {0} /\ Turns(q * 4) /\ 1 \in Int
      <3>1. q * 4 = 4 * q
        OBVIOUS
      <3> QED BY <3>1
    <2> QED BY <2>1, AngleFiner
  <1>9. q * 4 = 4 * q /\ q * 1 = q
    OBVIOUS
  <1> QED BY <1>7, <1>8, <1>9

\* Quarter and half turns, mirror images, and Pythagoras.
LEMMA AngleLaws ==
    ASSUME NEW q \in Nat \ {0}, Turns(4 * q), NEW j \in Int
    PROVE  /\ Sine(4 * q, j + q) = Cosine(4 * q, j)
           /\ Same(Cosine(4 * q, j + q), 0 - Sine(4 * q, j))
           /\ Sine(4 * q, q - j) = Cosine(4 * q, j)
           /\ Sine(4 * q, 2 * q - j) = Sine(4 * q, j)
           /\ Same(Sine(4 * q, j + 2 * q), 0 - Sine(4 * q, j))
           /\ Same(Cosine(4 * q, j) * Cosine(4 * q, j) + Sine(4 * q, j) * Sine(4 * q, j), 1)
  <1> DEFINE n == 4 * q
             s(i) == Sine(n, i)
             c(i) == Cosine(n, i)
  <1>1. Turns(n) /\ Sine(n, q) = 1 /\ Cosine(n, q) = 0 /\ q \in Int
    BY AngleQuarter
  <1> HIDE DEF n
  <1>2. \A i \in Int : s(i) \in Field /\ s(i) \in Int /\ c(i) \in Field /\ c(i) \in Int
    BY <1>1, AngleType
  <1>3. \A i \in Int : s(i + q) = c(i) /\ Same(c(i + q), 0 - s(i))
    <2> TAKE i \in Int
    <2>1. /\ Same(Cosine(n, i + q), Cosine(n, i) * Cosine(n, q) - Sine(n, i) * Sine(n, q))
          /\ Same(Sine(n, i + q), Sine(n, i) * Cosine(n, q) + Cosine(n, i) * Sine(n, q))
      BY <1>1, AngleSum
    <2>2. c(i) * 0 - s(i) * 1 = 0 - s(i) /\ s(i) * 0 + c(i) * 1 = c(i)
      BY <1>2
    <2>3. Same(s(i + q), c(i)) /\ Same(c(i + q), 0 - s(i))
      BY <1>1, <2>1, <2>2
    <2>4. s(i + q) \in Field /\ c(i) \in Field
      BY <1>1, <1>2, i + q \in Int
    <2> QED BY <2>3, <2>4, FieldSame
  <1>4. \A i \in Int : c(0 - i) = c(i) /\ Same(s(0 - i), 0 - s(i))
    BY <1>1, AngleNegative
  <1>5. s(q - j) = c(j)
    <2>1. (0 - j) + q = q - j /\ 0 - j \in Int
      OBVIOUS
    <2>2. s((0 - j) + q) = c(0 - j)
      BY <2>1, <1>3
    <2> QED BY <2>1, <2>2, <1>4
  <1>6. s(2 * q - j) = s(j)
    <2>1. q - j \in Int /\ j - q \in Int /\ (q - j) + q = 2 * q - j /\ (j - q) + q = j
          /\ 0 - (q - j) = j - q
      OBVIOUS
    <2>2. s((q - j) + q) = c(q - j) /\ s((j - q) + q) = c(j - q)
      BY <2>1, <1>3
    <2>3. c(0 - (q - j)) = c(q - j)
      BY <2>1, <1>4
    <2> QED BY <2>1, <2>2, <2>3
  <1>7. Same(s(j + 2 * q), 0 - s(j))
    <2>1. (j + q) + q = j + 2 * q /\ j + q \in Int
      OBVIOUS
    <2>2. s((j + q) + q) = c(j + q)
      BY <2>1, <1>3
    <2> QED BY <2>1, <2>2, <1>3
  <1>8. Same(c(j) * c(j) + s(j) * s(j), 1)
    <2> DEFINE i == 0 - j
               x == c(j)
               y == s(j)
               z == s(i)
               w == c(i)
               u == 0 - y
               a == x * w
               b == y * z
               d == y * u
    <2>1. i \in Int /\ j + i = 0
      OBVIOUS
    <2>2. c(j + i) = 1
      BY <1>1, <2>1, AngleZero
    <2>3. Same(c(j + i), x * w - y * z)
      <3> HIDE DEF i
      <3> QED BY <1>1, <2>1, AngleSum
    <2>4. x \in Int /\ y \in Int /\ z \in Int /\ w = x /\ u \in Int /\ Same(z, u)
      BY <1>2, <1>4, <2>1
    <2> HIDE DEF x, y, z, w, u
    <2>5. Same(b, d)
      BY <2>4, SameOps, SameRefl
    <2>6. a \in Int /\ b \in Int /\ d \in Int /\ a - d = x * x + y * y
      BY <2>4 DEF u
    <2> HIDE DEF a, b, d
    <2>7. Same(a - b, a - d)
      BY <2>5, <2>6, SameOps, SameRefl
    <2> QED BY <2>2, <2>3, <2>6, <2>7 DEF Same, x, y, a, b
  <1> QED BY <1>3, <1>5, <1>6, <1>7, <1>8 DEF n

\* A point of the circle belongs to one angle, up to turns.
LEMMA CircleInjective ==
    ASSUME NEW m, Turns(m), NEW i \in Int, NEW j \in Int, Circle(m, i) = Circle(m, j)
    PROVE  \E c \in Int : i = j + c * m
  <1> DEFINE u == Steps \div m
             d == i * u
             e == j * u
  <1>1. m \in Nat \ {0} /\ u \in Nat \ {0} /\ Steps = u * m
    BY UnitType
  <1> HIDE DEF u
  <1>2. d \in Int /\ e \in Int
    BY <1>1
  <1>3. At(d) = At(e)
    BY CircleIsAt DEF u
  <1>4. PICK c \in Int : d = e + c * Steps
    <2> HIDE DEF d, e
    <2> QED BY <1>2, <1>3, AtInjective
  <1>5. (i - (j + c * m)) * u = 0
    <2>1. (i - (j + c * m)) * u = i * u - (j * u + c * (u * m))
      BY <1>1
    <2> QED BY <2>1, <1>1, <1>4
  <1> DEFINE x == i - (j + c * m)
  <1>6. x \in Int /\ x * u = 0
    BY <1>1, <1>5
  <1> HIDE DEF x
  <1>7. x = 0
    <2>1. x > 0 => x * u > 0
      BY <1>1, <1>6
    <2>2. x < 0 => x * u < 0
      BY <1>1, <1>6
    <2> QED BY <2>1, <2>2, <1>6
  <1>8. i = j + c * m
    BY <1>1, <1>7 DEF x
  <1> QED BY <1>8

\* What is divided by is not 0.
LEMMA NotZero == Mod(1) = 1 /\ Mod(0) = 0 /\ Mod(Half) # 0 /\ Mod(Quarter * Half) # 0
  <1>1. Mod(1) = 1 /\ Mod(0) = 0
    BY GeneratorType, ModOfField
  <1>2. Mod(Half) # 0
    <2>1. Mod(Half) = 0 => Mod(2 * Half) = 0
      BY HalfIs, ModZero, 2 \in Int
    <2> QED BY <1>1, <2>1, HalfIs DEF Same
  <1>3. Mod(Quarter) # 0
    <2> SUFFICES ASSUME Mod(Quarter) = 0 PROVE FALSE
      OBVIOUS
    <2> DEFINE x == Quarter * Quarter
    <2>1. x \in Int /\ Mod(x) = 0 /\ Same(x + 1, 0)
      BY QuarterSquare, ModZero
    <2> HIDE DEF x
    <2>2. Same(x, 0)
      BY <2>1, <1>1 DEF Same
    <2>3. Same(x + 1, 0 + 1)
      BY <2>1, <2>2, SameOps, SameRefl, 0 \in Int, 1 \in Int
    <2> QED BY <2>1, <2>3, <1>1 DEF Same
  <1> QED BY <1>1, <1>2, <1>3, Euclid, HalfIs, QuarterSquare

\* No sine of the first quarter is the negative of another.
LEMMA SineOpposite ==
    ASSUME NEW q \in Nat \ {0}, Turns(4 * q), NEW i \in 0..q, NEW j \in 0..q,
           Mod(Sine(4 * q, i) + Sine(4 * q, j)) = 0
    PROVE  i = j
  <1> DEFINE n == 4 * q
             a == Circle(n, i)
             e == Circle(n, 0 - i)
             b == Circle(n, j)
             f == Circle(n, 0 - j)
             r == Quarter * Half
             u == (a - e) * r
             v == (b - f) * r
             x == Sine(n, i)
             y == Sine(n, j)
  <1>1. Turns(n) /\ i \in Int /\ j \in Int /\ 0 - i \in Int /\ 0 - j \in Int
    OBVIOUS
  <1> HIDE DEF n
  <1>2. a \in Int /\ e \in Int /\ b \in Int /\ f \in Int /\ r \in Int /\ Mod(r) # 0
    BY <1>1, CircleType, HalfIs, QuarterSquare, NotZero
  <1>3. Same(a * e, 1) /\ Same(b * f, 1)
    <2>1. i + (0 - i) = 0 /\ j + (0 - j) = 0
      OBVIOUS
    <2>2. Same(Circle(n, i + (0 - i)), a * e) /\ Same(Circle(n, j + (0 - j)), b * f)
      BY <1>1, CircleSum
    <2> QED BY <1>1, <2>1, <2>2, CircleZero DEF Same
  <1>4. x \in Int /\ y \in Int /\ u \in Int /\ v \in Int /\ Same(x, u) /\ Same(y, v)
    BY <1>1, <1>2, SineIs
  <1>5. Mod(x + y) = 0
    BY DEF n
  <1>6. Mod(u + v) = 0
    <2> HIDE DEF u, v, x, y
    <2>1. Same(x + y, u + v)
      BY <1>4, SameOps
    <2> QED BY <1>5, <2>1 DEF Same
  <1>7. Mod((a - e) + (b - f)) = 0
    <2>1. u + v = ((a - e) + (b - f)) * r
      BY <1>2
    <2>2. (a - e) + (b - f) \in Int
      BY <1>2
    <2> QED BY <1>2, <1>6, <2>1, <2>2, Euclid
  <1> DEFINE w == (a - e) + (b - f)
             p == a * b
             ae == a * e
             bf == b * f
             z == (a + b) * (p - 1)
  <1>8. Mod(z) = 0
    <2>1. w \in Int /\ p \in Int /\ Mod(w) = 0 /\ ae \in Int /\ bf \in Int /\ Same(ae, 1) /\ Same(bf, 1)
      BY <1>2, <1>3, <1>7
    <2>2. p * w = z + (a + b) - ((ae * b) + (bf * a))
      BY <1>2
    <2>3. z = p * w + (((ae * b) + (bf * a)) - (a + b)) /\ z \in Int
      <3>1. z = p * w - ((a + b) - ((ae * b) + (bf * a))) /\ z \in Int
        BY <1>2
      <3> DEFINE g1 == p * w
                 g2 == a + b
                 g3 == (ae * b) + (bf * a)
      <3>2. g1 \in Int /\ g2 \in Int /\ g3 \in Int /\ z = g1 - (g2 - g3)
        BY <1>2, <3>1
      <3> HIDE DEF g1, g2, g3, z
      <3>3. z = g1 + (g3 - g2) /\ z \in Int
        BY <3>2
      <3> QED BY <3>3 DEF g1, g2, g3
    <2> DEFINE s1 == ae * b
               s2 == bf * a
               s3 == p * w
    <2>4. s1 \in Int /\ s2 \in Int /\ s3 \in Int /\ 1 * b = b /\ 1 * a = a
      BY <1>2, <2>1
    <2>5. Same(s1, b) /\ Same(s2, a)
      <3> HIDE DEF ae, bf
      <3>1. Same(ae * b, 1 * b) /\ Same(bf * a, 1 * a)
        BY <1>2, <2>1, SameOps, SameRefl, 1 \in Int
      <3> QED BY <3>1, <2>4
    <2>6. Mod(s3) = 0
      <3> HIDE DEF p, w
      <3> QED BY <2>1, ModZero
    <2> HIDE DEF s1, s2, s3
    <2>7. Same(s1 + s2, b + a)
      BY <1>2, <2>4, <2>5, SameOps
    <2> DEFINE t1 == s1 + s2
               t2 == a + b
               t3 == t1 - t2
    <2>8. t1 \in Int /\ t2 \in Int /\ t3 \in Int /\ b + a = t2
      BY <1>2, <2>4
    <2>9. Mod(t3) = 0
      <3>1. Same(t1, t2)
        BY <2>7, <2>8
      <3> HIDE DEF t1, t2
      <3> QED BY <2>8, <3>1, ModDifference
    <2>10. z = s3 + t3
      BY <2>3 DEF s1, s2, s3
    <2> HIDE DEF t3, z
    <2>11. Same(s3 + t3, 0 + 0)
      <3>1. Same(s3, 0) /\ Same(t3, 0) /\ 0 \in Int
        BY <2>6, <2>9, NotZero DEF Same
      <3> QED BY <3>1, <2>4, <2>8, SameOps
    <2>12. 0 + 0 = 0
      OBVIOUS
    <2> QED BY <2>10, <2>11, <2>12, NotZero DEF Same
  <1>9. Mod(a + b) = 0 \/ Mod(p - 1) = 0
    <2>1. a + b \in Int /\ p - 1 \in Int
      BY <1>2
    <2> QED BY <1>8, <2>1, Euclid
  <1>10. n \in Nat \ {0} /\ n = 4 * q
    BY DEF n
  <1>11. ASSUME Mod(p - 1) = 0 PROVE i = j
    <2>1. p \in Int
      BY <1>2
    <2>2. Same(p, 1)
      <3> HIDE DEF p
      <3> QED BY <2>1, <1>11, ModDifference, 1 \in Int
    <2>3. Same(Circle(n, i + j), p)
      BY <1>1, CircleSum
    <2>4. Circle(n, i + j) = Circle(n, 0)
      <3>1. Circle(n, i + j) \in Field /\ Circle(n, 0) = 1
        BY <1>1, CircleType, CircleZero, i + j \in Int
      <3> QED BY <2>2, <2>3, <3>1, GeneratorType, FieldSame DEF Same
    <2>5. PICK c \in Int : i + j = 0 + c * n
      BY <1>1, <2>4, CircleInjective, i + j \in Int, 0 \in Int
    <2>6. c <= 0 \/ c * n >= n
      <3>1. c >= 1 => c * n >= n
        BY <1>10
      <3> QED BY <3>1
    <2>7. c <= 0 => c * n <= 0
      BY <1>10
    <2> QED BY <2>5, <2>6, <2>7, <1>10
  <1>12. ASSUME Mod(a + b) = 0 PROVE i = j
    <2> DEFINE d == j + 2 * q
    <2>1. d \in Int /\ Turns(2 * (2 * q)) /\ n = 2 * (2 * q) /\ 2 * q \in Nat \ {0} /\ 2 * q \in Int
      <3>1. n = 2 * (2 * q)
        BY <1>10
      <3> QED BY <3>1, <1>1
    <2>2. Same(Circle(n, 2 * q), -1)
      BY <2>1, CircleHalf
    <2>3. Same(Circle(n, d), b * Circle(n, 2 * q))
      BY <1>1, <2>1, CircleSum
    <2>4. Same(b * Circle(n, 2 * q), b * (-1))
      <3> DEFINE g == Circle(n, 2 * q)
      <3>1. g \in Int /\ -1 \in Int
        BY <1>1, <2>1, CircleType
      <3> HIDE DEF g
      <3> QED BY <3>1, <2>2, <1>2, SameOps, SameRefl DEF g
    <2>5. Same(a, b * (-1))
      <3> DEFINE g == b * (-1)
      <3>1. g \in Int /\ a - g = a + b
        BY <1>2
      <3> HIDE DEF g
      <3>2. Same(a, g)
        BY <3>1, <1>2, <1>12, ModDifference
      <3> QED BY <3>2 DEF g
    <2>6. Circle(n, i) = Circle(n, d)
      <3>1. Circle(n, i) \in Field /\ Circle(n, d) \in Field
        <4> HIDE DEF d
        <4> QED BY <1>1, <2>1, CircleType
      <3> QED BY <2>3, <2>4, <2>5, <3>1, FieldSame DEF Same
    <2>7. PICK c \in Int : i = d + c * n
      <3>1. d \in Int /\ i \in Int /\ Turns(n) /\ Circle(n, i) = Circle(n, d)
        BY <1>1, <2>1, <2>6
      <3> HIDE DEF d
      <3> QED BY ONLY <3>1, CircleInjective
    <2>8. c >= 0 => c * n >= 0
      BY <1>10
    <2>9. c <= -1 => c * n <= 0 - n
      BY <1>10
    <2> QED BY <2>7, <2>8, <2>9, <1>10
  <1> QED BY <1>9, <1>11, <1>12

\* make_sintbl's sqrt finds the sine, for no other sine of the first
\* quarter has its square.
LEMMA RootIs ==
    ASSUME NEW q \in Nat \ {0}, Turns(4 * q), NEW i \in 0..q, NEW x \in Int,
           Same(Sine(4 * q, i) * Sine(4 * q, i), x)
    PROVE  Root(4 * q, x) = Sine(4 * q, i)
  <1> DEFINE n == 4 * q
             s == Sine(n, i)
             R == {Sine(n, j) : j \in 0..(n \div 4)}
  <1>1. n \div 4 = q /\ Turns(n) /\ q \in Int /\ i \in Int
    OBVIOUS
  <1>2. s \in R /\ (s * s) % P = x % P
    <2>1. s \in R
      BY <1>1
    <2>2. Mod(s * s) = Mod(x)
      BY DEF Same
    <2> QED BY <2>1, <2>2 DEF Mod
  <1>3. ASSUME NEW r \in R, (r * r) % P = x % P PROVE r = s
    <2>1. PICK j \in 0..q : r = Sine(n, j)
      BY <1>1
    <2>2. r \in Int /\ s \in Int /\ r \in Field /\ s \in Field
      <3>1. j \in Int
        BY <2>1
      <3> HIDE DEF n
      <3> QED BY <1>1, <2>1, <3>1, AngleType
    <2>3. Mod((r - s) * (r + s)) = 0
      <3> DEFINE a == r * r
                 b == s * s
      <3>1. a \in Int /\ b \in Int /\ Same(a, b) /\ (r - s) * (r + s) = a - b
        BY <1>2, <1>3, <2>2 DEF Same, Mod
      <3> HIDE DEF a, b, s
      <3>2. Mod(a - b) = 0
        BY <3>1, ModDifference
      <3> QED BY <3>1, <3>2
    <2>4. Mod(r - s) = 0 \/ Mod(r + s) = 0
      <3>1. r - s \in Int /\ r + s \in Int
        BY <2>2
      <3> QED BY <2>3, <3>1, Euclid
    <2>5. Mod(r - s) = 0 => r = s
      <3> HIDE DEF s
      <3> QED BY <2>2, ModDifference, FieldSame
    <2>6. Mod(r + s) = 0 => r = s
      BY <2>1, SineOpposite
    <2> QED BY <2>4, <2>5, <2>6
  <1>4. Root(n, x) = CHOOSE r \in R : (r * r) % P = x % P
    BY DEF Root
  <1> HIDE DEF s, R, n
  <1>5. Root(n, x) = s
    BY <1>2, <1>3, <1>4
  <1> QED BY <1>5 DEF n, s

\* Cosine and sine of one place after another, by the two places before.
LEMMA Chord ==
    ASSUME NEW m, Turns(m), NEW j \in Int
    PROVE  /\ Same(Cosine(m, (j + 1) + 1),
                   2 * Cosine(m, 1) * Cosine(m, j + 1) - Cosine(m, j))
           /\ Same(Sine(m, (j + 1) + 1), 2 * Cosine(m, 1) * Sine(m, j + 1) - Sine(m, j))
  <1> DEFINE i == j + 1
             a == Cosine(m, i)
             b == Sine(m, i)
             c == Cosine(m, 1)
             d == Sine(m, 1)
             e == Cosine(m, -1)
             f == Sine(m, -1)
             ce == Cosine(m, j)
             se == Sine(m, j)
             cn == Cosine(m, i + 1)
             sn == Sine(m, i + 1)
             g == 0 - d
  <1>1. i \in Int /\ 1 \in Int /\ -1 \in Int /\ i + (-1) = j /\ 0 - 1 = -1 /\ i + 1 \in Int
    OBVIOUS
  <1>2. /\ a \in Int /\ b \in Int /\ c \in Int /\ d \in Int /\ e \in Int /\ f \in Int
        /\ ce \in Int /\ se \in Int /\ cn \in Int /\ sn \in Int /\ g \in Int
    <2>1. d \in Int
      BY <1>1, AngleType
    <2>2. g \in Int
      BY <2>1
    <2> HIDE DEF i, g
    <2> QED BY <1>1, <2>2, AngleType
  <1>3. e = c /\ Same(f, g)
    <2>1. Cosine(m, 0 - 1) = Cosine(m, 1) /\ Same(Sine(m, 0 - 1), 0 - Sine(m, 1))
      BY <1>1, AngleNegative
    <2> QED BY <1>1, <2>1
  <1>4. Same(cn, a * c - b * d) /\ Same(sn, b * c + a * d)
    <2> HIDE DEF i
    <2> QED BY <1>1, AngleSum
  <1>5. Same(ce, a * e - b * f) /\ Same(se, b * e + a * f)
    <2> DEFINE l == -1
    <2>1. l \in Int /\ i + l = j
      BY <1>1
    <2> HIDE DEF i, l
    <2>2. /\ Same(Cosine(m, i + l), Cosine(m, i) * Cosine(m, l) - Sine(m, i) * Sine(m, l))
          /\ Same(Sine(m, i + l), Sine(m, i) * Cosine(m, l) + Cosine(m, i) * Sine(m, l))
      BY <1>1, <2>1, AngleSum
    <2> QED BY <2>1, <2>2 DEF l
  <1> HIDE DEF a, b, c, d, e, f, ce, se, cn, sn
  <1> DEFINE ac == a * c
             bd == b * d
             bc == b * c
             ad == a * d
             bf == b * f
             af == a * f
             bg == b * g
             ag == a * g
  <1>6. /\ ac \in Int /\ bd \in Int /\ bc \in Int /\ ad \in Int /\ bf \in Int /\ af \in Int
        /\ bg \in Int /\ ag \in Int /\ bg = 0 - bd /\ ag = 0 - ad
        /\ Same(ce, ac - bf) /\ Same(se, bc + af)
        /\ 2 * c * a - ce = (ac + ac) - ce /\ 2 * c * b - se = (bc + bc) - se
    BY <1>2, <1>3, <1>5
  <1>7. Same(bf, bg) /\ Same(af, ag)
    <2> HIDE DEF g
    <2> QED BY <1>2, <1>3, SameOps, SameRefl
  <1> HIDE DEF ac, bd, bc, ad, bf, af, bg, ag
  <1>8. Same(ac - bf, ac - bg) /\ Same(bc + af, bc + ag)
    BY <1>6, <1>7, SameOps, SameRefl
  <1> DEFINE u == ac - bg
             v == bc + ag
             x == ac + ac
             y == bc + bc
  <1>9. u \in Int /\ v \in Int /\ x \in Int /\ y \in Int /\ Same(ce, u) /\ Same(se, v)
        /\ x - u = ac - bd /\ y - v = bc + ad
    BY <1>6, <1>8 DEF Same
  <1> HIDE DEF u, v, x, y
  <1>10. Same(x - ce, x - u) /\ Same(y - se, y - v)
    BY <1>2, <1>9, SameOps, SameRefl
  <1>11. Same(cn, x - ce) /\ Same(sn, y - se)
    BY <1>4, <1>9, <1>10 DEF Same, ac, bd, bc, ad
  <1>12. Same(cn, 2 * c * a - ce) /\ Same(sn, 2 * c * b - se)
    BY <1>6, <1>11 DEF x, y
  <1> QED BY <1>12 DEF a, b, c, ce, se, cn, sn

\* The versed sine of an angle is twice the square of the sine of its half.
LEMMA HalfAngle ==
    ASSUME NEW n \in Nat \ {0}, Turns(2 * n), n % 4 = 0
    PROVE  Same(2 * Sine(2 * n, 1) * Sine(2 * n, 1), 1 - Cosine(n, 1))
  <1> DEFINE m == 2 * n
             c == Cosine(m, 1)
             s == Sine(m, 1)
             cc == c * c
             ss == s * s
  <1>1. m \in Nat \ {0} /\ 1 \in Int /\ m = 4 * (n \div 2) /\ n \div 2 \in Nat \ {0}
    OBVIOUS
  <1>2. Cosine(n, 1) = Cosine(m, 2) /\ Turns(n)
    <2>1. 2 \in Nat \ {0} /\ 2 * 1 = 2 /\ 1 \in Int
      OBVIOUS
    <2>2. Turns(n) /\ Cosine(2 * n, 2 * 1) = Cosine(n, 1)
      BY <2>1, AngleFiner
    <2> QED BY <2>1, <2>2
  <1>3. Same(Cosine(m, 2), cc - ss)
    <2>1. 1 + 1 = 2
      OBVIOUS
    <2>2. Same(Cosine(m, 1 + 1), Cosine(m, 1) * Cosine(m, 1) - Sine(m, 1) * Sine(m, 1))
      <3> HIDE DEF m
      <3>1. Turns(m)
        BY DEF m
      <3> QED BY <1>1, <3>1, AngleSum
    <2> QED BY <2>1, <2>2
  <1>4. Same(cc + ss, 1)
    <2> DEFINE h == n \div 2
    <2>1. h \in Nat \ {0} /\ Turns(4 * h) /\ m = 4 * h
      BY <1>1
    <2> HIDE DEF h, m
    <2>2. Same(Cosine(4 * h, 1) * Cosine(4 * h, 1) + Sine(4 * h, 1) * Sine(4 * h, 1), 1)
      BY <2>1, <1>1, AngleLaws
    <2> QED BY <2>1, <2>2
  <1>5. c \in Int /\ s \in Int /\ Cosine(n, 1) \in Int
    BY <1>1, <1>2, AngleType
  <1> HIDE DEF c, s, m
  <1>6. cc \in Int /\ ss \in Int /\ 2 * s * s = (cc + ss) - (cc - ss)
    BY <1>5
  <1> DEFINE u == cc + ss
             v == cc - ss
             w == Cosine(n, 1)
  <1>7. u \in Int /\ v \in Int /\ w \in Int /\ Same(u, 1) /\ Same(v, w)
    BY <1>2, <1>3, <1>4, <1>5, <1>6 DEF Same
  <1> HIDE DEF u, v, w
  <1>8. Same(u - v, 1 - w)
    BY <1>7, SameOps, 1 \in Int
  <1> QED BY <1>6, <1>8 DEF u, v, w, s, m

\* One turn of the loop moves cosine, sine and their differences on.
LEMMA LoopTurn ==
    ASSUME NEW n, Turns(n), NEW j \in Int, NEW t \in Int,
           NEW w, w = 2 * (1 - Cosine(n, 1)), Same(t, w)
    PROVE  /\ Mod(Cosine(n, j) - Mod(Cosine(n, j) - Cosine(n, j + 1))) = Cosine(n, j + 1)
           /\ Mod(Sine(n, j) + Mod(Sine(n, j + 1) - Sine(n, j))) = Sine(n, j + 1)
           /\ Mod(Mod(Cosine(n, j) - Cosine(n, j + 1)) + t * Cosine(n, j + 1))
                = Mod(Cosine(n, j + 1) - Cosine(n, (j + 1) + 1))
           /\ Mod(Mod(Sine(n, j + 1) - Sine(n, j)) - t * Sine(n, j + 1))
                = Mod(Sine(n, (j + 1) + 1) - Sine(n, j + 1))
  <1> DEFINE a == Cosine(n, j)
             b == Cosine(n, j + 1)
             c == Cosine(n, (j + 1) + 1)
             d == Sine(n, j)
             e == Sine(n, j + 1)
             f == Sine(n, (j + 1) + 1)
             h == Cosine(n, 1)
             ab == a - b
             ed == e - d
             tb == t * b
             te == t * e
             wb == w * b
             we == w * e
             bc == b - c
             fe == f - e
  <1>1. /\ a \in Int /\ b \in Int /\ c \in Int /\ d \in Int /\ e \in Int /\ f \in Int /\ h \in Int
        /\ b \in Field /\ e \in Field
    <2>1. j + 1 \in Int /\ (j + 1) + 1 \in Int /\ 1 \in Int
      OBVIOUS
    <2>2. \A i \in Int : Cosine(n, i) \in Int /\ Cosine(n, i) \in Field
                         /\ Sine(n, i) \in Int /\ Sine(n, i) \in Field
      BY AngleType
    <2> QED BY <2>1, <2>2
  <1>2. Same(c, 2 * h * b - a) /\ Same(f, 2 * h * e - d)
    BY Chord
  <1> HIDE DEF a, b, c, d, e, f, h
  <1>3. /\ ab \in Int /\ ed \in Int /\ w \in Int /\ tb \in Int /\ te \in Int /\ wb \in Int
        /\ we \in Int /\ bc \in Int /\ fe \in Int /\ Same(t, w)
        /\ a - ab = b /\ d + ed = e
        /\ 2 * h * b - a = b - (ab + wb) /\ 2 * h * e - d = e + (ed - we)
    BY <1>1 DEF h
  <1>4. Same(tb, wb) /\ Same(te, we)
    BY <1>1, <1>3, SameOps, SameRefl
  <1> DEFINE p == ab + wb
             r == ed - we
             u == b - p
             v == e + r
  <1>5. p \in Int /\ r \in Int /\ u \in Int /\ v \in Int /\ b - u = p /\ v - e = r
        /\ Same(c, u) /\ Same(f, v)
    BY <1>1, <1>2, <1>3
  <1> HIDE DEF u, v
  <1>6. Same(b - c, b - u) /\ Same(f - e, v - e)
    BY <1>1, <1>5, SameOps, SameRefl
  <1>7. Same(bc, p) /\ Same(fe, r)
    BY <1>5, <1>6
  <1> HIDE DEF ab, ed, tb, te, wb, we, bc, fe
  <1>8. Same(ab + tb, p) /\ Same(ed - te, r)
    BY <1>3, <1>4, SameOps, SameRefl
  <1>13. ab \in Int /\ ed \in Int /\ tb \in Int /\ te \in Int /\ a - ab = b /\ d + ed = e
    BY <1>3
  <1>9. Mod(a - Mod(ab)) = Mod(b) /\ Mod(d + Mod(ed)) = Mod(e)
    <2>1. a \in Int /\ ab \in Int /\ d \in Int /\ ed \in Int
      BY <1>1, <1>13
    <2>2. Mod(a - Mod(ab)) = Mod(a - ab)
      BY ONLY <2>1, ModIn
    <2>3. Mod(d + Mod(ed)) = Mod(d + ed)
      BY ONLY <2>1, ModIn
    <2> QED BY <1>13, <2>2, <2>3
  <1>10. Mod(Mod(ab) + tb) = Mod(ab + tb) /\ Mod(Mod(ed) - te) = Mod(ed - te)
    <2>1. Mod(Mod(ab) + tb) = Mod(ab + tb)
      BY ONLY <1>13, ModIn
    <2>2. Mod(Mod(ed) - te) = Mod(ed - te)
      BY ONLY <1>13, ModIn
    <2> QED BY <2>1, <2>2
  <1>11. Mod(b) = b /\ Mod(e) = e
    BY <1>1, ModOfField
  <1>12. /\ Mod(a - Mod(ab)) = b /\ Mod(d + Mod(ed)) = e
         /\ Mod(Mod(ab) + tb) = Mod(bc) /\ Mod(Mod(ed) - te) = Mod(fe)
    BY <1>7, <1>8, <1>9, <1>10, <1>11 DEF Same
  <1> QED BY <1>12 DEF a, b, c, d, e, f, ab, ed, tb, te, bc, fe

\* The loop starts with the differences from angle 0 to the next.
LEMMA LoopStart ==
    ASSUME NEW q \in Nat \ {0}, NEW n, n = 4 * q, Turns(2 * n), NEW d,
           d = Mod(2 * Sine(2 * n, 1) * Sine(2 * n, 1))
    PROVE  /\ Turns(n) /\ d \in Int
           /\ d = Mod(Cosine(n, 0) - Cosine(n, 0 + 1))
           /\ Same(2 * d, 2 * (1 - Cosine(n, 1)))
           /\ Root(n, d * (2 - d)) = Mod(Sine(n, 0 + 1) - Sine(n, 0))
  <1>1. n \in Nat \ {0} /\ n % 4 = 0 /\ 1 \in 0..q /\ 1 \in Int /\ 0 + 1 = 1
    OBVIOUS
  <1>2. Turns(n)
    <2>1. 2 \in Nat \ {0}
      OBVIOUS
    <2> QED BY <1>1, <2>1, AngleFiner
  <1> DEFINE c == Cosine(n, 1)
             s == Sine(n, 1)
             h == Sine(2 * n, 1)
             w == 1 - c
             x == 2 * h * h
  <1>3. c \in Int /\ s \in Int /\ s \in Field /\ h \in Int /\ Cosine(n, 0) = 1 /\ Sine(n, 0) = 0
    BY <1>1, <1>2, AngleType, AngleZero
  <1>4. Same(x, w)
    BY <1>1, HalfAngle
  <1> HIDE DEF c, s, h
  <1>5. w \in Int /\ x \in Int /\ s - 0 = s
    BY <1>3
  <1>6. d \in Int /\ d = Mod(x) /\ Same(d, w) /\ d = Mod(w)
    <2>1. d = Mod(x)
      BY DEF h
    <2> HIDE DEF x
    <2>2. d \in Int /\ Same(d, x)
      BY <1>5, <2>1, ModType, SameRefl
    <2> QED BY <2>1, <2>2, <1>4 DEF Same
  <1>7. Same(2 * d, 2 * w)
    <2> HIDE DEF w
    <2> QED BY <1>5, <1>6, SameOps, SameRefl, 2 \in Int
  <1>8. Same(2 - d, 2 - w)
    <2> HIDE DEF w
    <2> QED BY <1>5, <1>6, SameOps, SameRefl, 2 \in Int
  <1> DEFINE y == d * (2 - d)
             cc == c * c
             ss == s * s
             u == cc + ss
  <1>9. Same(y, w * (2 - w))
    <2> DEFINE a == 2 - d
               b == 2 - w
    <2>1. a \in Int /\ b \in Int /\ Same(a, b)
      BY <1>5, <1>6, <1>8
    <2> HIDE DEF a, b, w
    <2>2. Same(d * a, w * b)
      BY <1>5, <1>6, <2>1, SameOps
    <2> QED BY <2>2 DEF a, b
  <1>10. Same(u, 1)
    <2>1. Turns(4 * q) /\ 1 \in Int
      BY <1>2
    <2>2. Same(Cosine(4 * q, 1) * Cosine(4 * q, 1) + Sine(4 * q, 1) * Sine(4 * q, 1), 1)
      BY <2>1, AngleLaws
    <2> QED BY <2>2 DEF c, s
  <1>11. cc \in Int /\ u \in Int /\ ss \in Int /\ y \in Int /\ w * (2 - w) = 1 - cc /\ u - cc = ss
    BY <1>3, <1>6
  <1>12. Same(ss, y)
    <2>1. Same(u - cc, 1 - cc)
      <3> HIDE DEF u, cc
      <3> QED BY <1>10, <1>11, SameOps, SameRefl, 1 \in Int
    <2> QED BY <2>1, <1>9, <1>11 DEF Same
  <1>13. Root(n, y) = s
    <2>1. Turns(4 * q) /\ Same(Sine(4 * q, 1) * Sine(4 * q, 1), y)
      BY <1>2, <1>12 DEF s
    <2> HIDE DEF y
    <2>2. Root(4 * q, y) = Sine(4 * q, 1)
      BY <1>1, <1>11, <2>1, RootIs
    <2> QED BY <2>2 DEF s
  <1>14. Mod(s) = s
    BY <1>3, ModOfField
  <1>15. d = Mod(1 - c) /\ Same(2 * d, 2 * (1 - c)) /\ Root(n, y) = Mod(s - 0)
    BY <1>5, <1>6, <1>7, <1>13, <1>14
  <1> QED BY <1>1, <1>2, <1>3, <1>6, <1>15 DEF c, s

\* The loop over the first eighth has cosine and sine of every place.
LEMMA DifferencesAre ==
    ASSUME NEW q \in Nat \ {0}, NEW n, n = 4 * q, Turns(2 * n), NEW i \in 0..(n \div 8)
    PROVE  Differences(n)[i].c = Cosine(n, i) /\ Differences(n)[i].s = Sine(n, i)
  <1> DEFINE D == 0..(n \div 8)
             dc0 == (2 * Sine(2 * n, 1) * Sine(2 * n, 1)) % P
             t == 2 * dc0
             Def(f, j) ==
                IF j = 0 THEN [c |-> 1, s |-> 0, dc |-> dc0, ds |-> Root(n, dc0 * (2 - dc0))]
                ELSE LET last == f[j - 1]
                         c == (last.c - last.dc) % P
                         s == (last.s + last.ds) % P
                     IN  [c |-> c, s |-> s, dc |-> (last.dc + t * c) % P,
                          ds |-> (last.ds - t * s) % P]
             At4(j) == [c |-> Cosine(n, j), s |-> Sine(n, j),
                        dc |-> Mod(Cosine(n, j) - Cosine(n, j + 1)),
                        ds |-> Mod(Sine(n, j + 1) - Sine(n, j))]
             g == [j \in D |-> At4(j)]
             F == Differences(n)
  <1>1. /\ Turns(n) /\ dc0 \in Int
        /\ dc0 = Mod(Cosine(n, 0) - Cosine(n, 0 + 1))
        /\ Same(2 * dc0, 2 * (1 - Cosine(n, 1)))
        /\ Root(n, dc0 * (2 - dc0)) = Mod(Sine(n, 0 + 1) - Sine(n, 0))
    <2> DEFINE d == dc0
    <2>1. d = Mod(2 * Sine(2 * n, 1) * Sine(2 * n, 1))
      BY DEF Mod
    <2> HIDE DEF d
    <2> QED BY <2>1, LoopStart DEF d
  <1>2. F = CHOOSE f : f = [j \in D |-> Def(f, j)]
    BY DEF Differences
  <1> HIDE DEF dc0
  <1>3. t \in Int /\ Same(t, 2 * (1 - Cosine(n, 1)))
    BY <1>1
  <1> DEFINE w == 2 * (1 - Cosine(n, 1))
  <1> HIDE DEF t
  <1>4. n \div 8 \in Nat
    OBVIOUS
  <1>5. \A j \in D : At4(j) = Def(g, j)
    <2> TAKE j \in D
    <2>1. CASE j = 0
      <3>1. Cosine(n, 0) = 1 /\ Sine(n, 0) = 0
        BY <1>1, AngleZero
      <3> QED BY <2>1, <3>1, <1>1
    <2>2. CASE j # 0
      <3> DEFINE l == j - 1
      <3>1. l \in Int /\ l \in D /\ j = l + 1
        BY <2>2, <1>4
      <3> HIDE DEF l
      <3>2. /\ Mod(Cosine(n, l) - Mod(Cosine(n, l) - Cosine(n, l + 1))) = Cosine(n, l + 1)
            /\ Mod(Sine(n, l) + Mod(Sine(n, l + 1) - Sine(n, l))) = Sine(n, l + 1)
            /\ Mod(Mod(Cosine(n, l) - Cosine(n, l + 1)) + t * Cosine(n, l + 1))
                 = Mod(Cosine(n, l + 1) - Cosine(n, (l + 1) + 1))
            /\ Mod(Mod(Sine(n, l + 1) - Sine(n, l)) - t * Sine(n, l + 1))
                 = Mod(Sine(n, (l + 1) + 1) - Sine(n, l + 1))
        <4>1. Same(t, w) /\ w = 2 * (1 - Cosine(n, 1))
          BY <1>3
        <4> HIDE DEF w
        <4> QED BY ONLY <4>1, <1>1, <1>3, <3>1, LoopTurn
      <3>3. g[l] = At4(l)
        BY <3>1
      <3>4. Def(g, j) =
              LET last == At4(l)
                  c == Mod(last.c - last.dc)
                  s == Mod(last.s + last.ds)
              IN  [c |-> c, s |-> s, dc |-> Mod(last.dc + t * c), ds |-> Mod(last.ds - t * s)]
        <4> HIDE DEF At4, g
        <4>1. g[j - 1] = At4(l)
          BY <3>3 DEF l
        <4> QED BY <2>2, <4>1 DEF Mod
      <3> QED BY <3>1, <3>2, <3>4
    <2> QED BY <2>1, <2>2
  <1>6. F = [j \in D |-> Def(F, j)]
    <2>1. g = [j \in D |-> Def(g, j)]
      <3> HIDE DEF Def, D, At4
      <3> QED BY <1>5
    <2>2. \E f : f = [j \in D |-> Def(f, j)]
      BY <2>1
    <2> HIDE DEF Def, D, g
    <2> QED BY <1>2, <2>2
  <1>7. \A j \in D : F[j] = g[j]
    <2> DEFINE T == {j \in D : F[j] # g[j]}
    <2> SUFFICES ASSUME T # {} PROVE FALSE
      OBVIOUS
    <2>1. PICK j \in T : \A d \in T : j <= d
      <3>1. T \subseteq Nat
        BY <1>4
      <3> HIDE DEF T
      <3> QED BY <3>1, LeastNatural
    <2>2. j \in D /\ F[j] # g[j]
      BY <2>1
    <2>3. F[j] = Def(F, j) /\ g[j] = Def(g, j)
      <3> HIDE DEF Def, D, At4
      <3> QED BY <2>2, <1>5, <1>6
    <2>4. j # 0
      BY <2>2, <2>3
    <2>5. j - 1 \in D /\ ~ (j <= j - 1)
      BY <2>2, <2>4, <1>4
    <2>6. F[j - 1] = g[j - 1]
      <3> HIDE DEF D, g
      <3> QED BY <2>5, <2>1
    <2>7. Def(F, j) = Def(g, j)
      <3> HIDE DEF g
      <3> QED BY <2>6
    <2> QED BY <2>2, <2>3, <2>7
  <1>8. F[i] = At4(i)
    BY <1>7
  <1> QED BY <1>8

\* The table of the transform holds the sine of a turn and a quarter.
THEOREM SinesAre ==
    ASSUME NEW q \in Nat \ {0}, NEW n, n = 4 * q, Turns(2 * n), NEW i \in 0..(n + q - 1)
    PROVE  make_sintbl(n)[i] = Sine(n, i)
  <1> DEFINE D == 0..(n + n \div 4 - 1)
             eighth == Differences(n)
             quarter(j) == IF 2 * j < n \div 4 THEN eighth[j].s
                           ELSE IF 2 * j = n \div 4 THEN Root(n, Half)
                           ELSE eighth[n \div 4 - j].c
             Def(f, j) == IF j <= n \div 4 THEN quarter(j)
                          ELSE IF j < n \div 2 THEN quarter(n \div 2 - j)
                          ELSE (0 - f[j - n \div 2]) % P
             g == [j \in D |-> Sine(n, j)]
             F == make_sintbl(n)
  <1>1. /\ n \div 4 = q /\ n \div 2 = 2 * q /\ q \in Nat \ {0} /\ n = 4 * q
        /\ D = 0..(5 * q - 1) /\ i \in D
    OBVIOUS
  <1>2. Turns(n) /\ Turns(4 * q)
    <2>1. 2 \in Nat \ {0} /\ n \in Nat \ {0} /\ 1 \in Int
      OBVIOUS
    <2>2. Turns(n)
      BY <2>1, AngleFiner
    <2> QED BY <2>2
  <1>3. F = CHOOSE f : f = [j \in D |-> Def(f, j)]
    BY DEF make_sintbl
  <1>4. \A j \in Int : /\ Sine(n, q - j) = Cosine(n, j)
                       /\ Sine(n, 2 * q - j) = Sine(n, j)
                       /\ Same(Sine(n, j + 2 * q), 0 - Sine(n, j))
                       /\ Same(Cosine(n, j) * Cosine(n, j) + Sine(n, j) * Sine(n, j), 1)
                       /\ Sine(n, j) \in Field /\ Sine(n, j) \in Int /\ Cosine(n, j) \in Int
    <2>1. \A j \in Int : /\ Sine(4 * q, q - j) = Cosine(4 * q, j)
                         /\ Sine(4 * q, 2 * q - j) = Sine(4 * q, j)
                         /\ Same(Sine(4 * q, j + 2 * q), 0 - Sine(4 * q, j))
                         /\ Same(Cosine(4 * q, j) * Cosine(4 * q, j)
                                   + Sine(4 * q, j) * Sine(4 * q, j), 1)
      BY <1>2, AngleLaws
    <2> QED BY <2>1, <1>2, AngleType
  <1>5. \A j \in 0..q : quarter(j) = Sine(n, j)
    <2> TAKE j \in 0..q
    <2>1. CASE 2 * j < q
      <3>1. j \in 0..(n \div 8)
        BY <2>1
      <3>2. eighth[j].s = Sine(n, j)
        BY <3>1, DifferencesAre
      <3> QED BY <3>2, <2>1, <1>1
    <2>2. CASE 2 * j = q
      <3> DEFINE c == Cosine(n, j)
                 s == Sine(n, j)
                 ss == s * s
                 h == Half
                 u == 2 * h
                 uu == ss + ss
      <3>1. c = s
        <4>1. j \in Int /\ q - j = j
          BY <2>2
        <4> QED BY <4>1, <1>4
      <3>7. s \in Int /\ h \in Int /\ Same(2 * h, 1) /\ Same(c * c + s * s, 1)
        BY <1>4, HalfIs, j \in Int
      <3> HIDE DEF s, c, h
      <3>2. s \in Int /\ h \in Int /\ Same(u, 1) /\ ss \in Int /\ u \in Int
            /\ uu \in Int /\ ss * u = uu * h /\ ss * 1 = ss /\ 1 * h = h
        BY <3>7
      <3>3. Same(uu, 1)
        BY <3>1, <3>7
      <3> HIDE DEF ss, u, uu
      <3>4. Same(ss * u, ss * 1) /\ Same(uu * h, 1 * h)
        BY <3>2, <3>3, SameOps, SameRefl, 1 \in Int
      <3>5. Same(ss, h)
        BY <3>2, <3>4 DEF Same
      <3>6. Root(n, Half) = Sine(n, j)
        <4>1. Same(Sine(4 * q, j) * Sine(4 * q, j), h)
          BY <3>5, <1>1 DEF ss, s
        <4>2. Root(4 * q, h) = Sine(4 * q, j)
          BY ONLY <4>1, <1>2, <3>2, RootIs, q \in Nat \ {0}, j \in 0..q
        <4> QED BY <4>2, <1>1 DEF h
      <3> QED BY <3>6, <2>2, <1>1
    <2>3. CASE 2 * j > q
      <3>1. q - j \in 0..(n \div 8) /\ j \in Int /\ q - j \in Int /\ q - (q - j) = j
        BY <2>3
      <3>2. eighth[q - j].c = Cosine(n, q - j)
        BY <3>1, DifferencesAre
      <3>3. Sine(n, q - (q - j)) = Cosine(n, q - j)
        BY <3>1, <1>4
      <3>4. quarter(j) = eighth[q - j].c
        BY <2>3, <1>1
      <3> QED BY ONLY <3>1, <3>2, <3>3, <3>4
    <2> QED BY <2>1, <2>2, <2>3
  <1> HIDE DEF quarter
  <1>6. \A j \in D : g[j] = Def(g, j)
    <2> TAKE j \in D
    <2>1. CASE j <= q
      <3>1. quarter(j) = Sine(n, j)
        BY <2>1, <1>5
      <3> QED BY <3>1, <2>1, <1>1
    <2>2. CASE j > q /\ j < 2 * q
      <3>1. 2 * q - j \in 0..q /\ j \in Int
        BY <2>2
      <3>2. quarter(2 * q - j) = Sine(n, 2 * q - j)
        BY <3>1, <1>5
      <3>3. Sine(n, 2 * q - j) = Sine(n, j)
        BY <3>1, <1>4
      <3> QED BY <3>2, <3>3, <2>2, <1>1
    <2>3. CASE j >= 2 * q
      <3> DEFINE l == j - 2 * q
                 a == Sine(n, l)
                 b == Sine(n, j)
      <3>1. l \in Int /\ l \in D /\ l + 2 * q = j /\ j \in Int
        BY <2>3, <1>1
      <3>2. Same(b, 0 - a) /\ b \in Field /\ a \in Int
        <4>1. Same(Sine(n, l + 2 * q), 0 - Sine(n, l))
          <5> HIDE DEF l
          <5> QED BY <3>1, <1>4
        <4> HIDE DEF l
        <4> QED BY <4>1, <3>1, <1>4
      <3>3. b = (0 - a) % P
        <4>1. Mod(b) = b
          BY <3>2, ModOfField
        <4> HIDE DEF a, b
        <4> QED BY <4>1, <3>2 DEF Same, Mod
      <3>4. g[j] = b /\ g[j - n \div 2] = a
        BY <3>1, <1>1
      <3>5. ~ (j <= n \div 4) /\ ~ (j < n \div 2)
        BY <2>3, <1>1
      <3> HIDE DEF g, a, b
      <3> QED BY <3>3, <3>4, <3>5
    <2> QED BY <2>1, <2>2, <2>3, <1>1
  <1>7. F = [j \in D |-> Def(F, j)]
    <2>1. g = [j \in D |-> Def(g, j)]
      <3> HIDE DEF Def, D
      <3> QED BY <1>6
    <2>2. \E f : f = [j \in D |-> Def(f, j)]
      BY <2>1
    <2> HIDE DEF Def, D, g
    <2> QED BY <1>3, <2>2
  <1>8. \A j \in D : F[j] = g[j]
    <2> DEFINE T == {j \in D : F[j] # g[j]}
    <2> SUFFICES ASSUME T # {} PROVE FALSE
      OBVIOUS
    <2>1. PICK j \in T : \A d \in T : j <= d
      <3>1. T \subseteq Nat
        BY <1>1
      <3> HIDE DEF T
      <3> QED BY <3>1, LeastNatural
    <2>2. j \in D /\ F[j] # g[j]
      BY <2>1
    <2>3. F[j] = Def(F, j) /\ g[j] = Def(g, j)
      <3> HIDE DEF Def, D, g
      <3> QED BY <2>2, <1>6, <1>7
    <2>4. ~ (j <= n \div 4) /\ ~ (j < n \div 2)
      BY <2>2, <2>3
    <2>5. j - n \div 2 \in D /\ ~ (j <= j - n \div 2)
      BY <2>2, <2>4, <1>1
    <2>6. F[j - n \div 2] = g[j - n \div 2]
      <3> HIDE DEF D, g
      <3> QED BY <2>5, <2>1
    <2>7. Def(F, j) = Def(g, j)
      <3> HIDE DEF g
      <3> QED BY <2>6
    <2> QED BY <2>2, <2>3, <2>7
  <1>9. F[i] = g[i]
    BY <1>1, <1>8
  <1> QED BY <1>9, <1>1

-----------------------------------------------------------------------------
(* Powers of two.                                                          *)

\* Powers of two, the number 1 among them.
Power(m) == m \in Nat \ {0} /\ IsPowerOfTwo(m)

\* A divisor is not greater than what it divides.
LEMMA DivisorLess ==
    ASSUME NEW d \in Nat \ {0}, NEW m \in Nat \ {0}, m % d = 0
    PROVE  d <= m
  <1>1. m = (m \div d) * d /\ m \div d \in Int
    BY Divides, Division
  <1> DEFINE q == m \div d
  <1>2. q \in Int /\ m = q * d
    BY <1>1
  <1> HIDE DEF q
  <1>3. q <= 0 => q * d <= 0
    BY <1>2
  <1>4. q >= 1 => q * d >= d
    BY <1>2
  <1> QED BY <1>2, <1>3, <1>4

LEMMA DivisorTrans ==
    ASSUME NEW m \in Nat \ {0}, NEW d \in Nat \ {0}, NEW e \in Nat \ {0},
           m % d = 0, d % e = 0
    PROVE  m % e = 0
  <1> DEFINE q == m \div d
             r == d \div e
             u == q * r
  <1>1. q \in Int /\ m = q * d /\ r \in Int /\ d = r * e
    BY Divides, Division
  <1> HIDE DEF q, r
  <1>2. m = u * e /\ u \in Int
    BY <1>1
  <1> HIDE DEF u
  <1> QED BY <1>2, Divides

\* Divisors of a power of two are powers of two.
LEMMA PowerDivisor ==
    ASSUME NEW m, Power(m), NEW d \in Nat \ {0}, m % d = 0
    PROVE  Power(d) /\ (d > 1 => d % 2 = 0)
  <1>1. m \in Nat \ {0} /\ d <= m
    BY DivisorLess DEF Power
  <1>3. ASSUME NEW e \in 2..d, d % e = 0 PROVE e % 2 = 0
    <2>1. m % e = 0
      BY <1>1, <1>3, DivisorTrans, e \in Nat \ {0}
    <2> QED BY <1>1, <2>1 DEF Power, IsPowerOfTwo
  <1>4. d > 1 => d % 2 = 0
    <2>1. d % d = 0
      OBVIOUS
    <2> QED BY <1>3, <2>1
  <1> QED BY <1>3, <1>4 DEF Power, IsPowerOfTwo

\* Halves and doubles of powers of two are powers of two.
LEMMA PowerHalf ==
    ASSUME NEW m, Power(m), m > 1
    PROVE  m = 2 * (m \div 2) /\ Power(m \div 2)
  <1>1. m \in Nat \ {0}
    BY DEF Power
  <1>2. m % m = 0
    BY <1>1
  <1>3. m % 2 = 0
    BY <1>1, <1>2, PowerDivisor
  <1> DEFINE h == m \div 2
  <1>4. m = 2 * h /\ h \in Nat \ {0}
    BY <1>1, <1>3
  <1> HIDE DEF h
  <1>5. m % h = 0
    BY <1>1, <1>4, Divides, 2 \in Int
  <1>6. Power(h)
    BY <1>4, <1>5, PowerDivisor
  <1> QED BY <1>4, <1>6 DEF h

LEMMA PowerDouble ==
    ASSUME NEW m, Power(m)
    PROVE  Power(2 * m)
  <1>1. m \in Nat \ {0}
    BY DEF Power
  <1>2. ASSUME NEW d \in 2..(2 * m), (2 * m) % d = 0 PROVE d % 2 = 0
    <2> SUFFICES ASSUME d % 2 = 1 PROVE FALSE
      OBVIOUS
    <2> DEFINE q == (2 * m) \div d
               c == d \div 2
               e == q \div 2
    <2>1. q \in Int /\ 2 * m = q * d /\ c \in Int /\ d = 2 * c + 1
      <3> DEFINE a == 2 * m
      <3>1. a \in Int /\ d \in Nat \ {0} /\ a % d = 0 /\ d % 2 = 1
        BY <1>1, <1>2
      <3> HIDE DEF a
      <3>2. a \div d \in Int /\ a = (a \div d) * d
        BY ONLY <3>1, Divides, Division
      <3>3. d \div 2 \in Int /\ d = 2 * (d \div 2) + 1
        BY ONLY <3>1
      <3> QED BY <3>2, <3>3 DEF a
    <2> HIDE DEF q, c
    <2>2. q = 2 * (m - q * c)
      BY <2>1, <1>1
    <2> DEFINE f == m - q * c
    <2>3. f \in Int /\ q = 2 * f
      BY <2>1, <2>2, <1>1
    <2> HIDE DEF f
    <2>4. m = f * d
      <3>1. 2 * m = 2 * (f * d)
        BY <2>1, <2>3
      <3> DEFINE g == f * d
      <3>2. g \in Int /\ 2 * m = 2 * g
        BY <2>3, <3>1
      <3> HIDE DEF g
      <3>3. m = g
        BY <3>2, <1>1
      <3> QED BY <3>3 DEF g
    <2>5. m % d = 0 /\ d \in Nat \ {0}
      BY <2>3, <2>4, <1>1, Divides
    <2> QED BY <2>5, PowerDivisor
  <1> QED BY <1>1, <1>2 DEF Power, IsPowerOfTwo

\* A power of two is found, of frames longer than 2 a multiple of 4.
LEMMA UpperPowerIs ==
    ASSUME NEW n \in Nat, n > 2
    PROVE  /\ UpperPowerOfTwo(n) \in n..(2 * n - 1) /\ Power(UpperPowerOfTwo(n))
           /\ \E q \in Nat \ {0} : UpperPowerOfTwo(n) = 4 * q
  <1> DEFINE T == {i \in Nat : i > 0 => \E m \in i..(2 * i - 1) : Power(m)}
  <1>1. 0 \in T
    OBVIOUS
  <1>2. ASSUME NEW i \in Nat, i \in T PROVE i + 1 \in T
    <2>1. CASE i = 0
      <3>1. Power(1) /\ 1 \in 1..(2 * 1 - 1)
        BY DEF Power, IsPowerOfTwo
      <3> QED BY <2>1, <3>1
    <2>2. CASE i > 0
      <3>1. PICK m \in i..(2 * i - 1) : Power(m)
        BY <1>2, <2>2
      <3>2. Power(2 * m)
        BY <3>1, PowerDouble
      <3>3. CASE m = i
        <4>1. 2 * m \in (i + 1)..(2 * (i + 1) - 1)
          BY <3>3, <2>2
        <4> QED BY <3>2, <4>1
      <3>4. CASE m # i
        <4>1. m \in (i + 1)..(2 * (i + 1) - 1)
          BY <3>4
        <4> QED BY <3>1, <4>1
      <3> QED BY <3>3, <3>4
    <2> QED BY <2>1, <2>2
  <1>3. Nat \subseteq T
    <2> HIDE DEF T
    <2> QED BY <1>1, <1>2, Induction
  <1> DEFINE m == UpperPowerOfTwo(n)
  <1>4. m \in n..(2 * n - 1) /\ IsPowerOfTwo(m)
    <2>1. \E i \in n..(2 * n - 1) : IsPowerOfTwo(i)
      BY <1>3 DEF Power
    <2> QED BY <2>1 DEF UpperPowerOfTwo
  <1>5. Power(m) /\ m > 2
    BY <1>4 DEF Power
  <1> HIDE DEF m
  <1>6. m = 2 * (m \div 2) /\ Power(m \div 2)
    BY <1>5, PowerHalf, <1>4
  <1> DEFINE h == m \div 2
  <1>7. h \in Nat /\ h > 1 /\ Power(h)
    BY <1>4, <1>5, <1>6
  <1> HIDE DEF h
  <1>8. h = 2 * (h \div 2) /\ Power(h \div 2)
    BY <1>7, PowerHalf
  <1> DEFINE q == h \div 2
  <1>9. q \in Nat \ {0} /\ h = 2 * q /\ m = 2 * h
    BY <1>6, <1>8 DEF Power, h
  <1> HIDE DEF q
  <1>10. m = 4 * q
    BY <1>9
  <1> QED BY <1>4, <1>5, <1>9, <1>10 DEF m

-----------------------------------------------------------------------------
(* Digits.                                                                 *)

\* Division in two steps.
LEMMA DivDiv ==
    ASSUME NEW i \in Nat, NEW c \in Nat \ {0}, NEW d \in Nat \ {0}
    PROVE  (i \div c) \div d = i \div (c * d)
  <1> DEFINE q == i \div c
             r == i % c
             s == q \div d
             t == q % d
             u == t * c + r
             e == c * d
  <1>1. q \in Int /\ r \in 0..(c - 1) /\ i = q * c + r
    BY Division
  <1>2. s \in Int /\ t \in 0..(d - 1) /\ q = s * d + t
    <2> HIDE DEF q
    <2> QED BY <1>1, Division
  <1> HIDE DEF q, r, s, t
  <1>3. e \in Nat \ {0} /\ u \in Int /\ i = s * e + u
    BY <1>1, <1>2
  <1>4. u >= 0 /\ u <= e - 1
    <2>1. t * c >= 0
      BY <1>2
    <2>2. t * c <= (d - 1) * c
      BY <1>2
    <2>3. (d - 1) * c = c * d - c
      OBVIOUS
    <2> QED BY <1>1, <1>2, <2>1, <2>2, <2>3
  <1> HIDE DEF u, e
  <1>5. u \in 0..(e - 1)
    BY <1>3, <1>4
  <1>6. i \div e = s
    BY <1>2, <1>3, <1>5, DivisionOf
  <1> QED BY <1>6 DEF e, s, q

\* Halving a number moves its digits down.
LEMMA DigitHalf ==
    ASSUME NEW i \in Nat, NEW d \in Nat \ {0}
    PROVE  Digit(i, 2 * d) = Digit(i \div 2, d)
  BY DivDiv, 2 \in Nat \ {0} DEF Digit

\* Numbers with the same digits are the same.
LEMMA SameDigits ==
    ASSUME NEW n, Power(n), NEW a \in 0..(n - 1), NEW b \in 0..(n - 1),
           \A d \in Nat \ {0} : n % (2 * d) = 0 => Digit(a, d) = Digit(b, d)
    PROVE  a = b
  <1> DEFINE Bad(m) == /\ Power(m)
                       /\ \E i, j \in 0..(m - 1) :
                              /\ \A d \in Nat \ {0} : m % (2 * d) = 0 => Digit(i, d) = Digit(j, d)
                              /\ i # j
             T == {m \in Nat : Bad(m)}
  <1> SUFFICES ASSUME a # b PROVE FALSE
    OBVIOUS
  <1>1. n \in T
    BY DEF Power
  <1>2. PICK m \in T : \A l \in T : m <= l
    <2>1. T \subseteq Nat /\ T # {}
      BY <1>1
    <2> HIDE DEF T
    <2> QED BY <2>1, LeastNatural
  <1>3. m \in Nat \ {0} /\ Power(m)
    BY <1>2 DEF Power
  <1>4. PICK i, j \in 0..(m - 1) :
                              /\ \A d \in Nat \ {0} : m % (2 * d) = 0 => Digit(i, d) = Digit(j, d)
                              /\ i # j
    BY <1>2
  <1>5. m > 1
    BY <1>3, <1>4
  <1> DEFINE h == m \div 2
  <1>6. m = 2 * h /\ Power(h) /\ h \in Nat \ {0}
    <2>1. m = 2 * h /\ Power(h)
      BY <1>3, <1>5, PowerHalf
    <2> QED BY <2>1 DEF Power
  <1> HIDE DEF h
  <1>7. i % 2 = j % 2
    <2>1. m % (2 * 1) = 0
      BY <1>6
    <2>2. Digit(i, 1) = Digit(j, 1)
      BY <2>1, <1>4
    <2> QED BY <2>2 DEF Digit
  <1>8. i \div 2 # j \div 2
    BY <1>4, <1>7
  <1>9. i \div 2 \in 0..(h - 1) /\ j \div 2 \in 0..(h - 1)
    BY <1>6
  <1>10. ASSUME NEW d \in Nat \ {0}, h % (2 * d) = 0
         PROVE  Digit(i \div 2, d) = Digit(j \div 2, d)
    <2> DEFINE e == 2 * d
               f == 2 * e
               q == h \div e
    <2>1. e \in Nat \ {0} /\ f \in Nat \ {0} /\ h % e = 0
      BY <1>10
    <2>2. q \in Int /\ h = q * e
      <3> HIDE DEF e
      <3> QED BY <2>1, <1>6, Divides, Division
    <2> HIDE DEF q
    <2>3. m = q * f
      BY <1>6, <2>2
    <2>4. m % f = 0
      <3>1. m \in Int /\ f \in Nat \ {0} /\ q \in Int /\ m = q * f
        BY <2>1, <2>2, <2>3, <1>3
      <3> HIDE DEF f, T
      <3> QED BY ONLY <3>1, Divides
    <2>5. Digit(i, e) = Digit(j, e)
      <3> HIDE DEF e
      <3> QED BY <2>1, <2>4, <1>4
    <2> QED BY <2>5, DigitHalf
  <1>11. h \in T
    BY <1>6, <1>8, <1>9, <1>10
  <1> QED BY <1>2, <1>6, <1>11

\* The carry of make_bitrev.
Row(n, f, i) == [j \in 0..n |-> IF i <= j /\ i > 0 THEN f[i \div 2][j - i] ELSE j + i]
Carried(n) == CHOOSE f : f = [i \in 0..n |-> Row(n, f, i)]

\* The recursion of the carry is met at every place.
LEMMA CarriedIs ==
    ASSUME NEW n \in Nat, NEW i \in 0..n, NEW j \in 0..n
    PROVE  Carried(n)[i][j] = IF i <= j /\ i > 0 THEN Carried(n)[i \div 2][j - i] ELSE j + i
  <1> DEFINE T == {m \in Nat : \E f : \A l \in 0..m : f[l] = Row(n, f, l)}
  <1>1. 0 \in T
    <2> DEFINE f == [l \in 0..0 |-> [h \in 0..n |-> h + l]]
    <2>1. \A l \in 0..0 : f[l] = Row(n, f, l)
      BY DEF Row
    <2> QED BY <2>1
  <1>2. ASSUME NEW m \in Nat, m \in T PROVE m + 1 \in T
    <2>1. PICK f : \A l \in 0..m : f[l] = Row(n, f, l)
      BY <1>2
    <2> DEFINE g == [l \in 0..(m + 1) |-> IF l = m + 1 THEN Row(n, f, m + 1) ELSE f[l]]
    <2>2. \A l \in 0..(m + 1) : l > 0 => g[l \div 2] = f[l \div 2]
      OBVIOUS
    <2>3. \A l \in 0..(m + 1) : Row(n, g, l) = Row(n, f, l)
      <3> HIDE DEF g
      <3> QED BY <2>2 DEF Row
    <2>4. \A l \in 0..(m + 1) : g[l] = Row(n, f, l)
      BY <2>1
    <2>5. \A l \in 0..(m + 1) : g[l] = Row(n, g, l)
      BY <2>3, <2>4
    <2> HIDE DEF g
    <2> QED BY <2>5
  <1>3. Nat \subseteq T
    <2> HIDE DEF T
    <2> QED BY <1>1, <1>2, Induction
  <1>4. PICK f : \A l \in 0..n : f[l] = Row(n, f, l)
    BY <1>3
  <1> DEFINE g == [l \in 0..n |-> f[l]]
             F == Carried(n)
  <1>5. \A l \in 0..n : l > 0 => g[l \div 2] = f[l \div 2]
    OBVIOUS
  <1>6. \A l \in 0..n : g[l] = f[l]
    OBVIOUS
  <1>7. g = [l \in 0..n |-> g[l]]
    OBVIOUS
  <1> HIDE DEF g
  <1>8. \A l \in 0..n : Row(n, g, l) = Row(n, f, l)
    BY <1>5 DEF Row
  <1>9. g = [l \in 0..n |-> Row(n, g, l)]
    BY <1>4, <1>6, <1>7, <1>8
  <1>10. F = [l \in 0..n |-> Row(n, F, l)]
    BY <1>9 DEF Carried
  <1> HIDE DEF F
  <1>11. F[i] = Row(n, F, i)
    BY <1>10
  <1>12. F[i][j] = IF i <= j /\ i > 0 THEN F[i \div 2][j - i] ELSE j + i
    BY <1>11 DEF Row
  <1> QED BY <1>12 DEF F

\* r counts to m with the digits reversed, as long as the carry does.
Reversal(n, m, r) ==
    /\ r \in [0..(m - 1) -> 0..(m - 1)]
    /\ r[0] = 0
    /\ \A i \in 0..(m - 2) : Carried(n)[m \div 2][r[i]] = r[i + 1]
    /\ \A d, e \in Nat \ {0} :
           m = 2 * (d * e) => \A i \in 0..(m - 1) : Digit(r[i], d) = Digit(i, e)
    /\ \A d, e \in Nat \ {0} :
           m = 2 * (d * e) => \A b \in 0..(e - 1) : r[(2 * b + 1) * d] = r[2 * b * d] + e
    /\ \A d, e \in Nat \ {0} : m = d * e => \A b \in 0..(e - 1) : r[b * d] \in 0..(e - 1)

\* With no digits there is nothing to reverse.
LEMMA ReversalOne ==
    ASSUME NEW n
    PROVE  \E r : Reversal(n, 1, r)
  <1> DEFINE r == [i \in 0..(1 - 1) |-> 0]
  <1>1. r \in [0..(1 - 1) -> 0..(1 - 1)] /\ r[0] = 0 /\ 0..(1 - 2) = {}
    OBVIOUS
  <1>2. \A d, e \in Nat \ {0} : 1 # 2 * (d * e)
    <2> TAKE d \in Nat \ {0}, e \in Nat \ {0}
    <2>1. d * e \in Int
      OBVIOUS
    <2> DEFINE c == d * e
    <2>2. c \in Int
      BY <2>1
    <2> HIDE DEF c
    <2>3. 1 # 2 * c
      BY <2>2
    <2> QED BY <2>3 DEF c
  <1>4. \A d, e \in Nat \ {0} : 1 = d * e => \A b \in 0..(e - 1) : r[b * d] \in 0..(e - 1)
    <2> TAKE d \in Nat \ {0}, e \in Nat \ {0}
    <2>1. 1 = d * e => e = 1
      <3>1. e >= 2 => d * e >= 2
        <4>1. d * e >= 1 * e
          OBVIOUS
        <4> QED BY <4>1
      <3> QED BY <3>1
    <2>2. r[0 * d] \in 0..(1 - 1)
      <3>1. 0 * d = 0
        OBVIOUS
      <3> QED BY <3>1
    <2> HIDE DEF r
    <2> QED BY <2>1, <2>2
  <1> HIDE DEF r
  <1>3. Reversal(n, 1, r)
    BY <1>1, <1>2, <1>4 DEF Reversal
  <1> QED BY <1>3

\* One more digit: the last one of the count comes first.
LEMMA ReversalDouble ==
    ASSUME NEW n \in Nat, NEW m, Power(m), 2 * m <= n, NEW r, Reversal(n, m, r)
    PROVE  Reversal(n, 2 * m, [i \in 0..(2 * m - 1) |-> (i % 2) * m + r[i \div 2]])
  <1> DEFINE M == 2 * m
             s == [i \in 0..(M - 1) |-> (i % 2) * m + r[i \div 2]]
  <1>1. m \in Nat \ {0}
    BY DEF Power
  <1>2. \A i \in 0..(m - 1) : r[i] \in 0..(m - 1)
    BY DEF Reversal
  <1>3. \A u \in 0..(m - 1) : /\ 2 * u \in 0..(M - 1) /\ s[2 * u] = r[u]
                              /\ 2 * u + 1 \in 0..(M - 1) /\ s[2 * u + 1] = m + r[u]
    <2> TAKE u \in 0..(m - 1)
    <2>1. /\ 2 * u \in 0..(M - 1) /\ (2 * u) % 2 = 0 /\ (2 * u) \div 2 = u
          /\ 2 * u + 1 \in 0..(M - 1) /\ (2 * u + 1) % 2 = 1 /\ (2 * u + 1) \div 2 = u
      BY <1>1
    <2>2. r[u] \in Int /\ 0 * m + r[u] = r[u] /\ 1 * m + r[u] = m + r[u]
      BY <1>1, <1>2
    <2> QED BY <2>1, <2>2
  <1>4. \A i \in 0..(M - 1) : \E u \in 0..(m - 1) : /\ (i = 2 * u \/ i = 2 * u + 1)
                                                    /\ i \div 2 = u
    <2> TAKE i \in 0..(M - 1)
    <2>1. i \div 2 \in 0..(m - 1) /\ (i = 2 * (i \div 2) \/ i = 2 * (i \div 2) + 1)
      BY <1>1
    <2> QED BY <2>1
  <1>5. s = [i \in 0..(M - 1) |-> s[i]]
    OBVIOUS
  <1> HIDE DEF s
  <1>6. s \in [0..(M - 1) -> 0..(M - 1)]
    <2>1. \A i \in 0..(M - 1) : s[i] \in 0..(M - 1)
      <3> TAKE i \in 0..(M - 1)
      <3>1. PICK u \in 0..(m - 1) : i = 2 * u \/ i = 2 * u + 1
        BY <1>4
      <3>2. s[i] = r[u] \/ s[i] = m + r[u]
        BY <3>1, <1>3
      <3>3. r[u] \in 0..(m - 1)
        BY <1>2
      <3> QED BY <3>2, <3>3, <1>1
    <2> QED BY <1>5, <2>1
  <1>7. s[0] = 0
    <2>1. 0 \in 0..(m - 1) /\ 2 * 0 = 0
      BY <1>1
    <2>2. s[2 * 0] = r[0]
      BY <1>3, <2>1
    <2> QED BY <2>1, <2>2 DEF Reversal
  <1>8. ASSUME NEW i \in 0..(M - 2) PROVE Carried(n)[M \div 2][s[i]] = s[i + 1]
    <2>5. i \in 0..(M - 1)
      BY <1>1
    <2>1. PICK u \in 0..(m - 1) : i = 2 * u \/ i = 2 * u + 1
      BY <1>4, <2>5
    <2>2. M \div 2 = m /\ m \in 0..n /\ r[u] \in 0..(m - 1) /\ r[u] \in 0..n /\ m + r[u] \in 0..n
      BY <1>1, <1>2
    <2>3. CASE i = 2 * u
      <3>1. s[i] = r[u] /\ s[i + 1] = m + r[u]
        BY <1>3, <2>3
      <3>2. Carried(n)[m][r[u]] = r[u] + m
        <4> DEFINE j == r[u]
        <4>1. j \in 0..n /\ ~ (m <= j) /\ j + m = m + j
          BY <2>2, <1>1
        <4> HIDE DEF j
        <4>2. Carried(n)[m][j] = j + m
          BY <4>1, <2>2, CarriedIs
        <4> QED BY <4>2 DEF j
      <3>3. r[u] + m = m + r[u]
        BY <2>2, <1>1
      <3> QED BY <3>1, <3>2, <3>3, <2>2
    <2>4. CASE i = 2 * u + 1
      <3>1. u + 1 \in 0..(m - 1) /\ u \in 0..(m - 2) /\ i + 1 = 2 * (u + 1)
        BY <2>4, <1>1
      <3>2. s[i] = m + r[u] /\ s[i + 1] = r[u + 1]
        BY <1>3, <2>4, <3>1
      <3>3. Carried(n)[m][m + r[u]] = Carried(n)[m \div 2][r[u]]
        <4> DEFINE j == m + r[u]
        <4>1. j \in 0..n /\ m <= j /\ m > 0 /\ j - m = r[u]
          BY <2>2, <1>1
        <4> HIDE DEF j
        <4>2. Carried(n)[m][j] = Carried(n)[m \div 2][j - m]
          BY <4>1, <2>2, CarriedIs
        <4> QED BY <4>1, <4>2 DEF j
      <3>4. Carried(n)[m \div 2][r[u]] = r[u + 1]
        BY <3>1 DEF Reversal
      <3> QED BY <3>2, <3>3, <3>4, <2>2
    <2> QED BY <2>1, <2>3, <2>4
  <1>9. ASSUME NEW d \in Nat \ {0}, NEW e \in Nat \ {0}, m = d * e PROVE m % e = 0 /\ m % d = 0
    <2>1. m = e * d
      BY <1>9
    <2> QED BY <1>1, <1>9, <2>1, Divides
  <1>10. ASSUME NEW d \in Nat \ {0}, NEW e \in Nat \ {0}, M = 2 * (d * e) PROVE m = d * e
    <2> DEFINE c == d * e
    <2>1. c \in Int /\ 2 * m = 2 * c
      BY <1>10
    <2> HIDE DEF c
    <2>2. m = c
      BY <2>1, <1>1
    <2> QED BY <2>2 DEF c
  <1>11. ASSUME NEW d \in Nat \ {0}, NEW e \in Nat \ {0}, M = 2 * (d * e), NEW i \in 0..(M - 1)
         PROVE  Digit(s[i], d) = Digit(i, e)
    <2>1. m = d * e /\ m % e = 0
      BY <1>9, <1>10, <1>11
    <2>2. PICK u \in 0..(m - 1) : (i = 2 * u \/ i = 2 * u + 1) /\ i \div 2 = u
      BY <1>4
    <2>3. r[u] \in 0..(m - 1)
      BY <1>2
    <2>4. CASE e = 1
      <3>1. d = m
        BY <2>1, <2>4
      <3>2. Digit(i, 1) = i % 2
        BY DEF Digit
      <3> DEFINE j == r[u]
      <3>3. j \div m = 0 /\ (m + j) \div m = 1
        <4>1. j \in 0..(m - 1) /\ j = 0 * m + j /\ m + j = 1 * m + j /\ j \in Int /\ m + j \in Int
          BY <1>1, <2>3
        <4> DEFINE a == m + j
        <4>2. a = 1 * m + j /\ a \in Int
          BY <4>1
        <4> HIDE DEF j, a
        <4>3. j \div m = 0 /\ a \div m = 1
          BY <1>1, <4>1, <4>2, DivisionOf
        <4> QED BY <4>3 DEF a
      <3>4. i = 2 * u => i % 2 = 0 /\ s[i] = j
        BY <1>3
      <3>5. i = 2 * u + 1 => i % 2 = 1 /\ s[i] = m + j
        BY <1>3
      <3>6. 0 % 2 = 0 /\ 1 % 2 = 1
        OBVIOUS
      <3> QED BY <2>2, <2>4, <3>1, <3>2, <3>3, <3>4, <3>5, <3>6 DEF Digit
    <2>5. CASE e # 1
      <3> DEFINE f == e \div 2
      <3>1. e = 2 * f /\ f \in Nat \ {0}
        <4>2. Power(m) /\ m % e = 0 /\ e > 1
          BY <2>1, <2>5
        <4>1. e % 2 = 0
          BY ONLY <4>2, PowerDivisor, e \in Nat \ {0}
        <4> QED BY <4>1
      <3> HIDE DEF f
      <3>2. m = 2 * (d * f)
        BY <2>1, <3>1
      <3>3. Digit(r[u], d) = Digit(u, f)
        BY <3>1, <3>2 DEF Reversal
      <3>4. Digit(i, e) = Digit(u, f)
        BY <3>1, <2>2, DigitHalf, i \in Nat
      <3>5. Digit(s[i], d) = Digit(r[u], d)
        <4>1. CASE i = 2 * u
          BY <4>1, <1>3
        <4>2. CASE i = 2 * u + 1
          <5> DEFINE j == r[u]
                     a == m + j
                     p == j \div d
                     t == j % d
                     c == 2 * f + p
          <5>2. j \in Int /\ a \in Int
            BY <2>3, <1>1
          <5> HIDE DEF j
          <5>1. p \in Int /\ t \in 0..(d - 1) /\ j = p * d + t
            BY ONLY <5>2, Division, d \in Nat \ {0}
          <5> HIDE DEF p, t
          <5>3. a = c * d + t /\ c \in Int /\ c % 2 = p % 2
            BY <5>1, <3>1, <3>2
          <5> HIDE DEF a, c
          <5>4. a \div d = c
            BY <5>1, <5>2, <5>3, DivisionOf
          <5>5. Digit(a, d) = Digit(j, d)
            BY <5>3, <5>4 DEF Digit, p
          <5>6. s[i] = a
            BY <4>2, <1>3 DEF a, j
          <5> QED BY <5>5, <5>6 DEF j
        <4> QED BY <2>2, <4>1, <4>2
      <3> QED BY <3>3, <3>4, <3>5
    <2> QED BY <2>4, <2>5
  <1>12. ASSUME NEW d \in Nat \ {0}, NEW e \in Nat \ {0}, M = 2 * (d * e), NEW b \in 0..(e - 1)
         PROVE  s[(2 * b + 1) * d] = s[2 * b * d] + e
    <2>1. m = d * e /\ m % d = 0
      BY <1>9, <1>10, <1>12
    <2>2. CASE d = 1
      <3>1. m = e /\ (2 * b + 1) * d = 2 * b + 1 /\ 2 * b * d = 2 * b
        BY <2>1, <2>2
      <3>2. s[2 * b] = r[b] /\ s[2 * b + 1] = m + r[b] /\ r[b] \in Int
        BY <1>2, <1>3, <3>1
      <3>3. m + r[b] = r[b] + e
        BY <3>1, <3>2
      <3> QED BY <3>1, <3>2, <3>3
    <2>3. CASE d # 1
      <3> DEFINE c == d \div 2
                 u == (2 * b + 1) * c
                 v == 2 * b * c
      <3>1. d = 2 * c /\ c \in Nat \ {0}
        <4>2. Power(m) /\ m % d = 0 /\ d > 1
          BY <2>1, <2>3
        <4>1. d % 2 = 0
          BY ONLY <4>2, PowerDivisor, d \in Nat \ {0}
        <4> QED BY <4>1
      <3> HIDE DEF c
      <3>2. m = 2 * (c * e)
        BY <2>1, <3>1
      <3>3. r[u] = r[v] + e
        BY <3>1, <3>2 DEF Reversal
      <3>4. (2 * b + 1) * d = 2 * u /\ 2 * b * d = 2 * v /\ u = v + c /\ v >= 0 /\ u \in Int /\ v \in Int
        BY <3>1
      <3>5. u < m
        <4>1. (b + 1) * c <= e * c
          BY <3>1
        <4>2. m = 2 * (e * c) /\ u = 2 * ((b + 1) * c) - c
          BY <3>1, <3>2
        <4> DEFINE x == (b + 1) * c
                   y == e * c
        <4>3. x \in Int /\ y \in Int /\ x <= y /\ m = 2 * y /\ u = 2 * x - c
          BY <3>1, <4>1, <4>2
        <4> HIDE DEF x, y, u
        <4> QED BY <4>3, <3>1
      <3> HIDE DEF u, v
      <3>6. u \in 0..(m - 1) /\ v \in 0..(m - 1)
        BY <3>1, <3>4, <3>5, <1>1
      <3>7. s[2 * u] = r[u] /\ s[2 * v] = r[v]
        BY <3>6, <1>3
      <3> QED BY <3>3, <3>4, <3>7
    <2> QED BY <2>2, <2>3
  <1>14. ASSUME NEW d \in Nat \ {0}, NEW e \in Nat \ {0}, M = d * e, NEW b \in 0..(e - 1)
         PROVE  s[b * d] \in 0..(e - 1)
    <2>1. CASE d = 1
      <3>1. e = M /\ b * d = b
        BY <2>1, <1>14
      <3> QED BY <3>1, <1>6
    <2>2. CASE d # 1
      <3> DEFINE c == d \div 2
                 u == b * c
      <3>1. d = 2 * c /\ c \in Nat \ {0}
        <4>1. Power(M) /\ M % d = 0 /\ d > 1
          <5>1. Power(M)
            BY PowerDouble
          <5>2. M = e * d
            BY <1>14
          <5> HIDE DEF M
          <5>3. M \in Nat \ {0}
            BY <5>1 DEF Power
          <5>4. M % d = 0
            BY <5>2, <5>3, Divides
          <5> QED BY <5>1, <5>4, <2>2
        <4> HIDE DEF M
        <4>2. d % 2 = 0
          BY ONLY <4>1, PowerDivisor, d \in Nat \ {0}
        <4> QED BY <4>2
      <3> HIDE DEF c
      <3>2. m = c * e
        <4> DEFINE x == c * e
        <4>1. x \in Int /\ 2 * m = 2 * x
          BY <3>1, <1>14
        <4> HIDE DEF x
        <4>2. m = x
          BY <4>1, <1>1
        <4> QED BY <4>2 DEF x
      <3>3. r[u] \in 0..(e - 1)
        BY <3>1, <3>2 DEF Reversal
      <3>4. b * d = 2 * u /\ u \in Nat
        BY <3>1
      <3>5. u \in 0..(m - 1)
        <4>1. b * c <= (e - 1) * c
          BY <3>1
        <4>2. (e - 1) * c = c * e - c
          BY <3>1
        <4> QED BY <4>1, <4>2, <3>1, <3>2, <3>4
      <3> HIDE DEF u
      <3>6. s[2 * u] = r[u]
        BY <3>5, <1>3
      <3> QED BY <3>3, <3>4, <3>6
    <2> QED BY <2>1, <2>2
  <1>13. Reversal(n, M, s)
    <2> HIDE DEF M
    <2> QED BY <1>6, <1>7, <1>8, <1>11, <1>12, <1>14 DEF Reversal
  <1> QED BY <1>13 DEF s

\* make_bitrev's table reverses the digits, for every power of two.
LEMMA BitrevIs ==
    ASSUME NEW n, Power(n)
    PROVE  Reversal(n, n, make_bitrev(n))
  <1>1. n \in Nat \ {0} /\ n \in Nat
    BY DEF Power
  <1> DEFINE T == {m \in Nat : Power(m) /\ m <= n /\ ~ \E r : Reversal(n, m, r)}
  <1>2. T = {}
    <2> SUFFICES ASSUME T # {} PROVE FALSE
      OBVIOUS
    <2>1. PICK m \in T : \A l \in T : m <= l
      <3>1. T \subseteq Nat
        OBVIOUS
      <3> HIDE DEF T
      <3> QED BY <3>1, LeastNatural
    <2>2. m \in Nat \ {0} /\ Power(m) /\ m <= n /\ ~ \E r : Reversal(n, m, r)
      BY <2>1 DEF Power
    <2>3. CASE m = 1
      BY <2>2, <2>3, ReversalOne
    <2>4. CASE m > 1
      <3> DEFINE h == m \div 2
      <3>1. m = 2 * h /\ Power(h)
        BY <2>2, <2>4, PowerHalf
      <3> HIDE DEF h
      <3>2. h \in Nat \ {0} /\ h <= n /\ ~ (m <= h)
        BY <2>2, <3>1 DEF Power
      <3>3. PICK r : Reversal(n, h, r)
        <4>1. h \notin T
          <5> HIDE DEF T
          <5> QED BY <2>1, <3>2
        <4> QED BY <4>1, <3>1, <3>2
      <3>4. 2 * h <= n
        BY <2>2, <3>1
      <3>5. Reversal(n, 2 * h, [i \in 0..(2 * h - 1) |-> (i % 2) * h + r[i \div 2]])
        BY <1>1, <3>1, <3>3, <3>4, ReversalDouble
      <3> QED BY <2>2, <3>1, <3>5
    <2> QED BY <2>2, <2>3, <2>4
  <1>3. PICK r : Reversal(n, n, r)
    BY <1>1, <1>2
  <1> DEFINE D == 0..(n - 1)
             Def(f, i) == IF i = 0 THEN 0 ELSE Carried(n)[n \div 2][f[i - 1]]
             F == make_bitrev(n)
  <1>4. F = CHOOSE f : f = [i \in D |-> Def(f, i)]
    BY DEF make_bitrev, Carried, Row
  <1>5. /\ r \in [0..(n - 1) -> 0..(n - 1)] /\ r[0] = 0
        /\ \A i \in 0..(n - 2) : Carried(n)[n \div 2][r[i]] = r[i + 1]
    BY <1>3 DEF Reversal
  <1>6. \A i \in D : r[i] = Def(r, i)
    <2> TAKE i \in D
    <2>1. CASE i = 0
      BY <2>1, <1>5
    <2>2. CASE i # 0
      <3>1. i - 1 \in 0..(n - 2) /\ (i - 1) + 1 = i
        BY <2>2, <1>1
      <3> QED BY <3>1, <2>2, <1>5
    <2> QED BY <2>1, <2>2
  <1>7. F = [i \in D |-> Def(F, i)]
    <2>1. r = [i \in D |-> r[i]]
      BY <1>5
    <2>2. r = [i \in D |-> Def(r, i)]
      <3> HIDE DEF Def, D
      <3> QED BY <1>6, <2>1
    <2>3. \E f : f = [i \in D |-> Def(f, i)]
      BY <2>2
    <2> HIDE DEF Def, D, F
    <2> QED BY <1>4, <2>3
  <1> HIDE DEF F
  <1>8. \A i \in D : F[i] = r[i]
    <2> DEFINE W == {i \in D : F[i] # r[i]}
    <2> SUFFICES ASSUME W # {} PROVE FALSE
      OBVIOUS
    <2>1. PICK i \in W : \A d \in W : i <= d
      <3>1. W \subseteq Nat
        BY <1>1
      <3> HIDE DEF W
      <3> QED BY <3>1, LeastNatural
    <2>2. i \in D /\ F[i] # r[i]
      BY <2>1
    <2>3. F[i] = Def(F, i) /\ r[i] = Def(r, i)
      <3> HIDE DEF Def, D
      <3> QED BY <2>2, <1>6, <1>7
    <2>4. i # 0
      BY <2>2, <2>3
    <2>5. i - 1 \in D /\ ~ (i <= i - 1)
      BY <2>2, <2>4, <1>1
    <2>6. F[i - 1] = r[i - 1]
      <3> HIDE DEF D
      <3> QED BY <2>5, <2>1
    <2> QED BY <2>2, <2>3, <2>6
  <1>9. F = r
    <2>1. r = [i \in D |-> r[i]] /\ F = [i \in D |-> F[i]]
      <3>1. r = [i \in D |-> r[i]]
        BY <1>5
      <3>2. F = [i \in D |-> F[i]]
        <4> HIDE DEF Def, D
        <4> QED BY <1>7
      <3> QED BY <3>1, <3>2
    <2> HIDE DEF D
    <2> QED BY <2>1, <1>8
  <1> QED BY <1>3, <1>9 DEF F

\* It is its own inverse, so the swaps can be made in place.
LEMMA BitrevType ==
    ASSUME NEW n, Power(n), NEW i \in 0..(n - 1)
    PROVE  /\ make_bitrev(n)[i] \in 0..(n - 1)
           /\ make_bitrev(n)[make_bitrev(n)[i]] = i
  <1> DEFINE r == make_bitrev(n)
  <1>1. Reversal(n, n, r)
    BY BitrevIs
  <1> HIDE DEF r
  <1>2. n \in Nat \ {0} /\ \A a \in 0..(n - 1) : r[a] \in 0..(n - 1)
    BY <1>1 DEF Reversal, Power
  <1> DEFINE j == r[i]
             l == r[j]
  <1>3. j \in 0..(n - 1) /\ l \in 0..(n - 1)
    BY <1>2
  <1> HIDE DEF j, l
  <1>4. ASSUME NEW d \in Nat \ {0}, n % (2 * d) = 0 PROVE Digit(l, d) = Digit(i, d)
    <2> DEFINE c == 2 * d
               e == n \div c
    <2>1. c \in Nat \ {0} /\ n % c = 0
      BY <1>4
    <2>2. e \in Int /\ n = e * c
      <3> HIDE DEF c
      <3> QED BY <2>1, <1>2, Divides, Division
    <2> HIDE DEF e
    <2>3. n = 2 * (d * e) /\ n = 2 * (e * d) /\ e \in Nat \ {0}
      <3>1. n = 2 * (d * e) /\ n = 2 * (e * d)
        BY <2>2
      <3>2. e <= 0 => e * c <= 0
        BY <2>1, <2>2
      <3> QED BY <3>1, <3>2, <1>2, <2>2
    <2>4. \A a, b \in Nat \ {0} :
           n = 2 * (a * b) => \A u \in 0..(n - 1) : Digit(r[u], a) = Digit(u, b)
      BY <1>1 DEF Reversal
    <2>5. Digit(l, d) = Digit(j, e)
      BY <2>3, <2>4, <1>3 DEF l
    <2>6. Digit(j, e) = Digit(i, d)
      BY <2>3, <2>4 DEF j
    <2> QED BY <2>5, <2>6
  <1>5. l = i
    BY <1>3, <1>4, SameDigits
  <1> QED BY <1>3, <1>5 DEF j, l, r

\* The swaps put every sample where its reversed digits say.
THEOREM BitReversedIs ==
    ASSUME NEW n, Power(n), NEW x, x = [i \in 0..(n - 1) |-> x[i]]
    PROVE  BitReversed(n, make_bitrev(n), x) = [i \in 0..(n - 1) |-> x[make_bitrev(n)[i]]]
  <1> DEFINE r == make_bitrev(n)
             D == 0..(n - 1)
             Def(f, p) ==
                IF p = 0 THEN x
                ELSE LET buffer == f[p - 1]
                         i == p - 1
                         j == r[i]
                     IN  IF i < j THEN [buffer EXCEPT ![i] = buffer[j], ![j] = buffer[i]]
                         ELSE buffer
             Half2(p) == [i \in D |-> IF i < p \/ r[i] < p THEN x[r[i]] ELSE x[i]]
             g == [p \in 0..n |-> Half2(p)]
             F == CHOOSE f : f = [p \in 0..n |-> Def(f, p)]
  <1>1. n \in Nat \ {0} /\ \A i \in D : r[i] \in D /\ r[r[i]] = i
    BY BitrevType DEF Power
  <1> HIDE DEF r
  <1>2. BitReversed(n, r, x) = F[n]
    BY DEF BitReversed
  <1>3. \A p \in 0..n : g[p] = Def(g, p)
    <2> TAKE p \in 0..n
    <2>1. CASE p = 0
      <3>1. \A i \in D : ~ (i < p \/ r[i] < p)
        BY <2>1, <1>1
      <3>2. g[p] = [i \in D |-> x[i]]
        BY <3>1
      <3> QED BY <2>1, <3>2
    <2>2. CASE p # 0
      <3> DEFINE a == p - 1
                 b == r[a]
                 u == Half2(a)
      <3>1. a \in D /\ a \in 0..n /\ p = a + 1 /\ b \in D /\ r[b] = a
        BY <2>2, <1>1
      <3>2. g[a] = u /\ g[p] = Half2(p)
        BY <3>1
      <3>3. Def(g, p) = IF a < b THEN [u EXCEPT ![a] = u[b], ![b] = u[a]] ELSE u
        <4> HIDE DEF g, u
        <4> QED BY <2>2, <3>2
      <3> HIDE DEF a, b
      <3>4. \A i \in D : u[i] = IF i < a \/ r[i] < a THEN x[r[i]] ELSE x[i]
        OBVIOUS
      <3>5. u = [i \in D |-> u[i]]
        OBVIOUS
      <3>6. \A i \in D : Half2(p)[i] = IF i < p \/ r[i] < p THEN x[r[i]] ELSE x[i]
        OBVIOUS
      <3>7. Half2(p) = [i \in D |-> Half2(p)[i]]
        OBVIOUS
      <3>8. \A i \in D : r[i] = a => i = b
        BY <1>1 DEF b
      <3>9. r[a] = b
        BY DEF b
      <3> DEFINE w == Half2(p)
      <3> HIDE DEF u, w
      <3>10. CASE a < b
        <4> DEFINE v == [u EXCEPT ![a] = u[b], ![b] = u[a]]
        <4>1. v = [i \in D |-> v[i]]
          BY <3>5
        <4>2. \A i \in D : v[i] = IF i = b THEN u[a] ELSE IF i = a THEN u[b] ELSE u[i]
          BY <3>5, <3>1, <3>10
        <4> HIDE DEF v
        <4>5. a \in Int /\ b \in Int /\ ~ (a < a) /\ ~ (b < a)
          BY <3>1, <3>10, <1>1
        <4>6. ~ (r[a] < a) /\ ~ (r[b] < a)
          BY <4>5, <3>1, <3>9
        <4>3. u[a] = x[a] /\ u[b] = x[b]
          BY <4>5, <4>6, <3>1, <3>4
        <4>4. \A i \in D : v[i] = w[i]
          <5> TAKE i \in D
          <5>1. i \in Int /\ r[i] \in Int /\ a \in Int /\ b \in Int
            BY <1>1, <3>1
          <5>2. w[i] = IF i < p \/ r[i] < p THEN x[r[i]] ELSE x[i]
            BY <3>6 DEF w
          <5>3. CASE i = a
            BY <5>2, <5>3, <4>2, <4>3, <3>1, <3>9, <3>10, <5>1
          <5>4. CASE i = b
            BY <5>2, <5>4, <4>2, <4>3, <3>1, <3>9, <3>10, <5>1
          <5>5. CASE i # a /\ i # b
            <6>1. r[i] # a
              BY <5>5, <3>8
            <6>2. (i < p <=> i < a) /\ (r[i] < p <=> r[i] < a)
              BY <6>1, <5>5, <5>1, <3>1
            <6> QED BY <6>2, <5>2, <5>5, <4>2, <3>4
          <5> QED BY <5>3, <5>4, <5>5
        <4>7. v = w
          BY <4>1, <4>4, <3>7 DEF w
        <4> QED BY <4>7, <3>2, <3>3, <3>10 DEF v, w
      <3>11. CASE ~ (a < b)
        <4>1. \A i \in D : u[i] = w[i]
          <5> TAKE i \in D
          <5>1. i \in Int /\ r[i] \in Int /\ a \in Int /\ b \in Int
            BY <1>1, <3>1
          <5>2. w[i] = IF i < p \/ r[i] < p THEN x[r[i]] ELSE x[i]
            BY <3>6 DEF w
          <5>3. CASE i = a
            <6>1. b < a \/ b = a
              BY <5>1, <3>11
            <6> QED BY <6>1, <5>2, <5>3, <3>4, <3>1, <3>9, <5>1
          <5>4. CASE i = b /\ i # a
            BY <5>2, <5>4, <3>4, <3>1, <3>11, <5>1
          <5>5. CASE i # a /\ i # b
            <6>1. r[i] # a
              BY <5>5, <3>8
            <6>2. (i < p <=> i < a) /\ (r[i] < p <=> r[i] < a)
              BY <6>1, <5>5, <5>1, <3>1
            <6> QED BY <6>2, <5>2, <3>4
          <5> QED BY <5>3, <5>4, <5>5
        <4>2. u = w
          BY <4>1, <3>5, <3>7 DEF w
        <4> QED BY <4>2, <3>2, <3>3, <3>11 DEF w
      <3> QED BY <3>10, <3>11
    <2> QED BY <2>1, <2>2
  <1>4. F = [p \in 0..n |-> Def(F, p)]
    <2>1. g = [p \in 0..n |-> Def(g, p)]
      <3>1. g = [p \in 0..n |-> g[p]]
        OBVIOUS
      <3> HIDE DEF Def, g
      <3> QED BY <1>3, <3>1
    <2>2. \E f : f = [p \in 0..n |-> Def(f, p)]
      BY <2>1
    <2> HIDE DEF Def, g
    <2> QED BY <2>2
  <1> HIDE DEF F
  <1>5. \A p \in 0..n : F[p] = g[p]
    <2> DEFINE W == {p \in 0..n : F[p] # g[p]}
    <2> SUFFICES ASSUME W # {} PROVE FALSE
      OBVIOUS
    <2>1. PICK p \in W : \A d \in W : p <= d
      <3>1. W \subseteq Nat
        BY <1>1
      <3> HIDE DEF W
      <3> QED BY <3>1, LeastNatural
    <2>2. p \in 0..n /\ F[p] # g[p]
      BY <2>1
    <2>3. F[p] = Def(F, p) /\ g[p] = Def(g, p)
      <3> HIDE DEF Def, g
      <3> QED BY <2>2, <1>3, <1>4
    <2>4. p # 0
      BY <2>2, <2>3
    <2>5. p - 1 \in 0..n /\ ~ (p <= p - 1)
      BY <2>2, <2>4, <1>1
    <2>6. F[p - 1] = g[p - 1]
      <3> HIDE DEF g
      <3> QED BY <2>5, <2>1
    <2>7. Def(F, p) = Def(g, p)
      <3> HIDE DEF g
      <3> QED BY <2>6
    <2> QED BY <2>2, <2>3, <2>7
  <1>6. F[n] = Half2(n)
    <2>1. n \in 0..n
      BY <1>1
    <2>2. g[n] = Half2(n)
      BY <2>1
    <2> HIDE DEF g
    <2> QED BY <2>1, <2>2, <1>5
  <1>7. \A i \in D : i < n
    BY <1>1
  <1>8. Half2(n) = [i \in D |-> x[r[i]]]
    BY <1>7
  <1> QED BY <1>2, <1>6, <1>8 DEF r

-----------------------------------------------------------------------------
(* Sums.                                                                   *)

\* The terms of a sum of n.
Terms(f, n) == \A i \in 0..(n - 1) : f[i] \in Int

\* What adds up term by term is the sum.
LEMMA SumFollows ==
    ASSUME NEW n \in Nat, NEW f, NEW g, g[0] = 0, \A i \in 1..n : g[i] = g[i - 1] + f[i - 1]
    PROVE  Sum(f, n) = g[n]
  <1> DEFINE Def(s, i) == IF i = 0 THEN 0 ELSE s[i - 1] + f[i - 1]
             h == [i \in 0..n |-> g[i]]
             F == CHOOSE s : s = [i \in 0..n |-> Def(s, i)]
  <1>1. Sum(f, n) = F[n]
    BY DEF Sum
  <1>2. \A i \in 0..n : h[i] = g[i]
    OBVIOUS
  <1>3. \A i \in 0..n : h[i] = Def(h, i)
    <2> TAKE i \in 0..n
    <2>1. CASE i = 0
      BY <2>1
    <2>2. CASE i # 0
      <3>1. i \in 1..n /\ i - 1 \in 0..n
        BY <2>2
      <3> QED BY <3>1, <2>2
    <2> QED BY <2>1, <2>2
  <1>4. F = [i \in 0..n |-> Def(F, i)]
    <2>1. h = [i \in 0..n |-> Def(h, i)]
      <3>1. h = [i \in 0..n |-> h[i]]
        OBVIOUS
      <3> HIDE DEF Def, h
      <3> QED BY <1>3, <3>1
    <2>2. \E s : s = [i \in 0..n |-> Def(s, i)]
      BY <2>1
    <2> HIDE DEF Def, h
    <2> QED BY <2>2
  <1> HIDE DEF F
  <1>5. \A i \in 0..n : F[i] = h[i]
    <2> DEFINE W == {i \in 0..n : F[i] # h[i]}
    <2> SUFFICES ASSUME W # {} PROVE FALSE
      OBVIOUS
    <2>1. PICK i \in W : \A d \in W : i <= d
      <3>1. W \subseteq Nat
        OBVIOUS
      <3> HIDE DEF W
      <3> QED BY <3>1, LeastNatural
    <2>2. i \in 0..n /\ F[i] # h[i]
      BY <2>1
    <2>3. F[i] = Def(F, i) /\ h[i] = Def(h, i)
      <3> HIDE DEF Def, h
      <3> QED BY <2>2, <1>3, <1>4
    <2>4. i # 0
      BY <2>2, <2>3
    <2>5. i - 1 \in 0..n /\ ~ (i <= i - 1)
      BY <2>2, <2>4
    <2>6. F[i - 1] = h[i - 1]
      <3> HIDE DEF h
      <3> QED BY <2>5, <2>1
    <2>7. Def(F, i) = Def(h, i)
      <3> HIDE DEF h
      <3> QED BY <2>6
    <2> QED BY <2>2, <2>3, <2>7
  <1> QED BY <1>1, <1>2, <1>5

\* A sum exists, is a number and adds up term by term.
LEMMA SumStep ==
    ASSUME NEW n \in Nat, NEW f, Terms(f, n)
    PROVE  /\ Sum(f, 0) = 0
           /\ Sum(f, n) \in Int
           /\ \A i \in 0..(n - 1) : Sum(f, i) \in Int /\ Sum(f, i + 1) = Sum(f, i) + f[i]
  <1> DEFINE step == [i \in 1..n |-> [x \in Int |-> x + f[i - 1]]]
  <1>1. PICK g \in [0..n -> Int] : g[0] = 0 /\ \A i \in 1..n : g[i] = step[i][g[i - 1]]
    <2>1. \A i \in 1..n : i - 1 \in 0..(n - 1)
      OBVIOUS
    <2>2. step \in [1..n -> [Int -> Int]]
      BY <2>1 DEF Terms
    <2>3. step \in Rules(n, Int) /\ 0 \in Int
      BY <2>2 DEF Rules
    <2> HIDE DEF step
    <2>4. \E g \in [0..n -> Int] : Follows(g, n, 0, step)
      BY <2>3, Recursion
    <2> QED BY <2>4 DEF Follows
  <1>2. \A i \in 1..n : g[i] = g[i - 1] + f[i - 1]
    <2> TAKE i \in 1..n
    <2>1. i - 1 \in 0..n
      OBVIOUS
    <2>2. g[i - 1] \in Int
      BY <2>1, <1>1
    <2> QED BY <2>2, <1>1
  <1>3. ASSUME NEW i \in 0..n PROVE Sum(f, i) = g[i] /\ g[i] \in Int
    <2>1. \A j \in 1..i : g[j] = g[j - 1] + f[j - 1]
      BY <1>2
    <2>2. i \in Nat /\ g[0] = 0
      BY <1>1
    <2>3. Sum(f, i) = g[i]
      BY ONLY <2>1, <2>2, SumFollows
    <2> QED BY <2>3, <1>1
  <1>4. ASSUME NEW i \in 0..(n - 1)
        PROVE  Sum(f, i) \in Int /\ Sum(f, i + 1) = Sum(f, i) + f[i]
    <2>1. i \in 0..n /\ i + 1 \in 0..n /\ i + 1 \in 1..n /\ (i + 1) - 1 = i
      OBVIOUS
    <2>2. g[i + 1] = g[i] + f[i]
      BY <2>1, <1>2
    <2> QED BY <2>1, <2>2, <1>3
  <1>5. 0 \in 0..n /\ n \in 0..n
    OBVIOUS
  <1> QED BY <1>1, <1>3, <1>4, <1>5

\* The sum of the terms in even and in odd places.
LEMMA SumSplit ==
    ASSUME NEW n \in Nat, NEW f, NEW g, NEW h, Terms(f, 2 * n), Terms(g, n), Terms(h, n),
           \A i \in 0..(n - 1) : f[2 * i] = g[i] /\ f[2 * i + 1] = h[i]
    PROVE  Sum(f, 2 * n) = Sum(g, n) + Sum(h, n)
  <1> DEFINE T == {i \in Nat : i <= n => Sum(f, 2 * i) = Sum(g, i) + Sum(h, i)}
  <1>1. /\ Sum(f, 0) = 0 /\ Sum(g, 0) = 0 /\ Sum(h, 0) = 0
        /\ \A i \in 0..(2 * n - 1) : Sum(f, i) \in Int /\ Sum(f, i + 1) = Sum(f, i) + f[i]
        /\ \A i \in 0..(n - 1) : Sum(g, i) \in Int /\ Sum(g, i + 1) = Sum(g, i) + g[i]
        /\ \A i \in 0..(n - 1) : Sum(h, i) \in Int /\ Sum(h, i + 1) = Sum(h, i) + h[i]
    <2> DEFINE m == 2 * n
    <2>1. m \in Nat /\ Terms(f, m)
      OBVIOUS
    <2> HIDE DEF m
    <2>2. Sum(f, 0) = 0 /\ \A i \in 0..(m - 1) : Sum(f, i) \in Int /\ Sum(f, i + 1) = Sum(f, i) + f[i]
      BY <2>1, SumStep
    <2> QED BY <2>2, SumStep DEF m
  <1>2. 0 \in T
    <2>1. 2 * 0 = 0 /\ 0 + 0 = 0
      OBVIOUS
    <2> QED BY <1>1, <2>1
  <1>3. ASSUME NEW i \in Nat, i \in T PROVE i + 1 \in T
    <2> SUFFICES ASSUME i + 1 <= n PROVE Sum(f, 2 * (i + 1)) = Sum(g, i + 1) + Sum(h, i + 1)
      OBVIOUS
    <2>1. i \in 0..(n - 1) /\ 2 * i \in 0..(2 * n - 1) /\ 2 * i + 1 \in 0..(2 * n - 1)
          /\ (2 * i + 1) + 1 = 2 * (i + 1)
      OBVIOUS
    <2> DEFINE a == Sum(f, 2 * i)
               b == Sum(g, i)
               c == Sum(h, i)
               d == g[i]
               e == h[i]
    <2>2. a = b + c /\ a \in Int /\ b \in Int /\ c \in Int /\ d \in Int /\ e \in Int
      BY <1>1, <1>3, <2>1 DEF Terms
    <2>3. Sum(f, 2 * i + 1) = a + d /\ Sum(f, (2 * i + 1) + 1) = Sum(f, 2 * i + 1) + e
      BY <1>1, <2>1
    <2>4. Sum(g, i + 1) = b + d /\ Sum(h, i + 1) = c + e
      BY <1>1, <2>1
    <2> HIDE DEF a, b, c, d, e
    <2>5. (a + d) + e = (b + d) + (c + e)
      BY <2>2
    <2> QED BY <2>1, <2>3, <2>4, <2>5
  <1>4. Nat \subseteq T
    <2> HIDE DEF T
    <2> QED BY <1>2, <1>3, Induction
  <1> QED BY <1>4

\* Sums in the field are linear.
LEMMA SumLinear ==
    ASSUME NEW n \in Nat, NEW f, NEW g, NEW h, Terms(f, n), Terms(g, n), Terms(h, n),
           NEW c \in Int, NEW d \in Int,
           \A i \in 0..(n - 1) : Same(f[i], c * g[i] + d * h[i])
    PROVE  Same(Sum(f, n), c * Sum(g, n) + d * Sum(h, n))
  <1> DEFINE T == {i \in Nat : i <= n => Same(Sum(f, i), c * Sum(g, i) + d * Sum(h, i))}
  <1>1. /\ Sum(f, 0) = 0 /\ Sum(g, 0) = 0 /\ Sum(h, 0) = 0
        /\ \A i \in 0..(n - 1) : Sum(f, i) \in Int /\ Sum(f, i + 1) = Sum(f, i) + f[i]
        /\ \A i \in 0..(n - 1) : Sum(g, i) \in Int /\ Sum(g, i + 1) = Sum(g, i) + g[i]
        /\ \A i \in 0..(n - 1) : Sum(h, i) \in Int /\ Sum(h, i + 1) = Sum(h, i) + h[i]
    BY SumStep
  <1>2. 0 \in T
    <2>1. c * 0 + d * 0 = 0
      OBVIOUS
    <2>2. Same(0, 0)
      BY SameRefl, 0 \in Int
    <2>3. Same(Sum(f, 0), c * Sum(g, 0) + d * Sum(h, 0))
      BY <1>1, <2>1, <2>2
    <2> QED BY <2>3
  <1>3. ASSUME NEW i \in Nat, i \in T PROVE i + 1 \in T
    <2> SUFFICES ASSUME i + 1 <= n
                 PROVE  Same(Sum(f, i + 1), c * Sum(g, i + 1) + d * Sum(h, i + 1))
      OBVIOUS
    <2>1. i \in 0..(n - 1)
      OBVIOUS
    <2> DEFINE a == Sum(f, i)
               x == Sum(g, i)
               y == Sum(h, i)
               b == f[i]
               u == g[i]
               v == h[i]
               p == c * x + d * y
               q == c * u + d * v
    <2>2. a \in Int /\ x \in Int /\ y \in Int /\ b \in Int /\ u \in Int /\ v \in Int
          /\ Same(a, p) /\ Same(b, q)
      BY <1>1, <1>3, <2>1 DEF Terms
    <2>3. Sum(f, i + 1) = a + b /\ Sum(g, i + 1) = x + u /\ Sum(h, i + 1) = y + v
      BY <1>1, <2>1
    <2> HIDE DEF a, b, x, y, u, v
    <2>4. p \in Int /\ q \in Int /\ p + q = c * (x + u) + d * (y + v)
      BY <2>2
    <2> HIDE DEF p, q
    <2>5. Same(a + b, p + q)
      BY <2>2, <2>4, SameOps
    <2> QED BY <2>3, <2>4, <2>5
  <1>4. Nat \subseteq T
    <2> HIDE DEF T
    <2> QED BY <1>2, <1>3, Induction
  <1> QED BY <1>4

\* Zeroes before and after add nothing.
Within(f, n, g, a, m) ==
    /\ n \in Nat /\ a \in Nat /\ m \in Nat /\ a + m <= n
    /\ Terms(f, n) /\ Terms(g, m)
    /\ \A i \in 0..(n - 1) : i < a \/ i >= a + m => f[i] = 0
    /\ \A i \in 0..(m - 1) : f[a + i] = g[i]

\* The sum over the whole is the sum over what is not 0.
LEMMA SumWithin ==
    ASSUME NEW f, NEW n, NEW g, NEW a, NEW m, Within(f, n, g, a, m)
    PROVE  Sum(f, n) = Sum(g, m)
  <1>0. /\ n \in Nat /\ a \in Nat /\ m \in Nat /\ a + m <= n
        /\ Terms(f, n) /\ Terms(g, m)
        /\ \A i \in 0..(n - 1) : i < a \/ i >= a + m => f[i] = 0
        /\ \A i \in 0..(m - 1) : f[a + i] = g[i]
    BY DEF Within
  <1> HIDE DEF Within
  <1>1. /\ Sum(f, 0) = 0 /\ Sum(g, 0) = 0
        /\ \A i \in 0..(n - 1) : Sum(f, i) \in Int /\ Sum(f, i + 1) = Sum(f, i) + f[i]
        /\ \A i \in 0..(m - 1) : Sum(g, i) \in Int /\ Sum(g, i + 1) = Sum(g, i) + g[i]
        /\ Sum(g, m) \in Int /\ Sum(f, n) \in Int
    BY <1>0, SumStep
  <1>2. Sum(f, a) = 0
    <2> DEFINE T == {i \in Nat : i <= a => Sum(f, i) = 0}
    <2>1. 0 \in T
      BY <1>1
    <2>2. ASSUME NEW i \in Nat, i \in T PROVE i + 1 \in T
      <3> SUFFICES ASSUME i + 1 <= a PROVE Sum(f, i + 1) = 0
        OBVIOUS
      <3>1. i \in 0..(n - 1) /\ i < a
        BY <1>0
      <3>2. Sum(f, i) = 0 /\ f[i] = 0
        BY <1>0, <2>2, <3>1
      <3> QED BY <1>0, <3>1, <3>2, <1>1, 0 + 0 = 0
    <2>3. Nat \subseteq T
      <3> HIDE DEF T
      <3> QED BY <2>1, <2>2, Induction
    <2> QED BY <1>0, <2>3
  <1>3. Sum(f, a + m) = Sum(g, m)
    <2> DEFINE T == {i \in Nat : i <= m => Sum(f, a + i) = Sum(g, i)}
    <2>1. 0 \in T
      <3>1. a + 0 = a
        BY <1>0
      <3> QED BY <1>1, <1>2, <3>1
    <2>2. ASSUME NEW i \in Nat, i \in T PROVE i + 1 \in T
      <3> SUFFICES ASSUME i + 1 <= m PROVE Sum(f, a + (i + 1)) = Sum(g, i + 1)
        OBVIOUS
      <3>1. i \in 0..(m - 1) /\ a + i \in 0..(n - 1) /\ (a + i) + 1 = a + (i + 1)
        BY <1>0
      <3>2. Sum(f, a + i) = Sum(g, i) /\ f[a + i] = g[i]
        BY <1>0, <2>2, <3>1
      <3>3. Sum(f, (a + i) + 1) = Sum(f, a + i) + f[a + i] /\ Sum(g, i + 1) = Sum(g, i) + g[i]
        BY <3>1, <1>1
      <3> QED BY <1>0, <3>1, <3>2, <3>3
    <2>3. Nat \subseteq T
      <3> HIDE DEF T
      <3> QED BY <2>1, <2>2, Induction
    <2> QED BY <1>0, <2>3
  <1>4. Sum(f, n) = Sum(g, m)
    <2> DEFINE T == {i \in Nat : a + m <= i /\ i <= n => Sum(f, i) = Sum(g, m)}
    <2>1. 0 \in T
      <3> SUFFICES ASSUME a + m <= 0 PROVE Sum(f, 0) = Sum(g, m)
        OBVIOUS
      <3>1. m = 0
        BY <1>0
      <3> QED BY <1>0, <3>1, <1>1
    <2>2. ASSUME NEW i \in Nat, i \in T PROVE i + 1 \in T
      <3> SUFFICES ASSUME a + m <= i + 1, i + 1 <= n PROVE Sum(f, i + 1) = Sum(g, m)
        OBVIOUS
      <3>1. CASE a + m = i + 1
        BY <3>1, <1>3
      <3>2. CASE a + m <= i
        <4>1. i \in 0..(n - 1) /\ i >= a + m
          BY <1>0, <3>2
        <4>2. f[i] = 0 /\ Sum(f, i) = Sum(g, m)
          BY <1>0, <4>1, <2>2, <3>2
        <4>3. Sum(f, i + 1) = Sum(f, i) + f[i]
          BY <4>1, <1>1
        <4> QED BY <1>0, <4>2, <4>3, <1>1
      <3> QED BY <1>0, <3>1, <3>2
    <2>3. Nat \subseteq T
      <3> HIDE DEF T
      <3> QED BY <2>1, <2>2, Induction
    <2> QED BY <1>0, <2>3
  <1> QED BY <1>4

\* The place after a half turn, on a circle of 2 m of the n = 4 q places.
Halves(n, q, e, m) ==
    /\ q \in Nat \ {0} /\ n = 4 * q /\ Turns(n)
    /\ e \in Nat \ {0} /\ m \in Nat \ {0} /\ n = e * (2 * m)
Opposite(m, j) ==
    /\ Same(Cosine(2 * m, j + m), 0 - Cosine(2 * m, j))
    /\ Same(Sine(2 * m, j + m), 0 - Sine(2 * m, j))

\* Cosine and sine change sign on a half turn.
LEMMA AngleTurn ==
    ASSUME NEW n, NEW q, NEW e, NEW m, Halves(n, q, e, m), NEW j \in Int
    PROVE  Opposite(m, j)
  <1> DEFINE a == 2 * m
  <1>1. /\ a \in Nat \ {0} /\ n = e * a /\ Turns(e * a) /\ j + m \in Int /\ n \in Nat \ {0}
        /\ q \in Nat \ {0} /\ n = 4 * q /\ Turns(n) /\ e \in Nat \ {0} /\ m \in Nat \ {0}
    BY DEF Halves
  <1> HIDE DEF a
  <1>2. /\ Turns(a)
        /\ Cosine(n, e * j) = Cosine(a, j) /\ Sine(n, e * j) = Sine(a, j)
        /\ Cosine(n, e * (j + m)) = Cosine(a, j + m) /\ Sine(n, e * (j + m)) = Sine(a, j + m)
    <2> DEFINE l == j + m
    <2>1. l \in Int
      BY <1>1
    <2> HIDE DEF l
    <2>2. a \in Nat \ {0} /\ e \in Nat \ {0} /\ Turns(e * a) /\ j \in Int
      BY <1>1
    <2>3. /\ Turns(a)
          /\ Cosine(e * a, e * j) = Cosine(a, j) /\ Sine(e * a, e * j) = Sine(a, j)
      BY ONLY <2>2, AngleFiner
    <2>4. Cosine(e * a, e * l) = Cosine(a, l) /\ Sine(e * a, e * l) = Sine(a, l)
      BY ONLY <2>1, <2>2, AngleFiner
    <2> QED BY <2>3, <2>4, <1>1 DEF l
  <1> DEFINE b == e * j
             c == b + 2 * q
  <1>4. b \in Int /\ e * (j + m) = c /\ c \in Int
    <2>1. 2 * (e * m) = 4 * q
      BY <1>1 DEF a
    <2> DEFINE z == e * m
    <2>2. z = 2 * q
      <3>1. z \in Int /\ 2 * z = 4 * q /\ q \in Int
        BY <1>1, <2>1
      <3> HIDE DEF z
      <3> QED BY <3>1
    <2>3. e * (j + m) = e * j + z /\ e * j \in Int
      BY <1>1
    <2> QED BY <2>2, <2>3, <1>1
  <1> HIDE DEF b
  <1>5. /\ Sine(n, b + q) = Cosine(n, b) /\ Sine(n, (b + 2 * q) + q) = Cosine(n, b + 2 * q)
        /\ Same(Sine(n, b + 2 * q), 0 - Sine(n, b))
        /\ Same(Sine(n, (b + q) + 2 * q), 0 - Sine(n, b + q))
    <2>1. Turns(4 * q) /\ q \in Nat \ {0} /\ b \in Int /\ b + q \in Int /\ b + 2 * q \in Int
      BY <1>1, <1>4
    <2>2. \A i \in Int : Sine(4 * q, i + q) = Cosine(4 * q, i)
                         /\ Same(Sine(4 * q, i + 2 * q), 0 - Sine(4 * q, i))
      BY ONLY <2>1, AngleLaws
    <2> QED BY <1>1, <2>1, <2>2
  <1>6. (b + q) + 2 * q = (b + 2 * q) + q
    BY <1>1, <1>4
  <1>7. Same(Cosine(n, c), 0 - Cosine(n, b)) /\ Same(Sine(n, c), 0 - Sine(n, b))
    BY <1>5, <1>6
  <1> QED BY <1>2, <1>4, <1>7 DEF a, b, Opposite

-----------------------------------------------------------------------------
(* The transform, by definition, of the samples of a block.                *)

\* What the samples of block b give to place f of its transform.
ReTerm(n, r, x, m, b, f) ==
    [j \in 0..(m - 1) |-> x[r[b * m] + j * (n \div m)] * Cosine(m, f * j)]
ImTerm(n, r, x, m, b, f) ==
    [j \in 0..(m - 1) |-> x[r[b * m] + j * (n \div m)] * (0 - Sine(m, f * j))]

\* n points, m of them to a block and a blocks, of samples x in the order r.
Blocks(n, r, x, m, a) ==
    /\ n \in Nat \ {0} /\ m \in Nat \ {0} /\ a \in Nat \ {0} /\ n = a * m
    /\ Turns(m)
    /\ Reversal(n, n, r)
    /\ \A i \in 0..(n - 1) : x[i] \in Int

\* The samples are members of the field, and so are the terms.
LEMMA TermsAre ==
    ASSUME NEW n, NEW r, NEW x, NEW m, NEW a, Blocks(n, r, x, m, a),
           NEW b \in 0..(a - 1), NEW f \in Int
    PROVE  /\ Terms(ReTerm(n, r, x, m, b, f), m) /\ Terms(ImTerm(n, r, x, m, b, f), m)
           /\ n \div m = a
           /\ \A j \in 0..(m - 1) :
                  /\ x[r[b * m] + j * a] \in Int
                  /\ ReTerm(n, r, x, m, b, f)[j] = x[r[b * m] + j * a] * Cosine(m, f * j)
                  /\ ImTerm(n, r, x, m, b, f)[j] = x[r[b * m] + j * a] * (0 - Sine(m, f * j))
  <1>1. n \in Nat \ {0} /\ m \in Nat \ {0} /\ a \in Nat \ {0} /\ n = a * m /\ Turns(m)
    BY DEF Blocks
  <1>2. n \div m = a
    BY <1>1, Divides
  <1>3. r[b * m] \in 0..(a - 1)
    <2>1. n = m * a
      BY <1>1
    <2> QED BY <1>1, <2>1 DEF Blocks, Reversal
  <1>4. ASSUME NEW j \in 0..(m - 1) PROVE r[b * m] + j * a \in 0..(n - 1)
    <2> DEFINE i == r[b * m]
               z == j * a
    <2>1. i \in 0..(a - 1) /\ z \in Int /\ z >= 0
      BY <1>1, <1>3
    <2>2. z <= n - a
      <3>1. j * a <= (m - 1) * a
        BY <1>1
      <3>2. (m - 1) * a = n - a
        BY <1>1
      <3> QED BY <3>1, <3>2
    <2> HIDE DEF i, z
    <2>3. i + z \in 0..(n - 1)
      BY <1>1, <2>1, <2>2
    <2> QED BY <2>3 DEF i, z
  <1>5. ASSUME NEW j \in 0..(m - 1)
        PROVE  /\ x[r[b * m] + j * a] \in Int
               /\ ReTerm(n, r, x, m, b, f)[j] = x[r[b * m] + j * a] * Cosine(m, f * j)
               /\ ImTerm(n, r, x, m, b, f)[j] = x[r[b * m] + j * a] * (0 - Sine(m, f * j))
               /\ ReTerm(n, r, x, m, b, f)[j] \in Int
               /\ ImTerm(n, r, x, m, b, f)[j] \in Int
    <2>1. x[r[b * m] + j * a] \in Int
      BY <1>4 DEF Blocks
    <2>2. ReTerm(n, r, x, m, b, f)[j] = x[r[b * m] + j * a] * Cosine(m, f * j)
          /\ ImTerm(n, r, x, m, b, f)[j] = x[r[b * m] + j * a] * (0 - Sine(m, f * j))
      BY <1>2 DEF ReTerm, ImTerm
    <2> DEFINE i == f * j
               y == x[r[b * m] + j * a]
    <2>3. i \in Int
      OBVIOUS
    <2> HIDE DEF i
    <2>4. Cosine(m, i) \in Int /\ Sine(m, i) \in Int
      BY <1>1, <2>3, AngleType
    <2> HIDE DEF y
    <2>5. y \in Int
      BY <2>1 DEF y
    <2>6. y * Cosine(m, i) \in Int /\ y * (0 - Sine(m, i)) \in Int
      BY <2>4, <2>5
    <2> QED BY <2>1, <2>2, <2>6 DEF i, y
  <1>6. Terms(ReTerm(n, r, x, m, b, f), m) /\ Terms(ImTerm(n, r, x, m, b, f), m)
    BY <1>5 DEF Terms
  <1> QED BY <1>2, <1>5, <1>6

\* A block of 2 m: the samples in even places are those of one block of m,
\* the samples in odd places those of the next, turned on by f.
LEMMA EvenOdd ==
    ASSUME NEW n, NEW r, NEW x, NEW m, NEW a \in Nat \ {0}, Blocks(n, r, x, 2 * m, a),
           Blocks(n, r, x, m, 2 * a), NEW b \in 0..(a - 1), NEW f \in Int, NEW t \in Int,
           NEW j \in 0..(m - 1)
    PROVE  LET g == f + t * m
               c == Cosine(2 * m, g)
               s == Sine(2 * m, g)
               R0 == ReTerm(n, r, x, m, 2 * b, f)[j]
               I0 == ImTerm(n, r, x, m, 2 * b, f)[j]
               R1 == ReTerm(n, r, x, m, 2 * b + 1, f)[j]
               I1 == ImTerm(n, r, x, m, 2 * b + 1, f)[j]
               R  == ReTerm(n, r, x, 2 * m, b, g)
               I  == ImTerm(n, r, x, 2 * m, b, g)
           IN  /\ R[2 * j] = R0 /\ I[2 * j] = I0
               /\ Same(R[2 * j + 1], c * R1 + s * I1)
               /\ Same(I[2 * j + 1], c * I1 + (0 - s) * R1)
  <1> DEFINE g == f + t * m
             M == 2 * m
             c == Cosine(M, g)
             s == Sine(M, g)
             h == f * j
             u == g * (2 * j)
             v == g * (2 * j + 1)
             p == r[b * M]
             x0 == x[p + (2 * j) * a]
             x1 == x[p + (2 * j + 1) * a]
  <1>1. /\ n \in Nat \ {0} /\ m \in Nat \ {0} /\ n = a * M /\ Turns(m) /\ Turns(M)
        /\ g \in Int /\ h \in Int /\ u \in Int /\ v \in Int /\ v = u + g
        /\ 2 * j \in 0..(M - 1) /\ 2 * j + 1 \in 0..(M - 1)
        /\ 2 * b \in 0..(2 * a - 1) /\ 2 * b + 1 \in 0..(2 * a - 1)
    BY DEF Blocks
  <1>2. /\ x0 \in Int /\ x1 \in Int
        /\ ReTerm(n, r, x, M, b, g)[2 * j] = x0 * Cosine(M, u)
        /\ ImTerm(n, r, x, M, b, g)[2 * j] = x0 * (0 - Sine(M, u))
        /\ ReTerm(n, r, x, M, b, g)[2 * j + 1] = x1 * Cosine(M, v)
        /\ ImTerm(n, r, x, M, b, g)[2 * j + 1] = x1 * (0 - Sine(M, v))
    <2> HIDE DEF g, M
    <2>1. Blocks(n, r, x, M, a) /\ g \in Int
      BY <1>1 DEF M
    <2>2. \A i \in 0..(M - 1) :
                  /\ x[r[b * M] + i * a] \in Int
                  /\ ReTerm(n, r, x, M, b, g)[i] = x[r[b * M] + i * a] * Cosine(M, g * i)
                  /\ ImTerm(n, r, x, M, b, g)[i] = x[r[b * M] + i * a] * (0 - Sine(M, g * i))
      BY <2>1, TermsAre
    <2> QED BY <2>2, <1>1
  <1>3. /\ ReTerm(n, r, x, m, 2 * b, f)[j] = x0 * Cosine(m, h)
        /\ ImTerm(n, r, x, m, 2 * b, f)[j] = x0 * (0 - Sine(m, h))
    <2> DEFINE B == 2 * b
               A == 2 * a
    <2>1. B \in 0..(A - 1) /\ Blocks(n, r, x, m, A)
      BY <1>1
    <2>2. B * m = b * M /\ j * A = (2 * j) * a
      BY <1>1
    <2> HIDE DEF B, A
    <2>3. /\ ReTerm(n, r, x, m, B, f)[j] = x[r[B * m] + j * A] * Cosine(m, f * j)
          /\ ImTerm(n, r, x, m, B, f)[j] = x[r[B * m] + j * A] * (0 - Sine(m, f * j))
      BY <2>1, TermsAre
    <2> QED BY <2>2, <2>3 DEF B
  <1>4. /\ ReTerm(n, r, x, m, 2 * b + 1, f)[j] = x1 * Cosine(m, h)
        /\ ImTerm(n, r, x, m, 2 * b + 1, f)[j] = x1 * (0 - Sine(m, h))
    <2> DEFINE B == 2 * b + 1
               A == 2 * a
    <2>1. B \in 0..(A - 1) /\ Blocks(n, r, x, m, A)
      BY <1>1
    <2>2. r[B * m] = p + a
      <3>1. \A d, e \in Nat \ {0} :
              n = 2 * (d * e) => \A i \in 0..(e - 1) : r[(2 * i + 1) * d] = r[2 * i * d] + e
        BY DEF Blocks, Reversal
      <3>2. n = 2 * (m * a) /\ b * M = 2 * b * m
        BY <1>1
      <3> QED BY <1>1, <3>1, <3>2
    <2>3. p \in Int
      <3>1. p \in 0..(a - 1)
        <4>1. n = M * a /\ M \in Nat \ {0}
          BY <1>1
        <4> HIDE DEF M
        <4> QED BY <4>1 DEF Blocks, Reversal
      <3> QED BY <3>1
    <2>4. (p + a) + j * A = p + (2 * j + 1) * a
      <3> HIDE DEF p
      <3> QED BY <2>3
    <2> HIDE DEF B, A
    <2>5. /\ ReTerm(n, r, x, m, B, f)[j] = x[r[B * m] + j * A] * Cosine(m, f * j)
          /\ ImTerm(n, r, x, m, B, f)[j] = x[r[B * m] + j * A] * (0 - Sine(m, f * j))
      BY <2>1, TermsAre
    <2> QED BY <2>2, <2>4, <2>5 DEF B
  <1>5. Cosine(M, u) = Cosine(m, h) /\ Sine(M, u) = Sine(m, h)
    <2> DEFINE z == g * j
               w == t * j
    <2>1. z \in Int /\ w \in Int /\ z = h + w * m /\ u = 2 * z /\ 2 \in Nat \ {0}
      BY <1>1
    <2>2. Cosine(M, 2 * z) = Cosine(m, z) /\ Sine(M, 2 * z) = Sine(m, z)
      <3> HIDE DEF z
      <3> QED BY <1>1, <2>1, AngleFiner
    <2>3. Cosine(m, h + w * m) = Cosine(m, h) /\ Sine(m, h + w * m) = Sine(m, h)
      <3> HIDE DEF w, h
      <3> QED BY <1>1, <2>1, AnglePeriod
    <2> QED BY <2>1, <2>2, <2>3
  <1> DEFINE C == Cosine(m, h)
             S == Sine(m, h)
             cv == Cosine(M, v)
             sv == Sine(M, v)
  <1>6. /\ Same(cv, C * c - S * s) /\ Same(sv, S * c + C * s)
        /\ C \in Int /\ S \in Int /\ c \in Int /\ s \in Int /\ cv \in Int /\ sv \in Int
    <2> HIDE DEF M, g, h, u, v
    <2>1. /\ Same(Cosine(M, u + g), Cosine(M, u) * Cosine(M, g) - Sine(M, u) * Sine(M, g))
          /\ Same(Sine(M, u + g), Sine(M, u) * Cosine(M, g) + Cosine(M, u) * Sine(M, g))
      BY <1>1, AngleSum
    <2>2. C \in Int /\ S \in Int /\ c \in Int /\ s \in Int /\ cv \in Int /\ sv \in Int
      BY <1>1, AngleType
    <2> QED BY <1>1, <1>5, <2>1, <2>2
  <1> HIDE DEF C, S, c, s, cv, sv, x0, x1
  <1>7. Same(x1 * cv, c * (x1 * C) + s * (x1 * (0 - S)))
    <2> DEFINE w == C * c - S * s
    <2>1. w \in Int /\ Same(cv, w) /\ x1 * w = c * (x1 * C) + s * (x1 * (0 - S))
      BY <1>2, <1>6
    <2> HIDE DEF w
    <2>2. Same(x1 * cv, x1 * w)
      BY <1>2, <1>6, <2>1, SameOps, SameRefl
    <2> QED BY <2>1, <2>2
  <1>8. Same(x1 * (0 - sv), c * (x1 * (0 - S)) + (0 - s) * (x1 * C))
    <2> DEFINE w == S * c + C * s
               w1 == 0 - w
               s1 == 0 - sv
    <2>1. w \in Int /\ Same(sv, w) /\ x1 * w1 = c * (x1 * (0 - S)) + (0 - s) * (x1 * C)
          /\ w1 \in Int /\ s1 \in Int
      BY <1>2, <1>6
    <2>2. Same(0 - sv, 0 - w)
      <3> HIDE DEF w
      <3> QED BY <1>6, <2>1, SameOps, SameRefl, 0 \in Int
    <2> HIDE DEF w1, s1
    <2>3. Same(x1 * s1, x1 * w1)
      <3>1. Same(s1, w1)
        BY <2>2 DEF s1, w1
      <3> QED BY <1>2, <2>1, <3>1, SameOps, SameRefl
    <2> QED BY <2>1, <2>3 DEF s1
  <1>9. /\ ReTerm(n, r, x, M, b, g)[2 * j] = ReTerm(n, r, x, m, 2 * b, f)[j]
        /\ ImTerm(n, r, x, M, b, g)[2 * j] = ImTerm(n, r, x, m, 2 * b, f)[j]
        /\ Same(ReTerm(n, r, x, M, b, g)[2 * j + 1],
                c * ReTerm(n, r, x, m, 2 * b + 1, f)[j] + s * ImTerm(n, r, x, m, 2 * b + 1, f)[j])
        /\ Same(ImTerm(n, r, x, M, b, g)[2 * j + 1],
                c * ImTerm(n, r, x, m, 2 * b + 1, f)[j]
                  + (0 - s) * ReTerm(n, r, x, m, 2 * b + 1, f)[j])
    <2> HIDE DEF M, g
    <2> QED BY <1>2, <1>3, <1>4, <1>5, <1>7, <1>8 DEF C, S, cv, sv
  <1> QED BY <1>9 DEF c, s

\* The transform of a block of 2 m from those of its halves.
LEMMA BlockSum ==
    ASSUME NEW n, NEW r, NEW x, NEW m, NEW a \in Nat \ {0}, Blocks(n, r, x, 2 * m, a),
           Blocks(n, r, x, m, 2 * a), NEW b \in 0..(a - 1), NEW f \in Int, NEW t \in Int
    PROVE  LET g == f + t * m
               c == Cosine(2 * m, g)
               s == Sine(2 * m, g)
               X0 == Sum(ReTerm(n, r, x, m, 2 * b, f), m)
               Y0 == Sum(ImTerm(n, r, x, m, 2 * b, f), m)
               X1 == Sum(ReTerm(n, r, x, m, 2 * b + 1, f), m)
               Y1 == Sum(ImTerm(n, r, x, m, 2 * b + 1, f), m)
           IN  /\ X0 \in Int /\ Y0 \in Int /\ X1 \in Int /\ Y1 \in Int
               /\ Same(Sum(ReTerm(n, r, x, 2 * m, b, g), 2 * m), X0 + (c * X1 + s * Y1))
               /\ Same(Sum(ImTerm(n, r, x, 2 * m, b, g), 2 * m), Y0 + (c * Y1 + (0 - s) * X1))
  <1> DEFINE g == f + t * m
             M == 2 * m
             A == 2 * a
             c == Cosine(M, g)
             s == Sine(M, g)
             d == 0 - s
             b0 == 2 * b
             b1 == 2 * b + 1
             R0 == ReTerm(n, r, x, m, b0, f)
             I0 == ImTerm(n, r, x, m, b0, f)
             R1 == ReTerm(n, r, x, m, b1, f)
             I1 == ImTerm(n, r, x, m, b1, f)
             RR == ReTerm(n, r, x, M, b, g)
             II == ImTerm(n, r, x, M, b, g)
             RO == [j \in 0..(m - 1) |-> RR[2 * j + 1]]
             IO == [j \in 0..(m - 1) |-> II[2 * j + 1]]
  <1>1. m \in Nat \ {0} /\ m \in Nat /\ g \in Int /\ b0 \in 0..(A - 1) /\ b1 \in 0..(A - 1)
        /\ Turns(M)
    BY DEF Blocks
  <1>2. /\ Terms(R0, m) /\ Terms(I0, m) /\ Terms(R1, m) /\ Terms(I1, m)
        /\ Terms(RR, M) /\ Terms(II, M)
    <2> HIDE DEF A, b0, b1, M, g
    <2>1. Blocks(n, r, x, m, A) /\ Blocks(n, r, x, M, a)
      BY DEF A, M
    <2> QED BY <1>1, <2>1, TermsAre
  <1>3. c \in Int /\ s \in Int /\ d \in Int
    <2>1. c \in Int /\ s \in Int
      <3> HIDE DEF M, g
      <3> QED BY <1>1, AngleType
    <2> HIDE DEF s
    <2> QED BY <2>1
  <1>4. \A j \in 0..(m - 1) :
            /\ RR[2 * j] = R0[j] /\ II[2 * j] = I0[j]
            /\ Same(RR[2 * j + 1], c * R1[j] + s * I1[j])
            /\ Same(II[2 * j + 1], c * I1[j] + d * R1[j])
    <2> TAKE j \in 0..(m - 1)
    <2> QED BY EvenOdd
  <1> HIDE DEF R0, R1, I0, I1, RR, II, c, s, d
  <1>5. Terms(RO, m) /\ Terms(IO, m)
    <2>1. \A j \in 0..(m - 1) : 2 * j + 1 \in 0..(M - 1)
      BY <1>1
    <2>2. \A j \in 0..(m - 1) : RR[2 * j + 1] \in Int /\ II[2 * j + 1] \in Int
      BY <1>2, <2>1 DEF Terms
    <2> QED BY <2>2 DEF Terms
  <1>6. \A j \in 0..(m - 1) :
            /\ RR[2 * j] = R0[j] /\ RR[2 * j + 1] = RO[j]
            /\ II[2 * j] = I0[j] /\ II[2 * j + 1] = IO[j]
            /\ Same(RO[j], c * R1[j] + s * I1[j])
            /\ Same(IO[j], c * I1[j] + d * R1[j])
    BY <1>4
  <1> HIDE DEF RO, IO
  <1>7. Sum(RR, 2 * m) = Sum(R0, m) + Sum(RO, m) /\ Sum(II, 2 * m) = Sum(I0, m) + Sum(IO, m)
    BY <1>1, <1>2, <1>5, <1>6, SumSplit
  <1>8. /\ Same(Sum(RO, m), c * Sum(R1, m) + s * Sum(I1, m))
        /\ Same(Sum(IO, m), c * Sum(I1, m) + d * Sum(R1, m))
    BY <1>1, <1>2, <1>3, <1>5, <1>6, SumLinear
  <1> DEFINE X0 == Sum(R0, m)
             Y0 == Sum(I0, m)
             X1 == Sum(R1, m)
             Y1 == Sum(I1, m)
             XO == Sum(RO, m)
             YO == Sum(IO, m)
             u == c * X1 + s * Y1
             v == c * Y1 + d * X1
  <1>9. X0 \in Int /\ Y0 \in Int /\ X1 \in Int /\ Y1 \in Int /\ XO \in Int /\ YO \in Int
    BY <1>1, <1>2, <1>5, SumStep
  <1>10. Same(XO, u) /\ Same(YO, v)
    BY <1>8
  <1> HIDE DEF X0, Y0, X1, Y1, XO, YO
  <1>11. u \in Int /\ v \in Int
    BY <1>3, <1>9
  <1> HIDE DEF u, v
  <1>12. Same(X0 + XO, X0 + u) /\ Same(Y0 + YO, Y0 + v)
    BY <1>9, <1>10, <1>11, SameOps, SameRefl
  <1>13. /\ X0 \in Int /\ Y0 \in Int /\ X1 \in Int /\ Y1 \in Int
         /\ Same(Sum(RR, M), X0 + (c * X1 + s * Y1))
         /\ Same(Sum(II, M), Y0 + (c * Y1 + d * X1))
    BY <1>7, <1>9, <1>12 DEF X0, Y0, XO, YO, u, v
  <1> QED BY <1>13 DEF X0, Y0, X1, Y1, R0, I0, R1, I1, RR, II, c, s, d

\* What the butterfly adds or takes off is what the block needs.
Rounded(x0, y0, x1, y1, c, s) ==
    /\ Mod(Mod(x0) + (s * Mod(y1) + c * Mod(x1))) = Mod(x0 + (c * x1 + s * y1))
    /\ Mod(Mod(y0) + (c * Mod(y1) - s * Mod(x1))) = Mod(y0 + (c * y1 + (0 - s) * x1))
    /\ Mod(Mod(x0) - (s * Mod(y1) + c * Mod(x1))) = Mod(x0 + ((0 - c) * x1 + (0 - s) * y1))
    /\ Mod(Mod(y0) - (c * Mod(y1) - s * Mod(x1))) = Mod(y0 + ((0 - c) * y1 + s * x1))

\* Reducing at every operation, as the code rounds, changes nothing.
LEMMA Butterfly ==
    ASSUME NEW x0 \in Int, NEW y0 \in Int, NEW x1 \in Int, NEW y1 \in Int,
           NEW c \in Int, NEW s \in Int
    PROVE  Rounded(x0, y0, x1, y1, c, s)
  <1> DEFINE X0 == Mod(x0)
             X1 == Mod(x1)
             Y0 == Mod(y0)
             Y1 == Mod(y1)
             a == s * Y1
             b == c * X1
             d == c * Y1
             e == s * X1
             aa == s * y1
             bb == c * x1
             dd == c * y1
             ee == s * x1
  <1>1. /\ X0 \in Int /\ X1 \in Int /\ Y0 \in Int /\ Y1 \in Int
        /\ Same(X0, x0) /\ Same(X1, x1) /\ Same(Y0, y0) /\ Same(Y1, y1) /\ Same(c, c) /\ Same(s, s)
    BY ModType, SameRefl
  <1> HIDE DEF X0, X1, Y0, Y1
  <1>2. Same(a, aa) /\ Same(b, bb) /\ Same(d, dd) /\ Same(e, ee)
    BY <1>1, SameOps
  <1>3. /\ a \in Int /\ b \in Int /\ d \in Int /\ e \in Int
        /\ aa \in Int /\ bb \in Int /\ dd \in Int /\ ee \in Int
        /\ (0 - s) * x1 = 0 - ee /\ (0 - c) * x1 = 0 - bb /\ (0 - s) * y1 = 0 - aa
        /\ (0 - c) * y1 = 0 - dd
    BY <1>1
  <1> HIDE DEF a, b, d, e, aa, bb, dd, ee
  <1> DEFINE p == a + b
             q == d - e
             pp == aa + bb
             qq == dd - ee
  <1>4. Same(p, pp) /\ Same(q, qq)
    BY <1>2, <1>3, SameOps
  <1>5. /\ p \in Int /\ q \in Int /\ pp \in Int /\ qq \in Int
        /\ x0 + (bb + aa) = x0 + pp /\ y0 + (dd + (0 - ee)) = y0 + qq
        /\ x0 + ((0 - bb) + (0 - aa)) = x0 - pp /\ y0 + ((0 - dd) + ee) = y0 - qq
    BY <1>3
  <1> HIDE DEF p, q, pp, qq
  <1>6. /\ Same(X0 + p, x0 + pp) /\ Same(X0 - p, x0 - pp)
        /\ Same(Y0 + q, y0 + qq) /\ Same(Y0 - q, y0 - qq)
    BY <1>1, <1>4, <1>5, SameOps
  <1> QED BY <1>3, <1>5, <1>6 DEF Rounded, Same, X0, X1, Y0, Y1, p, q, a, b, d, e, aa, bb, dd, ee

\* Signs: the second half of a block is a half turn on.
LEMMA HalfOn ==
    ASSUME NEW x0 \in Int, NEW x1 \in Int, NEW y1 \in Int, NEW c \in Int, NEW s \in Int,
           NEW u \in Int, NEW v \in Int, Same(u, c), Same(v, s)
    PROVE  Same(x0 + (u * x1 + v * y1), x0 + (c * x1 + s * y1))
  <1> DEFINE a == u * x1
             b == v * y1
             d == c * x1
             e == s * y1
  <1>1. Same(a, d) /\ Same(b, e)
    BY SameOps, SameRefl
  <1>2. a \in Int /\ b \in Int /\ d \in Int /\ e \in Int
    OBVIOUS
  <1> HIDE DEF a, b, d, e
  <1> DEFINE g == a + b
             h == d + e
  <1>3. g \in Int /\ h \in Int /\ Same(g, h)
    BY <1>1, <1>2, SameOps
  <1> HIDE DEF g, h
  <1>4. Same(x0 + g, x0 + h)
    BY <1>3, SameOps, SameRefl
  <1> QED BY <1>4 DEF g, h, a, b, d, e

\* Between two steps every block holds the transform of its samples.
Dft(n, r, x, m, a, u, v) ==
    \A b \in 0..(a - 1) : \A f \in 0..(m - 1) :
        /\ u[b * m + f] = Mod(Sum(ReTerm(n, r, x, m, b, f), m))
        /\ v[b * m + f] = Mod(Sum(ImTerm(n, r, x, m, b, f), m))

\* A step of the transform makes blocks of m blocks of 2 m.
THEOREM ButterflyStep ==
    ASSUME NEW q \in Nat \ {0}, NEW n, n = 4 * q, Turns(2 * n), NEW r, NEW x,
           NEW m, NEW a \in Nat \ {0}, Blocks(n, r, x, 2 * m, a), Blocks(n, r, x, m, 2 * a),
           NEW u, NEW v, Dft(n, r, x, m, 2 * a, u, v)
    PROVE  LET after == Butterflies(n, make_sintbl(n), u, v, m)
           IN  Dft(n, r, x, 2 * m, a, after.x, after.y)
  <1> DEFINE M == 2 * m
             after == Butterflies(n, make_sintbl(n), u, v, m)
             tbl == make_sintbl(n)
  <1>1. /\ n \in Nat \ {0} /\ m \in Nat \ {0} /\ n = a * M /\ M \in Nat \ {0}
        /\ n \div 4 = q /\ q \in Nat
    BY DEF Blocks
  <1>2. n \div M = a
    <2> HIDE DEF M
    <2>1. n \in Int /\ a \in Int /\ M \in Nat \ {0} /\ n = a * M
      BY <1>1
    <2>2. n \div M = a
      BY ONLY <2>1, Divides
    <2> QED BY <2>2
  <1>3. Turns(n)
    <2>1. 2 \in Nat \ {0} /\ 1 \in Int
      OBVIOUS
    <2> QED BY <2>1, <1>1, AngleFiner
  <1>4. ASSUME NEW B \in 0..(a - 1), NEW F \in 0..(M - 1)
        PROVE  /\ after.x[B * M + F] = Mod(Sum(ReTerm(n, r, x, M, B, F), M))
               /\ after.y[B * M + F] = Mod(Sum(ImTerm(n, r, x, M, B, F), M))
    <2> DEFINE b0 == 2 * B
               b1 == 2 * B + 1
    <2>1. b0 \in 0..(2 * a - 1) /\ b1 \in 0..(2 * a - 1)
      OBVIOUS
    <2>2. ASSUME NEW f \in 0..(m - 1)
          PROVE  LET c == Cosine(M, f)
                     s == Sine(M, f)
                     X0 == Sum(ReTerm(n, r, x, m, b0, f), m)
                     Y0 == Sum(ImTerm(n, r, x, m, b0, f), m)
                     X1 == Sum(ReTerm(n, r, x, m, b1, f), m)
                     Y1 == Sum(ImTerm(n, r, x, m, b1, f), m)
                     i == B * M + f
                 IN  /\ X0 \in Int /\ Y0 \in Int /\ X1 \in Int /\ Y1 \in Int
                     /\ c \in Int /\ s \in Int
                     /\ after.x[i] = Mod(Mod(X0) + (s * Mod(Y1) + c * Mod(X1)))
                     /\ after.y[i] = Mod(Mod(Y0) + (c * Mod(Y1) - s * Mod(X1)))
                     /\ after.x[i + m] = Mod(Mod(X0) - (s * Mod(Y1) + c * Mod(X1)))
                     /\ after.y[i + m] = Mod(Mod(Y0) - (c * Mod(Y1) - s * Mod(X1)))
      <3> DEFINE i == B * M + f
                 l == i + m
                 X0 == Sum(ReTerm(n, r, x, m, b0, f), m)
                 Y0 == Sum(ImTerm(n, r, x, m, b0, f), m)
                 X1 == Sum(ReTerm(n, r, x, m, b1, f), m)
                 Y1 == Sum(ImTerm(n, r, x, m, b1, f), m)
                 c == Cosine(M, f)
                 s == Sine(M, f)
                 z == f * a
      <3>1. u[i] = Mod(X0) /\ v[i] = Mod(Y0) /\ u[l] = Mod(X1) /\ v[l] = Mod(Y1)
        <4>1. b0 * m + f = i /\ b1 * m + f = l
          BY <1>1
        <4>2. \A b \in 0..(2 * a - 1) :
                 /\ u[b * m + f] = Mod(Sum(ReTerm(n, r, x, m, b, f), m))
                 /\ v[b * m + f] = Mod(Sum(ImTerm(n, r, x, m, b, f), m))
          BY DEF Dft
        <4> HIDE DEF i, l, b0, b1
        <4> QED BY <2>1, <4>1, <4>2
      <3>2. X0 \in Int /\ Y0 \in Int /\ X1 \in Int /\ Y1 \in Int
        <4> DEFINE A == 2 * a
        <4>1. b0 \in 0..(A - 1) /\ b1 \in 0..(A - 1) /\ Blocks(n, r, x, m, A) /\ f \in Int /\ m \in Nat
          BY <2>1, <1>1
        <4> HIDE DEF A, b0, b1
        <4>2. /\ Terms(ReTerm(n, r, x, m, b0, f), m) /\ Terms(ImTerm(n, r, x, m, b0, f), m)
              /\ Terms(ReTerm(n, r, x, m, b1, f), m) /\ Terms(ImTerm(n, r, x, m, b1, f), m)
          BY <4>1, TermsAre
        <4> QED BY <4>1, <4>2, SumStep
      <3>3. i \in 0..(n - 1) /\ l \in 0..(n - 1) /\ i % M = f /\ l % M = f + m /\ i % m = f
            /\ l - m = i
        <4> DEFINE w == B * M
                   g == f + m
                   w0 == b0 * m
        <4>1. w \in Int /\ w >= 0 /\ w <= n - M /\ w0 = w
          <5>1. B * M <= (a - 1) * M
            BY <1>1
          <5>2. (a - 1) * M = n - M /\ B * M >= 0 /\ b0 * m = B * M
            BY <1>1
          <5> QED BY <5>1, <5>2, <1>1
        <4>2. i = B * M + f /\ l = B * M + g /\ f \in 0..(M - 1) /\ g \in 0..(M - 1) /\ B \in Int
              /\ i \in Int /\ l \in Int /\ i = b0 * m + f /\ b0 \in Int
          BY <1>1, <4>1
        <4>3. i \in 0..(n - 1) /\ l \in 0..(n - 1)
          <5> HIDE DEF w
          <5>1. i = w + f /\ l = w + g
            BY <4>2 DEF w
          <5> QED BY <5>1, <4>1, <4>2, <1>1
        <4>4. i % M = f /\ l % M = g
          <5>1. B \in Int /\ f \in 0..(M - 1) /\ g \in 0..(M - 1) /\ M \in Nat \ {0}
                /\ i = B * M + f /\ l = B * M + g
            BY <4>2, <1>1
          <5> HIDE DEF i, l, M, g
          <5>2. (B * M + f) % M = f /\ (B * M + g) % M = g
            BY ONLY <5>1, DivisionIs
          <5> QED BY <5>1, <5>2
        <4>5. i % m = f
          <5>1. b0 \in Int /\ f \in 0..(m - 1) /\ m \in Nat \ {0} /\ i = b0 * m + f
            BY <4>2, <1>1
          <5> HIDE DEF i, b0
          <5>2. (b0 * m + f) % m = f
            BY ONLY <5>1, DivisionIs
          <5> QED BY <5>1, <5>2
        <4> QED BY <4>3, <4>4, <4>5, <4>2, <1>1
      <3>4. tbl[z] = s /\ tbl[z + q] = c /\ c \in Int /\ s \in Int
        <4>1. z \in Int /\ z >= 0 /\ z <= n - a /\ z = a * f /\ f \in Int /\ Turns(M)
          <5>1. f * a <= m * a - a
            <6>1. f * a <= (m - 1) * a
              BY <1>1
            <6> QED BY <6>1, <1>1
          <5>2. n = m * a + m * a /\ m * a >= 0 /\ f * a >= 0
            BY <1>1
          <5>3. Turns(M)
            BY DEF Blocks
          <5> DEFINE w == m * a
          <5>4. w \in Int /\ z <= w - a /\ n = w + w /\ w >= 0 /\ z \in Int /\ z >= 0
            BY <5>1, <5>2, <1>1
          <5> HIDE DEF w, z
          <5>5. z <= n - a
            BY <5>4, <1>1
          <5> QED BY <5>3, <5>4, <5>5 DEF z
        <4>2. Cosine(n, a * f) = Cosine(M, f) /\ Sine(n, a * f) = Sine(M, f)
          <5>1. Turns(a * M) /\ M \in Nat \ {0} /\ f \in Int
            BY <1>1, <1>3
          <5> HIDE DEF M
          <5>2. Cosine(a * M, a * f) = Cosine(M, f) /\ Sine(a * M, a * f) = Sine(M, f)
            BY <5>1, AngleFiner
          <5> QED BY <5>2, <1>1
        <4> HIDE DEF z
        <4>3. z \in 0..(n + q - 1) /\ z + q \in 0..(n + q - 1) /\ z + q \in Int
          BY <4>1, <1>1
        <4> DEFINE y == z + q
        <4>4. tbl[z] = Sine(n, z) /\ tbl[y] = Sine(n, y)
          <5> HIDE DEF y
          <5>1. y \in 0..(n + q - 1)
            BY <4>3 DEF y
          <5> QED BY <4>3, <5>1, SinesAre
        <4>5. Sine(n, z + q) = Cosine(n, z)
          <5>1. Turns(4 * q)
            BY <1>3
          <5>2. Sine(4 * q, z + q) = Cosine(4 * q, z)
            BY <5>1, <4>1, AngleLaws
          <5> QED BY <5>2
        <4>6. c \in Int /\ s \in Int
          <5> HIDE DEF M
          <5> QED BY <4>1, AngleType
        <4> QED BY <4>1, <4>2, <4>4, <4>5, <4>6 DEF y
      <3> HIDE DEF i, l, X0, Y0, X1, Y1, c, s, tbl
      <3>5. (i % m) * (n \div (2 * m)) = z
        BY <3>3, <1>2
      <3>6. i % (2 * m) < m /\ ~ (l % (2 * m) < m)
        BY <3>3, <1>1
      <3>7. after = [x |-> [j \in 0..(n - 1) |->
                        (IF j % (2 * m) < m
                         THEN u[j] + (tbl[(j % m) * (n \div (2 * m))] * v[j + m]
                                      + tbl[(j % m) * (n \div (2 * m)) + n \div 4] * u[j + m])
                         ELSE u[j - m] - (tbl[((j - m) % m) * (n \div (2 * m))] * v[(j - m) + m]
                                      + tbl[((j - m) % m) * (n \div (2 * m)) + n \div 4] * u[(j - m) + m])) % P],
                     y |-> [j \in 0..(n - 1) |->
                        (IF j % (2 * m) < m
                         THEN v[j] + (tbl[(j % m) * (n \div (2 * m)) + n \div 4] * v[j + m]
                                      - tbl[(j % m) * (n \div (2 * m))] * u[j + m])
                         ELSE v[j - m] - (tbl[((j - m) % m) * (n \div (2 * m)) + n \div 4] * v[(j - m) + m]
                                      - tbl[((j - m) % m) * (n \div (2 * m))] * u[(j - m) + m])) % P]]
        BY DEF Butterflies, tbl
      <3> DEFINE ii == i
      <3>8. i + m = l /\ (l - m) + m = l
        <4>1. l - m = i
          BY <3>3
        <4> QED BY <4>1 DEF l
      <3> HIDE DEF after, z, ii
      <3>9. after.x[i] = Mod(u[i] + (tbl[z] * v[l] + tbl[z + q] * u[l]))
            /\ after.y[i] = Mod(v[i] + (tbl[z + q] * v[l] - tbl[z] * u[l]))
        BY <3>3, <3>5, <3>6, <3>7, <3>8, <1>1 DEF Mod
      <3>10. after.x[l] = Mod(u[i] - (tbl[z] * v[l] + tbl[z + q] * u[l]))
            /\ after.y[l] = Mod(v[i] - (tbl[z + q] * v[l] - tbl[z] * u[l]))
        BY <3>3, <3>5, <3>6, <3>7, <3>8, <1>1 DEF Mod
      <3>11. /\ X0 \in Int /\ Y0 \in Int /\ X1 \in Int /\ Y1 \in Int /\ c \in Int /\ s \in Int
             /\ after.x[i] = Mod(Mod(X0) + (s * Mod(Y1) + c * Mod(X1)))
             /\ after.y[i] = Mod(Mod(Y0) + (c * Mod(Y1) - s * Mod(X1)))
             /\ after.x[i + m] = Mod(Mod(X0) - (s * Mod(Y1) + c * Mod(X1)))
             /\ after.y[i + m] = Mod(Mod(Y0) - (c * Mod(Y1) - s * Mod(X1)))
        BY <3>1, <3>2, <3>4, <3>8, <3>9, <3>10
      <3> QED BY <3>11 DEF i, X0, Y0, X1, Y1, c, s
    <2>3. CASE F < m
      <3> DEFINE f == F
                 X0 == Sum(ReTerm(n, r, x, m, b0, f), m)
                 Y0 == Sum(ImTerm(n, r, x, m, b0, f), m)
                 X1 == Sum(ReTerm(n, r, x, m, b1, f), m)
                 Y1 == Sum(ImTerm(n, r, x, m, b1, f), m)
                 c == Cosine(M, f)
                 s == Sine(M, f)
                 XX == Sum(ReTerm(n, r, x, M, B, F), M)
                 YY == Sum(ImTerm(n, r, x, M, B, F), M)
      <3>1. F \in 0..(m - 1) /\ F \in Int /\ 0 \in Int /\ F + 0 * m = F
        BY <2>3, <1>1
      <3>2. /\ Same(XX, X0 + (c * X1 + s * Y1))
            /\ Same(YY, Y0 + (c * Y1 + (0 - s) * X1))
        <4> DEFINE g == F + 0 * m
        <4>1. LET cc == Cosine(2 * m, g)
                  ss == Sine(2 * m, g)
              IN  /\ Same(Sum(ReTerm(n, r, x, 2 * m, B, g), 2 * m), X0 + (cc * X1 + ss * Y1))
                  /\ Same(Sum(ImTerm(n, r, x, 2 * m, B, g), 2 * m), Y0 + (cc * Y1 + (0 - ss) * X1))
          BY <3>1, BlockSum
        <4>2. g = F
          BY <3>1
        <4> QED BY <4>1, <4>2
      <3>3. /\ X0 \in Int /\ Y0 \in Int /\ X1 \in Int /\ Y1 \in Int /\ c \in Int /\ s \in Int
            /\ after.x[B * M + F] = Mod(Mod(X0) + (s * Mod(Y1) + c * Mod(X1)))
            /\ after.y[B * M + F] = Mod(Mod(Y0) + (c * Mod(Y1) - s * Mod(X1)))
        BY <2>2, <3>1
      <3> HIDE DEF after, X0, Y0, X1, Y1, c, s, XX, YY
      <3>4. /\ Mod(Mod(X0) + (s * Mod(Y1) + c * Mod(X1))) = Mod(X0 + (c * X1 + s * Y1))
            /\ Mod(Mod(Y0) + (c * Mod(Y1) - s * Mod(X1))) = Mod(Y0 + (c * Y1 + (0 - s) * X1))
        <4>1. X0 \in Int /\ Y0 \in Int /\ X1 \in Int /\ Y1 \in Int /\ c \in Int /\ s \in Int
          BY <3>3
        <4>2. Rounded(X0, Y0, X1, Y1, c, s)
          BY ONLY <4>1, Butterfly
        <4> QED BY ONLY <4>2 DEF Rounded
      <3>5. after.x[B * M + F] = Mod(XX) /\ after.y[B * M + F] = Mod(YY)
        BY <3>2, <3>3, <3>4 DEF Same
      <3> QED BY <3>5 DEF XX, YY
    <2>4. CASE ~ (F < m)
      <3> DEFINE f == F - m
                 X0 == Sum(ReTerm(n, r, x, m, b0, f), m)
                 Y0 == Sum(ImTerm(n, r, x, m, b0, f), m)
                 X1 == Sum(ReTerm(n, r, x, m, b1, f), m)
                 Y1 == Sum(ImTerm(n, r, x, m, b1, f), m)
                 c == Cosine(M, f)
                 s == Sine(M, f)
                 cF == Cosine(M, F)
                 sF == Sine(M, F)
                 XX == Sum(ReTerm(n, r, x, M, B, F), M)
                 YY == Sum(ImTerm(n, r, x, M, B, F), M)
      <3>1. f \in 0..(m - 1) /\ f \in Int /\ 1 \in Int /\ f + 1 * m = F /\ f + m = F /\ F \in Int
            /\ (B * M + f) + m = B * M + F
        BY <2>4, <1>1
      <3> HIDE DEF f
      <3>2. /\ Same(XX, X0 + (cF * X1 + sF * Y1))
            /\ Same(YY, Y0 + (cF * Y1 + (0 - sF) * X1))
        <4> DEFINE g == f + 1 * m
        <4>1. LET cc == Cosine(2 * m, g)
                  ss == Sine(2 * m, g)
              IN  /\ Same(Sum(ReTerm(n, r, x, 2 * m, B, g), 2 * m), X0 + (cc * X1 + ss * Y1))
                  /\ Same(Sum(ImTerm(n, r, x, 2 * m, B, g), 2 * m), Y0 + (cc * Y1 + (0 - ss) * X1))
          BY <3>1, BlockSum
        <4>2. g = F
          BY <3>1
        <4> QED BY <4>1, <4>2
      <3>3. /\ X0 \in Int /\ Y0 \in Int /\ X1 \in Int /\ Y1 \in Int /\ c \in Int /\ s \in Int
            /\ after.x[(B * M + f) + m] = Mod(Mod(X0) - (s * Mod(Y1) + c * Mod(X1)))
            /\ after.y[(B * M + f) + m] = Mod(Mod(Y0) - (c * Mod(Y1) - s * Mod(X1)))
        <4> HIDE DEF after
        <4> QED BY <2>2, <3>1
      <3>4. Same(cF, 0 - c) /\ Same(sF, 0 - s) /\ cF \in Int /\ sF \in Int
        <4>1. n = a * (2 * m) /\ Turns(M)
          BY <1>1 DEF Blocks
        <4>2. Same(Cosine(2 * m, f + m), 0 - Cosine(2 * m, f))
              /\ Same(Sine(2 * m, f + m), 0 - Sine(2 * m, f))
          <5>1. Halves(n, q, a, m) /\ f \in Int
            BY <4>1, <1>1, <1>3, <3>1 DEF Halves
          <5>2. Opposite(m, f)
            BY ONLY <5>1, AngleTurn
          <5> QED BY <5>2 DEF Opposite
        <4>3. cF \in Int /\ sF \in Int
          <5> HIDE DEF M
          <5> QED BY <4>1, <3>1, AngleType
        <4> QED BY <4>2, <4>3, <3>1
      <3> HIDE DEF after, X0, Y0, X1, Y1, c, s, cF, sF, XX, YY
      <3>5. /\ Mod(Mod(X0) - (s * Mod(Y1) + c * Mod(X1))) = Mod(X0 + ((0 - c) * X1 + (0 - s) * Y1))
            /\ Mod(Mod(Y0) - (c * Mod(Y1) - s * Mod(X1))) = Mod(Y0 + ((0 - c) * Y1 + s * X1))
        <4>1. X0 \in Int /\ Y0 \in Int /\ X1 \in Int /\ Y1 \in Int /\ c \in Int /\ s \in Int
          BY <3>3
        <4>2. Rounded(X0, Y0, X1, Y1, c, s)
          BY ONLY <4>1, Butterfly
        <4> QED BY ONLY <4>2 DEF Rounded
      <3>6. Same(X0 + (cF * X1 + sF * Y1), X0 + ((0 - c) * X1 + (0 - s) * Y1))
            /\ Same(Y0 + (cF * Y1 + (0 - sF) * X1), Y0 + ((0 - c) * Y1 + s * X1))
        <4> DEFINE d == 0 - c
                   e == 0 - s
                   g == 0 - sF
        <4>1. d \in Int /\ e \in Int /\ g \in Int /\ Same(cF, d) /\ Same(sF, e)
          BY <3>3, <3>4
        <4>2. Same(g, s)
          <5>1. Same(0 - sF, 0 - e)
            <6> HIDE DEF e
            <6> QED BY <3>4, <4>1, SameOps, SameRefl, 0 \in Int
          <5>2. 0 - e = s
            BY <3>3
          <5> QED BY <5>1, <5>2
        <4> HIDE DEF d, e, g
        <4>3. Same(X0 + (cF * X1 + sF * Y1), X0 + (d * X1 + e * Y1))
          BY <3>3, <3>4, <4>1, HalfOn
        <4>4. Same(Y0 + (cF * Y1 + g * X1), Y0 + (d * Y1 + s * X1))
          BY <3>3, <3>4, <4>1, <4>2, HalfOn
        <4> QED BY <4>3, <4>4 DEF d, e, g
      <3>7. after.x[B * M + F] = Mod(XX) /\ after.y[B * M + F] = Mod(YY)
        BY <3>1, <3>2, <3>3, <3>5, <3>6 DEF Same
      <3> QED BY <3>7 DEF XX, YY
    <2> QED BY <2>3, <2>4
  <1> HIDE DEF after, M
  <1>5. Dft(n, r, x, M, a, after.x, after.y)
    BY <1>4 DEF Dft
  <1> QED BY <1>5 DEF after, M

-----------------------------------------------------------------------------
(* What the constructor's arguments and the waveform allow.                *)

\* The arguments as they were given to the constructor.
Given ==
    /\ frame_length \in FrameLengths /\ num_bins \in NumBins /\ wave \in Waves(frame_length)
    /\ fft_points = UpperPowerOfTwo(frame_length)

\* The transform is long enough for the frame, and the circle for it.
LEMMA GivenIs ==
    ASSUME Given
    PROVE  /\ frame_length \in Nat \ {0} /\ frame_length \in 3..(P - 1)
           /\ num_bins \in Nat \ {0} /\ wave \in Seq(Int)
           /\ fft_points \in Nat \ {0} /\ frame_length <= fft_points /\ Power(fft_points)
           /\ Turns(2 * fft_points) /\ Turns(fft_points)
           /\ \E q \in Nat \ {0} : fft_points = 4 * q
  <1>1. /\ frame_length \in 3..(P - 1) /\ (P - 1) % (2 * fft_points) = 0
        /\ wave \in Seq(Int) /\ num_bins \in Nat \ {0}
    BY FeaturesAssumption DEF Given
  <1>2. frame_length \in Nat \ {0} /\ frame_length > 2
    BY <1>1, PType
  <1>3. /\ fft_points \in frame_length..(2 * frame_length - 1) /\ Power(fft_points)
        /\ \E q \in Nat \ {0} : fft_points = 4 * q
    BY <1>2, UpperPowerIs DEF Given
  <1>4. fft_points \in Nat \ {0} /\ 2 * fft_points \in Nat \ {0} /\ 2 \in Nat \ {0} /\ 1 \in Int
    BY <1>2, <1>3
  <1>5. Turns(2 * fft_points)
    BY <1>1, <1>4, StepsType DEF Turns
  <1>6. Turns(fft_points)
    BY <1>4, <1>5, AngleFiner
  <1> QED BY <1>1, <1>2, <1>3, <1>4, <1>5, <1>6

\* A frame's samples are within the waveform.
LEMMA FramesType ==
    ASSUME Given
    PROVE  /\ num_frames \in Nat
           /\ \A i \in 0..(num_frames - 1) : \A j \in Samples : Slice(i)[j] \in Int
  <1>1. /\ frame_length \in Nat \ {0} /\ wave \in Seq(Int) /\ Len(wave) \in Nat
        /\ frame_shift \in Nat \ {0}
    BY GivenIs, FeaturesAssumption
  <1> DEFINE rest == Len(wave) - frame_length
             q == rest \div frame_shift
  <1>2. rest \in Int /\ q \in Int /\ q * frame_shift <= rest /\ (rest >= 0 => q >= 0)
    BY <1>1, SMT
  <1> HIDE DEF q
  <1>3. num_frames \in Nat /\ (num_frames > 0 => num_frames = 1 + q)
    BY <1>1, <1>2 DEF num_frames, q
  <1>4. ASSUME NEW i \in 0..(num_frames - 1), NEW j \in Samples
        PROVE  Slice(i)[j] \in Int
    <2>1. num_frames = 1 + q /\ i \in 0..q /\ j \in Nat /\ j < frame_length
      BY <1>1, <1>2, <1>3 DEF Samples
    <2> DEFINE s == i * frame_shift
    <2>2. s \in Nat /\ s <= rest
      <3>1. i * frame_shift <= q * frame_shift
        BY <1>1, <1>2, <2>1
      <3>2. s \in Nat /\ q * frame_shift \in Int
        BY <1>1, <1>2, <2>1
      <3> QED BY <1>2, <3>1, <3>2
    <2>3. Slice(i)[j] = wave[(s + j) + 1]
      BY DEF Slice
    <2> HIDE DEF s
    <2>4. (s + j) + 1 \in 1..Len(wave)
      BY <1>1, <2>1, <2>2
    <2> QED BY <1>1, <2>3, <2>4
  <1> QED BY <1>3, <1>4

\* Pre-emphasis, mean and window leave samples of the field.
LEMMA ConditionedType ==
    ASSUME Given, NEW i \in 0..(num_frames - 1)
    PROVE  \A j \in Samples : Conditioned(i)[j] \in Field
  <1>1. frame_length \in Nat \ {0} /\ frame_length \in 3..(P - 1) /\ Samples = 0..(frame_length - 1)
    BY GivenIs DEF Samples
  <1> DEFINE x == Slice(i)
             mean == Total(x, frame_length) * Reciprocal(frame_length)
             y == RemoveDcOffset(x)
             z == PreEmphasis(y)
  <1>2. \A j \in Samples : x[j] \in Int
    BY FramesType
  <1>3. Terms(x, frame_length)
    BY <1>1, <1>2 DEF Terms
  <1>4. mean \in Int
    <2>1. Sum(x, frame_length) \in Int
      BY <1>1, <1>3, SumStep
    <2>2. Total(x, frame_length) \in Int
      BY <2>1, ModType DEF Total, Mod
    <2>3. Reciprocal(frame_length) \in Int
      <3>1. frame_length \in Field /\ frame_length # 0
        BY <1>1, PType DEF Field
      <3>2. Mod(frame_length) # 0 /\ frame_length \in Int
        BY <3>1, ModOfField
      <3> QED BY <3>2, ReciprocalIs
    <2> HIDE DEF x
    <2> QED BY <2>2, <2>3
  <1>5. \A j \in Samples : y[j] \in Int
    <2> HIDE DEF x
    <2>1. ASSUME NEW j \in Samples PROVE y[j] \in Int
      <3>1. y[j] = Mod(x[j] - mean)
        BY DEF RemoveDcOffset, Mod
      <3> HIDE DEF mean, y
      <3>2. x[j] - mean \in Int
        BY <1>2, <1>4
      <3> QED BY <3>1, <3>2, ModType
    <2> QED BY <2>1
  <1> HIDE DEF y
  <1>6. \A j \in Samples : z[j] \in Int
    <2>1. ASSUME NEW j \in Samples PROVE z[j] \in Int
      <3> DEFINE l == IF j = 0 THEN 0 ELSE j - 1
      <3>1. z[j] = Mod(y[j] - Coeff * y[l])
        BY DEF PreEmphasis, Mod
      <3>2. l \in Samples
        BY <1>1
      <3> HIDE DEF z, l
      <3>3. y[j] \in Int /\ y[l] \in Int /\ Coeff \in Int
        BY <1>5, <3>2, FeaturesAssumption
      <3>4. y[j] - Coeff * y[l] \in Int
        BY <3>3
      <3> QED BY <3>1, <3>4, ModType
    <2> QED BY <2>1
  <1> HIDE DEF z
  <1>7. ASSUME NEW j \in Samples PROVE Conditioned(i)[j] \in Field
    <2>1. Conditioned(i)[j] = Mod(z[j] * Window(frame_length, j))
      BY DEF Conditioned, ApplyWindow, Mod, z, y
    <2>2. Window(frame_length, j) \in Int /\ z[j] \in Int
      BY <1>1, <1>6, FeaturesAssumption DEF Given
    <2>3. z[j] * Window(frame_length, j) \in Int
      BY <2>2
    <2> QED BY <2>1, <2>3, ModType
  <1> QED BY <1>7

\* And the zeroes after them.
LEMMA PaddedType ==
    ASSUME Given, NEW i \in 0..(num_frames - 1)
    PROVE  /\ Padded(i) = [j \in 0..(fft_points - 1) |-> Padded(i)[j]]
           /\ \A j \in 0..(fft_points - 1) : Padded(i)[j] \in Field /\ Padded(i)[j] \in Int
  <1>1. 0 \in Field
    BY PType DEF Field
  <1>2. \A j \in Samples : Conditioned(i)[j] \in Field
    BY ConditionedType
  <1> DEFINE y == Conditioned(i)
  <1>3. Padded(i) = [j \in 0..(fft_points - 1) |-> IF j \in Samples THEN y[j] ELSE 0]
    BY DEF Padded, Places
  <1> HIDE DEF y
  <1>4. \A j \in Samples : y[j] \in Field
    BY <1>2 DEF y
  <1> QED BY <1>1, <1>3, <1>4, ModOfField

-----------------------------------------------------------------------------
(* The transform of a frame, from the filled buffers to the last step.     *)

\* The tables are those the constructor makes.
Truly == bitrev = make_bitrev(fft_points) /\ sintbl = make_sintbl(fft_points)

\* Between two steps every block of m has the transform of its samples.
Between(re, im, m) ==
    /\ m \in Nat \ {0} /\ fft_points % m = 0
    /\ Dft(fft_points, bitrev, Padded(frame), m, fft_points \div m, re, im)

\* The frame's samples and the tables: blocks of any size that divides.
LEMMA BlocksOfFrame ==
    ASSUME Given, Truly, frame \in 0..(num_frames - 1), NEW m \in Nat \ {0}, NEW a \in Nat \ {0},
           fft_points = a * m
    PROVE  Blocks(fft_points, bitrev, Padded(frame), m, a)
  <1>1. fft_points \in Nat \ {0} /\ Power(fft_points) /\ Turns(fft_points)
    BY GivenIs
  <1>2. Turns(a * m) /\ 1 \in Int
    BY <1>1
  <1>3. Turns(m)
    BY ONLY <1>2, m \in Nat \ {0}, a \in Nat \ {0}, AngleFiner
  <1>4. Reversal(fft_points, fft_points, bitrev)
    BY <1>1, BitrevIs DEF Truly
  <1> QED BY <1>1, <1>3, <1>4, PaddedType DEF Blocks

\* A sum of one term.
LEMMA SumOne ==
    ASSUME NEW f, f[0] \in Int
    PROVE  Sum(f, 1) = f[0]
  <1>1. Terms(f, 1) /\ 1 \in Nat
    BY DEF Terms
  <1> QED BY <1>1, SumStep

\* Single samples are their own transforms.
LEMMA FirstBlocks ==
    ASSUME Given, Truly, frame \in 0..(num_frames - 1)
    PROVE  Between(BitReversed(fft_points, bitrev, Padded(frame)),
                   BitReversed(fft_points, bitrev, [i \in Places |-> 0]), 1)
  <1> DEFINE n == fft_points
             x == Padded(frame)
             zero == [i \in 0..(n - 1) |-> 0]
             u == BitReversed(n, bitrev, x)
             v == BitReversed(n, bitrev, zero)
  <1>1. n \in Nat \ {0} /\ Power(n) /\ bitrev = make_bitrev(n) /\ Turns(n)
    BY GivenIs DEF Truly
  <1>2. x = [i \in 0..(n - 1) |-> x[i]]
        /\ \A i \in 0..(n - 1) : x[i] \in Field /\ x[i] \in Int
    BY PaddedType
  <1>3. n % 1 = 0 /\ n \div 1 = n /\ n = n * 1 /\ 1 \in Nat \ {0} /\ 1 \in Int
    BY <1>1, Divides
  <1>4. Turns(1) /\ Cosine(1, 0) = 1 /\ Sine(1, 0) = 0
    <2>1. Blocks(n, bitrev, x, 1, n)
      BY <1>1, <1>3, BlocksOfFrame
    <2> QED BY <2>1, AngleZero DEF Blocks
  <1> HIDE DEF x
  <1>5. u = [i \in 0..(n - 1) |-> x[bitrev[i]]]
    <2> HIDE DEF n
    <2>1. BitReversed(n, make_bitrev(n), x) = [i \in 0..(n - 1) |-> x[make_bitrev(n)[i]]]
      BY <1>1, <1>2, BitReversedIs
    <2> QED BY <1>1, <2>1
  <1>6. v = [i \in 0..(n - 1) |-> zero[bitrev[i]]]
    <2>1. zero = [i \in 0..(n - 1) |-> zero[i]]
      OBVIOUS
    <2> HIDE DEF zero, n
    <2>2. BitReversed(n, make_bitrev(n), zero) = [i \in 0..(n - 1) |-> zero[make_bitrev(n)[i]]]
      BY <1>1, <2>1, BitReversedIs
    <2> QED BY <1>1, <2>2
  <1>7. \A i \in 0..(n - 1) : bitrev[i] \in 0..(n - 1)
    BY <1>1, BitrevType
  <1> HIDE DEF u, v, n
  <1>8. ASSUME NEW b \in 0..(n - 1), NEW f \in 0..(1 - 1)
        PROVE  /\ u[b * 1 + f] = Mod(Sum(ReTerm(n, bitrev, x, 1, b, f), 1))
               /\ v[b * 1 + f] = Mod(Sum(ImTerm(n, bitrev, x, 1, b, f), 1))
    <2> DEFINE R == ReTerm(n, bitrev, x, 1, b, f)
               I == ImTerm(n, bitrev, x, 1, b, f)
    <2>1. b * 1 + f = b /\ f = 0 /\ b * 1 = b /\ f * 0 = 0 /\ b \in Int
      OBVIOUS
    <2>2. x[bitrev[b]] \in Field /\ x[bitrev[b]] \in Int /\ bitrev[b] \in 0..(n - 1)
      BY <1>2, <1>7
    <2>3. R[0] = x[bitrev[b] + 0 * n] * 1 /\ I[0] = x[bitrev[b] + 0 * n] * (0 - 0)
      BY <1>3, <1>4, <2>1 DEF ReTerm, ImTerm
    <2>4. bitrev[b] + 0 * n = bitrev[b]
      BY <1>1, <2>2
    <2>5. R[0] = x[bitrev[b]] /\ I[0] = 0
      <3> DEFINE y == x[bitrev[b]]
      <3>1. R[0] = y * 1 /\ I[0] = y * (0 - 0)
        BY <2>3, <2>4
      <3>2. y \in Int
        BY <2>2
      <3> HIDE DEF y, R, I
      <3>3. R[0] = y /\ I[0] = 0
        BY <3>1, <3>2
      <3> QED BY <3>3 DEF y
    <2> HIDE DEF R, I
    <2>6. Sum(R, 1) = x[bitrev[b]] /\ Sum(I, 1) = 0
      BY <2>2, <2>5, SumOne
    <2>7. u[b] = x[bitrev[b]] /\ v[b] = 0
      BY <1>5, <1>6, <1>7
    <2>8. Mod(x[bitrev[b]]) = x[bitrev[b]] /\ Mod(0) = 0
      BY <2>2, ModOfField, PType DEF Field
    <2> QED BY <2>1, <2>6, <2>7, <2>8 DEF R, I
  <1>9. Dft(n, bitrev, x, 1, n \div 1, u, v)
    BY <1>3, <1>8 DEF Dft
  <1>10. Between(u, v, 1)
    BY <1>3, <1>9 DEF Between, n, x
  <1> QED BY <1>10 DEF u, v, n, x, Places

\* The butterflies make blocks twice as long.
LEMMA NextBlocks ==
    ASSUME Given, Truly, frame \in 0..(num_frames - 1), NEW m, NEW u, NEW v,
           Between(u, v, m), m < fft_points
    PROVE  LET after == Butterflies(fft_points, sintbl, u, v, m)
           IN  Between(after.x, after.y, 2 * m)
  <1> DEFINE n == fft_points
             x == Padded(frame)
             A == n \div m
             a == A \div 2
             after == Butterflies(n, sintbl, u, v, m)
  <1>1. n \in Nat \ {0} /\ n \in Int /\ Power(n) /\ Turns(2 * n) /\ m \in Nat \ {0} /\ n % m = 0
        /\ m < n
    BY GivenIs DEF Between
  <1> HIDE DEF n, x
  <1>2. n = A * m /\ A \in Int
    BY <1>1, Divides, Division
  <1> HIDE DEF A
  <1>3. A \in Nat /\ A > 1
    BY <1>1, <1>2
  <1>4. n % A = 0
    <2>1. n = m * A /\ m \in Int /\ A \in Nat \ {0} /\ n \in Int
      BY <1>1, <1>2, <1>3
    <2> QED BY ONLY <2>1, Divides
  <1>5. Power(A)
    BY <1>1, <1>3, <1>4, PowerDivisor
  <1>6. A = 2 * a /\ a \in Nat \ {0}
    <2>1. A = 2 * a
      BY <1>3, <1>5, PowerHalf
    <2> QED BY <2>1, <1>3
  <1> HIDE DEF a
  <1>7. n = (2 * a) * m /\ n = a * (2 * m) /\ 2 * m \in Nat \ {0} /\ 2 * a \in Nat \ {0}
    BY <1>1, <1>2, <1>6
  <1>8. Blocks(n, bitrev, x, 2 * m, a) /\ Blocks(n, bitrev, x, m, 2 * a)
    <2> DEFINE M == 2 * m
    <2>1. M \in Nat \ {0} /\ a \in Nat \ {0} /\ fft_points = a * M
          /\ A \in Nat \ {0} /\ m \in Nat \ {0} /\ fft_points = A * m
      BY <1>1, <1>2, <1>3, <1>6, <1>7 DEF n
    <2> HIDE DEF M
    <2>2. Blocks(n, bitrev, x, M, a) /\ Blocks(n, bitrev, x, m, A)
      BY <2>1, BlocksOfFrame DEF n, x
    <2> QED BY <2>2, <1>6 DEF M
  <1>9. n % (2 * m) = 0 /\ n \div (2 * m) = a
    <2> DEFINE M == 2 * m
    <2>1. n = a * M /\ M \in Nat \ {0} /\ n \in Int /\ a \in Int
      BY <1>1, <1>6, <1>7
    <2> HIDE DEF M
    <2>2. n % M = 0 /\ n \div M = a
      BY ONLY <2>1, Divides
    <2> QED BY <2>2 DEF M
  <1>10. Dft(n, bitrev, x, m, 2 * a, u, v)
    BY <1>6 DEF Between, n, x, A
  <1>11. PICK q \in Nat \ {0} : n = 4 * q
    BY GivenIs DEF n
  <1>12. Dft(n, bitrev, x, 2 * m, a, after.x, after.y)
    <2>1. sintbl = make_sintbl(n)
      BY DEF Truly, n
    <2> QED BY <1>1, <1>6, <1>8, <1>10, <1>11, <2>1, ButterflyStep
  <1> HIDE DEF after
  <1>13. Between(after.x, after.y, 2 * m)
    BY <1>7, <1>9, <1>12 DEF Between, n, x
  <1> QED BY <1>13 DEF after, n

-----------------------------------------------------------------------------
(* The spectrum, when one block is left.                                   *)

\* One block: its squared lengths are the power spectrum of the frame.
LEMMA LastBlock ==
    ASSUME Given, Truly, frame \in 0..(num_frames - 1), NEW u, NEW v,
           Between(u, v, fft_points), NEW f \in SpectrumBins
    PROVE  /\ (u[f] * u[f] + v[f] * v[f]) % P = Spectrum(frame)[f]
           /\ Spectrum(frame)[f] \in Int
  <1> DEFINE n == fft_points
             x == Padded(frame)
             R == [j \in 0..(n - 1) |-> x[j] * Cosine(n, f * j)]
             S0 == [j \in 0..(n - 1) |-> x[j] * Sine(n, f * j)]
             I == ImTerm(n, bitrev, x, n, 0, f)
             re == Sum(R, n)
             im == Sum(S0, n)
             neg == Sum(I, n)
  <1>1. /\ n \in Nat \ {0} /\ Turns(n) /\ f \in Int /\ f \in 0..(n - 1) /\ n \div n = 1 /\ n = 1 * n
        /\ bitrev[0] = 0
    <2>1. n \in Nat \ {0} /\ Turns(n) /\ Power(n) /\ \E q \in Nat \ {0} : n = 4 * q
      BY GivenIs
    <2>2. n = 1 * n /\ n \in Int /\ 1 \in Int
      BY <2>1
    <2>3. n \div n = 1
      BY ONLY <2>1, <2>2, Divides
    <2>4. bitrev[0] = 0
      BY <2>1, BitrevIs DEF Truly, Reversal
    <2>5. f \in Int /\ f \in 0..(n - 1)
      <3> HIDE DEF n
      <3>1. f \in 0..(n \div 2 - 1)
        BY DEF SpectrumBins, n
      <3> QED BY <2>1, <3>1
    <2> QED BY <2>1, <2>2, <2>3, <2>4, <2>5
  <1>2. \A j \in 0..(n - 1) : x[j] \in Int
    BY PaddedType
  <1> HIDE DEF x
  <1>3. \A j \in 0..(n - 1) :
            /\ Cosine(n, f * j) \in Int /\ Sine(n, f * j) \in Int
            /\ x[bitrev[0 * n] + j * (n \div n)] = x[j]
    <2> TAKE j \in 0..(n - 1)
    <2> DEFINE l == f * j
    <2>1. l \in Int /\ 0 * n = 0
      BY <1>1
    <2> HIDE DEF l
    <2>2. Cosine(n, l) \in Int /\ Sine(n, l) \in Int
      BY <1>1, <2>1, AngleType
    <2>3. bitrev[0 * n] + j * (n \div n) = j
      BY <1>1, <2>1
    <2> QED BY <2>2, <2>3 DEF l
  <1> HIDE DEF n
  <1>4. ReTerm(n, bitrev, x, n, 0, f) = R
    BY <1>3 DEF ReTerm
  <1>5. \A j \in 0..(n - 1) : R[j] \in Int /\ S0[j] \in Int /\ I[j] \in Int /\ I[j] = (0 - 1) * S0[j] + 0 * S0[j]
    <2> TAKE j \in 0..(n - 1)
    <2> DEFINE c == Cosine(n, f * j)
               s == Sine(n, f * j)
               y == x[j]
    <2>1. R[j] = y * c /\ S0[j] = y * s /\ I[j] = y * (0 - s)
      BY <1>3 DEF ImTerm
    <2>2. y \in Int /\ c \in Int /\ s \in Int
      BY <1>2, <1>3
    <2> HIDE DEF R, S0, I, c, s, y
    <2> QED BY <2>1, <2>2
  <1> HIDE DEF R, S0, I
  <1>6. Terms(R, n) /\ Terms(S0, n) /\ Terms(I, n)
    BY <1>5 DEF Terms
  <1>7. re \in Int /\ im \in Int /\ neg \in Int
    BY <1>1, <1>6, SumStep
  <1>8. Same(neg, 0 - im)
    <2>1. \A j \in 0..(n - 1) : Same(I[j], (0 - 1) * S0[j] + 0 * S0[j])
      BY <1>5 DEF Same
    <2>2. Same(neg, (0 - 1) * im + 0 * im)
      <3> DEFINE c == 0 - 1
                 z == 0
      <3>1. c \in Int /\ z \in Int /\ n \in Nat
            /\ \A j \in 0..(n - 1) : Same(I[j], c * S0[j] + z * S0[j])
        BY <1>1, <2>1
      <3> HIDE DEF c, z
      <3>2. Same(Sum(I, n), c * Sum(S0, n) + z * Sum(S0, n))
        BY ONLY <1>6, <3>1, SumLinear
      <3> QED BY <3>2 DEF c, z
    <2> HIDE DEF im
    <2>3. (0 - 1) * im + 0 * im = 0 - im
      BY <1>7
    <2> QED BY <2>2, <2>3
  <1>9. u[f] = Mod(re) /\ v[f] = Mod(neg)
    <2>1. Dft(n, bitrev, x, n, 1, u, v)
      BY <1>1 DEF Between, n, x
    <2>2. 0 \in 0..(1 - 1) /\ 0 * n + f = f
      BY <1>1
    <2>3. /\ u[0 * n + f] = Mod(Sum(ReTerm(n, bitrev, x, n, 0, f), n))
          /\ v[0 * n + f] = Mod(Sum(ImTerm(n, bitrev, x, n, 0, f), n))
      BY <1>1, <2>1, <2>2 DEF Dft
    <2> QED BY <1>4, <2>2, <2>3 DEF I
  <1>10. Spectrum(frame)[f] = Mod(Mod(re) * Mod(re) + Mod(im) * Mod(im))
    BY DEF Spectrum, Total, Mod, Places, re, im, R, S0, n, x
  <1> HIDE DEF re, im, neg
  <1> DEFINE a == Mod(re)
             b == Mod(im)
             c == Mod(neg)
             d == 0 - im
  <1>11. a \in Int /\ b \in Int /\ c \in Int /\ d \in Int /\ Same(b, im) /\ Same(c, neg)
         /\ Same(im, b)
    BY <1>7, ModType, SameRefl
  <1> DEFINE e == 0 - b
  <1>12. Same(c, e) /\ e \in Int
    <2>1. Same(c, d)
      BY <1>8, <1>11 DEF Same
    <2>2. Same(d, 0 - b)
      BY <1>7, <1>11, SameOps, SameRefl, 0 \in Int
    <2> HIDE DEF b, c, d
    <2> QED BY <1>11, <2>1, <2>2 DEF Same
  <1> HIDE DEF a, b, c, d
  <1>13. e * e = b * b
    BY <1>11
  <1> HIDE DEF e
  <1> DEFINE aa == a * a
             bb == b * b
             cc == c * c
  <1>14. Same(cc, e * e) /\ Same(aa, aa) /\ aa \in Int /\ bb \in Int /\ cc \in Int
    BY <1>11, <1>12, SameOps, SameRefl
  <1>15. Same(cc, bb)
    BY <1>13, <1>14
  <1> HIDE DEF aa, bb, cc
  <1>16. Same(aa + cc, aa + bb) /\ aa + bb \in Int
    BY <1>14, <1>15, SameOps
  <1>17. Mod(aa + cc) = Mod(aa + bb) /\ Mod(aa + bb) \in Int
    BY <1>16, ModType DEF Same
  <1>18. (u[f] * u[f] + v[f] * v[f]) % P = Mod(aa + cc)
    BY <1>9 DEF Mod, aa, cc, a, c
  <1>19. Spectrum(frame)[f] = Mod(aa + bb)
    BY <1>10 DEF aa, bb, a, b
  <1> QED BY <1>17, <1>18, <1>19

-----------------------------------------------------------------------------
(* The filters.                                                            *)

\* Min and Max of a set of numbers that is bounded.
LEMMA LeastOf ==
    ASSUME NEW T \in SUBSET Int, NEW a \in Int, T # {}, \A i \in T : a <= i
    PROVE  Min(T) \in T /\ \A i \in T : Min(T) <= i
  <1> DEFINE U == {i - a : i \in T}
  <1>1. U \subseteq Nat /\ U # {}
    <2>1. \A i \in T : i - a \in Nat
      OBVIOUS
    <2> QED BY <2>1
  <1>2. PICK j \in U : \A l \in U : j <= l
    <2> HIDE DEF U
    <2> QED BY <1>1, LeastNatural
  <1>3. \E j0 \in T : \A i \in T : j0 <= i
    <2>1. PICK i \in T : j = i - a
      OBVIOUS
    <2>2. ASSUME NEW l \in T PROVE i <= l
      <3>1. l - a \in U
        OBVIOUS
      <3>2. j <= l - a
        BY <1>2, <3>1
      <3>3. i \in Int /\ l \in Int
        OBVIOUS
      <3> QED BY ONLY <2>1, <3>2, <3>3, a \in Int
    <2> QED BY <2>2
  <1> QED BY <1>3 DEF Min

LEMMA GreatestOf ==
    ASSUME NEW T \in SUBSET Int, NEW a \in Int, T # {}, \A i \in T : i <= a
    PROVE  Max(T) \in T /\ \A i \in T : i <= Max(T)
  <1> DEFINE U == {a - i : i \in T}
  <1>1. U \subseteq Nat /\ U # {}
    OBVIOUS
  <1>2. PICK j \in U : \A l \in U : j <= l
    <2> HIDE DEF U
    <2> QED BY <1>1, LeastNatural
  <1>3. \E j0 \in T : \A i \in T : i <= j0
    <2>1. PICK i \in T : j = a - i
      OBVIOUS
    <2>2. ASSUME NEW l \in T PROVE l <= i
      <3>1. a - l \in U
        OBVIOUS
      <3> QED BY <1>2, <2>1, <3>1
    <2> QED BY <2>2
  <1> QED BY <1>3 DEF Max

\* A filter's weights are those of the whole triangle.
LEMMA TriangleIs ==
    ASSUME Given, NEW bin \in 0..(num_bins - 1), NEW i \in SpectrumBins
    PROVE  /\ Triangle(bin, i) \in Int
           /\ Triangle(bin, i) = IF i \in Inside(bin) THEN Weight(bin, i) ELSE 0
  <1> DEFINE n == fft_points
             width == sample_rate \div n
             step == MelScale(sample_rate \div 2) - MelScale(low_freq)
             m == Mel(i)
             low == Corner(bin)
             mid == Corner(bin + 1)
             high == Corner(bin + 2)
  <1>1. n \in Nat \ {0} /\ sample_rate \in Nat /\ num_bins \in Nat \ {0} /\ i \in 0..(n \div 2 - 1)
    BY GivenIs, FeaturesAssumption DEF SpectrumBins
  <1>2. MelScale(width * i) \in Int /\ step \in Int /\ MelScale(low_freq) \in Int
    <2>1. width \in Nat /\ width * n <= sample_rate
      <3> HIDE DEF n
      <3> QED BY <1>1, SMT
    <2>2. 2 * i <= n /\ i \in Nat
      <3> HIDE DEF n
      <3> QED BY <1>1
    <2> HIDE DEF width, n
    <2>3. width * (2 * i) <= width * n
      BY <1>1, <2>1, <2>2
    <2> DEFINE w == width * i
    <2>4. w \in Nat /\ 2 * w <= sample_rate
      <3>1. width * (2 * i) = 2 * w /\ w \in Nat /\ width * n \in Int
        BY <1>1, <2>1, <2>2
      <3> HIDE DEF w
      <3> QED BY <1>1, <2>1, <2>3, <3>1
    <2> HIDE DEF w
    <2>5. w \in 0..(sample_rate \div 2) /\ sample_rate \div 2 \in 0..(sample_rate \div 2)
      BY <1>1, <2>4
    <2> QED BY <2>5, FeaturesAssumption DEF w
  <1>3. m \in Int /\ low \in Int /\ mid = low + step /\ high = mid + step
    <2> HIDE DEF step
    <2>1. m = MelScale(width * i) * (num_bins + 1)
      BY DEF Mel
    <2>2. /\ low = MelScale(low_freq) * (num_bins + 1) + bin * step
          /\ mid = MelScale(low_freq) * (num_bins + 1) + (bin + 1) * step
          /\ high = MelScale(low_freq) * (num_bins + 1) + (bin + 2) * step
      BY DEF Corner, step
    <2> HIDE DEF m, low, mid, high
    <2>3. m \in Int
      <3> DEFINE mel == MelScale(width * i)
      <3>1. mel \in Int /\ m = mel * (num_bins + 1)
        BY <1>2, <2>1
      <3> HIDE DEF mel
      <3> QED BY <1>1, <3>1
    <2>4. low \in Int /\ mid = low + step /\ high = mid + step
      BY <1>1, <1>2, <2>2
    <2> QED BY <2>3, <2>4
  <1>4. Inside(bin) = {l \in SpectrumBins : Corner(bin) < Mel(l) /\ Mel(l) < Corner(bin + 2)}
        /\ Weight(bin, i) = (IF m <= mid THEN m - low ELSE high - m)
        /\ Triangle(bin, i) = Max({0, Min({m - low, high - m})})
    BY DEF Inside, Weight, Triangle
  <1>5. i \in Inside(bin) <=> low < m /\ m < high
    BY <1>4
  <1> HIDE DEF m, low, mid, high, step
  <1> DEFINE a == m - low
             b == high - m
             T == {a, b}
  <1>6. a \in Int /\ b \in Int
    BY <1>2, <1>3
  <1>7. Min(T) = IF a <= b THEN a ELSE b
    <2> DEFINE c == IF a <= b THEN a ELSE b
    <2>1. c \in Int /\ (\A l \in T : c <= l) /\ T \in SUBSET Int /\ T # {}
      BY <1>6
    <2> HIDE DEF c, T
    <2>2. Min(T) \in T /\ \A l \in T : Min(T) <= l
      BY <2>1, LeastOf
    <2> QED BY <1>6, <2>1, <2>2 DEF c, T
  <1> DEFINE c == Min(T)
             U == {0, c}
  <1>8. c \in Int
    BY <1>6, <1>7
  <1> HIDE DEF c
  <1>9. Max(U) = IF c > 0 THEN c ELSE 0
    <2> DEFINE d == IF c > 0 THEN c ELSE 0
    <2>1. d \in Int /\ (\A l \in U : l <= d) /\ U \in SUBSET Int /\ U # {}
      BY <1>8
    <2> HIDE DEF d, U
    <2>2. Max(U) \in U /\ \A l \in U : l <= Max(U)
      BY <2>1, GreatestOf
    <2> QED BY <1>8, <2>1, <2>2 DEF d, U
  <1>10. c = IF a <= b THEN a ELSE b
    BY <1>7 DEF c
  <1>11. Triangle(bin, i) = IF c > 0 THEN c ELSE 0
    BY <1>4, <1>9 DEF c
  <1>12. Triangle(bin, i) = IF low < m /\ m < high THEN (IF m <= mid THEN m - low ELSE high - m) ELSE 0
    BY <1>2, <1>3, <1>10, <1>11
  <1> QED BY <1>2, <1>3, <1>4, <1>5, <1>8, <1>11, <1>12

\* From the first index inside to the last a filter holds its whole triangle.
LEMMA EnergyIs ==
    ASSUME Given, NEW bin \in 0..(num_bins - 1), bins[bin] = Filter(bin), Inside(bin) # {},
           NEW power, \A f \in SpectrumBins : power[f] \in Int
    PROVE  Energy(power, bin)
             = Total([f \in SpectrumBins |-> Triangle(bin, f) * power[f]], fft_points \div 2)
  <1> DEFINE h == fft_points \div 2
             first == Min(Inside(bin))
             last == Max(Inside(bin))
             size == last + 1 - first
             second == [i \in 0..(size - 1) |->
                           IF first + i \in Inside(bin) THEN Weight(bin, first + i) ELSE 0]
             share == [i \in 0..(size - 1) |-> second[i] * power[first + i]]
             whole == [f \in SpectrumBins |-> Triangle(bin, f) * power[f]]
  <1>1. h \in Nat /\ SpectrumBins = 0..(h - 1)
    <2> DEFINE n == fft_points
    <2>1. n \in Nat
      BY GivenIs
    <2> HIDE DEF n
    <2>2. n \div 2 \in Nat
      BY <2>1
    <2> QED BY <2>2 DEF SpectrumBins, n
  <1> HIDE DEF h
  <1>2. Inside(bin) \in SUBSET (0..(h - 1)) /\ Inside(bin) \in SUBSET Int
    BY <1>1 DEF Inside
  <1>3. /\ first \in Inside(bin) /\ last \in Inside(bin)
        /\ \A i \in Inside(bin) : first <= i /\ i <= last
    <2> DEFINE T == Inside(bin)
    <2>1. T \in SUBSET Int /\ T # {} /\ (\A i \in T : 0 <= i) /\ (\A i \in T : i <= h) /\ h \in Int
      BY <1>1, <1>2
    <2> HIDE DEF T
    <2>2. Min(T) \in T /\ \A i \in T : Min(T) <= i
      BY <2>1, 0 \in Int, LeastOf
    <2>3. Max(T) \in T /\ \A i \in T : i <= Max(T)
      BY <2>1, GreatestOf
    <2> QED BY <2>2, <2>3 DEF T
  <1>4. bins[bin].first = first /\ bins[bin].size = size /\ bins[bin].second = second
    BY DEF Filter
  <1>5. Energy(power, bin) = Total(share, size)
    BY <1>4 DEF Energy
  <1> HIDE DEF first, last
  <1>6. /\ first \in Nat /\ size \in Nat /\ first + size <= h /\ first <= last /\ last < h
        /\ last \in Nat /\ first + size = last + 1
    BY <1>1, <1>2, <1>3
  <1> HIDE DEF size
  <1>7. \A f \in 0..(h - 1) :
            /\ whole[f] = Triangle(bin, f) * power[f] /\ whole[f] \in Int
            /\ f \notin Inside(bin) => whole[f] = 0
    <2> TAKE f \in 0..(h - 1)
    <2>1. /\ Triangle(bin, f) \in Int /\ power[f] \in Int
          /\ f \notin Inside(bin) => Triangle(bin, f) = 0
      BY <1>1, TriangleIs
    <2> DEFINE t == Triangle(bin, f)
               p == power[f]
    <2>2. whole[f] = t * p
      BY <1>1
    <2>3. t \in Int /\ p \in Int /\ (f \notin Inside(bin) => t = 0)
      BY <2>1
    <2> HIDE DEF t, p, whole
    <2>4. whole[f] \in Int /\ (f \notin Inside(bin) => whole[f] = 0)
      BY <2>2, <2>3
    <2> QED BY <2>2, <2>4 DEF t, p
  <1>8. \A i \in 0..(size - 1) : whole[first + i] = share[i] /\ share[i] \in Int
    <2> TAKE i \in 0..(size - 1)
    <2> DEFINE f == first + i
    <2>1. f \in 0..(h - 1)
      BY <1>1, <1>6
    <2> HIDE DEF whole
    <2>2. whole[f] = Triangle(bin, f) * power[f] /\ whole[f] \in Int
      BY <1>7, <2>1
    <2>3. Triangle(bin, f) = IF f \in Inside(bin) THEN Weight(bin, f) ELSE 0
      BY <1>1, <2>1, TriangleIs
    <2> QED BY <2>2, <2>3
  <1>9. \A f \in 0..(h - 1) : f < first \/ f >= first + size => whole[f] = 0
    <2> TAKE f \in 0..(h - 1)
    <2> HIDE DEF whole
    <2> QED BY <1>3, <1>6, <1>7
  <1> HIDE DEF whole, share
  <1>10. Terms(whole, h) /\ Terms(share, size)
    BY <1>7, <1>8 DEF Terms
  <1>11. Sum(whole, h) = Sum(share, size)
    <2>1. Within(whole, h, share, first, size)
      BY <1>1, <1>6, <1>8, <1>9, <1>10 DEF Within
    <2> QED BY ONLY <2>1, SumWithin
  <1>12. Energy(power, bin) = Total(whole, h)
    BY <1>5, <1>11 DEF Total
  <1> QED BY <1>12 DEF whole, h

\* From the spectrum to the features of the frame.
LEMMA FinishIs ==
    ASSUME Given, Truly, frame \in 0..(num_frames - 1), Between(fft_real, fft_img, fft_points),
           \A bin \in 0..(num_bins - 1) : bins[bin] = Filter(bin) /\ Inside(bin) # {}
    PROVE  LET power == [i \in SpectrumBins |-> Squared(i) % P]
           IN  Features([bin \in 0..(num_bins - 1) |-> LogEnergy(Energy(power, bin))])
                 = FeaturesOf(frame)
  <1> DEFINE power == [i \in SpectrumBins |-> Squared(i) % P]
             energies == [bin \in 0..(num_bins - 1) |-> LogEnergy(Energy(power, bin))]
             sum(bin) == Total([f \in SpectrumBins |-> Triangle(bin, f) * Spectrum(frame)[f]],
                               fft_points \div 2)
  <1>1. \A f \in SpectrumBins : Squared(f) % P = Spectrum(frame)[f] /\ Spectrum(frame)[f] \in Int
    <2> TAKE f \in SpectrumBins
    <2>1. (fft_real[f] * fft_real[f] + fft_img[f] * fft_img[f]) % P = Spectrum(frame)[f]
          /\ Spectrum(frame)[f] \in Int
      BY LastBlock
    <2> QED BY <2>1 DEF Squared
  <1>2. power = Spectrum(frame)
    <2>1. Spectrum(frame) = [f \in SpectrumBins |-> Spectrum(frame)[f]]
      BY DEF Spectrum
    <2> QED BY <1>1, <2>1
  <1> HIDE DEF power
  <1>3. \A bin \in 0..(num_bins - 1) : Energy(power, bin) = sum(bin)
    <2> TAKE bin \in 0..(num_bins - 1)
    <2> DEFINE spectrum == Spectrum(frame)
    <2>1. \A f \in SpectrumBins : spectrum[f] \in Int
      BY <1>1
    <2> HIDE DEF spectrum
    <2>2. Energy(spectrum, bin)
            = Total([f \in SpectrumBins |-> Triangle(bin, f) * spectrum[f]], fft_points \div 2)
      BY <2>1, EnergyIs
    <2> QED BY <1>2, <2>2 DEF spectrum
  <1> HIDE DEF sum
  <1>4. energies = [bin \in 0..(num_bins - 1) |-> LogEnergy(sum(bin))]
    BY <1>3
  <1>5. FeaturesOf(frame) = Features([bin \in 0..(num_bins - 1) |-> LogEnergy(sum(bin))])
    BY DEF FeaturesOf, sum
  <1> HIDE DEF energies
  <1>6. Features(energies) = FeaturesOf(frame)
    BY <1>4, <1>5
  <1> QED BY <1>6 DEF energies, power

-----------------------------------------------------------------------------
(* The inductive invariant: what each stage leaves to the next.            *)

\* Where a frame is being worked on.
Working == {"frame", "fill", "reverse", "transform"}

\* No filter is empty, and each has its weights.
FiltersInv ==
    pc \notin {"construct", "aborted"} =>
        \A bin \in 0..(num_bins - 1) : bins[bin] = Filter(bin) /\ Inside(bin) # {}

\* The frame that is next, or done, by where the loop is.
FrameInv ==
    /\ pc \in {"construct", "aborted", "compute"} => frame = 0
    /\ pc \in Working => frame \in 0..(num_frames - 1)
    /\ pc = "done" => frame = num_frames

\* What each stage leaves to the next.
StageInv ==
    /\ pc = "fill" => data = Conditioned(frame)
    /\ pc = "reverse" => fft_real = Padded(frame) /\ fft_img = [i \in Places |-> 0]
    /\ pc = "transform" => Between(fft_real, fft_img, k)

\* Features that are those of some frame.
Right == {FeaturesOf(i) : i \in Nat}

\* The features so far are those of the frames so far.
FeatInv ==
    /\ feat \in Seq(Right) /\ Len(feat) = frame
    /\ \A i \in 1..Len(feat) : feat[i] = FeaturesOf(i - 1)

IInv ==
    /\ Given
    /\ pc # "construct" => Truly
    /\ FiltersInv
    /\ FrameInv
    /\ StageInv
    /\ FeatInv

-----------------------------------------------------------------------------
(* What is made of the arguments alone stays as it is.                     *)

\* A frame's samples, and what is to be made of them, do not change.
LEMMA ConditionedStays ==
    ASSUME UNCHANGED given, NEW i
    PROVE  Conditioned(i)' = Conditioned(i)
  <1>1. frame_length' = frame_length /\ wave' = wave
    BY DEF given
  <1>2. Samples' = Samples
    BY <1>1 DEF Samples
  <1>3. Slice(i)' = Slice(i)
    BY <1>1, <1>2 DEF Slice
  <1> DEFINE x == Slice(i)
             y == RemoveDcOffset(x)
             z == PreEmphasis(y)
  <1>4. (y)' = y
    <2>1. (y)' = [j \in Samples' |-> (Slice(i)'[j] - Total(Slice(i)', frame_length') * Reciprocal(frame_length')) % P]
      BY DEF RemoveDcOffset
    <2> QED BY <1>1, <1>2, <1>3, <2>1 DEF RemoveDcOffset
  <1>5. (z)' = z
    <2>1. (z)' = [j \in Samples' |-> ((y)'[j] - Coeff * (y)'[IF j = 0 THEN 0 ELSE j - 1]) % P]
      BY DEF PreEmphasis
    <2> HIDE DEF y
    <2> QED BY <1>2, <1>4, <2>1 DEF PreEmphasis
  <1>6. Conditioned(i)' = [j \in Samples' |-> ((z)'[j] * Window(frame_length', j)) % P]
    BY DEF Conditioned, ApplyWindow
  <1>7. Conditioned(i) = [j \in Samples |-> (z[j] * Window(frame_length, j)) % P]
    BY DEF Conditioned, ApplyWindow
  <1> HIDE DEF z
  <1> QED BY <1>1, <1>2, <1>5, <1>6, <1>7

LEMMA PaddedStays ==
    ASSUME UNCHANGED given, NEW i
    PROVE  Padded(i)' = Padded(i)
  <1>1. Samples' = Samples /\ Places' = Places /\ Conditioned(i)' = Conditioned(i)
    BY ConditionedStays DEF Samples, Places, given
  <1>2. Padded(i)' = [j \in Places' |-> IF j \in Samples' THEN Conditioned(i)'[j] ELSE 0]
    BY DEF Padded
  <1> QED BY <1>1, <1>2 DEF Padded

LEMMA FramesStay ==
    ASSUME UNCHANGED given
    PROVE  num_frames' = num_frames
  BY DEF num_frames, given

LEMMA FeaturesOfStay ==
    ASSUME UNCHANGED given, NEW i
    PROVE  FeaturesOf(i)' = FeaturesOf(i)
  <1>1. /\ kind' = kind /\ frame_length' = frame_length /\ num_bins' = num_bins
        /\ fft_points' = fft_points
    BY DEF given
  <1>2. Padded(i)' = Padded(i) /\ Places' = Places /\ SpectrumBins' = SpectrumBins
    BY <1>1, PaddedStays DEF Places, SpectrumBins
  <1>3. Spectrum(i)' = Spectrum(i)
    <2> DEFINE re(x, S0, n, f) == Total([j \in S0 |-> x[j] * Cosine(n, f * j)], n)
               im(x, S0, n, f) == Total([j \in S0 |-> x[j] * Sine(n, f * j)], n)
               of(x, S0, S1, n) ==
                   [f \in S1 |-> (re(x, S0, n, f) * re(x, S0, n, f)
                                  + im(x, S0, n, f) * im(x, S0, n, f)) % P]
    <2>1. Spectrum(i) = of(Padded(i), Places, SpectrumBins, fft_points)
      BY DEF Spectrum
    <2>2. Spectrum(i)' = of(Padded(i)', Places', SpectrumBins', fft_points')
      BY DEF Spectrum
    <2> HIDE DEF of
    <2> QED BY <1>1, <1>2, <2>1, <2>2
  <1>4. \A bin, f : Triangle(bin, f)' = Triangle(bin, f)
    BY <1>1 DEF Triangle, Mel, Corner
  <1> DEFINE energy(bin) == Total([f \in SpectrumBins |-> Triangle(bin, f) * Spectrum(i)[f]],
                                  fft_points \div 2)
             energies == [bin \in 0..(num_bins - 1) |-> LogEnergy(energy(bin))]
  <1>5. \A bin : energy(bin)' = energy(bin)
    <2> TAKE bin
    <2>1. energy(bin)' = Total([f \in SpectrumBins' |-> Triangle(bin, f)' * Spectrum(i)'[f]],
                               fft_points' \div 2)
      OBVIOUS
    <2> QED BY <1>1, <1>2, <1>3, <1>4, <2>1
  <1>6. (energies)' = energies
    <2>1. (energies)' = [bin \in 0..(num_bins' - 1) |-> LogEnergy(energy(bin)')]
      BY DEF LogEnergy
    <2> HIDE DEF energy
    <2> QED BY <1>1, <1>5, <2>1
  <1>7. FeaturesOf(i) = Features(energies) /\ FeaturesOf(i)' = Features(energies)'
    BY DEF FeaturesOf
  <1> HIDE DEF energies
  <1>8. Features(energies)' = Features(energies)
    BY <1>1, <1>6 DEF Features, Dct
  <1> QED BY <1>7, <1>8

LEMMA GivenStays ==
    ASSUME UNCHANGED given
    PROVE  (Given => Given') /\ (Truly /\ UNCHANGED <<bitrev, sintbl>> => Truly')
  BY DEF Given, Truly, given

LEMMA FiltersStay ==
    ASSUME UNCHANGED given, NEW bin
    PROVE  Filter(bin)' = Filter(bin) /\ Inside(bin)' = Inside(bin)
  <1>1. /\ \A i : Mel(i)' = Mel(i)
        /\ \A j : Corner(j)' = Corner(j)
        /\ SpectrumBins' = SpectrumBins
    BY DEF given, Mel, Corner, SpectrumBins
  <1>2. Inside(bin)' = Inside(bin)
    BY <1>1 DEF Inside
  <1>3. \A i : Weight(bin, i)' = Weight(bin, i)
    BY <1>1 DEF Weight
  <1>4. Filter(bin)' = Filter(bin)
    BY <1>2, <1>3 DEF Filter
  <1> QED BY <1>2, <1>4

LEMMA FeatStays ==
    ASSUME UNCHANGED given, UNCHANGED <<feat, frame>>, FeatInv
    PROVE  FeatInv'
  <1>1. Right' = Right
    BY FeaturesOfStay DEF Right
  <1>2. \A i : FeaturesOf(i)' = FeaturesOf(i)
    BY FeaturesOfStay
  <1> QED BY <1>1, <1>2 DEF FeatInv

\* Nor does what the transform's buffers mean, while they stay.
LEMMA BetweenStays ==
    ASSUME UNCHANGED given, UNCHANGED <<bitrev, frame>>, NEW u, NEW v, NEW m,
           Between(u, v, m), fft_real' = u, fft_img' = v, k' = m
    PROVE  Between(fft_real, fft_img, k)'
  <1>1. fft_points' = fft_points /\ Padded(frame)' = Padded(frame)
    <2>1. \A i : Padded(i)' = Padded(i)
      BY PaddedStays
    <2> QED BY <2>1 DEF given
  <1> QED BY <1>1 DEF Between

\* Nothing has been constructed yet.
LEMMA InitIInv == Init => IInv
  <1> SUFFICES ASSUME Init PROVE IInv
    OBVIOUS
  <1>1. feat \in Seq(Right) /\ Len(feat) = 0 /\ feat = <<>>
    <2> HIDE DEF Right
    <2> QED BY DEF Init
  <1>2. FeatInv
    BY <1>1 DEF FeatInv, Init
  <1> QED BY <1>2 DEF Init, IInv, Given, FiltersInv, FrameInv, StageInv, Working

\* What every step leaves alone, and what all but the first leave alone too.
LEMMA StepStays ==
    ASSUME IInv, UNCHANGED given
    PROVE  /\ Given /\ Given' /\ num_frames' = num_frames /\ num_frames \in Nat
           /\ UNCHANGED tables /\ pc # "construct" => Truly'
           /\ UNCHANGED tables /\ pc' # "construct" /\ pc' # "aborted" /\ FiltersInv
              /\ pc # "construct" /\ pc # "aborted" => FiltersInv'
           /\ \A i : Conditioned(i)' = Conditioned(i) /\ Padded(i)' = Padded(i)
           /\ UNCHANGED <<feat, frame>> => FeatInv'
           /\ Places' = Places
  <1>1. Given /\ Given' /\ num_frames' = num_frames /\ num_frames \in Nat
    BY GivenStays, FramesStay, FramesType DEF IInv
  <1>2. UNCHANGED tables /\ pc # "construct" => Truly'
    BY GivenStays DEF IInv, tables
  <1>3. UNCHANGED tables /\ pc' # "construct" /\ pc' # "aborted" /\ FiltersInv
        /\ pc # "construct" /\ pc # "aborted" => FiltersInv'
    <2>1. \A bin : Filter(bin)' = Filter(bin) /\ Inside(bin)' = Inside(bin)
      BY FiltersStay
    <2> QED BY <2>1 DEF FiltersInv, tables, given
  <1>4. \A i : Conditioned(i)' = Conditioned(i) /\ Padded(i)' = Padded(i)
    BY ConditionedStays, PaddedStays
  <1>5. UNCHANGED <<feat, frame>> => FeatInv'
    BY FeatStays DEF IInv
  <1>6. Places' = Places
    BY DEF Places, given
  <1> QED BY <1>1, <1>2, <1>3, <1>4, <1>5, <1>6

\* Every step keeps the invariant, one by one.
LEMMA NextIInv ==
    ASSUME IInv, [Next]_vars
    PROVE  IInv'
  <1>1. UNCHANGED given
    BY DEF Next, Construct, Compute, Condition, Fill, ReverseBits, Transform, Finish, vars
  <1>2. Given'
    BY <1>1, StepStays
  <1>3. CASE Construct
    <2>1. /\ pc = "construct" /\ frame' = frame /\ feat' = feat /\ pc' \in {"aborted", "compute"}
          /\ frame = 0
      BY <1>3 DEF Construct, IInv, FrameInv
    <2>2. Truly'
      BY <1>1, <1>3 DEF Construct, Truly, given
    <2>3. FiltersInv'
      <3>1. \A bin : Filter(bin)' = Filter(bin) /\ Inside(bin)' = Inside(bin)
        BY <1>1, FiltersStay
      <3>2. CASE pc' = "aborted"
        BY <3>2 DEF FiltersInv
      <3>3. CASE pc' = "compute"
        <4>1. bins' = [bin \in 0..(num_bins - 1) |-> Filter(bin)]
              /\ \A bin \in 0..(num_bins - 1) : Inside(bin) # {}
          BY <1>3, <3>3 DEF Construct
        <4> QED BY <1>1, <3>1, <4>1 DEF FiltersInv, given
      <3> QED BY <2>1, <3>2, <3>3
    <2>4. FrameInv' /\ StageInv'
      BY <2>1 DEF FrameInv, StageInv, Working
    <2>5. FeatInv'
      BY <1>1, <2>1, StepStays
    <2> QED BY <1>2, <2>2, <2>3, <2>4, <2>5 DEF IInv
  <1>4. CASE Compute
    <2>1. /\ pc = "compute" /\ pc' = (IF num_frames = 0 THEN "done" ELSE "frame")
          /\ UNCHANGED tables /\ frame' = frame /\ feat' = feat /\ frame = 0
      BY <1>4 DEF Compute, IInv, FrameInv
    <2>2. Truly' /\ FiltersInv' /\ FeatInv' /\ num_frames' = num_frames /\ num_frames \in Nat
      BY <1>1, <2>1, StepStays DEF IInv
    <2>3. FrameInv' /\ StageInv'
      BY <2>1, <2>2 DEF FrameInv, StageInv, Working
    <2> QED BY <1>2, <2>2, <2>3 DEF IInv
  <1>5. CASE Condition
    <2>1. /\ pc = "frame" /\ pc' = "fill" /\ UNCHANGED tables /\ frame' = frame /\ feat' = feat
          /\ data' = Conditioned(frame) /\ frame \in 0..(num_frames - 1)
      BY <1>5 DEF Condition, IInv, FrameInv, Working
    <2>2. Truly' /\ FiltersInv' /\ FeatInv' /\ num_frames' = num_frames
          /\ \A i : Conditioned(i)' = Conditioned(i)
      BY <1>1, <2>1, StepStays DEF IInv
    <2>3. FrameInv'
      BY <2>1, <2>2 DEF FrameInv, Working
    <2>4. StageInv'
      BY <2>1, <2>2 DEF StageInv
    <2> QED BY <1>2, <2>2, <2>3, <2>4 DEF IInv
  <1>6. CASE Fill
    <2>1. /\ pc = "fill" /\ pc' = "reverse" /\ UNCHANGED tables /\ frame' = frame /\ feat' = feat
          /\ data = Conditioned(frame) /\ frame \in 0..(num_frames - 1)
          /\ fft_img' = [i \in Places |-> 0]
          /\ fft_real' = [i \in Places |-> IF i \in Samples THEN data[i] ELSE 0]
      BY <1>6 DEF Fill, IInv, FrameInv, StageInv, Working
    <2>2. Truly' /\ FiltersInv' /\ FeatInv' /\ num_frames' = num_frames
          /\ (\A i : Padded(i)' = Padded(i)) /\ Places' = Places
      BY <1>1, <2>1, StepStays DEF IInv
    <2>3. FrameInv'
      BY <2>1, <2>2 DEF FrameInv, Working
    <2>4. fft_real' = Padded(frame)
      BY <2>1 DEF Padded
    <2>5. StageInv'
      BY <2>1, <2>2, <2>4 DEF StageInv
    <2> QED BY <1>2, <2>2, <2>3, <2>5 DEF IInv
  <1>7. CASE ReverseBits
    <2>1. /\ pc = "reverse" /\ pc' = "transform" /\ UNCHANGED tables /\ frame' = frame
          /\ feat' = feat /\ frame \in 0..(num_frames - 1) /\ Given /\ Truly /\ k' = 1
          /\ fft_real' = BitReversed(fft_points, bitrev, Padded(frame))
          /\ fft_img' = BitReversed(fft_points, bitrev, [i \in Places |-> 0])
      BY <1>7 DEF ReverseBits, IInv, FrameInv, StageInv, Working
    <2>2. Truly' /\ FiltersInv' /\ FeatInv' /\ num_frames' = num_frames
      BY <1>1, <2>1, StepStays DEF IInv
    <2>3. FrameInv'
      BY <2>1, <2>2 DEF FrameInv, Working
    <2>4. Between(fft_real, fft_img, k)'
      <3> DEFINE u == BitReversed(fft_points, bitrev, Padded(frame))
                 v == BitReversed(fft_points, bitrev, [i \in Places |-> 0])
      <3>1. Between(u, v, 1)
        BY <2>1, FirstBlocks
      <3>2. Between(fft_real', fft_img', k')
        BY <2>1, <3>1
      <3> QED BY <1>1, <2>1, <3>2, BetweenStays DEF tables
    <2>5. StageInv'
      BY <2>1, <2>4 DEF StageInv
    <2> QED BY <1>2, <2>2, <2>3, <2>5 DEF IInv
  <1>8. CASE Transform
    <2> DEFINE after == Butterflies(fft_points, sintbl, fft_real, fft_img, k)
    <2>1. /\ pc = "transform" /\ pc' = "transform" /\ UNCHANGED tables /\ frame' = frame
          /\ feat' = feat /\ frame \in 0..(num_frames - 1) /\ Given /\ Truly
          /\ Between(fft_real, fft_img, k) /\ k < fft_points
          /\ fft_real' = after.x /\ fft_img' = after.y /\ k' = 2 * k
      BY <1>8 DEF Transform, IInv, FrameInv, StageInv, Working
    <2>2. Truly' /\ FiltersInv' /\ FeatInv' /\ num_frames' = num_frames
      BY <1>1, <2>1, StepStays DEF IInv
    <2>3. FrameInv'
      BY <2>1, <2>2 DEF FrameInv, Working
    <2>4. Between(fft_real, fft_img, k)'
      <3>1. Between(after.x, after.y, 2 * k)
        BY <2>1, NextBlocks
      <3>2. Between(fft_real', fft_img', k')
        BY <2>1, <3>1
      <3> QED BY <1>1, <2>1, <3>2, BetweenStays DEF tables
    <2>5. StageInv'
      BY <2>1, <2>4 DEF StageInv
    <2> QED BY <1>2, <2>2, <2>3, <2>5 DEF IInv
  <1>9. CASE Finish
    <2>1. /\ pc = "transform" /\ UNCHANGED tables /\ frame' = frame + 1
          /\ frame \in 0..(num_frames - 1) /\ Given /\ Truly
          /\ Between(fft_real, fft_img, fft_points)
          /\ pc' = (IF frame' = num_frames THEN "done" ELSE "frame")
          /\ FeatInv
          /\ \A bin \in 0..(num_bins - 1) : bins[bin] = Filter(bin) /\ Inside(bin) # {}
      BY <1>9 DEF Finish, IInv, FrameInv, StageInv, FiltersInv, Working
    <2>2. Truly' /\ FiltersInv' /\ num_frames' = num_frames /\ num_frames \in Nat
      BY <1>1, <2>1, StepStays DEF IInv
    <2>3. FrameInv' /\ StageInv'
      BY <2>1, <2>2 DEF FrameInv, StageInv, Working
    <2>4. feat' = Append(feat, FeaturesOf(frame))
      BY <1>9, <2>1, FinishIs DEF Finish
    <2>5. FeatInv'
      <3>1. (\A i : FeaturesOf(i)' = FeaturesOf(i)) /\ Right' = Right
        BY <1>1, FeaturesOfStay DEF Right
      <3> DEFINE e == FeaturesOf(frame)
      <3>2. e \in Right /\ feat \in Seq(Right) /\ Len(feat) = frame /\ frame \in Nat
        BY <2>1 DEF FeatInv, Right
      <3>3. feat' \in Seq(Right) /\ Len(feat') = frame + 1
            /\ (\A i \in 1..frame : feat'[i] = feat[i]) /\ feat'[frame + 1] = e
        <4> HIDE DEF e, Right
        <4>1. feat' = Append(feat, e)
          BY <2>4 DEF e
        <4> QED BY <3>2, <4>1
      <3>4. \A i \in 1..frame : feat[i] = FeaturesOf(i - 1)
        BY <2>1 DEF FeatInv
      <3>5. ASSUME NEW i \in 1..(frame + 1)
            PROVE  feat'[i] = FeaturesOf(i - 1)
        <4>1. CASE i = frame + 1
          <5>1. i - 1 = frame
            BY <3>2, <4>1
          <5> QED BY <3>3, <4>1, <5>1
        <4>2. CASE i # frame + 1
          <5>1. i \in 1..frame
            BY <3>2, <4>2
          <5> QED BY <3>3, <3>4, <5>1
        <4> QED BY <4>1, <4>2
      <3> HIDE DEF Right
      <3>6. \A i \in 1..Len(feat') : feat'[i] = FeaturesOf(i - 1)'
        BY <3>1, <3>3, <3>5
      <3> QED BY <2>1, <3>1, <3>3, <3>6 DEF FeatInv
    <2> QED BY <1>2, <2>2, <2>3, <2>5 DEF IInv
  <1>10. CASE UNCHANGED vars
    <2>1. UNCHANGED <<tables, frame, data, buffers, k, feat, pc, fft_real, fft_img, bins, bitrev, sintbl>>
      BY <1>10 DEF vars, tables, buffers
    <2>2. /\ pc # "construct" => Truly'
          /\ num_frames' = num_frames /\ FeatInv' /\ Places' = Places
          /\ \A i : Conditioned(i)' = Conditioned(i) /\ Padded(i)' = Padded(i)
      BY <1>1, <2>1, StepStays
    <2>3. FiltersInv'
      BY <1>1, <2>1, StepStays DEF IInv, FiltersInv
    <2>4. FrameInv'
      BY <2>1, <2>2 DEF IInv, FrameInv
    <2>5. pc = "transform" => Between(fft_real, fft_img, k)'
      BY <1>1, <2>1, BetweenStays DEF IInv, StageInv
    <2>6. StageInv'
      BY <2>1, <2>2, <2>5 DEF IInv, StageInv
    <2> QED BY <1>2, <2>1, <2>2, <2>3, <2>4, <2>6 DEF IInv
  <1> QED BY <1>3, <1>4, <1>5, <1>6, <1>7, <1>8, <1>9, <1>10 DEF Next

\* What each stage of the computation leaves to the next, for every frame
\* length, number of bins and waveform.
THEOREM Inductive == Spec => []IInv
  BY InitIInv, NextIInv, PTL DEF Spec

\* Both tables, whatever the frame length.
THEOREM TablesTrue == Spec => []TablesAreTrue
  <1>1. ASSUME IInv PROVE TablesAreTrue
    <2> SUFFICES ASSUME pc # "construct"
                 PROVE  /\ \A i \in 0..(fft_points + fft_points \div 4 - 1) :
                               sintbl[i] = Sine(fft_points, i)
                        /\ \A i \in Places, d \in Places :
                               d > 0 /\ fft_points % (2 * d) = 0
                                   => Digit(bitrev[i], d) = Digit(i, fft_points \div (2 * d))
      BY DEF TablesAreTrue
    <2>1. Given /\ Truly
      BY <1>1 DEF IInv
    <2> DEFINE n == fft_points
    <2>2. n \in Nat \ {0} /\ n \in Int /\ Power(n) /\ Turns(2 * n)
      BY <2>1, GivenIs
    <2>3. PICK q \in Nat \ {0} : n = 4 * q
      BY <2>1, GivenIs
    <2> HIDE DEF n
    <2>4. n \div 4 = q
      BY <2>3
    <2>5. \A i \in 0..(n + q - 1) : make_sintbl(n)[i] = Sine(n, i)
      BY <2>2, <2>3, SinesAre
    <2>6. Reversal(n, n, bitrev)
      BY <2>1, <2>2, BitrevIs DEF Truly, n
    <2>7. ASSUME NEW i \in 0..(n - 1), NEW d \in 0..(n - 1), d > 0, n % (2 * d) = 0
          PROVE  Digit(bitrev[i], d) = Digit(i, n \div (2 * d))
      <3> DEFINE D == 2 * d
                 e == n \div D
      <3>1. D \in Nat \ {0} /\ n % D = 0 /\ d \in Nat \ {0}
        BY <2>2, <2>7
      <3>2. n = e * D /\ e \in Int
        <4> HIDE DEF D
        <4> QED BY <2>2, <3>1, Divides, Division
      <3> HIDE DEF e
      <3>3. e \in Nat \ {0} /\ n = 2 * (d * e)
        <4>1. n = 2 * (d * e)
          BY <3>1, <3>2
        <4>2. e > 0
          <5> HIDE DEF D
          <5> QED BY <2>2, <3>1, <3>2
        <4> QED BY <3>2, <4>1, <4>2
      <3>4. \A c, b \in Nat \ {0} :
                n = 2 * (c * b) => \A j \in 0..(n - 1) : Digit(bitrev[j], c) = Digit(j, b)
        BY <2>6 DEF Reversal
      <3>5. Digit(bitrev[i], d) = Digit(i, e)
        BY <3>1, <3>3, <3>4
      <3> QED BY <3>5 DEF e
    <2> QED BY <2>1, <2>4, <2>5, <2>7 DEF Truly, Places, n
  <1> QED BY <1>1, Inductive, PTL

\* After every step of the transform each block holds the discrete Fourier
\* transform of its samples, by definition.
THEOREM BlocksDfts == Spec => []BlocksAreDfts
  <1>1. ASSUME IInv PROVE BlocksAreDfts
    <2> SUFFICES ASSUME pc = "transform" PROVE BlocksAreDfts
      BY DEF BlocksAreDfts
    <2>1. Between(fft_real, fft_img, k)
      BY <1>1 DEF IInv, StageInv
    <2> DEFINE x == Padded(frame)
               apart == fft_points \div k
    <2>2. \A b \in 0..(apart - 1) : \A f \in 0..(k - 1) :
              /\ fft_real[b * k + f] = Mod(Sum(ReTerm(fft_points, bitrev, x, k, b, f), k))
              /\ fft_img[b * k + f] = Mod(Sum(ImTerm(fft_points, bitrev, x, k, b, f), k))
      BY <2>1 DEF Between, Dft
    <2> QED BY <2>2 DEF BlocksAreDfts, ReTerm, ImTerm, Total, Mod
  <1> QED BY <1>1, Inductive, PTL

\* What feat holds are the features of the frames, in order, by definition:
\* no stage leaves anything of one frame to the next.
THEOREM FeatureItsFrame == Spec => []FeatureIsItsFrame
  <1>1. IInv => FeatureIsItsFrame
    BY DEF IInv, FeatInv, FrameInv, FeatureIsItsFrame
  <1> QED BY <1>1, Inductive, PTL
=============================================================================
