----------------------------- MODULE Arithmetic -----------------------------
(***************************************************************************)
(* Facts about numbers that the proofs about the programs cite: products   *)
(* and quotients of naturals, where v and w are reserves, s and l shares,  *)
(* and sums of what the accounts hold.                                     *)
(***************************************************************************)
EXTENDS FixedWidth, Functions, FiniteSetTheorems, TLAPS

\* The integer quotient is the largest multiple that fits.
LEMMA DivBounds ==
  ASSUME NEW n \in Nat, NEW d \in Nat \ {0}
  PROVE  /\ n \div d \in Nat
         /\ d * (n \div d) <= n
         /\ n < d * (n \div d) + d
OBVIOUS

\* Multiplication is monotone.
LEMMA MulMono ==
  ASSUME NEW a \in Nat, NEW b \in Nat, NEW c \in Nat, NEW d \in Nat,
         a <= b, c <= d
  PROVE  a * c <= b * d
OBVIOUS

\* A common positive factor can be cancelled.
LEMMA MulCancel ==
  ASSUME NEW a \in Nat, NEW b \in Nat, NEW c \in Nat \ {0}, a * c <= b * c
  PROVE  a <= b
OBVIOUS

\* The product of two naturals is positive exactly when both are.
LEMMA PositiveProduct ==
  ASSUME NEW a \in Nat, NEW b \in Nat
  PROVE  a * b > 0 <=> a > 0 /\ b > 0
OBVIOUS

\* What is at least a positive product of naturals is itself positive.
LEMMA PositiveFactors ==
  ASSUME NEW a \in Nat, NEW b \in Nat, NEW c \in Nat, NEW d \in Nat,
         a * b >= c * d, c > 0, d > 0
  PROVE  a > 0 /\ b > 0
<1>1. a * b \in Nat /\ c * d \in Nat /\ c * d > 0
  BY PositiveProduct
<1>2. a * b > 0
  BY <1>1
<1>3. QED
  BY <1>2, PositiveProduct

\* Claims that fall on neither reserve do not fall on their product.
LEMMA ClaimsKept ==
  ASSUME NEW x0 \in Nat, NEW y0 \in Nat, NEW l \in Nat,
         NEW x1 \in Nat, NEW y1 \in Nat, NEW l1 \in Nat,
         x1 * l >= x0 * l1, y1 * l >= y0 * l1
  PROVE  x1 * y1 * l * l >= x0 * y0 * l1 * l1
<1>1. /\ x1 * l \in Nat /\ x0 * l1 \in Nat
      /\ y1 * l \in Nat /\ y0 * l1 \in Nat
  OBVIOUS
<1>2. (x1 * l) * (y1 * l) >= (x0 * l1) * (y0 * l1)
  BY <1>1, MulMono
<1>3. (x1 * l) * (y1 * l) = x1 * y1 * l * l
  OBVIOUS
<1>4. (x0 * l1) * (y0 * l1) = x0 * y0 * l1 * l1
  OBVIOUS
<1>5. QED
  BY <1>2, <1>3, <1>4

\* A larger product stays larger with the same shares.
LEMMA SameShares ==
  ASSUME NEW x0 \in Nat, NEW y0 \in Nat, NEW x1 \in Nat, NEW y1 \in Nat,
         NEW l \in Nat, x1 * y1 >= x0 * y0
  PROVE  x1 * y1 * l * l >= x0 * y0 * l * l
<1>1. x1 * y1 \in Nat /\ x0 * y0 \in Nat /\ l * l \in Nat
  OBVIOUS
<1>2. (x1 * y1) * (l * l) >= (x0 * y0) * (l * l)
  BY <1>1, MulMono
<1>3. (x1 * y1) * (l * l) = x1 * y1 * l * l
  OBVIOUS
<1>4. (x0 * y0) * (l * l) = x0 * y0 * l * l
  OBVIOUS
<1>5. QED
  BY <1>2, <1>3, <1>4

-----------------------------------------------------------------------------
(***************************************************************************)
(* The formulas of a market maker, on plain numbers: v a vault, s the      *)
(* supply, d a deposit, n shares; for a swap i and o are the reserves.     *)
(***************************************************************************)

\* Shares n for a deposit d leave the old shares their claim on the vault.
LEMMA DepositFair ==
  ASSUME NEW v \in Nat, NEW s \in Nat, NEW d \in Nat, NEW n \in Nat,
         n * v <= d * s
  PROVE  (v + d) * s >= v * (s + n)
<1>1. (v + d) * s = v * s + d * s
  OBVIOUS
<1>2. v * (s + n) = v * s + n * v
  OBVIOUS
<1>3. v * s \in Nat /\ d * s \in Nat /\ n * v \in Nat
  OBVIOUS
<1>4. QED
  BY <1>1, <1>2, <1>3

\* A payout a for n shares leaves the others their claim on the vault.
LEMMA PayoutFair ==
  ASSUME NEW v \in Nat, NEW s \in Nat, NEW a \in Nat, NEW n \in Nat,
         a <= v, n <= s, a * s <= n * v
  PROVE  (v - a) * s >= v * (s - n)
<1>1. (v - a) * s = v * s - a * s
  OBVIOUS
<1>2. v * (s - n) = v * s - n * v
  OBVIOUS
<1>3. v * s \in Nat /\ a * s \in Nat /\ n * v \in Nat
  OBVIOUS
<1>4. QED
  BY <1>1, <1>2, <1>3

\* The output out is within what the input n, less a fee, pays for: e counts
\* against the denominator d, with i and o the reserves.
PaidFor(n, i, o, d, out) ==
  \E e \in Nat : e <= n * d /\ out * (i * d + e) <= e * o

\* Such an output leaves the product of the reserves at least what it was.
LEMMA SwapFair ==
  ASSUME NEW i \in Nat, NEW o \in Nat, NEW n \in Nat, NEW d \in Nat \ {0},
         NEW out \in Nat, out <= o, PaidFor(n, i, o, d, out)
  PROVE  (i + n) * (o - out) >= i * o
<1>0. PICK e \in Nat : e <= n * d /\ out * (i * d + e) <= e * o
  BY DEF PaidFor
<1> DEFINE r == o - out
<1>1. r \in Nat /\ o = r + out
  OBVIOUS
<1> HIDE DEF r
<1>2. out * (i * d + e) = (out * i) * d + e * out
  OBVIOUS
<1>3. e * o = e * r + e * out
  BY <1>1
<1>4. /\ (out * i) * d \in Nat /\ e * out \in Nat /\ e * r \in Nat
      /\ n * d \in Nat /\ out * i \in Nat /\ n * r \in Nat
  BY <1>1
<1>5. (out * i) * d <= e * r
  BY <1>0, <1>2, <1>3, <1>4
<1>6. e * r <= (n * d) * r
  BY <1>0, <1>1, <1>4, MulMono
<1>7. (n * d) * r = (n * r) * d
  BY <1>1
<1>8. (n * r) * d \in Nat
  BY <1>4
<1>9. (out * i) * d <= (n * r) * d
  BY <1>4, <1>5, <1>6, <1>7, <1>8
<1>10. out * i <= n * r
  BY <1>4, <1>9, MulCancel
<1>11. (i + n) * r = i * r + n * r
  BY <1>1
<1>12. i * o = i * r + out * i
  BY <1>1
<1>13. i * r \in Nat
  BY <1>1
<1>14. QED
  BY <1>4, <1>10, <1>11, <1>12, <1>13 DEF r

\* A cast to an unsigned integer gives one, and never more than it was given.
LEMMA CastBounds ==
  ASSUME NEW n \in Nat, NEW max \in Nat
  PROVE  n % (max + 1) \in 0 .. max /\ n % (max + 1) <= n
OBVIOUS

\* A quotient that is cast is at most what was divided, divided.
LEMMA CastQuotientBounds ==
  ASSUME NEW a \in Nat, NEW b \in Nat, NEW c \in Nat \ {0}, NEW max \in Nat
  PROVE  /\ ((a * b) \div c) % (max + 1) \in 0 .. max
         /\ (((a * b) \div c) % (max + 1)) * c <= a * b
<1> DEFINE q == (a * b) \div c
           r == q % (max + 1)
<1>1. a * b \in Nat
  OBVIOUS
<1>2. q \in Nat /\ c * q <= a * b
  BY <1>1, DivBounds
<1>3. r \in 0 .. max /\ r <= q
  BY <1>2, CastBounds
<1> HIDE DEF q, r
<1>4. r * c <= q * c
  BY <1>2, <1>3, MulMono
<1>5. r * c <= a * b
  BY <1>1, <1>2, <1>3, <1>4
<1> QED  BY <1>3, <1>5 DEF q, r

-----------------------------------------------------------------------------
(***************************************************************************)
(* Minimal sets and numbers.  What a recursive function computes is shown  *)
(* with them: at a least argument at which it were wrong, its equation     *)
(* would fail.                                                             *)
(***************************************************************************)

\* Among subsets of a finite set there is one that contains no other: what is
\* false of some finite set is false of a smallest one.
LEMMA SmallestSet ==
  ASSUME NEW S, IsFiniteSet(S), NEW Q, \A s \in Q : s \subseteq S, Q # {}
  PROVE  \E s \in Q : \A r \in Q : r \subseteq s => r = s
<1>1. FiniteSubsetsOf(S) = SUBSET S
  BY FS_FiniteSubsetsOfFinite
<1>2. IsWellFoundedOn(StrictSubsetOrdering(S), SUBSET S)
  BY <1>1, FS_StrictSubsetOrderingWellFounded
<1>3. PICK s \in Q : \A r \in Q : <<r, s>> \notin StrictSubsetOrdering(S)
  BY <1>2, WFMin
<1> QED  BY <1>3 DEF StrictSubsetOrdering

\* Among naturals there is a least one.
LEMMA LeastNumber ==
  ASSUME NEW Q \in SUBSET Nat, Q # {}
  PROVE  \E n \in Q : \A m \in Q : n <= m
<1>0. PICK q \in Q : TRUE
  OBVIOUS
<1>1. q \in Int
  OBVIOUS
<1> DEFINE below == {m \in Q : m <= q}
           segments == {0 .. m : m \in below}
<1>2. (\A s \in segments : s \subseteq 0 .. q) /\ segments # {}
  BY <1>1
<1>3. IsFiniteSet(0 .. q)
  BY <1>1, FS_Interval
<1> HIDE DEF segments
<1>4. PICK s \in segments : \A r \in segments : r \subseteq s => r = s
  BY <1>2, <1>3, SmallestSet
<1> USE DEF segments
<1>5. PICK n \in below : s = 0 .. n
  OBVIOUS
<1>6. ASSUME NEW m \in Q, m < n
      PROVE  FALSE
  <2>1. 0 .. m \in segments /\ 0 .. m \subseteq s
    BY <1>5, <1>6
  <2>2. 0 .. m = 0 .. n
    BY <1>4, <1>5, <2>1
  <2> QED  BY <1>6, <2>2
<1> QED  BY <1>5, <1>6

-----------------------------------------------------------------------------
(***************************************************************************)
(* Sums.  SumFunction folds a recursive function over the finite subsets   *)
(* of a domain, with members taken out in an order that CHOOSE decides.    *)
(* It counts units: n of them for a member with the value n.               *)
(***************************************************************************)

\* The units that the members of T have, one by one.
Units(f, T) == {p \in T \X (Nat \ {0}) : p[2] <= f[p[1]]}

\* Those of x apart from the others.
LEMMA UnitsOfOne ==
  ASSUME NEW T, NEW f, NEW x \in T, f[x] \in Nat
  PROVE  /\ Units(f, T) = Units(f, T \ {x}) \cup ({x} \X (1 .. f[x]))
         /\ Units(f, T \ {x}) \cap ({x} \X (1 .. f[x])) = {}
BY DEF Units

\* They are finitely many.
LEMMA FiniteUnits ==
  ASSUME NEW T, IsFiniteSet(T), NEW f, \A x \in T : f[x] \in Nat
  PROVE  IsFiniteSet(Units(f, T))
<1> DEFINE own == [x \in T |-> {x} \X (1 .. f[x])]
           parts == {own[x] : x \in T}
<1>1. own \in Surjection(T, parts)
  BY DEF Surjection
<1>2. IsFiniteSet(parts)
  BY <1>1, FS_Surjection
<1>3. ASSUME NEW x \in T
      PROVE  IsFiniteSet(own[x])
  <2>1. IsFiniteSet({x})
    BY FS_Singleton
  <2>4. IsFiniteSet(1 .. f[x])
    <3>1. f[x] \in Int
      OBVIOUS
    <3> QED  BY <3>1, FS_Interval
  <2>2. IsFiniteSet({x} \X (1 .. f[x]))
    BY <2>1, <2>4, FS_Product
  <2>3. own[x] = {x} \X (1 .. f[x])
    OBVIOUS
  <2> HIDE DEF own
  <2> QED  BY <2>2, <2>3
<1>4. Units(f, T) = UNION parts
  BY DEF Units
<1>5. \A part \in parts : IsFiniteSet(part)
  BY <1>3
<1> HIDE DEF parts
<1> QED  BY <1>2, <1>4, <1>5, FS_UNION

\* What x has counts on top of what the others have.
LEMMA UnitsAdd ==
  ASSUME NEW T, IsFiniteSet(T), NEW f, \A y \in T : f[y] \in Nat, NEW x \in T
  PROVE  /\ Cardinality(Units(f, T)) \in Nat
         /\ Cardinality(Units(f, T \ {x})) \in Nat
         /\ Cardinality(Units(f, T)) = f[x] + Cardinality(Units(f, T \ {x}))
<1>1. IsFiniteSet(Units(f, T)) /\ IsFiniteSet(Units(f, T \ {x}))
  BY FiniteUnits, FS_RemoveElement
<1>2. /\ IsFiniteSet({x} \X (1 .. f[x]))
      /\ Cardinality({x} \X (1 .. f[x])) = f[x]
  <2>1. IsFiniteSet({x}) /\ Cardinality({x}) = 1
    BY FS_Singleton
  <2>2. IsFiniteSet(1 .. f[x]) /\ Cardinality(1 .. f[x]) = f[x]
    BY FS_Interval
  <2> QED  BY <2>1, <2>2, FS_Product
<1>3. Cardinality(Units(f, T \ {x}) \cap ({x} \X (1 .. f[x]))) = 0
  BY UnitsOfOne, FS_EmptySet
<1>4. Cardinality(Units(f, T)) =
        Cardinality(Units(f, T \ {x})) + Cardinality({x} \X (1 .. f[x])) - 0
  BY <1>1, <1>2, <1>3, UnitsOfOne, FS_Union
<1>5. Cardinality(Units(f, T)) \in Nat /\ Cardinality(Units(f, T \ {x})) \in Nat
  BY <1>1, FS_CardinalityType
<1> QED  BY <1>2, <1>4, <1>5

\* One step of the recursion by which SumFunctionOnSet is defined.
FoldStep(f, s, g) ==
  IF s = {} THEN 0 ELSE f[CHOOSE x \in s : TRUE] + g[s \ {CHOOSE x \in s : TRUE}]

\* SumFunctionOnSet is defined by that equation.
LEMMA SumIsFold ==
  ASSUME NEW f, NEW S
  PROVE  SumFunctionOnSet(f, S) = (CHOOSE g : g = [s \in SUBSET S |-> FoldStep(f, s, g)])[S]
BY DEF SumFunctionOnSet, FoldFunctionOnSet, MapThenFoldSet, FoldStep

\* The equation has one solution, which counts the units.
LEMMA SumIsUnits ==
  ASSUME NEW S, IsFiniteSet(S), NEW f \in [S -> Nat]
  PROVE  SumFunction(f) = Cardinality(Units(f, S))
<1> DEFINE count == [s \in SUBSET S |-> Cardinality(Units(f, s))]
           sum == CHOOSE g : g = [s \in SUBSET S |-> FoldStep(f, s, g)]
<1>1. ASSUME NEW s \in SUBSET S
      PROVE  FoldStep(f, s, count) = count[s]
  <2>1. CASE s = {}
    BY <2>1, FS_EmptySet DEF FoldStep, Units
  <2>2. CASE s # {}
    <3> DEFINE x == CHOOSE y \in s : TRUE
    <3>1. x \in s
      BY <2>2
    <3>2. IsFiniteSet(s) /\ \A y \in s : f[y] \in Nat
      BY FS_Subset
    <3> HIDE DEF x
    <3>3. Cardinality(Units(f, s)) = f[x] + Cardinality(Units(f, s \ {x}))
      BY <3>1, <3>2, UnitsAdd
    <3>4. s \ {x} \in SUBSET S
      OBVIOUS
    <3> QED  BY <2>2, <3>3, <3>4 DEF FoldStep, x
  <2> QED  BY <2>1, <2>2
<1>2. count = [s \in SUBSET S |-> FoldStep(f, s, count)]
  BY <1>1
<1>3. sum = [s \in SUBSET S |-> FoldStep(f, s, sum)]
  BY <1>2
<1> HIDE DEF sum
<1>4. sum[S] = count[S]
  <2> DEFINE Q == {s \in SUBSET S : sum[s] # count[s]}
  <2> SUFFICES ASSUME Q # {} PROVE FALSE
    OBVIOUS
  <2>0. \A s \in Q : s \subseteq S
    OBVIOUS
  <2> HIDE DEF Q
  <2>1. PICK s \in Q : \A r \in Q : r \subseteq s => r = s
    BY <2>0, SmallestSet
  <2> USE DEF Q
  <2>2. sum[s] = FoldStep(f, s, sum) /\ count[s] = FoldStep(f, s, count)
    BY <1>1, <1>3
  <2>3. CASE s = {}
    BY <2>2, <2>3 DEF FoldStep
  <2>4. CASE s # {}
    <3> DEFINE x == CHOOSE y \in s : TRUE
    <3>1. x \in s
      BY <2>4
    <3>2. s \ {x} \in SUBSET S /\ s \ {x} # s /\ s \ {x} \subseteq s
      BY <3>1
    <3>3. s \ {x} \notin Q
      BY <2>1, <3>2
    <3>4. sum[s \ {x}] = count[s \ {x}]
      BY <3>2, <3>3
    <3>5. FoldStep(f, s, sum) = FoldStep(f, s, count)
      BY <2>4, <3>4 DEF FoldStep
    <3> QED  BY <2>2, <3>5
  <2> QED  BY <2>3, <2>4
<1>5. SumFunction(f) = sum[S]
  <2>1. SumFunction(f) = SumFunctionOnSet(f, S)
    BY DEF SumFunction
  <2>2. SumFunctionOnSet(f, S) = sum[S]
    BY SumIsFold, Zenon DEF sum
  <2> QED  BY <2>1, <2>2
<1> QED  BY <1>4, <1>5

\* One member is taken out of a sum.
LEMMA SumOneOut ==
  ASSUME NEW S, IsFiniteSet(S), NEW f \in [S -> Nat], NEW x \in S
  PROVE  /\ Cardinality(Units(f, S \ {x})) \in Nat
         /\ SumFunction(f) = f[x] + Cardinality(Units(f, S \ {x}))
BY SumIsUnits, UnitsAdd

\* Naturals sum up to a natural.
LEMMA SumNat ==
  ASSUME NEW S, IsFiniteSet(S), NEW f \in [S -> Nat]
  PROVE  SumFunction(f) \in Nat
<1>1. IsFiniteSet(Units(f, S))
  BY FiniteUnits
<1> QED  BY <1>1, SumIsUnits, FS_CardinalityType

\* A sum changes by as much as the one member that changes.
LEMMA SumOneChanges ==
  ASSUME NEW S, IsFiniteSet(S), NEW f \in [S -> Nat], NEW g \in [S -> Nat],
         NEW x \in S, \A y \in S \ {x} : g[y] = f[y]
  PROVE  SumFunction(g) = SumFunction(f) + g[x] - f[x]
<1>1. Units(g, S \ {x}) = Units(f, S \ {x})
  BY DEF Units
<1> QED  BY <1>1, SumOneOut

LEMMA SumExcept ==
  ASSUME NEW S, IsFiniteSet(S), NEW f \in [S -> Nat], NEW x \in S, NEW n \in Nat
  PROVE  SumFunction([f EXCEPT ![x] = n]) = SumFunction(f) + n - f[x]
<1> DEFINE g == [f EXCEPT ![x] = n]
<1>1. g \in [S -> Nat] /\ g[x] = n
  OBVIOUS
<1>2. \A y \in S \ {x} : g[y] = f[y]
  OBVIOUS
<1> HIDE DEF g
<1>3. SumFunction(g) = SumFunction(f) + g[x] - f[x]
  BY <1>1, <1>2, SumOneChanges, Zenon
<1> QED  BY <1>1, <1>3 DEF g

\* What one member gives another, or itself, leaves the sum as it is.
Moved(f, x, y, n) ==
  [z \in DOMAIN f |-> f[z] - (IF z = x THEN n ELSE 0) + (IF z = y THEN n ELSE 0)]

LEMMA SumTransfer ==
  ASSUME NEW S, IsFiniteSet(S), NEW f \in [S -> Nat], NEW x \in S, NEW y \in S, NEW n \in Int,
         Moved(f, x, y, n) \in [S -> Nat]
  PROVE  SumFunction(Moved(f, x, y, n)) = SumFunction(f)
<1> DEFINE g == Moved(f, x, y, n)
<1>1. /\ g \in [S -> Nat]
      /\ \A z \in S : g[z] = f[z] - (IF z = x THEN n ELSE 0) + (IF z = y THEN n ELSE 0)
  BY DEF Moved
<1> HIDE DEF g
<1>2. CASE x = y
  <2>1. g = f
    BY <1>1, <1>2
  <2> QED  BY <2>1 DEF g
<1>3. CASE x # y
  <2> DEFINE h == [f EXCEPT ![x] = g[x]]
  <2>1. h \in [S -> Nat] /\ h[x] = g[x] /\ h[y] = f[y]
    BY <1>1, <1>3
  <2>2. g[x] = f[x] - n /\ g[y] = f[y] + n
    BY <1>1, <1>3
  <2>3. \A z \in S \ {x} : h[z] = f[z]
    OBVIOUS
  <2>4. \A z \in S \ {y} : g[z] = h[z]
    BY <1>1
  <2> HIDE DEF h
  <2>5. h \in [S -> Nat] /\ g \in [S -> Nat]
    BY <1>1, <2>1
  <2>6. SumFunction(h) = SumFunction(f) + h[x] - f[x]
    BY ONLY f \in [S -> Nat], x \in S, IsFiniteSet(S), <2>3, <2>5, SumOneChanges, Zenon
  <2>7. SumFunction(g) = SumFunction(h) + g[y] - h[y]
    BY ONLY y \in S, IsFiniteSet(S), <2>4, <2>5, SumOneChanges, Zenon
  <2>8. SumFunction(f) \in Nat /\ f[x] \in Nat /\ f[y] \in Nat
    BY SumNat
  <2>9. SumFunction(g) = SumFunction(f)
    BY <2>1, <2>2, <2>6, <2>7, <2>8
  <2> QED  BY <2>9 DEF g
<1> QED  BY <1>2, <1>3

LEMMA SumOfZeros ==
  ASSUME NEW S, IsFiniteSet(S)
  PROVE  SumFunction([x \in S |-> 0]) = 0
<1> DEFINE f == [x \in S |-> 0]
<1>1. f \in [S -> Nat] /\ Units(f, S) = {}
  BY DEF Units
<1> HIDE DEF f
<1>2. SumFunction(f) = Cardinality(Units(f, S))
  BY <1>1, SumIsUnits
<1> QED  BY <1>1, <1>2, FS_EmptySet DEF f

\* No member exceeds the sum.
LEMMA SumBound ==
  ASSUME NEW S, IsFiniteSet(S), NEW f \in [S -> Nat], NEW x \in S
  PROVE  f[x] <= SumFunction(f)
<1> DEFINE rest == Cardinality(Units(f, S \ {x}))
<1>1. rest \in Nat /\ SumFunction(f) = f[x] + rest
  BY SumOneOut
<1> HIDE DEF rest
<1> QED  BY <1>1

\* A sum over two sets that have nothing in common is the sum of two sums.
LEMMA SumSplit ==
  ASSUME NEW A, NEW B, IsFiniteSet(A), IsFiniteSet(B), A \cap B = {},
         NEW f \in [A \cup B -> Nat]
  PROVE  SumFunction(f) = SumFunction([x \in A |-> f[x]]) + SumFunction([x \in B |-> f[x]])
<1> DEFINE g == [x \in A |-> f[x]]
           h == [x \in B |-> f[x]]
<1>1. g \in [A -> Nat] /\ h \in [B -> Nat] /\ IsFiniteSet(A \cup B)
  BY FS_Union
<1>2. /\ Units(f, A \cup B) = Units(g, A) \cup Units(h, B)
      /\ Units(g, A) \cap Units(h, B) = {}
  BY DEF Units
<1>3. /\ SumFunction(f) = Cardinality(Units(f, A \cup B))
      /\ SumFunction(g) = Cardinality(Units(g, A))
      /\ SumFunction(h) = Cardinality(Units(h, B))
  BY <1>1, SumIsUnits
<1>4. IsFiniteSet(Units(g, A)) /\ IsFiniteSet(Units(h, B))
  BY <1>1, FiniteUnits
<1>5. /\ Cardinality(Units(g, A)) \in Nat /\ Cardinality(Units(h, B)) \in Nat
      /\ Cardinality(Units(g, A) \cap Units(h, B)) = 0
  BY <1>2, <1>4, FS_CardinalityType, FS_EmptySet
<1>6. Cardinality(Units(f, A \cup B)) =
        Cardinality(Units(g, A)) + Cardinality(Units(h, B)) - 0
  BY <1>2, <1>4, <1>5, FS_Union
<1> QED  BY <1>3, <1>5, <1>6

-----------------------------------------------------------------------------
(***************************************************************************)
(* One step of Newton's method on plain numbers: m the argument, g a guess *)
(* that is not 0, q the quotient and z the next guess.                     *)
(***************************************************************************)

\* The square of a sum is at least four times the product.
LEMMA MeansCompared ==
  ASSUME NEW a \in Nat, NEW b \in Nat
  PROVE  4 * (a * b) <= (a + b) * (a + b)
<1> DEFINE d == a - b
<1>1. d \in Int /\ a = b + d
  OBVIOUS
<1> HIDE DEF d
<1>2. d * d >= 0
  BY <1>1
<1>3. (a + b) * (a + b) = 4 * (a * b) + d * d
  BY <1>1
<1>4. a * b \in Nat /\ d * d \in Int
  BY <1>1
<1>5. QED
  BY <1>2, <1>3, <1>4

\* Whatever the guess, the root is below the next one plus 1.
LEMMA NextGuessAbove ==
  ASSUME NEW m \in Nat, NEW g \in Nat \ {0}, NEW z \in Nat,
         z = (g + m \div g) \div 2
  PROVE  m < (z + 1) * (z + 1)
<1> DEFINE q == m \div g
<1>1. q \in Nat /\ m < g * q + g
  BY DivBounds
<1> HIDE DEF q
<1>2. z = (g + q) \div 2
  BY DEF q
<1>3. g + (q + 1) <= 2 * (z + 1)
  BY <1>1, <1>2
<1> DEFINE s == g + (q + 1)
           w == 2 * (z + 1)
<1>4. s * s <= w * w
  BY <1>1, <1>3, MulMono
<1>5. 4 * (g * (q + 1)) <= s * s
  BY <1>1, MeansCompared
<1>6. w * w = 4 * ((z + 1) * (z + 1))
  OBVIOUS
<1>7. g * (q + 1) = g * q + g
  BY <1>1
<1>8. /\ g * (q + 1) \in Nat /\ g * q \in Nat /\ s * s \in Nat
      /\ (z + 1) * (z + 1) \in Nat
  BY <1>1
<1>9. 4 * m < 4 * ((z + 1) * (z + 1))
  BY <1>1, <1>4, <1>5, <1>6, <1>7, <1>8
<1>10. QED
  BY <1>8, <1>9

\* A guess that the next one does not improve is not above the root.
LEMMA LastGuessBelow ==
  ASSUME NEW m \in Nat, NEW g \in Nat \ {0}, g <= (g + m \div g) \div 2
  PROVE  g * g <= m
<1> DEFINE q == m \div g
<1>1. q \in Nat /\ g * q <= m
  BY DivBounds
<1> HIDE DEF q
<1>2. g <= q
  BY <1>1 DEF q
<1>3. g * g <= g * q
  BY <1>1, <1>2, MulMono
<1>4. g * g \in Nat /\ g * q \in Nat
  BY <1>1
<1>5. QED
  BY <1>1, <1>3, <1>4

\* The sum of a guess and its quotient passes the argument by at most 1.
LEMMA SumBounded ==
  ASSUME NEW m \in Nat, NEW g \in Nat \ {0}, g <= m
  PROVE  m \div g \in Nat /\ m \div g > 0 /\ g + m \div g <= m + 1
<1> DEFINE q == m \div g
<1>1. q \in Nat /\ g * q <= m /\ m < g * q + g
  BY DivBounds
<1> HIDE DEF q
<1>2. q # 0
  <2>1. SUFFICES ASSUME q = 0 PROVE FALSE
    OBVIOUS
  <2>2. g * q = 0
    BY <2>1
  <2>3. QED
    BY <1>1, <2>2
<1>3. (g - 1) * (q - 1) \in Nat
  BY <1>1, <1>2
<1>4. (g - 1) * (q - 1) = g * q - g - q + 1
  BY <1>1
<1>5. g * q \in Nat
  BY <1>1
<1>6. QED
  BY <1>1, <1>2, <1>3, <1>4, <1>5 DEF q

\* So the next guess stays positive and within the argument.
LEMMA NextGuessBounds ==
  ASSUME NEW m \in Nat, NEW g \in Nat \ {0}, g <= m
  PROVE  (g + m \div g) \div 2 \in 1 .. m
<1> DEFINE q == m \div g
<1>1. q \in Nat /\ q > 0 /\ g + q <= m + 1
  BY SumBounded
<1> HIDE DEF q
<1>2. (g + q) \div 2 \in 1 .. m
  BY <1>1
<1>3. QED
  BY <1>2 DEF q

-----------------------------------------------------------------------------
(***************************************************************************)
(* IntegerSqrt.  Its recursive function is the guess itself up to the      *)
(* root, and the root above it.                                            *)
(***************************************************************************)
IsRoot(r, n) == r * r <= n /\ n < (r + 1) * (r + 1)

\* The next guess after a guess above the root is a smaller one, not below it.
LEMMA GuessesFall ==
  ASSUME NEW n \in Nat, NEW r \in Nat, IsRoot(r, n), NEW x \in Nat, r < x
  PROVE  LET y == (x + n \div x) \div 2 IN y \in Nat /\ y < x /\ r <= y
<1> DEFINE q == n \div x
           y == (x + q) \div 2
<1>1. x \in Nat \ {0}
  OBVIOUS
<1>2. q \in Nat /\ x * q <= n
  BY <1>1, DivBounds
<1>3. n < x * x
  <2>1. (r + 1) * (r + 1) <= x * x
    BY MulMono
  <2>2. (r + 1) * (r + 1) \in Nat /\ x * x \in Nat
    OBVIOUS
  <2> QED  BY <2>1, <2>2 DEF IsRoot
<1> HIDE DEF q
<1>4. q < x
  <2>1. SUFFICES ASSUME x <= q PROVE FALSE
    BY <1>2
  <2>2. x * x <= x * q /\ x * q \in Nat /\ x * x \in Nat
    BY <1>2, <2>1, MulMono
  <2> QED  BY <1>2, <1>3, <2>2
<1>5. y \in Nat /\ y < x
  BY <1>2, <1>4
<1>6. n < (y + 1) * (y + 1)
  BY <1>1, <1>5, NextGuessAbove DEF q
<1> HIDE DEF y
<1>7. r <= y
  <2>1. SUFFICES ASSUME y + 1 <= r PROVE FALSE
    BY <1>5
  <2>2. (y + 1) * (y + 1) <= r * r
    BY <1>5, <2>1, MulMono
  <2>3. (y + 1) * (y + 1) \in Nat /\ r * r \in Nat
    BY <1>5
  <2> QED  BY <1>6, <2>2, <2>3 DEF IsRoot
<1> QED  BY <1>5, <1>7 DEF y, q

\* Up to the root no guess improves.
LEMMA GuessesStay ==
  ASSUME NEW n \in Nat, NEW r \in Nat, IsRoot(r, n), NEW x \in Nat \ {0}, x <= r
  PROVE  ~((x + n \div x) \div 2 < x) /\ (x + n \div x) \div 2 \in Nat
<1> DEFINE q == n \div x
<1>1. q \in Nat /\ n < x * q + x
  BY DivBounds
<1> HIDE DEF q
<1>2. x * x <= n
  <2>1. x * x <= r * r /\ x * x \in Nat /\ r * r \in Nat
    BY MulMono
  <2> QED  BY <2>1 DEF IsRoot
<1>3. x <= q
  <2>1. SUFFICES ASSUME q + 1 <= x PROVE FALSE
    BY <1>1
  <2>2. x * (q + 1) <= x * x
    BY <1>1, <2>1, MulMono
  <2>3. x * (q + 1) = x * q + x /\ x * q \in Nat /\ x * x \in Nat
    BY <1>1
  <2> QED  BY <1>1, <1>2, <2>2, <2>3
<1>4. ~((x + q) \div 2 < x) /\ (x + q) \div 2 \in Nat
  BY <1>1, <1>3
<1> QED  BY <1>4 DEF q

\* One step of the recursion.
NewtonStep(n, g, x) ==
  LET y == (x + n \div x) \div 2
  IN  IF y < x THEN g[y] ELSE x

LEMMA IntegerSqrtIsRoot ==
  ASSUME NEW n \in Nat, NEW r \in Nat, IsRoot(r, n)
  PROVE  IntegerSqrt(n) = r
<1> DEFINE root == [x \in Nat \ {0} |-> IF x > r THEN r ELSE x]
           newton == CHOOSE g : g = [x \in Nat \ {0} |-> NewtonStep(n, g, x)]
<1>1. CASE n = 0
  <2>1. r = 0
    <3>1. SUFFICES ASSUME 1 <= r PROVE FALSE
      OBVIOUS
    <3>2. 1 * 1 <= r * r
      BY <3>1, MulMono
    <3> QED  BY <1>1, <3>2 DEF IsRoot
  <2> QED  BY <1>1, <2>1 DEF IntegerSqrt
<1>2. CASE n > 0
  <2>1. r > 0
    BY <1>2 DEF IsRoot
  <2>2. ASSUME NEW x \in Nat \ {0}
        PROVE  NewtonStep(n, root, x) = root[x]
    <3> DEFINE y == (x + n \div x) \div 2
    <3>1. CASE x <= r
      <4>1. ~(y < x) /\ root[x] = x
        BY <3>1, GuessesStay
      <4> QED  BY <4>1 DEF NewtonStep
    <3>2. CASE r < x
      <4>1. y \in Nat /\ y < x /\ r <= y
        BY <3>2, GuessesFall
      <4> HIDE DEF y
      <4>2. root[y] = r /\ root[x] = r
        BY <2>1, <3>2, <4>1
      <4> QED  BY <4>1, <4>2 DEF NewtonStep, y
    <3> QED  BY <3>1, <3>2
  <2>3. root = [x \in Nat \ {0} |-> NewtonStep(n, root, x)]
    BY <2>2
  <2>4. newton = [x \in Nat \ {0} |-> NewtonStep(n, newton, x)]
    BY <2>3
  <2>5. IntegerSqrt(n) = newton[n]
    BY <1>2 DEF IntegerSqrt, NewtonStep
  <2> HIDE DEF newton
  <2>6. ASSUME NEW x \in Nat \ {0}, newton[x] # root[x],
               \A z \in Nat \ {0} : z < x => newton[z] = root[z]
        PROVE  FALSE
    <3> DEFINE y == (x + n \div x) \div 2
    <3>1. newton[x] = NewtonStep(n, newton, x) /\ root[x] = NewtonStep(n, root, x)
      BY <2>2, <2>4
    <3>2. ~(y < x) \/ newton[y] = root[y]
      <4>1. CASE x <= r
        BY <4>1, GuessesStay
      <4>2. CASE r < x
        <5>1. y \in Nat /\ y < x /\ r <= y
          BY <4>2, GuessesFall
        <5> HIDE DEF y
        <5> QED  BY <2>1, <2>6, <5>1
      <4> QED  BY <4>1, <4>2
    <3> QED  BY <2>6, <3>1, <3>2 DEF NewtonStep
  <2>7. newton[n] = root[n]
    <3> DEFINE wrong == {x \in Nat \ {0} : newton[x] # root[x]}
    <3> HIDE DEF root
    <3>1. SUFFICES ASSUME wrong # {} PROVE FALSE
      BY <1>2
    <3>2. PICK x \in wrong : \A z \in wrong : x <= z
      BY <3>1, LeastNumber
    <3> QED  BY <2>6, <3>2
  <2>8. root[n] = r
    <3>1. r <= n
      <4>1. 1 * r <= r * r /\ r * r \in Nat
        BY <2>1, MulMono
      <4> QED  BY <4>1 DEF IsRoot
    <3> QED  BY <1>2, <3>1
  <2> QED  BY <2>5, <2>7, <2>8
<1> QED  BY <1>1, <1>2

\* Every natural has a root.
LEMMA RootExists ==
  ASSUME NEW n \in Nat
  PROVE  \E r \in Nat : IsRoot(r, n)
<1> DEFINE above == {m \in Nat : n < m * m}
<1>1. n + 1 \in above
  <2>1. (n + 1) * (n + 1) = n * n + 2 * n + 1 /\ n * n \in Nat
    OBVIOUS
  <2> QED  BY <2>1
<1>2. PICK m \in above : \A k \in above : m <= k
  BY <1>1, LeastNumber
<1>3. m # 0 /\ m \in Nat
  OBVIOUS
<1>4. m - 1 \in Nat /\ (m - 1) + 1 = m /\ m - 1 \notin above
  BY <1>2, <1>3
<1>5. (m - 1) * (m - 1) \in Nat
  BY <1>4
<1>6. IsRoot(m - 1, n)
  BY <1>4, <1>5 DEF IsRoot
<1> QED  BY <1>4, <1>6

(***************************************************************************)
(* The operator that the models of the market makers use for integer_sqrt  *)
(* is the square root rounded down, for every argument.                    *)
(***************************************************************************)
THEOREM IntegerSqrtCorrect ==
  ASSUME NEW n \in Nat
  PROVE  IntegerSqrt(n) \in Nat /\ IsRoot(IntegerSqrt(n), n)
BY RootExists, IntegerSqrtIsRoot

=============================================================================
