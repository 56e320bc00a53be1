-------------------------- MODULE WalletLedgerProofs --------------------------
(***************************************************************************)
(* No interleaving of recharges, payments, failed payments, refunds and    *)
(* expiries loses or invents a customer's credit, for any number of        *)
(* customers, tickets, QRs and transactions.  The credits are sums over    *)
(* the debits, so the module begins with sums over finite sets: what the   *)
(* library proves about them by an induction over an operator is proved    *)
(* here by an induction over a set of sets.                                *)
(***************************************************************************)
EXTENDS WalletLedger, FiniteSetTheorems, TLAPS

-----------------------------------------------------------------------------
(* Sums.                                                                   *)

\* Induction over the subsets of a finite set, told as a set of subsets.
LEMMA SubsetInduction ==
  ASSUME NEW S, IsFiniteSet(S), NEW W \in SUBSET SUBSET S,
         \A T \in SUBSET S : (\A U \in SUBSET T : U # T => U \in W) => T \in W
  PROVE  \A T \in SUBSET S : T \in W
<1> DEFINE Bad == (SUBSET S) \ W
<1>1. SUFFICES ASSUME Bad # {} PROVE FALSE
  OBVIOUS
<1>2. IsWellFoundedOn(StrictSubsetOrdering(S), SUBSET S)
  BY FS_StrictSubsetOrderingWellFounded, FS_FiniteSubsetsOfFinite
<1>3. PICK T \in Bad :
        \A U \in Bad : <<U, T>> \notin StrictSubsetOrdering(S)
  <2> HIDE DEF Bad
  <2>1. Bad \subseteq SUBSET S
    BY DEF Bad
  <2> QED
    BY <1>1, <1>2, <2>1, WFMin
<1>4. \A U \in SUBSET T : U # T => U \in W
  BY <1>3 DEF StrictSubsetOrdering
<1> QED
  BY <1>3, <1>4

\* What the recursive function inside a sum satisfies.
IsSum(g, f, S) ==
  g = [s \in SUBSET S |->
         IF s = {} THEN 0
         ELSE f[CHOOSE x \in s : TRUE] + g[s \ {CHOOSE x \in s : TRUE}]]

First(s) == CHOOSE x \in s : TRUE

\* The sum over a set is its first element and the sum of the rest.
LEMMA SumAt ==
  ASSUME NEW g, NEW f, NEW S, IsSum(g, f, S), NEW s \in SUBSET S
  PROVE  g[s] = IF s = {} THEN 0 ELSE f[First(s)] + g[s \ {First(s)}]
<1> DEFINE h == [u \in SUBSET S |->
         IF u = {} THEN 0
         ELSE f[CHOOSE x \in u : TRUE] + g[u \ {CHOOSE x \in u : TRUE}]]
<1>1. g = h
  BY DEF IsSum
<1>2. h[s] = IF s = {} THEN 0 ELSE f[First(s)] + g[s \ {First(s)}]
  BY DEF First
<1> HIDE DEF h
<1> QED
  BY <1>1, <1>2

\* The element the recursion takes out is one of the set.
LEMMA FirstIn == \A s : s # {} => First(s) \in s
BY DEF First

\* Such functions agree where their arguments do.
LEMMA SumUnique ==
  ASSUME NEW g, NEW h, NEW e, NEW f, NEW S, NEW T, IsFiniteSet(S),
         IsSum(g, e, S), IsSum(h, f, T),
         \A x \in S \cap T : e[x] = f[x]
  PROVE  \A s \in SUBSET (S \cap T) : g[s] = h[s]
<1> DEFINE W == {s \in SUBSET (S \cap T) : g[s] = h[s]}
<1>1. IsFiniteSet(S \cap T)
  BY FS_Intersection
<1>2. ASSUME NEW s \in SUBSET (S \cap T),
             \A u \in SUBSET s : u # s => u \in W
      PROVE  s \in W
  <2>1. CASE s = {}
    BY <2>1, SumAt
  <2>2. CASE s # {}
    <3>1. First(s) \in s /\ s \ {First(s)} \in W
      BY <1>2, <2>2, FirstIn
    <3>2. /\ g[s] = e[First(s)] + g[s \ {First(s)}]
          /\ h[s] = f[First(s)] + h[s \ {First(s)}]
      <4>1. s \in SUBSET S /\ s \in SUBSET T
        OBVIOUS
      <4> QED
        BY <2>2, <4>1, SumAt
    <3> QED
      BY <3>1, <3>2
  <2> QED
    BY <2>1, <2>2
<1>3. \A s \in SUBSET (S \cap T) : s \in W
  <2> DEFINE R == S \cap T
  <2>1. W \in SUBSET SUBSET R
    OBVIOUS
  <2>2. \A s \in SUBSET R : (\A u \in SUBSET s : u # s => u \in W) => s \in W
    BY <1>2
  <2>3. IsFiniteSet(R)
    BY <1>1
  <2> HIDE DEF W, R
  <2>4. \A s \in SUBSET R : s \in W
    BY <2>1, <2>2, <2>3, SubsetInduction
  <2> QED
    BY <2>4 DEF R
<1> QED
  BY <1>3

\* One exists for every finite set.
LEMMA SumExists ==
  ASSUME NEW f, NEW S, IsFiniteSet(S)
  PROVE  \E g : IsSum(g, f, S)
<1> DEFINE W == {T \in SUBSET S : \E g : IsSum(g, f, T)}
           G(T) == CHOOSE g : IsSum(g, f, T)
<1>1. ASSUME NEW T \in SUBSET S, \A U \in SUBSET T : U # T => U \in W
      PROVE  T \in W
  <2> DEFINE at(u) == G(u)[u]
             h == [s \in SUBSET T |->
                     IF s = {} THEN 0
                     ELSE f[First(s)] + at(s \ {First(s)})]
  <2>1. \A U \in SUBSET T : U # T => IsSum(G(U), f, U)
    BY <1>1, Zenon
  <2>2. ASSUME NEW s \in SUBSET T, s # T  PROVE at(s) = h[s]
    <3>1. s = {} => at(s) = 0
      BY <2>1, <2>2, SumAt
    <3>2. ASSUME s # {}
          PROVE  at(s) = f[First(s)] + at(s \ {First(s)})
      <4> DEFINE u == s \ {First(s)}
      <4>1. u \in SUBSET s /\ u \in SUBSET T /\ s \cap u = u
        OBVIOUS
      <4>0. u # T
        BY <2>2, <3>2, FirstIn
      <4>2. IsSum(G(s), f, s) /\ IsSum(G(u), f, u)
        BY <2>1, <2>2, <4>1, <4>0
      <4>3. IsFiniteSet(s)
        BY FS_Subset
      <4> HIDE DEF u, G
      <4>4. G(s)[u] = G(u)[u]
        BY <4>1, <4>2, <4>3, SumUnique
      <4>5. G(s)[s] = f[First(s)] + G(s)[u]
        BY <3>2, <4>2, SumAt DEF u
      <4> QED
        BY <4>4, <4>5 DEF u
    <3> QED
      BY <3>1, <3>2
  <2>3. h = [s \in SUBSET T |->
               IF s = {} THEN 0 ELSE f[First(s)] + h[s \ {First(s)}]]
    <3>1. \A s \in SUBSET T : s # {} =>
            s \ {First(s)} \in SUBSET T /\ s \ {First(s)} # T
      BY FirstIn
    <3>2. \A s \in SUBSET T : s # {} =>
            f[First(s)] + at(s \ {First(s)})
              = f[First(s)] + h[s \ {First(s)}]
      <4> HIDE DEF at, h
      <4> QED
        BY <2>2, <3>1
    <3> DEFINE k(s) == IF s = {} THEN 0
                       ELSE f[First(s)] + at(s \ {First(s)})
               l(s) == IF s = {} THEN 0 ELSE f[First(s)] + h[s \ {First(s)}]
    <3>3. \A s \in SUBSET T : k(s) = l(s)
      <4> HIDE DEF at, h
      <4> QED
        BY <3>2
    <3>4. h = [s \in SUBSET T |-> k(s)]
      OBVIOUS
    <3>5. [s \in SUBSET T |-> k(s)] = [s \in SUBSET T |-> l(s)]
      <4> HIDE DEF k, l
      <4> QED
        BY <3>3
    <3> QED
      BY <3>4, <3>5, Zenon
  <2>4. IsSum(h, f, T)
    <3> HIDE DEF h
    <3> QED
      BY <2>3 DEF IsSum, First
  <2> QED
    BY <2>4
<1>2. \A T \in SUBSET S : T \in W
  <2> HIDE DEF W
  <2>1. W \in SUBSET SUBSET S
    BY DEF W
  <2> QED
    BY <1>1, <2>1, SubsetInduction
<1> QED
  BY <1>2

\* A sum is the value of such a function.
LEMMA SumIs ==
  ASSUME NEW f, NEW S, IsFiniteSet(S)
  PROVE  \E g : IsSum(g, f, S) /\ SumFunctionOnSet(f, S) = g[S]
<1> DEFINE g == CHOOSE h : IsSum(h, f, S)
<1>1. IsSum(g, f, S)
  BY SumExists, Zenon
<1>2. SumFunctionOnSet(f, S) = g[S]
  BY DEF SumFunctionOnSet, FoldFunctionOnSet, MapThenFoldSet, IsSum
<1> QED
  BY <1>1, <1>2

\* Nothing adds up to zero; otherwise the first element adds to the rest.
LEMMA SumFirst ==
  ASSUME NEW f, NEW S, IsFiniteSet(S)
  PROVE  /\ S = {} => SumFunctionOnSet(f, S) = 0
         /\ S # {} => /\ First(S) \in S
                      /\ SumFunctionOnSet(f, S) =
                           f[First(S)] + SumFunctionOnSet(f, S \ {First(S)})
<1> DEFINE R == S \ {First(S)}
<1>1. PICK g : IsSum(g, f, S) /\ SumFunctionOnSet(f, S) = g[S]
  BY SumIs
<1>2. IsFiniteSet(R)
  BY FS_RemoveElement
<1>3. PICK h : IsSum(h, f, R) /\ SumFunctionOnSet(f, R) = h[R]
  BY <1>2, SumIs
<1>4. g[R] = h[R]
  <2>1. R \in SUBSET (S \cap R)
    OBVIOUS
  <2> HIDE DEF R
  <2> QED
    BY <1>1, <1>3, <2>1, SumUnique
<1>5. g[S] = IF S = {} THEN 0 ELSE f[First(S)] + g[R]
  BY <1>1, SumAt
<1> QED
  BY <1>1, <1>3, <1>4, <1>5, FirstIn

\* Sums of functions that agree are equal.
LEMMA SumEqual ==
  ASSUME NEW e, NEW f, NEW S, IsFiniteSet(S), \A x \in S : e[x] = f[x]
  PROVE  SumFunctionOnSet(e, S) = SumFunctionOnSet(f, S)
<1>1. PICK g : IsSum(g, e, S) /\ SumFunctionOnSet(e, S) = g[S]
  BY SumIs
<1>2. PICK h : IsSum(h, f, S) /\ SumFunctionOnSet(f, S) = h[S]
  BY SumIs
<1>3. S \in SUBSET (S \cap S)
  OBVIOUS
<1> QED
  BY <1>1, <1>2, <1>3, SumUnique

\* A sum of integers is an integer, and a sum of naturals is one.
LEMMA SumType ==
  ASSUME NEW f, NEW S, IsFiniteSet(S)
  PROVE  /\ (\A x \in S : f[x] \in Int) => SumFunctionOnSet(f, S) \in Int
         /\ (\A x \in S : f[x] \in Nat) => SumFunctionOnSet(f, S) \in Nat
<1>1. ASSUME NEW N \in {Nat, Int}, \A x \in S : f[x] \in N
      PROVE  SumFunctionOnSet(f, S) \in N
  <2> DEFINE W == {T \in SUBSET S : SumFunctionOnSet(f, T) \in N}
  <2>1. ASSUME NEW T \in SUBSET S, \A U \in SUBSET T : U # T => U \in W
        PROVE  T \in W
    <3>1. IsFiniteSet(T)
      BY FS_Subset
    <3>2. CASE T = {}
      <4>1. 0 \in N
        OBVIOUS
      <4> QED
        BY <3>1, <3>2, <4>1, SumFirst
    <3>3. CASE T # {}
      <4>1. First(T) \in T /\ T \ {First(T)} \in W
        BY <2>1, <3>3, FirstIn
      <4>2. SumFunctionOnSet(f, T) =
              f[First(T)] + SumFunctionOnSet(f, T \ {First(T)})
        BY <3>1, <3>3, SumFirst
      <4> QED
        BY <1>1, <4>1, <4>2
    <3> QED
      BY <3>2, <3>3
  <2>2. \A T \in SUBSET S : T \in W
    <3>1. W \in SUBSET SUBSET S
      OBVIOUS
    <3> HIDE DEF W
    <3> QED
      BY <2>1, <3>1, SubsetInduction
  <2> QED
    BY <2>2
<1> QED
  BY <1>1

\* Any element can be taken out of a sum.
LEMMA SumTakeOut ==
  ASSUME NEW f, NEW S, IsFiniteSet(S), \A x \in S : f[x] \in Int
  PROVE  \A x \in S : SumFunctionOnSet(f, S) =
                        f[x] + SumFunctionOnSet(f, S \ {x})
<1> DEFINE Takes(T) == \A x \in T : SumFunctionOnSet(f, T) =
                                      f[x] + SumFunctionOnSet(f, T \ {x})
           W == {T \in SUBSET S : Takes(T)}
<1>0. \A T \in SUBSET S : IsFiniteSet(T) /\ SumFunctionOnSet(f, T) \in Int
  <2>1. \A T \in SUBSET S : IsFiniteSet(T)
    BY FS_Subset
  <2> QED
    BY <2>1, SumType
<1>1. ASSUME NEW T \in SUBSET S, \A U \in SUBSET T : U # T => U \in W,
             NEW x \in T
      PROVE  SumFunctionOnSet(f, T) = f[x] + SumFunctionOnSet(f, T \ {x})
  <2> DEFINE y == First(T)
  <2>1. y \in T /\ SumFunctionOnSet(f, T) =
                     f[y] + SumFunctionOnSet(f, T \ {y})
    BY <1>0, SumFirst
  <2> HIDE DEF y
  <2>2. CASE x = y
    BY <2>1, <2>2
  <2>3. CASE x # y
    <3>1. /\ T \ {y} \in SUBSET T /\ T \ {y} # T /\ x \in T \ {y}
          /\ T \ {x} \in SUBSET T /\ T \ {x} # T /\ y \in T \ {x}
      BY <2>1, <2>3
    <3>2. T \ {y} \in W /\ T \ {x} \in W
      BY <1>1, <3>1
    <3>3. Takes(T \ {y}) /\ Takes(T \ {x})
      BY <3>2
    <3>4. /\ SumFunctionOnSet(f, T \ {y}) =
               f[x] + SumFunctionOnSet(f, (T \ {y}) \ {x})
          /\ SumFunctionOnSet(f, T \ {x}) =
               f[y] + SumFunctionOnSet(f, (T \ {x}) \ {y})
      BY <3>1, <3>3
    <3>5. (T \ {y}) \ {x} = (T \ {x}) \ {y}
      OBVIOUS
    <3>6. /\ SumFunctionOnSet(f, (T \ {x}) \ {y}) \in Int
          /\ f[x] \in Int /\ f[y] \in Int
      BY <1>0, <2>1
    <3> DEFINE rest == SumFunctionOnSet(f, (T \ {x}) \ {y})
    <3>7. /\ SumFunctionOnSet(f, T) = f[y] + (f[x] + rest)
          /\ SumFunctionOnSet(f, T \ {x}) = f[y] + rest
      BY <2>1, <3>4, <3>5
    <3>8. \A a, b, c \in Int : a + (b + c) = b + (a + c)
      OBVIOUS
    <3> HIDE DEF rest
    <3> QED
      BY <3>6, <3>7, <3>8 DEF rest
  <2> QED
    BY <2>2, <2>3
<1>2. \A T \in SUBSET S : T \in W
  <2>1. W \in SUBSET SUBSET S
    OBVIOUS
  <2>2. \A T \in SUBSET S : (\A U \in SUBSET T : U # T => U \in W) => T \in W
    BY <1>1
  <2> HIDE DEF W
  <2> QED
    BY <2>1, <2>2, SubsetInduction
<1> QED
  BY <1>2

\* Zeros add up to zero.
LEMMA SumZero ==
  ASSUME NEW f, NEW S, IsFiniteSet(S), \A x \in S : f[x] = 0
  PROVE  SumFunctionOnSet(f, S) = 0
<1> DEFINE W == {T \in SUBSET S : SumFunctionOnSet(f, T) = 0}
<1>1. ASSUME NEW T \in SUBSET S, \A U \in SUBSET T : U # T => U \in W
      PROVE  T \in W
  <2>1. IsFiniteSet(T)
    BY FS_Subset
  <2>2. T # {} => First(T) \in T /\ T \ {First(T)} \in W
    BY <1>1, FirstIn
  <2> QED
    BY <2>1, <2>2, SumFirst
<1>2. W \in SUBSET SUBSET S
  OBVIOUS
<1> HIDE DEF W
<1>3. S \in W
  BY <1>1, <1>2, SubsetInduction
<1> QED
  BY <1>3 DEF W

\* A function on one element more.
LEMMA SumOneMore ==
  ASSUME NEW f, NEW g, NEW S, IsFiniteSet(S), NEW x, x \notin S,
         \A y \in S : f[y] \in Int /\ g[y] = f[y], g[x] \in Int
  PROVE  SumFunctionOnSet(g, S \cup {x}) = g[x] + SumFunctionOnSet(f, S)
<1>1. IsFiniteSet(S \cup {x})
  BY FS_AddElement
<1>2. SumFunctionOnSet(g, S \cup {x}) =
        g[x] + SumFunctionOnSet(g, (S \cup {x}) \ {x})
  BY <1>1, SumTakeOut
<1>3. (S \cup {x}) \ {x} = S
  OBVIOUS
<1> QED
  BY <1>2, <1>3, SumEqual

\* A sum over one number more.
LEMMA SumNext ==
  ASSUME NEW f, NEW k \in Nat, \A i \in 1 .. (k + 1) : f[i] \in Int
  PROVE  SumFunctionOnSet(f, 1 .. (k + 1)) =
           f[k + 1] + SumFunctionOnSet(f, 1 .. k)
<1> DEFINE S == 1 .. (k + 1)
<1>1. k + 1 \in S /\ S \ {k + 1} = 1 .. k
  OBVIOUS
<1>2. IsFiniteSet(S)
  BY FS_Interval
<1>3. \A i \in S : f[i] \in Int
  OBVIOUS
<1> HIDE DEF S
<1>4. SumFunctionOnSet(f, S) = f[k + 1] + SumFunctionOnSet(f, S \ {k + 1})
  BY <1>1, <1>2, <1>3, SumTakeOut
<1> QED
  BY <1>1, <1>4 DEF S

-----------------------------------------------------------------------------
(* Paying with the oldest credits.                                         *)

\* Induction over the natural numbers, told as a set of them.
LEMMA SetOfNats ==
  ASSUME NEW W \in SUBSET Nat, 0 \in W, \A n \in W : n + 1 \in W
  PROVE  \A n \in Nat : n \in W
<1> DEFINE Bad == Nat \ W
<1>1. SUFFICES ASSUME Bad # {} PROVE FALSE
  OBVIOUS
<1>2. PICK n \in Bad : \A m \in Bad : <<m, n>> \notin OpToRel(<, Nat)
  <2>1. Bad \subseteq Nat
    OBVIOUS
  <2> HIDE DEF Bad
  <2> QED
    BY <1>1, <2>1, WFMin, NatLessThanWellFounded
<1>3. n \in Nat /\ n \notin W /\ n # 0
  OBVIOUS
<1>4. PICK k \in Nat : n = k + 1
  <2>1. n - 1 \in Nat /\ n = (n - 1) + 1
    BY <1>3
  <2> QED
    BY <2>1
<1>5. <<k, n>> \in OpToRel(<, Nat)
  BY <1>3, <1>4 DEF OpToRel
<1>6. k \in W
  BY <1>2, <1>5
<1> QED
  BY <1>3, <1>4, <1>6

\* What consumeForTicket still misses after each of the first N credits.
IsMissing(m, can, N, amount) ==
  m = [i \in 0 .. N |-> IF i = 0 THEN amount
                        ELSE m[i - 1] - Min2(can[i], m[i - 1])]

\* The loop has an outcome.
LEMMA MissingExists ==
  ASSUME NEW can, NEW amount
  PROVE  \A N \in Nat : \E m : IsMissing(m, can, N, amount)
<1> DEFINE W == {N \in Nat : \E m : IsMissing(m, can, N, amount)}
<1>1. 0 \in W
  <2>1. IsMissing([i \in 0 .. 0 |-> amount], can, 0, amount)
    BY DEF IsMissing
  <2> QED
    BY <2>1
<1>2. ASSUME NEW N \in W  PROVE N + 1 \in W
  <2>1. PICK m : IsMissing(m, can, N, amount)
    OBVIOUS
  <2> DEFINE step(v, i) == v - Min2(can[i], v)
             l == [i \in 0 .. (N + 1) |-> IF i <= N THEN m[i]
                                          ELSE step(m[N], N + 1)]
  <2>2. \A i \in 0 .. N : m[i] = IF i = 0 THEN amount
                                 ELSE step(m[i - 1], i)
    <3> DEFINE h == [i \in 0 .. N |-> IF i = 0 THEN amount
                                      ELSE step(m[i - 1], i)]
    <3>1. m = h
      BY <2>1 DEF IsMissing
    <3>2. \A i \in 0 .. N : h[i] = IF i = 0 THEN amount
                                   ELSE step(m[i - 1], i)
      OBVIOUS
    <3> HIDE DEF h, step
    <3> QED
      BY <3>1, <3>2
  <2>3. \A i \in 0 .. (N + 1) : l[i] = IF i = 0 THEN amount
                                       ELSE step(l[i - 1], i)
    <3> HIDE DEF step
    <3> QED
      BY <2>2
  <2>4. l = [i \in 0 .. (N + 1) |-> IF i = 0 THEN amount
                                    ELSE step(l[i - 1], i)]
    <3>1. l = [i \in 0 .. (N + 1) |-> l[i]]
      OBVIOUS
    <3> HIDE DEF l, step
    <3> QED
      BY <2>3, <3>1
  <2>5. IsMissing(l, can, N + 1, amount)
    <3> HIDE DEF l
    <3> QED
      BY <2>4 DEF IsMissing
  <2> QED
    BY <2>5
<1> HIDE DEF W
<1>3. \A N \in Nat : N \in W
  <2>1. W \in SUBSET Nat
    BY DEF W
  <2> QED
    BY <1>1, <1>2, <2>1, SetOfNats
<1> QED
  BY <1>3 DEF W

\* What it gives from credit to credit.
LEMMA MissingAt ==
  ASSUME NEW m, NEW can, NEW N \in Nat, NEW amount,
         IsMissing(m, can, N, amount)
  PROVE  /\ m[0] = amount
         /\ \A i \in 1 .. N : m[i] = m[i - 1] - Min2(can[i], m[i - 1])
<1> DEFINE h == [i \in 0 .. N |-> IF i = 0 THEN amount
                                  ELSE m[i - 1] - Min2(can[i], m[i - 1])]
<1>1. m = h
  BY DEF IsMissing
<1>2. /\ h[0] = amount
      /\ \A i \in 1 .. N : h[i] = m[i - 1] - Min2(can[i], m[i - 1])
  OBVIOUS
<1> HIDE DEF h
<1> QED
  BY <1>1, <1>2

Loop(N, can, amount, m) ==
  /\ N \in Nat /\ can \in [1 .. N -> Nat] /\ amount \in Nat
  /\ IsMissing(m, can, N, amount)

\* What is missing never rises above what was asked, nor is more taken from a

\* credit than it has.
LEMMA LoopSteps ==
  ASSUME NEW N, NEW can, NEW amount, NEW m, Loop(N, can, amount, m)
  PROVE  /\ \A k \in 0 .. N : m[k] \in 0 .. amount
         /\ m[0] = amount
         /\ \A i \in 1 .. N : m[i] = m[i - 1] - Min2(can[i], m[i - 1])
<1> USE DEF Loop
<1>1. /\ m[0] = amount
      /\ \A i \in 1 .. N : m[i] = m[i - 1] - Min2(can[i], m[i - 1])
  BY MissingAt
<1> DEFINE W == {k \in Nat : k <= N => m[k] \in 0 .. amount}
<1>2. 0 \in W
  BY <1>1
<1>3. ASSUME NEW k \in W  PROVE k + 1 \in W
  <2>1. CASE k + 1 <= N
    <3>1. m[k] \in 0 .. amount /\ can[k + 1] \in Nat
      BY <2>1
    <3>2. m[k + 1] = m[k] - Min2(can[k + 1], m[k])
      BY <1>1, <2>1
    <3> QED
      BY <3>1, <3>2 DEF Min2
  <2>2. CASE ~(k + 1 <= N)
    BY <2>2
  <2> QED
    BY <2>1, <2>2
<1>4. W \in SUBSET Nat
  OBVIOUS
<1> HIDE DEF W
<1>5. \A k \in Nat : k \in W
  BY <1>2, <1>3, <1>4, SetOfNats
<1>6. \A k \in 0 .. N : k \in Nat /\ k <= N
  OBVIOUS
<1> QED
  BY <1>1, <1>5, <1>6 DEF W

\* What is missing and what has been used after each of the credits.
Spends(N, can, amount, m, used) ==
  /\ N \in Nat /\ can \in [1 .. N -> Nat] /\ amount \in Nat
  /\ m \in [0 .. N -> Nat] /\ used \in [1 .. N -> Nat]
  /\ m[0] = amount
  /\ \A i \in 1 .. N : m[i] = m[i - 1] - used[i]
  /\ \A i \in 1 .. N : used[i] = can[i] \/ used[i] = m[i - 1]

\* What has been taken and what is missing add up to what was asked.
LEMMA LoopTotals ==
  ASSUME NEW N, NEW can, NEW amount, NEW m, NEW used,
         Spends(N, can, amount, m, used)
  PROVE  \A k \in 0 .. N : /\ m[k] + SumFunctionOnSet(used, 1 .. k) = amount
                           /\ \A i \in 0 .. k : m[k] <= m[i]
<1> USE DEF Spends
<1> DEFINE W == {k \in Nat : k <= N =>
                   /\ m[k] + SumFunctionOnSet(used, 1 .. k) = amount
                   /\ \A i \in 0 .. k : m[k] <= m[i]}
<1>1. 0 \in W
  <2>1. 1 .. 0 = {}
    OBVIOUS
  <2>2. SumFunctionOnSet(used, 1 .. 0) = 0
    BY <2>1, SumFirst, FS_EmptySet
  <2> QED
    BY <2>2
<1>2. ASSUME NEW k \in Nat, k + 1 <= N,
             m[k] + SumFunctionOnSet(used, 1 .. k) = amount,
             \A i \in 0 .. k : m[k] <= m[i]
      PROVE  /\ m[k + 1] + SumFunctionOnSet(used, 1 .. (k + 1)) = amount
             /\ \A i \in 0 .. (k + 1) : m[k + 1] <= m[i]
  <2>1. IsFiniteSet(1 .. k)
    BY FS_Interval
  <2>2. /\ m[k] \in Nat /\ m[k + 1] \in Nat /\ used[k + 1] \in Nat
        /\ m[k + 1] = m[k] - used[k + 1]
    <3>1. k \in 0 .. N /\ k + 1 \in 0 .. N /\ k + 1 \in 1 .. N
      BY <1>2
    <3>2. m[k + 1] = m[(k + 1) - 1] - used[k + 1] /\ (k + 1) - 1 = k
      BY <3>1
    <3> QED
      BY <3>1, <3>2
  <2>3. \A y \in 1 .. (k + 1) : used[y] \in Int
    BY <1>2
  <2>4. SumFunctionOnSet(used, 1 .. (k + 1)) =
          used[k + 1] + SumFunctionOnSet(used, 1 .. k)
    BY <2>3, SumNext
  <2>5. SumFunctionOnSet(used, 1 .. k) \in Int
    <3>1. \A y \in 1 .. k : used[y] \in Int
      BY <2>3
    <3> QED
      BY <2>1, <3>1, SumType
  <2>6. m[k + 1] + SumFunctionOnSet(used, 1 .. (k + 1)) = amount
    BY <1>2, <2>2, <2>4, <2>5
  <2>7. \A i \in 0 .. k : m[i] \in Nat
    BY <1>2
  <2>8. ASSUME NEW i \in 0 .. (k + 1)  PROVE m[k + 1] <= m[i]
    <3>1. CASE i = k + 1
      BY <2>2, <3>1
    <3>2. CASE i \in 0 .. k
      <4>1. m[k] <= m[i] /\ m[i] \in Nat
        BY <1>2, <2>7, <3>2
      <4> HIDE DEF Spends, W
      <4> QED
        BY <2>2, <4>1
    <3> QED
      BY <3>1, <3>2
  <2> QED
    BY <2>6, <2>8
<1>3. ASSUME NEW k \in W  PROVE k + 1 \in W
  <2>1. CASE k + 1 <= N
    <3>1. /\ k \in Nat /\ m[k] + SumFunctionOnSet(used, 1 .. k) = amount
          /\ \A i \in 0 .. k : m[k] <= m[i]
      BY <2>1
    <3>2. /\ m[k + 1] + SumFunctionOnSet(used, 1 .. (k + 1)) = amount
          /\ \A i \in 0 .. (k + 1) : m[k + 1] <= m[i]
      <4> HIDE DEF W
      <4> QED
        BY <1>2, <2>1, <3>1
    <3> QED
      BY <3>1, <3>2
  <2>2. CASE ~(k + 1 <= N)
    BY <2>2
  <2> QED
    BY <2>1, <2>2
<1>4. W \in SUBSET Nat
  OBVIOUS
<1>5. \A k \in 0 .. N : k \in Nat /\ k <= N
  OBVIOUS
<1> HIDE DEF W
<1>6. \A k \in Nat : k \in W
  BY <1>1, <1>3, <1>4, SetOfNats
<1> QED
  BY <1>5, <1>6 DEF W

\* The first credits are emptied one after the other, nothing is taken twice,

\* and the amount is paid in full when the credits suffice.
LEMMA LoopSpends ==
  ASSUME NEW N, NEW can, NEW amount, NEW m, NEW used,
         Spends(N, can, amount, m, used)
  PROVE  /\ \A i, j \in 1 .. N : i < j /\ used[j] > 0 => used[i] = can[i]
         /\ amount <= SumFunctionOnSet(can, 1 .. N) =>
              SumFunctionOnSet(used, 1 .. N) = amount
<1>1. \A k \in 0 .. N : /\ m[k] + SumFunctionOnSet(used, 1 .. k) = amount
                        /\ \A i \in 0 .. k : m[k] <= m[i]
  BY LoopTotals
<1> USE DEF Spends
<1>2. ASSUME NEW i \in 1 .. N, m[i] > 0  PROVE used[i] = can[i]
  <2>1. i - 1 \in 0 .. N /\ m[i] = m[i - 1] - used[i]
    OBVIOUS
  <2>2. m[i - 1] \in Nat
    BY <2>1
  <2> QED
    BY <1>2, <2>1, <2>2
<1>3. ASSUME NEW i \in 1 .. N, NEW j \in 1 .. N, i < j, used[j] > 0
      PROVE  used[i] = can[i]
  <2>1. j - 1 \in 0 .. N /\ i \in 0 .. (j - 1) /\ i \in 0 .. N
    BY <1>3
  <2>2. m[j - 1] <= m[i]
    BY <1>1, <2>1
  <2>3. /\ m[i] \in Nat /\ m[j - 1] \in Nat /\ m[j] \in Nat
        /\ used[j] \in Nat
    BY <2>1
  <2>4. m[j] = m[j - 1] - used[j]
    OBVIOUS
  <2> QED
    BY <1>2, <1>3, <2>2, <2>3, <2>4
<1>4. ASSUME amount <= SumFunctionOnSet(can, 1 .. N)
      PROVE  SumFunctionOnSet(used, 1 .. N) = amount
  <2>1. N \in 0 .. N
    OBVIOUS
  <2>2. /\ m[N] + SumFunctionOnSet(used, 1 .. N) = amount
        /\ \A i \in 0 .. N : m[N] <= m[i]
    BY <1>1, <2>1
  <2>3. IsFiniteSet(1 .. N)
    BY FS_Interval
  <2>4. SumFunctionOnSet(used, 1 .. N) \in Int
    BY <2>3, SumType
  <2>5. m[N] \in Nat
    BY <2>1
  <2>6. CASE m[N] > 0
    <3>1. \A i \in 1 .. N : i \in 0 .. N /\ m[i] \in Nat
      OBVIOUS
    <3>2. \A i \in 1 .. N : m[i] > 0
      BY <2>2, <2>5, <2>6, <3>1
    <3>3. \A i \in 1 .. N : used[i] = can[i]
      BY <1>2, <3>2
    <3>4. SumFunctionOnSet(used, 1 .. N) = SumFunctionOnSet(can, 1 .. N)
      BY <2>3, <3>3, SumEqual
    <3> QED
      BY <1>4, <2>2, <2>4, <2>5, <2>6, <3>4
  <2>7. CASE m[N] = 0
    BY <2>2, <2>4, <2>7
  <2> QED
    BY <2>5, <2>6, <2>7
<1> QED
  BY <1>3, <1>4

\* What the wallet can spend, credit by credit.
LEMMA SpendableType ==
  ASSUME TypeOK, NEW c \in Customers
  PROVE  /\ Len(credit[c]) \in Nat /\ DOMAIN credit[c] = 1 .. Len(credit[c])
         /\ Spendable(c) \in [1 .. Len(credit[c]) -> Nat]
         /\ \A i \in DOMAIN credit[c] :
              /\ credit[c][i] \in CreditRow
              /\ credit[c][i].remaining \in Nat
              /\ Spendable(c)[i] <= credit[c][i].remaining
              /\ i > expired[c] => Spendable(c)[i] = credit[c][i].remaining
<1>1. /\ credit[c] \in Seq(CreditRow) /\ expired[c] \in Nat
      /\ Len(credit[c]) \in Nat /\ DOMAIN credit[c] = 1 .. Len(credit[c])
  BY DEF TypeOK
<1>2. \A i \in DOMAIN credit[c] : credit[c][i] \in CreditRow
  BY <1>1
<1>3. \A i \in DOMAIN credit[c] : credit[c][i].remaining \in Nat
  BY <1>2 DEF CreditRow
<1> QED
  BY <1>1, <1>2, <1>3 DEF Spendable

\* What consumeForTicket takes from the credits of customer c.
LEMMA OldestFirstSpends ==
  ASSUME TypeOK, NEW c \in Customers, NEW amount \in Nat
  PROVE  /\ OldestFirst(c, amount) \in [DOMAIN credit[c] -> Nat]
         /\ \A i \in DOMAIN credit[c] :
              /\ OldestFirst(c, amount)[i] <= Spendable(c)[i]
              /\ OldestFirst(c, amount)[i] <= amount
         /\ \A i, j \in DOMAIN credit[c] :
              i < j /\ OldestFirst(c, amount)[j] > 0 =>
                OldestFirst(c, amount)[i] = Spendable(c)[i]
         /\ amount <= Available(c) => Total(OldestFirst(c, amount)) = amount
<1> DEFINE N == Len(credit[c])
           can == Spendable(c)
           m == CHOOSE l : IsMissing(l, can, N, amount)
           used == OldestFirst(c, amount)
<1>1. N \in Nat /\ DOMAIN credit[c] = 1 .. N /\ can \in [1 .. N -> Nat]
  BY SpendableType
<1>2. IsMissing(m, can, N, amount)
  <2> HIDE DEF can, N
  <2> QED
    BY <1>1, MissingExists, Zenon
<1>3. used = [i \in 1 .. N |-> Min2(can[i], m[i - 1])]
  BY <1>1 DEF OldestFirst, IsMissing, Spendable
<1>4. m = [i \in 0 .. N |-> m[i]]
  <2> DEFINE h == [i \in 0 .. N |-> IF i = 0 THEN amount
                                    ELSE m[i - 1] - Min2(can[i], m[i - 1])]
  <2>1. m = h
    <3> HIDE DEF m, can, N
    <3> QED
      BY <1>2 DEF IsMissing
  <2>2. h = [i \in 0 .. N |-> h[i]]
    <3> HIDE DEF m, can, N
    <3> QED
      OBVIOUS
  <2> HIDE DEF h
  <2> QED
    BY <2>1, <2>2
<1> HIDE DEF N, can, m, used
<1>5. /\ \A k \in 0 .. N : m[k] \in 0 .. amount
      /\ m[0] = amount
      /\ \A i \in 1 .. N : m[i] = m[i - 1] - Min2(can[i], m[i - 1])
  <2>1. Loop(N, can, amount, m)
    BY <1>1, <1>2 DEF Loop
  <2> QED
    BY <2>1, LoopSteps
<1>6. \A i \in 1 .. N : /\ used[i] \in Nat /\ m[i] = m[i - 1] - used[i]
                        /\ used[i] = can[i] \/ used[i] = m[i - 1]
                        /\ used[i] <= can[i] /\ used[i] <= amount
  <2>1. \A i \in 1 .. N : /\ m[i - 1] \in 0 .. amount /\ can[i] \in Nat
                          /\ used[i] = Min2(can[i], m[i - 1])
    BY <1>1, <1>3, <1>5
  <2> QED
    BY <1>5, <2>1 DEF Min2
<1>7. used \in [1 .. N -> Nat] /\ m \in [0 .. N -> Nat]
  <2>1. used \in [1 .. N -> Nat]
    BY <1>3, <1>6
  <2>2. \A k \in 0 .. N : m[k] \in Nat
    BY <1>5
  <2> QED
    BY <1>4, <2>1, <2>2
<1>8. /\ \A i, j \in 1 .. N : i < j /\ used[j] > 0 => used[i] = can[i]
      /\ amount <= SumFunctionOnSet(can, 1 .. N) =>
           SumFunctionOnSet(used, 1 .. N) = amount
  <2>1. \A i \in 1 .. N : /\ m[i] = m[i - 1] - used[i]
                          /\ used[i] = can[i] \/ used[i] = m[i - 1]
    BY <1>6
  <2>2. Spends(N, can, amount, m, used)
    BY <1>1, <1>5, <1>7, <2>1 DEF Spends
  <2> QED
    BY <2>2, LoopSpends
<1>9. DOMAIN used = 1 .. N /\ DOMAIN can = 1 .. N
  BY <1>1, <1>7
<1>10. /\ Available(c) = SumFunctionOnSet(can, 1 .. N)
       /\ Total(used) = SumFunctionOnSet(used, 1 .. N)
  BY <1>9 DEF can, Available, Total, SumFunction
<1> QED
  BY <1>1, <1>6, <1>7, <1>8, <1>10 DEF can, used

-----------------------------------------------------------------------------
(* What the helpers write.                                                 *)

\* A function with a finite domain, and one with one element more.
LEMMA SumGrows ==
  ASSUME NEW f, NEW g, IsFiniteSet(DOMAIN f), NEW x, x \notin DOMAIN f,
         DOMAIN g = DOMAIN f \cup {x},
         \A y \in DOMAIN f : f[y] \in Int /\ g[y] = f[y], g[x] \in Int
  PROVE  SumFunction(g) = g[x] + SumFunction(f) /\ SumFunction(f) \in Int
<1>1. SumFunctionOnSet(g, DOMAIN f \cup {x}) =
        g[x] + SumFunctionOnSet(f, DOMAIN f)
  BY SumOneMore
<1>2. SumFunctionOnSet(f, DOMAIN f) \in Int
  BY SumType
<1> QED
  BY <1>1, <1>2 DEF SumFunction

\* Functions that agree on a finite domain.
LEMMA SumStays ==
  ASSUME NEW f, NEW g, IsFiniteSet(DOMAIN f), DOMAIN g = DOMAIN f,
         \A y \in DOMAIN f : g[y] = f[y]
  PROVE  SumFunction(g) = SumFunction(f)
BY SumEqual DEF SumFunction

\* The debits of a customer are finitely many.
LEMMA DebitsFinite == \A c : IsFiniteSet(Debits(c))
<1>1. IsFiniteSet(1 .. MaxDebits)
  BY BoundAssumption, FS_Interval
<1>2. IsFiniteSet(Tickets \X (1 .. MaxDebits))
  BY <1>1, RowsAssumption, FS_Product
<1>3. \A c : Debits(c) \in SUBSET (Tickets \X (1 .. MaxDebits))
  BY DEF Debits
<1> QED
  BY <1>2, <1>3, FS_Subset

\* A function on 1 .. n is a sequence, and so is what is appended to.
LEMMA Rows ==
  ASSUME NEW S, NEW n \in Nat, NEW f, f = [i \in 1 .. n |-> f[i]],
         \A i \in 1 .. n : f[i] \in S
  PROVE  f \in Seq(S) /\ Len(f) = n
<1>1. f \in [1 .. n -> S]
  OBVIOUS
<1> QED
  BY <1>1
\* No credit of customer c falls below zero or rises above the price.
Fits(c, used, sign) ==
  \A i \in DOMAIN credit[c] : i \in DOMAIN used =>
    /\ used[i] \in Nat
    /\ sign = 1 => credit[c][i].remaining + used[i] \in 0 .. Price
    /\ sign = -1 => credit[c][i].remaining - used[i] \in 0 .. Price

\* The credits m that differ in those of customer c, out of which used is
\* taken (sign -1) or into which it is put back.
IsMoved(m, c, used, sign) ==
  /\ m \in [Customers -> Seq(CreditRow)]
  /\ \A d \in Customers \ {c} : m[d] = credit[d]
  /\ Len(m[c]) = Len(credit[c])
  /\ DOMAIN m[c] = DOMAIN credit[c]
  /\ \A i \in DOMAIN credit[c] :
       /\ m[c][i].amount = credit[c][i].amount
       /\ m[c][i].source = credit[c][i].source
       /\ m[c][i].remaining =
            IF i \notin DOMAIN used THEN credit[c][i].remaining
            ELSE IF sign = 1 THEN credit[c][i].remaining + used[i]
            ELSE credit[c][i].remaining - used[i]

\* What moves is only what remains of some credits.
LEMMA MovedIs ==
  ASSUME TypeOK, NEW c \in Customers, NEW used, NEW sign \in {-1, 1},
         Fits(c, used, sign)
  PROVE  IsMoved(Moved(c, used, sign), c, used, sign)
<1> DEFINE N == Len(credit[c])
           m == Moved(c, used, sign)
           row(i) == IF i \in DOMAIN used
                     THEN [credit[c][i] EXCEPT
                             !.remaining = @ + sign * used[i]]
                     ELSE credit[c][i]
           r == [i \in 1 .. N |-> row(i)]
<1>1. /\ N \in Nat /\ DOMAIN credit[c] = 1 .. N
      /\ credit \in [Customers -> Seq(CreditRow)]
      /\ \A i \in 1 .. N : credit[c][i] \in CreditRow
  <2>1. credit \in [Customers -> Seq(CreditRow)]
    BY DEF TypeOK
  <2> QED
    BY <2>1
<1>2. m = [credit EXCEPT ![c] = r]
  <2>1. m = [credit EXCEPT ![c] = [i \in DOMAIN credit[c] |-> row(i)]]
    BY DEF Moved
  <2> HIDE DEF row, m
  <2> QED
    BY <1>1, <2>1
<1>3. ASSUME NEW i \in 1 .. N
      PROVE
        /\ row(i) \in CreditRow
        /\ row(i).amount = credit[c][i].amount
        /\ row(i).source = credit[c][i].source
        /\ row(i).remaining =
             IF i \notin DOMAIN used THEN credit[c][i].remaining
             ELSE IF sign = 1 THEN credit[c][i].remaining + used[i]
             ELSE credit[c][i].remaining - used[i]
  <2>1. /\ credit[c][i] \in CreditRow
        /\ credit[c][i].remaining \in 0 .. Price
    BY <1>1 DEF CreditRow
  <2>2. CASE i \in DOMAIN used
    <3> DEFINE v == credit[c][i].remaining + sign * used[i]
    <3>1. /\ v \in 0 .. Price
          /\ v = IF sign = 1 THEN credit[c][i].remaining + used[i]
                 ELSE credit[c][i].remaining - used[i]
      <4>1. used[i] \in Nat /\ credit[c][i].remaining \in Nat
        BY <1>1, <2>1, <2>2, PriceAssumption DEF Fits
      <4>2. CASE sign = 1
        BY <1>1, <2>2, <4>1, <4>2 DEF Fits
      <4>3. CASE sign = -1
        BY <1>1, <2>2, <4>1, <4>3 DEF Fits
      <4> QED
        BY <4>2, <4>3
    <3>2. row(i) = [credit[c][i] EXCEPT !.remaining = v]
      BY <2>2
    <3>3. /\ [credit[c][i] EXCEPT !.remaining = v] \in CreditRow
          /\ [credit[c][i] EXCEPT !.remaining = v].amount = credit[c][i].amount
          /\ [credit[c][i] EXCEPT !.remaining = v].source = credit[c][i].source
          /\ [credit[c][i] EXCEPT !.remaining = v].remaining = v
      <4> HIDE DEF v, row
      <4> QED
        BY <2>1, <3>1 DEF CreditRow
    <3> HIDE DEF row, v
    <3> QED
      BY <2>2, <3>1, <3>2, <3>3
  <2>3. CASE i \notin DOMAIN used
    BY <2>1, <2>3
  <2> QED
    BY <2>2, <2>3
<1> HIDE DEF row, m
<1>4. r \in Seq(CreditRow) /\ Len(r) = N /\ DOMAIN r = 1 .. N
  <2>1. r = [i \in 1 .. N |-> r[i]] /\ \A i \in 1 .. N : r[i] \in CreditRow
    BY <1>3
  <2> HIDE DEF r
  <2> QED
    BY <1>1, <2>1, Rows
<1>5. m[c] = r /\ \A d \in Customers \ {c} : m[d] = credit[d]
  BY <1>1, <1>2
<1>6. m \in [Customers -> Seq(CreditRow)]
  <2> HIDE DEF r
  <2> QED
    BY <1>1, <1>2, <1>4
<1>7. \A i \in 1 .. N : r[i] = row(i)
  OBVIOUS
<1> HIDE DEF r, N
<1> QED
  BY <1>1, <1>3, <1>4, <1>5, <1>6, <1>7 DEF N, m, IsMoved

\* The credits m that have one more for customer c.
IsCredited(m, c, amount, source) ==
  /\ m \in [Customers -> Seq(CreditRow)]
  /\ \A d \in Customers \ {c} : m[d] = credit[d]
  /\ Len(m[c]) = Len(credit[c]) + 1
  /\ DOMAIN m[c] = DOMAIN credit[c] \cup {Len(credit[c]) + 1}
  /\ \A i \in DOMAIN credit[c] : m[c][i] = credit[c][i]
  /\ m[c][Len(credit[c]) + 1].amount = amount
  /\ m[c][Len(credit[c]) + 1].remaining = amount
  /\ m[c][Len(credit[c]) + 1].source = source

\* A new credit comes after the others, and nothing is missing from it.
LEMMA NewCreditIs ==
  ASSUME TypeOK, NEW c \in Customers, NEW amount \in Amount,
         NEW source \in QRs \cup Tickets
  PROVE  IsCredited(NewCredit(c, amount, source), c, amount, source)
<1> DEFINE row == [amount |-> amount, remaining |-> amount, source |-> source]
           r == Append(credit[c], row)
<1>1. row \in CreditRow
  BY PriceAssumption DEF CreditRow, Amount
<1>2. credit \in [Customers -> Seq(CreditRow)] /\ credit[c] \in Seq(CreditRow)
  BY DEF TypeOK
<1>3. row.amount = amount /\ row.remaining = amount /\ row.source = source
  OBVIOUS
<1> HIDE DEF row
<1>4. /\ r \in Seq(CreditRow) /\ Len(r) = Len(credit[c]) + 1
      /\ DOMAIN r = DOMAIN credit[c] \cup {Len(credit[c]) + 1}
      /\ \A i \in DOMAIN credit[c] : r[i] = credit[c][i]
      /\ r[Len(credit[c]) + 1] = row
  BY <1>1, <1>2
<1>5. NewCredit(c, amount, source) = [credit EXCEPT ![c] = r]
  BY DEF NewCredit, row
<1> HIDE DEF r
<1> QED
  BY <1>2, <1>3, <1>4, <1>5 DEF IsCredited

-----------------------------------------------------------------------------
(* How LedgerInv is used.                                                  *)

\* A ticket that is reserved stays reserved, for the same buyer.
TicketsOnward ==
  \A t \in Tickets :
    /\ ticket[t].status # "none" =>
         ticket'[t].status # "none" /\ ticket'[t].buyer = ticket[t].buyer
    /\ ticket'[t].status # "none" => ticket'[t].buyer \in Customers

\* A recharge that is asked for stays so, and one that is paid stays paid.
RechargesOnward ==
  \A q \in QRs :
    /\ recharge[q].status # "none" => recharge'[q].status # "none"
    /\ recharge[q].status = "paid" => recharge'[q].status = "paid"

\* The sums of the ledger.
TakenFrom(c, n) == [d \in Debits(c) |-> Taken(d, n)]
Worth(d) == Total(debit[d[1]][d[2]].used)
Worths(c) == [d \in Debits(c) |-> Worth(d)]
Amounts(c) == [n \in DOMAIN credit[c] |-> credit[c][n].amount]

\* The ledger is balanced when each credit is and the wallet is.
LEMMA BooksAre ==
  /\ CreditsConserved <=>
       \A c \in Customers : \A n \in DOMAIN credit[c] :
         credit[c][n].amount =
           credit[c][n].remaining + SumFunction(TakenFrom(c, n))
  /\ BalanceExplained <=>
       \A c \in Customers \ overlapped :
         balance[c] = SumFunction(Amounts(c)) - SumFunction(Worths(c))
BY DEF CreditsConserved, BalanceExplained, TakenFrom, Worths, Worth, Amounts

\* An unreversed debit, what it took and what it is worth.
LEMMA DebitIs ==
  ASSUME TypeOK, TicketsInv, NEW c \in Customers, NEW d \in Debits(c)
  PROVE  /\ d[1] \in Tickets /\ d[2] \in DOMAIN debit[d[1]]
         /\ d = <<d[1], d[2]>>
         /\ ticket[d[1]].buyer = c
         /\ Len(debit[d[1]][d[2]].used) <= Len(credit[c])
         /\ debit[d[1]][d[2]] \in DebitRow
         /\ \A n : Taken(d, n) \in Nat
         /\ \A n : n > Len(credit[c]) => Taken(d, n) = 0
         /\ Worth(d) \in Nat
<1> DEFINE used == debit[d[1]][d[2]].used
<1>1. /\ d[1] \in Tickets /\ d[2] \in DOMAIN debit[d[1]]
      /\ d = <<d[1], d[2]>> /\ ticket[d[1]].buyer = c
  BY DEF Debits
<1>2. debit[d[1]] \in Seq(DebitRow)
  BY <1>1 DEF TypeOK
<1>3. debit[d[1]][d[2]] \in DebitRow /\ used \in Seq(0 .. Price)
  <2>1. debit[d[1]][d[2]] \in DebitRow
    BY <1>1, <1>2
  <2> QED
    BY <2>1 DEF DebitRow
<1>4. Len(used) <= Len(credit[c]) /\ Len(credit[c]) \in Nat
  <2>1. credit[c] \in Seq(CreditRow)
    BY DEF TypeOK
  <2> QED
    BY <1>1, <2>1 DEF TicketsInv
<1> HIDE DEF used
<1>5. /\ Len(used) \in Nat /\ DOMAIN used = 1 .. Len(used)
      /\ \A n \in DOMAIN used : used[n] \in Nat
  BY <1>3, PriceAssumption
<1>6. \A n : Taken(d, n) = IF n \in DOMAIN used THEN used[n] ELSE 0
  BY DEF Taken, used
<1>7. /\ \A n : Taken(d, n) \in Nat
      /\ \A n : n > Len(credit[c]) => Taken(d, n) = 0
  BY <1>4, <1>5, <1>6
<1>8. Total(used) \in Nat
  <2>1. IsFiniteSet(DOMAIN used)
    BY <1>5, FS_Interval
  <2> QED
    BY <1>5, <2>1, SumType DEF Total, SumFunction
<1> QED
  BY <1>1, <1>3, <1>4, <1>7, <1>8 DEF used, Worth

\* The sums of the ledger are natural numbers.
LEMMA DebitSums ==
  ASSUME TypeOK, TicketsInv, NEW c \in Customers
  PROVE  /\ \A n : SumFunction(TakenFrom(c, n)) \in Nat
         /\ SumFunction(Worths(c)) \in Nat
         /\ SumFunction(Amounts(c)) \in Nat
<1>1. IsFiniteSet(Debits(c))
  BY DebitsFinite
<1>2. /\ \A n : SumFunction(TakenFrom(c, n)) \in Nat
      /\ SumFunction(Worths(c)) \in Nat
  <2>1. /\ \A n : SumFunctionOnSet(TakenFrom(c, n), Debits(c)) \in Nat
        /\ SumFunctionOnSet(Worths(c), Debits(c)) \in Nat
    BY <1>1, DebitIs, SumType DEF TakenFrom, Worths
  <2> QED
    BY <2>1 DEF SumFunction, TakenFrom, Worths
<1>3. SumFunction(Amounts(c)) \in Nat
  <2>1. /\ DOMAIN Amounts(c) = 1 .. Len(credit[c]) /\ Len(credit[c]) \in Nat
        /\ \A n \in DOMAIN Amounts(c) : Amounts(c)[n] \in Nat
    BY SpendableType DEF Amounts, CreditRow, Amount
  <2>2. IsFiniteSet(DOMAIN Amounts(c))
    BY <2>1, FS_Interval
  <2> QED
    BY <2>1, <2>2, SumType DEF SumFunction
<1> QED
  BY <1>2, <1>3

\* Debits stay as they are when no DEBIT row and no buyer changes.
LEMMA DebitsStay ==
  ASSUME TicketsInv, debit' = debit, TicketsOnward
  PROVE  \A c : /\ Debits(c)' = Debits(c)
                /\ \A n : TakenFrom(c, n)' = TakenFrom(c, n)
                /\ Worths(c)' = Worths(c)
<1>1. \A c : Debits(c)' = Debits(c)
  <2>1. ASSUME NEW d \in Tickets \X (1 .. MaxDebits),
               d[2] \in DOMAIN debit[d[1]]
        PROVE  ticket'[d[1]].buyer = ticket[d[1]].buyer
    <3>1. d[1] \in Tickets /\ debit[d[1]] # << >>
      BY <2>1
    <3> QED
      BY <3>1 DEF TicketsInv, TicketsOnward
  <2> QED
    BY <2>1 DEF Debits
<1>2. \A d : Worth(d)' = Worth(d) /\ \A n : Taken(d, n)' = Taken(d, n)
  BY DEF Taken, Worth
<1> QED
  BY <1>1, <1>2 DEF TakenFrom, Worths

\* The books stay balanced when no row of the ledger changes.
LEMMA BooksStay ==
  ASSUME TicketsInv, CreditsConserved, BalanceExplained,
         credit' = credit, balance' = balance, debit' = debit,
         overlapped \subseteq overlapped',
         TicketsOnward
  PROVE  CreditsConserved' /\ BalanceExplained'
<1>1. \A c : /\ \A n : TakenFrom(c, n)' = TakenFrom(c, n)
             /\ Worths(c)' = Worths(c)
             /\ Amounts(c)' = Amounts(c)
  BY DebitsStay DEF Amounts
<1>2. CreditsConserved'
  BY <1>1 DEF CreditsConserved, TakenFrom
<1>3. BalanceExplained'
  BY <1>1 DEF BalanceExplained, Worths, Worth, Amounts
<1> QED
  BY <1>2, <1>3

\* A new credit of which nothing is taken yet keeps the books balanced, if the

\* balance it is added to was still that of the wallet.
LEMMA BooksCredited ==
  ASSUME TypeOK, TicketsInv, CreditsConserved, BalanceExplained,
         NEW c \in Customers, NEW amount \in Amount,
         NEW source \in QRs \cup Tickets, NEW old,
         credit' = NewCredit(c, amount, source),
         balance' = [balance EXCEPT ![c] = old + amount],
         c \notin overlapped => old = balance[c],
         debit' = debit, overlapped' = overlapped,
         TicketsOnward
  PROVE  CreditsConserved' /\ BalanceExplained'
<1> DEFINE N == Len(credit[c])
<1>1. /\ \A d \in Customers \ {c} : credit'[d] = credit[d]
      /\ DOMAIN credit'[c] = DOMAIN credit[c] \cup {N + 1}
      /\ \A i \in DOMAIN credit[c] : credit'[c][i] = credit[c][i]
      /\ credit'[c][N + 1].amount = amount
      /\ credit'[c][N + 1].remaining = amount
  <2>1. IsCredited(credit', c, amount, source)
    BY NewCreditIs
  <2> QED
    BY <2>1 DEF IsCredited
<1>2. N \in Nat /\ DOMAIN credit[c] = 1 .. N
  BY SpendableType
<1>3. \A d : /\ \A n : TakenFrom(d, n)' = TakenFrom(d, n)
             /\ Worths(d)' = Worths(d)
  BY DebitsStay
<1>4. amount \in Nat
  BY PriceAssumption DEF Amount
<1>5. SumFunction(TakenFrom(c, N + 1)) = 0
  <2>1. \A d \in Debits(c) : TakenFrom(c, N + 1)[d] = 0
    <3>1. N + 1 > N
      BY <1>2
    <3> QED
      BY <3>1, DebitIs DEF TakenFrom
  <2>2. SumFunctionOnSet(TakenFrom(c, N + 1), Debits(c)) = 0
    BY <2>1, DebitsFinite, SumZero
  <2> QED
    BY <2>2 DEF SumFunction, TakenFrom
<1>6. CreditsConserved'
  <2>1. ASSUME NEW d \in Customers, NEW n \in DOMAIN credit'[d]
        PROVE  credit'[d][n].amount =
                 credit'[d][n].remaining + SumFunction(TakenFrom(d, n)')
    <3>1. CASE d = c /\ n = N + 1
      BY <1>1, <1>3, <1>4, <1>5, <3>1
    <3>2. CASE ~(d = c /\ n = N + 1)
      <4>1. n \in DOMAIN credit[d] /\ credit'[d][n] = credit[d][n]
        BY <1>1, <3>2
      <4> QED
        BY <1>3, <4>1, BooksAre
    <3> QED
      BY <3>1, <3>2
  <2> QED
    BY <2>1 DEF CreditsConserved, TakenFrom
<1>7. /\ SumFunction(Amounts(c)') = amount + SumFunction(Amounts(c))
      /\ SumFunction(Amounts(c)) \in Int
  <2> DEFINE f == Amounts(c)
             g == Amounts(c)'
  <2>1. /\ DOMAIN f = 1 .. N /\ DOMAIN g = DOMAIN f \cup {N + 1}
        /\ N + 1 \notin DOMAIN f /\ g[N + 1] = amount
        /\ \A i \in DOMAIN f : g[i] = f[i]
    BY <1>1, <1>2 DEF Amounts
  <2>2. \A i \in DOMAIN f : f[i] \in Int
    BY <1>2, SpendableType DEF Amounts, CreditRow, Amount
  <2>3. IsFiniteSet(DOMAIN f)
    BY <1>2, <2>1, FS_Interval
  <2> HIDE DEF f, g
  <2>4. SumFunction(g) = g[N + 1] + SumFunction(f) /\ SumFunction(f) \in Int
    BY <1>4, <2>1, <2>2, <2>3, SumGrows
  <2> QED
    BY <2>1, <2>4 DEF f, g
<1>8. \A d \in Customers \ {c} : Amounts(d)' = Amounts(d)
  BY <1>1 DEF Amounts
<1>9. BalanceExplained'
  <2>1. ASSUME NEW d \in Customers \ overlapped
        PROVE  balance'[d] = SumFunction(Amounts(d)') - SumFunction(Worths(d)')
    <3>1. balance \in [Customers -> Int]
      BY DEF TypeOK
    <3>2. balance[d] = SumFunction(Amounts(d)) - SumFunction(Worths(d))
      BY BooksAre
    <3>3. CASE d = c
      <4>1. balance'[c] = balance[c] + amount /\ balance[c] \in Int
        BY <3>1, <3>3
      <4>2. SumFunction(Worths(c)) \in Int
        BY DebitSums
      <4> QED
        BY <1>3, <1>4, <1>7, <3>2, <3>3, <4>1, <4>2
    <3>4. CASE d # c
      BY <1>3, <1>8, <3>1, <3>2, <3>4
    <3> QED
      BY <3>3, <3>4
  <2> QED
    BY <2>1 DEF BalanceExplained, Worths, Worth, Amounts
<1> QED
  BY <1>6, <1>9

\* No ticket changes hands.
SameBuyers == \A s \in Tickets : ticket'[s].buyer = ticket[s].buyer

\* A sequence of natural numbers adds up.
Counts(used) == /\ \A n \in DOMAIN used : used[n] \in Nat
                /\ Total(used) \in Nat

\* The DEBIT rows with one more for ticket t.
NewDebit(t, used) ==
  [debit EXCEPT ![t] = Append(@, [used |-> used, reversed |-> FALSE])]

\* A debit more: what it takes and what it is worth.
LEMMA DebitAdded ==
  ASSUME TypeOK, TicketsInv, NEW t \in Tickets, NEW used,
         NEW c, c = ticket[t].buyer, c \in Customers,
         Len(debit[t]) < MaxDebits,
         debit' = NewDebit(t, used),
         SameBuyers, Counts(used)
  PROVE  /\ \A b \in Customers \ {c} :
              /\ \A n : TakenFrom(b, n)' = TakenFrom(b, n)
              /\ Worths(b)' = Worths(b)
         /\ \A n \in DOMAIN used :
              SumFunction(TakenFrom(c, n)') =
                used[n] + SumFunction(TakenFrom(c, n))
         /\ SumFunction(Worths(c)') = Total(used) + SumFunction(Worths(c))
<1> SUFFICES ASSUME NEW K, K = Len(debit[t])
             PROVE  /\ \A b \in Customers \ {c} :
                         /\ \A n : TakenFrom(b, n)' = TakenFrom(b, n)
                         /\ Worths(b)' = Worths(b)
                    /\ \A n \in DOMAIN used :
                         SumFunction(TakenFrom(c, n)') =
                           used[n] + SumFunction(TakenFrom(c, n))
                    /\ SumFunction(Worths(c)') =
                         Total(used) + SumFunction(Worths(c))
  OBVIOUS
<1> USE DEF SameBuyers, Counts
<1> DEFINE x == <<t, K + 1>>
           row == [used |-> used, reversed |-> FALSE]
<1>1. /\ debit \in [Tickets -> Seq(DebitRow)] /\ debit[t] \in Seq(DebitRow)
      /\ K \in Nat /\ DOMAIN debit[t] = 1 .. K
  BY DEF TypeOK
<1>2. /\ \A s \in Tickets \ {t} : debit'[s] = debit[s]
      /\ DOMAIN debit'[t] = DOMAIN debit[t] \cup {K + 1}
      /\ \A i \in DOMAIN debit[t] : debit'[t][i] = debit[t][i]
      /\ debit'[t][K + 1] = row
  <2>1. debit' = [debit EXCEPT ![t] = Append(debit[t], row)]
    BY DEF NewDebit
  <2>2. debit'[t] = Append(debit[t], row)
    BY <1>1, <2>1
  <2> HIDE DEF row
  <2>3. \A s \in Tickets \ {t} : debit'[s] = debit[s]
    BY <1>1, <2>1
  <2> QED
    BY <1>1, <2>2, <2>3
<1>3. row.used = used /\ ~row.reversed
  OBVIOUS
<1> HIDE DEF row
<1>4. \A s \in Tickets : \A i \in DOMAIN debit[s] :
        i \in DOMAIN debit'[s] /\ debit'[s][i] = debit[s][i]
  BY <1>1, <1>2
<1>5. /\ x \notin Debits(c) /\ Debits(c)' = Debits(c) \cup {x}
      /\ \A b \in Customers \ {c} : Debits(b)' = Debits(b)
  <2>1. /\ x \in Tickets \X (1 .. MaxDebits) /\ x[1] = t /\ x[2] = K + 1
        /\ K + 1 \notin DOMAIN debit[t]
    BY <1>1, BoundAssumption
  <2>2. ASSUME NEW d \in Tickets \X (1 .. MaxDebits), d # x
        PROVE  /\ d[2] \in DOMAIN debit'[d[1]] <=> d[2] \in DOMAIN debit[d[1]]
               /\ d[2] \in DOMAIN debit[d[1]] =>
                    debit'[d[1]][d[2]] = debit[d[1]][d[2]]
    <3>1. d[1] \in Tickets /\ (d[1] # t \/ d[2] # K + 1)
      BY <2>2
    <3> HIDE DEF x
    <3> QED
      BY <1>2, <1>4, <3>1
  <2> HIDE DEF x
  <2>3. ASSUME NEW d \in Tickets \X (1 .. MaxDebits)
        PROVE  ticket'[d[1]].buyer = ticket[d[1]].buyer
    OBVIOUS
  <2>4. x[2] \in DOMAIN debit'[x[1]] /\ ~debit'[x[1]][x[2]].reversed
    BY <1>2, <1>3, <2>1
  <2>5. \A b : x \notin Debits(b) /\ (x \in Debits(b)' <=> b = c)
    BY <2>1, <2>3, <2>4 DEF Debits
  <2>6. \A b : \A d : d # x => (d \in Debits(b)' <=> d \in Debits(b))
    <3>1. \A b : \A d : d \in Debits(b) => d \in Tickets \X (1 .. MaxDebits)
      BY DEF Debits
    <3>2. \A b : \A d : d \in Debits(b)' => d \in Tickets \X (1 .. MaxDebits)
      BY DEF Debits
    <3>3. ASSUME NEW b, NEW d \in Tickets \X (1 .. MaxDebits), d # x
          PROVE  d \in Debits(b)' <=> d \in Debits(b)
      BY <2>2, <2>3, <3>3 DEF Debits
    <3> QED
      BY <3>1, <3>2, <3>3
  <2>7. Debits(c)' = Debits(c) \cup {x}
    <3>1. \A d : d \in Debits(c)' <=> d \in Debits(c) \cup {x}
      BY <2>5, <2>6
    <3> QED
      BY <3>1
  <2>8. ASSUME NEW b \in Customers \ {c}  PROVE Debits(b)' = Debits(b)
    <3>1. \A d : d \in Debits(b)' <=> d \in Debits(b)
      BY <2>5, <2>6
    <3> QED
      BY <3>1
  <2> QED
    BY <2>5, <2>7, <2>8
<1>6. \A b \in Customers : \A d \in Debits(b) :
        /\ \A n : Taken(d, n)' = Taken(d, n) /\ Taken(d, n) \in Nat
        /\ Worth(d)' = Worth(d) /\ Worth(d) \in Nat
  <2>1. ASSUME NEW b \in Customers, NEW d \in Debits(b)
        PROVE  debit'[d[1]][d[2]] = debit[d[1]][d[2]]
    <3>1. d[1] \in Tickets /\ d[2] \in DOMAIN debit[d[1]]
      BY DebitIs
    <3> QED
      BY <1>4, <3>1
  <2> QED
    BY <2>1, DebitIs DEF Taken, Worth
<1>7. debit'[x[1]][x[2]].used = used
  BY <1>2, <1>3
<1>8. \A n \in DOMAIN used : Taken(x, n)' = used[n]
  BY <1>7 DEF Taken
<1>9. Worth(x)' = Total(used)
  BY <1>7 DEF Worth
<1> HIDE DEF x
<1>10. ASSUME NEW n \in DOMAIN used
      PROVE  SumFunction(TakenFrom(c, n)') =
               used[n] + SumFunction(TakenFrom(c, n))
  <2> DEFINE f == TakenFrom(c, n)
             g == TakenFrom(c, n)'
  <2>1. /\ DOMAIN f = Debits(c) /\ DOMAIN g = Debits(c) \cup {x}
        /\ \A d \in Debits(c) : f[d] \in Int /\ g[d] = f[d]
        /\ g[x] = used[n]
    BY <1>5, <1>6, <1>8 DEF TakenFrom
  <2>2. IsFiniteSet(DOMAIN f)
    BY <2>1, DebitsFinite
  <2> HIDE DEF f, g
  <2>3. SumFunction(g) = g[x] + SumFunction(f)
    BY <1>5, <2>1, <2>2, SumGrows
  <2> QED
    BY <2>1, <2>3 DEF f, g
<1>11. SumFunction(Worths(c)') = Total(used) + SumFunction(Worths(c))
  <2> DEFINE f == Worths(c)
             g == Worths(c)'
  <2>1. /\ DOMAIN f = Debits(c) /\ DOMAIN g = Debits(c) \cup {x}
        /\ \A d \in Debits(c) : f[d] \in Int /\ g[d] = f[d]
        /\ g[x] = Total(used)
    BY <1>5, <1>6, <1>9 DEF Worths
  <2>2. IsFiniteSet(DOMAIN f)
    BY <2>1, DebitsFinite
  <2> HIDE DEF f, g
  <2>3. SumFunction(g) = g[x] + SumFunction(f)
    BY <1>5, <2>1, <2>2, SumGrows
  <2> QED
    BY <2>1, <2>3 DEF f, g
<1>12. ASSUME NEW b \in Customers \ {c}
       PROVE  /\ \A n : TakenFrom(b, n)' = TakenFrom(b, n)
              /\ Worths(b)' = Worths(b)
  <2>1. Debits(b)' = Debits(b)
    BY <1>5
  <2>2. \A n : TakenFrom(b, n)' = TakenFrom(b, n)
    BY <1>6, <2>1 DEF TakenFrom
  <2>3. Worths(b)' = Worths(b)
    BY <1>6, <2>1 DEF Worths
  <2> QED
    BY <2>2, <2>3
<1> QED
  BY <1>10, <1>11, <1>12

\* A debit less: what it had taken and what it was worth.
LEMMA DebitReversed ==
  ASSUME TypeOK, TicketsInv, NEW t \in Tickets, NEW i \in DOMAIN debit[t],
         ~debit[t][i].reversed,
         NEW c, c = ticket[t].buyer, c \in Customers,
         debit' = [debit EXCEPT ![t][i].reversed = TRUE],
         SameBuyers
  PROVE  /\ \A b \in Customers \ {c} :
              /\ \A n : TakenFrom(b, n)' = TakenFrom(b, n)
              /\ Worths(b)' = Worths(b)
         /\ <<t, i>> \in Debits(c)
         /\ \A n : /\ SumFunction(TakenFrom(c, n)) =
                        Taken(<<t, i>>, n) + SumFunction(TakenFrom(c, n)')
                   /\ SumFunction(TakenFrom(c, n)') \in Nat
         /\ SumFunction(Worths(c)) =
              Worth(<<t, i>>) + SumFunction(Worths(c)')
         /\ SumFunction(Worths(c)') \in Nat
<1> DEFINE x == <<t, i>>
<1>1. /\ debit \in [Tickets -> Seq(DebitRow)] /\ debit[t] \in Seq(DebitRow)
      /\ DOMAIN debit[t] = 1 .. Len(debit[t]) /\ Len(debit[t]) \in Nat
      /\ Len(debit[t]) <= MaxDebits
  BY DEF TypeOK, TicketsInv
<1>2. /\ \A s \in Tickets \ {t} : debit'[s] = debit[s]
      /\ DOMAIN debit'[t] = DOMAIN debit[t]
      /\ \A j \in DOMAIN debit[t] \ {i} : debit'[t][j] = debit[t][j]
      /\ debit'[t][i] = [debit[t][i] EXCEPT !.reversed = TRUE]
  BY <1>1
<1>3. debit'[t][i].used = debit[t][i].used /\ debit'[t][i].reversed
  <2>1. debit[t][i] \in DebitRow
    BY <1>1
  <2> QED
    BY <1>2, <2>1 DEF DebitRow
<1>4. \A s \in Tickets : /\ DOMAIN debit'[s] = DOMAIN debit[s]
                         /\ \A j \in DOMAIN debit[s] :
                              debit'[s][j].used = debit[s][j].used
  BY <1>2, <1>3
<1>5. /\ x \in Debits(c) /\ Debits(c)' = Debits(c) \ {x}
      /\ \A b \in Customers \ {c} : Debits(b)' = Debits(b)
  <2>1. /\ x \in Tickets \X (1 .. MaxDebits) /\ x[1] = t /\ x[2] = i
    BY <1>1, BoundAssumption
  <2>2. ASSUME NEW d \in Tickets \X (1 .. MaxDebits), d # x
        PROVE  /\ d[2] \in DOMAIN debit'[d[1]] <=> d[2] \in DOMAIN debit[d[1]]
               /\ d[2] \in DOMAIN debit[d[1]] =>
                    debit'[d[1]][d[2]] = debit[d[1]][d[2]]
    <3>1. d[1] \in Tickets /\ (d[1] # t \/ d[2] # i)
      BY <2>2
    <3> HIDE DEF x
    <3> QED
      BY <1>2, <3>1
  <2> HIDE DEF x
  <2>3. ASSUME NEW d \in Tickets \X (1 .. MaxDebits)
        PROVE  ticket'[d[1]].buyer = ticket[d[1]].buyer
    BY DEF SameBuyers
  <2>4. debit'[x[1]][x[2]].reversed
    BY <1>3, <2>1
  <2>5. \A b : x \notin Debits(b)' /\ (x \in Debits(b) <=> b = c)
    BY <2>1, <2>4 DEF Debits
  <2>6. \A b : \A d : d # x => (d \in Debits(b)' <=> d \in Debits(b))
    <3>1. \A b : \A d : d \in Debits(b) => d \in Tickets \X (1 .. MaxDebits)
      BY DEF Debits
    <3>2. \A b : \A d : d \in Debits(b)' => d \in Tickets \X (1 .. MaxDebits)
      BY DEF Debits
    <3>3. ASSUME NEW b, NEW d \in Tickets \X (1 .. MaxDebits), d # x
          PROVE  d \in Debits(b)' <=> d \in Debits(b)
      BY <2>2, <2>3, <3>3 DEF Debits
    <3> QED
      BY <3>1, <3>2, <3>3
  <2>7. Debits(c)' = Debits(c) \ {x}
    <3>1. \A d : d \in Debits(c)' <=> d \in Debits(c) \ {x}
      BY <2>5, <2>6
    <3> QED
      BY <3>1
  <2>8. ASSUME NEW b \in Customers \ {c}  PROVE Debits(b)' = Debits(b)
    <3>1. \A d : d \in Debits(b)' <=> d \in Debits(b)
      BY <2>5, <2>6
    <3> QED
      BY <3>1
  <2> QED
    BY <2>5, <2>7, <2>8
<1>6. \A b \in Customers : \A d \in Debits(b) :
        /\ \A n : Taken(d, n)' = Taken(d, n) /\ Taken(d, n) \in Nat
        /\ Worth(d)' = Worth(d) /\ Worth(d) \in Nat
  <2>1. ASSUME NEW b \in Customers, NEW d \in Debits(b)
        PROVE  debit'[d[1]][d[2]].used = debit[d[1]][d[2]].used
    <3>1. d[1] \in Tickets /\ d[2] \in DOMAIN debit[d[1]]
      BY DebitIs
    <3> QED
      BY <1>4, <3>1
  <2>2. ASSUME NEW b \in Customers, NEW d \in Debits(b)
        PROVE  Worth(d)' = Worth(d) /\ \A n : Taken(d, n)' = Taken(d, n)
    BY <2>1 DEF Taken, Worth
  <2> QED
    BY <2>2, DebitIs
<1> HIDE DEF x
<1>7. ASSUME NEW n
      PROVE  /\ SumFunction(TakenFrom(c, n)) =
                  Taken(x, n) + SumFunction(TakenFrom(c, n)')
             /\ SumFunction(TakenFrom(c, n)') \in Nat
  <2> DEFINE f == TakenFrom(c, n)'
             g == TakenFrom(c, n)
  <2>1. /\ DOMAIN f = Debits(c) \ {x} /\ DOMAIN g = (Debits(c) \ {x}) \cup {x}
        /\ \A d \in Debits(c) \ {x} : f[d] \in Nat /\ g[d] = f[d]
        /\ g[x] = Taken(x, n) /\ g[x] \in Nat
    BY <1>5, <1>6 DEF TakenFrom
  <2>2. IsFiniteSet(DOMAIN f)
    BY <2>1, DebitsFinite, FS_RemoveElement
  <2> HIDE DEF f, g
  <2>3. SumFunction(g) = g[x] + SumFunction(f)
    BY <2>1, <2>2, SumGrows
  <2>4. SumFunction(f) \in Nat
    BY <2>1, <2>2, SumType DEF SumFunction
  <2> QED
    BY <2>1, <2>3, <2>4 DEF f, g
<1>8. /\ SumFunction(Worths(c)) = Worth(x) + SumFunction(Worths(c)')
      /\ SumFunction(Worths(c)') \in Nat
  <2> DEFINE f == Worths(c)'
             g == Worths(c)
  <2>1. /\ DOMAIN f = Debits(c) \ {x} /\ DOMAIN g = (Debits(c) \ {x}) \cup {x}
        /\ \A d \in Debits(c) \ {x} : f[d] \in Nat /\ g[d] = f[d]
        /\ g[x] = Worth(x) /\ g[x] \in Nat
    BY <1>5, <1>6 DEF Worths
  <2>2. IsFiniteSet(DOMAIN f)
    BY <2>1, DebitsFinite, FS_RemoveElement
  <2> HIDE DEF f, g
  <2>3. SumFunction(g) = g[x] + SumFunction(f)
    BY <2>1, <2>2, SumGrows
  <2>4. SumFunction(f) \in Nat
    BY <2>1, <2>2, SumType DEF SumFunction
  <2> QED
    BY <2>1, <2>3, <2>4 DEF f, g
<1>9. ASSUME NEW b \in Customers \ {c}
      PROVE  /\ \A n : TakenFrom(b, n)' = TakenFrom(b, n)
             /\ Worths(b)' = Worths(b)
  <2>1. Debits(b)' = Debits(b)
    BY <1>5
  <2>2. \A n : TakenFrom(b, n)' = TakenFrom(b, n)
    BY <1>6, <2>1 DEF TakenFrom
  <2>3. Worths(b)' = Worths(b)
    BY <1>6, <2>1 DEF Worths
  <2> QED
    BY <2>2, <2>3
<1> QED
  BY <1>5, <1>7, <1>8, <1>9 DEF x

\* What the oldest credits give is within what they have and what is asked.
LEMMA GivesWithin ==
  ASSUME TypeOK, NEW c \in Customers,
         NEW amount \in Nat, amount <= Available(c),
         NEW used, used = OldestFirst(c, amount)
  PROVE  /\ used \in [DOMAIN credit[c] -> Nat] /\ Total(used) = amount
         /\ \A i \in DOMAIN credit[c] :
              /\ used[i] <= amount
              /\ credit[c][i].remaining - used[i] \in 0 .. Price
<1>1. /\ used \in [DOMAIN credit[c] -> Nat] /\ Total(used) = amount
      /\ \A i \in DOMAIN credit[c] : used[i] <= Spendable(c)[i]
                                       /\ used[i] <= amount
  BY OldestFirstSpends
<1>2. ASSUME NEW i \in DOMAIN credit[c]
      PROVE  credit[c][i].remaining - used[i] \in 0 .. Price
  <2>1. /\ credit[c][i] \in CreditRow /\ credit[c][i].remaining \in Nat
        /\ Spendable(c)[i] \in Nat
        /\ Spendable(c)[i] <= credit[c][i].remaining
    BY SpendableType
  <2>2. credit[c][i].remaining \in 0 .. Price
    BY <2>1 DEF CreditRow
  <2>3. used[i] \in Nat /\ used[i] <= Spendable(c)[i]
    BY <1>1
  <2> QED
    BY <2>1, <2>2, <2>3, PriceAssumption
<1> QED
  BY <1>1, <1>2

\* A payment with the oldest credits keeps the books balanced.
LEMMA BooksDebited ==
  ASSUME TypeOK, TicketsInv, CreditsConserved, BalanceExplained,
         NEW t \in Tickets, NEW c, c = ticket[t].buyer, c \in Customers,
         Len(debit[t]) < MaxDebits,
         NEW amount \in Nat, amount <= Available(c),
         NEW used, used = OldestFirst(c, amount), NEW old,
         credit' = Moved(c, used, -1),
         balance' = [balance EXCEPT ![c] = old - amount],
         c \notin overlapped => old = balance[c],
         debit' = NewDebit(t, used),
         overlapped' = overlapped,
         SameBuyers
  PROVE  CreditsConserved' /\ BalanceExplained'
<1>1. /\ used \in [DOMAIN credit[c] -> Nat] /\ Total(used) = amount
      /\ \A i \in DOMAIN credit[c] :
           credit[c][i].remaining - used[i] \in 0 .. Price
  BY GivesWithin
<1>2. /\ \A b \in Customers \ {c} : credit'[b] = credit[b]
      /\ DOMAIN credit'[c] = DOMAIN credit[c]
      /\ \A i \in DOMAIN credit[c] :
           /\ credit'[c][i].amount = credit[c][i].amount
           /\ credit'[c][i].remaining = credit[c][i].remaining - used[i]
  <2>1. -1 \in {-1, 1} /\ -1 # 1 /\ DOMAIN used = DOMAIN credit[c]
    BY <1>1
  <2>2. Fits(c, used, -1)
    BY <1>1 DEF Fits
  <2>3. IsMoved(credit', c, used, -1)
    BY <2>1, <2>2, MovedIs
  <2> QED
    BY <2>1, <2>3 DEF IsMoved
<1>3. /\ \A b \in Customers \ {c} :
           /\ \A n : TakenFrom(b, n)' = TakenFrom(b, n)
           /\ Worths(b)' = Worths(b)
      /\ \A n \in DOMAIN credit[c] :
           SumFunction(TakenFrom(c, n)') =
             used[n] + SumFunction(TakenFrom(c, n))
      /\ SumFunction(Worths(c)') = amount + SumFunction(Worths(c))
  <2>1. DOMAIN used = DOMAIN credit[c] /\ Counts(used)
    BY <1>1 DEF Counts
  <2> QED
    BY <1>1, <2>1, DebitAdded
<1>4. ASSUME NEW b \in Customers, NEW n \in DOMAIN credit'[b]
      PROVE  credit'[b][n].amount =
               credit'[b][n].remaining + SumFunction(TakenFrom(b, n)')
  <2>1. n \in DOMAIN credit[b]
    BY <1>2
  <2>2. credit[b][n].amount =
          credit[b][n].remaining + SumFunction(TakenFrom(b, n))
    BY <2>1, BooksAre
  <2>3. CASE b = c
    <3>1. used[n] \in Nat /\ credit[c][n].remaining \in Nat
          /\ SumFunction(TakenFrom(c, n)) \in Nat
      BY <1>1, <2>1, <2>3, SpendableType, DebitSums
    <3>2. /\ credit'[c][n].amount = credit[c][n].amount
          /\ credit'[c][n].remaining = credit[c][n].remaining - used[n]
          /\ SumFunction(TakenFrom(c, n)') =
               used[n] + SumFunction(TakenFrom(c, n))
      BY <1>2, <1>3, <2>1, <2>3
    <3> DEFINE e == SumFunction(TakenFrom(c, n))
               f == SumFunction(TakenFrom(c, n)')
               k == credit[c][n].remaining
    <3>3. /\ credit[c][n].amount = k + e /\ f = used[n] + e
          /\ credit'[c][n].remaining = k - used[n]
          /\ e \in Nat /\ k \in Nat
      BY <2>2, <2>3, <3>1, <3>2
    <3> HIDE DEF e, f, k
    <3>4. credit'[c][n].amount = credit'[c][n].remaining + f
      BY <3>1, <3>2, <3>3
    <3> QED
      BY <2>3, <3>4 DEF f
  <2>4. CASE b # c
    BY <1>2, <1>3, <2>2, <2>4
  <2> QED
    BY <2>3, <2>4
<1>5. CreditsConserved'
  BY <1>4 DEF CreditsConserved, TakenFrom
<1>6. \A b \in Customers : Amounts(b)' = Amounts(b)
  BY <1>2 DEF Amounts
<1>7. ASSUME NEW b \in Customers \ overlapped
      PROVE  balance'[b] = SumFunction(Amounts(b)') - SumFunction(Worths(b)')
  <2>1. balance \in [Customers -> Int]
    BY DEF TypeOK
  <2>2. balance[b] = SumFunction(Amounts(b)) - SumFunction(Worths(b))
    BY BooksAre
  <2>3. CASE b = c
    <3>1. balance'[c] = balance[c] - amount
      BY <2>1, <2>3
    <3>2. SumFunction(Worths(c)) \in Nat /\ SumFunction(Amounts(c)) \in Nat
      BY DebitSums
    <3> QED
      BY <1>3, <1>6, <2>2, <2>3, <3>1, <3>2
  <2>4. CASE b # c
    BY <1>3, <1>6, <2>1, <2>2, <2>4
  <2> QED
    BY <2>3, <2>4
<1>8. BalanceExplained'
  BY <1>7 DEF BalanceExplained, Worths, Worth, Amounts
<1> QED
  BY <1>5, <1>8

\* No credit rises above its amount when a debit gives back what it took.
LEMMA GivesBack ==
  ASSUME TypeOK, TicketsInv, CreditsConserved, NEW c \in Customers,
         NEW x \in Debits(c), NEW used, used = debit[x[1]][x[2]].used,
         \A n : Taken(x, n) <= SumFunction(TakenFrom(c, n))
  PROVE  Fits(c, used, 1)
<1>1. ASSUME NEW n \in DOMAIN credit[c]
      PROVE  /\ Taken(x, n) \in Nat
             /\ credit[c][n].remaining + Taken(x, n) \in 0 .. Price
  <2>1. credit[c][n].amount =
          credit[c][n].remaining + SumFunction(TakenFrom(c, n))
    BY BooksAre
  <2>2. /\ credit[c][n] \in CreditRow /\ credit[c][n].remaining \in Nat
        /\ Taken(x, n) \in Nat
    BY SpendableType, DebitIs
  <2>3. credit[c][n].amount \in 1 .. Price
    BY <2>2 DEF CreditRow, Amount
  <2>4. /\ Taken(x, n) <= SumFunction(TakenFrom(c, n))
        /\ SumFunction(TakenFrom(c, n)) \in Nat
    BY DebitSums
  <2> QED
    BY <2>1, <2>2, <2>3, <2>4, PriceAssumption
<1>2. \A n \in DOMAIN used : used[n] = Taken(x, n)
  BY DEF Taken
<1> QED
  BY <1>1, <1>2 DEF Fits

\* A failed payment's debit, restored, keeps the books balanced.
LEMMA BooksReversed ==
  ASSUME TypeOK, TicketsInv, CreditsConserved, BalanceExplained,
         NEW t \in Tickets, NEW i \in DOMAIN debit[t], ~debit[t][i].reversed,
         NEW c, c = ticket[t].buyer, c \in Customers,
         NEW used, used = debit[t][i].used, NEW old,
         credit' = Moved(c, used, 1),
         balance' = [balance EXCEPT ![c] = old + Total(used)],
         c \notin overlapped => old = balance[c],
         debit' = [debit EXCEPT ![t][i].reversed = TRUE],
         overlapped' = overlapped, SameBuyers
  PROVE  Fits(c, used, 1) /\ CreditsConserved' /\ BalanceExplained'
<1> DEFINE x == <<t, i>>
<1>1. x[1] = t /\ x[2] = i
  OBVIOUS
<1> HIDE DEF x
<1>2. /\ \A b \in Customers \ {c} :
           /\ \A n : TakenFrom(b, n)' = TakenFrom(b, n)
           /\ Worths(b)' = Worths(b)
      /\ x \in Debits(c)
      /\ \A n : /\ SumFunction(TakenFrom(c, n)) =
                     Taken(x, n) + SumFunction(TakenFrom(c, n)')
                /\ SumFunction(TakenFrom(c, n)') \in Nat
      /\ SumFunction(Worths(c)) = Worth(x) + SumFunction(Worths(c)')
      /\ SumFunction(Worths(c)') \in Nat
  BY DebitReversed DEF x
<1>3. used = debit[x[1]][x[2]].used
  BY <1>1
<1>4. /\ \A n : Taken(x, n) \in Nat
      /\ Worth(x) \in Nat /\ Worth(x) = Total(used)
  BY <1>2, <1>3, DebitIs DEF Worth
<1>5. Fits(c, used, 1)
  <2>1. \A n : Taken(x, n) <= SumFunction(TakenFrom(c, n))
    BY <1>2, <1>4
  <2> QED
    BY <1>2, <1>3, <2>1, GivesBack
<1>6. \A n : Taken(x, n) = IF n \in DOMAIN used THEN used[n] ELSE 0
  BY <1>3 DEF Taken
<1>7. /\ \A b \in Customers \ {c} : credit'[b] = credit[b]
      /\ DOMAIN credit'[c] = DOMAIN credit[c]
      /\ \A n \in DOMAIN credit[c] :
           /\ credit'[c][n].amount = credit[c][n].amount
           /\ credit'[c][n].remaining = credit[c][n].remaining + Taken(x, n)
  <2>1. 1 \in {-1, 1}
    OBVIOUS
  <2>2. IsMoved(credit', c, used, 1)
    BY <1>5, <2>1, MovedIs
  <2>3. \A n \in DOMAIN credit[c] : credit[c][n].remaining \in Nat
    BY SpendableType
  <2>4. ASSUME NEW n \in DOMAIN credit[c]
        PROVE  credit'[c][n].remaining = credit[c][n].remaining + Taken(x, n)
    <3>1. credit'[c][n].remaining =
            IF n \notin DOMAIN used THEN credit[c][n].remaining
            ELSE credit[c][n].remaining + used[n]
      BY <2>2 DEF IsMoved
    <3> QED
      BY <1>6, <2>3, <3>1
  <2> QED
    BY <2>2, <2>4 DEF IsMoved
<1>8. ASSUME NEW b \in Customers, NEW n \in DOMAIN credit'[b]
      PROVE  credit'[b][n].amount =
               credit'[b][n].remaining + SumFunction(TakenFrom(b, n)')
  <2>1. n \in DOMAIN credit[b]
    BY <1>7
  <2>2. credit[b][n].amount =
          credit[b][n].remaining + SumFunction(TakenFrom(b, n))
    BY <2>1, BooksAre
  <2>3. CASE b = c
    <3> DEFINE e == SumFunction(TakenFrom(c, n))
               f == SumFunction(TakenFrom(c, n)')
               k == credit[c][n].remaining
    <3>1. /\ credit'[c][n].amount = k + e /\ e = Taken(x, n) + f
          /\ credit'[c][n].remaining = k + Taken(x, n)
      BY <1>2, <1>7, <2>1, <2>2, <2>3
    <3>2. k \in Nat /\ f \in Nat /\ Taken(x, n) \in Nat
      BY <1>2, <1>4, <2>1, <2>3, SpendableType
    <3> HIDE DEF e, f, k
    <3>3. credit'[c][n].amount = credit'[c][n].remaining + f
      BY <3>1, <3>2
    <3> QED
      BY <2>3, <3>3 DEF f
  <2>4. CASE b # c
    BY <1>2, <1>7, <2>2, <2>4
  <2> QED
    BY <2>3, <2>4
<1>9. CreditsConserved'
  BY <1>8 DEF CreditsConserved, TakenFrom
<1>10. \A b \in Customers : Amounts(b)' = Amounts(b)
  BY <1>7 DEF Amounts
<1>11. ASSUME NEW b \in Customers \ overlapped
       PROVE  balance'[b] = SumFunction(Amounts(b)') - SumFunction(Worths(b)')
  <2>1. balance \in [Customers -> Int]
    BY DEF TypeOK
  <2>2. balance[b] = SumFunction(Amounts(b)) - SumFunction(Worths(b))
    BY BooksAre
  <2>3. CASE b = c
    <3>1. balance'[c] = balance[c] + Worth(x)
      BY <1>4, <2>1, <2>3
    <3>2. SumFunction(Amounts(c)) \in Nat
      BY DebitSums
    <3> QED
      BY <1>2, <1>4, <1>10, <2>2, <2>3, <3>1, <3>2
  <2>4. CASE b # c
    BY <1>2, <1>10, <2>1, <2>2, <2>4
  <2> QED
    BY <2>3, <2>4
<1>12. BalanceExplained'
  BY <1>11 DEF BalanceExplained, Worths, Worth, Amounts
<1> QED
  BY <1>5, <1>9, <1>12

-----------------------------------------------------------------------------
(* What a step leaves of the rest of the invariant.                        *)

\* Tickets and their debits, when no DEBIT row changes.
LEMMA TicketsStay ==
  ASSUME TypeOK, TicketsInv, debit' = debit, TicketsOnward,
         \A c \in Customers : Len(credit[c]) <= Len(credit'[c]),
         \A c \in Customers : Len(credit'[c]) \in Nat
  PROVE  TicketsInv'
<1>1. ASSUME NEW t \in Tickets
      PROVE  /\ ticket'[t].status = "none" => debit'[t] = << >>
             /\ ticket'[t].status # "none" => ticket'[t].buyer \in Customers
             /\ Len(debit'[t]) <= MaxDebits
             /\ \A i \in DOMAIN debit'[t] :
                  Len(debit'[t][i].used) <= Len(credit'[ticket'[t].buyer])
  <2>1. ticket'[t].status = "none" => debit'[t] = << >>
    BY DEF TicketsOnward, TicketsInv
  <2>2. ticket'[t].status # "none" => ticket'[t].buyer \in Customers
    BY DEF TicketsOnward
  <2>3. Len(debit'[t]) <= MaxDebits
    BY DEF TicketsInv
  <2>4. ASSUME NEW i \in DOMAIN debit'[t]
        PROVE  Len(debit'[t][i].used) <= Len(credit'[ticket'[t].buyer])
    <3>1. debit[t] # << >> /\ i \in DOMAIN debit[t]
      BY <2>4
    <3>2. /\ ticket[t].buyer \in Customers
          /\ ticket'[t].buyer = ticket[t].buyer
          /\ Len(debit[t][i].used) <= Len(credit[ticket[t].buyer])
      BY <3>1 DEF TicketsInv, TicketsOnward
    <3>3. Len(debit[t][i].used) \in Nat
      <4>1. debit[t] \in Seq(DebitRow)
        BY DEF TypeOK
      <4>2. debit[t][i] \in DebitRow
        BY <3>1, <4>1
      <4>3. debit[t][i].used \in Seq(0 .. Price)
        BY <4>2 DEF DebitRow
      <4> QED
        BY <4>3
    <3>4. Len(credit[ticket[t].buyer]) \in Nat
      BY <3>2, SpendableType
    <3>5. /\ Len(credit[ticket[t].buyer]) <= Len(credit'[ticket[t].buyer])
          /\ Len(credit'[ticket[t].buyer]) \in Nat
      BY <3>2
    <3> QED
      BY <3>2, <3>3, <3>4, <3>5
  <2> QED
    BY <2>1, <2>2, <2>3, <2>4
<1> QED
  BY <1>1 DEF TicketsInv

\* What x has read of rows that only move on.
LEMMA ClaimsStay ==
  ASSUME NEW x, Claims(x), TicketsOnward, RechargesOnward,
         overlapped \subseteq overlapped',
         x.op = "consume" => Len(debit'[x.subject]) = Len(debit[x.subject]),
         \A c \in Customers \ overlapped' :
           x.payees = {c} => balance'[c] = balance[c]
  PROVE  Claims(x)'
BY DEF Claims, TicketsOnward, RechargesOnward

\* The open transactions, when a step opens and ends none.
LEMMA TxStays ==
  ASSUME TxInv, tx' = tx, overlapped' = overlapped, balance' = balance,
         debit' = debit, TicketsOnward, RechargesOnward
  PROVE  TxInv'
<1>1. ASSUME NEW p \in Txs  PROVE Claims(tx[p])'
  <2> DEFINE x == tx[p]
  <2>1. Claims(x) /\ tx'[p] = x
    BY DEF TxInv
  <2> SUFFICES ASSUME NEW y, y = tx[p], Claims(y) PROVE Claims(y)'
    BY <2>1 DEF Claims
  <2> QED
    BY ClaimsStay
<1>2. ASSUME NEW p \in Txs, NEW r \in Txs, p # r  PROVE Apart(tx[p], tx[r])'
  BY <1>2 DEF TxInv, Apart
<1> QED
  BY <1>1, <1>2 DEF TxInv

\* The claim that an operation op on subject may open with, for the wallets C.
MayOpen(op, subject, C) ==
  /\ op \in Op \ {"none"} /\ subject \in QRs \cup Tickets
  /\ C \in SUBSET Customers
  /\ op = "recharge" => subject \in QRs /\ recharge[subject].status # "none"
  /\ op # "recharge" => /\ subject \in Tickets
                        /\ ticket[subject].status # "none"
                        /\ C = {ticket[subject].buyer}
  /\ op = "consume" => Len(debit[subject]) < MaxDebits
  /\ op \in {"consume", "refund_app"} => ~TicketLocked(subject)

\* No row changes, only what transactions have open.
NoRow == UNCHANGED <<credit, expired, balance, debit, ticket, recharge, gone>>

\* A transaction that opens has read a balance that is the wallet's, and finds

\* no other that has locked its ticket.
LEMMA TxOpens ==
  ASSUME TypeOK, TxInv, NoRow, NEW p \in Txs, NEW op, NEW subject, NEW C,
         NEW found \in BOOLEAN, MayOpen(op, subject, C),
         Opens(p, op, subject, C, found)
  PROVE  /\ TxInv' /\ overlapped \subseteq overlapped'
         /\ tx' \in [Txs -> TxRow] /\ overlapped' \subseteq Customers
<1> DEFINE bal == IF C = {} THEN 0 ELSE balance[CHOOSE c \in C : TRUE]
           x == [op |-> op, subject |-> subject, payees |-> C,
                 balance |-> bal, found |-> found, answer |-> "none"]
<1>1. /\ tx \in [Txs -> TxRow] /\ balance \in [Customers -> Int]
      /\ overlapped \subseteq Customers
  BY DEF TypeOK
<1>2. /\ tx[p].op = "none" /\ tx[p].payees = {}
      /\ tx' = [tx EXCEPT ![p] = x]
      /\ overlapped' =
           overlapped \cup (C \cap UNION {tx[r].payees : r \in Txs})
  BY DEF Opens, TxInv, Claims
<1>3. bal \in Int /\ \A c : C = {c} => bal = balance[c]
  <2>1. C # {} => (CHOOSE c \in C : TRUE) \in C
    OBVIOUS
  <2>2. C \in SUBSET Customers
    BY DEF MayOpen
  <2>3. C # {} => balance[CHOOSE c \in C : TRUE] \in Int
    BY <1>1, <2>1, <2>2
  <2>4. \A c : C = {c} => (CHOOSE b \in C : TRUE) = c
    BY <2>1
  <2> QED
    BY <2>3, <2>4
<1> HIDE DEF bal
<1>4. x \in TxRow
  BY <1>3 DEF TxRow, MayOpen
<1>5. /\ x.op = op /\ x.subject = subject /\ x.payees = C /\ x.balance = bal
  OBVIOUS
<1> HIDE DEF x
<1>6. /\ tx'[p] = x /\ \A r \in Txs \ {p} : tx'[r] = tx[r]
      /\ tx' \in [Txs -> TxRow]
  BY <1>1, <1>2, <1>4
<1>7. overlapped \subseteq overlapped' /\ overlapped' \subseteq Customers
  BY <1>1, <1>2 DEF MayOpen
<1>8. ASSUME NEW r \in Txs \ {p}  PROVE Claims(tx[r])'
  <2>1. Claims(tx[r]) /\ tx'[r] = tx[r]
    BY <1>6 DEF TxInv
  <2> QED
    BY <1>7, <2>1 DEF Claims, NoRow
<1>9. Claims(tx[p])'
  <2>1. x.op # "none" /\ x.op \in Op
    BY <1>5 DEF MayOpen
  <2>2. ASSUME NEW y, y = x  PROVE Claims(y)'
    BY <1>3, <1>5, <2>1, <2>2 DEF Claims, NoRow, MayOpen
  <2> QED
    BY <1>6, <2>2 DEF Claims
<1>10. ASSUME NEW r \in Txs \ {p}
       PROVE  Apart(tx[p], tx[r])' /\ Apart(tx[r], tx[p])'
  <2>1. tx'[p] = x /\ tx'[r] = tx[r]
    BY <1>6
  <2>2. C \cap tx[r].payees \subseteq overlapped'
    BY <1>2
  <2>3. {x.op, tx[r].op} \subseteq {"consume", "refund_app"}
          => tx[r].subject # x.subject
    BY <1>5 DEF MayOpen, TicketLocked
  <2> QED
    BY <1>5, <2>1, <2>2, <2>3 DEF Apart
<1>11. ASSUME NEW r \in Txs \ {p}, NEW s \in Txs \ {p}, r # s
       PROVE  Apart(tx[r], tx[s])'
  <2>1. Apart(tx[r], tx[s]) /\ tx'[r] = tx[r] /\ tx'[s] = tx[s]
    BY <1>6, <1>11 DEF TxInv
  <2> QED
    BY <1>7, <2>1 DEF Apart
<1>12. TxInv'
  <2>1. \A r \in Txs : Claims(tx[r])'
    BY <1>8, <1>9
  <2>2. \A r, s \in Txs : r # s => Apart(tx[r], tx[s])'
    BY <1>10, <1>11
  <2> QED
    BY <2>1, <2>2 DEF TxInv
<1> QED
  BY <1>6, <1>7, <1>12

\* A transaction that ends has written only wallets that are its own or known

\* to be overlapped, and debits only of the ticket it has locked.
LEMMA TxEnds ==
  ASSUME TypeOK, TxInv, NEW p \in Txs, tx[p].op # "none",
         NEW answer \in {"none", "ok", "error"}, Ends(p, answer),
         TicketsOnward, RechargesOnward,
         \A c \in Customers : balance'[c] = balance[c] \/ c \in tx[p].payees,
         \A t \in Tickets : \/ Len(debit'[t]) = Len(debit[t])
                            \/ tx[p].op = "consume" /\ t = tx[p].subject
  PROVE  TxInv' /\ tx' \in [Txs -> TxRow] /\ overlapped' = overlapped
<1>1. /\ tx \in [Txs -> TxRow] /\ overlapped' = overlapped
      /\ tx' = [tx EXCEPT ![p] = Idle(answer)]
  BY DEF TypeOK, Ends
<1>2. /\ Idle(answer) \in TxRow
      /\ Idle(answer).op = "none" /\ Idle(answer).payees = {}
  BY DEF Idle, TxRow, Op
<1>3. /\ tx'[p] = Idle(answer) /\ \A r \in Txs \ {p} : tx'[r] = tx[r]
      /\ tx' \in [Txs -> TxRow]
  BY <1>1, <1>2
<1>4. ASSUME NEW r \in Txs \ {p}  PROVE Claims(tx[r])'
  <2>1. /\ Claims(tx[r]) /\ tx'[r] = tx[r]
        /\ Apart(tx[p], tx[r]) /\ Apart(tx[r], tx[p])
    BY <1>3 DEF TxInv
  <2>2. \A c \in Customers \ overlapped :
          tx[r].payees = {c} => balance'[c] = balance[c]
    BY <2>1 DEF Apart
  <2>3. tx[r].op = "consume" =>
          Len(debit'[tx[r].subject]) = Len(debit[tx[r].subject])
    BY <2>1 DEF Apart, Claims
  <2>4. ASSUME NEW y, y = tx[r]  PROVE Claims(y)'
    <3>1. Claims(y)
      BY <2>1, <2>4
    <3>2. y.op = "consume" => Len(debit'[y.subject]) = Len(debit[y.subject])
      BY <2>3, <2>4
    <3>3. \A c \in Customers \ overlapped' :
            y.payees = {c} => balance'[c] = balance[c]
      BY <1>1, <2>2, <2>4
    <3> QED
      BY <1>1, <3>1, <3>2, <3>3, ClaimsStay
  <2> QED
    BY <2>1, <2>4 DEF Claims
<1>5. Claims(tx[p])'
  BY <1>2, <1>3 DEF Claims
<1>6. \A r, s \in Txs : r # s => Apart(tx[r], tx[s])'
  BY <1>1, <1>2, <1>3 DEF TxInv, Apart
<1>7. TxInv'
  BY <1>4, <1>5, <1>6 DEF TxInv
<1> QED
  BY <1>1, <1>3, <1>7

\* The sources of the credits stay what they are.
LEMMA RechargesStay ==
  ASSUME RechargesInv, RechargesOnward,
         \A c \in Customers :
           /\ DOMAIN credit'[c] = DOMAIN credit[c]
           /\ \A i \in DOMAIN credit[c] :
                credit'[c][i].source = credit[c][i].source
  PROVE  RechargesInv'
<1>1. ASSUME NEW c \in Customers, NEW d \in Customers,
             NEW m \in DOMAIN credit'[c], NEW n \in DOMAIN credit'[d],
             credit'[c][m].source \in QRs
      PROVE  /\ recharge'[credit'[c][m].source].status = "paid"
             /\ credit'[c][m].source = credit'[d][n].source => c = d /\ m = n
  <2>1. /\ m \in DOMAIN credit[c] /\ n \in DOMAIN credit[d]
        /\ credit'[c][m].source = credit[c][m].source
        /\ credit'[d][n].source = credit[d][n].source
    OBVIOUS
  <2>2. /\ recharge[credit[c][m].source].status = "paid"
        /\ credit[c][m].source = credit[d][n].source => c = d /\ m = n
    BY <1>1, <2>1 DEF RechargesInv
  <2> QED
    BY <1>1, <2>1, <2>2 DEF RechargesOnward
<1> QED
  BY <1>1 DEF RechargesInv

\* A new credit has a source of its own: a ticket, or a recharge of which

\* there is no credit and that is paid with it.
LEMMA RechargesCredited ==
  ASSUME TypeOK, RechargesInv, RechargesOnward, NEW c \in Customers,
         NEW amount \in Amount, NEW source \in QRs \cup Tickets,
         credit' = NewCredit(c, amount, source),
         source \in QRs =>
           NotCredited(source) /\ recharge'[source].status = "paid"
  PROVE  RechargesInv'
<1> DEFINE N == Len(credit[c])
<1>1. /\ \A d \in Customers \ {c} : credit'[d] = credit[d]
      /\ DOMAIN credit'[c] = DOMAIN credit[c] \cup {N + 1}
      /\ \A i \in DOMAIN credit[c] : credit'[c][i] = credit[c][i]
      /\ credit'[c][N + 1].source = source
  <2>1. IsCredited(credit', c, amount, source)
    BY NewCreditIs
  <2> QED
    BY <2>1 DEF IsCredited
<1> HIDE DEF N
<1>2. ASSUME NEW d \in Customers, NEW n \in DOMAIN credit'[d]
      PROVE  \/ d = c /\ n = N + 1
             \/ n \in DOMAIN credit[d] /\ credit'[d][n] = credit[d][n]
  BY <1>1
<1>3. source \in QRs =>
        \A d \in Customers : \A n \in DOMAIN credit[d] :
          credit[d][n].source # source
  BY DEF NotCredited, Sources
<1>4. ASSUME NEW b \in Customers, NEW d \in Customers,
             NEW m \in DOMAIN credit'[b], NEW n \in DOMAIN credit'[d],
             credit'[b][m].source \in QRs
      PROVE  /\ recharge'[credit'[b][m].source].status = "paid"
             /\ credit'[b][m].source = credit'[d][n].source => b = d /\ m = n
  <2>1. CASE b = c /\ m = N + 1
    <3>1. credit'[b][m].source = source /\ source \in QRs
      BY <1>1, <1>4, <2>1
    <3>2. (d = c /\ n = N + 1) \/ credit'[d][n].source # source
      BY <1>2, <1>3, <3>1
    <3> QED
      BY <2>1, <3>1, <3>2
  <2>2. CASE m \in DOMAIN credit[b] /\ credit'[b][m] = credit[b][m]
    <3>1. recharge'[credit'[b][m].source].status = "paid"
      BY <1>4, <2>2 DEF RechargesInv, RechargesOnward
    <3>2. CASE d = c /\ n = N + 1
      BY <1>1, <1>3, <1>4, <2>2, <3>1, <3>2
    <3>3. CASE n \in DOMAIN credit[d] /\ credit'[d][n] = credit[d][n]
      BY <1>4, <2>2, <3>1, <3>3 DEF RechargesInv
    <3> QED
      BY <1>2, <3>2, <3>3
  <2> QED
    BY <1>2, <2>1, <2>2
<1> QED
  BY <1>4 DEF RechargesInv

\* A step that leaves the ledger's rows alone.
LEMMA LedgerStays ==
  ASSUME LedgerInv, TypeOK', TxInv', TicketsOnward, RechargesOnward,
         credit' = credit, balance' = balance, debit' = debit,
         overlapped \subseteq overlapped'
  PROVE  LedgerInv'
<1> USE DEF LedgerInv
<1>1. TicketsInv'
  <2>1. \A c \in Customers : Len(credit[c]) \in Nat
    BY SpendableType
  <2> QED
    BY <2>1, TicketsStay
<1>2. RechargesInv'
  BY RechargesStay
<1>3. CreditsConserved' /\ BalanceExplained'
  BY BooksStay
<1> QED
  BY <1>1, <1>2, <1>3

-----------------------------------------------------------------------------
(* Operations open.                                                        *)

\* Whatever is opened, the ledger is as it was.
LEMMA Opened ==
  ASSUME LedgerInv, NoRow, NEW p \in Txs, NEW op, NEW subject, NEW C,
         NEW found \in BOOLEAN, MayOpen(op, subject, C),
         Opens(p, op, subject, C, found)
  PROVE  LedgerInv'
<1>1. /\ TxInv' /\ overlapped \subseteq overlapped'
      /\ tx' \in [Txs -> TxRow] /\ overlapped' \subseteq Customers
  BY TxOpens DEF LedgerInv
<1>2. TypeOK'
  BY <1>1 DEF LedgerInv, TypeOK, NoRow
<1>3. TicketsOnward /\ RechargesOnward
  BY DEF LedgerInv, TicketsInv, TicketsOnward, RechargesOnward, NoRow
<1> QED
  BY <1>1, <1>2, <1>3, LedgerStays DEF NoRow

\* The bank notifies a recharge.
LEMMA StartRechargeLedger ==
  ASSUME LedgerInv, NEW p \in Txs, NEW q \in QRs, StartRecharge(p, q)
  PROVE  LedgerInv'
<1> DEFINE C == recharge[q].customers \ gone
<1>1. NoRow /\ Opens(p, "recharge", q, C, FALSE)
  BY DEF StartRecharge, NoRow
<1>2. MayOpen("recharge", q, C)
  <2>1. recharge[q] \in RechargeRow
    BY DEF LedgerInv, TypeOK
  <2>2. recharge[q].customers \in SUBSET Customers
    BY <2>1 DEF RechargeRow
  <2> QED
    BY <2>2 DEF MayOpen, StartRecharge, Op
<1> HIDE DEF C
<1> QED
  BY <1>1, <1>2, Opened

\* generateQr reads the wallet.
LEMMA StartConsumeLedger ==
  ASSUME LedgerInv, NEW p \in Txs, NEW t \in Tickets, StartConsume(p, t)
  PROVE  LedgerInv'
<1>1. NoRow /\ Opens(p, "consume", t, {ticket[t].buyer}, FALSE)
  BY DEF StartConsume, NoRow
<1>2. MayOpen("consume", t, {ticket[t].buyer})
  BY DEF LedgerInv, TicketsInv, MayOpen, StartConsume, Op
<1> QED
  BY <1>1, <1>2, Opened

\* A failed payment, an expiry or a cancellation reads the wallet.
LEMMA StartRestoreLedger ==
  ASSUME LedgerInv, NEW p \in Txs, NEW t \in Tickets, StartRestore(p, t)
  PROVE  LedgerInv'
<1>1. NoRow /\ Opens(p, "restore", t, {ticket[t].buyer}, FALSE)
  BY DEF StartRestore, NoRow
<1>2. MayOpen("restore", t, {ticket[t].buyer})
  BY DEF LedgerInv, TicketsInv, MayOpen, StartRestore, Op
<1> QED
  BY <1>1, <1>2, Opened

\* A cancellation in the app reads the wallet.
LEMMA StartRefundAppLedger ==
  ASSUME LedgerInv, NEW p \in Txs, NEW t \in Tickets, StartRefundApp(p, t)
  PROVE  LedgerInv'
<1>1. NoRow /\ Opens(p, "refund_app", t, {ticket[t].buyer}, Refunded(t))
  BY DEF StartRefundApp, NoRow
<1>2. MayOpen("refund_app", t, {ticket[t].buyer})
  BY DEF LedgerInv, TicketsInv, MayOpen, StartRefundApp, Op
<1>3. Refunded(t) \in BOOLEAN
  BY DEF Refunded
<1> QED
  BY <1>1, <1>2, <1>3, Opened

\* The cancellation of a travel reads the wallet.
LEMMA StartRefundTravelLedger ==
  ASSUME LedgerInv, NEW p \in Txs, NEW t \in Tickets, StartRefundTravel(p, t)
  PROVE  LedgerInv'
<1>1. NoRow /\ Opens(p, "refund_travel", t, {ticket[t].buyer}, Refunded(t))
  BY DEF StartRefundTravel, NoRow
<1>2. MayOpen("refund_travel", t, {ticket[t].buyer})
  BY DEF LedgerInv, TicketsInv, MayOpen, StartRefundTravel, Op
<1>3. Refunded(t) \in BOOLEAN
  BY DEF Refunded
<1> QED
  BY <1>1, <1>2, <1>3, Opened

-----------------------------------------------------------------------------
(* Steps outside the operations on a wallet.                               *)

\* A step that opens and ends nothing and leaves the ledger's rows alone.
LEMMA RowsOnly ==
  ASSUME LedgerInv, TypeOK', TicketsOnward, RechargesOnward,
         UNCHANGED <<credit, balance, debit, tx, overlapped>>
  PROVE  LedgerInv'
<1>1. TxInv'
  BY TxStays DEF LedgerInv
<1> QED
  BY <1>1, LedgerStays

\* A recharge is asked for.
LEMMA CreateRechargeLedger ==
  ASSUME LedgerInv, NEW q \in QRs, NEW C \in SUBSET Customers,
         NEW a \in Amount, CreateRecharge(q, C, a)
  PROVE  LedgerInv'
<1> DEFINE row == [status |-> "pending", customers |-> C, amount |-> a]
<1>1. row \in RechargeRow /\ row.status = "pending"
  BY DEF RechargeRow
<1>2. recharge \in [QRs -> RechargeRow] /\ recharge[q].status = "none"
  BY DEF LedgerInv, TypeOK, CreateRecharge
<1>3. recharge' = [recharge EXCEPT ![q] = row]
  BY DEF CreateRecharge
<1> HIDE DEF row
<1>4. recharge' \in [QRs -> RechargeRow] /\ RechargesOnward
  BY <1>1, <1>2, <1>3 DEF RechargesOnward
<1>5. /\ TypeOK' /\ TicketsOnward
      /\ UNCHANGED <<credit, balance, debit, tx, overlapped>>
  BY <1>4
  DEF LedgerInv, TypeOK, TicketsInv, TicketsOnward, CreateRecharge
<1> QED
  BY <1>4, <1>5, RowsOnly

\* What a wallet can spend is a natural number.
LEMMA AvailableType ==
  ASSUME TypeOK, NEW c \in Customers
  PROVE  Available(c) \in Nat
<1>1. /\ Len(credit[c]) \in Nat
      /\ Spendable(c) \in [1 .. Len(credit[c]) -> Nat]
  BY SpendableType
<1>2. IsFiniteSet(1 .. Len(credit[c]))
  BY <1>1, FS_Interval
<1>3. Available(c) = SumFunctionOnSet(Spendable(c), 1 .. Len(credit[c]))
  BY <1>1 DEF Available, Total, SumFunction
<1> QED
  BY <1>1, <1>2, <1>3, SumType

\* A ticket is reserved.
LEMMA ReserveLedger ==
  ASSUME LedgerInv, NEW t \in Tickets, NEW c \in Customers, Reserve(t, c)
  PROVE  LedgerInv'
<1> DEFINE part == Min2(Available(c), Price)
           row == [status |-> "open", buyer |-> c, part |-> part]
<1>1. part \in 0 .. Price
  <2>1. Available(c) \in Nat
    BY AvailableType DEF LedgerInv
  <2> QED
    BY <2>1, PriceAssumption DEF Min2
<1> HIDE DEF part
<1>2. row \in TicketRow /\ row.status = "open" /\ row.buyer = c
  BY <1>1 DEF TicketRow, TicketStatus
<1>3. ticket \in [Tickets -> TicketRow] /\ ticket[t].status = "none"
  BY DEF LedgerInv, TypeOK, Reserve
<1>4. ticket' = [ticket EXCEPT ![t] = row]
  BY DEF Reserve, part
<1> HIDE DEF row
<1>5. ticket' \in [Tickets -> TicketRow] /\ TicketsOnward
  BY <1>2, <1>3, <1>4 DEF TicketsOnward, LedgerInv, TicketsInv
<1>6. /\ TypeOK' /\ RechargesOnward
      /\ UNCHANGED <<credit, balance, debit, tx, overlapped>>
  BY <1>5 DEF LedgerInv, TypeOK, RechargesOnward, Reserve
<1> QED
  BY <1>5, <1>6, RowsOnly

\* A ticket that is reserved changes its status.
LEMMA StatusOnward ==
  ASSUME TypeOK, TicketsInv, NEW t \in Tickets,
         NEW s \in TicketStatus \ {"none"},
         ticket[t].status # "none",
         ticket' = [ticket EXCEPT ![t].status = s]
  PROVE  ticket' \in [Tickets -> TicketRow] /\ TicketsOnward /\ SameBuyers
<1>1. ticket \in [Tickets -> TicketRow] /\ ticket[t] \in TicketRow
  BY DEF TypeOK
<1> DEFINE row == [ticket[t] EXCEPT !.status = s]
<1>2. row \in TicketRow /\ row.status = s /\ row.buyer = ticket[t].buyer
  BY <1>1 DEF TicketRow
<1>3. ticket' = [ticket EXCEPT ![t] = row]
  OBVIOUS
<1> HIDE DEF row
<1>4. /\ ticket' \in [Tickets -> TicketRow]
      /\ ticket'[t] = row /\ \A u \in Tickets \ {t} : ticket'[u] = ticket[u]
  BY <1>1, <1>2, <1>3
<1> QED
  BY <1>2, <1>4 DEF TicketsOnward, SameBuyers, TicketsInv

\* The bank confirms the rest of the price.
LEMMA SellLedger ==
  ASSUME LedgerInv, NEW t \in Tickets, Sell(t)
  PROVE  LedgerInv'
<1>1. ticket' \in [Tickets -> TicketRow] /\ TicketsOnward
  BY StatusOnward DEF LedgerInv, Sell, TicketStatus
<1>2. /\ TypeOK' /\ RechargesOnward
      /\ UNCHANGED <<credit, balance, debit, tx, overlapped>>
  BY <1>1 DEF LedgerInv, TypeOK, RechargesOnward, Sell
<1> QED
  BY <1>1, <1>2, RowsOnly

\* A credit expires.
LEMMA ExpireCreditLedger ==
  ASSUME LedgerInv, NEW c \in Customers, ExpireCredit(c)
  PROVE  LedgerInv'
<1>1. /\ \A d \in Customers : expired[d] \in Nat /\ Len(credit[d]) \in Nat
                                /\ expired[d] <= Len(credit[d])
      /\ expired \in [Customers -> Nat]
  BY SpendableType DEF LedgerInv, TypeOK
<1>2. /\ expired' = [expired EXCEPT ![c] = expired[c] + 1]
      /\ expired[c] < Len(credit[c]) /\ credit' = credit
  BY DEF ExpireCredit
<1>3. expired' \in [Customers -> Nat]
      /\ \A d \in Customers : expired'[d] <= Len(credit'[d])
  BY <1>1, <1>2
<1>4. TypeOK'
  BY <1>3 DEF LedgerInv, TypeOK, ExpireCredit
<1>5. /\ RechargesOnward /\ TicketsOnward
      /\ UNCHANGED <<credit, balance, debit, tx, overlapped>>
  BY DEF LedgerInv, TicketsInv, RechargesOnward, TicketsOnward, ExpireCredit
<1> QED
  BY <1>4, <1>5, RowsOnly

\* An account is deleted.
LEMMA DeleteAccountLedger ==
  ASSUME LedgerInv, NEW c \in Customers, DeleteAccount(c)
  PROVE  LedgerInv'
<1>1. TypeOK'
  BY DEF LedgerInv, TypeOK, DeleteAccount
<1>2. /\ RechargesOnward /\ TicketsOnward
      /\ UNCHANGED <<credit, balance, debit, tx, overlapped>>
  BY DEF LedgerInv, TicketsInv, RechargesOnward, TicketsOnward, DeleteAccount
<1> QED
  BY <1>1, <1>2, RowsOnly

-----------------------------------------------------------------------------
(* Operations end.                                                         *)

\* A transaction that commits no row of the ledger.
LEMMA EndsIdle ==
  ASSUME LedgerInv, NEW p \in Txs, tx[p].op # "none",
         NEW answer \in {"none", "ok", "error"}, Ends(p, answer),
         TicketsOnward, RechargesOnward, ticket' \in [Tickets -> TicketRow],
         recharge' \in [QRs -> RechargeRow],
         UNCHANGED <<credit, balance, debit, expired, gone>>
  PROVE  LedgerInv'
<1>1. TxInv' /\ tx' \in [Txs -> TxRow] /\ overlapped' = overlapped
  BY TxEnds DEF LedgerInv
<1>2. TypeOK'
  BY <1>1 DEF LedgerInv, TypeOK
<1> QED
  BY <1>1, <1>2, LedgerStays

\* A wallet with one credit more has no fewer.
LEMMA CreditsGrow ==
  ASSUME TypeOK, NEW c \in Customers, NEW amount \in Amount,
         NEW source \in QRs \cup Tickets,
         credit' = NewCredit(c, amount, source)
  PROVE  /\ credit' \in [Customers -> Seq(CreditRow)]
         /\ \A d \in Customers : /\ Len(credit[d]) \in Nat
                                  /\ Len(credit'[d]) \in Nat
                                  /\ Len(credit[d]) <= Len(credit'[d])
<1>1. IsCredited(credit', c, amount, source)
  BY NewCreditIs
<1>2. \A d \in Customers : Len(credit[d]) \in Nat
  BY SpendableType
<1>3. \A d \in Customers : Len(credit'[d]) \in Nat
                              /\ Len(credit[d]) <= Len(credit'[d])
  BY <1>1, <1>2 DEF IsCredited
<1> QED
  BY <1>1, <1>2, <1>3 DEF IsCredited

\* A transaction that credits the wallet it has read.
LEMMA EndsCredited ==
  ASSUME LedgerInv, NEW p \in Txs, tx[p].op # "none", Ends(p, "ok"),
         TicketsOnward, RechargesOnward, ticket' \in [Tickets -> TicketRow],
         recharge' \in [QRs -> RechargeRow],
         UNCHANGED <<debit, expired, gone>>,
         NEW c \in Customers, tx[p].payees = {c},
         NEW amount \in Amount, NEW source \in QRs \cup Tickets,
         credit' = NewCredit(c, amount, source),
         balance' = [balance EXCEPT ![c] = tx[p].balance + amount],
         source \in QRs =>
           NotCredited(source) /\ recharge'[source].status = "paid"
  PROVE  LedgerInv'
<1>0. /\ TypeOK /\ TicketsInv /\ TxInv /\ RechargesInv
      /\ CreditsConserved /\ BalanceExplained
  BY DEF LedgerInv
<1>1. TxInv' /\ tx' \in [Txs -> TxRow] /\ overlapped' = overlapped
  <2>1. balance \in [Customers -> Int]
    BY <1>0 DEF TypeOK
  <2>2. \A d \in Customers : balance'[d] = balance[d] \/ d \in tx[p].payees
    BY <2>1
  <2>3. \A t \in Tickets : Len(debit'[t]) = Len(debit[t])
    OBVIOUS
  <2> QED
    BY <1>0, <2>2, <2>3, TxEnds
<1>2. /\ credit' \in [Customers -> Seq(CreditRow)]
      /\ \A d \in Customers : Len(credit[d]) \in Nat /\ Len(credit'[d]) \in Nat
                                /\ Len(credit[d]) <= Len(credit'[d])
  BY <1>0, CreditsGrow
<1>3. balance' \in [Customers -> Int]
  <2>1. tx[p] \in TxRow /\ balance \in [Customers -> Int]
    BY <1>0 DEF TypeOK
  <2>2. tx[p].balance \in Int /\ amount \in Int
    BY <2>1, PriceAssumption DEF TxRow, Amount
  <2> QED
    BY <2>1, <2>2
<1>4. TypeOK'
  <2>1. \A d \in Customers : expired'[d] <= Len(credit'[d])
    <3>1. \A d \in Customers : /\ expired[d] \in Nat
                               /\ expired[d] <= Len(credit[d])
      BY <1>0 DEF TypeOK
    <3> QED
      BY <1>2, <3>1
  <2>2. /\ expired' \in [Customers -> Nat]
        /\ debit' \in [Tickets -> Seq(DebitRow)]
        /\ gone' \subseteq Customers /\ overlapped' \subseteq Customers
    BY <1>0, <1>1 DEF TypeOK
  <2> HIDE <1>0
  <2> QED
    BY <1>1, <1>2, <1>3, <2>1, <2>2 DEF TypeOK
<1>5. TicketsInv'
  BY <1>0, <1>2, TicketsStay
<1>6. RechargesInv'
  BY <1>0, RechargesCredited
<1>7. c \notin overlapped => tx[p].balance = balance[c]
  BY <1>0 DEF TxInv, Claims
<1>8. CreditsConserved' /\ BalanceExplained'
  <2> DEFINE old == tx[p].balance
  <2>1. /\ balance' = [balance EXCEPT ![c] = old + amount]
        /\ c \notin overlapped => old = balance[c]
    BY <1>7
  <2> HIDE DEF old
  <2> QED
    BY <1>0, <1>1, <2>1, BooksCredited
<1> QED
  BY <1>1, <1>4, <1>5, <1>6, <1>8 DEF LedgerInv

\* What an operation on a ticket has to do with.
LEMMA SubjectIs ==
  ASSUME LedgerInv, NEW p \in Txs, tx[p].op \notin {"none", "recharge"}
  PROVE  /\ tx[p].subject \in Tickets
         /\ ticket[tx[p].subject].status # "none"
         /\ ticket[tx[p].subject].buyer \in Customers
         /\ tx[p].payees = {ticket[tx[p].subject].buyer}
         /\ tx[p].op = "consume" => Len(debit[tx[p].subject]) < MaxDebits
<1>1. Claims(tx[p])
  BY DEF LedgerInv, TxInv
<1> QED
  BY <1>1 DEF LedgerInv, Claims, TicketsInv

\* The bank's notification commits, or fails with a second CREDIT row.
LEMMA EndRechargeLedger ==
  ASSUME LedgerInv, NEW p \in Txs, EndRecharge(p)
  PROVE  LedgerInv'
<1> DEFINE q == tx[p].subject
           amount == recharge[q].amount
           Paid == recharge' = [recharge EXCEPT ![q].status = "paid"]
<1>1. /\ tx[p].op = "recharge" /\ q \in QRs /\ recharge[q].status # "none"
      /\ UNCHANGED <<expired, debit, ticket, gone>>
  BY DEF EndRecharge, LedgerInv, TxInv, Claims
<1>2. /\ recharge \in [QRs -> RechargeRow] /\ recharge[q] \in RechargeRow
      /\ amount \in Amount /\ ticket' \in [Tickets -> TicketRow]
  BY <1>1 DEF LedgerInv, TypeOK, RechargeRow
<1>3. TicketsOnward
  BY <1>1 DEF LedgerInv, TicketsInv, TicketsOnward
<1>4. ASSUME Paid
      PROVE  /\ recharge' \in [QRs -> RechargeRow] /\ RechargesOnward
             /\ recharge'[q].status = "paid"
  <2> DEFINE row == [recharge[q] EXCEPT !.status = "paid"]
  <2>1. row \in RechargeRow /\ row.status = "paid"
    BY <1>2 DEF RechargeRow
  <2>2. recharge' = [recharge EXCEPT ![q] = row]
    BY <1>4
  <2> HIDE DEF row
  <2> QED
    BY <1>1, <1>2, <2>1, <2>2 DEF RechargesOnward
<1>5. CASE tx[p].payees = {} /\ Paid /\ UNCHANGED <<credit, balance>>
             /\ Ends(p, "ok")
  BY <1>1, <1>2, <1>3, <1>4, <1>5, EndsIdle
<1>6. ASSUME NEW c \in Customers, tx[p].payees = {c}, NotCredited(q), Paid,
             credit' = NewCredit(c, amount, q),
             balance' = [balance EXCEPT ![c] = tx[p].balance + amount],
             Ends(p, "ok")
      PROVE  LedgerInv'
  BY <1>1, <1>2, <1>3, <1>4, <1>6, EndsCredited
<1>7. CASE UNCHANGED <<credit, balance, recharge>> /\ Ends(p, "error")
  <2>1. RechargesOnward /\ recharge' \in [QRs -> RechargeRow]
    BY <1>2, <1>7 DEF RechargesOnward
  <2> QED
    BY <1>1, <1>2, <1>3, <1>7, <2>1, EndsIdle
<1> QED
  BY <1>5, <1>6, <1>7 DEF EndRecharge

\* The refund of a sold ticket commits.
LEMMA EndRefundLedger ==
  ASSUME LedgerInv, NEW p \in Txs, EndRefund(p)
  PROVE  LedgerInv'
<1> DEFINE t == tx[p].subject
           c == ticket[t].buyer
           amount == IF tx[p].op = "refund_app" THEN Price - Commission
                                                ELSE Price
<1>1. /\ tx[p].op \in {"refund_app", "refund_travel"} /\ Ends(p, "ok")
      /\ ticket' = [ticket EXCEPT ![t].status = "ended"]
      /\ UNCHANGED <<expired, debit, recharge, gone>>
      /\ \/ UNCHANGED <<credit, balance>>
         \/ /\ amount # 0 /\ credit' = NewCredit(c, amount, t)
            /\ balance' = [balance EXCEPT ![c] = tx[p].balance + amount]
  BY DEF EndRefund
<1>2. /\ tx[p].op # "none" /\ t \in Tickets /\ c \in Customers
      /\ ticket[t].status # "none" /\ tx[p].payees = {c}
  BY <1>1, SubjectIs
<1>3. ticket' \in [Tickets -> TicketRow] /\ TicketsOnward
  <2>1. TypeOK /\ TicketsInv /\ "ended" \in TicketStatus \ {"none"}
    BY DEF LedgerInv, TicketStatus
  <2> HIDE DEF t, c, amount
  <2> QED
    BY <1>1, <1>2, <2>1, StatusOnward
<1>4. RechargesOnward /\ recharge' \in [QRs -> RechargeRow]
  BY <1>1 DEF RechargesOnward, LedgerInv, TypeOK
<1>5. amount # 0 => amount \in Amount
  BY PriceAssumption DEF Amount
<1>6. t \in QRs \cup Tickets /\ t \notin QRs
  BY <1>2, RowsAssumption
<1> HIDE DEF t, c, amount
<1>7. CASE UNCHANGED <<credit, balance>>
  BY <1>1, <1>2, <1>3, <1>4, <1>7, EndsIdle
<1>8. CASE /\ amount # 0 /\ credit' = NewCredit(c, amount, t)
           /\ balance' = [balance EXCEPT ![c] = tx[p].balance + amount]
  BY <1>1, <1>2, <1>3, <1>4, <1>5, <1>6, <1>8, EndsCredited
<1> QED
  BY <1>1, <1>7, <1>8

\* Tickets and their debits when a wallet pays for ticket t.
LEMMA TicketsDebited ==
  ASSUME TypeOK, TicketsInv, TicketsOnward, NEW t \in Tickets,
         NEW c, c = ticket[t].buyer, c \in Customers,
         ticket[t].status # "none", Len(debit[t]) < MaxDebits,
         NEW used \in [DOMAIN credit[c] -> Nat],
         \A i \in DOMAIN credit[c] : used[i] <= Price,
         debit' = NewDebit(t, used),
         \A d \in Customers : Len(credit'[d]) = Len(credit[d])
  PROVE  /\ TicketsInv' /\ debit' \in [Tickets -> Seq(DebitRow)]
         /\ \A s \in Tickets \ {t} : debit'[s] = debit[s]
<1> DEFINE row == [used |-> used, reversed |-> FALSE]
           K == Len(debit[t])
           r == Append(debit[t], row)
<1>1. used \in Seq(0 .. Price) /\ Len(used) = Len(credit[c])
  <2>1. DOMAIN credit[c] = 1 .. Len(credit[c]) /\ Len(credit[c]) \in Nat
    BY SpendableType
  <2> DEFINE N == Len(credit[c])
             S == 0 .. Price
  <2>2. used = [i \in 1 .. N |-> used[i]] /\ \A i \in 1 .. N : used[i] \in S
    BY <2>1, PriceAssumption
  <2> HIDE DEF S, N
  <2>3. used \in Seq(S) /\ Len(used) = N
    BY <2>1, <2>2, Rows DEF N
  <2> QED
    BY <2>3 DEF S, N
<1>2. row \in DebitRow /\ row.used = used
  BY <1>1 DEF DebitRow
<1>3. debit \in [Tickets -> Seq(DebitRow)] /\ debit[t] \in Seq(DebitRow)
  BY DEF TypeOK
<1>4. debit' = [debit EXCEPT ![t] = r]
  BY DEF NewDebit
<1> HIDE DEF row
<1>5. /\ r \in Seq(DebitRow) /\ Len(r) = K + 1 /\ K \in Nat
      /\ DOMAIN r = DOMAIN debit[t] \cup {K + 1}
      /\ \A i \in DOMAIN debit[t] : r[i] = debit[t][i]
      /\ r[K + 1] = row
  BY <1>2, <1>3
<1> HIDE DEF r, K
<1>6. /\ debit' \in [Tickets -> Seq(DebitRow)] /\ debit'[t] = r
      /\ \A s \in Tickets \ {t} : debit'[s] = debit[s]
  BY <1>3, <1>4, <1>5
<1>7. ASSUME NEW s \in Tickets
      PROVE  /\ ticket'[s].status = "none" => debit'[s] = << >>
             /\ ticket'[s].status # "none" => ticket'[s].buyer \in Customers
             /\ Len(debit'[s]) <= MaxDebits
             /\ \A i \in DOMAIN debit'[s] :
                  Len(debit'[s][i].used) <= Len(credit'[ticket'[s].buyer])
  <2>1. ASSUME NEW i \in DOMAIN debit[s]
        PROVE  Len(debit[s][i].used) <= Len(credit'[ticket'[s].buyer])
    <3>1. debit[s] # << >>
      OBVIOUS
    <3> QED
      BY <3>1 DEF TicketsInv, TicketsOnward
  <2>2. CASE s # t
    BY <1>6, <2>1, <2>2 DEF TicketsInv, TicketsOnward
  <2>3. CASE s = t
    <3>1. ticket'[t].status # "none" /\ ticket'[t].buyer = c
      BY DEF TicketsOnward
    <3>2. Len(debit'[t]) <= MaxDebits
      <4>1. Len(debit'[t]) = K + 1 /\ K \in Nat /\ K < MaxDebits
        BY <1>5, <1>6 DEF K
      <4> QED
        BY <4>1, BoundAssumption
    <3>3. ASSUME NEW i \in DOMAIN debit'[t]
          PROVE  Len(debit'[t][i].used) <= Len(credit'[c])
      <4>1. CASE i \in DOMAIN debit[t]
        BY <1>5, <1>6, <2>1, <2>3, <3>1, <4>1
      <4>2. CASE i = K + 1
        <5>1. Len(debit'[t][i].used) = Len(credit[c])
          BY <1>1, <1>2, <1>5, <1>6, <4>2
        <5>2. Len(credit'[c]) = Len(credit[c]) /\ Len(credit[c]) \in Nat
          BY SpendableType
        <5> QED
          BY <5>1, <5>2
      <4>3. i \in DOMAIN debit[t] \/ i = K + 1
        <5>1. DOMAIN debit'[t] = DOMAIN debit[t] \cup {K + 1}
          BY <1>5, <1>6
        <5> QED
          BY <5>1
      <4> QED
        BY <4>1, <4>2, <4>3
    <3> QED
      BY <2>3, <3>1, <3>2, <3>3
  <2> QED
    BY <2>2, <2>3
<1> QED
  BY <1>6, <1>7 DEF TicketsInv

\* The payment commits.
Consumes(p, t, c, part, used) ==
  /\ tx[p].op = "consume" /\ t = tx[p].subject
  /\ c = ticket[t].buyer /\ part = ticket[t].part
  /\ part <= Available(c) /\ used = OldestFirst(c, part)
  /\ credit' = Moved(c, used, -1)
  /\ balance' = [balance EXCEPT ![c] = tx[p].balance - part]
  /\ debit' = NewDebit(t, used)
  /\ ticket' = [ticket EXCEPT ![t].status = IF part = Price THEN "sold" ELSE @]
  /\ Ends(p, "ok") /\ UNCHANGED <<expired, recharge, gone>>

\* A payment that commits.
LEMMA ConsumeLedger ==
  ASSUME LedgerInv, NEW p \in Txs, NEW t, NEW c, NEW part, NEW used,
         Consumes(p, t, c, part, used)
  PROVE  LedgerInv'
<1>0. /\ TypeOK /\ TicketsInv /\ TxInv /\ RechargesInv
      /\ CreditsConserved /\ BalanceExplained
  BY DEF LedgerInv
<1>1. /\ t \in Tickets /\ ticket[t].status # "none" /\ c \in Customers
      /\ tx[p].payees = {c} /\ Len(debit[t]) < MaxDebits
  BY SubjectIs DEF Consumes
<1>2. part \in Nat /\ part <= Price /\ ticket[t].status \in TicketStatus
  <2>1. ticket[t] \in TicketRow
    BY <1>0, <1>1 DEF TypeOK
  <2> QED
    BY <2>1, PriceAssumption DEF TicketRow, Consumes
<1>3. ticket' \in [Tickets -> TicketRow] /\ TicketsOnward /\ SameBuyers
  <2> DEFINE s == IF part = Price THEN "sold" ELSE ticket[t].status
  <2>1. s \in TicketStatus \ {"none"}
    BY <1>1, <1>2 DEF TicketStatus
  <2>2. ticket' = [ticket EXCEPT ![t].status = s]
    BY DEF Consumes
  <2> HIDE DEF s
  <2> QED
    BY <1>0, <1>1, <2>1, <2>2, StatusOnward
<1>4. RechargesOnward
  BY DEF RechargesOnward, Consumes
<1>5. /\ used \in [DOMAIN credit[c] -> Nat]
      /\ \A i \in DOMAIN credit[c] :
           /\ used[i] <= part
           /\ credit[c][i].remaining - used[i] \in 0 .. Price
  BY <1>0, <1>1, <1>2, GivesWithin DEF Consumes
<1>6. IsMoved(credit', c, used, -1)
  <2>1. Fits(c, used, -1)
    BY <1>5 DEF Fits
  <2>2. -1 \in {-1, 1}
    OBVIOUS
  <2> QED
    BY <1>0, <1>1, <2>1, <2>2, MovedIs DEF Consumes
<1>7. /\ credit' \in [Customers -> Seq(CreditRow)]
      /\ \A d \in Customers :
           /\ Len(credit'[d]) = Len(credit[d])
           /\ DOMAIN credit'[d] = DOMAIN credit[d]
           /\ \A i \in DOMAIN credit[d] :
                credit'[d][i].source = credit[d][i].source
  BY <1>6 DEF IsMoved
<1>8. /\ TicketsInv' /\ debit' \in [Tickets -> Seq(DebitRow)]
      /\ \A s \in Tickets \ {t} : debit'[s] = debit[s]
  <2>1. \A i \in DOMAIN credit[c] : used[i] <= Price
    BY <1>2, <1>5, PriceAssumption
  <2>2. \A d \in Customers : Len(credit'[d]) = Len(credit[d])
    BY <1>7
  <2> QED
    BY <1>0, <1>1, <1>3, <1>5, <2>1, <2>2, TicketsDebited DEF Consumes
<1>9. TxInv' /\ tx' \in [Txs -> TxRow] /\ overlapped' = overlapped
  <2>1. \A d \in Customers : balance'[d] = balance[d] \/ d \in tx[p].payees
    BY <1>0, <1>1 DEF TypeOK, Consumes
  <2>2. \A s \in Tickets : \/ Len(debit'[s]) = Len(debit[s])
                           \/ tx[p].op = "consume" /\ s = tx[p].subject
    BY <1>8 DEF Consumes
  <2> QED
    BY <1>0, <1>3, <1>4, <2>1, <2>2, TxEnds DEF Consumes
<1>10. balance' \in [Customers -> Int]
  <2>1. tx[p] \in TxRow /\ balance \in [Customers -> Int]
    BY <1>0 DEF TypeOK
  <2>2. tx[p].balance \in Int
    BY <2>1 DEF TxRow
  <2>3. tx[p].balance - part \in Int
    BY <1>2, <2>2
  <2>4. balance' = [balance EXCEPT ![c] = tx[p].balance - part]
    BY DEF Consumes
  <2> QED
    BY <2>1, <2>3, <2>4
<1>11. TypeOK'
  <2>1. /\ expired' \in [Customers -> Nat] /\ gone' \subseteq Customers
        /\ \A d \in Customers : expired'[d] <= Len(credit'[d])
        /\ recharge' \in [QRs -> RechargeRow]
        /\ overlapped' \subseteq Customers
    BY <1>0, <1>7, <1>9 DEF TypeOK, Consumes
  <2> HIDE <1>0
  <2> QED
    BY <1>3, <1>7, <1>8, <1>9, <1>10, <2>1 DEF TypeOK
<1>12. RechargesInv'
  BY <1>0, <1>4, <1>7, RechargesStay
<1>13. CreditsConserved' /\ BalanceExplained'
  <2> DEFINE old == tx[p].balance
  <2>1. /\ balance' = [balance EXCEPT ![c] = old - part]
        /\ c \notin overlapped => old = balance[c]
    BY <1>0, <1>1 DEF TxInv, Claims, Consumes
  <2>2. /\ c = ticket[t].buyer /\ part <= Available(c)
        /\ used = OldestFirst(c, part) /\ credit' = Moved(c, used, -1)
        /\ debit' = NewDebit(t, used)
    BY DEF Consumes
  <2> HIDE DEF old
  <2> QED
    BY <1>0, <1>1, <1>2, <1>3, <1>9, <2>1, <2>2, BooksDebited
<1> QED
  BY <1>8, <1>9, <1>11, <1>12, <1>13 DEF LedgerInv

\* consumeForTicket ends.
LEMMA EndConsumeLedger ==
  ASSUME LedgerInv, NEW p \in Txs, EndConsume(p)
  PROVE  LedgerInv'
<1> DEFINE t == tx[p].subject
           c == ticket[t].buyer
           part == ticket[t].part
           used == OldestFirst(c, part)
<1>1. /\ tx[p].op = "consume" /\ UNCHANGED <<expired, recharge, gone>>
      /\ \/ Ends(p, "error") /\ UNCHANGED <<credit, balance, debit, ticket>>
         \/ /\ ~(Available(c) < part)
            /\ credit' = Moved(c, used, -1)
            /\ balance' = [balance EXCEPT ![c] = tx[p].balance - part]
            /\ debit' = NewDebit(t, used)
            /\ ticket' = [ticket EXCEPT ![t].status =
                            IF part = Price THEN "sold" ELSE @]
            /\ Ends(p, "ok")
  BY DEF EndConsume, NewDebit
<1>2. CASE Ends(p, "error") /\ UNCHANGED <<credit, balance, debit, ticket>>
  <2>1. /\ TicketsOnward /\ RechargesOnward
        /\ ticket' \in [Tickets -> TicketRow]
        /\ recharge' \in [QRs -> RechargeRow]
    BY <1>1, <1>2
    DEF LedgerInv, TypeOK, TicketsInv, TicketsOnward, RechargesOnward
  <2> QED
    BY <1>1, <1>2, <2>1, EndsIdle
<1>3. CASE /\ ~(Available(c) < part)
           /\ credit' = Moved(c, used, -1)
           /\ balance' = [balance EXCEPT ![c] = tx[p].balance - part]
           /\ debit' = NewDebit(t, used)
           /\ ticket' = [ticket EXCEPT ![t].status =
                           IF part = Price THEN "sold" ELSE @]
           /\ Ends(p, "ok")
  <2>1. part <= Available(c)
    <3>1. t \in Tickets /\ c \in Customers
      BY <1>1, SubjectIs
    <3>2. part \in Int /\ Available(c) \in Int
      BY <3>1, AvailableType DEF LedgerInv, TypeOK, TicketRow
    <3> QED
      BY <1>3, <3>2
  <2>2. Consumes(p, t, c, part, used)
    BY <1>1, <1>3, <2>1 DEF Consumes
  <2> HIDE DEF t, c, part, used
  <2> QED
    BY <2>2, ConsumeLedger
<1> QED
  BY <1>1, <1>2, <1>3

\* The DEBIT rows with the i-th of ticket t reversed.
Reversed(t, i) == [debit EXCEPT ![t][i].reversed = TRUE]

\* Tickets and their debits when a debit is reversed.
LEMMA TicketsReversed ==
  ASSUME TypeOK, TicketsInv, TicketsOnward, NEW t \in Tickets,
         NEW i \in DOMAIN debit[t], debit' = Reversed(t, i),
         \A d \in Customers : Len(credit'[d]) = Len(credit[d])
  PROVE  /\ TicketsInv' /\ debit' \in [Tickets -> Seq(DebitRow)]
         /\ \A s \in Tickets : Len(debit'[s]) = Len(debit[s])
<1> DEFINE row == [debit[t][i] EXCEPT !.reversed = TRUE]
           r == [debit[t] EXCEPT ![i] = row]
<1>1. debit \in [Tickets -> Seq(DebitRow)] /\ debit[t] \in Seq(DebitRow)
  BY DEF TypeOK
<1>2. debit[t][i] \in DebitRow
  BY <1>1
<1>3. row \in DebitRow /\ row.used = debit[t][i].used
  BY <1>2 DEF DebitRow
<1>4. debit' = [debit EXCEPT ![t] = r]
  BY DEF Reversed
<1> HIDE DEF row
<1>5. /\ r \in Seq(DebitRow) /\ Len(r) = Len(debit[t])
      /\ DOMAIN r = DOMAIN debit[t]
      /\ \A j \in DOMAIN debit[t] : r[j].used = debit[t][j].used
  BY <1>1, <1>3
<1> HIDE DEF r
<1>6. /\ debit' \in [Tickets -> Seq(DebitRow)] /\ debit'[t] = r
      /\ \A s \in Tickets \ {t} : debit'[s] = debit[s]
  BY <1>1, <1>4, <1>5
<1>7. \A s \in Tickets :
        /\ Len(debit'[s]) = Len(debit[s]) /\ DOMAIN debit'[s] = DOMAIN debit[s]
        /\ \A j \in DOMAIN debit[s] : debit'[s][j].used = debit[s][j].used
  BY <1>5, <1>6
<1>8. debit[t] # << >> /\ ticket[t].status # "none"
  BY DEF TicketsInv
<1>9. ASSUME NEW s \in Tickets
      PROVE  /\ ticket'[s].status = "none" => debit'[s] = << >>
             /\ ticket'[s].status # "none" => ticket'[s].buyer \in Customers
             /\ Len(debit'[s]) <= MaxDebits
             /\ \A j \in DOMAIN debit'[s] :
                  Len(debit'[s][j].used) <= Len(credit'[ticket'[s].buyer])
  <2>1. ticket'[s].status = "none" => debit'[s] = << >>
    BY <1>6, <1>8 DEF TicketsInv, TicketsOnward
  <2>2. ticket'[s].status # "none" => ticket'[s].buyer \in Customers
    BY DEF TicketsOnward
  <2>3. Len(debit'[s]) <= MaxDebits
    BY <1>7 DEF TicketsInv
  <2>4. ASSUME NEW j \in DOMAIN debit'[s]
        PROVE  Len(debit'[s][j].used) <= Len(credit'[ticket'[s].buyer])
    <3>1. j \in DOMAIN debit[s] /\ debit'[s][j].used = debit[s][j].used
      BY <1>7
    <3>2. debit[s] # << >>
      BY <3>1
    <3> QED
      BY <3>1, <3>2 DEF TicketsInv, TicketsOnward
  <2> QED
    BY <2>1, <2>2, <2>3, <2>4
<1> QED
  BY <1>6, <1>7, <1>9 DEF TicketsInv

\* Transaction p restores the i-th debit of its ticket t.
Restores(p, t, c, i, used) ==
  /\ tx[p].op = "restore" /\ t = tx[p].subject /\ c = ticket[t].buyer
  /\ i \in DOMAIN debit[t] /\ ~debit[t][i].reversed
  /\ used = debit[t][i].used
  /\ credit' = Moved(c, used, 1)
  /\ balance' = [balance EXCEPT ![c] = tx[p].balance + Total(used)]
  /\ debit' = Reversed(t, i)
  /\ TicketsOnward /\ SameBuyers /\ ticket' \in [Tickets -> TicketRow]
  /\ Ends(p, "ok") /\ UNCHANGED <<expired, recharge, gone>>

\* A failed payment that is restored.
LEMMA RestoreLedger ==
  ASSUME LedgerInv, NEW p \in Txs, NEW t, NEW c, NEW i, NEW used,
         Restores(p, t, c, i, used)
  PROVE  LedgerInv'
<1>0. /\ TypeOK /\ TicketsInv /\ TxInv /\ RechargesInv
      /\ CreditsConserved /\ BalanceExplained
  BY DEF LedgerInv
<1>1. /\ t \in Tickets /\ ticket[t].status # "none" /\ c \in Customers
      /\ tx[p].payees = {c}
  BY SubjectIs DEF Restores
<1>2. RechargesOnward
  BY DEF RechargesOnward, Restores
<1>3. \A d \in Customers : balance'[d] = balance[d] \/ d \in tx[p].payees
  BY <1>0, <1>1 DEF TypeOK, Restores
<1>4. Total(used) \in Nat
  <2>1. debit[t] \in Seq(DebitRow) /\ i \in DOMAIN debit[t]
    BY <1>0, <1>1 DEF TypeOK, Restores
  <2>2. debit[t][i] \in DebitRow
    BY <2>1
  <2>3. used \in Seq(0 .. Price)
    BY <2>2 DEF DebitRow, Restores
  <2>4. /\ DOMAIN used = 1 .. Len(used) /\ Len(used) \in Nat
        /\ \A n \in 1 .. Len(used) : used[n] \in Nat
    BY <2>3, PriceAssumption
  <2>5. IsFiniteSet(1 .. Len(used))
    BY <2>4, FS_Interval
  <2>6. SumFunctionOnSet(used, 1 .. Len(used)) \in Nat
    BY <2>4, <2>5, SumType
  <2> QED
    BY <2>4, <2>6 DEF Total, SumFunction
<1>5. overlapped' = overlapped
  BY DEF Restores, Ends
<1>6. Fits(c, used, 1) /\ CreditsConserved' /\ BalanceExplained'
  <2> DEFINE old == tx[p].balance
  <2>1. /\ balance' = [balance EXCEPT ![c] = old + Total(used)]
        /\ c \notin overlapped => old = balance[c]
    BY <1>0, <1>1 DEF TxInv, Claims, Restores
  <2>2. /\ i \in DOMAIN debit[t] /\ ~debit[t][i].reversed
        /\ used = debit[t][i].used /\ c = ticket[t].buyer
        /\ credit' = Moved(c, used, 1)
        /\ debit' = [debit EXCEPT ![t][i].reversed = TRUE] /\ SameBuyers
    BY DEF Restores, Reversed
  <2> HIDE DEF old
  <2> QED
    BY <1>0, <1>1, <1>5, <2>1, <2>2, BooksReversed
<1>7. IsMoved(credit', c, used, 1)
  <2>1. 1 \in {-1, 1}
    OBVIOUS
  <2> QED
    BY <1>0, <1>1, <1>6, <2>1, MovedIs DEF Restores
<1>8. /\ credit' \in [Customers -> Seq(CreditRow)]
      /\ \A d \in Customers :
           /\ Len(credit'[d]) = Len(credit[d])
           /\ DOMAIN credit'[d] = DOMAIN credit[d]
           /\ \A n \in DOMAIN credit[d] :
                credit'[d][n].source = credit[d][n].source
  BY <1>7 DEF IsMoved
<1>9. /\ TicketsInv' /\ debit' \in [Tickets -> Seq(DebitRow)]
      /\ \A s \in Tickets : Len(debit'[s]) = Len(debit[s])
  <2>1. \A d \in Customers : Len(credit'[d]) = Len(credit[d])
    BY <1>8
  <2>2. i \in DOMAIN debit[t] /\ debit' = Reversed(t, i) /\ TicketsOnward
    BY DEF Restores
  <2> QED
    BY <1>0, <1>1, <2>1, <2>2, TicketsReversed
<1>10. TxInv' /\ tx' \in [Txs -> TxRow]
  <2>1. tx[p].op # "none" /\ Ends(p, "ok") /\ TicketsOnward
    BY DEF Restores
  <2> QED
    BY <1>0, <1>2, <1>3, <1>9, <2>1, TxEnds
<1>11. balance' \in [Customers -> Int]
  <2>1. tx[p] \in TxRow /\ balance \in [Customers -> Int]
    BY <1>0 DEF TypeOK
  <2>2. tx[p].balance \in Int
    BY <2>1 DEF TxRow
  <2>3. tx[p].balance + Total(used) \in Int
    BY <1>4, <2>2
  <2>4. balance' = [balance EXCEPT ![c] = tx[p].balance + Total(used)]
    BY DEF Restores
  <2> QED
    BY <2>1, <2>3, <2>4
<1>12. TypeOK'
  <2>1. /\ expired' \in [Customers -> Nat] /\ gone' \subseteq Customers
        /\ \A d \in Customers : expired'[d] <= Len(credit'[d])
        /\ recharge' \in [QRs -> RechargeRow]
        /\ overlapped' \subseteq Customers
        /\ ticket' \in [Tickets -> TicketRow]
    BY <1>0, <1>5, <1>8 DEF TypeOK, Restores
  <2> HIDE <1>0
  <2> QED
    BY <1>8, <1>9, <1>10, <1>11, <2>1 DEF TypeOK
<1>13. RechargesInv'
  BY <1>0, <1>2, <1>8, RechargesStay
<1> QED
  BY <1>6, <1>9, <1>10, <1>12, <1>13 DEF LedgerInv

\* restoreCreditsFromExpiredTicket ends.
LEMMA EndRestoreLedger ==
  ASSUME LedgerInv, NEW p \in Txs, EndRestore(p)
  PROVE  LedgerInv'
<1> DEFINE t == tx[p].subject
           c == ticket[t].buyer
<1>1. /\ tx[p].op = "restore" /\ Ends(p, "ok")
      /\ UNCHANGED <<expired, recharge, gone>>
      /\ \/ UNCHANGED <<credit, balance, debit>>
         \/ \E i \in DOMAIN debit[t] :
              /\ ~debit[t][i].reversed
              /\ credit' = Moved(c, debit[t][i].used, 1)
              /\ balance' = [balance EXCEPT ![c] =
                               tx[p].balance + Total(debit[t][i].used)]
              /\ debit' = Reversed(t, i)
      /\ \/ ticket' = ticket
         \/ ticket' = [ticket EXCEPT ![t].status =
                         IF @ = "open" THEN "ended" ELSE @]
  BY DEF EndRestore, IsReversed, Reversed
<1>2. t \in Tickets /\ ticket[t].status # "none" /\ TypeOK /\ TicketsInv
  BY <1>1, SubjectIs DEF LedgerInv
<1>3. TicketsOnward /\ SameBuyers /\ ticket' \in [Tickets -> TicketRow]
  <2>1. CASE ticket' = ticket
    BY <1>2, <2>1 DEF TicketsOnward, SameBuyers, TicketsInv, TypeOK
  <2>2. CASE ticket' = [ticket EXCEPT ![t].status =
                          IF @ = "open" THEN "ended" ELSE @]
    <3> DEFINE s == IF ticket[t].status = "open" THEN "ended"
                    ELSE ticket[t].status
    <3>1. s \in TicketStatus \ {"none"}
      <4>1. ticket[t] \in TicketRow
        BY <1>2 DEF TypeOK
      <4> QED
        BY <1>2, <4>1 DEF TicketRow, TicketStatus
    <3>2. ticket' = [ticket EXCEPT ![t].status = s]
      BY <2>2
    <3> HIDE DEF s, t
    <3> QED
      BY <1>2, <3>1, <3>2, StatusOnward
  <2> QED
    BY <1>1, <2>1, <2>2
<1>4. CASE UNCHANGED <<credit, balance, debit>>
  <2>1. RechargesOnward /\ recharge' \in [QRs -> RechargeRow]
    BY <1>1, <1>2 DEF RechargesOnward, TypeOK
  <2> QED
    BY <1>1, <1>3, <1>4, <2>1, EndsIdle
<1>5. ASSUME NEW i \in DOMAIN debit[t], ~debit[t][i].reversed,
             credit' = Moved(c, debit[t][i].used, 1),
             balance' = [balance EXCEPT ![c] =
                           tx[p].balance + Total(debit[t][i].used)],
             debit' = Reversed(t, i)
      PROVE  LedgerInv'
  <2>1. Restores(p, t, c, i, debit[t][i].used)
    BY <1>1, <1>3, <1>5 DEF Restores
  <2> HIDE DEF t, c
  <2> QED
    BY <2>1, RestoreLedger
<1> QED
  BY <1>1, <1>4, <1>5

-----------------------------------------------------------------------------
(* The theorems.                                                           *)

\* At first there is nothing to add up.
LEMMA InitLedger == Init => LedgerInv
<1> SUFFICES ASSUME Init PROVE LedgerInv
  OBVIOUS
<1>1. TypeOK
  <2>1. << >> \in Seq(CreditRow) /\ << >> \in Seq(DebitRow) /\ Len(<< >>) = 0
    OBVIOUS
  <2>2. \A p \in Txs : tx[p] \in TxRow
    BY DEF Init, Idle, TxRow, Op
  <2>3. \A q \in QRs : recharge[q] \in RechargeRow
    BY PriceAssumption DEF Init, RechargeRow, Amount
  <2>4. \A t \in Tickets : ticket[t] \in TicketRow
    BY PriceAssumption DEF Init, TicketRow, TicketStatus
  <2>5. /\ tx \in [Txs -> TxRow] /\ recharge \in [QRs -> RechargeRow]
        /\ ticket \in [Tickets -> TicketRow]
    BY <2>2, <2>3, <2>4 DEF Init
  <2> QED
    BY <2>1, <2>5 DEF Init, TypeOK
<1>2. TicketsInv
  BY BoundAssumption DEF Init, TicketsInv
<1>3. TxInv
  BY DEF Init, TxInv, Claims, Apart, Idle
<1>4. RechargesInv
  BY DEF Init, RechargesInv
<1>5. CreditsConserved
  BY DEF Init, CreditsConserved
<1>6. BalanceExplained
  <2>1. ASSUME NEW c \in Customers
        PROVE  balance[c] = SumFunction(Amounts(c)) - SumFunction(Worths(c))
    <3>1. DOMAIN Amounts(c) = {} /\ DOMAIN Worths(c) = {}
      BY DEF Init, Amounts, Worths, Debits
    <3>2. /\ SumFunctionOnSet(Amounts(c), {}) = 0
          /\ SumFunctionOnSet(Worths(c), {}) = 0
      BY SumFirst, FS_EmptySet
    <3> QED
      BY <3>1, <3>2 DEF SumFunction, Init
  <2> QED
    BY <2>1 DEF BalanceExplained, Amounts, Worths, Worth
<1> QED
  BY <1>1, <1>2, <1>3, <1>4, <1>5, <1>6 DEF LedgerInv

\* Every step keeps the ledger.
LEMMA NextLedger == LedgerInv /\ [Next]_vars => LedgerInv'
<1> SUFFICES ASSUME LedgerInv, [Next]_vars PROVE LedgerInv'
  OBVIOUS
<1>1. CASE \E q \in QRs, C \in SUBSET Customers, a \in Amount :
             CreateRecharge(q, C, a)
  BY <1>1, CreateRechargeLedger
<1>2. CASE \E p \in Txs, q \in QRs : StartRecharge(p, q)
  BY <1>2, StartRechargeLedger
<1>3. CASE \E p \in Txs : EndRecharge(p)
  BY <1>3, EndRechargeLedger
<1>4. CASE \E t \in Tickets, c \in Customers : Reserve(t, c)
  BY <1>4, ReserveLedger
<1>5. CASE \E p \in Txs, t \in Tickets : StartConsume(p, t)
  BY <1>5, StartConsumeLedger
<1>6. CASE \E p \in Txs : EndConsume(p)
  BY <1>6, EndConsumeLedger
<1>7. CASE \E t \in Tickets : Sell(t)
  BY <1>7, SellLedger
<1>8. CASE \E p \in Txs, t \in Tickets : StartRestore(p, t)
  BY <1>8, StartRestoreLedger
<1>9. CASE \E p \in Txs : EndRestore(p)
  BY <1>9, EndRestoreLedger
<1>10. CASE \E p \in Txs, t \in Tickets : StartRefundApp(p, t)
  BY <1>10, StartRefundAppLedger
<1>11. CASE \E p \in Txs, t \in Tickets : StartRefundTravel(p, t)
  BY <1>11, StartRefundTravelLedger
<1>12. CASE \E p \in Txs : EndRefund(p)
  BY <1>12, EndRefundLedger
<1>13. CASE \E c \in Customers : ExpireCredit(c)
  BY <1>13, ExpireCreditLedger
<1>14. CASE \E c \in Customers : DeleteAccount(c)
  BY <1>14, DeleteAccountLedger
<1>15. CASE UNCHANGED vars
  <2>1. /\ TicketsOnward /\ RechargesOnward /\ TypeOK'
        /\ UNCHANGED <<credit, balance, debit, tx, overlapped>>
    BY <1>15
    DEF LedgerInv, TypeOK, TicketsInv, TicketsOnward, RechargesOnward, vars
  <2> QED
    BY <2>1, RowsOnly
<1> QED
  BY <1>1, <1>2, <1>3, <1>4, <1>5, <1>6, <1>7, <1>8, <1>9, <1>10, <1>11,
     <1>12, <1>13, <1>14, <1>15 DEF Next

\* The ledger's invariant holds in every reachable state.
THEOREM LedgerHolds == Spec => []LedgerInv
<1>1. Init => LedgerInv
  BY InitLedger
<1>2. LedgerInv /\ [Next]_vars => LedgerInv'
  BY NextLedger
<1> QED
  BY <1>1, <1>2, PTL DEF Spec

\* Every wallet, ticket, recharge and transaction stays well typed; in
\* particular no credit ever has less than nothing or more than a price left.
THEOREM LedgerTyped == Spec => []TypeOK
<1>1. LedgerInv => TypeOK
  BY DEF LedgerInv
<1> QED
  BY <1>1, LedgerHolds, PTL

\* No interleaving of payments, failed payments, refunds, recharges and
\* expiries spends a credit twice or gives back more than was taken from it.
THEOREM LedgerConserved == Spec => []CreditsConserved
<1>1. LedgerInv => CreditsConserved
  BY DEF LedgerInv
<1> QED
  BY <1>1, LedgerHolds, PTL

\* The balance of a wallet on which no two transactions have overlapped is
\* what was credited less what is debited.
THEOREM LedgerExplained == Spec => []BalanceExplained
<1>1. LedgerInv => BalanceExplained
  BY DEF LedgerInv
<1> QED
  BY <1>1, LedgerHolds, PTL

\* A set whose elements are all equal has at most one.
LEMMA AtMostOne ==
  ASSUME NEW S, \A x, y \in S : x = y
  PROVE  Cardinality(S) <= 1
<1>1. CASE S = {}
  BY <1>1, FS_EmptySet
<1>2. ASSUME NEW x \in S  PROVE Cardinality(S) <= 1
  <2>1. S = {x}
    BY <1>2
  <2>2. Cardinality({x}) = 1
    BY FS_Singleton
  <2> QED
    BY <2>1, <2>2
<1> QED
  BY <1>1, <1>2

\* However often the bank notifies a recharge, it is credited once, and only
\* together with the PAID PaymentQR.
THEOREM LedgerCreditedOnce == Spec => []RechargeCreditedOnce
<1>1. LedgerInv => RechargeCreditedOnce
  <2> SUFFICES ASSUME RechargesInv, NEW q \in QRs, NEW rows,
                      rows = {r \in
                                Customers \X
                                  (1 .. 2 * Cardinality(QRs \cup Tickets)) :
                                r[2] \in DOMAIN credit[r[1]]
                                  /\ credit[r[1]][r[2]].source = q}
               PROVE  /\ Cardinality(rows) <= 1
                      /\ rows # {} => recharge[q].status = "paid"
    BY DEF LedgerInv, RechargeCreditedOnce
  <2>1. ASSUME NEW r \in rows
        PROVE  /\ r = <<r[1], r[2]>> /\ r[1] \in Customers
               /\ r[2] \in DOMAIN credit[r[1]]
               /\ credit[r[1]][r[2]].source = q
    OBVIOUS
  <2>2. ASSUME NEW r \in rows, NEW s \in rows  PROVE r = s
    <3>1. r[1] = s[1] /\ r[2] = s[2]
      BY <2>1 DEF RechargesInv
    <3> QED
      BY <2>1, <3>1
  <2>3. rows # {} => recharge[q].status = "paid"
    BY <2>1 DEF RechargesInv
  <2>4. Cardinality(rows) <= 1
    BY <2>2, AtMostOne
  <2> QED
    BY <2>3, <2>4
<1> QED
  BY <1>1, LedgerHolds, PTL

\* What a payment that commits leaves in the credits.
LEMMA ConsumeSpends ==
  ASSUME LedgerInv, NEW p \in Txs, EndConsume(p), NEW t \in Tickets,
         Len(debit'[t]) > Len(debit[t]), NEW c, c = ticket[t].buyer,
         NEW used, used = debit'[t][Len(debit'[t])].used
  PROVE  \A i, j \in DOMAIN used :
           i < j /\ i > expired[c] /\ used[j] > 0
             => credit'[c][i].remaining = 0
<1>0. TypeOK
  BY DEF LedgerInv
<1> DEFINE part == ticket[t].part
           spent == OldestFirst(c, part)
<1>1. /\ debit \in [Tickets -> Seq(DebitRow)] /\ debit[t] \in Seq(DebitRow)
      /\ Len(debit[t]) \in Nat
  BY <1>0 DEF TypeOK
<1>2. /\ tx[p].op = "consume" /\ t = tx[p].subject
      /\ ~(Available(c) < part) /\ credit' = Moved(c, spent, -1)
      /\ debit' = [debit EXCEPT ![t] =
                     Append(@, [used |-> spent, reversed |-> FALSE])]
  <2>1. debit' # debit
    BY <1>1
  <2>2. t = tx[p].subject
    BY <1>1 DEF EndConsume
  <2> QED
    BY <2>1, <2>2 DEF EndConsume
<1>3. c \in Customers
  BY <1>2, SubjectIs
<1>4. part \in Nat /\ part <= Available(c)
  <2>1. ticket[t] \in TicketRow
    BY <1>0 DEF TypeOK
  <2>2. part \in Nat
    BY <2>1, PriceAssumption DEF TicketRow
  <2>3. Available(c) \in Nat
    BY <1>0, <1>3, AvailableType
  <2> QED
    BY <1>2, <2>2, <2>3
<1>5. used = spent
  <2> DEFINE row == [used |-> spent, reversed |-> FALSE]
  <2>1. row.used = spent
    OBVIOUS
  <2> HIDE DEF row, spent
  <2>2. debit'[t] = Append(debit[t], row)
    BY <1>1, <1>2 DEF row
  <2>3. debit'[t][Len(debit'[t])] = row
    BY <1>1, <2>2
  <2> QED
    BY <2>1, <2>3
<1> HIDE DEF part, spent
<1>6. /\ spent \in [DOMAIN credit[c] -> Nat]
      /\ \A i \in DOMAIN credit[c] :
           credit[c][i].remaining - spent[i] \in 0 .. Price
  BY <1>0, <1>3, <1>4, GivesWithin DEF spent
<1>7. IsMoved(credit', c, spent, -1)
  <2>1. Fits(c, spent, -1)
    BY <1>6 DEF Fits
  <2>2. -1 \in {-1, 1}
    OBVIOUS
  <2> QED
    BY <1>0, <1>2, <1>3, <2>1, <2>2, MovedIs
<1>8. ASSUME NEW i \in DOMAIN spent, NEW j \in DOMAIN spent,
             i < j, i > expired[c], spent[j] > 0
      PROVE  credit'[c][i].remaining = 0
  <2>1. i \in DOMAIN credit[c] /\ j \in DOMAIN credit[c]
    BY <1>6
  <2>2. spent[i] = Spendable(c)[i]
    BY <1>0, <1>3, <1>4, <1>8, <2>1, OldestFirstSpends DEF spent
  <2>3. /\ Spendable(c)[i] = credit[c][i].remaining
        /\ credit[c][i].remaining \in Nat
    BY <1>0, <1>3, <1>8, <2>1, SpendableType
  <2>4. credit'[c][i].remaining = credit[c][i].remaining - spent[i]
    BY <1>7, <1>8, <2>1 DEF IsMoved
  <2> QED
    BY <2>2, <2>3, <2>4
<1> QED
  BY <1>5, <1>8

\* Only consumeForTicket adds a DEBIT row.
LEMMA OnlyConsume ==
  ASSUME LedgerInv, [Next]_vars, NEW t \in Tickets,
         Len(debit'[t]) > Len(debit[t])
  PROVE  \E p \in Txs : EndConsume(p)
<1>1. Len(debit[t]) \in Nat
  BY DEF LedgerInv, TypeOK
<1>2. debit' # debit
  BY <1>1
<1>3. ASSUME NEW p \in Txs, EndRestore(p)  PROVE FALSE
  <2>1. PICK i \in DOMAIN debit[tx[p].subject] :
          debit' = Reversed(tx[p].subject, i)
    BY <1>2, <1>3 DEF EndRestore, Reversed
  <2>2. tx[p].subject \in Tickets
    BY <1>3, SubjectIs DEF EndRestore
  <2>3. Len(debit'[t]) = Len(debit[t])
    <3> DEFINE s == tx[p].subject
               r == [debit[s] EXCEPT ![i] = [@ EXCEPT !.reversed = TRUE]]
    <3>1. debit \in [Tickets -> Seq(DebitRow)] /\ debit[s] \in Seq(DebitRow)
      BY <2>2 DEF LedgerInv, TypeOK
    <3>2. debit' = [debit EXCEPT ![s] = r]
      BY <2>1 DEF Reversed
    <3>3. DOMAIN r = DOMAIN debit[s] /\ Len(r) = Len(debit[s])
      BY <3>1
    <3> HIDE DEF r, s
    <3> QED
      BY <3>1, <3>2, <3>3
  <2> QED
    BY <1>1, <2>3
<1> QED
  BY <1>2, <1>3
  DEF Next, vars, CreateRecharge, StartRecharge, EndRecharge, Reserve,
      StartConsume, Sell, StartRestore, StartRefundApp, StartRefundTravel,
      EndRefund, ExpireCredit, DeleteAccount

\* A payment leaves money in a credit only when it has emptied every credit
\* that expires sooner.
THEOREM OldestFirstAlways == Spec => OldestSpentFirst
<1>1. LedgerInv /\ [Next]_vars =>
        [\A t \in Tickets : Len(debit'[t]) > Len(debit[t]) =>
           LET c == ticket[t].buyer
               used == debit'[t][Len(debit'[t])].used
           IN  \A i, j \in DOMAIN used :
                 i < j /\ i > expired[c] /\ used[j] > 0
                   => credit'[c][i].remaining = 0]_vars
  <2> SUFFICES ASSUME LedgerInv, [Next]_vars, NEW t \in Tickets,
                      Len(debit'[t]) > Len(debit[t])
               PROVE  LET c == ticket[t].buyer
                          used == debit'[t][Len(debit'[t])].used
                      IN  \A i, j \in DOMAIN used :
                            i < j /\ i > expired[c] /\ used[j] > 0
                              => credit'[c][i].remaining = 0
    OBVIOUS
  <2>1. PICK p \in Txs : EndConsume(p)
    BY OnlyConsume
  <2> QED
    BY <2>1, ConsumeSpends
<1> QED
  BY <1>1, LedgerHolds, PTL DEF Spec, OldestSpentFirst
===============================================================================
