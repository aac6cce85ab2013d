----------------------------- MODULE HelperProofs -----------------------------
(***************************************************************************)
(* Facts that the components' proofs share: what a sum over a finite       *)
(* domain returns and how it changes with its terms, that integer_sqrt     *)
(* finds the root, how day_of_month goes from one day to the next, and     *)
(* that it is the civil calendar's.                                        *)
(* Induction over data is on the least counterexample: strict inclusion is *)
(* well founded on the subsets of a finite set, and < on the numbers.      *)
(***************************************************************************)
EXTENDS Voting, FiniteSetTheorems, WellFoundedInduction, TLAPS

\* Induction over the subsets of a finite set.
LEMMA SubsetInduction ==
    ASSUME NEW S, IsFiniteSet(S), NEW Good, {} \in Good,
           \A T \in SUBSET S : T # {} /\ (\A x \in T : T \ {x} \in Good) => T \in Good
    PROVE  SUBSET S \subseteq Good
<1> DEFINE Bad == (SUBSET S) \ Good
<1> SUFFICES ASSUME Bad # {} PROVE FALSE
  OBVIOUS
<1>1. Bad \subseteq FiniteSubsetsOf(S)
  BY FS_FiniteSubsetsOfFinite
<1>2. PICK T \in Bad : \A U \in Bad : ~ (<<U, T>> \in StrictSubsetOrdering(S))
  BY <1>1, FS_StrictSubsetOrderingWellFounded, WFMin
<1>3. ASSUME NEW x \in T PROVE T \ {x} \in Good
  <2>1. <<T \ {x}, T>> \in StrictSubsetOrdering(S)
    BY DEF StrictSubsetOrdering
  <2>2. QED
    BY <2>1, <1>2
<1>4. QED
  BY <1>2, <1>3

----------------------------------------------------------------------------
(* The recursion behind a sum. *)

\* The element a sum takes off first.
Picked(s) == CHOOSE x \in s : TRUE

\* g gives the sum of f over every subset of S.
IsSum(f, S, g) ==
    g = [s \in SUBSET S |-> IF s = {} THEN 0 ELSE f[Picked(s)] + g[s \ {Picked(s)}]]

LEMMA SumUnfold ==
    ASSUME NEW f, NEW S
    PROVE  SumFunctionOnSet(f, S) = (CHOOSE g : IsSum(f, S, g))[S]
  BY DEF SumFunctionOnSet, FoldFunctionOnSet, MapThenFoldSet, IsSum, Picked

LEMMA PickIn == ASSUME NEW s, s # {} PROVE Picked(s) \in s
  BY DEF Picked

LEMMA SumStep ==
    ASSUME NEW f, NEW S, NEW g, IsSum(f, S, g), NEW s \in SUBSET S
    PROVE  g[s] = IF s = {} THEN 0 ELSE f[Picked(s)] + g[s \ {Picked(s)}]
  BY DEF IsSum

\* Two such functions agree on every set whose terms they agree on.
LEMMA SumUnique ==
    ASSUME NEW e, NEW f, NEW S, NEW T, NEW g, NEW h, IsSum(e, S, g), IsSum(f, T, h), IsFiniteSet(S),
           NEW R, R \subseteq S, R \subseteq T, \A x \in R : e[x] = f[x]
    PROVE  g[R] = h[R]
<1> DEFINE Good == {s \in SUBSET R : g[s] = h[s]}
<1>1. IsFiniteSet(R)
  BY FS_Subset
<1>2. {} \in Good
  BY SumStep
<1>3. ASSUME NEW s \in SUBSET R, s # {}, \A x \in s : s \ {x} \in Good PROVE s \in Good
  <2>1. Picked(s) \in s
    BY <1>3, PickIn
  <2>2. g[s \ {Picked(s)}] = h[s \ {Picked(s)}] /\ e[Picked(s)] = f[Picked(s)]
    BY <2>1, <1>3
  <2>3. g[s] = e[Picked(s)] + g[s \ {Picked(s)}]
    BY <1>3, SumStep
  <2>4. h[s] = f[Picked(s)] + h[s \ {Picked(s)}]
    BY <1>3, SumStep
  <2>5. QED
    BY <2>2, <2>3, <2>4
<1> HIDE DEF Good
<1>4. SUBSET R \subseteq Good
  BY <1>1, <1>2, <1>3, SubsetInduction
<1>5. QED
  BY <1>4 DEF Good

\* There is one: the subsets of T get theirs from those of T without an element.
LEMMA SumExists ==
    ASSUME NEW f, NEW S, IsFiniteSet(S)
    PROVE  \E g : IsSum(f, S, g)
<1> DEFINE Good == {T \in SUBSET S : \E g : IsSum(f, T, g)}
<1>1. {} \in Good
  <2> DEFINE zero == [s \in SUBSET {} |-> 0]
  <2>1. IsSum(f, {}, zero)
    BY DEF IsSum
  <2>2. QED
    BY <2>1
<1>2. ASSUME NEW T \in SUBSET S, T # {}, \A x \in T : T \ {x} \in Good PROVE T \in Good
  <2> DEFINE part(x) == CHOOSE g : IsSum(f, T \ {x}, g)
             whole == [s \in SUBSET T |-> IF s = {} THEN 0 ELSE f[Picked(s)] + part(Picked(s))[s \ {Picked(s)}]]
  <2>1. ASSUME NEW x \in T PROVE IsSum(f, T \ {x}, part(x))
    <3>1. \E g : IsSum(f, T \ {x}, g)
      BY <1>2
    <3>2. QED
      BY <3>1
  <2> HIDE DEF part
  <2>2. ASSUME NEW s \in SUBSET T, s # {} 
        PROVE whole[s] = f[Picked(s)] + whole[s \ {Picked(s)}]
    <3> DEFINE p == Picked(s)
               t == s \ {p}
               q == Picked(t)
    <3>1. p \in s
      BY <2>2, PickIn
    <3>2. whole[s] = f[p] + part(p)[t]
      BY <2>2
    <3>3. IsSum(f, T \ {p}, part(p)) /\ t \in SUBSET (T \ {p})
      BY <3>1, <2>1
    <3>4. t # {} => q \in t
      BY PickIn
    <3>5. whole[t] = IF t = {} THEN 0 ELSE f[q] + part(q)[t \ {q}]
      OBVIOUS
    <3>6. t # {} => IsSum(f, T \ {q}, part(q))
      BY <3>4, <2>1
    <3>7. part(p)[t] = IF t = {} THEN 0 ELSE f[Picked(t)] + part(p)[t \ {Picked(t)}]
      <4> HIDE DEF p, t, q, whole
      <4>1. QED
        BY <3>3, SumStep
    <3>8. t # {} => part(p)[t \ {q}] = part(q)[t \ {q}]
      <4>1. IsFiniteSet(T \ {p})
        BY FS_Subset
      <4>2. t \ {q} \subseteq T \ {p} /\ t \ {q} \subseteq T \ {q}
        BY <3>3
      <4> HIDE DEF p, t, q, whole
      <4>3. QED
        BY <4>1, <4>2, <3>3, <3>6, SumUnique
    <3>9. QED
      BY <3>2, <3>5, <3>7, <3>8
  <2>3. whole = [s \in SUBSET T |-> IF s = {} THEN 0 ELSE f[Picked(s)] + whole[s \ {Picked(s)}]]
    <3>1. \A s \in SUBSET T : whole[s] = IF s = {} THEN 0 ELSE f[Picked(s)] + whole[s \ {Picked(s)}]
      BY <2>2
    <3> DEFINE again == [s \in SUBSET T |-> IF s = {} THEN 0 ELSE f[Picked(s)] + whole[s \ {Picked(s)}]]
    <3>2. whole = [s \in SUBSET T |-> whole[s]]
      OBVIOUS
    <3> HIDE DEF whole
    <3>3. QED
      BY <3>1, <3>2
  <2>4. IsSum(f, T, whole)
    BY <2>3 DEF IsSum
  <2>5. QED
    BY <2>4
<1> HIDE DEF Good
<1>3. SUBSET S \subseteq Good
  BY <1>1, <1>2, SubsetInduction
<1>4. QED
  BY <1>3 DEF Good

LEMMA SumIsSum ==
    ASSUME NEW f, NEW S, IsFiniteSet(S)
    PROVE  \E g : IsSum(f, S, g) /\ SumFunctionOnSet(f, S) = g[S]
  BY SumExists, SumUnfold

\* The sums over the subsets of a finite set come from one function.
LEMMA SumOfSubset ==
    ASSUME NEW f, NEW S, IsFiniteSet(S), NEW g, IsSum(f, S, g), NEW T \in SUBSET S
    PROVE  SumFunctionOnSet(f, T) = g[T]
<1>1. IsFiniteSet(T)
  BY FS_Subset
<1>2. PICK h : IsSum(f, T, h) /\ SumFunctionOnSet(f, T) = h[T]
  BY <1>1, SumIsSum
<1>3. h[T] = g[T]
  BY <1>1, <1>2, SumUnique
<1>4. QED
  BY <1>2, <1>3

LEMMA SumAgree ==
    ASSUME NEW e, NEW f, NEW S, IsFiniteSet(S), \A x \in S : e[x] = f[x]
    PROVE  SumFunctionOnSet(e, S) = SumFunctionOnSet(f, S)
<1>1. PICK g : IsSum(e, S, g) /\ SumFunctionOnSet(e, S) = g[S]
  BY SumIsSum
<1>2. PICK h : IsSum(f, S, h) /\ SumFunctionOnSet(f, S) = h[S]
  BY SumIsSum
<1>3. g[S] = h[S]
  BY <1>1, <1>2, SumUnique
<1>4. QED
  BY <1>1, <1>2, <1>3

LEMMA SumOfNothing ==
    ASSUME NEW f
    PROVE  SumFunctionOnSet(f, {}) = 0
<1>1. PICK g : IsSum(f, {}, g) /\ SumFunctionOnSet(f, {}) = g[{}]
  BY FS_EmptySet, SumIsSum
<1>2. QED
  BY <1>1, SumStep

LEMMA SumPicked ==
    ASSUME NEW f, NEW S, IsFiniteSet(S), S # {}
    PROVE  SumFunctionOnSet(f, S) = f[Picked(S)] + SumFunctionOnSet(f, S \ {Picked(S)})
<1>1. PICK g : IsSum(f, S, g) /\ SumFunctionOnSet(f, S) = g[S]
  BY SumIsSum
<1>2. g[S] = f[Picked(S)] + g[S \ {Picked(S)}]
  BY <1>1, SumStep
<1>3. SumFunctionOnSet(f, S \ {Picked(S)}) = g[S \ {Picked(S)}]
  BY <1>1, SumOfSubset
<1>4. QED
  BY <1>1, <1>2, <1>3

LEMMA SumOnSetInt ==
    ASSUME NEW f, NEW S, IsFiniteSet(S), \A x \in S : f[x] \in Int
    PROVE  SumFunctionOnSet(f, S) \in Int
<1> DEFINE Good == {T \in SUBSET S : SumFunctionOnSet(f, T) \in Int}
<1>1. {} \in Good
  BY SumOfNothing
<1>2. ASSUME NEW T \in SUBSET S, T # {}, \A x \in T : T \ {x} \in Good PROVE T \in Good
  <2>1. IsFiniteSet(T) /\ Picked(T) \in T
    BY <1>2, FS_Subset, PickIn
  <2>2. SumFunctionOnSet(f, T) = f[Picked(T)] + SumFunctionOnSet(f, T \ {Picked(T)})
    BY <1>2, <2>1, SumPicked
  <2>3. QED
    BY <1>2, <2>1, <2>2
<1> HIDE DEF Good
<1>3. SUBSET S \subseteq Good
  BY <1>1, <1>2, SubsetInduction
<1>4. QED
  BY <1>3 DEF Good

\* A sum does not depend on the order in which its terms are picked.
LEMMA SumWithout ==
    ASSUME NEW f, NEW S, IsFiniteSet(S), \A x \in S : f[x] \in Int, NEW x \in S
    PROVE  SumFunctionOnSet(f, S) = f[x] + SumFunctionOnSet(f, S \ {x})
<1> DEFINE Good == {T \in SUBSET S : \A y \in T :
                       SumFunctionOnSet(f, T) = f[y] + SumFunctionOnSet(f, T \ {y})}
<1>1. {} \in Good
  OBVIOUS
<1>2. ASSUME NEW T \in SUBSET S, T # {}, \A y \in T : T \ {y} \in Good PROVE T \in Good
  <2> SUFFICES ASSUME NEW y \in T
               PROVE  SumFunctionOnSet(f, T) = f[y] + SumFunctionOnSet(f, T \ {y})
    OBVIOUS
  <2> DEFINE p == Picked(T)
  <2>1. IsFiniteSet(T) /\ p \in T
    BY <1>2, FS_Subset, PickIn
  <2>2. SumFunctionOnSet(f, T) = f[p] + SumFunctionOnSet(f, T \ {p})
    BY <1>2, <2>1, SumPicked
  <2> HIDE DEF p
  <2>3. CASE y = p
    BY <2>2, <2>3
  <2>4. CASE y # p
    <3>1. SumFunctionOnSet(f, T \ {p}) = f[y] + SumFunctionOnSet(f, (T \ {p}) \ {y})
      BY <1>2, <2>1, <2>4
    <3>2. SumFunctionOnSet(f, T \ {y}) = f[p] + SumFunctionOnSet(f, (T \ {y}) \ {p})
      BY <1>2, <2>1, <2>4
    <3> DEFINE rest == SumFunctionOnSet(f, (T \ {y}) \ {p})
    <3>3. SumFunctionOnSet(f, (T \ {p}) \ {y}) = rest
      <4>1. (T \ {p}) \ {y} = (T \ {y}) \ {p}
        OBVIOUS
      <4>2. QED
        BY <4>1
    <3>4. rest \in Int
      <4>1. IsFiniteSet((T \ {y}) \ {p})
        BY FS_Subset
      <4>2. QED
        BY <4>1, SumOnSetInt
    <3>5. f[p] \in Int /\ f[y] \in Int
      BY <2>1
    <3>6. \A a, b, c \in Int : a + (b + c) = b + (a + c)
      OBVIOUS
    <3>7. f[p] + (f[y] + rest) = f[y] + (f[p] + rest)
      BY <3>4, <3>5, <3>6
    <3> HIDE DEF rest
    <3>8. QED
      BY <2>2, <3>1, <3>2, <3>3, <3>7, Zenon
  <2>5. QED
    BY <2>3, <2>4
<1> HIDE DEF Good
<1>3. SUBSET S \subseteq Good
  BY <1>1, <1>2, SubsetInduction
<1>4. QED
  BY <1>3 DEF Good

----------------------------------------------------------------------------
(* The sum of a whole function. *)

LEMMA SumType ==
    ASSUME NEW D, IsFiniteSet(D), NEW f \in [D -> Int]
    PROVE  SumFunction(f) \in Int
  BY SumOnSetInt DEF SumFunction

\* One term changed: the sum changes by as much.
LEMMA SumChanged ==
    ASSUME NEW D, IsFiniteSet(D), NEW f \in [D -> Int], NEW g \in [D -> Int],
           NEW x \in D, \A y \in D \ {x} : g[y] = f[y]
    PROVE  SumFunction(g) = SumFunction(f) - f[x] + g[x]
<1>1. SumFunctionOnSet(f, D) = f[x] + SumFunctionOnSet(f, D \ {x})
  BY SumWithout
<1>2. SumFunctionOnSet(g, D) = g[x] + SumFunctionOnSet(g, D \ {x})
  BY SumWithout
<1>3. IsFiniteSet(D \ {x})
  BY FS_RemoveElement
<1>4. SumFunctionOnSet(f, D \ {x}) = SumFunctionOnSet(g, D \ {x})
  BY <1>3, SumAgree
<1>5. SumFunctionOnSet(f, D \ {x}) \in Int
  BY <1>3, SumOnSetInt
<1>6. f[x] \in Int /\ g[x] \in Int
  OBVIOUS
<1>7. QED
  BY <1>1, <1>2, <1>4, <1>5, <1>6 DEF SumFunction

\* Terms that do not fall do not let the sum fall.
LEMMA SumMonotone ==
    ASSUME NEW D, IsFiniteSet(D), NEW f \in [D -> Int], NEW g \in [D -> Int],
           \A x \in D : f[x] <= g[x]
    PROVE  SumFunction(f) <= SumFunction(g)
<1> DEFINE Good == {T \in SUBSET D : SumFunctionOnSet(f, T) <= SumFunctionOnSet(g, T)}
<1>1. {} \in Good
  BY SumOfNothing
<1>2. ASSUME NEW T \in SUBSET D, T # {}, \A x \in T : T \ {x} \in Good PROVE T \in Good
  <2> DEFINE p == Picked(T)
             rest == T \ {p}
  <2>1. IsFiniteSet(T) /\ p \in T /\ IsFiniteSet(rest)
    BY <1>2, FS_Subset, PickIn
  <2>2. /\ SumFunctionOnSet(f, T) = f[p] + SumFunctionOnSet(f, rest)
        /\ SumFunctionOnSet(g, T) = g[p] + SumFunctionOnSet(g, rest)
    BY <1>2, <2>1, SumPicked
  <2>3. SumFunctionOnSet(f, rest) \in Int /\ SumFunctionOnSet(g, rest) \in Int
    BY <2>1, SumOnSetInt
  <2>4. f[p] <= g[p] /\ f[p] \in Int /\ g[p] \in Int
    BY <2>1
  <2>5. SumFunctionOnSet(f, rest) <= SumFunctionOnSet(g, rest)
    BY <1>2, <2>1
  <2>6. QED
    BY <2>2, <2>3, <2>4, <2>5
<1> HIDE DEF Good
<1>3. SUBSET D \subseteq Good
  BY <1>1, <1>2, SubsetInduction
<1>4. QED
  BY <1>3 DEF Good, SumFunction

\* A factor of all terms is a factor of the sum.
LEMMA SumTimes ==
    ASSUME NEW D, IsFiniteSet(D), NEW f \in [D -> Int], NEW g \in [D -> Int], NEW c \in Int,
           \A x \in D : g[x] = c * f[x]
    PROVE  SumFunction(g) = c * SumFunction(f)
<1> DEFINE Good == {T \in SUBSET D : SumFunctionOnSet(g, T) = c * SumFunctionOnSet(f, T)}
<1>1. {} \in Good
  BY SumOfNothing
<1>2. ASSUME NEW T \in SUBSET D, T # {}, \A x \in T : T \ {x} \in Good PROVE T \in Good
  <2> DEFINE p == Picked(T)
             rest == T \ {p}
  <2>1. IsFiniteSet(T) /\ p \in T /\ IsFiniteSet(rest)
    BY <1>2, FS_Subset, PickIn
  <2>2. /\ SumFunctionOnSet(f, T) = f[p] + SumFunctionOnSet(f, rest)
        /\ SumFunctionOnSet(g, T) = g[p] + SumFunctionOnSet(g, rest)
    BY <1>2, <2>1, SumPicked
  <2>3. SumFunctionOnSet(f, rest) \in Int
    BY <2>1, SumOnSetInt
  <2>4. g[p] = c * f[p] /\ f[p] \in Int
    BY <2>1
  <2>5. SumFunctionOnSet(g, rest) = c * SumFunctionOnSet(f, rest)
    BY <1>2, <2>1
  <2> HIDE DEF p, rest
  <2>6. c * f[p] + c * SumFunctionOnSet(f, rest) = c * (f[p] + SumFunctionOnSet(f, rest))
    BY <2>3, <2>4
  <2>7. QED
    BY <2>2, <2>4, <2>5, <2>6
<1> HIDE DEF Good
<1>3. SUBSET D \subseteq Good
  BY <1>1, <1>2, SubsetInduction
<1>4. QED
  BY <1>3 DEF Good, SumFunction

LEMMA SumOfZeros ==
    ASSUME NEW D, IsFiniteSet(D), NEW f \in [D -> Int], \A x \in D : f[x] = 0
    PROVE  SumFunction(f) = 0
<1> DEFINE Good == {T \in SUBSET D : SumFunctionOnSet(f, T) = 0}
<1>1. {} \in Good
  BY SumOfNothing
<1>2. ASSUME NEW T \in SUBSET D, T # {}, \A x \in T : T \ {x} \in Good PROVE T \in Good
  <2>1. IsFiniteSet(T) /\ Picked(T) \in T
    BY <1>2, FS_Subset, PickIn
  <2>2. SumFunctionOnSet(f, T) = f[Picked(T)] + SumFunctionOnSet(f, T \ {Picked(T)})
    BY <1>2, <2>1, SumPicked
  <2>3. QED
    BY <1>2, <2>1, <2>2
<1> HIDE DEF Good
<1>3. SUBSET D \subseteq Good
  BY <1>1, <1>2, SubsetInduction
<1>4. QED
  BY <1>3 DEF Good, SumFunction

\* No term of a sum of naturals exceeds the sum.
LEMMA SumAtLeastTerm ==
    ASSUME NEW D, IsFiniteSet(D), NEW f \in [D -> Nat], NEW x \in D
    PROVE  SumFunction(f) \in Nat /\ f[x] <= SumFunction(f)
<1> DEFINE zero == [y \in D |-> 0]
           only == [y \in D |-> IF y = x THEN f[x] ELSE 0]
<1>1. zero \in [D -> Int] /\ only \in [D -> Int] /\ f \in [D -> Int] /\ f[x] \in Nat
  OBVIOUS
<1>2. SumFunction(zero) = 0
  BY <1>1, SumOfZeros
<1>3. SumFunction(only) = SumFunction(zero) - zero[x] + only[x]
  <2>1. \A y \in D \ {x} : only[y] = zero[y]
    OBVIOUS
  <2> HIDE DEF zero, only
  <2>2. QED
    BY <1>1, <2>1, SumChanged
<1>4. SumFunction(only) <= SumFunction(f)
  <2>1. \A y \in D : only[y] <= f[y]
    OBVIOUS
  <2> HIDE DEF zero, only
  <2>2. QED
    BY <1>1, <2>1, SumMonotone
<1>5. SumFunction(f) \in Int
  BY <1>1, SumType
<1>6. only[x] = f[x] /\ zero[x] = 0
  OBVIOUS
<1> HIDE DEF zero, only
<1>7. QED
  BY <1>1, <1>2, <1>3, <1>4, <1>5, <1>6

LEMMA SumNat ==
    ASSUME NEW D, IsFiniteSet(D), NEW f \in [D -> Nat]
    PROVE  SumFunction(f) \in Nat
<1>1. CASE D = {}
  BY <1>1, SumOfNothing DEF SumFunction
<1>2. CASE D # {}
  BY <1>2, SumAtLeastTerm
<1>3. QED
  BY <1>1, <1>2

----------------------------------------------------------------------------
(* Numbers. *)

LEMMA LeastNatural ==
    ASSUME NEW T \in SUBSET Nat, T # {}
    PROVE  \E m \in T : \A k \in T : m <= k
<1>1. PICK m \in T : \A k \in T : ~ (<<k, m>> \in OpToRel(<, Nat))
  BY NatLessThanWellFounded, WFMin
<1>2. ASSUME NEW k \in T PROVE m <= k
  <2>1. ~ (k < m)
    BY <1>1 DEF OpToRel
  <2>2. QED
    BY <2>1
<1>3. QED
  BY <1>2

----------------------------------------------------------------------------
(* integer_sqrt. *)

IsRoot(n, r) == r \in Nat /\ r * r <= n /\ n < (r + 1) * (r + 1)

LEMMA SquareMonotone ==
    ASSUME NEW a \in Nat, NEW b \in Nat, a <= b
    PROVE  a * a <= b * b
<1>1. a * a <= a * b
  OBVIOUS
<1>2. a * b <= b * b
  OBVIOUS
<1>3. QED
  BY <1>1, <1>2

LEMMA RootExists ==
    ASSUME NEW n \in Nat
    PROVE  \E r : IsRoot(n, r)
<1> DEFINE T == {k \in Nat : n < (k + 1) * (k + 1)}
<1>1. n \in T
  <2>1. (n + 1) * (n + 1) = n * n + n + n + 1 /\ n * n \in Nat
    OBVIOUS
  <2>2. QED
    BY <2>1
<1>2. PICK r \in T : \A k \in T : r <= k
  BY <1>1, LeastNatural
<1>3. r * r <= n
  <2>1. CASE r = 0
    BY <2>1
  <2>2. CASE r # 0
    <3>1. r - 1 \in Nat /\ ~ (r <= r - 1)
      BY <2>2
    <3>2. r - 1 \notin T
      BY <1>2, <3>1
    <3>3. r * r \in Nat /\ (r - 1 + 1) * (r - 1 + 1) = r * r
      BY <3>1
    <3>4. QED
      BY <3>1, <3>2, <3>3
  <2>3. QED
    BY <2>1, <2>2
<1>4. QED
  BY <1>3 DEF IsRoot

\* One step of the iteration.
NewtonStep(n, x) == (x + n \div x) \div 2

LEMMA Quotient ==
    ASSUME NEW n \in Nat, NEW x \in Nat \ {0}
    PROVE  /\ n \div x \in Nat
           /\ x * (n \div x) <= n
           /\ n < x * (n \div x + 1)
  OBVIOUS

LEMMA MeansOfSquares ==
    ASSUME NEW a \in Int, NEW b \in Int
    PROVE  4 * (a * b) <= (a + b) * (a + b)
<1>1. (a - b) * (a - b) >= 0
  OBVIOUS
<1>2. (a + b) * (a + b) = (a - b) * (a - b) + 4 * (a * b)
  OBVIOUS
<1>3. QED
  BY <1>1, <1>2

\* The iteration stays where it is below the root.
LEMMA StepBelowRoot ==
    ASSUME NEW n \in Nat, NEW r, IsRoot(n, r), NEW x \in Nat \ {0}, x <= r
    PROVE  NewtonStep(n, x) >= x
<1> DEFINE q == n \div x
<1>1. q \in Nat /\ n < x * (q + 1)
  BY Quotient
<1>2. x * x <= n
  BY SquareMonotone DEF IsRoot
<1> HIDE DEF q
<1>3. q >= x
  <2> SUFFICES ASSUME q + 1 <= x PROVE FALSE
    BY <1>1
  <2>1. x * (q + 1) <= x * x
    BY <1>1
  <2>2. QED
    BY <2>1, <1>1, <1>2
<1>4. (x + q) \div 2 >= x
  BY <1>1, <1>3
<1>5. QED
  BY <1>4 DEF NewtonStep, q

\* Above the root it comes down, never below the root.
LEMMA StepAboveRoot ==
    ASSUME NEW n \in Nat, NEW r, IsRoot(n, r), NEW x \in Nat, r < x
    PROVE  NewtonStep(n, x) \in Nat /\ r <= NewtonStep(n, x) /\ NewtonStep(n, x) < x
<1> DEFINE q == n \div x
           y == NewtonStep(n, x)
<1>1. q \in Nat /\ x * q <= n /\ n < x * (q + 1)
  BY Quotient DEF IsRoot
<1>2. r \in Nat /\ r + 1 <= x /\ r * r <= n /\ n < (r + 1) * (r + 1)
  BY DEF IsRoot
<1>3. y = (x + q) \div 2
  BY DEF NewtonStep
<1> HIDE DEF q, y
<1>4. q < x
  <2> SUFFICES ASSUME x <= q PROVE FALSE
    BY <1>1
  <2>1. x * x <= x * q
    BY <1>1
  <2>2. (r + 1) * (r + 1) <= x * x
    BY <1>2, SquareMonotone
  <2>3. QED
    BY <2>1, <2>2, <1>1, <1>2
<1>5. y \in Nat /\ y < x /\ x + (q + 1) <= 2 * (y + 1)
  BY <1>1, <1>3, <1>4
<1>6. n < (y + 1) * (y + 1)
  <2>1. 4 * (x * (q + 1)) <= (x + (q + 1)) * (x + (q + 1))
    BY <1>1, MeansOfSquares
  <2>2. (x + (q + 1)) * (x + (q + 1)) <= (2 * (y + 1)) * (2 * (y + 1))
    BY <1>1, <1>5, SquareMonotone
  <2>3. (2 * (y + 1)) * (2 * (y + 1)) = 4 * ((y + 1) * (y + 1))
    BY <1>5
  <2>4. x * (q + 1) \in Int /\ (y + 1) * (y + 1) \in Int
    BY <1>1, <1>5
  <2>5. QED
    BY <2>1, <2>2, <2>3, <2>4, <1>1
<1>7. r <= y
  <2> SUFFICES ASSUME y + 1 <= r PROVE FALSE
    BY <1>2, <1>5
  <2>1. (y + 1) * (y + 1) <= r * r
    BY <1>2, <1>5, SquareMonotone
  <2>2. (y + 1) * (y + 1) \in Nat /\ r * r \in Nat
    BY <1>2, <1>5
  <2>3. QED
    BY <2>1, <2>2, <1>2, <1>6
<1>8. QED
  BY <1>5, <1>7 DEF y

\* f is the iteration for n, from every start.
IsNewton(n, f) ==
    f = [x \in 1 .. n |-> LET y == (x + n \div x) \div 2 IN IF y < x THEN f[y] ELSE x]

LEMMA RootUnfold ==
    ASSUME NEW n \in Nat, n >= 2
    PROVE  IntegerSqrt(n) = (CHOOSE f : IsNewton(n, f))[(n + 1) \div 2]
  BY DEF IntegerSqrt, IsNewton

LEMMA RootBounds ==
    ASSUME NEW n \in Nat, n >= 1, NEW r, IsRoot(n, r)
    PROVE  r \in 1 .. n
<1>1. r # 0
  BY DEF IsRoot
<1>2. r * 1 <= r * r
  BY <1>1 DEF IsRoot
<1>3. QED
  BY <1>1, <1>2 DEF IsRoot

LEMMA NewtonExists ==
    ASSUME NEW n \in Nat, n >= 1
    PROVE  \E f : IsNewton(n, f)
<1> PICK r : IsRoot(n, r)
  BY RootExists
<1> DEFINE f == [x \in 1 .. n |-> IF x <= r THEN x ELSE r]
<1>1. r \in 1 .. n
  BY RootBounds
<1>2. ASSUME NEW x \in 1 .. n
      PROVE  f[x] = IF NewtonStep(n, x) < x THEN f[NewtonStep(n, x)] ELSE x
  <2>1. CASE x <= r
    <3>1. NewtonStep(n, x) >= x
      BY <2>1, StepBelowRoot
    <3>2. NewtonStep(n, x) \in Nat
      BY Quotient DEF NewtonStep
    <3>3. QED
      BY <3>1, <3>2, <2>1
  <2>2. CASE r < x
    <3>1. NewtonStep(n, x) \in Nat /\ r <= NewtonStep(n, x) /\ NewtonStep(n, x) < x
      BY <2>2, StepAboveRoot
    <3>2. NewtonStep(n, x) \in 1 .. n
      BY <1>1, <3>1
    <3>3. f[NewtonStep(n, x)] = r
      BY <1>1, <3>1, <3>2
    <3>4. f[x] = r
      BY <1>1, <2>2
    <3>5. QED
      BY <3>1, <3>3, <3>4
  <2>3. QED
    BY <1>1, <2>1, <2>2
<1>3. f = [x \in 1 .. n |-> IF NewtonStep(n, x) < x THEN f[NewtonStep(n, x)] ELSE x]
  <2>1. f = [x \in 1 .. n |-> f[x]]
    OBVIOUS
  <2> HIDE DEF f
  <2>2. QED
    BY <2>1, <1>2
<1> HIDE DEF f
<1>4. IsNewton(n, f)
  BY <1>3 DEF IsNewton, NewtonStep
<1>5. QED
  BY <1>4

LEMMA NewtonFindsRoot ==
    ASSUME NEW n \in Nat, n >= 1, NEW f, IsNewton(n, f), NEW r, IsRoot(n, r),
           NEW x \in 1 .. n, r <= x
    PROVE  f[x] = r
<1> DEFINE Bad == {z \in 1 .. n : r <= z /\ f[z] # r}
<1>1. SUFFICES ASSUME Bad # {} PROVE FALSE
  OBVIOUS
<1>2. PICK z \in Bad : \A k \in Bad : z <= k
  <2>1. Bad \in SUBSET Nat
    OBVIOUS
  <2> HIDE DEF Bad
  <2>2. QED
    BY <1>1, <2>1, LeastNatural
<1>3. z \in 1 .. n /\ r <= z /\ f[z] # r
  BY <1>2
<1>4. f[z] = IF NewtonStep(n, z) < z THEN f[NewtonStep(n, z)] ELSE z
  BY <1>3 DEF IsNewton, NewtonStep
<1>5. r \in 1 .. n
  BY RootBounds
<1>6. CASE z = r
  <2>1. NewtonStep(n, z) >= z /\ NewtonStep(n, z) \in Nat
    BY <1>3, <1>5, <1>6, StepBelowRoot, Quotient DEF NewtonStep
  <2>2. QED
    BY <2>1, <1>3, <1>4, <1>6
<1>7. CASE r < z
  <2>1. NewtonStep(n, z) \in Nat /\ r <= NewtonStep(n, z) /\ NewtonStep(n, z) < z
    BY <1>3, <1>7, StepAboveRoot
  <2>2. NewtonStep(n, z) \in 1 .. n /\ NewtonStep(n, z) \notin Bad
    BY <1>2, <1>3, <1>5, <2>1
  <2>3. QED
    BY <2>1, <2>2, <1>3, <1>4
<1>8. QED
  BY <1>3, <1>5, <1>6, <1>7

\* integer_sqrt returns the floor of the square root, for every number.
THEOREM IntegerSqrtIsRoot ==
    ASSUME NEW n \in Nat
    PROVE  IsRoot(n, IntegerSqrt(n))
<1>1. CASE n < 2
  <2>1. IntegerSqrt(n) = n /\ n \in {0, 1}
    BY <1>1 DEF IntegerSqrt
  <2>2. QED
    BY <2>1 DEF IsRoot
<1>2. CASE n >= 2
  <2> DEFINE f == CHOOSE g : IsNewton(n, g)
             x == (n + 1) \div 2
  <2>1. IsNewton(n, f)
    BY <1>2, NewtonExists
  <2> PICK r : IsRoot(n, r)
    BY RootExists
  <2>2. x \in 1 .. n /\ 2 * x >= n
    BY <1>2
  <2>3. r <= x
    <3> HIDE DEF x
    <3> SUFFICES ASSUME x + 1 <= r PROVE FALSE
      BY <2>2 DEF IsRoot
    <3>1. (x + 1) * (x + 1) <= r * r
      BY <2>2, SquareMonotone DEF IsRoot
    <3>2. (x + 1) * (x + 1) = x * x + 2 * x + 1 /\ x * x \in Nat
      BY <2>2
    <3>3. QED
      BY <2>2, <3>1, <3>2 DEF IsRoot
  <2> HIDE DEF f, x
  <2>4. f[x] = r
    BY <1>2, <2>1, <2>2, <2>3, NewtonFindsRoot
  <2>5. QED
    BY <1>2, <2>4, RootUnfold DEF f, x
<1>3. QED
  BY <1>1, <1>2

LEMMA VotingPowerNat ==
    ASSUME NEW balance \in Nat, NEW multiplier_bps \in Nat
    PROVE  VotingPower(balance, multiplier_bps) \in Nat
<1>1. IntegerSqrt(balance) * multiplier_bps \in Nat
  BY IntegerSqrtIsRoot DEF IsRoot
<1>2. QED
  BY <1>1 DEF VotingPower, BpsDenominator

----------------------------------------------------------------------------
(* day_of_month.  Its steps have names, so that each can be followed from one *)
(* day to the next.                                                           *)

LastOfEra == 146096
EraDay(days) == (days + 719468) % 146097
EraYear(e) == ((e - e \div 1460 + e \div 36524) - e \div 146096) \div 365
YearDay(e) == e - (365 * EraYear(e) + EraYear(e) \div 4 - EraYear(e) \div 100)
MonthOf(y) == (5 * y + 2) \div 153
DayIn(y) == (y - (153 * MonthOf(y) + 2) \div 5) + 1

LEMMA DayOfMonthIn ==
    ASSUME NEW days \in Nat
    PROVE  DayOfMonth(days) = DayIn(YearDay(EraDay(days)))
  BY SMT DEF DayOfMonth, EraDay, EraYear, YearDay, MonthOf, DayIn

LEMMA EraDays ==
    ASSUME NEW days \in Nat
    PROVE  /\ EraDay(days) \in Nat /\ EraDay(days) <= LastOfEra
           /\ EraDay(days) # LastOfEra => EraDay(days + 1) = EraDay(days) + 1
           /\ EraDay(days) = LastOfEra => EraDay(days + 1) = 0
  BY SMT DEF EraDay, LastOfEra

LEMMA YearDays ==
    ASSUME NEW e \in Nat, e <= LastOfEra
    PROVE  YearDay(e) \in Nat /\ YearDay(e) <= 365
  BY SMTT(60) DEF YearDay, EraYear, LastOfEra

\* From one day of an era to the next, the day of the year advances, or a year
\* of 365 or 366 days has ended.
LEMMA YearAdvances ==
    ASSUME NEW e \in Nat, e < LastOfEra
    PROVE  \/ YearDay(e + 1) = YearDay(e) + 1
           \/ YearDay(e) >= 364 /\ YearDay(e + 1) = 0
  BY SMTT(60) DEF YearDay, EraYear, LastOfEra

LEMMA YearOfEraEnds == YearDay(0) = 0 /\ YearDay(LastOfEra) = 365
  BY SMT DEF YearDay, EraYear, LastOfEra

LEMMA DayAdvances ==
    ASSUME NEW y \in Nat, y <= 365
    PROVE  /\ DayIn(y) \in Nat /\ 1 <= DayIn(y) /\ DayIn(y) <= 31
           /\ \/ DayIn(y + 1) = DayIn(y) + 1
              \/ DayIn(y) >= 30 /\ DayIn(y + 1) = 1
  BY SMTT(60) DEF DayIn, MonthOf

LEMMA YearEnds == DayIn(0) = 1 /\ DayIn(364) = 28 /\ DayIn(365) = 29
  BY SMT DEF DayIn, MonthOf

\* day_of_month is a day of a month, and the day after it is the next one, or
\* the first after 28 days or more.
THEOREM DayOfMonthAdvances ==
    ASSUME NEW days \in Nat
    PROVE  /\ DayOfMonth(days) \in Nat /\ 1 <= DayOfMonth(days) /\ DayOfMonth(days) <= 31
           /\ \/ DayOfMonth(days + 1) = DayOfMonth(days) + 1
              \/ DayOfMonth(days) >= 28 /\ DayOfMonth(days + 1) = 1
<1> DEFINE e == EraDay(days)
           y == YearDay(e)
<1>1. /\ e \in Nat /\ e <= LastOfEra /\ y \in Nat /\ y <= 365
      /\ DayOfMonth(days) = DayIn(y)
      /\ DayOfMonth(days + 1) = DayIn(YearDay(EraDay(days + 1)))
  BY EraDays, YearDays, DayOfMonthIn
<1>2. /\ DayIn(y) \in Nat /\ 1 <= DayIn(y) /\ DayIn(y) <= 31
      /\ \/ DayIn(y + 1) = DayIn(y) + 1
         \/ DayIn(y) >= 30 /\ DayIn(y + 1) = 1
  BY <1>1, DayAdvances
<1>3. CASE e = LastOfEra
  <2>1. YearDay(EraDay(days + 1)) = 0 /\ y = 365
    BY <1>3, EraDays, YearOfEraEnds
  <2>2. QED
    BY <1>1, <1>2, <2>1, YearEnds
<1>4. CASE e # LastOfEra
  <2>1. EraDay(days + 1) = e + 1 /\ e < LastOfEra
    BY <1>1, <1>4, EraDays, SMT DEF LastOfEra
  <2>2. CASE YearDay(e + 1) = y + 1
    BY <1>1, <1>2, <2>1, <2>2
  <2>3. CASE y >= 364 /\ YearDay(e + 1) = 0
    <3>1. y = 364 \/ y = 365
      BY <1>1, <2>3
    <3>2. QED
      BY <1>1, <1>2, <2>1, <2>3, <3>1, YearEnds
  <2>4. QED
    BY <1>1, <2>1, <2>2, <2>3, YearAdvances
<1>5. QED
  BY <1>3, <1>4

\* The calendar of 400 years comes again: what day_of_month gives in one of
\* these periods it gives in all.
THEOREM DayOfMonthRepeats ==
    ASSUME NEW days \in Nat
    PROVE  DayOfMonth(days + 146097) = DayOfMonth(days)
<1>1. EraDay(days + 146097) = EraDay(days)
  BY SMT DEF EraDay
<1>2. days + 146097 \in Nat
  OBVIOUS
<1>3. QED
  BY <1>1, <1>2, DayOfMonthIn

----------------------------------------------------------------------------
(* day_of_month is the calendar's.  The calendar is a walk: 1 January 1970,   *)
(* and after each day the next.                                               *)

\* A date is <<year, month, day>>.
DayAfter(date) ==
    IF date[3] < DaysInMonth(date[2], date[1]) THEN <<date[1], date[2], date[3] + 1>>
    ELSE IF date[2] < 12 THEN <<date[1], date[2] + 1, 1>>
    ELSE <<date[1] + 1, 1, 1>>

IsCalendar(date) ==
    /\ date[0] = <<1970, 1, 1>>
    /\ \A days \in Nat : date[days + 1] = DayAfter(date[days])

\* The date that the steps of day_of_month stand for: an era is 400 years, each
\* from March to February.
Era(days) == (days + 719468) \div 146097
CivilMonth(mp) == IF mp < 10 THEN mp + 3 ELSE mp - 9
CivilYear(era, yoe, mp) == 400 * era + yoe + (IF mp < 10 THEN 0 ELSE 1)
CivilDate(era, yoe, doy) ==
    <<CivilYear(era, yoe, MonthOf(doy)), CivilMonth(MonthOf(doy)), DayIn(doy)>>
DateOf(days) ==
    CivilDate(Era(days), EraYear(EraDay(days)), YearDay(EraDay(days)))

\* The last day of a year from March is in the February of the next.
YearEnd(yoe) == IF IsLeapYear(yoe + 1) THEN 365 ELSE 364

LEMMA EraYears ==
    ASSUME NEW e \in Nat, e <= LastOfEra
    PROVE  EraYear(e) \in Nat /\ EraYear(e) <= 399
  BY SMTT(60) DEF EraYear, LastOfEra

\* YearAdvances with the year: it ends after 365 days, or 366 in a leap year.
LEMMA YearWalks ==
    ASSUME NEW e \in Nat, e < LastOfEra
    PROVE  \/ /\ YearDay(e + 1) = YearDay(e) + 1
              /\ EraYear(e + 1) = EraYear(e)
              /\ YearDay(e) < YearEnd(EraYear(e))
           \/ /\ YearDay(e + 1) = 0
              /\ EraYear(e + 1) = EraYear(e) + 1
              /\ YearDay(e) = YearEnd(EraYear(e))
  BY SMTT(120) DEF YearDay, EraYear, LastOfEra, YearEnd, IsLeapYear

LEMMA EraWalks ==
    ASSUME NEW days \in Nat
    PROVE  /\ Era(days) \in Nat
           /\ EraDay(days) # LastOfEra => Era(days + 1) = Era(days)
           /\ EraDay(days) = LastOfEra => Era(days + 1) = Era(days) + 1
  BY SMT DEF Era, EraDay, LastOfEra

LEMMA EraEnds == EraYear(0) = 0 /\ EraYear(LastOfEra) = 399 /\ YearEnd(399) = 365
  BY SMT DEF EraYear, LastOfEra, YearEnd, IsLeapYear

\* The months from March, before February is over.
LEMMA MonthWalks ==
    ASSUME NEW y \in Nat, y < 365
    PROVE  LET mp == MonthOf(y)
               length == IF mp \in {1, 3, 6, 8} THEN 30 ELSE 31
           IN  /\ mp \in 0 .. 11 /\ DayIn(y) \in Nat
               /\ mp # 11 => IF DayIn(y) < length
                             THEN MonthOf(y + 1) = mp /\ DayIn(y + 1) = DayIn(y) + 1
                             ELSE MonthOf(y + 1) = mp + 1 /\ DayIn(y + 1) = 1
               /\ mp = 11 => MonthOf(y + 1) = 11 /\ DayIn(y + 1) = DayIn(y) + 1 /\ DayIn(y) = y - 336
  BY SMTT(60) DEF MonthOf, DayIn

LEMMA FebruaryEnds ==
    /\ MonthOf(364) = 11 /\ DayIn(364) = 28
    /\ MonthOf(365) = 11 /\ DayIn(365) = 29
    /\ MonthOf(0) = 0 /\ DayIn(0) = 1
  BY SMT DEF MonthOf, DayIn

LEMMA LeapRepeats ==
    ASSUME NEW era \in Nat, NEW year \in Nat
    PROVE  IsLeapYear(400 * era + year) <=> IsLeapYear(year)
<1>1. /\ (400 * era + year) % 4 = year % 4
      /\ (400 * era + year) % 100 = year % 100
      /\ (400 * era + year) % 400 = year % 400
  BY SMT
<1>2. QED
  BY <1>1 DEF IsLeapYear

\* The lengths of the months from March, the last of which depends on the year.
LEMMA MonthLengths ==
    ASSUME NEW era \in Nat, NEW yoe \in Nat, NEW mp \in 0 .. 11
    PROVE  DaysInMonth(CivilMonth(mp), CivilYear(era, yoe, mp))
              = IF mp = 11 THEN YearEnd(yoe) - 336
                ELSE IF mp \in {1, 3, 6, 8} THEN 30 ELSE 31
<1>1. CASE mp = 11
  <2>1. CivilMonth(mp) = 2 /\ CivilYear(era, yoe, mp) = 400 * era + (yoe + 1)
    BY <1>1 DEF CivilMonth, CivilYear
  <2>2. IsLeapYear(CivilYear(era, yoe, mp)) <=> IsLeapYear(yoe + 1)
    BY <2>1, LeapRepeats
  <2>3. DaysInMonth(CivilMonth(mp), CivilYear(era, yoe, mp))
           = IF IsLeapYear(CivilYear(era, yoe, mp)) THEN 29 ELSE 28
    BY <2>1 DEF DaysInMonth
  <2>4. QED
    BY <1>1, <2>2, <2>3 DEF YearEnd
<1>2. CASE mp # 11
  <2>1. /\ CivilMonth(mp) # 2
        /\ CivilMonth(mp) \in {4, 6, 9, 11} <=> mp \in {1, 3, 6, 8}
    BY <1>2 DEF CivilMonth
  <2>2. DaysInMonth(CivilMonth(mp), CivilYear(era, yoe, mp))
           = IF CivilMonth(mp) \in {4, 6, 9, 11} THEN 30 ELSE 31
    BY <2>1 DEF DaysInMonth
  <2>3. QED
    BY <1>2, <2>1, <2>2
<1>3. QED
  BY <1>1, <1>2

LEMMA NextMonth ==
    ASSUME NEW era \in Nat, NEW yoe \in Nat, NEW mp \in 0 .. 10
    PROVE  <<CivilYear(era, yoe, mp + 1), CivilMonth(mp + 1), 1>>
              = IF CivilMonth(mp) < 12
                THEN <<CivilYear(era, yoe, mp), CivilMonth(mp) + 1, 1>>
                ELSE <<CivilYear(era, yoe, mp) + 1, 1, 1>>
  BY DEF CivilYear, CivilMonth

LEMMA DateInYear ==
    ASSUME NEW era \in Nat, NEW yoe \in Nat, NEW y \in Nat, y < YearEnd(yoe)
    PROVE  CivilDate(era, yoe, y + 1) = DayAfter(CivilDate(era, yoe, y))
<1> DEFINE mp == MonthOf(y)
           length == IF mp \in {1, 3, 6, 8} THEN 30 ELSE 31
           date == CivilDate(era, yoe, y)
<1>1. y < 365 /\ YearEnd(yoe) \in {364, 365}
  BY DEF YearEnd
<1>2. /\ mp \in 0 .. 11 /\ DayIn(y) \in Nat
      /\ mp # 11 => IF DayIn(y) < length
                    THEN MonthOf(y + 1) = mp /\ DayIn(y + 1) = DayIn(y) + 1
                    ELSE MonthOf(y + 1) = mp + 1 /\ DayIn(y + 1) = 1
      /\ mp = 11 => MonthOf(y + 1) = 11 /\ DayIn(y + 1) = DayIn(y) + 1 /\ DayIn(y) = y - 336
  BY <1>1, MonthWalks
<1> HIDE DEF mp
<1>3. /\ date[1] = CivilYear(era, yoe, mp) /\ date[2] = CivilMonth(mp) /\ date[3] = DayIn(y)
      /\ CivilDate(era, yoe, y + 1)
           = <<CivilYear(era, yoe, MonthOf(y + 1)), CivilMonth(MonthOf(y + 1)), DayIn(y + 1)>>
  BY DEF CivilDate, mp
<1>4. DaysInMonth(date[2], date[1])
         = IF mp = 11 THEN YearEnd(yoe) - 336 ELSE length
  BY <1>2, <1>3, MonthLengths
<1> HIDE DEF date
<1>5. CASE mp = 11
  <2>1. date[3] < DaysInMonth(date[2], date[1])
    BY <1>1, <1>2, <1>3, <1>4, <1>5
  <2>2. QED
    BY <1>2, <1>3, <1>5, <2>1 DEF DayAfter, date
<1>6. CASE mp # 11 /\ DayIn(y) < length
  BY <1>2, <1>3, <1>4, <1>6 DEF DayAfter, date
<1>7. CASE mp # 11 /\ ~(DayIn(y) < length)
  <2>1. mp \in 0 .. 10 /\ MonthOf(y + 1) = mp + 1 /\ DayIn(y + 1) = 1
    BY <1>2, <1>7
  <2>2. ~(date[3] < DaysInMonth(date[2], date[1]))
    BY <1>3, <1>4, <1>7
  <2>3. QED
    <3>1. /\ CivilDate(era, yoe, y + 1)
                = <<CivilYear(era, yoe, mp + 1), CivilMonth(mp + 1), 1>>
          /\ <<CivilYear(era, yoe, mp + 1), CivilMonth(mp + 1), 1>>
                = IF CivilMonth(mp) < 12
                  THEN <<CivilYear(era, yoe, mp), CivilMonth(mp) + 1, 1>>
                  ELSE <<CivilYear(era, yoe, mp) + 1, 1, 1>>
      BY <1>3, <2>1, NextMonth
    <3>2. DayAfter(date) = IF date[2] < 12 THEN <<date[1], date[2] + 1, 1>>
                           ELSE <<date[1] + 1, 1, 1>>
      BY <2>2 DEF DayAfter
    <3>3. CivilDate(era, yoe, y + 1) = DayAfter(date)
      BY <1>3, <3>1, <3>2
    <3>4. QED
      BY <3>3 DEF date
<1>8. QED
  BY <1>5, <1>6, <1>7

LEMMA DateAtYearEnd ==
    ASSUME NEW era \in Nat, NEW yoe \in Nat, NEW y \in Nat, y = YearEnd(yoe)
    PROVE  DayAfter(CivilDate(era, yoe, y)) = <<400 * era + yoe + 1, 3, 1>>
<1>1. /\ MonthOf(y) = 11 /\ DayIn(y) = YearEnd(yoe) - 336
      /\ DayIn(y) \in Nat
  BY FebruaryEnds DEF YearEnd
<1>2. CivilMonth(11) = 2 /\ CivilYear(era, yoe, 11) = 400 * era + yoe + 1
  BY DEF CivilMonth, CivilYear
<1>3. DaysInMonth(2, 400 * era + yoe + 1) = YearEnd(yoe) - 336
  <2>1. 11 \in 0 .. 11
    OBVIOUS
  <2>2. QED
    BY <1>2, <2>1, MonthLengths
<1>4. CivilDate(era, yoe, y) = <<400 * era + yoe + 1, 2, YearEnd(yoe) - 336>>
  BY <1>1, <1>2 DEF CivilDate
<1>5. YearEnd(yoe) - 336 \in Nat
  BY <1>1
<1>6. QED
  BY <1>3, <1>4, <1>5 DEF DayAfter

LEMMA FirstOfMarch ==
    ASSUME NEW era \in Nat, NEW yoe \in Nat
    PROVE  CivilDate(era, yoe, 0) = <<400 * era + yoe, 3, 1>>
  BY FebruaryEnds DEF CivilDate, CivilYear, CivilMonth

LEMMA DateWalks ==
    ASSUME NEW days \in Nat
    PROVE  DateOf(days + 1) = DayAfter(DateOf(days))
<1> DEFINE e == EraDay(days)
           era == Era(days)
           yoe == EraYear(e)
           y == YearDay(e)
<1>1. /\ e \in Nat /\ e <= LastOfEra /\ era \in Nat /\ y \in Nat
      /\ yoe \in Nat /\ yoe <= 399
  BY EraDays, EraWalks, EraYears, YearDays
<1>2. DateOf(days) = CivilDate(era, yoe, y)
  BY DEF DateOf
<1>3. CASE e = LastOfEra
  <2>1. /\ yoe = 399 /\ y = 365 /\ YearEnd(399) = 365
        /\ DateOf(days + 1) = CivilDate(era + 1, 0, 0)
    BY <1>3, EraDays, EraWalks, YearOfEraEnds, EraEnds DEF DateOf
  <2> HIDE DEF e, era, yoe, y
  <2>2. DateOf(days + 1) = <<400 * (era + 1) + 0, 3, 1>>
    BY <1>1, <2>1, FirstOfMarch
  <2>3. DayAfter(DateOf(days)) = <<400 * era + 399 + 1, 3, 1>>
    BY <1>1, <1>2, <2>1, DateAtYearEnd
  <2>4. 400 * (era + 1) + 0 = 400 * era + 399 + 1
    BY <1>1
  <2>5. QED
    BY <2>2, <2>3, <2>4
<1>4. CASE e # LastOfEra
  <2>1. EraDay(days + 1) = e + 1 /\ Era(days + 1) = era /\ e < LastOfEra
    BY <1>1, <1>4, EraDays, EraWalks, SMT DEF LastOfEra
  <2>2. DateOf(days + 1) = CivilDate(era, EraYear(e + 1), YearDay(e + 1))
    BY <2>1 DEF DateOf
  <2>3. \/ YearDay(e + 1) = y + 1 /\ EraYear(e + 1) = yoe /\ y < YearEnd(yoe)
        \/ YearDay(e + 1) = 0 /\ EraYear(e + 1) = yoe + 1 /\ y = YearEnd(yoe)
    BY <1>1, <2>1, YearWalks
  <2> HIDE DEF e, era, yoe, y
  <2>4. CASE YearDay(e + 1) = y + 1 /\ EraYear(e + 1) = yoe /\ y < YearEnd(yoe)
    BY <1>1, <1>2, <2>2, <2>4, DateInYear
  <2>5. CASE YearDay(e + 1) = 0 /\ EraYear(e + 1) = yoe + 1 /\ y = YearEnd(yoe)
    <3>1. DateOf(days + 1) = <<400 * era + (yoe + 1), 3, 1>>
      BY <1>1, <2>2, <2>5, FirstOfMarch
    <3>2. DayAfter(DateOf(days)) = <<400 * era + yoe + 1, 3, 1>>
      BY <1>1, <1>2, <2>5, DateAtYearEnd
    <3>3. 400 * era + (yoe + 1) = 400 * era + yoe + 1
      BY <1>1
    <3>4. QED
      BY <3>1, <3>2, <3>3
  <2>6. QED
    BY <2>3, <2>4, <2>5
<1>5. QED
  BY <1>3, <1>4

\* The steps start at the epoch: there is a calendar, and it is the only one.
LEMMA DateStarts == DateOf(0) = <<1970, 1, 1>>
  BY SMT DEF DateOf, CivilDate, CivilYear, CivilMonth, Era, EraDay, EraYear, YearDay, MonthOf, DayIn

LEMMA CalendarExists == IsCalendar([days \in Nat |-> DateOf(days)])
  BY DateWalks, DateStarts DEF IsCalendar

\* day_of_month gives the day of the civil calendar, on every day since 1970: the
\* calendar that starts on 1 January 1970 and goes from each day to the next by
\* the lengths of the months, leap years and centuries included.
THEOREM DayOfMonthIsCivil ==
    ASSUME NEW date, IsCalendar(date), NEW days \in Nat
    PROVE  DayOfMonth(days) = date[days][3]
<1> DEFINE Wrong == {n \in Nat : date[n] # DateOf(n)}
<1>1. Wrong = {}
  <2> SUFFICES ASSUME Wrong # {} PROVE FALSE
    OBVIOUS
  <2>1. PICK n \in Wrong : \A m \in Wrong : ~ (<<m, n>> \in OpToRel(<, Nat))
    BY NatLessThanWellFounded, WFMin
  <2>2. n # 0
    BY DateStarts DEF IsCalendar
  <2>3. n - 1 \in Nat /\ n - 1 < n
    BY <2>2
  <2>4. date[n - 1] = DateOf(n - 1)
    BY <2>1, <2>3 DEF OpToRel
  <2>5. date[n] = DateOf(n)
    <3>1. date[(n - 1) + 1] = DayAfter(date[n - 1]) /\ DateOf((n - 1) + 1) = DayAfter(DateOf(n - 1))
      BY <2>3, DateWalks DEF IsCalendar
    <3>2. (n - 1) + 1 = n
      OBVIOUS
    <3>3. QED
      BY <2>4, <3>1, <3>2
  <2>6. QED
    BY <2>5
<1>2. date[days] = DateOf(days)
  BY <1>1
<1>3. QED
  BY <1>2, DayOfMonthIn DEF DateOf, CivilDate
----------------------------------------------------------------------------
(* The numbers of days that HelpersExact counts are those of the calendar.    *)

\* Leap years are counted one at a time.
LEMMA LeapYears ==
    ASSUME NEW year \in Nat, year >= 1970
    PROVE  /\ LeapYearsBefore(year) \in Nat
           /\ LeapYearsBefore(year + 1)
                = LeapYearsBefore(year) + (IF IsLeapYear(year) THEN 1 ELSE 0)
<1> DEFINE Before == {past \in 1970 .. year - 1 : IsLeapYear(past)}
           Until == {past \in 1970 .. year : IsLeapYear(past)}
<1>1. IsFiniteSet(Before)
  <2>1. IsFiniteSet(1970 .. year - 1)
    BY FS_Interval
  <2>2. QED
    BY <2>1, FS_Subset
<1>2. year \notin Before /\ Until = IF IsLeapYear(year) THEN Before \cup {year} ELSE Before
  OBVIOUS
<1>3. LeapYearsBefore(year + 1) = Cardinality(Until)
  <2>1. (year + 1) - 1 = year
    OBVIOUS
  <2>2. QED
    BY <2>1 DEF LeapYearsBefore
<1>4. Cardinality(Before) \in Nat /\ Cardinality(Before \cup {year}) = Cardinality(Before) + 1
  BY <1>1, <1>2, FS_AddElement, FS_CardinalityType
<1>5. LeapYearsBefore(year) = Cardinality(Before)
  BY DEF LeapYearsBefore
<1> HIDE DEF Before, Until
<1>6. QED
  BY <1>2, <1>3, <1>4, <1>5

\* The first day of a month is the one after the last of the month before.
LEMMA FirstDays ==
    /\ FirstDayOf(1, 1970) = 0
    /\ \A year \in Nat, month \in 1 .. 12 : year >= 1970 =>
         /\ FirstDayOf(month, year) \in Nat
         /\ FirstDayOf(month, year) + DaysInMonth(month, year)
              = IF month < 12 THEN FirstDayOf(month + 1, year) ELSE FirstDayOf(1, year + 1)
<1>1. FirstDayOf(1, 1970) = 0
  <2>1. {past \in 1970 .. 1970 - 1 : IsLeapYear(past)} = {}
    OBVIOUS
  <2>2. LeapYearsBefore(1970) = 0
    BY <2>1, FS_EmptySet DEF LeapYearsBefore
  <2>3. QED
    BY <2>2 DEF FirstDayOf
<1>2. ASSUME NEW year \in Nat, NEW month \in 1 .. 12, year >= 1970
      PROVE  /\ FirstDayOf(month, year) \in Nat
             /\ FirstDayOf(month, year) + DaysInMonth(month, year)
                  = IF month < 12 THEN FirstDayOf(month + 1, year) ELSE FirstDayOf(1, year + 1)
  <2> DEFINE leap == IF IsLeapYear(year) THEN 1 ELSE 0
             leaps == LeapYearsBefore(year)
             table == <<0, 31, 59, 90, 120, 151, 181, 212, 243, 273, 304, 334>>
  <2>1. leaps \in Nat /\ LeapYearsBefore(year + 1) = leaps + leap /\ leap \in 0 .. 1
    BY <1>2, LeapYears
  <2>2. FirstDayOf(month, year)
          = 365 * (year - 1970) + leaps + table[month] + (IF month > 2 THEN leap ELSE 0)
    BY DEF FirstDayOf
  <2>3. month < 12 => FirstDayOf(month + 1, year)
          = 365 * (year - 1970) + leaps + table[month + 1] + (IF month + 1 > 2 THEN leap ELSE 0)
    BY DEF FirstDayOf
  <2>4. FirstDayOf(1, year + 1) = 365 * (year - 1970) + 365 + leaps + leap
    BY <1>2, <2>1 DEF FirstDayOf
  <2>5. DaysInMonth(month, year)
          = IF month = 2 THEN 28 + leap ELSE IF month \in {4, 6, 9, 11} THEN 30 ELSE 31
    BY DEF DaysInMonth
  <2>6. /\ table[month] \in Nat
        /\ month < 12 => table[month + 1] - table[month]
             = IF month = 2 THEN 28 ELSE IF month \in {4, 6, 9, 11} THEN 30 ELSE 31
        /\ month = 12 => table[month] = 334
    BY month \in {1, 2, 3, 4, 5, 6, 7, 8, 9, 10, 11, 12}
  <2>7. month < 12 => table[month + 1] \in Nat
    BY month \in {1, 2, 3, 4, 5, 6, 7, 8, 9, 10, 11, 12}
  <2> HIDE DEF leap, leaps, table
  <2>8. QED
    BY <1>2, <2>1, <2>2, <2>3, <2>4, <2>5, <2>6, <2>7
<1>3. QED
  BY <1>1, <1>2

\* From the first of a month the steps go through its days.
LEMMA DatesOfMonth ==
    ASSUME NEW first \in Nat, NEW year \in Nat, NEW month \in 1 .. 12,
           DateOf(first) = <<year, month, 1>>
    PROVE  \A k \in Nat : k < DaysInMonth(month, year) => DateOf(first + k) = <<year, month, k + 1>>
<1> DEFINE length == DaysInMonth(month, year)
           Bad == {k \in Nat : k < length /\ DateOf(first + k) # <<year, month, k + 1>>}
<1>0. length \in Nat
  BY DEF DaysInMonth
<1> SUFFICES ASSUME Bad # {} PROVE FALSE
  OBVIOUS
<1>1. PICK k \in Bad : \A j \in Bad : ~ (<<j, k>> \in OpToRel(<, Nat))
  BY NatLessThanWellFounded, WFMin
<1>2. k # 0 /\ k \in Nat /\ k < length
  <2>1. first + 0 = first /\ 0 + 1 = 1
    OBVIOUS
  <2>2. 0 \notin Bad
    BY <2>1
  <2>3. QED
    BY <1>1, <2>2
<1> DEFINE j == k - 1
<1>3. j \in Nat /\ j < k /\ j < length /\ k = j + 1 /\ first + k = (first + j) + 1
      /\ first + j \in Nat
  BY <1>0, <1>2
<1>4. j \notin Bad
  BY <1>1, <1>2, <1>3 DEF OpToRel
<1>5. DateOf(first + j) = <<year, month, j + 1>>
  BY <1>3, <1>4
<1> HIDE DEF j
<1>6. DateOf(first + k) = DayAfter(<<year, month, j + 1>>)
  BY <1>3, <1>5, DateWalks
<1>7. DayAfter(<<year, month, j + 1>>) = <<year, month, (j + 1) + 1>>
  <2>1. j + 1 < length
    BY <1>2, <1>3
  <2>2. QED
    BY <2>1 DEF DayAfter
<1>8. QED
  BY <1>1, <1>3, <1>6, <1>7

\* The months since the epoch, and where each begins.
YearOfMonth(i) == 1970 + i \div 12
NumberInYear(i) == (i % 12) + 1
DateFound(i) == DateOf(FirstDayOf(NumberInYear(i), YearOfMonth(i)))
DateDue(i) == <<YearOfMonth(i), NumberInYear(i), 1>>

LEMMA MonthsBegin == \A i \in Nat : DateFound(i) = DateDue(i)
<1> DEFINE Bad == {i \in Nat : DateFound(i) # DateDue(i)}
<1> SUFFICES ASSUME Bad # {} PROVE FALSE
  OBVIOUS
<1>1. PICK i \in Bad : \A j \in Bad : ~ (<<j, i>> \in OpToRel(<, Nat))
  BY NatLessThanWellFounded, WFMin
<1>2. i # 0 /\ i \in Nat
  <2>1. YearOfMonth(0) = 1970 /\ NumberInYear(0) = 1
    BY SMT DEF YearOfMonth, NumberInYear
  <2>2. DateFound(0) = DateDue(0)
    BY <2>1, FirstDays, DateStarts DEF DateFound, DateDue
  <2>3. QED
    BY <1>1, <2>2
<1> DEFINE j == i - 1
           y == YearOfMonth(j)
           m == NumberInYear(j)
           length == DaysInMonth(m, y)
<1>3. j \in Nat /\ j < i
  BY <1>2
<1>4. DateOf(FirstDayOf(m, y)) = <<y, m, 1>>
  <2>1. j \notin Bad
    BY <1>1, <1>2, <1>3 DEF OpToRel
  <2>2. QED
    BY <1>3, <2>1 DEF DateFound, DateDue
<1>5. y \in Nat /\ y >= 1970 /\ m \in 1 .. 12
  BY <1>3 DEF YearOfMonth, NumberInYear
<1>6. IF m < 12 THEN NumberInYear(i) = m + 1 /\ YearOfMonth(i) = y
      ELSE NumberInYear(i) = 1 /\ YearOfMonth(i) = y + 1
  BY <1>2, <1>3, SMT DEF YearOfMonth, NumberInYear
<1> HIDE DEF j, y, m
<1>7. FirstDayOf(NumberInYear(i), YearOfMonth(i)) = FirstDayOf(m, y) + length /\ FirstDayOf(m, y) \in Nat
  BY <1>5, <1>6, FirstDays
<1>8. length \in Nat /\ length > 0
  BY DEF DaysInMonth
<1> DEFINE k == length - 1
<1>9. k \in Nat /\ k < length /\ k + 1 = length
  BY <1>8
<1> HIDE DEF length, k
<1>10. DateOf(FirstDayOf(m, y) + k) = <<y, m, length>>
  BY <1>4, <1>5, <1>7, <1>9, DatesOfMonth DEF length
<1>11. DateOf(FirstDayOf(NumberInYear(i), YearOfMonth(i))) = DayAfter(<<y, m, length>>)
  <2>1. FirstDayOf(NumberInYear(i), YearOfMonth(i)) = (FirstDayOf(m, y) + k) + 1 /\ FirstDayOf(m, y) + k \in Nat
    BY <1>7, <1>8, <1>9
  <2>2. QED
    BY <1>10, <2>1, DateWalks
<1>12. DayAfter(<<y, m, length>>) = IF m < 12 THEN <<y, m + 1, 1>> ELSE <<y + 1, 1, 1>>
  BY <1>8 DEF DayAfter, length
<1>13. DateOf(FirstDayOf(NumberInYear(i), YearOfMonth(i))) = <<YearOfMonth(i), NumberInYear(i), 1>>
  BY <1>6, <1>11, <1>12
<1>14. QED
  BY <1>1, <1>13 DEF DateFound, DateDue

LEMMA MonthBegins ==
    ASSUME NEW year \in Nat, NEW month \in 1 .. 12, year >= 1970
    PROVE  DateOf(FirstDayOf(month, year)) = <<year, month, 1>>
<1> DEFINE i == 12 * (year - 1970) + (month - 1)
<1>1. i \in Nat /\ YearOfMonth(i) = year /\ NumberInYear(i) = month
  BY SMT DEF YearOfMonth, NumberInYear
<1> HIDE DEF i
<1>2. DateFound(i) = DateDue(i)
  BY <1>1, MonthsBegin
<1>3. QED
  BY <1>1, <1>2 DEF DateFound, DateDue

\* In every month of every year from 1970, day_of_month gives the days from 1 to
\* the last: the numbers of days that HelpersExact compares for 400 years.
LEMMA EveryMonthExact ==
    ASSUME NEW year \in Nat, NEW month \in 1 .. 12, year >= 1970
    PROVE  MonthExact(month, year)
<1> SUFFICES ASSUME NEW day \in 1 .. DaysInMonth(month, year)
             PROVE  DayOfMonth(FirstDayOf(month, year) + day - 1) = day
  BY DEF MonthExact
<1> DEFINE k == day - 1
           first == FirstDayOf(month, year)
<1>0. DaysInMonth(month, year) \in Nat
  BY DEF DaysInMonth
<1>1. k \in Nat /\ k < DaysInMonth(month, year) /\ k + 1 = day
  BY <1>0
<1>2. first \in Nat /\ first + day - 1 = first + k /\ first + k \in Nat
  BY <1>1, FirstDays
<1>3. DateOf(first) = <<year, month, 1>>
  BY MonthBegins
<1> HIDE DEF first, k
<1>4. DateOf(first + k) = <<year, month, day>>
  BY <1>1, <1>2, <1>3, DatesOfMonth
<1>5. DayOfMonth(first + k) = DateOf(first + k)[3]
  BY <1>2, DayOfMonthIn DEF DateOf, CivilDate
<1>6. QED
  BY <1>2, <1>4, <1>5 DEF first
===============================================================================
