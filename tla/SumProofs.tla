------------------------------ MODULE SumProofs ------------------------------
(***************************************************************************)
(* Sums over finite sets: what the Ledger's positions, the Merchant's       *)
(* books, a basket's quantities and a quote's shares are made of.           *)
(*                                                                         *)
(* The induction theorems of the library take an operator, which the        *)
(* provers cannot instantiate.  Here the least element of a set of numbers  *)
(* stands in for them: an inductive set of numbers is Nat, and what holds   *)
(* of {} and stays when an element is added holds of every finite set.      *)
(***************************************************************************)
EXTENDS Integers, Functions, FiniteSets, FiniteSetTheorems, WellFoundedInduction, TLAPS

-----------------------------------------------------------------------------
(* Induction, with sets in the place of predicates. *)

Below == {ss \in Nat \X Nat : ss[1] < ss[2]}

LEMMA BelowWF == IsWellFoundedOn(Below, Nat)
BY NatLessThanWellFounded DEF OpToRel, Below

LEMMA Least == ASSUME NEW T \in SUBSET Nat, T # {} PROVE \E n \in T : \A m \in T : n <= m
<1>1. PICK n \in T : \A m \in T : <<m, n>> \notin Below
  BY BelowWF, WFMin
<1>2. \A m \in T : ~(m < n)
  BY <1>1 DEF Below
<1> QED
  BY <1>1, <1>2

(* A set of numbers that holds 0 and, with each number, the next, is Nat.   *)
LEMMA Inductive ==
    ASSUME NEW P \in SUBSET Nat, 0 \in P, \A n \in P : n + 1 \in P
    PROVE  P = Nat
<1> SUFFICES ASSUME Nat \ P # {} PROVE FALSE
  OBVIOUS
<1>1. PICK n \in Nat \ P : \A m \in Nat \ P : n <= m
  BY Least
<1>2. n # 0 /\ n - 1 \in Nat /\ n - 1 \notin Nat \ P
  BY <1>1
<1> QED
  BY <1>1, <1>2

LEMMA FiniteInductive ==
    ASSUME NEW S, IsFiniteSet(S), NEW P \in SUBSET (SUBSET S), {} \in P,
           \A A \in P, x \in S : x \notin A => A \cup {x} \in P
    PROVE  S \in P
<1> DEFINE N == {n \in Nat : \A A \in SUBSET S : Cardinality(A) = n => A \in P}
<1>0. \A A \in SUBSET S : /\ IsFiniteSet(A) /\ Cardinality(A) \in Nat
                          /\ Cardinality(A) = 0 => A = {}
                          /\ \A x \in A : Cardinality(A \ {x}) = Cardinality(A) - 1
  BY FS_Subset, FS_CardinalityType, FS_EmptySet, FS_RemoveElement
<1>1. 0 \in N
  BY <1>0
<1>2. \A n \in N : n + 1 \in N
  <2> SUFFICES ASSUME NEW n \in N, NEW A \in SUBSET S, Cardinality(A) = n + 1 PROVE A \in P
    OBVIOUS
  <2>1. n \in Nat
    OBVIOUS
  <2>2. A # {}
    <3>1. Cardinality({}) = 0 /\ n + 1 # 0
      BY <2>1, FS_EmptySet
    <3> QED
      BY <3>1
  <2>3. PICK x \in A : TRUE
    BY <2>2
  <2>4. A \ {x} \in P
    <3>1. Cardinality(A \ {x}) = n
      BY <1>0, <2>1, <2>3
    <3> QED
      BY <3>1
  <2>5. (A \ {x}) \cup {x} = A /\ x \in S
    BY <2>3
  <2> QED
    BY <2>4, <2>5
<1>3. N = Nat
  <2> HIDE DEF N
  <2>1. N \in SUBSET Nat
    BY DEF N
  <2> QED
    BY <1>1, <1>2, <2>1, Inductive
<1> QED
  BY <1>0, <1>3

-----------------------------------------------------------------------------
(* The recursion behind a sum has one solution, whatever element it takes   *)
(* first.                                                                   *)

Pick(s) == CHOOSE x \in s : TRUE
Body(f, g, s) == IF s = {} THEN 0 ELSE f[Pick(s)] + g[s \ {Pick(s)}]
Iter(f, S) == CHOOSE g : g = [s \in SUBSET S |-> Body(f, g, s)]
LEMMA SumIsIter == ASSUME NEW f, NEW S PROVE SumFunctionOnSet(f, S) = Iter(f, S)[S]
BY DEF SumFunctionOnSet, FoldFunctionOnSet, MapThenFoldSet, Iter, Body, Pick

Small(S, n) == {s \in SUBSET S : Cardinality(s) <= n}
Upto(f, S, n) == {g \in [Small(S, n) -> Int] : \A s \in Small(S, n) : g[s] = Body(f, g, s)}

LEMMA Fewer ==
    ASSUME NEW S, IsFiniteSet(S), NEW s \in SUBSET S
    PROVE  /\ IsFiniteSet(s) /\ Cardinality(s) \in Nat
           /\ s # {} => Pick(s) \in s /\ Cardinality(s) # 0
           /\ s = {} <=> Cardinality(s) = 0
           /\ \A x \in s : Cardinality(s \ {x}) = Cardinality(s) - 1 /\ s \ {x} \in SUBSET S
<1>1. IsFiniteSet(s) /\ Cardinality(s) \in Nat
  BY FS_Subset, FS_CardinalityType
<1>2. s # {} => Pick(s) \in s
  BY DEF Pick
<1>3. s = {} <=> Cardinality(s) = 0
  BY <1>1, FS_EmptySet
<1>4. \A x \in s : Cardinality(s \ {x}) = Cardinality(s) - 1
  BY <1>1, FS_RemoveElement
<1> QED
  BY <1>1, <1>2, <1>3, <1>4

LEMMA Grows ==
    ASSUME NEW S, IsFiniteSet(S), NEW f, \A x \in S : f[x] \in Int, NEW n \in Nat, Upto(f, S, n) # {}
    PROVE  Upto(f, S, n + 1) # {}
<1>1. PICK g \in Upto(f, S, n) : TRUE
  OBVIOUS
<1> DEFINE h == [s \in Small(S, n + 1) |-> Body(f, g, s)]
<1>2. \A s \in Small(S, n + 1) : s \in SUBSET S /\ Cardinality(s) <= n + 1
  BY DEF Small
<1>3. \A s \in Small(S, n + 1) : s # {} =>
        Pick(s) \in S /\ s \ {Pick(s)} \in Small(S, n)
  <2> TAKE s \in Small(S, n + 1)
  <2> HAVE s # {}
  <2>1. Pick(s) \in s /\ s \ {Pick(s)} \in SUBSET S /\ Cardinality(s) \in Nat
        /\ Cardinality(s \ {Pick(s)}) = Cardinality(s) - 1
    BY <1>2, Fewer
  <2> QED
    BY <1>2, <2>1 DEF Small
<1>4. Small(S, n) \subseteq Small(S, n + 1)
  <2> SUFFICES ASSUME NEW s \in Small(S, n) PROVE s \in Small(S, n + 1)
    OBVIOUS
  <2>1. s \in SUBSET S /\ Cardinality(s) <= n /\ Cardinality(s) \in Nat
    BY Fewer DEF Small
  <2> QED
    BY <2>1 DEF Small
<1>5. \A s \in Small(S, n) : h[s] = g[s]
  BY <1>1, <1>4 DEF Upto
<1>6. \A s \in Small(S, n + 1) : Body(f, g, s) \in Int
  <2> TAKE s \in Small(S, n + 1)
  <2>1. CASE s = {}
    BY <2>1 DEF Body
  <2>2. CASE s # {}
    <3>1. f[Pick(s)] \in Int
      BY <1>3, <2>2
    <3>2. g[s \ {Pick(s)}] \in Int
      BY <1>1, <1>3, <2>2 DEF Upto
    <3> QED
      BY <2>2, <3>1, <3>2 DEF Body
  <2> QED
    BY <2>1, <2>2
<1>7. h \in [Small(S, n + 1) -> Int]
  BY <1>6
<1>8. \A s \in Small(S, n + 1) : h[s] = Body(f, h, s)
  <2> TAKE s \in Small(S, n + 1)
  <2>1. h[s] = Body(f, g, s)
    OBVIOUS
  <2>2. CASE s = {}
    BY <2>1, <2>2 DEF Body
  <2>3. CASE s # {}
    <3>1. h[s \ {Pick(s)}] = g[s \ {Pick(s)}]
      BY <1>3, <1>5, <2>3
    <3> HIDE DEF h
    <3> QED
      BY <2>1, <2>3, <3>1 DEF Body
  <2> QED
    BY <2>2, <2>3
<1> HIDE DEF h
<1>9. h \in Upto(f, S, n + 1)
  BY <1>7, <1>8 DEF Upto
<1> QED
  BY <1>9

LEMMA IterExists ==
    ASSUME NEW S, IsFiniteSet(S), NEW f, \A x \in S : f[x] \in Int
    PROVE  \E g \in [SUBSET S -> Int] : g = [s \in SUBSET S |-> Body(f, g, s)]
<1> DEFINE P == {n \in Nat : Upto(f, S, n) # {}}
<1>1. 0 \in P
  <2> DEFINE g == [s \in Small(S, 0) |-> 0]
  <2>1. \A s \in Small(S, 0) : s = {}
    <3> TAKE s \in Small(S, 0)
    <3>1. s \in SUBSET S /\ Cardinality(s) <= 0 /\ Cardinality(s) \in Nat
      BY Fewer DEF Small
    <3> QED
      BY <3>1, Fewer
  <2>2. g \in Upto(f, S, 0)
    BY <2>1 DEF Upto, Body
  <2> QED
    BY <2>2
<1>2. \A n \in P : n + 1 \in P
  BY Grows
<1>3. P = Nat
  <2> HIDE DEF P
  <2>1. P \in SUBSET Nat
    BY DEF P
  <2> QED
    BY <1>1, <1>2, <2>1, Inductive
<1>4. Cardinality(S) \in P
  BY <1>3, FS_CardinalityType
<1>5. PICK g \in Upto(f, S, Cardinality(S)) : TRUE
  BY <1>4
<1>6. Small(S, Cardinality(S)) = SUBSET S
  <2>1. \A s \in SUBSET S : Cardinality(s) <= Cardinality(S)
    BY FS_Subset
  <2> QED
    BY <2>1 DEF Small
<1>7. g \in [SUBSET S -> Int] /\ \A s \in SUBSET S : g[s] = Body(f, g, s)
  BY <1>5, <1>6 DEF Upto
<1>8. g = [s \in SUBSET S |-> Body(f, g, s)]
  BY <1>7
<1> QED
  BY <1>7, <1>8

(* The fold's function obeys its recursion. *)
LEMMA IterRecurs ==
    ASSUME NEW S, IsFiniteSet(S), NEW f, \A x \in S : f[x] \in Int
    PROVE  \A s \in SUBSET S : Iter(f, S)[s] = Body(f, Iter(f, S), s)
<1>1. Iter(f, S) = [s \in SUBSET S |-> Body(f, Iter(f, S), s)]
  BY IterExists DEF Iter
<1> QED
  BY <1>1

(* Two folds agree where what they add does, whatever larger sets they run over. *)
LEMMA IterAgrees ==
    ASSUME NEW S, IsFiniteSet(S), NEW f, \A x \in S : f[x] \in Int,
           NEW T, IsFiniteSet(T), NEW h, \A x \in T : h[x] \in Int,
           NEW A \in SUBSET (S \cap T), \A x \in A : f[x] = h[x]
    PROVE  Iter(f, S)[A] = Iter(h, T)[A] /\ Iter(f, S)[A] \in Int
<1> DEFINE P == {n \in Nat : \A s \in SUBSET A : Cardinality(s) = n =>
                    Iter(f, S)[s] = Iter(h, T)[s] /\ Iter(f, S)[s] \in Int}
<1>0. IsFiniteSet(A)
  BY FS_Subset
<1>1. 0 \in P
  <2> SUFFICES ASSUME NEW s \in SUBSET A, Cardinality(s) = 0
               PROVE  Iter(f, S)[s] = Iter(h, T)[s] /\ Iter(f, S)[s] \in Int
    OBVIOUS
  <2>1. s = {}
    BY <1>0, Fewer
  <2>2. s \in SUBSET S /\ s \in SUBSET T
    OBVIOUS
  <2>3. Iter(f, S)[s] = Body(f, Iter(f, S), s) /\ Iter(h, T)[s] = Body(h, Iter(h, T), s)
    BY <2>2, IterRecurs
  <2> QED
    BY <2>1, <2>3 DEF Body
<1>2. \A n \in P : n + 1 \in P
  <2> SUFFICES ASSUME NEW n \in P, NEW s \in SUBSET A, Cardinality(s) = n + 1
               PROVE  Iter(f, S)[s] = Iter(h, T)[s] /\ Iter(f, S)[s] \in Int
    OBVIOUS
  <2> DEFINE x == Pick(s)
             r == s \ {x}
  <2>0. n \in Nat
    OBVIOUS
  <2>1. s # {} /\ x \in s /\ r \in SUBSET A /\ Cardinality(r) = n
    <3>1. s # {} /\ Pick(s) \in s
      BY <1>0, <2>0, Fewer
    <3>2. Cardinality(s \ {Pick(s)}) = n + 1 - 1
      BY <1>0, <3>1, Fewer
    <3> QED
      BY <2>0, <3>1, <3>2
  <2>2. s \in SUBSET S /\ s \in SUBSET T
    OBVIOUS
  <2>3. Iter(f, S)[s] = Body(f, Iter(f, S), s) /\ Iter(h, T)[s] = Body(h, Iter(h, T), s)
    BY <2>2, IterRecurs
  <2>4. Iter(f, S)[r] = Iter(h, T)[r] /\ Iter(f, S)[r] \in Int
    BY <2>1
  <2>5. f[x] = h[x] /\ f[x] \in Int
    BY <2>1
  <2>6. Body(f, Iter(f, S), s) = f[x] + Iter(f, S)[r] /\ Body(h, Iter(h, T), s) = h[x] + Iter(h, T)[r]
    BY <2>1 DEF Body
  <2> HIDE DEF x, r
  <2> QED
    BY <2>3, <2>4, <2>5, <2>6
<1>3. P = Nat
  <2> HIDE DEF P
  <2>1. P \in SUBSET Nat
    BY DEF P
  <2> QED
    BY <1>1, <1>2, <2>1, Inductive
<1> QED
  BY <1>0, <1>3, FS_CardinalityType

(* Whatever is picked first, the sum is the same. *)
LEMMA IterPulls ==
    ASSUME NEW S, IsFiniteSet(S), NEW f, \A x \in S : f[x] \in Int
    PROVE  \A s \in SUBSET S, x \in S : x \in s => Iter(f, S)[s] = f[x] + Iter(f, S)[s \ {x}]
<1> DEFINE g == Iter(f, S)
           Pulls(s) == \A x \in s : g[s] = f[x] + g[s \ {x}]
           P == {n \in Nat : \A s \in SUBSET S : Cardinality(s) = n => Pulls(s)}
<1>0. \A s \in SUBSET S : g[s] \in Int
  BY IterAgrees
<1>1. 0 \in P
  BY Fewer
<1>2. \A n \in P : n + 1 \in P
  <2> SUFFICES ASSUME NEW n \in P, NEW s \in SUBSET S, Cardinality(s) = n + 1 PROVE Pulls(s)
    BY DEF P
  <2> SUFFICES ASSUME NEW x \in s PROVE g[s] = f[x] + g[s \ {x}]
    BY DEF Pulls
  <2> DEFINE y == Pick(s)
  <2>1. y \in s /\ s # {}
    BY DEF Pick
  <2>2. g[s] = f[y] + g[s \ {y}]
    <3>1. g[s] = Body(f, g, s)
      BY IterRecurs
    <3> QED
      BY <2>1, <3>1 DEF Body
  <2>3. CASE x = y
    BY <2>2, <2>3
  <2>4. CASE x # y
    <3> DEFINE r == (s \ {x}) \ {y}
    <3>1. r = (s \ {y}) \ {x} /\ r \in SUBSET S /\ s \ {y} \in SUBSET S /\ s \ {x} \in SUBSET S
      OBVIOUS
    <3>2. n \in Nat /\ Cardinality(s \ {y}) = n /\ Cardinality(s \ {x}) = n
      <4>1. n \in Nat
        BY DEF P
      <4>2. \A z \in s : Cardinality(s \ {z}) = n + 1 - 1
        BY Fewer
      <4> QED
        BY <2>1, <4>1, <4>2
    <3>3. Pulls(s \ {y}) /\ Pulls(s \ {x})
      BY <3>1, <3>2 DEF P
    <3>4. x \in s \ {y} /\ y \in s \ {x}
      BY <2>1, <2>4
    <3>5. g[s \ {y}] = f[x] + g[(s \ {y}) \ {x}] /\ g[s \ {x}] = f[y] + g[r]
      BY <3>3, <3>4
    <3>6. f[x] \in Int /\ f[y] \in Int /\ g[r] \in Int
      BY <1>0, <2>1, <3>1
    <3>7. g[s \ {y}] = f[x] + g[r]
      BY <3>1, <3>5
    <3> HIDE DEF y, r, g
    <3> QED
      BY <2>2, <3>5, <3>6, <3>7
  <2> QED
    BY <2>3, <2>4
<1>3. P = Nat
  <2> HIDE DEF P
  <2>1. P \in SUBSET Nat
    BY DEF P
  <2> QED
    BY <1>1, <1>2, <2>1, Inductive
<1> QED
  BY <1>3, Fewer DEF P, Pulls

-----------------------------------------------------------------------------
(* Sums. *)

LEMMA SumEmpty == ASSUME NEW f PROVE SumFunctionOnSet(f, {}) = 0
<1>1. IsFiniteSet({})
  BY FS_EmptySet
<1> QED
  BY <1>1, SumIsIter, IterRecurs DEF Body

LEMMA SumInt ==
    ASSUME NEW S, IsFiniteSet(S), NEW f, \A x \in S : f[x] \in Int
    PROVE  SumFunctionOnSet(f, S) \in Int
BY SumIsIter, IterAgrees

LEMMA SumSame ==
    ASSUME NEW S, IsFiniteSet(S), NEW f, NEW h, \A x \in S : f[x] \in Int /\ f[x] = h[x]
    PROVE  SumFunctionOnSet(f, S) = SumFunctionOnSet(h, S)
<1>1. \A x \in S : h[x] \in Int
  OBVIOUS
<1> QED
  BY <1>1, SumIsIter, IterAgrees

LEMMA SumSplit ==
    ASSUME NEW S, IsFiniteSet(S), NEW f, \A x \in S : f[x] \in Int, NEW x \in S
    PROVE  /\ SumFunctionOnSet(f, S) = f[x] + SumFunctionOnSet(f, S \ {x})
           /\ SumFunctionOnSet(f, S \ {x}) \in Int
<1>1. IsFiniteSet(S \ {x}) /\ \A y \in S \ {x} : f[y] \in Int
  BY FS_Subset
<1>2. Iter(f, S)[S] = f[x] + Iter(f, S)[S \ {x}]
  BY IterPulls
<1>3. Iter(f, S)[S \ {x}] = Iter(f, S \ {x})[S \ {x}]
  BY <1>1, IterAgrees
<1> QED
  BY <1>1, <1>2, <1>3, SumIsIter, SumInt

LEMMA SumMore ==
    ASSUME NEW S, IsFiniteSet(S), NEW f, NEW x, x \notin S, \A y \in S \cup {x} : f[y] \in Int
    PROVE  /\ SumFunctionOnSet(f, S \cup {x}) = f[x] + SumFunctionOnSet(f, S)
           /\ IsFiniteSet(S \cup {x}) /\ SumFunctionOnSet(f, S) \in Int
<1>1. IsFiniteSet(S \cup {x}) /\ (S \cup {x}) \ {x} = S
  BY FS_AddElement
<1> QED
  BY <1>1, SumSplit

(* One term changes. *)
LEMMA SumChanged ==
    ASSUME NEW S, IsFiniteSet(S), NEW f, NEW h, NEW x \in S,
           \A y \in S : f[y] \in Int /\ h[y] \in Int,
           \A y \in S : y # x => f[y] = h[y]
    PROVE  SumFunctionOnSet(h, S) = SumFunctionOnSet(f, S) + h[x] - f[x]
<1>1. /\ SumFunctionOnSet(f, S) = f[x] + SumFunctionOnSet(f, S \ {x})
      /\ SumFunctionOnSet(h, S) = h[x] + SumFunctionOnSet(h, S \ {x})
      /\ SumFunctionOnSet(f, S \ {x}) \in Int
  BY SumSplit
<1>2. SumFunctionOnSet(f, S \ {x}) = SumFunctionOnSet(h, S \ {x})
  BY FS_Subset, SumSame
<1> QED
  BY <1>1, <1>2

(* A sum of what is never less than nought is not, and holds every term.    *)
LEMMA SumNat ==
    ASSUME NEW S, IsFiniteSet(S), NEW f, \A x \in S : f[x] \in Nat
    PROVE  /\ SumFunctionOnSet(f, S) \in Nat
           /\ \A x \in S : f[x] <= SumFunctionOnSet(f, S)
<1> DEFINE P == {A \in SUBSET S : SumFunctionOnSet(f, A) \in Nat}
<1>1. {} \in P
  BY SumEmpty
<1>2. ASSUME NEW A \in P, NEW x \in S, x \notin A PROVE A \cup {x} \in P
  <2>1. IsFiniteSet(A) /\ \A y \in A \cup {x} : f[y] \in Int
    BY FS_Subset
  <2>2. SumFunctionOnSet(f, A \cup {x}) = f[x] + SumFunctionOnSet(f, A)
    BY <1>2, <2>1, SumMore
  <2> QED
    BY <2>2
<1>3. \A A \in SUBSET S : A \in P
  <2> TAKE A \in SUBSET S
  <2> DEFINE Q == P \cap SUBSET A
  <2>1. IsFiniteSet(A) /\ Q \in SUBSET (SUBSET A) /\ {} \in Q
    BY <1>1, FS_Subset
  <2>2. \A B \in Q, x \in A : x \notin B => B \cup {x} \in Q
    BY <1>2
  <2> HIDE DEF Q
  <2>3. A \in Q
    BY <2>1, <2>2, FiniteInductive
  <2> QED
    BY <2>3 DEF Q
<1>4. ASSUME NEW x \in S PROVE f[x] <= SumFunctionOnSet(f, S)
  <2>1. SumFunctionOnSet(f, S) = f[x] + SumFunctionOnSet(f, S \ {x})
    BY SumSplit
  <2>2. SumFunctionOnSet(f, S \ {x}) \in Nat
    BY <1>3
  <2> QED
    BY <2>1, <2>2
<1> QED
  BY <1>3, <1>4

(* Sums of two functions, and of a function by a factor. *)
LEMMA SumPlus ==
    ASSUME NEW S, IsFiniteSet(S), NEW f, NEW h, NEW g,
           \A x \in S : f[x] \in Int /\ h[x] \in Int /\ g[x] = f[x] + h[x]
    PROVE  SumFunctionOnSet(g, S) = SumFunctionOnSet(f, S) + SumFunctionOnSet(h, S)
<1> DEFINE Fits(A) == SumFunctionOnSet(g, A) = SumFunctionOnSet(f, A) + SumFunctionOnSet(h, A)
           P == {A \in SUBSET S : Fits(A)}
<1>1. {} \in P
  BY SumEmpty
<1>2. ASSUME NEW A \in P, NEW x \in S, x \notin A PROVE A \cup {x} \in P
  <2>1. IsFiniteSet(A) /\ \A y \in A \cup {x} : f[y] \in Int /\ h[y] \in Int /\ g[y] \in Int
    BY FS_Subset
  <2>2. /\ SumFunctionOnSet(f, A \cup {x}) = f[x] + SumFunctionOnSet(f, A)
        /\ SumFunctionOnSet(h, A \cup {x}) = h[x] + SumFunctionOnSet(h, A)
        /\ SumFunctionOnSet(g, A \cup {x}) = g[x] + SumFunctionOnSet(g, A)
        /\ SumFunctionOnSet(f, A) \in Int /\ SumFunctionOnSet(h, A) \in Int
    BY <1>2, <2>1, SumMore
  <2> QED
    BY <2>1, <2>2
<1>3. S \in P
  <2>1. P \in SUBSET (SUBSET S)
    OBVIOUS
  <2> HIDE DEF P
  <2> QED
    BY <1>1, <1>2, <2>1, FiniteInductive
<1> QED
  BY <1>3

LEMMA SumTimes ==
    ASSUME NEW S, IsFiniteSet(S), NEW a \in Int, NEW f, NEW g,
           \A x \in S : f[x] \in Int /\ g[x] = a * f[x]
    PROVE  SumFunctionOnSet(g, S) = a * SumFunctionOnSet(f, S)
<1> DEFINE P == {A \in SUBSET S : SumFunctionOnSet(g, A) = a * SumFunctionOnSet(f, A)}
<1>1. {} \in P
  BY SumEmpty
<1>2. ASSUME NEW A \in P, NEW x \in S, x \notin A PROVE A \cup {x} \in P
  <2>1. IsFiniteSet(A) /\ \A y \in A \cup {x} : f[y] \in Int /\ g[y] \in Int
    BY FS_Subset
  <2>2. /\ SumFunctionOnSet(f, A \cup {x}) = f[x] + SumFunctionOnSet(f, A)
        /\ SumFunctionOnSet(g, A \cup {x}) = g[x] + SumFunctionOnSet(g, A)
        /\ SumFunctionOnSet(f, A) \in Int
    BY <1>2, <2>1, SumMore
  <2>3. \A u, v \in Int : a * (u + v) = a * u + a * v
    OBVIOUS
  <2> QED
    BY <2>1, <2>2, <2>3
<1>3. S \in P
  <2>1. P \in SUBSET (SUBSET S)
    OBVIOUS
  <2> HIDE DEF P
  <2> QED
    BY <1>1, <1>2, <2>1, FiniteInductive
<1> QED
  BY <1>3

LEMMA SumZero ==
    ASSUME NEW S, IsFiniteSet(S), NEW f, \A x \in S : f[x] = 0
    PROVE  SumFunctionOnSet(f, S) = 0
<1>1. \A x \in S : f[x] \in Int /\ f[x] = f[x] + f[x]
  OBVIOUS
<1>2. SumFunctionOnSet(f, S) = SumFunctionOnSet(f, S) + SumFunctionOnSet(f, S)
  BY <1>1, SumPlus
<1>3. SumFunctionOnSet(f, S) \in Int
  BY <1>1, SumInt
<1>4. \A n \in Int : n = n + n => n = 0
  OBVIOUS
<1> QED
  BY <1>2, <1>3, <1>4

(* Less in every term is less in all. *)
LEMMA SumLess ==
    ASSUME NEW S, IsFiniteSet(S), NEW f, NEW h, \A x \in S : f[x] \in Int /\ h[x] \in Int,
           \A x \in S : h[x] <= f[x]
    PROVE  SumFunctionOnSet(h, S) <= SumFunctionOnSet(f, S)
<1> DEFINE d == [x \in S |-> f[x] - h[x]]
<1>1. \A x \in S : d[x] \in Nat /\ d[x] \in Int /\ f[x] = h[x] + d[x]
  OBVIOUS
<1> HIDE DEF d
<1>2. SumFunctionOnSet(f, S) = SumFunctionOnSet(h, S) + SumFunctionOnSet(d, S)
  BY <1>1, SumPlus
<1>3. SumFunctionOnSet(d, S) \in Nat
  BY <1>1, SumNat
<1>4. SumFunctionOnSet(h, S) \in Int
  BY SumInt
<1> QED
  BY <1>2, <1>3, <1>4

(* What lies apart is summed apart. *)
LEMMA SumUnion ==
    ASSUME NEW S, IsFiniteSet(S), NEW T, IsFiniteSet(T), S \cap T = {},
           NEW f, \A x \in S \cup T : f[x] \in Int
    PROVE  SumFunctionOnSet(f, S \cup T) = SumFunctionOnSet(f, S) + SumFunctionOnSet(f, T)
<1> DEFINE P == {B \in SUBSET T :
                   SumFunctionOnSet(f, S \cup B) = SumFunctionOnSet(f, S) + SumFunctionOnSet(f, B)}
<1>1. {} \in P
  <2>1. S \cup {} = S /\ SumFunctionOnSet(f, S) \in Int
    BY SumInt
  <2> QED
    BY <2>1, SumEmpty
<1>2. ASSUME NEW B \in P, NEW x \in T, x \notin B PROVE B \cup {x} \in P
  <2>1. /\ IsFiniteSet(B) /\ IsFiniteSet(S \cup B) /\ x \notin S \cup B
        /\ S \cup (B \cup {x}) = (S \cup B) \cup {x}
    BY <1>2, FS_Subset, FS_Union
  <2>2. /\ \A y \in (S \cup B) \cup {x} : f[y] \in Int
        /\ \A y \in B \cup {x} : f[y] \in Int
    OBVIOUS
  <2>3. SumFunctionOnSet(f, (S \cup B) \cup {x}) = f[x] + SumFunctionOnSet(f, S \cup B)
    BY <2>1, <2>2, SumMore
  <2>4. SumFunctionOnSet(f, B \cup {x}) = f[x] + SumFunctionOnSet(f, B)
    BY <1>2, <2>1, <2>2, SumMore
  <2>5. f[x] \in Int /\ SumFunctionOnSet(f, S) \in Int /\ SumFunctionOnSet(f, B) \in Int
    BY <2>1, <2>2, SumInt
  <2>6. SumFunctionOnSet(f, S \cup B) = SumFunctionOnSet(f, S) + SumFunctionOnSet(f, B)
    OBVIOUS
  <2>7. \A a, u, v \in Int : a + (u + v) = u + (a + v)
    OBVIOUS
  <2>8. SumFunctionOnSet(f, S \cup (B \cup {x}))
          = SumFunctionOnSet(f, S) + SumFunctionOnSet(f, B \cup {x})
    <3>1. SumFunctionOnSet(f, S \cup (B \cup {x}))
            = f[x] + (SumFunctionOnSet(f, S) + SumFunctionOnSet(f, B))
      BY <2>1, <2>3, <2>6, Zenon
    <3>2. SumFunctionOnSet(f, S) + SumFunctionOnSet(f, B \cup {x})
            = SumFunctionOnSet(f, S) + (f[x] + SumFunctionOnSet(f, B))
      BY <2>4, Zenon
    <3> QED
      BY <2>5, <2>7, <3>1, <3>2, Zenon
  <2> QED
    BY <2>8
<1>3. T \in P
  <2>1. P \in SUBSET (SUBSET T)
    OBVIOUS
  <2> HIDE DEF P
  <2> QED
    BY <1>1, <1>2, <2>1, FiniteInductive
<1> QED
  BY <1>3

Fibre(h, S, p) == {x \in S : h[x] = p}

(* A sum by heads: h says under which head of P a term goes, and g is the   *)
(* sum under each head.                                                     *)
LEMMA SumByHead ==
    ASSUME NEW S, IsFiniteSet(S), NEW P, IsFiniteSet(P), NEW h, \A x \in S : h[x] \in P,
           NEW f, \A x \in S : f[x] \in Int,
           NEW g, \A p \in P : g[p] = SumFunctionOnSet(f, Fibre(h, S, p))
    PROVE  SumFunctionOnSet(g, P) = SumFunctionOnSet(f, S)
<1> USE DEF Fibre
<1> DEFINE Under(B) == {x \in S : h[x] \in B}
           Q == {B \in SUBSET P : SumFunctionOnSet(g, B) = SumFunctionOnSet(f, Under(B))}
<1>1. {} \in Q
  <2>1. Under({}) = {}
    OBVIOUS
  <2> QED
    BY <2>1, SumEmpty
<1>2. ASSUME NEW B \in Q, NEW p \in P, p \notin B PROVE B \cup {p} \in Q
  <2> DEFINE own == {x \in S : h[x] = p}
  <2>1. /\ Under(B \cup {p}) = Under(B) \cup own /\ Under(B) \cap own = {}
        /\ Under(B) \in SUBSET S /\ own \in SUBSET S
    BY <1>2
  <2>2. IsFiniteSet(Under(B)) /\ IsFiniteSet(own) /\ IsFiniteSet(B)
    <3>1. B \in SUBSET P
      OBVIOUS
    <3> QED
      BY <2>1, <3>1, FS_Subset
  <2>3. \A q \in P : g[q] \in Int
    <3> TAKE q \in P
    <3>1. IsFiniteSet({x \in S : h[x] = q}) /\ \A x \in {x \in S : h[x] = q} : f[x] \in Int
      BY FS_Subset
    <3> QED
      BY <3>1, SumInt
  <2>4. SumFunctionOnSet(g, B \cup {p}) = g[p] + SumFunctionOnSet(g, B)
    <3>1. \A q \in B \cup {p} : g[q] \in Int
      BY <2>3
    <3> QED
      BY <1>2, <2>2, <3>1, SumMore
  <2>5. g[p] = SumFunctionOnSet(f, own) /\ SumFunctionOnSet(g, B) = SumFunctionOnSet(f, Under(B))
    OBVIOUS
  <2>6. /\ \A x \in Under(B) \cup own : f[x] \in Int
        /\ SumFunctionOnSet(f, Under(B)) \in Int /\ SumFunctionOnSet(f, own) \in Int
    BY <2>2, SumInt
  <2> HIDE DEF Under, own
  <2>7. SumFunctionOnSet(f, Under(B) \cup own) = SumFunctionOnSet(f, Under(B)) + SumFunctionOnSet(f, own)
    BY <2>1, <2>2, <2>6, SumUnion
  <2>8. SumFunctionOnSet(g, B \cup {p}) = SumFunctionOnSet(f, Under(B \cup {p}))
    <3>1. SumFunctionOnSet(f, Under(B \cup {p}))
            = SumFunctionOnSet(f, Under(B)) + SumFunctionOnSet(f, own)
      BY <2>1, <2>7
    <3>2. SumFunctionOnSet(g, B \cup {p}) = SumFunctionOnSet(f, own) + SumFunctionOnSet(f, Under(B))
      BY <2>4, <2>5
    <3>3. \A u, v \in Int : u + v = v + u
      OBVIOUS
    <3> QED
      BY <2>6, <3>1, <3>2, <3>3
  <2> QED
    BY <2>8
<1>3. P \in Q
  <2>1. Q \in SUBSET (SUBSET P)
    OBVIOUS
  <2> HIDE DEF Q
  <2> QED
    BY <1>1, <1>2, <2>1, FiniteInductive
<1>4. Under(P) = S
  OBVIOUS
<1> QED
  BY <1>3, <1>4

(* In a line of people, as many have fewer than n ahead of them as n says.  *)
LEMMA FirstInLine ==
    ASSUME NEW S, IsFiniteSet(S), NEW Ahead \in [S -> SUBSET S],
           \A s \in S : s \notin Ahead[s],
           \A s, t \in S : s # t => s \in Ahead[t] \/ t \in Ahead[s],
           \A s, t \in S : t \in Ahead[s] => Ahead[t] \subseteq Ahead[s],
           NEW n \in 0..Cardinality(S)
    PROVE  Cardinality({s \in S : Cardinality(Ahead[s]) < n}) = n
<1> DEFINE c == Cardinality(S)
           front == {s \in S : Cardinality(Ahead[s]) < n}
           rear  == S \ front
<1>1. c \in Nat /\ n \in Nat /\ n <= c
  BY FS_CardinalityType
<1>2. \A s \in S : /\ IsFiniteSet(Ahead[s]) /\ Cardinality(Ahead[s]) \in 0..(c - 1)
  <2> TAKE s \in S
  <2>1. IsFiniteSet(Ahead[s]) /\ Cardinality(Ahead[s]) <= c /\ (c = Cardinality(Ahead[s]) => S = Ahead[s])
    BY FS_Subset
  <2>2. Cardinality(Ahead[s]) \in Nat /\ Cardinality(Ahead[s]) # c
    BY <2>1, FS_CardinalityType
  <2> QED
    BY <1>1, <2>1, <2>2
<1>3. ASSUME NEW s \in S, NEW t \in S, s # t PROVE Cardinality(Ahead[s]) # Cardinality(Ahead[t])
  <2>1. \A u, v \in S : u \in Ahead[v] => Cardinality(Ahead[u]) # Cardinality(Ahead[v])
    <3> TAKE u, v \in S
    <3> HAVE u \in Ahead[v]
    <3>1. Ahead[u] \in SUBSET Ahead[v] /\ Ahead[u] # Ahead[v] /\ IsFiniteSet(Ahead[v])
      BY <1>2
    <3> QED
      BY <3>1, FS_Subset
  <2> QED
    BY <1>3, <2>1
<1>4. ASSUME NEW A \in SUBSET S, NEW a \in Int, NEW b \in Int,
             \A s \in A : Cardinality(Ahead[s]) \in a..b
      PROVE  Cardinality(A) <= IF a > b THEN 0 ELSE b - a + 1
  <2> DEFINE f == [s \in A |-> Cardinality(Ahead[s])]
  <2>1. f \in Injection(A, a..b)
    BY <1>3, <1>4 DEF Injection, IsInjective
  <2>2. IsFiniteSet(a..b) /\ Cardinality(a..b) = IF a > b THEN 0 ELSE b - a + 1
    BY FS_Interval
  <2> HIDE DEF f
  <2> QED
    BY <2>1, <2>2, FS_Injection
<1>5. front \in SUBSET S /\ rear \in SUBSET S
  OBVIOUS
<1>6. Cardinality(front) <= n
  <2>1. \A s \in front : Cardinality(Ahead[s]) \in 0..(n - 1)
    BY <1>1, <1>2
  <2>2. 0 \in Int /\ n - 1 \in Int /\ (IF 0 > n - 1 THEN 0 ELSE (n - 1) - 0 + 1) = n
    BY <1>1
  <2> HIDE DEF front, rear
  <2>3. Cardinality(front) <= IF 0 > n - 1 THEN 0 ELSE (n - 1) - 0 + 1
    BY <1>4, <1>5, <2>1, <2>2
  <2> QED
    BY <2>2, <2>3
<1>7. Cardinality(rear) <= c - n
  <2>1. \A s \in rear : Cardinality(Ahead[s]) \in n..(c - 1)
    BY <1>1, <1>2
  <2>2. n \in Int /\ c - 1 \in Int /\ (IF n > c - 1 THEN 0 ELSE (c - 1) - n + 1) = c - n
    BY <1>1
  <2> HIDE DEF front, rear
  <2>3. Cardinality(rear) <= IF n > c - 1 THEN 0 ELSE (c - 1) - n + 1
    BY <1>4, <1>5, <2>1, <2>2
  <2> QED
    BY <2>2, <2>3
<1>8. Cardinality(front) + Cardinality(rear) = c /\ Cardinality(front) \in Nat /\ Cardinality(rear) \in Nat
  <2>1. IsFiniteSet(front) /\ IsFiniteSet(rear)
    BY <1>5, FS_Subset
  <2>2. front \cup rear = S /\ front \cap rear = {}
    OBVIOUS
  <2> HIDE DEF front, rear
  <2>3. Cardinality(S) = Cardinality(front) + Cardinality(rear) - Cardinality({})
    BY <2>1, <2>2, FS_Union
  <2> QED
    BY <2>1, <2>3, FS_EmptySet, FS_CardinalityType
<1> HIDE DEF c, front, rear
<1>9. Cardinality(front) = n
  BY <1>1, <1>6, <1>7, <1>8
<1> QED
  BY <1>9 DEF front

(* A sum of ones counts them. *)
LEMMA SumCounts ==
    ASSUME NEW S, IsFiniteSet(S), NEW f, \A x \in S : f[x] \in {0, 1}
    PROVE  SumFunctionOnSet(f, S) = Cardinality({x \in S : f[x] = 1})
<1> DEFINE Ones(A) == {x \in A : f[x] = 1}
           P == {A \in SUBSET S : SumFunctionOnSet(f, A) = Cardinality(Ones(A))}
<1>1. {} \in P
  <2>1. Ones({}) = {}
    OBVIOUS
  <2> QED
    BY <2>1, SumEmpty, FS_EmptySet
<1>2. ASSUME NEW A \in P, NEW x \in S, x \notin A PROVE A \cup {x} \in P
  <2>1. IsFiniteSet(A) /\ IsFiniteSet(Ones(A)) /\ Cardinality(Ones(A)) \in Nat
    <3>1. IsFiniteSet(A) /\ Ones(A) \in SUBSET A
      BY FS_Subset
    <3> QED
      BY <3>1, FS_Subset, FS_CardinalityType
  <2>2. SumFunctionOnSet(f, A \cup {x}) = f[x] + Cardinality(Ones(A))
    <3>1. \A y \in A \cup {x} : f[y] \in Int
      OBVIOUS
    <3> QED
      BY <1>2, <2>1, <3>1, SumMore
  <2>3. Cardinality(Ones(A \cup {x})) = f[x] + Cardinality(Ones(A))
    <3>1. CASE f[x] = 1
      <4>1. Ones(A \cup {x}) = Ones(A) \cup {x} /\ x \notin Ones(A)
        BY <1>2, <3>1
      <4> HIDE DEF Ones
      <4> QED
        <5>1. Cardinality(Ones(A) \cup {x}) = Cardinality(Ones(A)) + 1
          BY <2>1, <4>1, FS_AddElement
        <5> QED
          <6>1. Cardinality(Ones(A \cup {x})) = Cardinality(Ones(A)) + 1
            BY <4>1, <5>1, Zenon
          <6> QED
            BY <2>1, <3>1, <6>1
    <3>2. CASE f[x] = 0
      <4>1. Ones(A \cup {x}) = Ones(A)
        BY <3>2
      <4> HIDE DEF Ones
      <4> QED
        BY <2>1, <3>2, <4>1
    <3> QED
      BY <3>1, <3>2
  <2> QED
    BY <2>2, <2>3
<1>3. S \in P
  <2>1. P \in SUBSET (SUBSET S)
    OBVIOUS
  <2> HIDE DEF P
  <2> QED
    BY <1>1, <1>2, <2>1, FiniteInductive
<1> QED
  BY <1>3

(* No term above a bound, no sum above as many times the bound.             *)
LEMMA SumAtMost ==
    ASSUME NEW S, IsFiniteSet(S), NEW b \in Nat, NEW f, \A x \in S : f[x] \in Int /\ f[x] <= b
    PROVE  SumFunctionOnSet(f, S) <= b * Cardinality(S)
<1> DEFINE one == [x \in S |-> 1]
           bs  == [x \in S |-> b]
<1>1. SumFunctionOnSet(one, S) = Cardinality(S)
  <2>1. (\A x \in S : one[x] \in {0, 1}) /\ {x \in S : one[x] = 1} = S
    OBVIOUS
  <2> HIDE DEF one
  <2> QED
    BY <2>1, SumCounts
<1>2. \A x \in S : one[x] \in Int /\ bs[x] \in Int /\ bs[x] = b * one[x] /\ f[x] <= bs[x]
  OBVIOUS
<1> HIDE DEF one, bs
<1>3. SumFunctionOnSet(bs, S) = b * SumFunctionOnSet(one, S)
  BY <1>2, SumTimes
<1>4. SumFunctionOnSet(f, S) <= SumFunctionOnSet(bs, S)
  BY <1>2, SumLess
<1> QED
  BY <1>1, <1>3, <1>4

-----------------------------------------------------------------------------
(* Shares: quotients and products of numbers that are not constants.        *)

LEMMA BelowMinus ==
    ASSUME NEW d \in Int, d > 0, NEW q \in Int, q < 0
    PROVE  d * q <= -d
<1>1. 0 - 1 \in Int /\ q <= 0 - 1
  OBVIOUS
<1> QED
  BY <1>1

LEMMA Quotients ==
    ASSUME NEW n \in Nat, NEW d \in Nat \ {0}
    PROVE  n \div d \in Nat /\ n % d \in 0..(d - 1) /\ n = d * (n \div d) + (n % d)
<1>1. n \div d \in Int
  OBVIOUS
<1>2. n % d \in 0..(d - 1)
  OBVIOUS
<1>0. d > 0 /\ d \in Int /\ n \in Int
  OBVIOUS
<1>3. n = d * (n \div d) + (n % d)
  BY <1>0
<1>4. ASSUME NEW q \in Int, NEW r \in 0..(d - 1), q < 0 PROVE d * q + r < 0
  <2>1. d * q <= -d
    BY <1>0, <1>4, BelowMinus
  <2>2. d * q \in Int
    BY <1>0
  <2> QED
    BY <1>0, <2>1, <2>2
<1>5. ~(n \div d < 0)
  BY <1>1, <1>2, <1>3, <1>4
<1> QED
  BY <1>1, <1>2, <1>3, <1>5

LEMMA NatTimes == ASSUME NEW a \in Nat, NEW b \in Nat PROVE a * b \in Nat
OBVIOUS

LEMMA IntTimes == ASSUME NEW a \in Int, NEW b \in Int PROVE a * b \in Int /\ a * b = b * a
OBVIOUS

LEMMA Cancels ==
    ASSUME NEW d \in Nat \ {0}, NEW a \in Int, NEW b \in Int, d * a <= d * b
    PROVE  a <= b
OBVIOUS

LEMMA Scales ==
    ASSUME NEW d \in Nat, NEW a \in Int, NEW b \in Int, a <= b
    PROVE  d * a <= d * b
OBVIOUS

LEMMA Division ==
    ASSUME NEW n \in Int, NEW d \in Nat \ {0}
    PROVE  n \div d \in Int /\ n % d \in 0..(d - 1) /\ n = d * (n \div d) + (n % d)
<1>1. n \div d \in Int
  OBVIOUS
<1>2. n % d \in 0..(d - 1)
  OBVIOUS
<1>0. d > 0 /\ d \in Int /\ n \in Int
  OBVIOUS
<1>3. n = d * (n \div d) + (n % d)
  BY <1>0
<1> QED
  BY <1>1, <1>2, <1>3

LEMMA QuotientAtMost ==
    ASSUME NEW n \in Int, NEW d \in Nat \ {0}, NEW b \in Int, n < d * (b + 1)
    PROVE  n \div d <= b
<1> DEFINE q == n \div d
<1>1. q \in Int /\ n % d \in 0..(d - 1) /\ n = d * q + (n % d)
  BY Division
<1> HIDE DEF q
<1>2. d * q \in Int /\ d * (b + 1) \in Int
  BY <1>1, IntTimes
<1>3. d * q < d * (b + 1)
  BY <1>1, <1>2
<1>4. ~(b + 1 <= q)
  <2> SUFFICES ASSUME b + 1 <= q PROVE FALSE
    OBVIOUS
  <2>1. d * (b + 1) <= d * q
    BY <1>1, Scales
  <2> QED
    BY <1>2, <1>3, <2>1
<1> QED
  BY <1>1, <1>4 DEF q
=============================================================================
