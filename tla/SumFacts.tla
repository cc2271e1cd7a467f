------------------------------ MODULE SumFacts ------------------------------
(***************************************************************************)
(* Facts about SumFunction, the sum of the values of a function with a     *)
(* finite domain, that the proofs about money need: a sum does not depend  *)
(* on the order of its terms, changes by what one term changes, and only   *)
(* grows with more terms.  The library states none of them; each follows   *)
(* by an induction over sets that no operator parameter enters.            *)
(***************************************************************************)
EXTENDS Functions, TLAPS, FiniteSetTheorems, WellFoundedInduction

(* Induction over the natural numbers, for a set of them.                  *)
LEMMA EveryNumber ==
    ASSUME NEW Good \in SUBSET Nat, 0 \in Good,
           \A n \in Good : n + 1 \in Good
    PROVE  Nat \subseteq Good
<1> DEFINE Bad == Nat \ Good
<1> SUFFICES ASSUME Bad # {} PROVE FALSE
  OBVIOUS
<1>1. PICK n \in Bad : \A m \in Bad : <<m, n>> \notin OpToRel(<, Nat)
  BY NatLessThanWellFounded, WFMin
<1>2. n \in Nat /\ n # 0 /\ n - 1 \in Nat /\ n - 1 < n
  OBVIOUS
<1>3. n - 1 \notin Good
  <2>1. (n - 1) + 1 = n
    BY <1>2
  <2> QED
    BY <2>1
<1>4. <<n - 1, n>> \in OpToRel(<, Nat)
  BY <1>2 DEF OpToRel
<1> QED
  BY <1>1, <1>2, <1>3, <1>4

(* The subsets of a finite set are finite, and lose one with an element.   *)
LEMMA SubsetSizes ==
    ASSUME NEW S, IsFiniteSet(S), NEW s \in SUBSET S
    PROVE  /\ IsFiniteSet(s)
           /\ Cardinality(s) \in Nat
           /\ Cardinality(s) <= Cardinality(S)
           /\ Cardinality(s) = 0 <=> s = {}
           /\ \A x \in s : /\ s \ {x} \in SUBSET S
                           /\ Cardinality(s \ {x}) = Cardinality(s) - 1
<1>1. IsFiniteSet(s) /\ Cardinality(s) \in Nat /\ Cardinality(s) <= Cardinality(S)
  BY FS_Subset, FS_CardinalityType
<1>2. Cardinality(s) = 0 <=> s = {}
  BY <1>1, FS_EmptySet
<1>3. ASSUME NEW x \in s PROVE Cardinality(s \ {x}) = Cardinality(s) - 1
  BY <1>1, FS_RemoveElement
<1> QED
  BY <1>1, <1>2, <1>3

(* Induction over the subsets of a finite set, for a set of them.          *)
LEMMA EverySubset ==
    ASSUME NEW S, IsFiniteSet(S), NEW Good \in SUBSET (SUBSET S), {} \in Good,
           \A s \in SUBSET S : s # {} /\ (\A x \in s : s \ {x} \in Good) => s \in Good
    PROVE  \A s \in SUBSET S : s \in Good
<1> DEFINE Sized == {n \in Nat : \A s \in SUBSET S : Cardinality(s) = n => s \in Good}
<1>1. 0 \in Sized
  BY SubsetSizes
<1>2. ASSUME NEW n \in Sized PROVE n + 1 \in Sized
  <2>1. ASSUME NEW s \in SUBSET S, Cardinality(s) = n + 1 PROVE s \in Good
    <3>1. s # {}
      BY <2>1, SubsetSizes
    <3>2. ASSUME NEW x \in s PROVE s \ {x} \in Good
      <4>1. s \ {x} \in SUBSET S /\ Cardinality(s \ {x}) = n
        BY <2>1, SubsetSizes
      <4> QED
        BY <4>1
    <3> QED
      BY <3>1, <3>2
  <2> QED
    BY <2>1
<1>3. Nat \subseteq Sized
  <2> HIDE DEF Sized
  <2>1. Sized \in SUBSET Nat
    BY DEF Sized
  <2> QED
    BY <1>1, <1>2, <2>1, EveryNumber
<1> QED
  BY <1>3, SubsetSizes

-----------------------------------------------------------------------------
(* The sum, unfolded.                                                      *)

\* The element the library's fold takes first.
first_of(s) == CHOOSE x \in s : TRUE

\* One unfolding of the fold: the value at s from the values below it.
unfolded(f, g, s) == IF s = {} THEN 0 ELSE f[first_of(s)] + g[s \ {first_of(s)}]

\* g is the table of the partial sums of f over the subsets of S.
PartialSums(f, S, g) == g = [s \in SUBSET S |-> unfolded(f, g, s)]

(* A finite set has a table of partial sums, built one size at a time.     *)
LEMMA PartialSumsExist ==
    ASSUME NEW S, IsFiniteSet(S), NEW f
    PROVE  \E g : PartialSums(f, S, g)
<1> DEFINE UpTo(g, n) == \A s \in SUBSET S :
                             Cardinality(s) <= n => g[s] = unfolded(f, g, s)
           Sized == {n \in Nat : \E g : UpTo(g, n)}
<1>0. ASSUME NEW s \in SUBSET S
      PROVE  /\ IsFiniteSet(s) /\ Cardinality(s) \in Nat
             /\ Cardinality(s) <= Cardinality(S)
  BY <1>0, FS_Subset, FS_CardinalityType
<1>1. ASSUME NEW s \in SUBSET S, s # {}
      PROVE  /\ s \ {first_of(s)} \in SUBSET S
             /\ Cardinality(s \ {first_of(s)}) = Cardinality(s) - 1
  <2>1. first_of(s) \in s
    BY <1>1 DEF first_of
  <2> QED
    BY <1>0, <2>1, FS_RemoveElement
<1>2. 0 \in Sized
  <2> DEFINE g == [s \in SUBSET S |-> 0]
  <2>1. ASSUME NEW s \in SUBSET S, Cardinality(s) <= 0 PROVE g[s] = unfolded(f, g, s)
    <3>1. s = {}
      BY <1>0, <2>1, FS_EmptySet
    <3> QED
      BY <3>1 DEF unfolded
  <2> QED
    BY <2>1
<1>3. ASSUME NEW n \in Sized PROVE n + 1 \in Sized
  <2>1. PICK g : UpTo(g, n)
    OBVIOUS
  <2> DEFINE h == [s \in SUBSET S |-> unfolded(f, g, s)]
  <2>2. ASSUME NEW s \in SUBSET S, Cardinality(s) <= n + 1
        PROVE  h[s] = unfolded(f, h, s)
    <3>1. CASE s = {}
      BY <3>1 DEF unfolded
    <3>2. CASE s # {}
      <4> DEFINE r == s \ {first_of(s)}
      <4>1. r \in SUBSET S /\ Cardinality(r) <= n
        BY <1>0, <1>1, <2>2, <3>2
      <4>2. g[r] = unfolded(f, g, r)
        BY <2>1, <4>1
      <4>3. h[r] = g[r]
        BY <4>1, <4>2
      <4> QED
        BY <3>2, <4>3 DEF unfolded
    <3> QED
      BY <3>1, <3>2
  <2>3. UpTo(h, n + 1)
    BY <2>2
  <2> HIDE DEF h, UpTo
  <2>4. n + 1 \in Nat
    OBVIOUS
  <2> QED
    BY <2>3, <2>4
<1>4. Cardinality(S) \in Sized
  <2> HIDE DEF Sized
  <2>1. Sized \in SUBSET Nat
    BY DEF Sized
  <2>2. Nat \subseteq Sized
    BY <1>2, <1>3, <2>1, EveryNumber
  <2> QED
    BY <2>2, FS_CardinalityType
<1>5. PICK g : UpTo(g, Cardinality(S))
  BY <1>4
<1> DEFINE h == [s \in SUBSET S |-> g[s]]
<1>6. ASSUME NEW s \in SUBSET S PROVE h[s] = unfolded(f, h, s)
  <2>1. g[s] = unfolded(f, g, s)
    BY <1>0, <1>5
  <2>2. s # {} => s \ {first_of(s)} \in SUBSET S
    OBVIOUS
  <2> QED
    BY <2>1, <2>2 DEF unfolded
<1>7. PartialSums(f, S, h)
  BY <1>6 DEF PartialSums
<1> QED
  BY <1>7

(* The sum is the last entry of such a table.                              *)
LEMMA SumIsTabled ==
    ASSUME NEW S, IsFiniteSet(S), NEW f
    PROVE  \E g : PartialSums(f, S, g) /\ SumFunctionOnSet(f, S) = g[S]
<1>1. SumFunctionOnSet(f, S) = (CHOOSE g : PartialSums(f, S, g))[S]
  BY DEF SumFunctionOnSet, FoldFunctionOnSet, MapThenFoldSet, PartialSums,
         unfolded, first_of
<1> QED
  BY <1>1, PartialSumsExist

(* Whichever term is taken first, the rest is the sum of the others.       *)
LEMMA AnyTermFirst ==
    ASSUME NEW S, IsFiniteSet(S), NEW f, \A x \in S : f[x] \in Int,
           NEW g, PartialSums(f, S, g)
    PROVE  \A s \in SUBSET S :
              g[s] \in Int /\ \A x \in s : g[s] = f[x] + g[s \ {x}]
<1> DEFINE Summed(s) == g[s] \in Int /\ \A x \in s : g[s] = f[x] + g[s \ {x}]
           Done == {s \in SUBSET S : \A r \in SUBSET s : Summed(r)}
<1>0. ASSUME NEW s \in SUBSET S PROVE g[s] = unfolded(f, g, s)
  BY DEF PartialSums
<1>1. g[{}] = 0
  BY <1>0 DEF unfolded
<1>2. {} \in Done
  <2>1. Summed({})
    BY <1>1
  <2>2. \A r \in SUBSET {} : r = {}
    OBVIOUS
  <2> HIDE DEF Summed
  <2> QED
    BY <2>1, <2>2
<1>3. ASSUME NEW s \in SUBSET S, s # {}, \A x \in s : s \ {x} \in Done
      PROVE  s \in Done
  <2>1. PICK y \in s : g[s] = f[y] + g[s \ {y}]
    <3>1. first_of(s) \in s
      BY <1>3 DEF first_of
    <3>2. g[s] = f[first_of(s)] + g[s \ {first_of(s)}]
      BY <1>0, <1>3 DEF unfolded
    <3> QED
      BY <3>1, <3>2
  <2>2. ASSUME NEW x \in s, NEW r \in SUBSET (s \ {x}) PROVE Summed(r)
    BY <1>3
  <2> HIDE DEF Done
  <2>3. g[s] \in Int
    <3>1. g[s \ {y}] \in Int /\ f[y] \in Int
      BY <2>2
    <3> QED
      BY <2>1, <3>1
  <2>4. ASSUME NEW x \in s PROVE g[s] = f[x] + g[s \ {x}]
    <3>1. CASE x = y
      BY <2>1, <3>1
    <3>2. CASE x # y
      <4> DEFINE r == (s \ {x}) \ {y}
      <4>1. Summed(s \ {x}) /\ Summed(s \ {y}) /\ Summed(r)
        BY <2>2
      <4>2. y \in s \ {x} /\ x \in s \ {y} /\ (s \ {y}) \ {x} = r
        BY <3>2
      <4>3. g[s \ {x}] = f[y] + g[r] /\ g[s \ {y}] = f[x] + g[r]
        BY <4>1, <4>2
      <4>4. f[x] \in Int /\ f[y] \in Int /\ g[r] \in Int
        BY <4>1
      <4> HIDE DEF r, Summed
      <4> QED
        BY <2>1, <4>3, <4>4
    <3> QED
      BY <3>1, <3>2
  <2>5. Summed(s)
    BY <2>3, <2>4
  <2> HIDE DEF Summed
  <2>6. ASSUME NEW r \in SUBSET s PROVE Summed(r)
    <3>1. r = s \/ \E x \in s : r \in SUBSET (s \ {x})
      OBVIOUS
    <3> QED
      BY <2>2, <2>5, <3>1
  <2> QED
    BY <2>6 DEF Done
<1>4. \A s \in SUBSET S : s \in Done
  <2> HIDE DEF Done
  <2>1. Done \in SUBSET (SUBSET S)
    BY DEF Done
  <2> QED
    BY <1>2, <1>3, <2>1, EverySubset
<1> QED
  BY <1>4

(* A table of the sums over a set holds the sums over its subsets.         *)
LEMMA SumOfSubset ==
    ASSUME NEW S, IsFiniteSet(S), NEW f, \A x \in S : f[x] \in Int,
           NEW g, PartialSums(f, S, g), NEW T \in SUBSET S
    PROVE  SumFunctionOnSet(f, T) = g[T]
<1>1. IsFiniteSet(T)
  BY FS_Subset
<1>2. PICK h : PartialSums(f, T, h) /\ SumFunctionOnSet(f, T) = h[T]
  BY <1>1, SumIsTabled
<1> DEFINE Same == {s \in SUBSET T : h[s] = g[s]}
<1>3. ASSUME NEW s \in SUBSET T
      PROVE  h[s] = unfolded(f, h, s) /\ g[s] = unfolded(f, g, s)
  <2>1. s \in SUBSET S
    OBVIOUS
  <2> QED
    BY <1>2, <2>1 DEF PartialSums
<1>4. {} \in Same
  BY <1>3 DEF unfolded
<1>5. ASSUME NEW s \in SUBSET T, s # {}, \A x \in s : s \ {x} \in Same
      PROVE  s \in Same
  <2>1. first_of(s) \in s
    BY <1>5 DEF first_of
  <2>2. h[s \ {first_of(s)}] = g[s \ {first_of(s)}]
    BY <1>5, <2>1
  <2> QED
    BY <1>3, <1>5, <2>2 DEF unfolded
<1>6. \A s \in SUBSET T : s \in Same
  <2> HIDE DEF Same
  <2>1. Same \in SUBSET (SUBSET T)
    BY DEF Same
  <2> QED
    BY <1>1, <1>4, <1>5, <2>1, EverySubset
<1> QED
  BY <1>2, <1>6

-----------------------------------------------------------------------------
(* What the proofs cite.                                                   *)

(* Nothing sums to nothing.                                                *)
LEMMA SumEmpty == ASSUME NEW f PROVE SumFunctionOnSet(f, {}) = 0
<1>1. PICK g : PartialSums(f, {}, g) /\ SumFunctionOnSet(f, {}) = g[{}]
  BY FS_EmptySet, SumIsTabled
<1> QED
  BY <1>1 DEF PartialSums, unfolded

(* A sum is any one term and the sum of the others.                        *)
LEMMA SumTerm ==
    ASSUME NEW S, IsFiniteSet(S), NEW f, \A x \in S : f[x] \in Int
    PROVE  /\ SumFunctionOnSet(f, S) \in Int
           /\ \A x \in S : SumFunctionOnSet(f, S) = f[x] + SumFunctionOnSet(f, S \ {x})
<1>1. PICK g : PartialSums(f, S, g) /\ SumFunctionOnSet(f, S) = g[S]
  BY SumIsTabled
<1>2. ASSUME NEW x \in S PROVE SumFunctionOnSet(f, S \ {x}) = g[S \ {x}]
  BY <1>1, SumOfSubset
<1> QED
  BY <1>1, <1>2, AnyTermFirst

(* Two functions that agree on a set have the same sum over it.            *)
LEMMA SumLocal ==
    ASSUME NEW S, IsFiniteSet(S), NEW f, NEW h,
           \A x \in S : f[x] \in Int /\ h[x] = f[x]
    PROVE  SumFunctionOnSet(h, S) = SumFunctionOnSet(f, S)
<1> DEFINE Same == {s \in SUBSET S : SumFunctionOnSet(h, s) = SumFunctionOnSet(f, s)}
<1>1. {} \in Same
  BY SumEmpty
<1>2. ASSUME NEW s \in SUBSET S, s # {}, \A x \in s : s \ {x} \in Same
      PROVE  s \in Same
  <2>1. IsFiniteSet(s)
    BY FS_Subset
  <2>2. PICK x \in s : TRUE
    BY <1>2
  <2>3. /\ SumFunctionOnSet(f, s) = f[x] + SumFunctionOnSet(f, s \ {x})
        /\ SumFunctionOnSet(h, s) = h[x] + SumFunctionOnSet(h, s \ {x})
    BY <2>1, <2>2, SumTerm
  <2>4. SumFunctionOnSet(h, s \ {x}) = SumFunctionOnSet(f, s \ {x})
    BY <1>2
  <2> QED
    BY <2>3, <2>4
<1>3. \A s \in SUBSET S : s \in Same
  <2> HIDE DEF Same
  <2>1. Same \in SUBSET (SUBSET S)
    BY DEF Same
  <2> QED
    BY <1>1, <1>2, <2>1, EverySubset
<1> QED
  BY <1>3

(* Changing one value changes the sum by the difference.                   *)
LEMMA SumOneChanged ==
    ASSUME NEW S, IsFiniteSet(S), NEW f \in [S -> Int], NEW h \in [S -> Int],
           NEW x \in S, \A y \in S \ {x} : h[y] = f[y]
    PROVE  SumFunction(h) = SumFunction(f) - f[x] + h[x]
<1>1. IsFiniteSet(S \ {x})
  BY FS_RemoveElement
<1>2. SumFunctionOnSet(h, S \ {x}) = SumFunctionOnSet(f, S \ {x})
  BY <1>1, SumLocal
<1>3. /\ SumFunctionOnSet(f, S) = f[x] + SumFunctionOnSet(f, S \ {x})
      /\ SumFunctionOnSet(h, S) = h[x] + SumFunctionOnSet(h, S \ {x})
  BY SumTerm
<1>4. SumFunctionOnSet(f, S \ {x}) \in Int
  BY <1>1, SumTerm
<1>5. SumFunction(f) = SumFunctionOnSet(f, S) /\ SumFunction(h) = SumFunctionOnSet(h, S)
  BY DEF SumFunction
<1> QED
  BY <1>2, <1>3, <1>4, <1>5

(* Naturals sum to a natural, and leaving terms out makes no sum larger.   *)
LEMMA SumMonotone ==
    ASSUME NEW S, IsFiniteSet(S), NEW f, \A x \in S : f[x] \in Nat, NEW T \in SUBSET S
    PROVE  /\ SumFunctionOnSet(f, T) \in Nat
           /\ SumFunctionOnSet(f, S) \in Nat
           /\ SumFunctionOnSet(f, T) <= SumFunctionOnSet(f, S)
<1> DEFINE Under == {s \in SUBSET S :
                        /\ SumFunctionOnSet(f, s) \in Nat
                        /\ T \subseteq s =>
                              SumFunctionOnSet(f, T) <= SumFunctionOnSet(f, s)}
<1>0. ASSUME NEW s \in SUBSET S
      PROVE  /\ SumFunctionOnSet(f, s) \in Int
             /\ \A x \in s : SumFunctionOnSet(f, s) = f[x] + SumFunctionOnSet(f, s \ {x})
  <2>1. IsFiniteSet(s) /\ \A x \in s : f[x] \in Int
    BY FS_Subset
  <2> QED
    BY <2>1, SumTerm
<1>1. {} \in Under
  <2>1. T \subseteq {} => T = {}
    OBVIOUS
  <2> QED
    BY <2>1, SumEmpty
<1>2. ASSUME NEW s \in SUBSET S, s # {}, \A x \in s : s \ {x} \in Under
      PROVE  s \in Under
  <2>1. SumFunctionOnSet(f, s) \in Nat
    <3>1. PICK x \in s : TRUE
      BY <1>2
    <3>2. SumFunctionOnSet(f, s \ {x}) \in Nat /\ f[x] \in Nat
      BY <1>2
    <3> QED
      BY <1>0, <3>1, <3>2
  <2>2. ASSUME T \subseteq s
        PROVE  SumFunctionOnSet(f, T) <= SumFunctionOnSet(f, s)
    <3>1. CASE T = s
      BY <2>1, <3>1
    <3>2. CASE T # s
      <4>1. PICK x \in s : T \subseteq s \ {x}
        BY <2>2, <3>2
      <4>2. /\ SumFunctionOnSet(f, s \ {x}) \in Nat /\ f[x] \in Nat
            /\ SumFunctionOnSet(f, T) <= SumFunctionOnSet(f, s \ {x})
        BY <1>2, <4>1
      <4>3. SumFunctionOnSet(f, s) = f[x] + SumFunctionOnSet(f, s \ {x})
        BY <1>0, <4>1
      <4>4. SumFunctionOnSet(f, T) \in Int
        BY <1>0
      <4> QED
        BY <4>2, <4>3, <4>4
    <3> QED
      BY <3>1, <3>2
  <2> QED
    BY <2>1, <2>2
<1>3. \A s \in SUBSET S : s \in Under
  <2> HIDE DEF Under
  <2>1. Under \in SUBSET (SUBSET S)
    BY DEF Under
  <2> QED
    BY <1>1, <1>2, <2>1, EverySubset
<1> QED
  BY <1>3

(* Zeros add nothing.                                                      *)
LEMMA SumOfZeros ==
    ASSUME NEW S, IsFiniteSet(S), NEW f, \A x \in S : f[x] = 0
    PROVE  SumFunctionOnSet(f, S) = 0
<1> DEFINE Zero == {s \in SUBSET S : SumFunctionOnSet(f, s) = 0}
<1>1. {} \in Zero
  BY SumEmpty
<1>2. ASSUME NEW s \in SUBSET S, s # {}, \A x \in s : s \ {x} \in Zero
      PROVE  s \in Zero
  <2>1. PICK x \in s : TRUE
    BY <1>2
  <2>2. SumFunctionOnSet(f, s) = f[x] + SumFunctionOnSet(f, s \ {x})
    BY <2>1, FS_Subset, SumTerm
  <2> QED
    BY <1>2, <2>2
<1>3. \A s \in SUBSET S : s \in Zero
  <2> HIDE DEF Zero
  <2>1. Zero \in SUBSET (SUBSET S)
    BY DEF Zero
  <2> QED
    BY <1>1, <1>2, <2>1, EverySubset
<1> QED
  BY <1>3

(* Nothing but naturals: the sum is one, and no value exceeds it.          *)
LEMMA SumOfNaturals ==
    ASSUME NEW S, IsFiniteSet(S), NEW f \in [S -> Nat]
    PROVE  SumFunction(f) \in Nat /\ \A x \in S : f[x] <= SumFunction(f)
<1>1. SumFunction(f) = SumFunctionOnSet(f, S)
  BY DEF SumFunction
<1>2. SumFunction(f) \in Nat
  BY <1>1, SumMonotone
<1>3. ASSUME NEW x \in S PROVE f[x] <= SumFunction(f)
  <2>1. SumFunctionOnSet(f, S) = f[x] + SumFunctionOnSet(f, S \ {x})
    BY SumTerm
  <2>2. SumFunctionOnSet(f, S \ {x}) \in Nat
    BY SumMonotone
  <2> QED
    BY <1>1, <2>1, <2>2
<1> QED
  BY <1>2, <1>3
=============================================================================
