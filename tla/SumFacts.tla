------------------------------ MODULE SumFacts ------------------------------
(***************************************************************************)
(* What MapThenSumSet of the community modules computes when it adds up    *)
(* the weights of the members of a finite set, which are integers: nothing *)
(* for the empty set, one weight more for one member more, whichever order *)
(* its CHOOSE takes them in.                                               *)
(*                                                                         *)
(* The library's induction theorems take an operator as a parameter, which *)
(* the provers cannot instantiate.  Here an induction is an argument about *)
(* the least member of the set of the counterexamples, which is one set    *)
(* among others (LeastNat).                                                *)
(***************************************************************************)
EXTENDS Integers, FiniteSets, FiniteSetsExt, FiniteSetTheorems, TLAPS

\* The sum of the weights w of the members of S.
SumOf(w, S) == MapThenSumSet(LAMBDA x : w[x], S)

\* The member MapThenSumSet takes next.
Pick(s) == CHOOSE x \in s : TRUE

\* f is the table of the sums of the sets in ss.
Adds(f, w, ss) ==
    \A s \in ss : f[s] = IF s = {} THEN 0 ELSE w[Pick(s)] + f[s \ {Pick(s)}]

\* The subsets of P with at most n members.
UpTo(n, P) == {s \in SUBSET P : Cardinality(s) =< n}

\* A set of natural numbers has a least member.
LEMMA LeastNat ==
  ASSUME NEW T, T \subseteq Nat, T # {}
  PROVE  \E n \in T : \A m \in T : n =< m
  <1> DEFINE Less == {ss \in Nat \X Nat : ss[1] < ss[2]}
  <1>1. IsWellFoundedOn(Less, Nat)
    BY NatLessThanWellFounded DEF OpToRel
  <1>2. \A m, n \in Nat : m < n => <<m, n>> \in Less
    OBVIOUS
  <1> HIDE DEF Less
  <1>3. PICK n \in T : \A m \in T : ~(<<m, n>> \in Less)
    BY <1>1, WFMin
  <1>4. ASSUME NEW m \in T PROVE ~(m < n)
    <2>1. m \in Nat /\ n \in Nat
      OBVIOUS
    <2> QED
      BY <2>1, <1>2, <1>3
  <1>5. \A m \in T : n =< m
    BY <1>4
  <1> QED
    BY <1>5

LEMMA PickIsMember ==
  ASSUME NEW s, s # {}
  PROVE  Pick(s) \in s
  BY DEF Pick

LEMMA SubsetsAreFinite ==
  ASSUME NEW P, IsFiniteSet(P), NEW s \in SUBSET P
  PROVE  /\ IsFiniteSet(s) /\ Cardinality(s) \in Nat
         /\ Cardinality(s) =< Cardinality(P) /\ Cardinality(P) \in Nat
         /\ \A x \in s : Cardinality(s \ {x}) = Cardinality(s) - 1
  BY FS_Subset, FS_CardinalityType, FS_RemoveElement

LEMMA UpToFacts ==
  ASSUME NEW P, IsFiniteSet(P)
  PROVE  /\ UpTo(0, P) = {{}}
         /\ \A n \in Nat : UpTo(n, P) \subseteq UpTo(n + 1, P)
         /\ UpTo(Cardinality(P), P) = SUBSET P
         /\ \A n \in Nat : \A s \in UpTo(n + 1, P) : \A x \in s : s \ {x} \in UpTo(n, P)
  <1>1. UpTo(0, P) = {{}}
    BY SubsetsAreFinite, FS_EmptySet DEF UpTo
  <1>2. \A n \in Nat : UpTo(n, P) \subseteq UpTo(n + 1, P)
    BY SubsetsAreFinite DEF UpTo
  <1>3. UpTo(Cardinality(P), P) = SUBSET P
    BY SubsetsAreFinite DEF UpTo
  <1>4. ASSUME NEW n \in Nat, NEW s \in UpTo(n + 1, P), NEW x \in s
        PROVE  s \ {x} \in UpTo(n, P)
    BY SubsetsAreFinite DEF UpTo
  <1> QED
    BY <1>1, <1>2, <1>3, <1>4

\* There is a table of all sums: the table of the sets with at most n members
\* extends to those with one more.
LEMMA AddsExists ==
  ASSUME NEW P, IsFiniteSet(P), NEW w \in [P -> Int]
  PROVE  \E f \in [SUBSET P -> Int] : Adds(f, w, SUBSET P)
  <1> DEFINE Has(n) == \E f \in [UpTo(n, P) -> Int] : Adds(f, w, UpTo(n, P))
             Lacking == {n \in Nat : ~Has(n)}
  <1>1. Has(0)
    <2> DEFINE f == [s \in UpTo(0, P) |-> 0]
    <2>1. f \in [UpTo(0, P) -> Int] /\ Adds(f, w, UpTo(0, P))
      BY UpToFacts DEF Adds
    <2> QED
      BY <2>1
  <1>2. ASSUME NEW n \in Nat, Has(n)
        PROVE  Has(n + 1)
    <2>1. PICK f \in [UpTo(n, P) -> Int] : Adds(f, w, UpTo(n, P))
      BY <1>2
    <2> DEFINE g == [s \in UpTo(n + 1, P) |->
                        IF s = {} THEN 0 ELSE w[Pick(s)] + f[s \ {Pick(s)}]]
    <2>2. \A s \in UpTo(n + 1, P) :
              s # {} => w[Pick(s)] \in Int /\ s \ {Pick(s)} \in UpTo(n, P)
      BY UpToFacts, PickIsMember DEF UpTo
    <2>3. g \in [UpTo(n + 1, P) -> Int]
      BY <2>2
    <2>4. \A s \in UpTo(n, P) : g[s] = f[s]
      BY <2>1, UpToFacts DEF Adds
    <2>5. Adds(g, w, UpTo(n + 1, P))
      BY <2>2, <2>4 DEF Adds
    <2> QED
      BY <2>3, <2>5
  <1> HIDE DEF Has
  <1>3. Lacking = {}
    <2> SUFFICES ASSUME Lacking # {} PROVE FALSE
      OBVIOUS
    <2>1. PICK n \in Lacking : \A m \in Lacking : n =< m
      BY LeastNat
    <2>2. n - 1 \in Nat /\ n - 1 \notin Lacking
      BY <1>1, <2>1
    <2>3. Has(n - 1)
      BY <2>2
    <2>4. Has((n - 1) + 1)
      BY <2>2, <2>3, <1>2
    <2> QED
      BY <2>1, <2>4
  <1>4. Has(Cardinality(P))
    BY <1>3, FS_CardinalityType
  <1> QED
    BY <1>4, UpToFacts DEF Has

\* There is only one: two tables agree on every set they share.
LEMMA AddsAgree ==
  ASSUME NEW P, IsFiniteSet(P), NEW w, NEW f, NEW g, NEW Q \in SUBSET P,
         Adds(f, w, SUBSET P), Adds(g, w, SUBSET Q)
  PROVE  f[Q] = g[Q]
  <1> DEFINE Wrong == {s \in SUBSET Q : f[s] # g[s]}
             Sizes == {n \in Nat : \E s \in Wrong : Cardinality(s) = n}
  <1>1. Sizes = {}
    <2> SUFFICES ASSUME Sizes # {} PROVE FALSE
      OBVIOUS
    <2>1. PICK n \in Sizes : \A m \in Sizes : n =< m
      BY LeastNat
    <2>2. PICK s \in Wrong : Cardinality(s) = n
      BY <2>1
    <2>3. s # {}
      BY <2>2 DEF Adds
    <2> DEFINE rest == s \ {Pick(s)}
    <2>4. rest \in SUBSET Q /\ Cardinality(rest) \in Nat /\ Cardinality(rest) < n
      BY <2>2, <2>3, PickIsMember, SubsetsAreFinite
    <2>5. rest \notin Wrong
      BY <2>1, <2>4
    <2>6. f[s] = w[Pick(s)] + f[rest] /\ g[s] = w[Pick(s)] + g[rest]
      BY <2>2, <2>3 DEF Adds
    <2> QED
      BY <2>2, <2>4, <2>5, <2>6
  <1>2. \A s \in SUBSET Q : Cardinality(s) \in Nat
    BY SubsetsAreFinite
  <1>3. Q \notin Wrong
    BY <1>1, <1>2
  <1> QED
    BY <1>3

\* MapThenSumSet is such a table, taken at the set.
LEMMA SumOfIsTable ==
  ASSUME NEW P, IsFiniteSet(P), NEW w \in [P -> Int],
         NEW f, Adds(f, w, SUBSET P), NEW S \in SUBSET P
  PROVE  SumOf(w, S) = f[S]
  <1> DEFINE IsFold(h) == h = [s \in SUBSET S |->
                 IF s = {} THEN 0 ELSE w[Pick(s)] + h[s \ {Pick(s)}]]
  <1>1. SumOf(w, S) = (CHOOSE h : IsFold(h))[S]
    BY DEF SumOf, MapThenSumSet, MapThenFoldSet, Pick
  <1>2. \E h : IsFold(h)
    <2>1. [s \in SUBSET S |-> f[s]] =
             [s \in SUBSET S |-> IF s = {} THEN 0 ELSE
                 w[Pick(s)] + [r \in SUBSET S |-> f[r]][s \ {Pick(s)}]]
      BY DEF Adds
    <2> QED
      BY <2>1
  <1>3. ASSUME NEW h, IsFold(h)
        PROVE  h[S] = f[S]
    <2>1. Adds(h, w, SUBSET S)
      BY <1>3 DEF Adds
    <2> HIDE DEF IsFold
    <2>2. f[S] = h[S]
      BY <2>1, AddsAgree
    <2> QED
      BY <2>2
  <1> QED
    BY <1>1, <1>2, <1>3

\* Whichever member is set aside.
AddsAnyway(f, w, P) == \A s \in SUBSET P : \A x \in s : f[s] = w[x] + f[s \ {x}]

LEMMA AnyOrder ==
  ASSUME NEW P, IsFiniteSet(P), NEW w \in [P -> Int],
         NEW f, f \in [SUBSET P -> Int], Adds(f, w, SUBSET P)
  PROVE  AddsAnyway(f, w, P)
  <1> DEFINE Wrong == {s \in SUBSET P : \E x \in s : f[s] # w[x] + f[s \ {x}]}
             Sizes == {n \in Nat : \E s \in Wrong : Cardinality(s) = n}
  <1>1. Sizes = {}
    <2> SUFFICES ASSUME Sizes # {} PROVE FALSE
      OBVIOUS
    <2>1. PICK n \in Sizes : \A m \in Sizes : n =< m
      BY LeastNat
    <2>2. PICK s \in Wrong : Cardinality(s) = n
      BY <2>1
    <2>3. PICK x \in s : f[s] # w[x] + f[s \ {x}]
      BY <2>2
    <2> DEFINE y == Pick(s)
    <2>4. y \in s
      BY <2>3, PickIsMember
    <2> HIDE DEF y
    <2>5. f[s] = w[y] + f[s \ {y}]
      BY <2>3 DEF Adds, y
    <2>6. y # x
      BY <2>3, <2>5
    <2>7. ASSUME NEW z \in s
          PROVE  s \ {z} \in SUBSET P /\ s \ {z} \notin Wrong
      <3>1. /\ s \ {z} \in SUBSET P /\ Cardinality(s \ {z}) \in Nat
            /\ Cardinality(s \ {z}) < n
        BY <2>2, SubsetsAreFinite
      <3> HIDE DEF Wrong
      <3>2. s \ {z} \in Wrong => Cardinality(s \ {z}) \in Sizes
        BY <3>1
      <3> HIDE DEF Sizes
      <3>3. n \in Nat
        BY DEF Sizes
      <3> QED
        BY <2>1, <3>1, <3>2, <3>3
    <2>8. /\ f[s \ {y}] = w[x] + f[(s \ {y}) \ {x}]
          /\ f[s \ {x}] = w[y] + f[(s \ {x}) \ {y}]
      BY <2>4, <2>6, <2>7
    <2>9. (s \ {y}) \ {x} = (s \ {x}) \ {y}
      OBVIOUS
    <2>10. w[x] \in Int /\ w[y] \in Int /\ f[(s \ {x}) \ {y}] \in Int
      BY <2>4
    <2>11. f[s] = w[y] + (w[x] + f[(s \ {x}) \ {y}])
      BY <2>5, <2>8, <2>9
    <2>12. w[x] + f[s \ {x}] = w[x] + (w[y] + f[(s \ {x}) \ {y}])
      BY <2>8
    <2> HIDE DEF Wrong
    <2>13. f[s] = w[x] + f[s \ {x}]
      BY <2>10, <2>11, <2>12
    <2> QED
      BY <2>3, <2>13
  <1>2. \A s \in SUBSET P : Cardinality(s) \in Nat
    BY SubsetsAreFinite
  <1> QED
    BY <1>1, <1>2 DEF AddsAnyway

\* The sum over a finite set of integer weights is an integer, zero for the
\* empty set, and any member's weight more than the sum over the others.
SumsUp(w, P) ==
    /\ SumOf(w, {}) = 0
    /\ \A S \in SUBSET P : SumOf(w, S) \in Int
    /\ \A S \in SUBSET P : \A x \in S : SumOf(w, S) = w[x] + SumOf(w, S \ {x})

\* MapThenSumSet adds up: the sums of the models (of the payments of an invoice,
\* for one) are what they are meant to be, for any number of rows.
THEOREM SumLaws ==
  ASSUME NEW P, IsFiniteSet(P), NEW w \in [P -> Int]
  PROVE  SumsUp(w, P)
  <1>1. PICK f \in [SUBSET P -> Int] : Adds(f, w, SUBSET P)
    BY AddsExists
  <1>2. \A S \in SUBSET P : SumOf(w, S) = f[S]
    BY <1>1, SumOfIsTable
  <1>3. f[{}] = 0
    BY <1>1 DEF Adds
  <1>4. \A s \in SUBSET P : \A x \in s : f[s] = w[x] + f[s \ {x}]
    <2>1. AddsAnyway(f, w, P)
      BY <1>1, AnyOrder
    <2> QED
      BY <2>1 DEF AddsAnyway
  <1> QED
    BY <1>1, <1>2, <1>3, <1>4 DEF SumsUp

\* Natural weights add up to a natural number.
THEOREM NaturalSums ==
  ASSUME NEW P, IsFiniteSet(P), NEW w \in [P -> Nat]
  PROVE  \A S \in SUBSET P : SumOf(w, S) \in Nat
  <1> DEFINE Wrong == {s \in SUBSET P : SumOf(w, s) \notin Nat}
             Sizes == {n \in Nat : \E s \in Wrong : Cardinality(s) = n}
  <1>1. SumsUp(w, P)
    <2>1. w \in [P -> Int]
      OBVIOUS
    <2> QED
      BY <2>1, SumLaws
  <1>2. Sizes = {}
    <2> SUFFICES ASSUME Sizes # {} PROVE FALSE
      OBVIOUS
    <2>1. PICK n \in Sizes : \A m \in Sizes : n =< m
      BY LeastNat
    <2>2. PICK s \in Wrong : Cardinality(s) = n
      BY <2>1
    <2>3. PICK x : x \in s
      <3>1. SumOf(w, {}) \in Nat
        BY <1>1 DEF SumsUp
      <3> QED
        BY <2>2, <3>1
    <2>4. /\ s \ {x} \in SUBSET P /\ Cardinality(s \ {x}) \in Nat
          /\ Cardinality(s \ {x}) < n
      BY <2>2, <2>3, SubsetsAreFinite
    <2>5. s \ {x} \notin Wrong
      BY <2>1, <2>4
    <2>6. SumOf(w, s) = w[x] + SumOf(w, s \ {x}) /\ w[x] \in Nat
      BY <1>1, <2>2, <2>3 DEF SumsUp
    <2> QED
      BY <2>2, <2>4, <2>5, <2>6
  <1>3. \A s \in SUBSET P : Cardinality(s) \in Nat
    BY SubsetsAreFinite
  <1> QED
    BY <1>2, <1>3

\* Weights that are the same on a set have the same sum over it.
THEOREM SameWeights ==
  ASSUME NEW P, IsFiniteSet(P), NEW v \in [P -> Int], NEW w \in [P -> Int],
         NEW S \in SUBSET P, \A x \in S : v[x] = w[x]
  PROVE  SumOf(v, S) = SumOf(w, S)
  <1> DEFINE Wrong == {s \in SUBSET S : SumOf(v, s) # SumOf(w, s)}
             Sizes == {n \in Nat : \E s \in Wrong : Cardinality(s) = n}
  <1>1. SumsUp(v, P) /\ SumsUp(w, P)
    BY SumLaws
  <1>2. Sizes = {}
    <2> SUFFICES ASSUME Sizes # {} PROVE FALSE
      OBVIOUS
    <2>1. PICK n \in Sizes : \A m \in Sizes : n =< m
      BY LeastNat
    <2>2. PICK s \in Wrong : Cardinality(s) = n
      BY <2>1
    <2>3. PICK x : x \in s
      <3>1. SumOf(v, {}) = SumOf(w, {})
        BY <1>1 DEF SumsUp
      <3> QED
        BY <2>2, <3>1
    <2>4. /\ s \ {x} \in SUBSET S /\ Cardinality(s \ {x}) \in Nat
          /\ Cardinality(s \ {x}) < n
      BY <2>2, <2>3, SubsetsAreFinite
    <2>5. s \ {x} \notin Wrong
      BY <2>1, <2>4
    <2>6. /\ SumOf(v, s) = v[x] + SumOf(v, s \ {x}) /\ SumOf(w, s) = w[x] + SumOf(w, s \ {x})
          /\ v[x] = w[x]
      BY <1>1, <2>2, <2>3 DEF SumsUp
    <2> QED
      BY <2>2, <2>4, <2>5, <2>6
  <1>3. \A s \in SUBSET S : Cardinality(s) \in Nat
    BY SubsetsAreFinite
  <1>4. S \notin Wrong
    BY <1>2, <1>3
  <1> QED
    BY <1>4

\* Weights that are no smaller have a sum that is no smaller.
THEOREM GreaterWeights ==
  ASSUME NEW P, IsFiniteSet(P), NEW v \in [P -> Int], NEW w \in [P -> Int],
         NEW S \in SUBSET P, \A x \in S : v[x] =< w[x]
  PROVE  SumOf(v, S) =< SumOf(w, S)
  <1> DEFINE Wrong == {s \in SUBSET S : ~(SumOf(v, s) =< SumOf(w, s))}
             Sizes == {n \in Nat : \E s \in Wrong : Cardinality(s) = n}
  <1>1. SumsUp(v, P) /\ SumsUp(w, P)
    BY SumLaws
  <1>2. Sizes = {}
    <2> SUFFICES ASSUME Sizes # {} PROVE FALSE
      OBVIOUS
    <2>1. PICK n \in Sizes : \A m \in Sizes : n =< m
      BY LeastNat
    <2>2. PICK s \in Wrong : Cardinality(s) = n
      BY <2>1
    <2>3. PICK x : x \in s
      <3>1. SumOf(v, {}) =< SumOf(w, {})
        BY <1>1 DEF SumsUp
      <3> QED
        BY <2>2, <3>1
    <2>4. /\ s \ {x} \in SUBSET S /\ Cardinality(s \ {x}) \in Nat
          /\ Cardinality(s \ {x}) < n
      BY <2>2, <2>3, SubsetsAreFinite
    <2>5. s \ {x} \notin Wrong
      BY <2>1, <2>4
    <2>6. /\ SumOf(v, s) = v[x] + SumOf(v, s \ {x}) /\ SumOf(w, s) = w[x] + SumOf(w, s \ {x})
          /\ v[x] =< w[x] /\ v[x] \in Int /\ w[x] \in Int
      BY <1>1, <2>2, <2>3 DEF SumsUp
    <2>7. /\ SumOf(v, s \ {x}) =< SumOf(w, s \ {x})
          /\ SumOf(v, s \ {x}) \in Int /\ SumOf(w, s \ {x}) \in Int
      BY <1>1, <2>2, <2>4, <2>5 DEF SumsUp
    <2> QED
      BY <2>2, <2>6, <2>7
  <1>3. \A s \in SUBSET S : Cardinality(s) \in Nat
    BY SubsetsAreFinite
  <1>4. S \notin Wrong
    BY <1>2, <1>3
  <1> QED
    BY <1>4

\* Opposite weights have opposite sums.
THEOREM OppositeWeights ==
  ASSUME NEW P, IsFiniteSet(P), NEW v \in [P -> Int], NEW w \in [P -> Int],
         NEW S \in SUBSET P, \A x \in S : v[x] = -w[x]
  PROVE  SumOf(v, S) = -SumOf(w, S)
  <1> DEFINE Wrong == {s \in SUBSET S : SumOf(v, s) # -SumOf(w, s)}
             Sizes == {n \in Nat : \E s \in Wrong : Cardinality(s) = n}
  <1>1. SumsUp(v, P) /\ SumsUp(w, P)
    BY SumLaws
  <1>2. Sizes = {}
    <2> SUFFICES ASSUME Sizes # {} PROVE FALSE
      OBVIOUS
    <2>1. PICK n \in Sizes : \A m \in Sizes : n =< m
      BY LeastNat
    <2>2. PICK s \in Wrong : Cardinality(s) = n
      BY <2>1
    <2>3. PICK x : x \in s
      <3>1. SumOf(v, {}) = -SumOf(w, {})
        BY <1>1 DEF SumsUp
      <3> QED
        BY <2>2, <3>1
    <2>4. /\ s \ {x} \in SUBSET S /\ Cardinality(s \ {x}) \in Nat
          /\ Cardinality(s \ {x}) < n
      BY <2>2, <2>3, SubsetsAreFinite
    <2>5. s \ {x} \notin Wrong
      BY <2>1, <2>4
    <2>6. /\ SumOf(v, s) = v[x] + SumOf(v, s \ {x}) /\ SumOf(w, s) = w[x] + SumOf(w, s \ {x})
          /\ v[x] = -w[x]
      BY <1>1, <2>2, <2>3 DEF SumsUp
    <2>7. SumOf(v, s \ {x}) = -SumOf(w, s \ {x})
      BY <2>4, <2>5
    <2>8. w[x] \in Int /\ SumOf(w, s \ {x}) \in Int
      BY <1>1, <2>2, <2>3, <2>4 DEF SumsUp
    <2>9. SumOf(v, s) = -SumOf(w, s)
      BY <2>6, <2>7, <2>8
    <2> QED
      BY <2>2, <2>9
  <1>3. \A s \in SUBSET S : Cardinality(s) \in Nat
    BY SubsetsAreFinite
  <1>4. S \notin Wrong
    BY <1>2, <1>3
  <1> QED
    BY <1>4

\* What a function makes of the members of a set.
ImageOf(g, S) == {g[x] : x \in S}

\* The weights of other members, one for each, have the same sum.
THEOREM Renamed ==
  ASSUME NEW P, IsFiniteSet(P), NEW v \in [P -> Int],
         NEW Q, IsFiniteSet(Q), NEW w \in [Q -> Int],
         NEW g \in [P -> Q], \A x, y \in P : g[x] = g[y] => x = y,
         \A x \in P : v[x] = w[g[x]]
  PROVE  SumOf(v, P) = SumOf(w, ImageOf(g, P))
  <1> DEFINE Wrong == {s \in SUBSET P : SumOf(v, s) # SumOf(w, ImageOf(g, s))}
             Sizes == {n \in Nat : \E s \in Wrong : Cardinality(s) = n}
  <1>1. SumsUp(v, P) /\ SumsUp(w, Q)
    BY SumLaws
  <1>2. Sizes = {}
    <2> SUFFICES ASSUME Sizes # {} PROVE FALSE
      OBVIOUS
    <2>1. PICK n \in Sizes : \A m \in Sizes : n =< m
      BY LeastNat
    <2>2. PICK s \in Wrong : Cardinality(s) = n
      BY <2>1
    <2>3. PICK x : x \in s
      <3>1. SumOf(v, {}) = SumOf(w, ImageOf(g, {}))
        <4>1. ImageOf(g, {}) = {}
          BY DEF ImageOf
        <4> QED
          BY <4>1, <1>1 DEF SumsUp
      <3> QED
        BY <2>2, <3>1
    <2>4. /\ s \ {x} \in SUBSET P /\ Cardinality(s \ {x}) \in Nat
          /\ Cardinality(s \ {x}) < n
      BY <2>2, <2>3, SubsetsAreFinite
    <2>5. s \ {x} \notin Wrong
      <3> HIDE DEF Wrong
      <3>1. s \ {x} \in Wrong => Cardinality(s \ {x}) \in Sizes
        BY <2>4
      <3>2. n \in Nat
        BY <2>1
      <3> HIDE DEF Sizes
      <3> QED
        BY <2>1, <2>4, <3>1, <3>2
    <2>6. ImageOf(g, s \ {x}) = ImageOf(g, s) \ {g[x]}
      BY <2>2, <2>3 DEF ImageOf
    <2>7. ImageOf(g, s) \in SUBSET Q /\ g[x] \in ImageOf(g, s)
      BY <2>2, <2>3 DEF ImageOf
    <2>8. SumOf(v, s) = v[x] + SumOf(v, s \ {x})
      BY <1>1, <2>2, <2>3 DEF SumsUp
    <2>9. SumOf(w, ImageOf(g, s)) = w[g[x]] + SumOf(w, ImageOf(g, s) \ {g[x]})
      BY <1>1, <2>7 DEF SumsUp
    <2>10. v[x] = w[g[x]]
      BY <2>2, <2>3
    <2> QED
      BY <2>2, <2>4, <2>5, <2>6, <2>8, <2>9, <2>10
  <1>3. \A s \in SUBSET P : Cardinality(s) \in Nat
    BY SubsetsAreFinite
  <1>4. P \notin Wrong
    BY <1>2, <1>3
  <1> QED
    BY <1>4

\* Weights that only agree on some of their members have the same sum over these.
THEOREM SamePart ==
  ASSUME NEW P, IsFiniteSet(P), NEW v \in [P -> Int],
         NEW Q, IsFiniteSet(Q), NEW w \in [Q -> Int],
         P \subseteq Q, \A x \in P : v[x] = w[x]
  PROVE  SumOf(v, P) = SumOf(w, P)
  <1>1. PICK g : g = [x \in P |-> x]
    OBVIOUS
  <1>2. /\ g \in [P -> Q] /\ \A x, y \in P : g[x] = g[y] => x = y
        /\ \A x \in P : v[x] = w[g[x]]
    BY <1>1
  <1>3. SumOf(v, P) = SumOf(w, ImageOf(g, P))
    BY <1>2, Renamed
  <1>4. ImageOf(g, P) = P
    BY <1>1 DEF ImageOf
  <1> QED
    BY <1>3, <1>4
-----------------------------------------------------------------------------
(* Sums of sums *)

\* What is good for the empty set, and for a set of which one member less is good,
\* is good for every subset of a finite set.
LEMMA SubsetInduction ==
  ASSUME NEW P, IsFiniteSet(P), NEW Good, {} \in Good,
         \A s \in SUBSET P : \A x \in s : s \ {x} \in Good => s \in Good
  PROVE  \A s \in SUBSET P : s \in Good
  <1> DEFINE Wrong == {s \in SUBSET P : s \notin Good}
             Sizes == {n \in Nat : \E s \in Wrong : Cardinality(s) = n}
  <1>1. Sizes = {}
    <2> SUFFICES ASSUME Sizes # {} PROVE FALSE
      OBVIOUS
    <2>1. PICK n \in Sizes : \A m \in Sizes : n =< m
      BY LeastNat
    <2>2. PICK s \in Wrong : Cardinality(s) = n
      BY <2>1
    <2>3. PICK x : x \in s
      BY <2>2
    <2>4. /\ s \ {x} \in SUBSET P /\ Cardinality(s \ {x}) \in Nat
          /\ Cardinality(s \ {x}) < n
      BY <2>2, <2>3, SubsetsAreFinite
    <2>5. s \ {x} \notin Wrong
      BY <2>1, <2>4
    <2> QED
      BY <2>2, <2>3, <2>4, <2>5
  <1>2. \A s \in SUBSET P : Cardinality(s) \in Nat
    BY SubsetsAreFinite
  <1> QED
    BY <1>1, <1>2

\* Two sets without a common member.
THEOREM SumOfUnion ==
  ASSUME NEW P, IsFiniteSet(P), NEW w \in [P -> Int],
         NEW A \in SUBSET P, NEW B \in SUBSET P, A \cap B = {}
  PROVE  SumOf(w, A \cup B) = SumOf(w, A) + SumOf(w, B)
  <1> DEFINE Good == {s \in SUBSET A : SumOf(w, s \cup B) = SumOf(w, s) + SumOf(w, B)}
  <1>1. SumsUp(w, P) /\ IsFiniteSet(A)
    BY SumLaws, FS_Subset
  <1>2. {} \in Good
    <2>1. {} \cup B = B /\ SumOf(w, {}) = 0 /\ SumOf(w, B) \in Int
      BY <1>1 DEF SumsUp
    <2> QED
      BY <2>1
  <1>3. ASSUME NEW s \in SUBSET A, NEW x \in s, s \ {x} \in Good
        PROVE  s \in Good
    <2>1. (s \cup B) \ {x} = (s \ {x}) \cup B /\ x \in s \cup B
          /\ s \cup B \in SUBSET P /\ s \in SUBSET P /\ s \ {x} \in SUBSET P /\ x \in P
      OBVIOUS
    <2>2. /\ SumOf(w, s \cup B) = w[x] + SumOf(w, (s \ {x}) \cup B)
          /\ SumOf(w, s) = w[x] + SumOf(w, s \ {x})
          /\ SumOf(w, s \ {x}) \in Int /\ SumOf(w, B) \in Int /\ w[x] \in Int
      BY <1>1, <2>1 DEF SumsUp
    <2>3. SumOf(w, (s \ {x}) \cup B) = SumOf(w, s \ {x}) + SumOf(w, B)
      BY <1>3
    <2>4. SumOf(w, s \cup B) = SumOf(w, s) + SumOf(w, B)
      BY <2>2, <2>3
    <2> QED
      BY <2>4
  <1> HIDE DEF Good
  <1>4. IsFiniteSet(A)
    BY <1>1
  <1>5. \A s \in SUBSET A : \A x \in s : s \ {x} \in Good => s \in Good
    BY <1>3
  <1>6. \A s \in SUBSET A : s \in Good
    BY <1>2, <1>4, <1>5, SubsetInduction
  <1>7. A \in Good
    BY <1>6
  <1> QED
    BY <1>7 DEF Good

\* Weights that are the sums of two weights.
THEOREM AddedWeights ==
  ASSUME NEW P, IsFiniteSet(P), NEW u \in [P -> Int], NEW v \in [P -> Int],
         NEW w \in [P -> Int], \A x \in P : u[x] = v[x] + w[x]
  PROVE  SumOf(u, P) = SumOf(v, P) + SumOf(w, P)
  <1> DEFINE Good == {s \in SUBSET P : SumOf(u, s) = SumOf(v, s) + SumOf(w, s)}
  <1>1. SumsUp(u, P) /\ SumsUp(v, P) /\ SumsUp(w, P)
    BY SumLaws
  <1>2. {} \in Good
    BY <1>1 DEF SumsUp
  <1>3. ASSUME NEW s \in SUBSET P, NEW x \in s, s \ {x} \in Good
        PROVE  s \in Good
    <2>1. /\ SumOf(u, s) = u[x] + SumOf(u, s \ {x})
          /\ SumOf(v, s) = v[x] + SumOf(v, s \ {x})
          /\ SumOf(w, s) = w[x] + SumOf(w, s \ {x})
          /\ SumOf(v, s \ {x}) \in Int /\ SumOf(w, s \ {x}) \in Int
          /\ u[x] = v[x] + w[x] /\ v[x] \in Int /\ w[x] \in Int
      BY <1>1 DEF SumsUp
    <2>2. SumOf(u, s \ {x}) = SumOf(v, s \ {x}) + SumOf(w, s \ {x})
      BY <1>3
    <2>3. SumOf(u, s) = SumOf(v, s) + SumOf(w, s)
      BY <2>1, <2>2
    <2> QED
      BY <2>3
  <1> HIDE DEF Good
  <1>4. P \in Good
    BY <1>2, <1>3, SubsetInduction
  <1> QED
    BY <1>4 DEF Good

\* The members x with a value g[x] in T.
With(g, P, T) == {x \in P : g[x] \in T}

\* The sums of the parts of a set, one for each value of g.
ArePartsOf(parts, Q, w, P, g) ==
  /\ IsFiniteSet(P) /\ w \in [P -> Int] /\ IsFiniteSet(Q) /\ g \in [P -> Q]
  /\ parts \in [Q -> Int] /\ \A q \in Q : parts[q] = SumOf(w, With(g, P, {q}))

THEOREM SumOfParts ==
  ASSUME NEW P, NEW w, NEW Q, NEW g, NEW parts, ArePartsOf(parts, Q, w, P, g)
  PROVE  SumOf(parts, Q) = SumOf(w, P)
  <1>0. /\ IsFiniteSet(P) /\ w \in [P -> Int] /\ IsFiniteSet(Q) /\ g \in [P -> Q]
        /\ parts \in [Q -> Int] /\ \A q \in Q : parts[q] = SumOf(w, With(g, P, {q}))
    BY DEF ArePartsOf
  <1> DEFINE Good == {T \in SUBSET Q : SumOf(parts, T) = SumOf(w, With(g, P, T))}
  <1>1. SumsUp(w, P) /\ SumsUp(parts, Q)
    BY <1>0, SumLaws
  <1>2. {} \in Good
    <2>1. With(g, P, {}) = {}
      BY DEF With
    <2> QED
      BY <1>1, <2>1 DEF SumsUp
  <1>3. ASSUME NEW T \in SUBSET Q, NEW q \in T, T \ {q} \in Good
        PROVE  T \in Good
    <2>1. /\ With(g, P, T) = With(g, P, T \ {q}) \cup With(g, P, {q})
          /\ With(g, P, T \ {q}) \cap With(g, P, {q}) = {}
          /\ With(g, P, T \ {q}) \in SUBSET P /\ With(g, P, {q}) \in SUBSET P
      BY DEF With
    <2>2. SumOf(w, With(g, P, T)) = SumOf(w, With(g, P, T \ {q})) + SumOf(w, With(g, P, {q}))
      <3> DEFINE A == With(g, P, T \ {q})
                 B == With(g, P, {q})
      <3>1. A \in SUBSET P /\ B \in SUBSET P /\ A \cap B = {}
        BY <2>1
      <3> HIDE DEF A, B
      <3>2. SumOf(w, A \cup B) = SumOf(w, A) + SumOf(w, B)
        BY <1>0, <3>1, SumOfUnion
      <3> QED
        BY <2>1, <3>2 DEF A, B
    <2>3. /\ SumOf(parts, T) = parts[q] + SumOf(parts, T \ {q})
          /\ SumOf(parts, T \ {q}) \in Int /\ parts[q] \in Int
      BY <1>0, <1>1 DEF SumsUp
    <2>4. SumOf(parts, T \ {q}) = SumOf(w, With(g, P, T \ {q}))
      BY <1>3
    <2>5. SumOf(parts, T) = SumOf(w, With(g, P, T))
      BY <1>0, <2>2, <2>3, <2>4
    <2> QED
      BY <2>5
  <1> HIDE DEF Good
  <1>4. Q \in Good
    BY <1>0, <1>2, <1>3, SubsetInduction
  <1>5. With(g, P, Q) = P
    BY <1>0 DEF With
  <1> QED
    BY <1>4, <1>5 DEF Good

\* The entries of a table, added row by row or column by column.
AreSumsOf(rows, P, cols, Q, a) ==
  /\ IsFiniteSet(P) /\ IsFiniteSet(Q) /\ \A p \in P : a[p] \in [Q -> Int]
  /\ rows \in [P -> Int] /\ \A p \in P : rows[p] = SumOf(a[p], Q)
  /\ cols \in [Q -> Int] /\ \A q \in Q : cols[q] = SumOf([p \in P |-> a[p][q]], P)

THEOREM RowsAndColumns ==
  ASSUME NEW P, NEW Q, NEW a, NEW rows, NEW cols, AreSumsOf(rows, P, cols, Q, a)
  PROVE  SumOf(rows, P) = SumOf(cols, Q)
  <1>0. /\ IsFiniteSet(P) /\ IsFiniteSet(Q) /\ (\A p \in P : a[p] \in [Q -> Int])
        /\ rows \in [P -> Int] /\ (\A p \in P : rows[p] = SumOf(a[p], Q))
        /\ cols \in [Q -> Int] /\ \A q \in Q : cols[q] = SumOf([p \in P |-> a[p][q]], P)
    BY DEF AreSumsOf
  <1> DEFINE upTo(s) == [q \in Q |-> SumOf([p \in P |-> a[p][q]], s)]
             Good == {s \in SUBSET P : SumOf(rows, s) = SumOf(upTo(s), Q)}
  <1>1. SumsUp(rows, P) /\ \A q \in Q : SumsUp([p \in P |-> a[p][q]], P)
    <2>1. \A q \in Q : [p \in P |-> a[p][q]] \in [P -> Int]
      BY <1>0
    <2> QED
      BY <1>0, <2>1, SumLaws
  <1>2. ASSUME NEW s \in SUBSET P PROVE upTo(s) \in [Q -> Int]
    BY <1>1 DEF SumsUp
  <1>3. {} \in Good
    <2>1. \A q \in Q : upTo({})[q] = -upTo({})[q]
      BY <1>1 DEF SumsUp
    <2>2. upTo({}) \in [Q -> Int] /\ Q \in SUBSET Q
      BY <1>0, <1>2
    <2>3. SumOf(upTo({}), Q) = -SumOf(upTo({}), Q) /\ SumOf(upTo({}), Q) \in Int
      <3>1. SumsUp(upTo({}), Q)
        <4> HIDE DEF upTo
        <4> QED
          BY <1>0, <2>2, SumLaws
      <3> HIDE DEF upTo
      <3> QED
        BY <1>0, <2>1, <2>2, <3>1, OppositeWeights DEF SumsUp
    <2>4. SumOf(rows, {}) = 0
      BY <1>1 DEF SumsUp
    <2> HIDE DEF upTo
    <2>5. SumOf(rows, {}) = SumOf(upTo({}), Q)
      BY <2>3, <2>4
    <2> QED
      BY <2>5
  <1>4. ASSUME NEW s \in SUBSET P, NEW x \in s, s \ {x} \in Good
        PROVE  s \in Good
    <2>1. /\ SumOf(rows, s) = rows[x] + SumOf(rows, s \ {x})
          /\ rows[x] \in Int /\ SumOf(rows, s \ {x}) \in Int
      BY <1>0, <1>1 DEF SumsUp
    <2>2. \A q \in Q : upTo(s)[q] = a[x][q] + upTo(s \ {x})[q]
      BY <1>1 DEF SumsUp
    <2>3. upTo(s) \in [Q -> Int] /\ upTo(s \ {x}) \in [Q -> Int] /\ a[x] \in [Q -> Int]
      BY <1>0, <1>2
    <2>4. SumOf(upTo(s), Q) = SumOf(a[x], Q) + SumOf(upTo(s \ {x}), Q)
      <3> DEFINE u == upTo(s)
                 w == upTo(s \ {x})
                 v == a[x]
      <3>1. /\ u \in [Q -> Int] /\ v \in [Q -> Int] /\ w \in [Q -> Int]
            /\ \A q \in Q : u[q] = v[q] + w[q]
        BY <2>2, <2>3
      <3> HIDE DEF u, v, w
      <3>2. SumOf(u, Q) = SumOf(v, Q) + SumOf(w, Q)
        BY <1>0, <3>1, AddedWeights
      <3> QED
        BY <3>2 DEF u, v, w
    <2>5. SumOf(rows, s \ {x}) = SumOf(upTo(s \ {x}), Q)
      BY <1>4
    <2>6. rows[x] = SumOf(a[x], Q)
      BY <1>0
    <2> HIDE DEF upTo
    <2>7. SumOf(rows, s) = SumOf(upTo(s), Q)
      BY <2>1, <2>4, <2>5, <2>6
    <2> QED
      BY <2>7
  <1>5. P \in Good
    <2> HIDE DEF Good
    <2> QED
      BY <1>0, <1>3, <1>4, SubsetInduction
  <1>6. SumOf(upTo(P), Q) = SumOf(cols, Q)
    <2>1. upTo(P) \in [Q -> Int] /\ (\A q \in Q : upTo(P)[q] = cols[q]) /\ Q \in SUBSET Q
      BY <1>0, <1>2
    <2> HIDE DEF upTo
    <2> QED
      BY <1>0, <2>1, SameWeights
  <1> QED
    BY <1>5, <1>6

\* Weights none of which is positive.
THEOREM NoPositiveSum ==
  ASSUME NEW P, IsFiniteSet(P), NEW w \in [P -> Int], \A x \in P : w[x] =< 0
  PROVE  SumOf(w, P) \in Int /\ SumOf(w, P) =< 0
  <1>1. PICK v : v = [x \in P |-> -w[x]]
    OBVIOUS
  <1>2. v \in [P -> Nat] /\ v \in [P -> Int] /\ (\A x \in P : w[x] = -v[x]) /\ P \in SUBSET P
    BY <1>1
  <1>3. SumOf(v, P) \in Nat
    BY <1>2, NaturalSums
  <1>4. SumOf(w, P) = -SumOf(v, P)
    BY <1>2, OppositeWeights
  <1> QED
    BY <1>3, <1>4

\* A sum over a part of a set is that of the weights on the part alone.
LEMMA SumOfPart ==
  ASSUME NEW P, IsFiniteSet(P), NEW w \in [P -> Int], NEW S \in SUBSET P
  PROVE  /\ IsFiniteSet(S) /\ [x \in S |-> w[x]] \in [S -> Int]
         /\ SumOf([x \in S |-> w[x]], S) = SumOf(w, S)
  <1>1. IsFiniteSet(S) /\ [x \in S |-> w[x]] \in [S -> Int]
    BY SubsetsAreFinite
  <1>2. \A x \in S : [y \in S |-> w[y]][x] = w[x]
    OBVIOUS
  <1> QED
    BY <1>1, <1>2, SamePart

\* The sums of the parts of a part X of a set, one for each value of g on it.
AreSplit(parts, Q, w, P, X, g) ==
  /\ IsFiniteSet(P) /\ w \in [P -> Int] /\ X \in SUBSET P
  /\ IsFiniteSet(Q) /\ \A x \in X : g[x] \in Q
  /\ parts \in [Q -> Int] /\ \A q \in Q : parts[q] = SumOf(w, {x \in X : g[x] = q})

THEOREM SumOfSplit ==
  ASSUME NEW P, NEW w, NEW X, NEW Q, NEW g, NEW parts, AreSplit(parts, Q, w, P, X, g)
  PROVE  SumOf(parts, Q) = SumOf(w, X)
  <1>0. /\ IsFiniteSet(P) /\ w \in [P -> Int] /\ X \in SUBSET P
        /\ IsFiniteSet(Q) /\ \A x \in X : g[x] \in Q
        /\ parts \in [Q -> Int] /\ \A q \in Q : parts[q] = SumOf(w, {x \in X : g[x] = q})
    BY DEF AreSplit
  <1> DEFINE v == [x \in X |-> w[x]]
             h == [x \in X |-> g[x]]
  <1>1. IsFiniteSet(X) /\ v \in [X -> Int] /\ SumOf(v, X) = SumOf(w, X)
    BY <1>0, SumOfPart
  <1>2. h \in [X -> Q]
    BY <1>0
  <1>3. ASSUME NEW q \in Q
        PROVE  parts[q] = SumOf(v, With(h, X, {q}))
    <2> DEFINE S == {x \in X : g[x] = q}
    <2>1. With(h, X, {q}) = S /\ S \in SUBSET X /\ S \in SUBSET P
      BY <1>0 DEF With
    <2>2. [x \in S |-> v[x]] = [x \in S |-> w[x]]
      OBVIOUS
    <2> HIDE DEF S, v
    <2>3. SumOf(v, S) = SumOf([x \in S |-> v[x]], S)
      BY <1>1, <2>1, SumOfPart
    <2>4. SumOf(w, S) = SumOf([x \in S |-> w[x]], S)
      BY <1>0, <2>1, SumOfPart
    <2> QED
      BY <1>0, <2>1, <2>2, <2>3, <2>4 DEF S
  <1> HIDE DEF v, h
  <1>4. ArePartsOf(parts, Q, v, X, h)
    BY <1>0, <1>1, <1>2, <1>3 DEF ArePartsOf
  <1> QED
    BY <1>1, <1>4, SumOfParts

\* Members without weight add nothing.
THEOREM NoWeight ==
  ASSUME NEW P, IsFiniteSet(P), NEW w \in [P -> Int],
         NEW A \in SUBSET P, NEW B \in SUBSET P, A \subseteq B,
         \A x \in B \ A : w[x] = 0
  PROVE  SumOf(w, A) = SumOf(w, B)
  <1> DEFINE R == B \ A
             r == [x \in R |-> w[x]]
  <1>1. R \in SUBSET P /\ A \cap R = {} /\ A \cup R = B
    OBVIOUS
  <1>2. r \in [R -> Nat] /\ \A x \in R : r[x] =< 0
    OBVIOUS
  <1> HIDE DEF R, r
  <1>3. IsFiniteSet(R) /\ r \in [R -> Int] /\ SumOf(r, R) = SumOf(w, R)
    BY <1>1, SumOfPart DEF r
  <1>4. SumOf(r, R) =< 0 /\ SumOf(r, R) \in Nat
    <2>1. SumOf(r, R) =< 0
      BY <1>2, <1>3, NoPositiveSum
    <2>2. R \in SUBSET R
      OBVIOUS
    <2>3. SumOf(r, R) \in Nat
      BY <1>2, <1>3, <2>2, NaturalSums
    <2> QED
      BY <2>1, <2>3
  <1>5. SumOf(w, B) = SumOf(w, A) + SumOf(w, R)
    BY <1>1, SumOfUnion
  <1>6. SumOf(w, A) \in Int
    BY SumLaws DEF SumsUp
  <1> QED
    BY <1>3, <1>4, <1>5, <1>6

\* A set has as many members as it weighs when each weighs one.
THEOREM CountIsSum ==
  ASSUME NEW P, IsFiniteSet(P), NEW S \in SUBSET P
  PROVE  SumOf([x \in P |-> 1], S) = Cardinality(S)
  <1> DEFINE one == [x \in P |-> 1]
             Good == {s \in SUBSET P : SumOf(one, s) = Cardinality(s)}
  <1>1. one \in [P -> Int] /\ \A x \in P : one[x] = 1
    OBVIOUS
  <1> HIDE DEF one
  <1>2. SumsUp(one, P)
    BY <1>1, SumLaws
  <1>3. {} \in Good
    BY <1>2, FS_EmptySet DEF SumsUp
  <1>4. ASSUME NEW s \in SUBSET P, NEW x \in s, s \ {x} \in Good
        PROVE  s \in Good
    <2>1. SumOf(one, s) = 1 + SumOf(one, s \ {x})
      BY <1>1, <1>2 DEF SumsUp
    <2>2. Cardinality(s) \in Nat /\ Cardinality(s \ {x}) = Cardinality(s) - 1
      BY SubsetsAreFinite
    <2> QED
      BY <1>4, <2>1, <2>2
  <1> HIDE DEF Good
  <1>5. S \in Good
    BY <1>3, <1>4, SubsetInduction
  <1> QED
    BY <1>5 DEF Good, one
=============================================================================
