--------------------------- MODULE PlannerProofs ---------------------------
(***************************************************************************)
(* Lemmas about the operators of Planner, for every checkout and change.   *)
(***************************************************************************)
EXTENDS Planner, SequenceTheorems, FiniteSetTheorems, WellFoundedInduction, TLAPS

(* Sequences whose elements have no common type. *)

LEMMA FunctionIsSequence ==
    ASSUME NEW n \in Nat, NEW T, NEW z \in [1 .. n -> T]
    PROVE  z \in Seq(T) /\ Len(z) = n
<1>1. z \in Seq(T)
    OBVIOUS
<1> QED
    BY <1>1, LenProperties

LEMMA SequenceShape ==
    ASSUME NEW s, IsSequence(s)
    PROVE  Len(s) \in Nat /\ DOMAIN s = 1 .. Len(s)
BY LenProperties DEF IsSequence

LEMMA AppendShape ==
    ASSUME NEW s, IsSequence(s), NEW e, NEW z, z = Append(s, e)
    PROVE  /\ IsSequence(z) /\ Len(z) = Len(s) + 1
           /\ \A i \in DOMAIN s : i \in DOMAIN z /\ z[i] = s[i]
           /\ Len(s) + 1 \in DOMAIN z /\ z[Len(s) + 1] = e
           /\ \A i \in DOMAIN z : i \in DOMAIN s \/ i = Len(s) + 1
<1>1. PICK T : T = ToSet(s) \union {e}
    OBVIOUS
<1>2. s \in Seq(T) /\ e \in T
    <2>1. \A i \in 1 .. Len(s) : s[i] \in T
        BY <1>1, SequenceShape DEF ToSet
    <2>2. s = [i \in 1 .. Len(s) |-> s[i]] /\ Len(s) \in Nat
        BY LenProperties DEF IsSequence
    <2> QED
        BY <1>1, <2>1, <2>2, SeqDef
<1>3. /\ z \in Seq(T) /\ Len(z) = Len(s) + 1
      /\ \A i \in 1 .. Len(s) : z[i] = s[i]
      /\ z[Len(s) + 1] = e
    BY <1>2, AppendProperties
<1>4. DOMAIN z = 1 .. Len(s) + 1 /\ DOMAIN s = 1 .. Len(s) /\ Len(s) \in Nat
    BY <1>2, <1>3, LenProperties
<1>5. IsSequence(z)
    <2>1. \A i \in 1 .. Len(z) : z[i] \in ToSet(z)
        BY <1>3, <1>4 DEF ToSet
    <2>2. z = [i \in 1 .. Len(z) |-> z[i]] /\ Len(z) \in Nat
        BY <1>3, LenProperties
    <2> QED
        BY <2>1, <2>2, SeqDef DEF IsSequence
<1> QED
    BY <1>3, <1>4, <1>5

IsFunction(f) == f = [x \in DOMAIN f |-> f[x]]

LEMMA SameShape ==
    ASSUME NEW s, IsSequence(s), NEW z, IsFunction(z), DOMAIN z = DOMAIN s
    PROVE  IsSequence(z) /\ Len(z) = Len(s)
<1>1. Len(s) \in Nat /\ DOMAIN z = 1 .. Len(s)
    BY SequenceShape
<1>2. z \in [1 .. Len(s) -> ToSet(z)]
    BY <1>1 DEF ToSet, IsFunction
<1> QED
    BY <1>1, <1>2, FunctionIsSequence DEF IsSequence

\* A set of naturals that is not empty has a least element.
LEMMA LeastNat ==
    ASSUME NEW T, T \subseteq Nat, T # {}
    PROVE  \E i \in T : \A k \in T : ~ (k < i)
<1> DEFINE Less == OpToRel(<, Nat)
<1>1. IsWellFoundedOn(Less, Nat)
    BY NatLessThanWellFounded
<1>2. PICK i \in T : \A k \in T : ~ (<<k, i>> \in Less)
    <2> HIDE DEF Less
    <2> QED
        BY <1>1, WFMin
<1>3. \A k \in T : k < i => <<k, i>> \in Less
    BY DEF OpToRel
<1> QED
    BY <1>2, <1>3

LEMMA SublistDefined ==
    ASSUME NEW s, NEW T, Len(s) \in Nat
    PROVE  \E g : /\ g = [k \in 0 .. Len(s) |->
                              IF k = 0 THEN <<>>
                              ELSE IF s[k] \in T THEN Append(g[k - 1], s[k]) ELSE g[k - 1]]
                 /\ sublist(s, T) = g[Len(s)]
<1> DEFINE Fits(g, n) == g = [k \in 0 .. n |->
                                IF k = 0 THEN <<>>
                                ELSE IF s[k] \in T THEN Append(g[k - 1], s[k]) ELSE g[k - 1]]
<1> DEFINE Bad == {n \in Nat : ~ \E g : Fits(g, n)}
<1>1. Bad = {}
    <2> SUFFICES ASSUME Bad # {}
                 PROVE  FALSE
        OBVIOUS
    <2>1. PICK n \in Bad : \A k \in Bad : ~ (k < n)
        <3> HIDE DEF Fits
        <3> QED
            BY LeastNat
    <2>2. CASE n = 0
        <3>1. Fits([k \in 0 .. 0 |-> <<>>], 0)
            OBVIOUS
        <3> QED
            BY <2>2, <3>1
    <2>3. CASE n # 0
        <3>1. n \in Nat /\ n - 1 \in Nat /\ n - 1 \notin Bad
            <4> HIDE DEF Fits
            <4>1. n \in Nat
                BY <2>1
            <4>2. n - 1 \in Nat /\ n - 1 < n
                BY <2>3, <4>1
            <4> QED
                BY <2>1, <4>1, <4>2
        <3>2. PICK f : Fits(f, n - 1)
            <4> HIDE DEF Fits
            <4> QED
                BY <3>1
        <3>3. PICK e : e = IF s[n] \in T THEN Append(f[n - 1], s[n]) ELSE f[n - 1]
            OBVIOUS
        <3>4. PICK g : g = [k \in 0 .. n |-> IF k = n THEN e ELSE f[k]]
            OBVIOUS
        <3>5. \A k \in 0 .. n - 1 : g[k] = f[k]
            BY <3>1, <3>4
        <3>6. \A k \in 0 .. n : g[k] = IF k = 0 THEN <<>>
                                       ELSE IF s[k] \in T THEN Append(g[k - 1], s[k]) ELSE g[k - 1]
            <4> SUFFICES ASSUME NEW k \in 0 .. n
                         PROVE  g[k] = IF k = 0 THEN <<>>
                                       ELSE IF s[k] \in T THEN Append(g[k - 1], s[k]) ELSE g[k - 1]
                OBVIOUS
            <4>1. CASE k = n
                BY <2>3, <3>1, <3>3, <3>4, <3>5, <4>1
            <4>2. CASE k # n
                <5>1. k \in 0 .. n - 1 /\ g[k] = f[k]
                    BY <3>1, <3>5, <4>2
                <5>2. f[k] = IF k = 0 THEN <<>>
                             ELSE IF s[k] \in T THEN Append(f[k - 1], s[k]) ELSE f[k - 1]
                    BY <3>2, <5>1
                <5>3. k # 0 => g[k - 1] = f[k - 1]
                    BY <3>1, <3>5, <5>1
                <5> QED
                    BY <5>1, <5>2, <5>3
            <4> QED
                BY <4>1, <4>2
        <3>7. Fits(g, n)
            BY <3>4, <3>6
        <3> QED
            BY <3>7
    <2> QED
        BY <2>2, <2>3
<1>2. \E g : Fits(g, Len(s))
    <2> HIDE DEF Fits
    <2> QED
        BY <1>1
<1>3. PICK h : h = CHOOSE g : Fits(g, Len(s))
    OBVIOUS
<1>4. Fits(h, Len(s))
    <2> HIDE DEF Fits
    <2> QED
        BY <1>2, <1>3
<1>5. sublist(s, T) = h[Len(s)]
    BY <1>3 DEF sublist
<1> QED
    BY <1>4, <1>5

LEMMA AppendRange ==
    ASSUME NEW s, IsSequence(s), NEW e, NEW z, z = Append(s, e)
    PROVE  ToSet(z) = ToSet(s) \union {e}
BY AppendShape DEF ToSet

\* What sublist keeps: the elements in T and no other, so that its result is
\* shorter if one is left out.
LEMMA SublistShape ==
    ASSUME NEW s, IsSequence(s), NEW T
    PROVE  /\ IsSequence(sublist(s, T))
           /\ ToSet(sublist(s, T)) = ToSet(s) \cap T
           /\ Len(sublist(s, T)) < Len(s) <=> \E i \in DOMAIN s : s[i] \notin T
<1>1. Len(s) \in Nat /\ DOMAIN s = 1 .. Len(s)
    BY SequenceShape
<1>2. PICK g : /\ g = [k \in 0 .. Len(s) |->
                          IF k = 0 THEN <<>>
                          ELSE IF s[k] \in T THEN Append(g[k - 1], s[k]) ELSE g[k - 1]]
               /\ sublist(s, T) = g[Len(s)]
    BY <1>1, SublistDefined
<1>3. \A k \in 0 .. Len(s) : g[k] = IF k = 0 THEN <<>>
                                    ELSE IF s[k] \in T THEN Append(g[k - 1], s[k]) ELSE g[k - 1]
    BY <1>2
<1> DEFINE Good(k) == /\ IsSequence(g[k])
                      /\ ToSet(g[k]) = {s[i] : i \in 1 .. k} \cap T
                      /\ Len(g[k]) <= k
                      /\ Len(g[k]) < k <=> \E i \in 1 .. k : s[i] \notin T
           Bad == {k \in 0 .. Len(s) : ~ Good(k)}
<1>4. Bad = {}
    <2> SUFFICES ASSUME Bad # {}
                 PROVE  FALSE
        OBVIOUS
    <2>1. PICK k \in Bad : \A j \in Bad : ~ (j < k)
        <3> HIDE DEF Good
        <3>1. Bad \subseteq Nat
            BY <1>1
        <3> QED
            BY <3>1, LeastNat
    <2>2. k \in 0 .. Len(s) /\ ~ Good(k)
        <3> HIDE DEF Good
        <3> QED
            BY <2>1
    <2>3. k # 0
        <3>1. g[0] = <<>>
            BY <1>1, <1>3
        <3>2. IsSequence(<<>>) /\ ToSet(<<>>) = {} /\ Len(<<>>) = 0
            BY EmptySeq DEF IsSequence, ToSet
        <3>3. Good(0)
            BY <3>1, <3>2
        <3> QED
            BY <2>2, <3>3
    <2>4. k - 1 \in 0 .. Len(s) /\ k \in 1 .. Len(s)
        BY <1>1, <2>2, <2>3
    <2>5. Good(k - 1)
        <3> HIDE DEF Good
        <3>1. k - 1 < k
            BY <2>2
        <3> QED
            BY <2>1, <2>4, <3>1
    <2>6. {s[i] : i \in 1 .. k} = {s[i] : i \in 1 .. k - 1} \union {s[k]}
        <3>1. 1 .. k = 1 .. (k - 1) \union {k}
            BY <2>4
        <3> QED
            BY <3>1
    <2>7. Len(g[k - 1]) \in Nat
        BY <2>5, SequenceShape
    <2>8. CASE s[k] \in T
        <3>1. g[k] = Append(g[k - 1], s[k])
            BY <1>3, <2>2, <2>3, <2>8
        <3>2. /\ IsSequence(g[k]) /\ Len(g[k]) = Len(g[k - 1]) + 1
              /\ ToSet(g[k]) = ToSet(g[k - 1]) \union {s[k]}
            <4>1. PICK a, z, e : a = g[k - 1] /\ z = g[k] /\ e = s[k]
                OBVIOUS
            <4>2. IsSequence(a) /\ z = Append(a, e)
                BY <2>5, <3>1, <4>1
            <4>3. IsSequence(z) /\ Len(z) = Len(a) + 1 /\ ToSet(z) = ToSet(a) \union {e}
                BY <4>2, AppendShape, AppendRange
            <4> QED
                BY <4>1, <4>3
        <3>3. ToSet(g[k]) = {s[i] : i \in 1 .. k} \cap T
            BY <2>5, <2>6, <2>8, <3>2
        <3>4. (\E i \in 1 .. k : s[i] \notin T) <=> \E i \in 1 .. k - 1 : s[i] \notin T
            BY <2>4, <2>8
        <3>5. Good(k)
            BY <2>4, <2>5, <2>7, <3>2, <3>3, <3>4
        <3> QED
            BY <2>2, <3>5
    <2>9. CASE s[k] \notin T
        <3>1. g[k] = g[k - 1]
            BY <1>3, <2>2, <2>3, <2>9
        <3>2. ToSet(g[k]) = {s[i] : i \in 1 .. k} \cap T
            BY <2>5, <2>6, <2>9, <3>1
        <3>3. Len(g[k]) < k
            BY <2>4, <2>5, <2>7, <3>1
        <3>4. \E i \in 1 .. k : s[i] \notin T
            BY <2>4, <2>9
        <3>5. Good(k)
            BY <2>4, <2>5, <2>7, <3>1, <3>2, <3>3, <3>4
        <3> QED
            BY <2>2, <3>5
    <2> QED
        BY <2>8, <2>9
<1>5. Good(Len(s))
    <2> HIDE DEF Good
    <2> QED
        BY <1>1, <1>4
<1>6. {s[i] : i \in 1 .. Len(s)} = ToSet(s)
    BY <1>1 DEF ToSet
<1> QED
    BY <1>1, <1>2, <1>5, <1>6

-----------------------------------------------------------------------------
(* Impact *)

LEMMA NamesAreFinite ==
    ASSUME NEW ps, IsSequence(ps)
    PROVE  /\ IsFiniteSet(projectNames(ps)) /\ Cardinality(projectNames(ps)) <= Len(ps)
           /\ Cardinality(projectNames(ps)) \in Nat
<1>1. Len(ps) \in Nat /\ DOMAIN ps = 1 .. Len(ps)
    BY SequenceShape
<1>2. PICK n \in Nat : n = Len(ps)
    BY <1>1
<1>3. IsFiniteSet(1 .. n) /\ Cardinality(1 .. n) = n
    BY FS_Interval
<1>4. PICK f : f = [i \in 1 .. n |-> ps[i].name]
    OBVIOUS
<1>5. f \in Surjection(1 .. n, projectNames(ps))
    <2>1. \A i \in 1 .. n : f[i] \in projectNames(ps)
        BY <1>1, <1>2, <1>4 DEF projectNames, ToSet
    <2>2. \A x \in projectNames(ps) : \E i \in 1 .. n : f[i] = x
        BY <1>1, <1>2, <1>4 DEF projectNames, ToSet
    <2> QED
        BY <1>4, <2>1, <2>2 DEF Surjection
<1>6. IsFiniteSet(projectNames(ps)) /\ Cardinality(projectNames(ps)) <= Cardinality(1 .. n)
    BY <1>3, <1>5, FS_Surjection
<1> QED
    BY <1>2, <1>3, <1>6, FS_CardinalityType

\* One round of the search.
Widened(queue, ps) == queue \union UNION {buildDependencyGraph(ps)[n] : n \in queue}

LEMMA WidenedShape ==
    ASSUME NEW ps, NEW queue, queue \subseteq projectNames(ps)
    PROVE  /\ queue \subseteq Widened(queue, ps)
           /\ Widened(queue, ps) \subseteq projectNames(ps)
<1>1. \A n \in projectNames(ps) : buildDependencyGraph(ps)[n] \subseteq projectNames(ps)
    BY DEF buildDependencyGraph, projectNames
<1>2. \A n \in queue : buildDependencyGraph(ps)[n] \subseteq projectNames(ps)
    BY <1>1
<1> QED
    BY <1>2 DEF Widened

LEMMA WithDependentsDefined ==
    ASSUME NEW ps, Len(ps) \in Nat, NEW start
    PROVE  \E g : /\ g = [k \in 0 .. Len(ps) |-> IF k = 0 THEN start ELSE Widened(g[k - 1], ps)]
                  /\ withDependents(start, ps) = g[Len(ps)]
<1> DEFINE Fits(g, n) == g = [k \in 0 .. n |-> IF k = 0 THEN start ELSE Widened(g[k - 1], ps)]
<1> DEFINE Bad == {n \in Nat : ~ \E g : Fits(g, n)}
<1>1. Bad = {}
    <2> SUFFICES ASSUME Bad # {}
                 PROVE  FALSE
        OBVIOUS
    <2>1. PICK n \in Bad : \A k \in Bad : ~ (k < n)
        <3> HIDE DEF Fits
        <3> QED
            BY LeastNat
    <2>2. CASE n = 0
        <3>1. Fits([k \in 0 .. 0 |-> start], 0)
            OBVIOUS
        <3> QED
            BY <2>2, <3>1
    <2>3. CASE n # 0
        <3>1. n \in Nat /\ n - 1 \in Nat /\ n - 1 \notin Bad
            <4> HIDE DEF Fits
            <4>1. n \in Nat
                BY <2>1
            <4>2. n - 1 \in Nat /\ n - 1 < n
                BY <2>3, <4>1
            <4> QED
                BY <2>1, <4>1, <4>2
        <3>2. PICK f : Fits(f, n - 1)
            <4> HIDE DEF Fits
            <4> QED
                BY <3>1
        <3>3. PICK e : e = Widened(f[n - 1], ps)
            OBVIOUS
        <3>4. PICK g : g = [k \in 0 .. n |-> IF k = n THEN e ELSE f[k]]
            OBVIOUS
        <3>5. \A k \in 0 .. n - 1 : g[k] = f[k]
            BY <3>1, <3>4
        <3>6. \A k \in 0 .. n : g[k] = IF k = 0 THEN start ELSE Widened(g[k - 1], ps)
            <4> SUFFICES ASSUME NEW k \in 0 .. n
                         PROVE  g[k] = IF k = 0 THEN start ELSE Widened(g[k - 1], ps)
                OBVIOUS
            <4>1. CASE k = n
                BY <2>3, <3>1, <3>3, <3>4, <3>5, <4>1
            <4>2. CASE k # n
                <5>1. k \in 0 .. n - 1 /\ g[k] = f[k]
                    BY <3>1, <3>5, <4>2
                <5>2. f[k] = IF k = 0 THEN start ELSE Widened(f[k - 1], ps)
                    BY <3>2, <5>1
                <5>3. k # 0 => g[k - 1] = f[k - 1]
                    BY <3>1, <3>5, <5>1
                <5> QED
                    BY <5>1, <5>2, <5>3
            <4> QED
                BY <4>1, <4>2
        <3>7. Fits(g, n)
            BY <3>4, <3>6
        <3> QED
            BY <3>7
    <2> QED
        BY <2>2, <2>3
<1>2. \E g : Fits(g, Len(ps))
    <2> HIDE DEF Fits
    <2> QED
        BY <1>1
<1>3. PICK h : h = CHOOSE g : Fits(g, Len(ps))
    OBVIOUS
<1>4. Fits(h, Len(ps))
    <2> HIDE DEF Fits
    <2> QED
        BY <1>2, <1>3
<1>5. withDependents(start, ps) = h[Len(ps)]
    BY <1>3 DEF withDependents, Widened
<1> QED
    BY <1>4, <1>5

\* The search finds the least set that holds the start and is closed under the
\* dependency graph; it never needs more rounds than there are projects,
\* because a round that is not the last one finds a new name.
LEMMA WithDependentsShape ==
    ASSUME NEW ps, IsSequence(ps), NEW start, start \subseteq projectNames(ps)
    PROVE  /\ start \subseteq withDependents(start, ps)
           /\ withDependents(start, ps) \subseteq projectNames(ps)
           /\ \A n \in withDependents(start, ps) :
                  buildDependencyGraph(ps)[n] \subseteq withDependents(start, ps)
           /\ \A S : /\ start \subseteq S
                     /\ \A n \in S \cap projectNames(ps) : buildDependencyGraph(ps)[n] \subseteq S
                     => withDependents(start, ps) \subseteq S
<1>1. Len(ps) \in Nat
    BY SequenceShape
<1>2. PICK g : /\ g = [k \in 0 .. Len(ps) |-> IF k = 0 THEN start ELSE Widened(g[k - 1], ps)]
               /\ withDependents(start, ps) = g[Len(ps)]
    BY <1>1, WithDependentsDefined
<1>3. \A k \in 0 .. Len(ps) : g[k] = IF k = 0 THEN start ELSE Widened(g[k - 1], ps)
    BY <1>2
<1> DEFINE Within(k) == start \subseteq g[k] /\ g[k] \subseteq projectNames(ps)
           Grown(k)  == Widened(g[k], ps) = g[k] \/ k < Cardinality(g[k])
           Least(k)  == \A S : /\ start \subseteq S
                               /\ \A n \in S \cap projectNames(ps) : buildDependencyGraph(ps)[n] \subseteq S
                               => g[k] \subseteq S
           Good(k)   == Within(k) /\ Grown(k) /\ Least(k)
           Bad       == {k \in 0 .. Len(ps) : ~ Good(k)}
<1>4. Bad = {}
    <2> SUFFICES ASSUME Bad # {}
                 PROVE  FALSE
        OBVIOUS
    <2>1. PICK k \in Bad : \A j \in Bad : ~ (j < k)
        <3> HIDE DEF Good
        <3>1. Bad \subseteq Nat
            BY <1>1
        <3> QED
            BY <3>1, LeastNat
    <2>2. k \in 0 .. Len(ps) /\ ~ Good(k)
        <3> HIDE DEF Good
        <3> QED
            BY <2>1
    <2>3. k # 0
        <3>1. g[0] = start
            BY <1>1, <1>3
        <3>2. Grown(0)
            <4>1. CASE start = {}
                BY <3>1, <4>1 DEF Widened
            <4>2. CASE start # {}
                <5>1. IsFiniteSet(start)
                    BY NamesAreFinite, FS_Subset
                <5>2. Cardinality(start) \in Nat /\ Cardinality(start) # 0
                    BY <4>2, <5>1, FS_CardinalityType, FS_EmptySet
                <5> QED
                    BY <3>1, <5>2
            <4> QED
                BY <4>1, <4>2
        <3>3. Within(0) /\ Least(0)
            BY <3>1
        <3>4. Good(0)
            BY <3>2, <3>3
        <3> QED
            BY <2>2, <3>4
    <2>4. k - 1 \in 0 .. Len(ps) /\ k - 1 < k /\ k \in Nat
        BY <1>1, <2>2, <2>3
    <2>5. Good(k - 1)
        <3> HIDE DEF Good
        <3> QED
            BY <2>1, <2>4
    <2>6. PICK a : a = g[k - 1]
        OBVIOUS
    <2>7. g[k] = Widened(a, ps)
        BY <1>3, <2>2, <2>3, <2>6
    <2>8. a \subseteq projectNames(ps) /\ start \subseteq a
        BY <2>5, <2>6
    <2>9. a \subseteq g[k] /\ g[k] \subseteq projectNames(ps)
        BY <2>7, <2>8, WidenedShape
    <2>10. Grown(k)
        <3>1. CASE g[k] = a
            BY <2>7, <3>1
        <3>2. CASE g[k] # a
            <4>1. k - 1 < Cardinality(a)
                <5>1. Widened(a, ps) = a \/ k - 1 < Cardinality(a)
                    BY <2>5, <2>6
                <5> QED
                    BY <2>7, <3>2, <5>1
            <4>2. IsFiniteSet(a) /\ IsFiniteSet(g[k])
                BY <2>8, <2>9, NamesAreFinite, FS_Subset
            <4>3. Cardinality(a) < Cardinality(g[k])
                <5>1. PICK b : b = g[k]
                    OBVIOUS
                <5>2. IsFiniteSet(b) /\ a \subseteq b /\ a # b
                    BY <2>9, <3>2, <4>2, <5>1
                <5>3. Cardinality(a) <= Cardinality(b) /\ Cardinality(a) # Cardinality(b)
                    BY <5>2, FS_Subset
                <5>4. Cardinality(a) \in Nat /\ Cardinality(b) \in Nat
                    BY <4>2, <5>1, FS_CardinalityType
                <5> QED
                    BY <5>1, <5>3, <5>4
            <4>4. Cardinality(a) \in Nat /\ Cardinality(g[k]) \in Nat
                BY <4>2, FS_CardinalityType
            <4>5. k < Cardinality(g[k])
                BY <2>4, <4>1, <4>3, <4>4
            <4> QED
                BY <4>5
        <3> QED
            BY <3>1, <3>2
    <2>11. Least(k)
        <3> SUFFICES ASSUME NEW S, start \subseteq S,
                            \A n \in S \cap projectNames(ps) : buildDependencyGraph(ps)[n] \subseteq S
                     PROVE  g[k] \subseteq S
            OBVIOUS
        <3>1. a \subseteq S
            BY <2>5, <2>6
        <3> QED
            BY <2>7, <2>8, <3>1 DEF Widened
    <2>12. Good(k)
        BY <2>8, <2>9, <2>10, <2>11
    <2> QED
        BY <2>2, <2>12
<1>5. Good(Len(ps))
    <2> HIDE DEF Good
    <2> QED
        BY <1>1, <1>4
<1>6. PICK w : w = withDependents(start, ps)
    OBVIOUS
<1>7. /\ start \subseteq w /\ w \subseteq projectNames(ps)
      /\ Widened(w, ps) = w \/ Len(ps) < Cardinality(w)
      /\ \A S : /\ start \subseteq S
                /\ \A n \in S \cap projectNames(ps) : buildDependencyGraph(ps)[n] \subseteq S
                => w \subseteq S
    BY <1>2, <1>5, <1>6
<1>8. Cardinality(w) <= Len(ps)
    <2>1. IsFiniteSet(w) /\ Cardinality(w) <= Cardinality(projectNames(ps)) /\ Cardinality(w) \in Nat
        BY <1>7, NamesAreFinite, FS_Subset, FS_CardinalityType
    <2> QED
        BY <1>1, <2>1, NamesAreFinite
<1>9. Widened(w, ps) = w
    <2>1. Cardinality(w) \in Nat
        BY <1>7, NamesAreFinite, FS_Subset, FS_CardinalityType
    <2> QED
        BY <1>1, <1>7, <1>8, <2>1
<1>10. \A n \in w : buildDependencyGraph(ps)[n] \subseteq w
    BY <1>9 DEF Widened
<1> QED
    BY <1>6, <1>7, <1>10

-----------------------------------------------------------------------------
(* Discovery *)

LEMMA GoModsShape ==
    ASSUME NEW tree, IsCheckout(tree)
    PROVE  /\ IsSequence(goMods(tree))
           /\ ToSet(goMods(tree)) = {m \in ToSet(tree.mods) : ToSet(m.dir) \cap skipDirs = {}}
<1>1. PICK T : T = {m \in ToSet(tree.mods) : ToSet(m.dir) \cap skipDirs = {}}
    OBVIOUS
<1>2. PICK s : s = tree.mods /\ IsSequence(s)
    BY DEF IsCheckout
<1>3. IsSequence(sublist(s, T)) /\ ToSet(sublist(s, T)) = ToSet(s) \cap T
    BY <1>2, SublistShape
<1>4. goMods(tree) = sublist(s, T)
    BY <1>1, <1>2 DEF goMods
<1> QED
    BY <1>1, <1>2, <1>3, <1>4

\* The entries of go.work that lie in the repository.
Inside(tree) == sublist(tree.uses, {u \in ToSet(tree.uses) : u = <<>> \/ Head(u) # ".."})

LEMMA InsideShape ==
    ASSUME NEW tree, IsCheckout(tree)
    PROVE  /\ IsSequence(Inside(tree))
           /\ ToSet(Inside(tree)) = {u \in ToSet(tree.uses) : u = <<>> \/ Head(u) # ".."}
           /\ Len(Inside(tree)) < Len(tree.uses) <=> ToSet(Inside(tree)) # ToSet(tree.uses)
<1>1. PICK T : T = {u \in ToSet(tree.uses) : u = <<>> \/ Head(u) # ".."}
    OBVIOUS
<1>2. PICK s : s = tree.uses /\ IsSequence(s)
    BY DEF IsCheckout
<1>3. /\ IsSequence(sublist(s, T)) /\ ToSet(sublist(s, T)) = ToSet(s) \cap T
      /\ Len(sublist(s, T)) < Len(s) <=> \E i \in DOMAIN s : s[i] \notin T
    BY <1>2, SublistShape
<1>4. Inside(tree) = sublist(s, T)
    BY <1>1, <1>2 DEF Inside
<1>5. ToSet(s) \cap T = T
    BY <1>1, <1>2
<1>6. T # ToSet(s) <=> \E i \in DOMAIN s : s[i] \notin T
    BY <1>1, <1>2 DEF ToSet
<1> QED
    BY <1>1, <1>2, <1>3, <1>4, <1>5, <1>6

\* A module is found where it is.
LEMMA ModAtItsPlace ==
    ASSUME NEW tree, IsCheckout(tree), NEW m \in ToSet(tree.mods)
    PROVE  modAt(tree, m.dir) = m
<1>1. \A n \in ToSet(tree.mods) : n.dir = m.dir => n = m
    BY DEF IsCheckout, ToSet
<1>2. {n \in ToSet(tree.mods) : n.dir = m.dir} = {m}
    BY <1>1
<1> QED
    BY <1>2 DEF modAt

\* The project of directory dir.
ProjectOf(tree, dir) == projectAt(dir, modAt(tree, dir))

\* What discovery returns: the projects of the module boundaries.
ProjectsOK(tree, ps) ==
    /\ IsSequence(ps)
    /\ \A q \in ToSet(ps) : q.root \in Boundaries(tree) /\ q = ProjectOf(tree, q.root)
    /\ \A d \in Boundaries(tree) : ProjectOf(tree, d) \in ToSet(ps)

LEMMA ProjectFields ==
    ASSUME NEW tree, NEW d
    PROVE  /\ ProjectOf(tree, d).root = d
           /\ ProjectOf(tree, d).name = projectNameFromRoot(d)
           /\ ProjectOf(tree, d).path = modAt(tree, d).path
           /\ ProjectOf(tree, d).requires = modAt(tree, d).requires
BY DEF ProjectOf, projectAt

LEMMA WalkedProjects ==
    ASSUME NEW tree, IsCheckout(tree), tree.readable, NEW ps,
           ps = discoverGoProjectsFromGoMod(tree).projects,
           Boundaries(tree) = {m.dir : m \in ToSet(goMods(tree))}
    PROVE  ProjectsOK(tree, ps)
<1>1. PICK s : s = goMods(tree)
    OBVIOUS
<1>2. IsSequence(s) /\ ToSet(s) \subseteq ToSet(tree.mods)
    BY <1>1, GoModsShape
<1>3. ps = [i \in DOMAIN s |-> projectAt(s[i].dir, s[i])]
    BY <1>1 DEF discoverGoProjectsFromGoMod
<1>4. \A i \in DOMAIN s : ps[i] = ProjectOf(tree, s[i].dir) /\ s[i].dir \in Boundaries(tree)
    <2> SUFFICES ASSUME NEW i \in DOMAIN s
                 PROVE  ps[i] = ProjectOf(tree, s[i].dir) /\ s[i].dir \in Boundaries(tree)
        OBVIOUS
    <2>1. s[i] \in ToSet(s)
        BY DEF ToSet
    <2>2. modAt(tree, s[i].dir) = s[i]
        BY <1>2, <2>1, ModAtItsPlace
    <2> QED
        BY <1>1, <1>3, <2>1, <2>2 DEF ProjectOf
<1>5. IsSequence(ps)
    <2>1. IsFunction(ps) /\ DOMAIN ps = DOMAIN s
        BY <1>3 DEF IsFunction
    <2> QED
        BY <1>2, <2>1, SameShape
<1>6. \A q \in ToSet(ps) : \E i \in DOMAIN s : q = ps[i]
    BY <1>3 DEF ToSet
<1>7. \A i \in DOMAIN s : ps[i] \in ToSet(ps)
    BY <1>3 DEF ToSet
<1>8. \A d \in Boundaries(tree) : \E i \in DOMAIN s : d = s[i].dir
    BY <1>1 DEF ToSet
<1> QED
    BY <1>4, <1>5, <1>6, <1>7, <1>8, ProjectFields DEF ProjectsOK

LEMMA ListedProjects ==
    ASSUME NEW tree, IsCheckout(tree), NEW ps,
           ps = discoverGoProjectsFromGoWork(tree).projects,
           Boundaries(tree) = ToSet(Inside(tree))
    PROVE  ProjectsOK(tree, ps)
<1>1. PICK s : s = Inside(tree)
    OBVIOUS
<1>2. IsSequence(s)
    BY <1>1, InsideShape
<1>3. ps = [i \in DOMAIN s |-> projectAt(s[i], modAt(tree, s[i]))]
    BY <1>1 DEF discoverGoProjectsFromGoWork, Inside
<1>4. \A i \in DOMAIN s : ps[i] = ProjectOf(tree, s[i]) /\ s[i] \in Boundaries(tree)
    BY <1>1, <1>3 DEF ProjectOf, ToSet
<1>5. IsSequence(ps)
    <2>1. IsFunction(ps) /\ DOMAIN ps = DOMAIN s
        BY <1>3 DEF IsFunction
    <2> QED
        BY <1>2, <2>1, SameShape
<1>6. \A q \in ToSet(ps) : \E i \in DOMAIN s : q = ps[i]
    BY <1>3 DEF ToSet
<1>7. \A i \in DOMAIN s : ps[i] \in ToSet(ps)
    BY <1>3 DEF ToSet
<1>8. \A d \in Boundaries(tree) : \E i \in DOMAIN s : d = s[i]
    BY <1>1 DEF ToSet
<1> QED
    BY <1>4, <1>5, <1>6, <1>7, <1>8, ProjectFields DEF ProjectsOK

\* There is a listed project exactly if a directory inside is listed.
LEMMA WorkspaceIsEmpty ==
    ASSUME NEW tree, IsCheckout(tree)
    PROVE  discoverGoProjectsFromGoWork(tree).projects = <<>> <=> ToSet(Inside(tree)) = {}
<1>1. PICK s : s = Inside(tree)
    OBVIOUS
<1>2. PICK ps : ps = discoverGoProjectsFromGoWork(tree).projects
    OBVIOUS
<1>3. ps = [i \in DOMAIN s |-> projectAt(s[i], modAt(tree, s[i]))]
    BY <1>1, <1>2 DEF discoverGoProjectsFromGoWork, Inside
<1>4. DOMAIN ps = DOMAIN s
    BY <1>3
<1>5. ToSet(s) = {} <=> DOMAIN s = {}
    BY DEF ToSet
<1>6. ps = <<>> => DOMAIN ps = {}
    OBVIOUS
<1>7. DOMAIN s = {} => ps = <<>>
    BY <1>3
<1> QED
    BY <1>1, <1>2, <1>4, <1>5, <1>6, <1>7

LEMMA DiscoveryIsExact ==
    ASSUME NEW tree, IsCheckout(tree)
    PROVE  ProjectsOK(tree, discoverGoProjects(tree).projects)
<1>1. tree.work \in BOOLEAN /\ tree.readable \in BOOLEAN
    BY DEF IsCheckout
<1>2. PICK w : w = discoverGoProjectsFromGoWork(tree)
    OBVIOUS
<1>3. PICK m : m = discoverGoProjectsFromGoMod(tree) /\ m = [projects |-> m.projects, unknown |-> m.unknown]
    BY DEF discoverGoProjectsFromGoMod
<1>4. CASE tree.work /\ ToSet(Inside(tree)) # {}
    <2>1. discoverGoProjects(tree) = w
        BY <1>2, <1>4, WorkspaceIsEmpty DEF discoverGoProjects
    <2>2. Boundaries(tree) = ToSet(Inside(tree))
        BY <1>4, InsideShape DEF Boundaries
    <2> QED
        BY <1>2, <2>1, <2>2, ListedProjects
<1>5. CASE ~(tree.work /\ ToSet(Inside(tree)) # {})
    <2>1. discoverGoProjects(tree).projects = m.projects
        <3>1. CASE ~tree.work
            BY <1>3, <3>1 DEF discoverGoProjects
        <3>2. CASE tree.work
            <4>1. w.projects = <<>>
                BY <1>2, <1>5, <3>2, WorkspaceIsEmpty
            <4>2. discoverGoProjects(tree) = [m EXCEPT !.unknown = TRUE]
                BY <1>2, <1>3, <3>2, <4>1 DEF discoverGoProjects
            <4> QED
                BY <1>3, <4>2
        <3> QED
            BY <1>1, <3>1, <3>2
    <2>2. Boundaries(tree) = IF tree.readable THEN {n.dir : n \in ToSet(goMods(tree))} ELSE {}
        BY <1>5, InsideShape DEF Boundaries
    <2>3. CASE tree.readable
        BY <1>3, <2>1, <2>2, <2>3, WalkedProjects
    <2>4. CASE ~tree.readable
        <3>1. discoverGoProjects(tree).projects = <<>>
            BY <1>3, <2>1, <2>4 DEF discoverGoProjectsFromGoMod
        <3>2. IsSequence(<<>>) /\ ToSet(<<>>) = {}
            BY EmptySeq DEF IsSequence, ToSet
        <3> QED
            BY <2>2, <2>4, <3>1, <3>2 DEF ProjectsOK
    <2> QED
        BY <1>1, <2>3, <2>4
<1> QED
    BY <1>4, <1>5

-----------------------------------------------------------------------------
(* Names *)

LEMMA GreatestNat ==
    ASSUME NEW n \in Nat, NEW T, T \subseteq 0 .. n, T # {}
    PROVE  \E i \in T : \A k \in T : k <= i
<1>1. PICK R : R = {n - k : k \in T}
    OBVIOUS
<1>2. R \subseteq Nat /\ R # {}
    <2>1. \A k \in T : n - k \in Nat
        <3> SUFFICES ASSUME NEW k \in T
                     PROVE  n - k \in Nat
            OBVIOUS
        <3>1. k \in 0 .. n
            OBVIOUS
        <3> QED
            BY <3>1
    <2> QED
        BY <1>1, <2>1
<1>3. PICK m \in R : \A k \in R : ~ (k < m)
    BY <1>2, LeastNat
<1>4. PICK i \in T : m = n - i
    BY <1>1, <1>3
<1>5. \A k \in T : n - k \in R
    BY <1>1
<1>6. ASSUME NEW k \in T PROVE k <= i
    <2>1. ~ (n - k < n - i)
        BY <1>3, <1>4, <1>5
    <2>2. k \in 0 .. n /\ i \in 0 .. n
        OBVIOUS
    <2> QED
        BY <2>1, <2>2
<1> QED
    BY <1>6

\* The directory of a name is a directory with that name.
LEMMA ProjectRootShape ==
    ASSUME NEW tree, NEW ps, ProjectsOK(tree, ps), NEW name \in projectNames(ps)
    PROVE  /\ projectRoot(ps, name) \in Boundaries(tree)
           /\ projectNameFromRoot(projectRoot(ps, name)) = name
<1>1. PICK Of : Of = {i \in DOMAIN ps : ps[i].name = name}
    OBVIOUS
<1>2. Of # {}
    BY <1>1 DEF projectNames, ToSet
<1>3. Len(ps) \in Nat /\ Of \subseteq 0 .. Len(ps)
    BY <1>1, SequenceShape DEF ProjectsOK
<1>4. \E i \in Of : \A n \in Of : n <= i
    BY <1>2, <1>3, GreatestNat
<1>5. PICK i : i = CHOOSE k \in Of : \A n \in Of : n <= k
    OBVIOUS
<1>6. i \in Of
    BY <1>4, <1>5
<1>7. projectRoot(ps, name) = ps[i].root
    BY <1>1, <1>2, <1>5 DEF projectRoot
<1>8. ps[i] \in ToSet(ps) /\ ps[i].name = name
    BY <1>1, <1>6 DEF ToSet
<1> QED
    BY <1>7, <1>8, ProjectFields DEF ProjectsOK

LEMMA NamesAreOfBoundaries ==
    ASSUME NEW tree, NEW ps, ProjectsOK(tree, ps)
    PROVE  projectNames(ps) = {projectNameFromRoot(d) : d \in Boundaries(tree)}
BY ProjectFields DEF ProjectsOK, projectNames

LEMMA OwnersAreNames ==
    ASSUME NEW ps, NEW p
    PROVE  ownerForPath(ps, p) \subseteq projectNames(ps)
BY DEF ownerForPath, projectNames

LEMMA ImpactedAreNames ==
    ASSUME NEW ps, IsSequence(ps), NEW paths, NEW unknown
    PROVE  analyzeImpact(paths, ps, unknown).impacted \subseteq projectNames(ps)
<1>1. PICK start : start = UNION {ownerForPath(ps, p) : p \in paths}
    OBVIOUS
<1>2. start \subseteq projectNames(ps)
    BY <1>1, OwnersAreNames
<1>3. withDependents(start, ps) \subseteq projectNames(ps)
    BY <1>2, WithDependentsShape
<1> QED
    BY <1>1, <1>3 DEF analyzeImpact

-----------------------------------------------------------------------------
(* Paths *)

LEMMA PrefixShape ==
    ASSUME NEW s, IsSequence(s), NEW t, IsSequence(t)
    PROVE  IsPrefix(s, t) <=> Len(s) <= Len(t) /\ \A i \in 1 .. Len(s) : s[i] = t[i]
<1>1. PICK n \in Nat : n = Len(s)
    BY SequenceShape
<1>2. Len(t) \in Nat /\ DOMAIN s = 1 .. n /\ DOMAIN t = 1 .. Len(t)
    BY <1>1, SequenceShape
<1>3. CASE n <= Len(t)
    <2>1. PICK T : T = ToSet(s) \union ToSet(t)
        OBVIOUS
    <2>2. (\A i \in 1 .. n : s[i] \in T) /\ (\A i \in 1 .. n : t[i] \in T)
        BY <1>2, <1>3, <2>1 DEF ToSet
    <2>3. PICK a, b : a = SubSeq(s, 1, n) /\ b = SubSeq(t, 1, n)
        OBVIOUS
    <2>4. /\ a \in Seq(T) /\ b \in Seq(T)
          /\ Len(a) = (IF 1 <= n THEN n - 1 + 1 ELSE 0) /\ Len(b) = (IF 1 <= n THEN n - 1 + 1 ELSE 0)
          /\ \A i \in 1 .. n - 1 + 1 : a[i] = s[1 + i - 1]
          /\ \A i \in 1 .. n - 1 + 1 : b[i] = t[1 + i - 1]
        BY <2>2, <2>3, SubSeqProperties
    <2>5. Len(a) = n /\ Len(b) = n /\ \A i \in 1 .. n : a[i] = s[i] /\ b[i] = t[i]
        BY <2>4
    <2>6. a = [i \in 1 .. n |-> a[i]] /\ b = [i \in 1 .. n |-> b[i]]
        BY <2>4, <2>5, LenProperties
    <2>7. a = b <=> \A i \in 1 .. n : s[i] = t[i]
        BY <2>5, <2>6
    <2> QED
        BY <1>1, <1>3, <2>3, <2>7 DEF IsPrefix
<1>4. CASE ~(n <= Len(t))
    BY <1>1, <1>4 DEF IsPrefix
<1> QED
    BY <1>3, <1>4

\* Of two prefixes of one path the shorter is a prefix of the longer.
LEMMA PrefixesAreNested ==
    ASSUME NEW p, IsSequence(p), NEW s, IsSequence(s), NEW t, IsSequence(t),
           IsPrefix(s, p), IsPrefix(t, p)
    PROVE  Len(s) <= Len(t) <=> IsPrefix(s, t)
<1>1. Len(s) \in Nat /\ Len(t) \in Nat
    BY SequenceShape
<1>2. (\A i \in 1 .. Len(s) : s[i] = p[i]) /\ (\A i \in 1 .. Len(t) : t[i] = p[i])
    BY PrefixShape
<1>3. Len(s) <= Len(t) => \A i \in 1 .. Len(s) : s[i] = t[i]
    BY <1>1, <1>2
<1> QED
    BY <1>3, PrefixShape

\* The module boundaries are directories.
LEMMA BoundariesArePaths ==
    ASSUME NEW tree, IsCheckout(tree), NEW d \in Boundaries(tree)
    PROVE  IsSequence(d)
<1>1. d \in ToSet(tree.uses) \/ \E m \in ToSet(goMods(tree)) : d = m.dir
    BY DEF Boundaries
<1> QED
    BY <1>1, GoModsShape DEF IsCheckout

-----------------------------------------------------------------------------
(* Projects against module boundaries, where modules can be told apart *)

LEMMA NamesTellApart ==
    ASSUME NEW tree, ModulesApart(tree), NEW a \in Boundaries(tree), NEW b \in Boundaries(tree),
           projectNameFromRoot(a) = projectNameFromRoot(b)
    PROVE  a = b
BY DEF ModulesApart, projectNameFromRoot

LEMMA ProjectRootOfName ==
    ASSUME NEW tree, ModulesApart(tree), NEW ps, ProjectsOK(tree, ps), NEW d \in Boundaries(tree)
    PROVE  projectRoot(ps, projectNameFromRoot(d)) = d
<1>1. PICK n : n = projectNameFromRoot(d)
    OBVIOUS
<1>2. n \in projectNames(ps)
    BY <1>1, NamesAreOfBoundaries
<1>3. projectRoot(ps, n) \in Boundaries(tree) /\ projectNameFromRoot(projectRoot(ps, n)) = n
    BY <1>2, ProjectRootShape
<1> QED
    BY <1>1, <1>3, NamesTellApart

LEMMA ModuleIndexShape ==
    ASSUME NEW tree, ModulesApart(tree), NEW ps, ProjectsOK(tree, ps), NEW path
    PROVE  moduleIndex(ps, path) =
              {projectNameFromRoot(a) : a \in {b \in Boundaries(tree) : modAt(tree, b).path = path /\ path # NoModule}}
<1>1. PICK Of : Of = {i \in DOMAIN ps : ps[i].path = path}
    OBVIOUS
<1>2. moduleIndex(ps, path) = {ps[i].name : i \in {k \in Of : path # NoModule /\ \A n \in Of : n <= k}}
    BY <1>1 DEF moduleIndex
<1>3. \A i \in DOMAIN ps : ps[i] \in ToSet(ps)
    BY DEF ToSet
<1>4. \A i \in Of : /\ ps[i].root \in Boundaries(tree) /\ ps[i].name = projectNameFromRoot(ps[i].root)
                    /\ modAt(tree, ps[i].root).path = path
    BY <1>1, <1>3, ProjectFields DEF ProjectsOK
<1>5. ASSUME NEW a \in Boundaries(tree), modAt(tree, a).path = path, path # NoModule
      PROVE  projectNameFromRoot(a) \in moduleIndex(ps, path)
    <2>1. PICK i \in DOMAIN ps : ps[i] = ProjectOf(tree, a)
        BY DEF ProjectsOK, ToSet
    <2>2. i \in Of
        BY <1>1, <1>5, <2>1, ProjectFields
    <2>3. Len(ps) \in Nat /\ Of \subseteq 0 .. Len(ps)
        BY <1>1, SequenceShape DEF ProjectsOK
    <2>4. PICK k \in Of : \A n \in Of : n <= k
        BY <2>2, <2>3, GreatestNat
    <2>5. ps[k].root = a
        BY <1>4, <1>5, <2>4 DEF ModulesApart
    <2> QED
        BY <1>2, <1>4, <1>5, <2>4, <2>5
<1>6. ASSUME NEW n \in moduleIndex(ps, path)
      PROVE  \E a \in Boundaries(tree) :
                modAt(tree, a).path = path /\ path # NoModule /\ n = projectNameFromRoot(a)
    BY <1>2, <1>4, <1>6
<1> QED
    BY <1>5, <1>6

\* The edges of the dependency graph are the requirements between modules.
LEMMA GraphShape ==
    ASSUME NEW tree, ModulesApart(tree), NEW ps, ProjectsOK(tree, ps), NEW a \in Boundaries(tree)
    PROVE  buildDependencyGraph(ps)[projectNameFromRoot(a)] =
              {projectNameFromRoot(b) : b \in {c \in Boundaries(tree) : RequiresFrom(tree, c, a)}}
<1>1. PICK n : n = projectNameFromRoot(a)
    OBVIOUS
<1>2. n \in projectNames(ps)
    BY <1>1, NamesAreOfBoundaries
<1>3. buildDependencyGraph(ps)[n] = {q.name : q \in {d \in ToSet(ps) : \E r \in d.requires : n \in moduleIndex(ps, r)}}
    BY <1>2 DEF buildDependencyGraph
<1>4. ASSUME NEW b \in Boundaries(tree), NEW q, q = ProjectOf(tree, b)
      PROVE  (\E r \in q.requires : n \in moduleIndex(ps, r)) <=> RequiresFrom(tree, b, a)
    <2>1. \A r : n \in moduleIndex(ps, r) <=> modAt(tree, a).path = r /\ r # NoModule
        <3> SUFFICES ASSUME NEW r
                     PROVE  n \in moduleIndex(ps, r) <=> modAt(tree, a).path = r /\ r # NoModule
            OBVIOUS
        <3>1. \A c \in Boundaries(tree) : projectNameFromRoot(c) = n => c = a
            BY <1>1, NamesTellApart
        <3> QED
            BY <1>1, <3>1, ModuleIndexShape
    <2>2. q.requires = modAt(tree, b).requires
        BY <1>4, ProjectFields
    <2> QED
        BY <2>1, <2>2 DEF RequiresFrom
<1>5. ASSUME NEW x \in buildDependencyGraph(ps)[n]
      PROVE  \E b \in Boundaries(tree) : RequiresFrom(tree, b, a) /\ x = projectNameFromRoot(b)
    <2>1. PICK q \in ToSet(ps) : x = q.name /\ \E r \in q.requires : n \in moduleIndex(ps, r)
        BY <1>3, <1>5
    <2>2. q.root \in Boundaries(tree) /\ q = ProjectOf(tree, q.root)
        BY DEF ProjectsOK
    <2>3. q.name = projectNameFromRoot(q.root)
        BY <2>2, ProjectFields
    <2> QED
        BY <1>4, <2>1, <2>2, <2>3
<1>6. ASSUME NEW b \in Boundaries(tree), RequiresFrom(tree, b, a)
      PROVE  projectNameFromRoot(b) \in buildDependencyGraph(ps)[n]
    <2>1. PICK q : q = ProjectOf(tree, b)
        OBVIOUS
    <2>2. q \in ToSet(ps)
        BY <2>1 DEF ProjectsOK
    <2>3. \E r \in q.requires : n \in moduleIndex(ps, r)
        BY <1>4, <1>6, <2>1
    <2>4. q.name = projectNameFromRoot(b)
        BY <2>1, ProjectFields
    <2> QED
        BY <1>3, <2>2, <2>3, <2>4
<1> QED
    BY <1>1, <1>5, <1>6

\* The owner of a path is the module whose boundary is the innermost around it.
LEMMA OwnerShape ==
    ASSUME NEW tree, IsCheckout(tree), ModulesApart(tree), NEW ps, ProjectsOK(tree, ps),
           NEW p, IsSequence(p), NEW d \in Boundaries(tree)
    PROVE  projectNameFromRoot(d) \in ownerForPath(ps, p)
              <=> /\ IsPrefix(d, p)
                  /\ \A b \in Boundaries(tree) : IsPrefix(b, p) => IsPrefix(b, d)
<1>1. PICK H : H = {q \in ToSet(ps) : IsPrefix(q.root, p)}
    OBVIOUS
<1>2. ownerForPath(ps, p) = {q.name : q \in {h \in H : \A g \in H : Len(g.root) <= Len(h.root)}}
    BY <1>1 DEF ownerForPath
<1>3. \A q \in H : q.root \in Boundaries(tree) /\ IsPrefix(q.root, p) /\ q.name = projectNameFromRoot(q.root)
    BY <1>1, ProjectFields DEF ProjectsOK
<1>4. \A b \in Boundaries(tree) : IsPrefix(b, p) => \E q \in H : q.root = b
    BY <1>1, ProjectFields DEF ProjectsOK
<1>5. \A b, c \in Boundaries(tree) :
          IsPrefix(b, p) /\ IsPrefix(c, p) => (Len(b) <= Len(c) <=> IsPrefix(b, c))
    BY BoundariesArePaths, PrefixesAreNested
<1>6. ASSUME projectNameFromRoot(d) \in ownerForPath(ps, p)
      PROVE  IsPrefix(d, p) /\ \A b \in Boundaries(tree) : IsPrefix(b, p) => IsPrefix(b, d)
    <2>1. PICK h \in H : h.name = projectNameFromRoot(d) /\ \A g \in H : Len(g.root) <= Len(h.root)
        BY <1>2, <1>6
    <2>2. h.root = d
        BY <1>3, <2>1, NamesTellApart
    <2> QED
        BY <1>3, <1>4, <1>5, <2>1, <2>2
<1>7. ASSUME IsPrefix(d, p), \A b \in Boundaries(tree) : IsPrefix(b, p) => IsPrefix(b, d)
      PROVE  projectNameFromRoot(d) \in ownerForPath(ps, p)
    <2>1. PICK h \in H : h.root = d
        BY <1>4, <1>7
    <2>2. \A g \in H : Len(g.root) <= Len(h.root)
        BY <1>3, <1>5, <1>7, <2>1
    <2> QED
        BY <1>2, <1>3, <2>1, <2>2
<1> QED
    BY <1>6, <1>7

\* A path in some module has an owner.
LEMMA OwnerExists ==
    ASSUME NEW tree, IsCheckout(tree), NEW ps, ProjectsOK(tree, ps), NEW p, IsSequence(p)
    PROVE  ownerForPath(ps, p) # {} <=> \E d \in Boundaries(tree) : IsPrefix(d, p)
<1>1. PICK H : H = {q \in ToSet(ps) : IsPrefix(q.root, p)}
    OBVIOUS
<1>2. ownerForPath(ps, p) = {q.name : q \in {h \in H : \A g \in H : Len(g.root) <= Len(h.root)}}
    BY <1>1 DEF ownerForPath
<1>3. \A q \in H : q.root \in Boundaries(tree) /\ IsPrefix(q.root, p)
    BY <1>1 DEF ProjectsOK
<1>4. ASSUME NEW d \in Boundaries(tree), IsPrefix(d, p)
      PROVE  ownerForPath(ps, p) # {}
    <2>1. \E q \in H : q.root = d
        BY <1>1, <1>4, ProjectFields DEF ProjectsOK
    <2>2. PICK T : T = {Len(q.root) : q \in H}
        OBVIOUS
    <2>3. Len(p) \in Nat /\ \A q \in H : Len(q.root) \in 0 .. Len(p)
        <3>1. Len(p) \in Nat
            BY SequenceShape
        <3>2. \A q \in H : IsSequence(q.root) /\ IsPrefix(q.root, p)
            BY <1>3, BoundariesArePaths
        <3>3. \A q \in H : Len(q.root) \in Nat /\ Len(q.root) <= Len(p)
            BY <3>2, SequenceShape DEF IsPrefix
        <3> QED
            BY <3>1, <3>3
    <2>4. T \subseteq 0 .. Len(p) /\ T # {}
        BY <2>1, <2>2, <2>3
    <2>5. PICK n \in T : \A k \in T : k <= n
        BY <2>3, <2>4, GreatestNat
    <2>6. PICK h \in H : n = Len(h.root)
        BY <2>2, <2>5
    <2> QED
        BY <1>2, <2>2, <2>5, <2>6
<1> QED
    BY <1>2, <1>3, <1>4

LEMMA AffectedShape ==
    ASSUME NEW tree, NEW paths
    PROVE  /\ Touched(tree, paths) \subseteq Affected(tree, paths)
           /\ Affected(tree, paths) \subseteq Boundaries(tree)
           /\ \A a \in Affected(tree, paths), b \in Boundaries(tree) :
                  RequiresFrom(tree, b, a) => b \in Affected(tree, paths)
           /\ \A S \in SUBSET Boundaries(tree) :
                  /\ Touched(tree, paths) \subseteq S
                  /\ \A a \in S, b \in Boundaries(tree) : RequiresFrom(tree, b, a) => b \in S
                  => Affected(tree, paths) \subseteq S
<1>1. Touched(tree, paths) \subseteq Boundaries(tree)
    BY DEF Touched
<1> QED
    BY <1>1 DEF Affected

\* The search of resolveImpactedProjects finds the names of the modules the
\* change may break, and no other.
LEMMA ImpactIsExact ==
    ASSUME NEW tree, IsCheckout(tree), ModulesApart(tree), NEW ps, ProjectsOK(tree, ps),
           NEW paths, \A p \in paths : IsSequence(p)
    PROVE  withDependents(UNION {ownerForPath(ps, p) : p \in paths}, ps)
              = {projectNameFromRoot(d) : d \in Affected(tree, paths)}
<1>1. PICK start : start = UNION {ownerForPath(ps, p) : p \in paths}
    OBVIOUS
<1>2. start \subseteq projectNames(ps)
    BY <1>1, OwnersAreNames
<1>3. \A d \in Boundaries(tree) : projectNameFromRoot(d) \in start <=> d \in Touched(tree, paths)
    BY <1>1, OwnerShape DEF Touched
<1>4. PICK W : W = withDependents(start, ps)
    OBVIOUS
<1>5. /\ start \subseteq W /\ W \subseteq projectNames(ps)
      /\ \A n \in W : buildDependencyGraph(ps)[n] \subseteq W
      /\ \A S : /\ start \subseteq S
                /\ \A n \in S \cap projectNames(ps) : buildDependencyGraph(ps)[n] \subseteq S
                => W \subseteq S
    BY <1>2, <1>4, WithDependentsShape DEF ProjectsOK
<1>6. ASSUME NEW d \in Affected(tree, paths)
      PROVE  projectNameFromRoot(d) \in W
    <2>1. PICK S : S = {c \in Boundaries(tree) : projectNameFromRoot(c) \in W}
        OBVIOUS
    <2>2. Touched(tree, paths) \subseteq S
        BY <1>3, <1>5, <2>1 DEF Touched
    <2>3. ASSUME NEW a \in S, NEW b \in Boundaries(tree), RequiresFrom(tree, b, a)
          PROVE  b \in S
        <3>1. projectNameFromRoot(b) \in buildDependencyGraph(ps)[projectNameFromRoot(a)]
            BY <2>1, <2>3, GraphShape
        <3> QED
            BY <1>5, <2>1, <3>1
    <2>4. S \in SUBSET Boundaries(tree)
        BY <2>1
    <2>5. Affected(tree, paths) \subseteq S
        BY <2>2, <2>3, <2>4, AffectedShape
    <2> QED
        BY <2>1, <2>5
<1>7. ASSUME NEW n \in W
      PROVE  \E d \in Affected(tree, paths) : n = projectNameFromRoot(d)
    <2>1. PICK S : S = {projectNameFromRoot(d) : d \in Affected(tree, paths)}
        OBVIOUS
    <2>2. start \subseteq S
        <3> SUFFICES ASSUME NEW m \in start
                     PROVE  m \in S
            OBVIOUS
        <3>1. PICK d \in Boundaries(tree) : m = projectNameFromRoot(d)
            BY <1>2, NamesAreOfBoundaries
        <3> QED
            BY <1>3, <2>1, <3>1, AffectedShape
    <2>3. ASSUME NEW m \in S \cap projectNames(ps)
          PROVE  buildDependencyGraph(ps)[m] \subseteq S
        <3>1. PICK a \in Affected(tree, paths) : m = projectNameFromRoot(a)
            BY <2>1
        <3>2. a \in Boundaries(tree)
            BY AffectedShape
        <3>3. \A x \in buildDependencyGraph(ps)[m] :
                  \E b \in Boundaries(tree) : RequiresFrom(tree, b, a) /\ x = projectNameFromRoot(b)
            BY <3>1, <3>2, GraphShape
        <3> QED
            BY <2>1, <3>3, AffectedShape
    <2> QED
        BY <1>5, <2>1, <2>2, <2>3
<1> QED
    BY <1>1, <1>4, <1>6, <1>7

-----------------------------------------------------------------------------
(* What is known *)

\* Discovery admits that it does not know every module.
LEMMA UnknownShape ==
    ASSUME NEW tree, IsCheckout(tree)
    PROVE  discoverGoProjects(tree).unknown <=>
              \/ tree.work /\ ToSet(Inside(tree)) = {}
              \/ tree.work /\ ToSet(Inside(tree)) # ToSet(tree.uses)
              \/ ~tree.work /\ ~tree.readable
              \/ \E d \in Boundaries(tree) : modAt(tree, d).path = NoModule
<1>1. tree.work \in BOOLEAN /\ tree.readable \in BOOLEAN
    BY DEF IsCheckout
<1>2. PICK w : w = discoverGoProjectsFromGoWork(tree)
    OBVIOUS
<1>3. PICK m : m = discoverGoProjectsFromGoMod(tree) /\ m = [projects |-> m.projects, unknown |-> m.unknown]
    BY DEF discoverGoProjectsFromGoMod
<1>4. CASE tree.work /\ ToSet(Inside(tree)) # {}
    <2>1. discoverGoProjects(tree) = w
        BY <1>2, <1>4, WorkspaceIsEmpty DEF discoverGoProjects
    <2>2. Boundaries(tree) = ToSet(Inside(tree))
        BY <1>4, InsideShape DEF Boundaries
    <2>3. w.unknown <=> \/ Len(Inside(tree)) < Len(tree.uses)
                        \/ \E u \in ToSet(Inside(tree)) : modAt(tree, u).path = NoModule
        BY <1>2 DEF discoverGoProjectsFromGoWork, Inside
    <2> QED
        BY <1>4, <2>1, <2>2, <2>3, InsideShape
<1>5. CASE tree.work /\ ToSet(Inside(tree)) = {}
    <2>1. w.projects = <<>>
        BY <1>2, <1>5, WorkspaceIsEmpty
    <2>2. discoverGoProjects(tree) = [m EXCEPT !.unknown = TRUE]
        BY <1>2, <1>3, <1>5, <2>1 DEF discoverGoProjects
    <2>3. discoverGoProjects(tree).unknown
        BY <1>3, <2>2
    <2> QED
        BY <1>5, <2>3
<1>6. CASE ~tree.work
    <2>1. discoverGoProjects(tree) = m
        BY <1>3, <1>6 DEF discoverGoProjects
    <2>2. CASE ~tree.readable
        BY <1>3, <1>6, <2>1, <2>2 DEF discoverGoProjectsFromGoMod
    <2>3. CASE tree.readable
        <3>1. m.unknown <=> \E n \in ToSet(goMods(tree)) : n.path = NoModule
            BY <1>3, <2>3 DEF discoverGoProjectsFromGoMod
        <3>2. Boundaries(tree) = {n.dir : n \in ToSet(goMods(tree))}
            BY <1>6, <2>3 DEF Boundaries
        <3>3. \A n \in ToSet(goMods(tree)) : modAt(tree, n.dir) = n
            BY GoModsShape, ModAtItsPlace
        <3> QED
            BY <1>6, <2>1, <2>3, <3>1, <3>2, <3>3
    <2> QED
        BY <1>1, <2>2, <2>3
<1> QED
    BY <1>1, <1>4, <1>5, <1>6

\* analyzeImpact gives up on the dependency graph exactly when something is not
\* known.
LEMMA KnownShape ==
    ASSUME NEW tree, IsCheckout(tree), NEW go, go = discoverGoProjects(tree),
           NEW paths, paths # {}, \A p \in paths : IsSequence(p)
    PROVE  ImpactKnown(tree, paths) <=>
              ~ \/ go.unknown
                \/ \E p \in paths : isGlobalImpact(p) \/ ownerForPath(go.projects, p) = {}
<1>1. tree.work \in BOOLEAN /\ tree.readable \in BOOLEAN
    BY DEF IsCheckout
<1>2. \A p \in paths : ownerForPath(go.projects, p) # {} <=> \E d \in Boundaries(tree) : IsPrefix(d, p)
    BY DiscoveryIsExact, OwnerExists
<1>3. PICK L : L = ToSet(Inside(tree))
    OBVIOUS
<1>4. L = {u \in ToSet(tree.uses) : u = <<>> \/ Head(u) # ".."}
    BY <1>3, InsideShape
<1>5. CASE tree.work /\ L # {}
    <2>1. Boundaries(tree) = L
        BY <1>4, <1>5 DEF Boundaries
    <2>2. tree.uses # <<>>
        BY <1>4, <1>5 DEF ToSet
    <2>3. (\A u \in ToSet(tree.uses) : u \in Boundaries(tree)) <=> L = ToSet(tree.uses)
        BY <1>4, <2>1
    <2> QED
        BY <1>2, <1>3, <1>5, <2>2, <2>3, UnknownShape DEF ImpactKnown
<1>6. CASE tree.work /\ L = {}
    <2>1. go.unknown
        BY <1>3, <1>6, UnknownShape
    <2>2. \A d \in Boundaries(tree) : d = <<>> \/ Head(d) # ".."
        <3>1. Boundaries(tree) \subseteq {m.dir : m \in ToSet(tree.mods)}
            BY <1>4, <1>6, GoModsShape DEF Boundaries
        <3> QED
            BY <3>1 DEF IsCheckout
    <2>3. ASSUME \A u \in ToSet(tree.uses) : u \in Boundaries(tree)
          PROVE  tree.uses = <<>>
        <3>1. ToSet(tree.uses) = {}
            BY <1>4, <1>6, <2>2, <2>3
        <3>2. PICK s : s = tree.uses /\ IsSequence(s)
            BY DEF IsCheckout
        <3>3. Len(s) = 0
            <4>1. DOMAIN s = {}
                BY <3>1, <3>2 DEF ToSet
            <4>2. Len(s) \in Nat /\ DOMAIN s = 1 .. Len(s)
                BY <3>2, SequenceShape
            <4> QED
                BY <4>1, <4>2
        <3>4. s = <<>>
            BY <3>2, <3>3, EmptySeq DEF IsSequence
        <3> QED
            BY <3>2, <3>4
    <2> QED
        BY <1>6, <2>1, <2>3 DEF ImpactKnown
<1>7. CASE ~tree.work /\ tree.readable
    BY <1>2, <1>7, UnknownShape DEF ImpactKnown
<1>8. CASE ~tree.work /\ ~tree.readable
    <2>1. Boundaries(tree) = {}
        BY <1>8 DEF Boundaries
    <2>2. go.unknown
        BY <1>8, UnknownShape
    <2> QED
        BY <2>1, <2>2 DEF ImpactKnown
<1> QED
    BY <1>1, <1>5, <1>6, <1>7, <1>8

\* The modules a plan has to cover.
Demanded(tree, paths) == IF ImpactKnown(tree, paths) THEN Affected(tree, paths) ELSE Boundaries(tree)

LEMMA AnalyzeImpactShape ==
    ASSUME NEW tree, IsCheckout(tree), ModulesApart(tree), NEW go, go = discoverGoProjects(tree),
           NEW paths, paths # {}, \A p \in paths : IsSequence(p)
    PROVE  /\ analyzeImpact(paths, go.projects, go.unknown).impacted
                 = {projectNameFromRoot(d) : d \in Demanded(tree, paths)}
           /\ analyzeImpact(paths, go.projects, go.unknown).docsOnly <=> \A p \in paths : isDocsPath(p)
<1>1. ProjectsOK(tree, go.projects)
    BY DiscoveryIsExact
<1>2. CASE ImpactKnown(tree, paths)
    <2>1. ~ \/ go.unknown
            \/ \E p \in paths : isGlobalImpact(p) \/ ownerForPath(go.projects, p) = {}
        BY <1>2, KnownShape
    <2>2. analyzeImpact(paths, go.projects, go.unknown).impacted
             = withDependents(UNION {ownerForPath(go.projects, p) : p \in paths}, go.projects)
        BY <2>1 DEF analyzeImpact
    <2> QED
        BY <1>1, <1>2, <2>2, ImpactIsExact DEF Demanded, analyzeImpact
<1>3. CASE ~ImpactKnown(tree, paths)
    <2>1. \/ go.unknown
          \/ \E p \in paths : isGlobalImpact(p) \/ ownerForPath(go.projects, p) = {}
        BY <1>3, KnownShape
    <2>2. analyzeImpact(paths, go.projects, go.unknown).impacted = projectNames(go.projects)
        BY <2>1 DEF analyzeImpact
    <2> QED
        BY <1>1, <1>3, <2>2, NamesAreOfBoundaries DEF Demanded, analyzeImpact
<1> QED
    BY <1>2, <1>3

\* A known impact is not empty.
LEMMA SomethingIsAffected ==
    ASSUME NEW tree, IsCheckout(tree), ModulesApart(tree),
           NEW paths, paths # {}, \A p \in paths : IsSequence(p), ImpactKnown(tree, paths)
    PROVE  Affected(tree, paths) # {}
<1>1. PICK go : go = discoverGoProjects(tree)
    OBVIOUS
<1>2. ProjectsOK(tree, go.projects)
    BY <1>1, DiscoveryIsExact
<1>3. PICK p \in paths : \E d \in Boundaries(tree) : IsPrefix(d, p)
    BY DEF ImpactKnown
<1>4. PICK n : n \in ownerForPath(go.projects, p)
    BY <1>2, <1>3, OwnerExists
<1>5. PICK d \in Boundaries(tree) : n = projectNameFromRoot(d)
    BY <1>2, <1>4, OwnersAreNames, NamesAreOfBoundaries
<1>6. d \in Touched(tree, paths)
    BY <1>2, <1>4, <1>5, OwnerShape DEF Touched
<1> QED
    BY <1>6, AffectedShape

\* What planForGo puts into a plan: the jobs of the modules demanded.
LEMMA PlanForGoShape ==
    ASSUME NEW tree, IsCheckout(tree), ModulesApart(tree), NEW go, go = discoverGoProjects(tree),
           NEW paths, paths # {}, \A p \in paths : IsSequence(p),
           NEW impact, impact = analyzeImpact(paths, go.projects, go.unknown),
           NEW fp, NEW plan, plan = planForGo(impact, go.projects, fp)
    PROVE  /\ \A d \in Demanded(tree, paths) :
                  jobsForProject(projectNameFromRoot(d), d, impact.docsOnly) \subseteq plan.jobs
           /\ ImpactKnown(tree, paths) =>
                  \A j \in plan.jobs : \E d \in Demanded(tree, paths) :
                      j \in jobsForProject(projectNameFromRoot(d), d, impact.docsOnly)
<1>1. ProjectsOK(tree, go.projects)
    BY DiscoveryIsExact
<1>2. Demanded(tree, paths) \subseteq Boundaries(tree)
    BY AffectedShape DEF Demanded
<1>3. impact.impacted = {projectNameFromRoot(d) : d \in Demanded(tree, paths)}
    BY AnalyzeImpactShape
<1>4. ASSUME impact.impacted # {}
      PROVE  plan.jobs = UNION {jobsForProject(t, projectRoot(go.projects, t), impact.docsOnly) : t \in impact.impacted}
    BY <1>4 DEF planForGo
<1>5. \A d \in Demanded(tree, paths) : projectRoot(go.projects, projectNameFromRoot(d)) = d
    BY <1>1, <1>2, ProjectRootOfName
<1>6. ImpactKnown(tree, paths) => impact.impacted # {}
    BY <1>3, SomethingIsAffected DEF Demanded
<1>7. ASSUME NEW d \in Demanded(tree, paths)
      PROVE  jobsForProject(projectNameFromRoot(d), d, impact.docsOnly) \subseteq plan.jobs
    <2>1. projectNameFromRoot(d) \in impact.impacted
        BY <1>3
    <2> QED
        BY <1>4, <1>5, <2>1
<1>8. ASSUME impact.impacted # {}, NEW j \in plan.jobs
      PROVE  \E d \in Demanded(tree, paths) : j \in jobsForProject(projectNameFromRoot(d), d, impact.docsOnly)
    <2>1. PICK t \in impact.impacted : j \in jobsForProject(t, projectRoot(go.projects, t), impact.docsOnly)
        BY <1>4, <1>8
    <2>2. PICK d \in Demanded(tree, paths) : t = projectNameFromRoot(d)
        BY <1>3
    <2> QED
        BY <1>5, <2>1, <2>2
<1> QED
    BY <1>6, <1>7, <1>8
=============================================================================
