--------------------------- MODULE SequenceFacts ---------------------------
(***************************************************************************)
(* What the sequence operators of the modules compute, for every argument: *)
(* the concatenation of statements, FlattenSeq, which joins the statements *)
(* of several records, SetToSeq, which lists a set in some order, rotation *)
(* and reversal, and the fold that sums values.                            *)
(*                                                                         *)
(* FlattenSeq is recursive over the length of its argument.  The induction *)
(* it takes is stated about sets instead of predicates, from the library's *)
(* fact that the order of the naturals is well-founded.                    *)
(***************************************************************************)
EXTENDS Integers, Picking, FiniteSetTheorems, WellFoundedInduction, TLAPS

-----------------------------------------------------------------------------
(* Induction.                                                              *)

\* The order of the naturals, as the relation the library proves well-founded.
LEMMA NaturalOrder ==
    \E R : /\ IsWellFoundedOn(R, Nat)
           /\ \A m, n \in Nat : <<m, n>> \in R <=> m < n
<1>1. \A m, n \in Nat : <<m, n>> \in OpToRel(<, Nat) <=> m < n
  BY DEF OpToRel
<1> QED
  BY <1>1, NatLessThanWellFounded, Zenon

\* A set of naturals that is not empty has a least element.
LEMMA LeastNatural ==
    ASSUME NEW S \in SUBSET Nat, S # {}
    PROVE  \E n \in S : \A m \in S : n <= m
<1>1. PICK R : /\ IsWellFoundedOn(R, Nat)
               /\ \A m, n \in Nat : <<m, n>> \in R <=> m < n
  BY NaturalOrder
<1>2. IsWellFoundedOn(R, Nat)
  BY <1>1
<1>3. \E n \in S : \A m \in S : ~(<<m, n>> \in R)
  BY <1>2, WFMin
<1>4. PICK n \in S : \A m \in S : ~(<<m, n>> \in R)
  BY <1>3
<1>5. \A m \in S : ~(m < n)
  BY <1>1, <1>4, Zenon
<1> QED
  BY <1>5

\* A set of numbers up to n that is not empty has a greatest element.
LEMMA GreatestUpTo ==
    ASSUME NEW n \in Nat, NEW S \in SUBSET (1 .. n), S # {}
    PROVE  /\ Max(S) \in S
           /\ \A m \in S : m <= Max(S)
<1> DEFINE T == { n - m : m \in S }
<1>1. T \in SUBSET Nat /\ T # {}
  <2>1. \A m \in S : n - m \in Nat
    OBVIOUS
  <2> QED
    BY <2>1
<1>2. PICK t \in T : \A u \in T : t <= u
  BY <1>1, LeastNatural
<1>3. PICK k \in S : t = n - k
  BY <1>2
<1>4. \A m \in S : m <= k
  <2>1. \A m \in S : n - k <= n - m
    BY <1>2, <1>3
  <2> QED
    BY <1>3, <2>1
<1>5. \E x \in S : \A y \in S : x >= y
  <2>1. \A m \in S : m \in Int
    OBVIOUS
  <2> HIDE DEF T
  <2> QED
    BY <1>4, <2>1
<1>6. Max(S) \in S /\ \A y \in S : Max(S) >= y
  BY <1>5 DEF Max
<1>7. \A m \in S : m \in Int
  OBVIOUS
<1> QED
  BY <1>6, <1>7

\* Induction: a set of naturals with 0 and the successor of each is Nat.
LEMMA Induction ==
    ASSUME NEW S, 0 \in S, \A n \in Nat : n \in S => n + 1 \in S
    PROVE  Nat \subseteq S
<1> SUFFICES ASSUME Nat \ S # {} PROVE FALSE
  OBVIOUS
<1>1. PICK n \in Nat \ S : \A m \in Nat \ S : n <= m
  BY LeastNatural
<1>2. n - 1 \in Nat /\ n - 1 \notin S
  BY <1>1
<1> QED
  BY <1>1, <1>2

-----------------------------------------------------------------------------
(* Sequences.                                                              *)

\* The elements of a concatenation.
LEMMA ConcatElements ==
    ASSUME NEW S, NEW s \in Seq(S), NEW t \in Seq(S)
    PROVE  /\ s \o t \in Seq(S) /\ Len(s \o t) = Len(s) + Len(t)
           /\ \A k \in 1 .. Len(s) : (s \o t)[k] = s[k]
           /\ \A k \in 1 .. Len(t) : (s \o t)[Len(s) + k] = t[k]
OBVIOUS

\* Sequences of the same elements are equal.
LEMMA SameElements ==
    ASSUME NEW S, NEW s \in Seq(S), NEW t \in Seq(S), Len(s) = Len(t),
           \A k \in 1 .. Len(s) : s[k] = t[k]
    PROVE  s = t
OBVIOUS

\* What a concatenation holds.
LEMMA RangeOfConcat ==
    ASSUME NEW S, NEW s \in Seq(S), NEW t \in Seq(S)
    PROVE  /\ s \o t \in Seq(S)
           /\ Range(s \o t) = Range(s) \union Range(t)
<1>1. s \o t \in Seq(S)
  OBVIOUS
<1>2. /\ DOMAIN s = 1 .. Len(s) /\ DOMAIN t = 1 .. Len(t)
      /\ Len(s) \in Nat /\ Len(t) \in Nat
      /\ DOMAIN (s \o t) = 1 .. Len(s) + Len(t)
  OBVIOUS
<1>3. \A x \in Range(s) : x \in Range(s \o t)
  <2>1. \A i \in DOMAIN s : i \in DOMAIN (s \o t) /\ (s \o t)[i] = s[i]
    BY <1>2
  <2> QED
    BY <2>1 DEF Range
<1>4. \A x \in Range(t) : x \in Range(s \o t)
  <2>1. \A i \in DOMAIN t : Len(s) + i \in DOMAIN (s \o t)
                              /\ (s \o t)[Len(s) + i] = t[i]
    BY <1>2
  <2> QED
    BY <2>1 DEF Range
<1>5. \A x \in Range(s \o t) : x \in Range(s) \/ x \in Range(t)
  <2>1. \A i \in DOMAIN (s \o t) :
            \/ i \in DOMAIN s /\ (s \o t)[i] = s[i]
            \/ i - Len(s) \in DOMAIN t /\ (s \o t)[i] = t[i - Len(s)]
    BY <1>2
  <2> QED
    BY <2>1 DEF Range
<1> QED
  BY <1>1, <1>3, <1>4, <1>5

\* The elements of a sequence.
LEMMA ElementsIn ==
    ASSUME NEW S, NEW s \in Seq(S)
    PROVE  /\ \A i \in 1 .. Len(s) : s[i] \in S
           /\ DOMAIN s = 1 .. Len(s) /\ Len(s) \in Nat
           /\ s = <<>> <=> Len(s) = 0
OBVIOUS

\* All elements but the last, and the last.
LEMMA FrontOf ==
    ASSUME NEW S, NEW s \in Seq(S), s # <<>>
    PROVE  /\ Front(s) \in Seq(S) /\ Len(Front(s)) = Len(s) - 1
           /\ \A i \in 1 .. Len(s) - 1 : Front(s)[i] = s[i]
           /\ Last(s) = s[Len(s)] /\ Len(s) \in Nat \ {0} /\ Last(s) \in S
<1>1. Len(s) \in Nat \ {0} /\ Len(s) \in 1 .. Len(s)
  OBVIOUS
<1>2. Last(s) = s[Len(s)] /\ Last(s) \in S
  BY <1>1, ElementsIn DEF Last
<1> DEFINE m == Len(s) - 1
<1>3. Front(s) = SubSeq(s, 1, m)
  BY DEF Front
<1>4. m \in Nat /\ m <= Len(s)
  BY <1>1
<1> HIDE DEF m
<1>5. /\ SubSeq(s, 1, m) \in Seq(S) /\ Len(SubSeq(s, 1, m)) = m
      /\ \A i \in 1 .. m : SubSeq(s, 1, m)[i] = s[i]
  BY <1>4
<1> QED
  BY <1>1, <1>2, <1>3, <1>5 DEF m

\* The first readings, and the last ones.
LEMMA PartOf ==
    ASSUME NEW S, NEW s \in Seq(S), NEW a \in 1 .. Len(s), NEW b \in a .. Len(s)
    PROVE  LET t == SubSeq(s, a, b)
           IN  /\ t \in Seq(S) /\ Len(t) = b - a + 1
               /\ \A i \in 1 .. b - a + 1 : t[i] = s[a + i - 1]
OBVIOUS

\* The reverse of a sequence keeps what it holds.
LEMMA ReverseProperties ==
    ASSUME NEW E, NEW s \in Seq(E)
    PROVE  Reverse(s) \in Seq(E) /\ Len(Reverse(s)) = Len(s) /\ Range(Reverse(s)) = Range(s)
<1> DEFINE n == Len(s)
           r == Reverse(s)
<1>1. n \in Nat /\ DOMAIN s = 1 .. n /\ \A i \in 1 .. n : s[i] \in E
  OBVIOUS
<1>2. r = [ i \in 1 .. n |-> s[(n - i) + 1] ]
  BY DEF Reverse
<1>3. \A i \in 1 .. n : (n - i) + 1 \in 1 .. n /\ (n - ((n - i) + 1)) + 1 = i
  BY <1>1
<1> HIDE DEF r, n
<1>4. r \in Seq(E) /\ Len(r) = n /\ DOMAIN r = 1 .. n
  BY <1>1, <1>2, <1>3
<1>5. \A x \in Range(r) : x \in Range(s)
  BY <1>1, <1>2, <1>3, <1>4 DEF Range
<1>6. \A x \in Range(s) : x \in Range(r)
  <2> SUFFICES ASSUME NEW i \in 1 .. n PROVE s[i] \in Range(r)
    BY <1>1 DEF Range
  <2>1. r[(n - i) + 1] = s[i] /\ (n - i) + 1 \in DOMAIN r
    BY <1>2, <1>3, <1>4
  <2> QED
    BY <2>1 DEF Range
<1> QED
  BY <1>4, <1>5, <1>6 DEF r, n

\* A rotation, and the reverse of a sequence, keep what it holds.
LEMMA RotationProperties ==
    ASSUME NEW E, NEW s \in Seq(E), NEW k \in 0 .. Len(s) - 1
    PROVE  LET t == SubSeq(s, k + 1, Len(s)) \o SubSeq(s, 1, k)
           IN  t \in Seq(E) /\ Len(t) = Len(s) /\ Range(t) = Range(s)
<1> DEFINE n == Len(s)
           a == SubSeq(s, k + 1, n)
           b == SubSeq(s, 1, k)
<1>1. n \in Nat /\ DOMAIN s = 1 .. n /\ k \in Nat /\ k < n
  OBVIOUS
<1>2. /\ a \in Seq(E) /\ Len(a) = n - k
      /\ \A i \in 1 .. n - k : a[i] = s[k + i]
  BY <1>1
<1>3. b \in Seq(E) /\ Len(b) = k /\ \A i \in 1 .. k : b[i] = s[i]
  BY <1>1
<1> HIDE DEF a, b
<1>4. a \o b \in Seq(E) /\ Range(a \o b) = Range(a) \union Range(b)
  BY <1>2, <1>3, RangeOfConcat
<1> HIDE DEF n
<1>5. Len(a \o b) = n
  <2>1. Len(a \o b) = Len(a) + Len(b)
    BY <1>2, <1>3, ConcatElements
  <2> QED
    BY <1>1, <1>2, <1>3, <2>1
<1>6. \A x \in Range(a) \union Range(b) : x \in Range(s)
  <2>1. /\ DOMAIN a = 1 .. n - k /\ \A i \in 1 .. n - k : k + i \in 1 .. n
        /\ DOMAIN b = 1 .. k /\ \A i \in 1 .. k : i \in 1 .. n
    BY <1>1, <1>2, <1>3
  <2>2. \A i \in 1 .. n : s[i] \in Range(s)
    BY <1>1 DEF Range
  <2>3. \A x \in Range(a) : \E i \in 1 .. n - k : x = a[i]
    BY <2>1 DEF Range
  <2>4. \A x \in Range(b) : \E i \in 1 .. k : x = b[i]
    BY <2>1 DEF Range
  <2>5. ASSUME NEW x \in Range(a) PROVE x \in Range(s)
    <3>1. PICK i \in 1 .. n - k : x = a[i]
      BY <2>3
    <3> QED
      BY <1>2, <2>1, <2>2, <3>1
  <2>6. ASSUME NEW x \in Range(b) PROVE x \in Range(s)
    <3>1. PICK i \in 1 .. k : x = b[i]
      BY <2>4
    <3> QED
      BY <1>3, <2>1, <2>2, <3>1
  <2> QED
    BY <2>5, <2>6
<1>7. ASSUME NEW i \in 1 .. n PROVE s[i] \in Range(a) \union Range(b)
  <2>1. CASE i <= k
    <3>1. i \in DOMAIN b /\ b[i] = s[i]
      BY <1>3, <2>1
    <3> QED
      BY <3>1 DEF Range
  <2>2. CASE i > k
    <3>1. i - k \in 1 .. n - k /\ k + (i - k) = i /\ DOMAIN a = 1 .. n - k
      BY <1>1, <1>2, <2>2
    <3>2. a[i - k] = s[i]
      BY <1>2, <3>1
    <3> QED
      BY <3>1, <3>2 DEF Range
  <2> QED
    BY <1>1, <2>1, <2>2
<1>8. Range(s) = Range(a) \union Range(b)
  <2>1. \A x \in Range(s) : \E i \in 1 .. n : x = s[i]
    BY <1>1 DEF Range
  <2> QED
    BY <1>6, <1>7, <2>1
<1> QED
  BY <1>4, <1>5, <1>8 DEF a, b, n

\* The recursion of FlattenSeq has a solution.
LEMMA FlattenExists ==
    ASSUME NEW seqs, NEW n \in Nat
    PROVE  \E g : g = [i \in 1 .. n |-> IF i = 1 THEN seqs[i]
                                                ELSE g[i - 1] \o seqs[i]]
<1> DEFINE Solves(g, m) ==
               g = [i \in 1 .. m |-> IF i = 1 THEN seqs[i] ELSE g[i - 1] \o seqs[i]]
           N == { m \in Nat : \E g : Solves(g, m) }
<1>1. 0 \in N
  <2>1. Solves([i \in 1 .. 0 |-> i], 0)
    OBVIOUS
  <2> QED
    BY <2>1
<1>2. ASSUME NEW m \in Nat, m \in N PROVE m + 1 \in N
  <2>1. PICK g : Solves(g, m)
    BY <1>2
  <2> DEFINE last == IF m + 1 = 1 THEN seqs[m + 1] ELSE g[m] \o seqs[m + 1]
             h == [i \in 1 .. m + 1 |-> IF i = m + 1 THEN last ELSE g[i]]
  <2>2. \A i \in 1 .. m : h[i] = g[i]
    OBVIOUS
  <2>3. \A i \in 1 .. m : g[i] = IF i = 1 THEN seqs[i] ELSE g[i - 1] \o seqs[i]
    BY <2>1
  <2>4. \A i \in 1 .. m + 1 :
            h[i] = IF i = 1 THEN seqs[i] ELSE h[i - 1] \o seqs[i]
    BY <2>2, <2>3
  <2>5. DOMAIN h = 1 .. m + 1 /\ h = [i \in 1 .. m + 1 |-> h[i]]
    OBVIOUS
  <2> HIDE DEF h
  <2>6. Solves(h, m + 1)
    BY <2>4, <2>5
  <2>7. \E g2 : Solves(g2, m + 1)
    BY <2>6
  <2>8. m + 1 \in Nat
    OBVIOUS
  <2> HIDE DEF Solves
  <2> QED
    BY <2>7, <2>8
<1> HIDE DEF N
<1>3. Nat \subseteq N
  BY <1>1, <1>2, Induction
<1> QED
  BY <1>3 DEF N

\* FlattenSeq appends one sequence after the other.
LEMMA FlattenSteps ==
    ASSUME NEW S, NEW seqs \in Seq(Seq(S)), seqs # <<>>
    PROVE  \E f : /\ f[1] = seqs[1]
                  /\ \A i \in 1 .. Len(seqs) - 1 : f[i + 1] = f[i] \o seqs[i + 1]
                  /\ FlattenSeq(seqs) = f[Len(seqs)]
<1> DEFINE n == Len(seqs)
           flatten[i \in 1 .. n] ==
               IF i = 1 THEN seqs[i] ELSE flatten[i - 1] \o seqs[i]
<1>1. n \in Nat \ {0}
  OBVIOUS
<1>2. FlattenSeq(seqs) = flatten[n]
  BY <1>1 DEF FlattenSeq
<1>3. flatten = [i \in 1 .. n |-> IF i = 1 THEN seqs[i]
                                         ELSE flatten[i - 1] \o seqs[i]]
  BY <1>1, FlattenExists
<1> HIDE DEF flatten
<1>4. \A i \in 1 .. n : flatten[i] = IF i = 1 THEN seqs[i]
                                             ELSE flatten[i - 1] \o seqs[i]
  BY <1>3
<1> HIDE DEF n
<1>5. flatten[1] = seqs[1]
  BY <1>1, <1>4
<1>6. \A i \in 1 .. n - 1 : flatten[i + 1] = flatten[i] \o seqs[i + 1]
  <2> SUFFICES ASSUME NEW i \in 1 .. n - 1
               PROVE  flatten[i + 1] = flatten[i] \o seqs[i + 1]
    OBVIOUS
  <2>1. i + 1 \in 1 .. n /\ i + 1 # 1 /\ (i + 1) - 1 = i
    BY <1>1
  <2> QED
    BY <1>4, <2>1
<1> QED
  BY <1>2, <1>5, <1>6 DEF n

\* Induction along a sequence that is not empty.
LEMMA AlongSequence ==
    ASSUME NEW n \in Nat \ {0}, NEW S, 1 \in S,
           \A i \in 1 .. n - 1 : i \in S => i + 1 \in S
    PROVE  n \in S
<1> DEFINE N == { m \in Nat : m + 1 <= n => m + 1 \in S }
<1>1. 0 \in N
  OBVIOUS
<1>2. ASSUME NEW m \in Nat, m \in N PROVE m + 1 \in N
  <2>1. m + 1 + 1 <= n => m + 1 \in 1 .. n - 1
    OBVIOUS
  <2> QED
    BY <1>2, <2>1
<1> HIDE DEF N
<1>3. Nat \subseteq N
  BY <1>1, <1>2, Induction
<1>4. n - 1 \in N /\ (n - 1) + 1 = n
  BY <1>3
<1> QED
  BY <1>4 DEF N

\* Flattening keeps what the sequences hold.
LEMMA FlattenProperties ==
    ASSUME NEW S, NEW seqs \in Seq(Seq(S))
    PROVE  /\ FlattenSeq(seqs) \in Seq(S)
           /\ Range(FlattenSeq(seqs))
                = UNION { Range(seqs[i]) : i \in 1 .. Len(seqs) }
<1>1. CASE seqs = <<>>
  <2>1. FlattenSeq(seqs) = <<>> /\ <<>> \in Seq(S)
    BY <1>1 DEF FlattenSeq
  <2>2. Range(<<>>) = {}
    BY DEF Range
  <2>3. UNION { Range(seqs[i]) : i \in 1 .. Len(seqs) } = {}
    BY <1>1
  <2> QED
    BY <2>1, <2>2, <2>3
<1>2. CASE seqs # <<>>
  <2> DEFINE n == Len(seqs)
             upto(m) == UNION { Range(seqs[i]) : i \in 1 .. m }
  <2>1. n \in Nat \ {0} /\ \A i \in 1 .. n : seqs[i] \in Seq(S)
    BY <1>2
  <2>2. PICK f : /\ f[1] = seqs[1]
                 /\ \A i \in 1 .. n - 1 : f[i + 1] = f[i] \o seqs[i + 1]
                 /\ FlattenSeq(seqs) = f[n]
    BY <1>2, FlattenSteps
  <2> HIDE DEF n
  <2> DEFINE N == { i \in 1 .. n : f[i] \in Seq(S) /\ Range(f[i]) = upto(i) }
  <2>3. 1 \in N
    <3>1. upto(1) = Range(seqs[1])
      <4>1. 1 .. 1 = {1}
        OBVIOUS
      <4> QED
        BY <4>1
    <3> HIDE DEF upto
    <3> QED
      BY <2>1, <2>2, <3>1
  <2>4. ASSUME NEW i \in 1 .. n - 1, i \in N PROVE i + 1 \in N
    <3>1. i + 1 \in 1 .. n /\ seqs[i + 1] \in Seq(S)
      BY <2>1
    <3>2. upto(i + 1) = upto(i) \union Range(seqs[i + 1])
      <4>1. 1 .. i + 1 = (1 .. i) \union {i + 1}
        BY <2>1
      <4> QED
        BY <4>1
    <3>3. /\ f[i] \o seqs[i + 1] \in Seq(S)
          /\ Range(f[i] \o seqs[i + 1]) = Range(f[i]) \union Range(seqs[i + 1])
      BY <2>4, <3>1, RangeOfConcat
    <3> HIDE DEF upto
    <3> QED
      BY <2>2, <2>4, <3>1, <3>2, <3>3
  <2> HIDE DEF N
  <2>5. n \in N
    BY <2>1, <2>3, <2>4, AlongSequence
  <2> QED
    BY <2>2, <2>5 DEF N, n
<1> QED
  BY <1>1, <1>2

\* A listing of a finite set meets every member once.
LEMMA ListingProperties ==
    ASSUME NEW S, IsFiniteSet(S), NEW f \in [1 .. Cardinality(S) -> S],
           IsInjective(f)
    PROVE  /\ f \in Seq(S) /\ Len(f) = Cardinality(S) /\ Cardinality(S) \in Nat
           /\ f \in Bijection(1 .. Len(f), S)
           /\ Range(f) = S
<1> DEFINE n == Cardinality(S)
<1>1. n \in Nat
  BY FS_CardinalityType
<1>2. f \in Injection(1 .. n, S)
  BY DEF Injection, IsInjective
<1>3. IsFiniteSet(1 .. n) /\ Cardinality(1 .. n) = n
  BY <1>1, FS_Interval
<1>4. f \in Surjection(1 .. n, S)
  BY <1>2, <1>3, FS_Injection
<1> HIDE DEF n
<1>5. f \in Seq(S) /\ Len(f) = n
  BY <1>1 DEF n
<1>6. Range(f) = S
  BY <1>4 DEF Surjection, Range
<1> QED
  BY <1>1, <1>2, <1>4, <1>5, <1>6 DEF Bijection, n

\* The members of a finite set, in some order.
LEMMA SetToSeqProperties ==
    ASSUME NEW S, IsFiniteSet(S)
    PROVE  SetToSeq(S) \in Seq(S) /\ Range(SetToSeq(S)) = S
<1> DEFINE n == Cardinality(S)
<1>1. \E g \in [1 .. n -> S] : IsInjective(g)
  <2>1. PICK g : g \in Bijection(1 .. n, S)
    BY FS_CardinalityType DEF ExistsBijection
  <2> QED
    BY <2>1 DEF Bijection, Injection, IsInjective
<1>2. SetToSeq(S) \in [1 .. n -> S] /\ IsInjective(SetToSeq(S))
  BY <1>1 DEF SetToSeq
<1> QED
  BY <1>2, ListingProperties

\* The sequences of all members of a finite set.
LEMMA SetToSeqsProperties ==
    ASSUME NEW S, IsFiniteSet(S), NEW f \in SetToSeqs(S)
    PROVE  /\ f \in Seq(S) /\ f \in Bijection(1 .. Len(f), S)
           /\ Range(f) = S
<1>1. f \in [1 .. Cardinality(S) -> S] /\ IsInjective(f)
  BY DEF SetToSeqs, IsInjective
<1> QED
  BY <1>1, ListingProperties

-----------------------------------------------------------------------------
(* How often a value occurs in a sequence.                                 *)

Places(s, x) == { k \in DOMAIN s : s[k] = x }
Count(s, x)  == Cardinality(Places(s, x))

\* A count is a natural number, and 0 exactly for what does not occur.
LEMMA CountType ==
    ASSUME NEW S, NEW s \in Seq(S), NEW x
    PROVE  /\ IsFiniteSet(Places(s, x)) /\ Count(s, x) \in Nat
           /\ Count(s, x) = 0 <=> \A k \in 1 .. Len(s) : s[k] # x
<1>1. IsFiniteSet(1 .. Len(s))
  BY FS_Interval
<1>2. Places(s, x) \subseteq 1 .. Len(s)
  BY DEF Places
<1>3. IsFiniteSet(Places(s, x))
  BY <1>1, <1>2, FS_Subset
<1>4. Count(s, x) \in Nat
  BY <1>3, FS_CardinalityType DEF Count
<1>5. Count(s, x) = 0 <=> Places(s, x) = {}
  BY <1>3, FS_EmptySet DEF Count
<1> QED
  BY <1>3, <1>4, <1>5 DEF Places

\* The size of a disjoint union.
LEMMA DisjointUnion ==
    ASSUME NEW A, NEW B, IsFiniteSet(A), IsFiniteSet(B), A \intersect B = {}
    PROVE  /\ IsFiniteSet(A \union B)
           /\ Cardinality(A \union B) = Cardinality(A) + Cardinality(B)
           /\ Cardinality(A) \in Nat /\ Cardinality(B) \in Nat
<1>1. Cardinality(A \union B)
        = Cardinality(A) + Cardinality(B) - Cardinality(A \intersect B)
  BY FS_Union
<1>2. Cardinality(A \intersect B) = 0
  BY FS_EmptySet
<1>3. Cardinality(A) \in Nat /\ Cardinality(B) \in Nat
  BY FS_CardinalityType
<1>4. IsFiniteSet(A \union B)
  BY FS_Union
<1> QED
  BY <1>1, <1>2, <1>3, <1>4

\* Counts add up over a concatenation.
LEMMA CountOfConcat ==
    ASSUME NEW S, NEW s \in Seq(S), NEW t \in Seq(S), NEW x
    PROVE  Count(s \o t, x) = Count(s, x) + Count(t, x)
<1> DEFINE n == Len(s)
           moved == { k + n : k \in Places(t, x) }
<1>1. /\ n \in Nat /\ Len(t) \in Nat
      /\ DOMAIN s = 1 .. n /\ DOMAIN t = 1 .. Len(t)
      /\ DOMAIN (s \o t) = 1 .. n + Len(t)
      /\ \A k \in 1 .. n : (s \o t)[k] = s[k]
      /\ \A k \in 1 .. Len(t) : (s \o t)[k + n] = t[k]
  OBVIOUS
<1> HIDE DEF n
<1>2. Places(s \o t, x) = Places(s, x) \union moved
  <2>1. ASSUME NEW k \in Places(s \o t, x) PROVE k \in Places(s, x) \union moved
    <3>1. CASE k \in 1 .. n
      BY <1>1, <3>1 DEF Places
    <3>2. CASE k \notin 1 .. n
      <4>1. k - n \in 1 .. Len(t) /\ k = (k - n) + n
        BY <1>1, <3>2 DEF Places
      <4>2. k - n \in Places(t, x)
        BY <1>1, <4>1 DEF Places
      <4> QED
        BY <4>1, <4>2
    <3> QED
      BY <3>1, <3>2
  <2>2. ASSUME NEW k \in Places(s, x) PROVE k \in Places(s \o t, x)
    BY <1>1 DEF Places
  <2>3. ASSUME NEW k \in moved PROVE k \in Places(s \o t, x)
    <3>1. PICK j \in Places(t, x) : k = j + n
      OBVIOUS
    <3> QED
      BY <1>1, <3>1 DEF Places
  <2> QED
    BY <2>1, <2>2, <2>3
<1>3. Places(s, x) \intersect moved = {}
  BY <1>1 DEF Places
<1>4. IsFiniteSet(moved) /\ Cardinality(moved) = Count(t, x)
  <2> DEFINE f == [k \in Places(t, x) |-> k + n]
  <2>1. f \in Bijection(Places(t, x), moved)
    BY <1>1 DEF Places, Bijection, Injection, Surjection, IsInjective
  <2>2. ExistsBijection(Places(t, x), moved)
    BY <2>1 DEF ExistsBijection
  <2> QED
    BY <2>2, CountType, FS_Bijection DEF Count
<1>5. IsFiniteSet(Places(s, x)) /\ Count(s, x) \in Nat
      /\ IsFiniteSet(Places(t, x)) /\ Count(t, x) \in Nat
  BY CountType
<1> HIDE DEF moved
<1>6. Cardinality(Places(s, x) \union moved)
        = Cardinality(Places(s, x)) + Cardinality(moved)
  BY <1>3, <1>4, <1>5, DisjointUnion
<1> QED
  BY <1>2, <1>4, <1>6 DEF Count

\* The count in a sequence of one.
LEMMA CountOfOne ==
    ASSUME NEW y, NEW x
    PROVE  Count(<<y>>, x) = IF y = x THEN 1 ELSE 0
<1>1. Places(<<y>>, x) = IF y = x THEN {1} ELSE {}
  BY DEF Places
<1> QED
  BY <1>1, FS_EmptySet, FS_Singleton DEF Count

\* An element put at the end.
LEMMA CountOfAppend ==
    ASSUME NEW S, NEW s \in Seq(S), NEW y \in S, NEW x
    PROVE  Count(Append(s, y), x) = Count(s, x) + (IF y = x THEN 1 ELSE 0)
<1>1. Append(s, y) = s \o <<y>> /\ <<y>> \in Seq(S)
  OBVIOUS
<1>2. Count(s \o <<y>>, x) = Count(s, x) + Count(<<y>>, x)
  BY <1>1, CountOfConcat
<1>3. Count(<<y>>, x) = IF y = x THEN 1 ELSE 0
  BY CountOfOne
<1> QED
  BY <1>1, <1>2, <1>3

\* The first element taken away.
LEMMA CountOfTail ==
    ASSUME NEW S, NEW s \in Seq(S), s # <<>>, NEW x
    PROVE  Count(s, x) = Count(Tail(s), x) + (IF Head(s) = x THEN 1 ELSE 0)
<1>1. /\ s = <<Head(s)>> \o Tail(s)
      /\ <<Head(s)>> \in Seq(S) /\ Tail(s) \in Seq(S)
  OBVIOUS
<1>2. Count(Tail(s), x) \in Nat
  BY <1>1, CountType
<1>3. Count(s, x) = Count(<<Head(s)>>, x) + Count(Tail(s), x)
  BY <1>1, CountOfConcat
<1> QED
  BY <1>2, <1>3, CountOfOne

PlaceOf(s, x) == SelectInSeq(s, LAMBDA v : v = x)

\* Where a value first occurs.
LEMMA FirstPlace ==
    ASSUME NEW S, NEW s \in Seq(S), NEW x
    PROVE  LET p == PlaceOf(s, x) IN
           /\ p \in 0 .. Len(s)
           /\ p # 0 => s[p] = x
           /\ p = 0 <=> \A k \in 1 .. Len(s) : s[k] # x
<1> DEFINE I == { k \in 1 .. Len(s) : s[k] = x }
           p == PlaceOf(s, x)
<1>1. p = IF I # {} THEN Min(I) ELSE 0
  BY DEF SelectInSeq, PlaceOf
<1> SUFFICES /\ p \in 0 .. Len(s)
             /\ p # 0 => s[p] = x
             /\ p = 0 <=> \A k \in 1 .. Len(s) : s[k] # x
  OBVIOUS
<1> HIDE DEF p
<1>2. CASE I = {}
  BY <1>1, <1>2
<1>3. CASE I # {}
  <2>1. I \in SUBSET Nat
    OBVIOUS
  <2>2. \E k \in I : \A j \in I : k <= j
    BY <1>3, <2>1, LeastNatural
  <2>3. Min(I) \in I
    BY <2>2 DEF Min
  <2> QED
    BY <1>1, <1>3, <2>3
<1> QED
  BY <1>2, <1>3

\* What RemoveFirst leaves: one occurrence less, and the same last element
\* unless the first occurrence was the last element.
LEMMA RemoveFirstProperties ==
    ASSUME NEW S, NEW s \in Seq(S), NEW x
    PROVE  /\ RemoveFirst(s, x) \in Seq(S)
           /\ Count(s, x) # 0 =>
                  \A y : Count(s, y) = Count(RemoveFirst(s, x), y)
                                         + (IF x = y THEN 1 ELSE 0)
           /\ PlaceOf(s, x) # Len(s) =>
                  /\ s # <<>> => RemoveFirst(s, x) # <<>>
                  /\ Last(RemoveFirst(s, x)) = Last(s)
<1> DEFINE n == Len(s)
           p == PlaceOf(s, x)
           before == SubSeq(s, 1, p - 1)
           after  == SubSeq(s, p + 1, n)
<1>1. /\ p \in 0 .. n
      /\ p # 0 => s[p] = x
      /\ p = 0 <=> \A k \in 1 .. n : s[k] # x
  BY FirstPlace
<1>2. RemoveFirst(s, x) = IF p # 0 THEN before \o after ELSE s
  <2>1. RemoveFirst(s, x) = IF \E k \in 1 .. n : s[k] = x
                            THEN before \o after ELSE s
    BY DEF RemoveFirst, RemoveAt, PlaceOf
  <2> HIDE DEF p
  <2> QED
    BY <1>1, <2>1
<1> HIDE DEF p
<1>3. CASE p = 0
  <2>1. Count(s, x) = 0
    BY <1>1, <1>3, CountType
  <2> QED
    BY <1>2, <1>3, <2>1 DEF p
<1>4. CASE p # 0
  <2>1. /\ n \in Nat /\ p \in 1 .. n /\ s[p] = x
        /\ before \in Seq(S) /\ after \in Seq(S) /\ <<x>> \in Seq(S)
        /\ Len(before) = p - 1 /\ Len(after) = n - p
        /\ \A k \in 1 .. p - 1 : before[k] = s[k]
        /\ \A k \in 1 .. n - p : after[k] = s[p + k]
    BY <1>1, <1>4
  <2> HIDE DEF before, after, n
  <2> DEFINE front == before \o <<x>>
             whole == front \o after
  <2>0. before \in Seq(S) /\ after \in Seq(S) /\ <<x>> \in Seq(S)
    BY <2>1
  <2>2. /\ before \o after \in Seq(S) /\ Len(before \o after) = n - 1
        /\ \A k \in 1 .. n - p : (before \o after)[p - 1 + k] = after[k]
    <3>1. Len(before \o after) = Len(before) + Len(after)
      BY <2>1, ConcatElements
    <3>2. (p - 1) + (n - p) = n - 1
      BY <2>1
    <3>3. \A k \in 1 .. Len(after) : (before \o after)[Len(before) + k] = after[k]
      BY <2>1, ConcatElements
    <3> QED
      BY <2>1, <3>1, <3>2, <3>3, ConcatElements
  <2>3. s = whole /\ front \in Seq(S)
    <3>1. /\ front \in Seq(S) /\ Len(front) = p
          /\ \A k \in 1 .. p : front[k] = s[k]
      <4>1. Len(<<x>>) = 1 /\ <<x>>[1] = x
        OBVIOUS
      <4>2. /\ front \in Seq(S) /\ Len(front) = (p - 1) + 1
            /\ \A k \in 1 .. p - 1 : front[k] = before[k]
            /\ front[(p - 1) + 1] = x
        <5>1. 1 \in 1 .. Len(<<x>>)
          BY <4>1
        <5>2. /\ front \in Seq(S) /\ Len(front) = Len(before) + Len(<<x>>)
              /\ \A k \in 1 .. Len(before) : front[k] = before[k]
              /\ front[Len(before) + 1] = <<x>>[1]
          <6>1. front = before \o <<x>>
            OBVIOUS
          <6> HIDE DEF front
          <6> QED
            BY <2>0, <5>1, <6>1, ConcatElements
        <5> QED
          BY <2>1, <4>1, <5>2
      <4>3. (p - 1) + 1 = p /\ \A k \in 1 .. p : k \in 1 .. p - 1 \/ k = p
        BY <2>1
      <4> QED
        BY <2>1, <4>2, <4>3
    <3> HIDE DEF front
    <3>2. /\ whole \in Seq(S) /\ Len(whole) = p + (n - p)
          /\ \A k \in 1 .. p : whole[k] = front[k]
          /\ \A k \in 1 .. n - p : whole[p + k] = after[k]
      <4>1. /\ whole \in Seq(S) /\ Len(whole) = Len(front) + Len(after)
            /\ \A k \in 1 .. Len(front) : whole[k] = front[k]
            /\ \A k \in 1 .. Len(after) : whole[Len(front) + k] = after[k]
        <5>1. front \in Seq(S) /\ whole = front \o after
          BY <3>1
        <5> HIDE DEF whole
        <5> QED
          BY <2>0, <5>1, ConcatElements
      <4> QED
        BY <2>1, <3>1, <4>1
    <3> HIDE DEF whole
    <3>3. ASSUME NEW k \in 1 .. n PROVE s[k] = whole[k]
      <4>1. CASE k \in 1 .. p
        BY <3>1, <3>2, <4>1
      <4>2. CASE k \notin 1 .. p
        <5>1. k - p \in 1 .. n - p /\ p + (k - p) = k
          BY <2>1, <4>2
        <5> QED
          BY <2>1, <3>2, <5>1
      <4> QED
        BY <4>1, <4>2
    <3>4. Len(whole) = n /\ Len(s) = n
      BY <2>1, <3>2 DEF n
    <3> QED
      BY <3>1, <3>2, <3>3, <3>4, SameElements
  <2>4. ASSUME NEW y
        PROVE  Count(s, y) = Count(before \o after, y) + (IF x = y THEN 1 ELSE 0)
    <3> HIDE DEF whole, front
    <3>2. Count(s, y) = Count(front, y) + Count(after, y)
      <4>1. Count(front \o after, y) = Count(front, y) + Count(after, y)
        BY <2>1, <2>3, CountOfConcat
      <4> QED
        BY <2>3, <4>1 DEF whole
    <3>3. Count(front, y) = Count(before, y) + Count(<<x>>, y)
      <4>1. Count(before \o <<x>>, y) = Count(before, y) + Count(<<x>>, y)
        BY <2>0, CountOfConcat
      <4> QED
        BY <4>1 DEF front
    <3>4. Count(before \o after, y) = Count(before, y) + Count(after, y)
      BY <2>1, CountOfConcat
    <3>5. Count(before, y) \in Nat /\ Count(after, y) \in Nat
      BY <2>1, CountType
    <3>6. Count(<<x>>, y) = IF x = y THEN 1 ELSE 0
      BY CountOfOne
    <3> QED
      BY <3>2, <3>3, <3>4, <3>5, <3>6
  <2>5. p # n => /\ before \o after # <<>>
                 /\ Last(before \o after) = Last(s)
    <3> SUFFICES ASSUME p # n
                 PROVE  before \o after # <<>> /\ Last(before \o after) = Last(s)
      OBVIOUS
    <3>1. /\ n - p \in 1 .. n - p /\ p + (n - p) = n
          /\ (p - 1) + (n - p) = n - 1 /\ n - 1 # 0
      BY <2>1
    <3>2. (before \o after)[n - 1] = s[n]
      BY <2>1, <2>2, <3>1
    <3>3. before \o after # <<>>
      BY <2>2, <3>1
    <3> HIDE DEF whole, front
    <3>4. Last(before \o after) = (before \o after)[n - 1] /\ Last(s) = s[n]
      BY <2>2 DEF Last, n
    <3> QED
      BY <3>2, <3>3, <3>4
  <2> QED
    BY <1>2, <1>4, <2>2, <2>4, <2>5 DEF p, n
<1> QED
  BY <1>3, <1>4

\* A value removed is one occurrence less of it, and of no other.
LEMMA RemoveFirstCount ==
    ASSUME NEW S, NEW s \in Seq(S), NEW x, Count(s, x) # 0, NEW y
    PROVE  Count(s, y) = Count(RemoveFirst(s, x), y) + (IF x = y THEN 1 ELSE 0)
BY RemoveFirstProperties

AllOf(T, n) == UNION { T[i] : i \in 1 .. n }

\* Counts add up when sequences are flattened: if x occurs in each sequence
\* once for every member of a set, and those sets are disjoint, it occurs in
\* the result once for every member of their union.
LEMMA CountOfFlatten ==
    ASSUME NEW S, NEW seqs \in Seq(Seq(S)), NEW x, NEW T,
           \A i \in 1 .. Len(seqs) :
               IsFiniteSet(T[i]) /\ Count(seqs[i], x) = Cardinality(T[i]),
           \A i, j \in 1 .. Len(seqs) : i # j => T[i] \intersect T[j] = {}
    PROVE  Count(FlattenSeq(seqs), x) = Cardinality(AllOf(T, Len(seqs)))
<1> USE DEF AllOf
<1> DEFINE n == Len(seqs)
           upto(m) == UNION { T[i] : i \in 1 .. m }
<1>1. CASE seqs = <<>>
  <2>1. FlattenSeq(seqs) = <<>>
    BY <1>1 DEF FlattenSeq
  <2>2. Places(<<>>, x) = {}
    BY DEF Places
  <2>3. upto(n) = {}
    BY <1>1
  <2> QED
    BY <2>1, <2>2, <2>3, FS_EmptySet DEF Count
<1>2. CASE seqs # <<>>
  <2>1. n \in Nat \ {0} /\ \A i \in 1 .. n : seqs[i] \in Seq(S)
    BY <1>2
  <2>2. PICK f : /\ f[1] = seqs[1]
                 /\ \A i \in 1 .. n - 1 : f[i + 1] = f[i] \o seqs[i + 1]
                 /\ FlattenSeq(seqs) = f[n]
    BY <1>2, FlattenSteps
  <2>3. /\ \A i \in 1 .. n : IsFiniteSet(T[i]) /\ Count(seqs[i], x) = Cardinality(T[i])
        /\ \A i, j \in 1 .. n : i # j => T[i] \intersect T[j] = {}
    OBVIOUS
  <2> HIDE DEF n
  <2> DEFINE N == { i \in 1 .. n : /\ f[i] \in Seq(S) /\ IsFiniteSet(upto(i))
                                   /\ Count(f[i], x) = Cardinality(upto(i)) }
  <2>4. 1 \in N
    <3>1. upto(1) = T[1]
      <4>1. 1 .. 1 = {1}
        OBVIOUS
      <4> QED
        BY <4>1
    <3> HIDE DEF upto
    <3> QED
      BY <2>1, <2>2, <2>3, <3>1
  <2>5. ASSUME NEW i \in 1 .. n - 1, i \in N PROVE i + 1 \in N
    <3>1. i \in 1 .. n /\ i + 1 \in 1 .. n /\ seqs[i + 1] \in Seq(S)
      BY <2>1
    <3>2. upto(i + 1) = upto(i) \union T[i + 1]
      <4>1. 1 .. i + 1 = (1 .. i) \union {i + 1}
        BY <2>1
      <4> QED
        BY <4>1
    <3>3. upto(i) \intersect T[i + 1] = {}
      <4>1. \A j \in 1 .. i : j \in 1 .. n /\ j # i + 1
        BY <2>1
      <4> QED
        BY <2>3, <3>1, <4>1
    <3>4. IsFiniteSet(T[i + 1]) /\ Count(seqs[i + 1], x) = Cardinality(T[i + 1])
      BY <2>3, <3>1
    <3> HIDE DEF upto
    <3>5. f[i] \in Seq(S) /\ IsFiniteSet(upto(i)) /\ Count(f[i], x) = Cardinality(upto(i))
      BY <2>5
    <3>6. f[i + 1] = f[i] \o seqs[i + 1]
      BY <2>2
    <3>7. f[i + 1] \in Seq(S)
      BY <3>1, <3>5, <3>6
    <3>8. Count(f[i + 1], x) = Count(f[i], x) + Count(seqs[i + 1], x)
      BY <3>1, <3>5, <3>6, CountOfConcat
    <3>9. /\ IsFiniteSet(upto(i) \union T[i + 1])
          /\ Cardinality(upto(i) \union T[i + 1])
               = Cardinality(upto(i)) + Cardinality(T[i + 1])
      BY <3>3, <3>4, <3>5, DisjointUnion
    <3>10. Count(f[i + 1], x) = Cardinality(upto(i + 1)) /\ IsFiniteSet(upto(i + 1))
      BY <3>2, <3>4, <3>5, <3>8, <3>9
    <3> QED
      BY <3>1, <3>7, <3>10
  <2> HIDE DEF N
  <2>6. n \in N
    BY <2>1, <2>4, <2>5, AlongSequence
  <2> QED
    BY <2>2, <2>6 DEF N, n
<1> QED
  BY <1>1, <1>2

-----------------------------------------------------------------------------
(* Listings and what is picked of them.                                    *)

Listed(s) == s \in Seq(Range(s))

\* A sequence lists its elements.
LEMMA IsListed ==
    ASSUME NEW S, NEW s \in Seq(S)
    PROVE  Listed(s) /\ Range(s) \subseteq S /\ DOMAIN s = 1 .. Len(s)
<1>1. DOMAIN s = 1 .. Len(s) /\ \A i \in 1 .. Len(s) : s[i] \in S
  OBVIOUS
<1>2. \A i \in 1 .. Len(s) : s[i] \in Range(s)
  BY <1>1 DEF Range
<1>3. s \in Seq(Range(s))
  <2> DEFINE R == Range(s)
  <2>1. s = [i \in 1 .. Len(s) |-> s[i]] /\ Len(s) \in Nat
    OBVIOUS
  <2> HIDE DEF R
  <2>2. \A i \in 1 .. Len(s) : s[i] \in R
    BY <1>2 DEF R
  <2>3. s \in Seq(R)
    BY <2>1, <2>2
  <2> QED
    BY <2>3 DEF R
<1> QED
  BY <1>1, <1>3 DEF Listed, Range

\* A function on the numbers up to n lists its values.
LEMMA FunctionListed ==
    ASSUME NEW n \in Nat, NEW f, f = [ i \in 1 .. n |-> f[i] ]
    PROVE  Listed(f) /\ Len(f) = n /\ DOMAIN f = 1 .. n
<1> DEFINE R == Range(f)
<1>1. \A i \in 1 .. n : f[i] \in R
  BY DEF Range
<1> HIDE DEF R
<1>2. f \in Seq(R) /\ Len(f) = n /\ DOMAIN f = 1 .. n
  BY <1>1
<1> QED
  BY <1>2 DEF Listed, R

\* The places of a concatenation.
LEMMA ConcatListed ==
    ASSUME NEW s, NEW t, Listed(s), Listed(t)
    PROVE  /\ Listed(s \o t) /\ Range(s \o t) = Range(s) \union Range(t)
           /\ DOMAIN s = 1 .. Len(s) /\ DOMAIN t = 1 .. Len(t)
           /\ Len(s) \in Nat /\ Len(t) \in Nat
           /\ \A k \in DOMAIN s : k \in DOMAIN (s \o t) /\ (s \o t)[k] = s[k]
           /\ \A k \in DOMAIN t : /\ Len(s) + k \in DOMAIN (s \o t)
                                  /\ (s \o t)[Len(s) + k] = t[k]
           /\ \A k \in DOMAIN (s \o t) :
                  \/ k \in DOMAIN s /\ (s \o t)[k] = s[k]
                  \/ k - Len(s) \in DOMAIN t /\ (s \o t)[k] = t[k - Len(s)] /\ k \in Int
<1> DEFINE S == Range(s) \union Range(t)
<1>1. s \in Seq(S) /\ t \in Seq(S)
  <2>1. s \in Seq(Range(s)) /\ t \in Seq(Range(t))
    BY DEF Listed
  <2>2. Range(s) \subseteq S /\ Range(t) \subseteq S
    OBVIOUS
  <2> HIDE DEF S
  <2> DEFINE A == Range(s)
             B == Range(t)
  <2> HIDE DEF A, B
  <2>3. s \in Seq(A) /\ t \in Seq(B) /\ A \subseteq S /\ B \subseteq S
    BY <2>1, <2>2 DEF A, B
  <2> QED
    BY <2>3
<1>2. Range(s \o t) = S /\ s \o t \in Seq(S)
  <2> HIDE DEF S
  <2>1. s \o t \in Seq(S) /\ Range(s \o t) = Range(s) \union Range(t)
    BY <1>1, RangeOfConcat
  <2> QED
    BY <2>1 DEF S
<1> HIDE DEF S
<1>3. /\ Len(s) \in Nat /\ Len(t) \in Nat
      /\ DOMAIN s = 1 .. Len(s) /\ DOMAIN t = 1 .. Len(t)
      /\ DOMAIN (s \o t) = 1 .. Len(s) + Len(t)
      /\ \A k \in 1 .. Len(s) : (s \o t)[k] = s[k]
      /\ \A k \in 1 .. Len(t) : (s \o t)[Len(s) + k] = t[k]
  BY <1>1
<1>4. Listed(s \o t)
  BY <1>2, IsListed
<1>5. \A k \in DOMAIN t : /\ Len(s) + k \in DOMAIN (s \o t)
                          /\ (s \o t)[Len(s) + k] = t[k]
  BY <1>3
<1>6. ASSUME NEW k \in DOMAIN (s \o t)
      PROVE  \/ k \in DOMAIN s /\ (s \o t)[k] = s[k]
             \/ k - Len(s) \in DOMAIN t /\ (s \o t)[k] = t[k - Len(s)] /\ k \in Int
  <2>1. CASE k \in 1 .. Len(s)
    BY <1>3, <2>1
  <2>2. CASE k \notin 1 .. Len(s)
    <3>1. k - Len(s) \in 1 .. Len(t) /\ Len(s) + (k - Len(s)) = k /\ k \in Int
      BY <1>3, <2>2
    <3> QED
      BY <1>3, <3>1
  <2> QED
    BY <2>1, <2>2
<1>7. \A k \in DOMAIN s : k \in DOMAIN (s \o t) /\ (s \o t)[k] = s[k]
  BY <1>3
<1> QED
  BY <1>2, <1>3, <1>4, <1>5, <1>6, <1>7 DEF S

\* The places of the first elements.
LEMMA PrefixListed ==
    ASSUME NEW s, Listed(s), NEW n \in 0 .. Len(s)
    PROVE  /\ Listed(SubSeq(s, 1, n)) /\ Range(SubSeq(s, 1, n)) \subseteq Range(s)
           /\ DOMAIN SubSeq(s, 1, n) \subseteq DOMAIN s
           /\ \A k \in DOMAIN SubSeq(s, 1, n) : SubSeq(s, 1, n)[k] = s[k]
<1> DEFINE R == Range(s)
           t == SubSeq(s, 1, n)
<1>1. s \in Seq(R)
  BY DEF Listed
<1> HIDE DEF R
<1>2. /\ t \in Seq(R) /\ DOMAIN t = 1 .. n /\ DOMAIN s = 1 .. Len(s)
      /\ \A k \in 1 .. n : t[k] = s[k]
  BY <1>1
<1> HIDE DEF t
<1>3. Listed(t) /\ Range(t) \subseteq R
  BY <1>2, IsListed
<1> QED
  BY <1>2, <1>3 DEF t, R

\* The places of the rest of a list.
LEMMA TailListed ==
    ASSUME NEW s, Listed(s), s # <<>>
    PROVE  /\ Listed(Tail(s)) /\ Head(s) = s[1] /\ 1 \in DOMAIN s
           /\ \A k \in DOMAIN Tail(s) : /\ k + 1 \in DOMAIN s /\ Tail(s)[k] = s[k + 1]
                                       /\ k \in Nat \ {0}
           /\ \A k \in DOMAIN s : k # 1 => k - 1 \in DOMAIN Tail(s) /\ Tail(s)[k - 1] = s[k]
<1> DEFINE R == Range(s)
           t == Tail(s)
<1>1. s \in Seq(R)
  BY DEF Listed
<1> HIDE DEF R
<1>2. /\ t \in Seq(R) /\ DOMAIN t = 1 .. Len(s) - 1 /\ DOMAIN s = 1 .. Len(s)
      /\ Head(s) = s[1] /\ Len(s) \in Nat /\ Len(s) > 0
      /\ \A k \in 1 .. Len(s) - 1 : t[k] = s[k + 1]
  BY <1>1
<1> HIDE DEF t
<1>3. Listed(t)
  BY <1>2, IsListed
<1>4. \A k \in DOMAIN s : k # 1 => k - 1 \in DOMAIN t /\ t[k - 1] = s[k]
  <2> SUFFICES ASSUME NEW k \in DOMAIN s, k # 1 PROVE k - 1 \in DOMAIN t /\ t[k - 1] = s[k]
    OBVIOUS
  <2>1. k - 1 \in 1 .. Len(s) - 1 /\ (k - 1) + 1 = k
    BY <1>2
  <2> QED
    BY <1>2, <2>1
<1> QED
  BY <1>2, <1>3, <1>4 DEF t

\* The places of a list with one element more.
LEMMA AppendListed ==
    ASSUME NEW s, Listed(s), NEW x
    PROVE  /\ Listed(Append(s, x)) /\ Len(Append(s, x)) = Len(s) + 1 /\ Len(s) \in Nat
           /\ DOMAIN s = 1 .. Len(s) /\ DOMAIN Append(s, x) = 1 .. Len(s) + 1
           /\ \A k \in DOMAIN s : Append(s, x)[k] = s[k]
           /\ Append(s, x)[Len(s) + 1] = x
<1> DEFINE R == Range(s)
           S == R \union {x}
           t == Append(s, x)
<1>1. s \in Seq(R)
  BY DEF Listed
<1>2. R \subseteq S /\ x \in S
  OBVIOUS
<1> HIDE DEF R, S
<1>3. s \in Seq(S)
  BY <1>1, <1>2
<1>4. /\ t \in Seq(S) /\ Len(t) = Len(s) + 1 /\ Len(s) \in Nat
      /\ DOMAIN s = 1 .. Len(s) /\ DOMAIN t = 1 .. Len(s) + 1
      /\ \A k \in 1 .. Len(s) : t[k] = s[k]
      /\ t[Len(s) + 1] = x
  BY <1>2, <1>3
<1> HIDE DEF t
<1>5. Listed(t)
  BY <1>4, IsListed
<1> QED
  BY <1>4, <1>5 DEF t

\* What is picked is in the list.
LEMMA PickedProperties ==
    ASSUME NEW items, Listed(items), NEW places
    PROVE  Listed(Picked(items, places)) /\ Range(Picked(items, places)) \subseteq Range(items)
<1> DEFINE R == Range(items)
           parts == [ i \in DOMAIN items |->
                        IF i \in places THEN <<items[i]>> ELSE <<>> ]
<1>1. items \in Seq(R)
  BY DEF Listed
<1> HIDE DEF R
<1>2. /\ DOMAIN items = 1 .. Len(items) /\ Len(items) \in Nat
      /\ \A i \in 1 .. Len(items) : items[i] \in R
  BY <1>1
<1>3. \A i \in 1 .. Len(items) : parts[i] \in Seq(R)
  BY <1>2
<1>4. parts \in Seq(Seq(R))
  BY <1>2, <1>3
<1> HIDE DEF parts
<1>5. FlattenSeq(parts) \in Seq(R)
  BY <1>4, FlattenProperties
<1>6. Picked(items, places) = FlattenSeq(parts)
  BY DEF Picked, parts
<1> QED
  BY <1>5, <1>6, IsListed DEF R

\* The items picked.
LEMMA PickedItems ==
    ASSUME NEW items, Listed(items), NEW places, NEW i \in DOMAIN items, i \in places
    PROVE  items[i] \in Range(Picked(items, places))
<1> DEFINE R == Range(items)
           parts == [ j \in DOMAIN items |->
                        IF j \in places THEN <<items[j]>> ELSE <<>> ]
<1>1. items \in Seq(R)
  BY DEF Listed
<1> HIDE DEF R
<1>2. /\ DOMAIN items = 1 .. Len(items) /\ Len(items) \in Nat
      /\ \A j \in 1 .. Len(items) : items[j] \in R
  BY <1>1
<1>3. parts \in Seq(Seq(R))
  <2>1. \A j \in 1 .. Len(items) : parts[j] \in Seq(R)
    BY <1>2
  <2> QED
    BY <1>2, <2>1
<1>4. i \in 1 .. Len(parts) /\ parts[i] = <<items[i]>>
  BY <1>2
<1> HIDE DEF parts
<1>5. items[i] \in Range(parts[i])
  BY <1>4 DEF Range
<1>6. Range(FlattenSeq(parts)) = UNION { Range(parts[j]) : j \in 1 .. Len(parts) }
  BY <1>3, FlattenProperties
<1>7. Picked(items, places) = FlattenSeq(parts)
  BY DEF Picked, parts
<1> QED
  BY <1>4, <1>5, <1>6, <1>7

\* What is picked occurs as often as it is picked.
LEMMA PickedCount ==
    ASSUME NEW items, Listed(items), NEW places, NEW x
    PROVE  Count(Picked(items, places), x)
             = Cardinality({ i \in DOMAIN items : i \in places /\ items[i] = x })
<1> DEFINE R == Range(items)
           parts == [ j \in DOMAIN items |->
                        IF j \in places THEN <<items[j]>> ELSE <<>> ]
           T == [ j \in DOMAIN items |->
                    IF j \in places /\ items[j] = x THEN {j} ELSE {} ]
           chosen == { i \in DOMAIN items : i \in places /\ items[i] = x }
<1>1. items \in Seq(R)
  BY DEF Listed
<1> HIDE DEF R
<1>2. /\ DOMAIN items = 1 .. Len(items) /\ Len(items) \in Nat
      /\ \A j \in 1 .. Len(items) : items[j] \in R
  BY <1>1
<1>3. parts \in Seq(Seq(R)) /\ Len(parts) = Len(items)
  <2>1. \A j \in 1 .. Len(items) : parts[j] \in Seq(R)
    BY <1>2
  <2> QED
    BY <1>2, <2>1
<1>4. ASSUME NEW i \in 1 .. Len(parts)
      PROVE  IsFiniteSet(T[i]) /\ Count(parts[i], x) = Cardinality(T[i])
  <2>1. i \in DOMAIN items
    BY <1>2, <1>3
  <2>2. CASE i \in places
    <3>1. parts[i] = <<items[i]>> /\ T[i] = IF items[i] = x THEN {i} ELSE {}
      BY <2>1, <2>2
    <3> HIDE DEF parts, T
    <3>2. Count(parts[i], x) = IF items[i] = x THEN 1 ELSE 0
      BY <3>1, CountOfOne
    <3> QED
      BY <3>1, <3>2, FS_EmptySet, FS_Singleton
  <2>3. CASE i \notin places
    <3>1. parts[i] = <<>> /\ T[i] = {}
      BY <2>1, <2>3
    <3> HIDE DEF parts, T
    <3>2. Places(<<>>, x) = {}
      BY DEF Places
    <3> QED
      BY <3>1, <3>2, FS_EmptySet DEF Count
  <2> QED
    BY <2>2, <2>3
<1>5. \A i, j \in 1 .. Len(parts) : i # j => T[i] \intersect T[j] = {}
  BY <1>2, <1>3
<1>6. AllOf(T, Len(parts)) = chosen
  <2>1. \A i \in 1 .. Len(parts) : \A y : y \in T[i] <=> y = i /\ i \in chosen
    BY <1>2, <1>3
  <2>2. \A y : y \in chosen => y \in 1 .. Len(parts)
    BY <1>2, <1>3
  <2> HIDE DEF T, chosen, parts
  <2> QED
    BY <2>1, <2>2 DEF AllOf
<1>7. Picked(items, places) = FlattenSeq(parts)
  BY DEF Picked
<1> HIDE DEF parts, T
<1>8. Count(FlattenSeq(parts), x) = Cardinality(AllOf(T, Len(parts)))
  BY <1>3, <1>4, <1>5, CountOfFlatten
<1> QED
  BY <1>6, <1>7, <1>8

\* What occurs at most once has one place.
LEMMA OnePlace ==
    ASSUME NEW s, Listed(s), NEW x, Count(s, x) \in {0, 1},
           NEW k \in DOMAIN s, NEW l \in DOMAIN s, s[k] = x, s[l] = x
    PROVE  k = l
<1>1. IsFiniteSet(Places(s, x)) /\ Count(s, x) # 0
  <2>1. s \in Seq(Range(s))
    BY DEF Listed
  <2>2. DOMAIN s = 1 .. Len(s)
    BY <2>1
  <2> QED
    BY <2>1, <2>2, CountType
<1>2. Cardinality(Places(s, x)) = 1
  BY <1>1 DEF Count
<1>3. PICK y : Places(s, x) = {y}
  BY <1>1, <1>2, FS_Singleton
<1> QED
  BY <1>3 DEF Places

\* Different items are picked once each.
LEMMA PickedOnce ==
    ASSUME NEW items, Listed(items), NEW places,
           \A i, j \in DOMAIN items :
               i \in places /\ j \in places /\ items[i] = items[j] => i = j,
           NEW k \in DOMAIN Picked(items, places), NEW l \in DOMAIN Picked(items, places),
           Picked(items, places)[k] = Picked(items, places)[l]
    PROVE  k = l
<1> DEFINE s == Picked(items, places)
           x == s[k]
           chosen == { i \in DOMAIN items : i \in places /\ items[i] = x }
<1>1. Listed(s)
  BY PickedProperties
<1>2. Count(s, x) = Cardinality(chosen)
  BY PickedCount
<1>3. chosen = {} \/ \E i : chosen = {i}
  OBVIOUS
<1> HIDE DEF chosen
<1>4. Cardinality(chosen) \in {0, 1}
  BY <1>3, FS_EmptySet, FS_Singleton
<1>5. s[l] = x
  OBVIOUS
<1> HIDE DEF s, x
<1>6. k \in DOMAIN s /\ l \in DOMAIN s /\ s[k] = x
  BY DEF s, x
<1> QED
  BY <1>1, <1>2, <1>4, <1>5, <1>6, OnePlace

\* Where an item picked comes from.
LEMMA PickedFrom ==
    ASSUME NEW items, Listed(items), NEW places, NEW k \in DOMAIN Picked(items, places)
    PROVE  \E i \in DOMAIN items : i \in places /\ items[i] = Picked(items, places)[k]
<1> DEFINE s == Picked(items, places)
           x == s[k]
           chosen == { i \in DOMAIN items : i \in places /\ items[i] = x }
<1>1. Count(s, x) = Cardinality(chosen)
  BY PickedCount
<1>2. s \in Seq(Range(s))
  BY PickedProperties DEF Listed
<1> HIDE DEF s
<1>3. k \in DOMAIN s /\ DOMAIN s = 1 .. Len(s)
  BY <1>2 DEF s
<1>4. Count(s, x) # 0
  BY <1>2, <1>3, CountType
<1>5. chosen # {}
  BY <1>1, <1>4, FS_EmptySet
<1> QED
  BY <1>5 DEF s

\* What is picked comes in the order of the list: before an item come those
\* that are picked from places before its own.
LEMMA PickedInOrder ==
    ASSUME NEW items, Listed(items), NEW places, NEW k \in DOMAIN Picked(items, places)
    PROVE  \E i \in DOMAIN items :
               /\ i \in places /\ items[i] = Picked(items, places)[k]
               /\ \A j \in 1 .. i - 1 : j \in places =>
                      \E l \in 1 .. k - 1 : Picked(items, places)[l] = items[j]
<1> DEFINE R == Range(items)
           n == Len(items)
           parts == [ i \in DOMAIN items |->
                        IF i \in places THEN <<items[i]>> ELSE <<>> ]
<1>1. items \in Seq(R) /\ Picked(items, places) = FlattenSeq(parts)
  BY DEF Listed, Picked
<1> HIDE DEF R
<1>2. n \in Nat /\ DOMAIN items = 1 .. n /\ \A i \in 1 .. n : items[i] \in R
  BY <1>1
<1> HIDE DEF n
<1>3. parts = [ i \in 1 .. n |-> IF i \in places THEN <<items[i]>> ELSE <<>> ]
  BY <1>2
<1>4. \A i \in 1 .. n : /\ parts[i] = IF i \in places THEN <<items[i]>> ELSE <<>>
                        /\ parts[i] \in Seq(R)
  BY <1>2, <1>3
<1> HIDE DEF parts
<1>5. parts \in Seq(Seq(R)) /\ Len(parts) = n
  <2> DEFINE T == Seq(R)
  <2>1. parts = [ i \in 1 .. n |-> parts[i] ] /\ \A i \in 1 .. n : parts[i] \in T
    BY <1>3, <1>4
  <2> HIDE DEF T
  <2>2. parts \in Seq(T) /\ Len(parts) = n
    BY <1>2, <2>1
  <2> QED
    BY <2>2 DEF T
<1>6. parts # <<>>
  <2>1. CASE parts = <<>>
    <3>1. FlattenSeq(parts) = <<>>
      BY <2>1 DEF FlattenSeq
    <3> QED
      BY <1>1, <3>1
  <2> QED
    BY <2>1
<1>7. n \in Nat \ {0}
  BY <1>5, <1>6, <1>2
<1>8. PICK f : /\ f[1] = parts[1]
               /\ \A i \in 1 .. n - 1 : f[i + 1] = f[i] \o parts[i + 1]
               /\ FlattenSeq(parts) = f[n]
  BY <1>5, <1>6, FlattenSteps
<1> DEFINE From(s, m, i) ==
               /\ i \in places /\ items[i] = s[m]
               /\ \A j \in 1 .. i - 1 : j \in places => \E l \in 1 .. m - 1 : s[l] = items[j]
           Ordered(i) ==
               /\ f[i] \in Seq(R)
               /\ \A j \in 1 .. i : j \in places => \E l \in 1 .. Len(f[i]) : f[i][l] = items[j]
               /\ \A m \in 1 .. Len(f[i]) : \E j \in 1 .. i : From(f[i], m, j)
           N == { i \in 1 .. n : Ordered(i) }
<1> HIDE DEF Ordered
<1>18. \A i : i \in N <=> i \in 1 .. n /\ Ordered(i)
  OBVIOUS
<1> HIDE DEF N
<1>9. 1 \in N
  <2>1. f[1] = (IF 1 \in places THEN <<items[1]>> ELSE <<>>) /\ f[1] \in Seq(R)
    BY <1>4, <1>7, <1>8
  <2>2. CASE 1 \in places
    <3>1. Len(f[1]) = 1 /\ f[1][1] = items[1]
      BY <2>1, <2>2
    <3>2. Ordered(1)
      BY <2>1, <2>2, <3>1 DEF Ordered
    <3> QED
      BY <1>7, <1>18, <3>2
  <2>3. CASE 1 \notin places
    <3>1. Len(f[1]) = 0
      BY <2>1, <2>3
    <3>2. Ordered(1)
      BY <2>1, <2>3, <3>1 DEF Ordered
    <3> QED
      BY <1>7, <1>18, <3>2
  <2> QED
    BY <2>2, <2>3
<1>10. ASSUME NEW i \in 1 .. n - 1, i \in N PROVE i + 1 \in N
  <2>1. Ordered(i) /\ i \in Nat /\ i + 1 \in 1 .. n
    BY <1>7, <1>10, <1>18
  <2> DEFINE s == f[i]
             t == f[i + 1]
             len == Len(f[i])
  <2>2. s \in Seq(R) /\ len \in Nat
    BY <2>1 DEF Ordered
  <2>3. t = s \o parts[i + 1]
    BY <1>8
  <2> HIDE DEF len
  <2>4. CASE i + 1 \notin places
    <3>1. parts[i + 1] = <<>>
      BY <1>4, <2>1, <2>4
    <3>2. t = s
      BY <2>2, <2>3, <3>1
    <3>3. \A j \in 1 .. i + 1 : j \in 1 .. i \/ j = i + 1
      BY <2>1
    <3>4. \A j \in 1 .. i : j \in 1 .. i + 1
      BY <2>1
    <3> HIDE DEF From
    <3>5. Ordered(i + 1)
      BY <2>1, <2>4, <3>2, <3>3, <3>4 DEF Ordered
    <3> QED
      BY <1>18, <2>1, <3>5
  <2>5. CASE i + 1 \in places
    <3> DEFINE x == items[i + 1]
    <3>1. parts[i + 1] = <<x>> /\ x \in R
      BY <1>2, <1>4, <2>1, <2>5
    <3> HIDE DEF x, s, t
    <3>2. t = s \o <<x>> /\ Len(s) = len
      BY <2>3, <3>1 DEF s, len
    <3>3. /\ t \in Seq(R) /\ Len(t) = len + 1 /\ t[len + 1] = x
          /\ \A l \in 1 .. len : t[l] = s[l]
      BY <2>2, <3>1, <3>2
    <3>4. /\ \A j \in 1 .. i : j \in places => \E l \in 1 .. len : s[l] = items[j]
          /\ \A m \in 1 .. len : \E j \in 1 .. i : From(s, m, j)
      BY <2>1 DEF s, len, Ordered
    <3>5. ASSUME NEW j \in 1 .. i + 1, j \in places
          PROVE  \E l \in 1 .. len + 1 : t[l] = items[j]
      <4>1. CASE j = i + 1
        <5>1. len + 1 \in 1 .. len + 1
          BY <2>2
        <5> QED
          BY <3>3, <4>1, <5>1 DEF x
      <4>2. CASE j # i + 1
        <5>1. PICK l \in 1 .. len : s[l] = items[j]
          BY <2>1, <3>4, <3>5, <4>2
        <5>2. l \in 1 .. len + 1
          BY <2>2
        <5> QED
          BY <3>3, <5>1, <5>2
      <4> QED
        BY <4>1, <4>2
    <3>6. ASSUME NEW m \in 1 .. len + 1
          PROVE  \E j \in 1 .. i + 1 : From(t, m, j)
      <4>1. CASE m \in 1 .. len
        <5>1. PICK j \in 1 .. i : From(s, m, j)
          BY <3>4, <4>1
        <5>2. \A l \in 1 .. m - 1 : t[l] = s[l]
          BY <2>2, <3>3, <4>1
        <5>3. t[m] = s[m] /\ j \in 1 .. i + 1
          BY <2>1, <3>3, <4>1
        <5>4. From(t, m, j)
          BY <5>1, <5>2, <5>3
        <5> HIDE DEF From
        <5> QED
          BY <5>3, <5>4
      <4>2. CASE m = len + 1
        <5>1. (i + 1) - 1 = i /\ m - 1 = len /\ i + 1 \in 1 .. i + 1
          BY <2>1, <2>2, <4>2
        <5>2. ASSUME NEW j \in 1 .. (i + 1) - 1, j \in places
              PROVE  \E l \in 1 .. m - 1 : t[l] = items[j]
          <6>1. PICK l \in 1 .. len : s[l] = items[j]
            BY <3>4, <5>1, <5>2
          <6> QED
            BY <3>3, <5>1, <6>1
        <5>3. From(t, m, i + 1)
          BY <2>5, <3>3, <4>2, <5>2 DEF x
        <5> HIDE DEF From
        <5> QED
          BY <5>1, <5>3
      <4> HIDE DEF From
      <4> QED
        BY <2>2, <4>1, <4>2
    <3> HIDE DEF From
    <3>7. Ordered(i + 1)
      BY <3>3, <3>5, <3>6 DEF t, Ordered
    <3> QED
      BY <1>18, <2>1, <3>7
  <2> QED
    BY <2>4, <2>5
<1>11. n \in N
  BY <1>7, <1>9, <1>10, AlongSequence
<1>12. Ordered(n)
  BY <1>11, <1>18
<1>13. Picked(items, places) = f[n]
  BY <1>1, <1>8
<1>14. f[n] \in Seq(R)
  BY <1>12 DEF Ordered
<1>15. k \in 1 .. Len(f[n])
  BY <1>13, <1>14
<1>16. PICK i \in 1 .. n : From(f[n], k, i)
  BY <1>12, <1>15 DEF Ordered
<1>17. From(Picked(items, places), k, i)
  BY <1>13, <1>16
<1> QED
  BY <1>2, <1>17

\* The list of what sequences of length m hold, one after the other.
Blocks(seqs, m, s) ==
    /\ \A a \in 1 .. Len(seqs), p \in 1 .. m :
           (a - 1) * m + p \in DOMAIN s /\ s[(a - 1) * m + p] = seqs[a][p]
    /\ \A n \in DOMAIN s : \E a \in 1 .. Len(seqs), p \in 1 .. m : n = (a - 1) * m + p

\* The places of sequences of one length, flattened.
LEMMA FlattenBlocks ==
    ASSUME NEW S, NEW seqs \in Seq(Seq(S)), NEW m \in Nat,
           \A i \in 1 .. Len(seqs) : Len(seqs[i]) = m
    PROVE  Blocks(seqs, m, FlattenSeq(seqs))
<1> SUFFICES /\ \A a \in 1 .. Len(seqs), p \in 1 .. m :
                    /\ (a - 1) * m + p \in DOMAIN FlattenSeq(seqs)
                    /\ FlattenSeq(seqs)[(a - 1) * m + p] = seqs[a][p]
             /\ \A n \in DOMAIN FlattenSeq(seqs) :
                    \E a \in 1 .. Len(seqs), p \in 1 .. m : n = (a - 1) * m + p
  BY DEF Blocks
<1>1. CASE seqs = <<>>
  <2>1. FlattenSeq(seqs) = <<>>
    BY <1>1 DEF FlattenSeq
  <2>2. Len(seqs) = 0 /\ DOMAIN FlattenSeq(seqs) = {}
    BY <1>1, <2>1
  <2> QED
    BY <2>2
<1>2. CASE seqs # <<>>
  <2> DEFINE n == Len(seqs)
             at(a, p) == (a - 1) * m + p
  <2>1. n \in Nat \ {0}
    BY <1>2
  <2>2. PICK f : /\ f[1] = seqs[1]
                 /\ \A i \in 1 .. n - 1 : f[i + 1] = f[i] \o seqs[i + 1]
                 /\ FlattenSeq(seqs) = f[n]
    BY <1>2, FlattenSteps
  <2> DEFINE Placed(i) ==
                 /\ f[i] \in Seq(S) /\ Len(f[i]) = i * m
                 /\ \A a \in 1 .. i, p \in 1 .. m : /\ at(a, p) \in 1 .. Len(f[i])
                                                    /\ f[i][at(a, p)] = seqs[a][p]
                 /\ \A k \in 1 .. Len(f[i]) : \E a \in 1 .. i, p \in 1 .. m : k = at(a, p)
             N == { i \in 1 .. n : Placed(i) }
  <2> HIDE DEF Placed
  <2>10. \A i : i \in N <=> i \in 1 .. n /\ Placed(i)
    OBVIOUS
  <2> HIDE DEF N
  <2>3. \A i \in 1 .. n : seqs[i] \in Seq(S) /\ Len(seqs[i]) = m
    OBVIOUS
  <2>4. 1 \in N
    <3>1. 1 * m = m /\ \A p \in 1 .. m : at(1, p) = p
      OBVIOUS
    <3>2. f[1] \in Seq(S) /\ Len(f[1]) = m
      BY <2>1, <2>2, <2>3
    <3> HIDE DEF at
    <3>3. Placed(1)
      BY <2>2, <3>1, <3>2 DEF Placed
    <3> QED
      BY <2>1, <2>10, <3>3
  <2>5. ASSUME NEW i \in 1 .. n - 1, i \in N PROVE i + 1 \in N
    <3>1. /\ Placed(i) /\ i \in 1 .. n /\ i + 1 \in 1 .. n /\ i \in Nat
          /\ seqs[i + 1] \in Seq(S) /\ Len(seqs[i + 1]) = m
      BY <2>1, <2>3, <2>5, <2>10
    <3> DEFINE len == i * m
               e == f[i]
               b == seqs[i + 1]
               c == f[i + 1]
    <3>2. len \in Nat /\ (i + 1) * m = len + m /\ \A p \in 1 .. m : at(i + 1, p) = len + p
      <4>1. i \in Nat /\ m \in Nat /\ (i + 1) - 1 = i
        BY <3>1
      <4> QED
        BY <4>1
    <3> HIDE DEF at, len
    <3>3. e \in Seq(S) /\ Len(e) = len /\ b \in Seq(S) /\ Len(b) = m /\ c = e \o b
      BY <2>2, <3>1 DEF len, Placed
    <3> HIDE DEF b, c, e
    <3>4. /\ c \in Seq(S) /\ Len(c) = len + m
          /\ \A k \in 1 .. len : c[k] = e[k]
          /\ \A k \in 1 .. m : c[len + k] = b[k]
      <4>1. /\ e \o b \in Seq(S) /\ Len(e \o b) = Len(e) + Len(b)
            /\ \A k \in 1 .. Len(e) : (e \o b)[k] = e[k]
            /\ \A k \in 1 .. Len(b) : (e \o b)[Len(e) + k] = b[k]
        <5>1. e \in Seq(S) /\ b \in Seq(S)
          BY <3>3
        <5> QED
          BY <5>1
      <4>2. c = e \o b /\ Len(e) = len /\ Len(b) = m
        BY <3>3
      <4>3. /\ c \in Seq(S) /\ Len(c) = Len(e) + Len(b)
            /\ \A k \in 1 .. Len(e) : c[k] = e[k]
            /\ \A k \in 1 .. Len(b) : c[Len(e) + k] = b[k]
        BY <4>1, <4>2, Zenon
      <4>4. Len(e) = len /\ Len(b) = m
        BY <4>2
      <4> QED
        BY <4>3, <4>4, Zenon
    <3>5. ASSUME NEW a \in 1 .. i + 1, NEW p \in 1 .. m
          PROVE  at(a, p) \in 1 .. len + m /\ c[at(a, p)] = seqs[a][p]
      <4>1. CASE a \in 1 .. i
        <5>1. at(a, p) \in 1 .. len /\ e[at(a, p)] = seqs[a][p]
          BY <3>1, <3>3, <4>1 DEF Placed, e
        <5> QED
          BY <3>2, <3>4, <5>1
      <4>2. CASE a = i + 1
        <5>1. at(a, p) = len + p /\ len + p \in 1 .. len + m
          BY <3>2, <4>2
        <5>2. c[len + p] = b[p] /\ b = seqs[a]
          BY <3>4, <4>2 DEF b
        <5> QED
          BY <5>1, <5>2
      <4> QED
        BY <3>1, <4>1, <4>2
    <3>6. ASSUME NEW k \in 1 .. len + m
          PROVE  \E a \in 1 .. i + 1, p \in 1 .. m : k = at(a, p)
      <4>1. CASE k \in 1 .. len
        <5>1. PICK a \in 1 .. i, p \in 1 .. m : k = at(a, p)
          BY <3>1, <3>3, <4>1 DEF Placed, e
        <5>2. a \in 1 .. i + 1
          BY <3>1
        <5> QED
          BY <5>1, <5>2
      <4>2. CASE k \notin 1 .. len
        <5>1. k - len \in 1 .. m /\ k = len + (k - len) /\ i + 1 \in 1 .. i + 1
          BY <3>1, <3>2, <4>2
        <5>2. k = at(i + 1, k - len)
          BY <3>2, <5>1
        <5> QED
          BY <5>1, <5>2
      <4> QED
        BY <4>1, <4>2
    <3>7. Placed(i + 1)
      BY <3>2, <3>4, <3>5, <3>6 DEF c, Placed
    <3> QED
      BY <2>10, <3>1, <3>7
  <2>6. n \in N
    BY <2>1, <2>4, <2>5, AlongSequence
  <2>7. Placed(n)
    BY <2>6, <2>10
  <2>8. DOMAIN f[n] = 1 .. Len(f[n])
    BY <2>7 DEF Placed
  <2>9. /\ \A a \in 1 .. n, p \in 1 .. m : /\ at(a, p) \in DOMAIN f[n]
                                           /\ f[n][at(a, p)] = seqs[a][p]
        /\ \A k \in DOMAIN f[n] : \E a \in 1 .. n, p \in 1 .. m : k = at(a, p)
    BY <2>7, <2>8 DEF Placed
  <2> QED
    BY <2>2, <2>9
<1> QED
  BY <1>1, <1>2

\* What is flattened of sequences of one length.
LEMMA FlattenLength ==
    ASSUME NEW S, NEW seqs \in Seq(Seq(S)), NEW m \in Nat,
           \A i \in 1 .. Len(seqs) : Len(seqs[i]) = m
    PROVE  Len(FlattenSeq(seqs)) = Len(seqs) * m
<1>1. CASE seqs = <<>>
  <2>1. FlattenSeq(seqs) = <<>>
    BY <1>1 DEF FlattenSeq
  <2> QED
    BY <1>1, <2>1
<1>2. CASE seqs # <<>>
  <2> DEFINE n == Len(seqs)
  <2>1. /\ n \in Nat \ {0}
        /\ \A i \in 1 .. n : seqs[i] \in Seq(S) /\ Len(seqs[i]) = m
    BY <1>2
  <2>2. PICK f : /\ f[1] = seqs[1]
                 /\ \A i \in 1 .. n - 1 : f[i + 1] = f[i] \o seqs[i + 1]
                 /\ FlattenSeq(seqs) = f[n]
    BY <1>2, FlattenSteps
  <2> HIDE DEF n
  <2> DEFINE N == { i \in 1 .. n : f[i] \in Seq(S) /\ Len(f[i]) = i * m }
  <2>3. 1 \in N
    <3>1. 1 * m = m
      OBVIOUS
    <3> QED
      BY <2>1, <2>2, <3>1
  <2>4. ASSUME NEW i \in 1 .. n - 1, i \in N PROVE i + 1 \in N
    <3>1. i + 1 \in 1 .. n /\ seqs[i + 1] \in Seq(S) /\ Len(seqs[i + 1]) = m
      BY <2>1
    <3>2. f[i] \in Seq(S) /\ Len(f[i]) = i * m /\ f[i + 1] = f[i] \o seqs[i + 1]
      BY <2>2, <2>4
    <3>3. ASSUME NEW a \in Seq(S), NEW b \in Seq(S)
          PROVE  a \o b \in Seq(S) /\ Len(a \o b) = Len(a) + Len(b)
      OBVIOUS
    <3>4. f[i + 1] \in Seq(S) /\ Len(f[i + 1]) = Len(f[i]) + Len(seqs[i + 1])
      BY <3>1, <3>2, <3>3
    <3>5. i * m + m = (i + 1) * m
      <4>1. i \in Int /\ m \in Int
        OBVIOUS
      <4> QED
        BY <4>1
    <3> QED
      BY <3>1, <3>2, <3>3, <3>4, <3>5
  <2> HIDE DEF N
  <2>5. n \in N
    BY <2>1, <2>3, <2>4, AlongSequence
  <2> QED
    BY <2>2, <2>5 DEF N, n
<1> QED
  BY <1>1, <1>2

\* The items of new values are as many as the values.
LEMMA FirstsPicked ==
    ASSUME NEW items, Listed(items), NEW f, NEW places,
           \A i : i \in places <=> i \in DOMAIN items /\ \A j \in 1 .. i - 1 : f[j] # f[i],
           \A i, j \in DOMAIN items : items[i] = items[j] => f[i] = f[j]
    PROVE  /\ IsFiniteSet({ f[i] : i \in DOMAIN items })
           /\ Len(Picked(items, places)) = Cardinality({ f[i] : i \in DOMAIN items })
<1> DEFINE s == Picked(items, places)
           n == Len(s)
           K == { f[i] : i \in DOMAIN items }
           from(k) == CHOOSE i \in DOMAIN items : i \in places /\ items[i] = s[k]
           g == [ k \in 1 .. n |-> f[from(k)] ]
<1>1. DOMAIN items = 1 .. Len(items) /\ Len(items) \in Nat
  BY DEF Listed
<1>2. Listed(s)
  BY PickedProperties DEF s
<1>3. \A k \in DOMAIN s : \E i \in DOMAIN items : i \in places /\ items[i] = s[k]
  <2> SUFFICES ASSUME NEW k \in DOMAIN Picked(items, places)
               PROVE  \E i \in DOMAIN items :
                          i \in places /\ items[i] = Picked(items, places)[k]
    OBVIOUS
  <2> QED
    BY PickedFrom
<1>4. \A i \in places : items[i] \in Range(s)
  BY PickedItems
<1>5. \A i, j \in places : f[i] = f[j] => i = j
  <2> SUFFICES ASSUME NEW i \in places, NEW j \in places, f[i] = f[j] PROVE i = j
    OBVIOUS
  <2>1. i \in Nat /\ j \in Nat /\ i > 0 /\ j > 0
    BY <1>1
  <2>2. ~(i < j)
    <3>1. i < j => i \in 1 .. j - 1
      BY <2>1
    <3> QED
      BY <3>1
  <2>3. ~(j < i)
    <3>1. j < i => j \in 1 .. i - 1
      BY <2>1
    <3> QED
      BY <3>1
  <2> QED
    BY <2>1, <2>2, <2>3
<1>6. \A k, l \in DOMAIN s : s[k] = s[l] => k = l
  <2>1. \A i, j \in DOMAIN items :
            i \in places /\ j \in places /\ items[i] = items[j] => i = j
    BY <1>5
  <2> QED
    BY <2>1, PickedOnce
<1>7. \A x \in K : \E j \in places : f[j] = x
  <2> SUFFICES ASSUME NEW i \in DOMAIN items PROVE \E j \in places : f[j] = f[i]
    OBVIOUS
  <2> DEFINE T == { j \in DOMAIN items : f[j] = f[i] }
  <2>1. T \in SUBSET Nat /\ T # {}
    BY <1>1
  <2>2. PICK j \in T : \A k \in T : j <= k
    <3> HIDE DEF T
    <3> QED
      BY <2>1, LeastNatural
  <2>3. j \in places
    <3> SUFFICES ASSUME NEW k \in 1 .. j - 1, f[k] = f[j] PROVE FALSE
      BY <2>2
    <3>1. k \in T /\ k < j /\ k \in Nat /\ j \in Nat
      BY <1>1, <2>2
    <3> QED
      BY <2>2, <3>1
  <2> QED
    BY <2>2, <2>3
<1>8. DOMAIN s = 1 .. n /\ n \in Nat
  BY <1>2 DEF Listed
<1> HIDE DEF s, n
<1>9. \A k \in 1 .. n : from(k) \in DOMAIN items /\ from(k) \in places /\ items[from(k)] = s[k]
  BY <1>3, <1>8
<1> HIDE DEF from
<1>10. \A k \in 1 .. n : g[k] \in K
  BY <1>9
<1>11. \A k, l \in 1 .. n : g[k] = g[l] => k = l
  <2> SUFFICES ASSUME NEW k \in 1 .. n, NEW l \in 1 .. n, f[from(k)] = f[from(l)]
               PROVE  k = l
    OBVIOUS
  <2>1. from(k) = from(l)
    BY <1>5, <1>9
  <2> QED
    BY <1>6, <1>8, <1>9, <2>1
<1>12. \A x \in K : \E k \in 1 .. n : g[k] = x
  <2> SUFFICES ASSUME NEW x \in K PROVE \E k \in 1 .. n : f[from(k)] = x
    OBVIOUS
  <2>1. PICK j \in places : f[j] = x
    BY <1>7
  <2>2. PICK k \in 1 .. n : items[j] = s[k]
    BY <1>4, <1>8 DEF Range
  <2>3. f[from(k)] = f[j]
    BY <1>9, <2>2
  <2> QED
    BY <2>1, <2>3
<1>13. g \in [ 1 .. n -> K ]
  BY <1>10
<1> HIDE DEF g, K
<1>14. g \in Bijection(1 .. n, K)
  BY <1>11, <1>12, <1>13 DEF Bijection, Injection, Surjection, IsInjective
<1>15. IsFiniteSet(1 .. n) /\ Cardinality(1 .. n) = n
  BY <1>8, FS_Interval
<1>16. IsFiniteSet(K) /\ Cardinality(K) = Cardinality(1 .. n)
  BY <1>14, <1>15, FS_Bijection DEF ExistsBijection
<1> QED
  BY <1>15, <1>16 DEF K, n, s

-----------------------------------------------------------------------------
(* Sums of values.                                                        *)

\* The recursion of a fold over a finite set of places, with a value of each.
SumOver(h, g, D) ==
    g = [ s \in SUBSET D |->
            IF s = {} THEN 0
            ELSE LET x == CHOOSE y \in s : TRUE IN h[x] + g[s \ {x}] ]

\* It has a solution.
LEMMA SumExists ==
    ASSUME NEW D, IsFiniteSet(D), NEW h
    PROVE  \E g : SumOver(h, g, D)
<1> DEFINE of(m) == { s \in SUBSET D : Cardinality(s) <= m }
           pick(s) == CHOOSE y \in s : TRUE
           Solves(g, m) ==
               g = [ s \in of(m) |-> IF s = {} THEN 0
                                     ELSE h[pick(s)] + g[s \ {pick(s)}] ]
           N == { m \in Nat : \E g : Solves(g, m) }
<1>1. \A s \in SUBSET D : IsFiniteSet(s) /\ Cardinality(s) \in Nat
                            /\ (Cardinality(s) = 0 <=> s = {})
                            /\ Cardinality(s) <= Cardinality(D)
  BY FS_Subset, FS_CardinalityType, FS_EmptySet
<1>2. ASSUME NEW s \in SUBSET D, s # {}
      PROVE  /\ pick(s) \in s /\ s \ {pick(s)} \in SUBSET D
             /\ Cardinality(s \ {pick(s)}) = Cardinality(s) - 1
  <2>1. pick(s) \in s
    BY <1>2
  <2> HIDE DEF pick
  <2> QED
    BY <1>1, <2>1, FS_RemoveElement
<1> HIDE DEF pick
<1>3. 0 \in N
  <2> DEFINE g == [ s \in of(0) |-> 0 ]
  <2>1. \A s \in of(0) : s = {}
    BY <1>1
  <2>2. g = [ s \in of(0) |-> IF s = {} THEN 0 ELSE h[pick(s)] + g[s \ {pick(s)}] ]
    BY <2>1
  <2> HIDE DEF g, of
  <2> QED
    BY <2>2
<1>4. ASSUME NEW m \in Nat, m \in N PROVE m + 1 \in N
  <2>1. PICK g : Solves(g, m)
    BY <1>4
  <2> DEFINE f == [ s \in of(m + 1) |-> IF s = {} THEN 0
                                        ELSE h[pick(s)] + g[s \ {pick(s)}] ]
  <2>2. \A s \in of(m) : s \in of(m + 1)
    BY <1>1
  <2>3. \A s \in of(m + 1) : s # {} => s \ {pick(s)} \in of(m)
    BY <1>1, <1>2
  <2> HIDE DEF of
  <2>4. \A s \in of(m) : f[s] = g[s]
    BY <2>1, <2>2
  <2>5. f = [ s \in of(m + 1) |-> IF s = {} THEN 0
                                  ELSE h[pick(s)] + f[s \ {pick(s)}] ]
    <3>1. \A s \in of(m + 1) :
              s # {} => h[pick(s)] + g[s \ {pick(s)}] = h[pick(s)] + f[s \ {pick(s)}]
      BY <2>3, <2>4
    <3> QED
      BY <3>1
  <2> HIDE DEF f
  <2>6. \E g2 : Solves(g2, m + 1)
    BY <2>5
  <2> HIDE DEF Solves
  <2> QED
    BY <2>6
<1>5. Nat \subseteq N
  <2> HIDE DEF N
  <2> QED
    BY <1>3, <1>4, Induction
<1>6. Cardinality(D) \in Nat
  BY FS_CardinalityType
<1>7. PICK g : Solves(g, Cardinality(D))
  BY <1>5, <1>6
<1>8. of(Cardinality(D)) = SUBSET D
  BY <1>1
<1>9. SumOver(h, g, D)
  BY <1>7, <1>8 DEF SumOver, pick
<1> QED
  BY <1>9

\* Whatever is taken first, the sum is that of the rest and its value.
LEMMA SumTakes ==
    ASSUME NEW D, IsFiniteSet(D), NEW h, \A i \in D : h[i] \in Int,
           NEW g, SumOver(h, g, D)
    PROVE  /\ g[{}] = 0
           /\ \A s \in SUBSET D : g[s] \in Int
           /\ \A s \in SUBSET D : \A x \in s : g[s] = h[x] + g[s \ {x}]
<1> DEFINE pick(s) == CHOOSE y \in s : TRUE
           Good(s) == g[s] \in Int /\ \A x \in s : /\ g[s \ {x}] \in Int
                                                /\ g[s] = h[x] + g[s \ {x}]
           N == { m \in Nat : \A s \in SUBSET D : Cardinality(s) = m => Good(s) }
<1>1. \A s \in SUBSET D : IsFiniteSet(s) /\ Cardinality(s) \in Nat
                            /\ (Cardinality(s) = 0 <=> s = {})
  BY FS_Subset, FS_CardinalityType, FS_EmptySet
<1>2. ASSUME NEW s \in SUBSET D, NEW x \in s
      PROVE  s \ {x} \in SUBSET D /\ Cardinality(s \ {x}) = Cardinality(s) - 1
  BY <1>1, FS_RemoveElement
<1>3. \A s \in SUBSET D : s # {} => pick(s) \in s /\ g[s] = h[pick(s)] + g[s \ {pick(s)}]
  BY DEF SumOver
<1>4. g[{}] = 0
  BY DEF SumOver
<1> HIDE DEF pick
<1>5. 0 \in N
  BY <1>1, <1>4
<1>6. ASSUME NEW m \in Nat, m \in N PROVE m + 1 \in N
  <2> SUFFICES ASSUME NEW s \in SUBSET D, Cardinality(s) = m + 1 PROVE Good(s)
    OBVIOUS
  <2> DEFINE p == pick(s)
  <2>1. s # {} /\ p \in s /\ g[s] = h[p] + g[s \ {p}]
    BY <1>1, <1>3
  <2> HIDE DEF p
  <2>2. \A x \in s : Good(s \ {x})
    <3>1. \A x \in s : s \ {x} \in SUBSET D /\ Cardinality(s \ {x}) = m
      BY <1>2
    <3> HIDE DEF Good
    <3> QED
      BY <1>6, <3>1
  <2>3. g[s] \in Int
    <3>1. h[p] \in Int
      BY <2>1
    <3>2. g[s \ {p}] \in Int
      BY <2>1, <2>2
    <3> HIDE DEF Good
    <3> QED
      BY <2>1, <3>1, <3>2
  <2>4. ASSUME NEW x \in s PROVE g[s \ {x}] \in Int /\ g[s] = h[x] + g[s \ {x}]
    <3>0. g[s \ {x}] \in Int
      BY <2>2
    <3>1. CASE x = p
      BY <2>1, <3>0, <3>1
    <3>2. CASE x # p
      <4>1. x \in s \ {p} /\ p \in s \ {x} /\ (s \ {p}) \ {x} = (s \ {x}) \ {p}
        BY <2>1, <3>2
      <4> DEFINE rest == g[(s \ {x}) \ {p}]
      <4>2. g[s \ {p}] = h[x] + rest
        BY <2>1, <2>2, <4>1
      <4>3. g[s \ {x}] = h[p] + rest /\ rest \in Int
        BY <2>2, <4>1
      <4>4. h[x] \in Int /\ h[p] \in Int
        BY <2>1
      <4>5. g[s] = h[p] + g[s \ {p}]
        BY <2>1
      <4> HIDE DEF rest, Good
      <4> QED
        BY <3>0, <4>2, <4>3, <4>4, <4>5
    <3> QED
      BY <3>1, <3>2
  <2> QED
    BY <2>3, <2>4
<1>7. Nat \subseteq N
  <2> HIDE DEF N
  <2> QED
    BY <1>5, <1>6, Induction
<1>8. \A s \in SUBSET D : Good(s)
  BY <1>1, <1>7
<1> QED
  BY <1>4, <1>8

\* The sum of equal values.
LEMMA SumOfEqual ==
    ASSUME NEW D, IsFiniteSet(D), NEW h, NEW c \in Int, \A i \in D : h[i] = c,
           NEW g, SumOver(h, g, D)
    PROVE  g[D] = Cardinality(D) * c
<1> DEFINE N == { m \in Nat : \A s \in SUBSET D : Cardinality(s) = m => g[s] = m * c }
<1>1. \A s \in SUBSET D : IsFiniteSet(s) /\ Cardinality(s) \in Nat
                            /\ (Cardinality(s) = 0 <=> s = {})
  BY FS_Subset, FS_CardinalityType, FS_EmptySet
<1>2. /\ g[{}] = 0
      /\ \A s \in SUBSET D : g[s] \in Int
      /\ \A s \in SUBSET D : \A x \in s : g[s] = h[x] + g[s \ {x}]
  BY SumTakes
<1>3. 0 \in N
  BY <1>1, <1>2
<1>4. ASSUME NEW m \in Nat, m \in N PROVE m + 1 \in N
  <2> SUFFICES ASSUME NEW s \in SUBSET D, Cardinality(s) = m + 1
               PROVE  g[s] = (m + 1) * c
    OBVIOUS
  <2>1. PICK x \in s : TRUE
    BY <1>1
  <2>2. s \ {x} \in SUBSET D /\ Cardinality(s \ {x}) = m
    BY <1>1, <2>1, FS_RemoveElement
  <2>3. g[s \ {x}] = m * c
    BY <1>4, <2>2
  <2>4. g[s] = c + m * c
    BY <1>2, <2>1, <2>3
  <2>5. c + m * c = (m + 1) * c
    OBVIOUS
  <2> QED
    BY <2>4, <2>5
<1>5. Nat \subseteq N
  <2> HIDE DEF N
  <2> QED
    BY <1>3, <1>4, Induction
<1> QED
  BY <1>1, <1>5

\* Six terms of a sum.
LEMMA SumOfSix ==
    ASSUME NEW h, \A i \in 1 .. 6 : h[i] \in Int, NEW g, SumOver(h, g, 1 .. 6)
    PROVE  g[1 .. 6] = h[1] + h[2] + h[3] + h[4] + h[5] + h[6]
<1> DEFINE D == 1 .. 6
<1>1. IsFiniteSet(D)
  <2>1. 1 \in Int /\ 6 \in Int
    OBVIOUS
  <2> QED
    BY <2>1, FS_Interval
<1>2. D = {1, 2, 3, 4, 5, 6}
  OBVIOUS
<1>3. /\ {1, 2, 3, 4, 5, 6} \ {6} = {1, 2, 3, 4, 5}
      /\ {1, 2, 3, 4, 5} \ {5} = {1, 2, 3, 4}
      /\ {1, 2, 3, 4} \ {4} = {1, 2, 3}
      /\ {1, 2, 3} \ {3} = {1, 2}
      /\ {1, 2} \ {2} = {1}
      /\ {1} \ {1} = {}
  OBVIOUS
<1>4. SumOver(h, g, D) /\ \A i \in D : h[i] \in Int
  OBVIOUS
<1> HIDE DEF D
<1>5. /\ g[{}] = 0
      /\ \A s \in SUBSET D : g[s] \in Int
      /\ \A s \in SUBSET D : \A x \in s : g[s] = h[x] + g[s \ {x}]
  BY <1>1, <1>4, SumTakes
<1>6. \A s, x : s \subseteq D /\ x \in s => g[s] = h[x] + g[s \ {x}]
  BY <1>5
<1>7. g[D] = h[6] + g[{1, 2, 3, 4, 5}]
  BY <1>2, <1>3, <1>6
<1>8. g[{1, 2, 3, 4, 5}] = h[5] + g[{1, 2, 3, 4}]
  BY <1>2, <1>3, <1>6
<1>9. g[{1, 2, 3, 4}] = h[4] + g[{1, 2, 3}]
  BY <1>2, <1>3, <1>6
<1>10. g[{1, 2, 3}] = h[3] + g[{1, 2}]
  BY <1>2, <1>3, <1>6
<1>11. g[{1, 2}] = h[2] + g[{1}]
  BY <1>2, <1>3, <1>6
<1>12. g[{1}] = h[1] + g[{}]
  BY <1>2, <1>3, <1>6
<1>13. \A i \in {1, 2, 3, 4, 5, 6} : h[i] \in Int
  BY <1>2, <1>4
<1> QED
  BY <1>5, <1>7, <1>8, <1>9, <1>10, <1>11, <1>12, <1>13 DEF D

\* A set of which any two members are equal.
LEMMA OneMember ==
    ASSUME NEW S, IsFiniteSet(S)
    PROVE  /\ Cardinality(S) <= 1 <=> \A x, y \in S : x = y
           /\ Cardinality(S) \in Nat /\ (Cardinality(S) = 0 <=> S = {})
<1>1. Cardinality(S) \in Nat /\ (Cardinality(S) = 0 <=> S = {})
  BY FS_CardinalityType, FS_EmptySet
<1>2. Cardinality(S) = 1 <=> \E x : S = {x}
  BY FS_Singleton
<1>3. (\A x, y \in S : x = y) <=> S = {} \/ \E x : S = {x}
  OBVIOUS
<1> QED
  BY <1>1, <1>2, <1>3

-----------------------------------------------------------------------------
(* How many of the first elements of a sequence are of a set.              *)

Amount(s, n, C) == Cardinality({ k \in 1 .. n : s[k] \in C })

\* It is a natural number, and 0 exactly if none is.
LEMMA AmountType ==
    ASSUME NEW s, NEW n \in Int, NEW C
    PROVE  /\ IsFiniteSet({ k \in 1 .. n : s[k] \in C })
           /\ Amount(s, n, C) \in Nat
           /\ Amount(s, n, C) = 0 <=> \A k \in 1 .. n : s[k] \notin C
<1> DEFINE P == { k \in 1 .. n : s[k] \in C }
<1>1. IsFiniteSet(1 .. n)
  BY FS_Interval
<1>2. IsFiniteSet(P)
  <2>1. P \in SUBSET (1 .. n)
    OBVIOUS
  <2> QED
    BY <1>1, <2>1, FS_Subset
<1>3. Cardinality(P) = 0 <=> P = {}
  BY <1>2, FS_EmptySet
<1>4. P = {} <=> \A k \in 1 .. n : s[k] \notin C
  OBVIOUS
<1> HIDE DEF P
<1>5. Cardinality(P) \in Nat
  BY <1>2, FS_CardinalityType
<1> QED
  BY <1>2, <1>3, <1>4, <1>5 DEF Amount, P

\* Equal elements, equal amounts.
LEMMA AmountSame ==
    ASSUME NEW s, NEW t, NEW n, \A k \in 1 .. n : s[k] = t[k], NEW C
    PROVE  Amount(s, n, C) = Amount(t, n, C)
<1>1. { k \in 1 .. n : s[k] \in C } = { k \in 1 .. n : t[k] \in C }
  OBVIOUS
<1> QED
  BY <1>1 DEF Amount

\* One element more.
LEMMA AmountStep ==
    ASSUME NEW s, NEW n \in Nat, NEW C
    PROVE  Amount(s, n + 1, C) = Amount(s, n, C) + (IF s[n + 1] \in C THEN 1 ELSE 0)
<1> DEFINE P == { k \in 1 .. n : s[k] \in C }
           Q == { k \in 1 .. n + 1 : s[k] \in C }
<1>1. \A k : k \in 1 .. n + 1 <=> k \in 1 .. n \/ k = n + 1
  OBVIOUS
<1>2. IsFiniteSet(P) /\ Cardinality(P) \in Nat
  BY AmountType DEF Amount
<1>3. n + 1 \notin P
  OBVIOUS
<1>4. Q = IF s[n + 1] \in C THEN P \union {n + 1} ELSE P
  BY <1>1
<1> HIDE DEF P, Q
<1>5. Cardinality(P \union {n + 1}) = Cardinality(P) + 1
  BY <1>2, <1>3, FS_AddElement
<1> QED
  <2>1. Cardinality(Q) = Cardinality(P) + (IF s[n + 1] \in C THEN 1 ELSE 0)
    BY <1>2, <1>4, <1>5
  <2> QED
    BY <2>1 DEF P, Q, Amount

\* An element put at the end.
LEMMA AmountOfAppend ==
    ASSUME NEW S, NEW s \in Seq(S), NEW y, NEW C
    PROVE  /\ Len(Append(s, y)) = Len(s) + 1
           /\ Amount(Append(s, y), Len(s) + 1, C)
                = Amount(s, Len(s), C) + (IF y \in C THEN 1 ELSE 0)
           /\ \A n \in Int : n <= Len(s) => Amount(Append(s, y), n, C) = Amount(s, n, C)
<1> DEFINE t == Append(s, y)
           m == Len(s)
<1>1. /\ m \in Nat /\ Len(t) = m + 1 /\ t[m + 1] = y
      /\ \A k \in 1 .. m : t[k] = s[k]
  OBVIOUS
<1> HIDE DEF t, m
<1>2. ASSUME NEW n \in Int, n <= m PROVE Amount(t, n, C) = Amount(s, n, C)
  <2>1. \A k \in 1 .. n : t[k] = s[k]
    BY <1>1, <1>2
  <2> QED
    BY <2>1, AmountSame
<1>3. Amount(t, m + 1, C) = Amount(t, m, C) + (IF t[m + 1] \in C THEN 1 ELSE 0)
  BY <1>1, AmountStep
<1>4. Amount(t, m, C) = Amount(s, m, C)
  BY <1>1, <1>2
<1>5. Amount(t, m + 1, C) = Amount(s, m, C) + (IF y \in C THEN 1 ELSE 0)
  BY <1>1, <1>3, <1>4
<1> QED
  BY <1>1, <1>2, <1>5 DEF t, m

\* The first element taken away.
LEMMA AmountOfTail ==
    ASSUME NEW S, NEW s \in Seq(S), s # <<>>, NEW C
    PROVE  Amount(s, Len(s), C)
             = Amount(Tail(s), Len(Tail(s)), C) + (IF Head(s) \in C THEN 1 ELSE 0)
<1> DEFINE t == Tail(s)
           n == Len(t)
           P == { k \in 1 .. Len(s) : s[k] \in C }
           Q == { k \in 1 .. n : t[k] \in C }
           R == { k \in P : k # 1 }
           f == [ k \in Q |-> k + 1 ]
<1>1. /\ n \in Nat /\ Len(s) = n + 1 /\ Head(s) = s[1]
      /\ \A k \in 1 .. n : t[k] = s[k + 1]
  OBVIOUS
<1> HIDE DEF t, n
<1>2. f \in Bijection(Q, R)
  <2>1. \A k \in 1 .. Len(s) : k # 1 => k - 1 \in 1 .. n /\ k = (k - 1) + 1
    BY <1>1
  <2>2. \A k \in 1 .. n : k + 1 \in 1 .. Len(s) /\ k + 1 # 1
    BY <1>1
  <2>3. \A k \in Q : f[k] \in R
    BY <1>1, <2>2
  <2>4. \A k \in R : k - 1 \in Q /\ f[k - 1] = k
    BY <1>1, <2>1
  <2>5. \A j, k \in Q : f[j] = f[k] => j = k
    BY <1>1
  <2>6. f \in [Q -> R]
    BY <2>3
  <2> HIDE DEF f, Q, R
  <2> QED
    BY <2>4, <2>5, <2>6 DEF Bijection, Injection, Surjection, IsInjective
<1>3. IsFiniteSet(Q) /\ Cardinality(Q) \in Nat
  <2>1. n \in Int
    BY <1>1
  <2>2. IsFiniteSet(Q) /\ Amount(t, n, C) \in Nat
    BY <2>1, AmountType
  <2> QED
    BY <2>2 DEF Amount
<1>4. IsFiniteSet(R) /\ Cardinality(R) = Cardinality(Q)
  <2>1. ExistsBijection(Q, R)
    BY <1>2 DEF ExistsBijection
  <2> QED
    BY <1>3, <2>1, FS_Bijection
<1>5. P = IF Head(s) \in C THEN R \union {1} ELSE R
  <2>1. 1 \in 1 .. Len(s)
    BY <1>1
  <2> QED
    BY <1>1, <2>1
<1>6. 1 \notin R
  OBVIOUS
<1> HIDE DEF P, Q, R
<1>7. Cardinality(R \union {1}) = Cardinality(R) + 1
  BY <1>4, <1>6, FS_AddElement
<1>8. Cardinality(P) = Cardinality(Q) + (IF Head(s) \in C THEN 1 ELSE 0)
  BY <1>3, <1>4, <1>5, <1>7
<1> QED
  BY <1>8 DEF Amount, P, Q, n, t

\* Amounts add up over a concatenation.
LEMMA AmountOfConcat ==
    ASSUME NEW S, NEW s \in Seq(S), NEW t \in Seq(S), NEW C
    PROVE  /\ Amount(s \o t, Len(s \o t), C) = Amount(s, Len(s), C) + Amount(t, Len(t), C)
           /\ Amount(s, Len(s), C) \in Nat /\ Amount(t, Len(t), C) \in Nat
<1> DEFINE w == s \o t
           m == Len(s)
           n == Len(t)
           P == { k \in 1 .. m : s[k] \in C }
           Q == { k \in 1 .. n : t[k] \in C }
           R == { k \in 1 .. m + n : w[k] \in C }
           moved == { k + m : k \in Q }
           f == [ k \in Q |-> k + m ]
<1>1. /\ m \in Nat /\ n \in Nat /\ Len(w) = m + n
      /\ \A k \in 1 .. m : w[k] = s[k]
      /\ \A k \in 1 .. n : w[k + m] = t[k]
  OBVIOUS
<1> HIDE DEF w, m, n
<1>2. R = P \union moved
  <2>1. ASSUME NEW k \in R PROVE k \in P \union moved
    <3>1. CASE k \in 1 .. m
      BY <1>1, <3>1
    <3>2. CASE k \notin 1 .. m
      <4>1. k - m \in 1 .. n /\ k = (k - m) + m
        BY <1>1, <3>2
      <4>2. k - m \in Q
        BY <1>1, <4>1
      <4> QED
        BY <4>1, <4>2
    <3> QED
      BY <3>1, <3>2
  <2>2. \A k \in 1 .. m : k \in 1 .. m + n
    BY <1>1
  <2>3. \A k \in 1 .. n : k + m \in 1 .. m + n
    BY <1>1
  <2> QED
    BY <1>1, <2>1, <2>2, <2>3
<1>3. P \intersect moved = {}
  BY <1>1
<1>4. /\ IsFiniteSet(P) /\ IsFiniteSet(Q)
      /\ Amount(s, m, C) = Cardinality(P) /\ Amount(t, n, C) = Cardinality(Q)
      /\ Amount(s, m, C) \in Nat /\ Amount(t, n, C) \in Nat
  <2>1. m \in Int /\ n \in Int
    BY <1>1
  <2> QED
    BY <2>1, AmountType DEF Amount
<1>5. IsFiniteSet(moved) /\ Cardinality(moved) = Cardinality(Q)
  <2>1. f \in Bijection(Q, moved)
    <3>1. \A j, k \in Q : f[j] = f[k] => j = k
      BY <1>1
    <3>2. f \in [Q -> moved] /\ \A k \in moved : \E j \in Q : f[j] = k
      OBVIOUS
    <3> HIDE DEF f, Q, moved
    <3> QED
      BY <3>1, <3>2 DEF Bijection, Injection, Surjection, IsInjective
  <2>2. ExistsBijection(Q, moved)
    BY <2>1 DEF ExistsBijection
  <2> HIDE DEF Q, moved
  <2> QED
    BY <1>4, <2>2, FS_Bijection
<1> HIDE DEF P, Q, R, moved
<1>6. Cardinality(P \union moved) = Cardinality(P) + Cardinality(moved)
  BY <1>3, <1>4, <1>5, DisjointUnion
<1> QED
  BY <1>1, <1>2, <1>4, <1>5, <1>6 DEF Amount, R, w, m, n

\* An amount does not shrink along a sequence.
LEMMA AmountGrows ==
    ASSUME NEW s, NEW m \in Int, NEW n \in Int, m <= n, NEW C
    PROVE  Amount(s, m, C) <= Amount(s, n, C)
<1> DEFINE P == { k \in 1 .. m : s[k] \in C }
           Q == { k \in 1 .. n : s[k] \in C }
<1>1. P \in SUBSET Q
  OBVIOUS
<1>2. IsFiniteSet(Q)
  BY AmountType
<1> HIDE DEF P, Q
<1>3. Cardinality(P) <= Cardinality(Q)
  BY <1>1, <1>2, FS_Subset
<1> QED
  BY <1>3 DEF Amount, P, Q

\* A count is the amount of one value.
LEMMA AmountOfOne ==
    ASSUME NEW S, NEW s \in Seq(S), NEW x
    PROVE  /\ Count(s, x) = Amount(s, Len(s), {x})
           /\ s # <<>> => Count(s, x) = Amount(s, Len(s) - 1, {x})
                                          + (IF Last(s) = x THEN 1 ELSE 0)
<1>1. /\ Len(s) \in Nat /\ DOMAIN s = 1 .. Len(s)
      /\ s # <<>> => Len(s) - 1 \in Nat /\ (Len(s) - 1) + 1 = Len(s)
  OBVIOUS
<1>2. Places(s, x) = { k \in 1 .. Len(s) : s[k] \in {x} }
  BY <1>1 DEF Places
<1>3. Count(s, x) = Amount(s, Len(s), {x})
  BY <1>2 DEF Count, Amount
<1>4. ASSUME s # <<>>
      PROVE  Amount(s, Len(s), {x}) = Amount(s, Len(s) - 1, {x})
                                        + (IF s[Len(s)] \in {x} THEN 1 ELSE 0)
  <2> DEFINE n == Len(s) - 1
  <2>1. n \in Nat /\ n + 1 = Len(s)
    BY <1>1, <1>4
  <2> HIDE DEF n
  <2>2. Amount(s, n + 1, {x}) = Amount(s, n, {x}) + (IF s[n + 1] \in {x} THEN 1 ELSE 0)
    BY <2>1, AmountStep
  <2> QED
    BY <2>1, <2>2 DEF n
<1> QED
  BY <1>3, <1>4 DEF Last

\* There are no more elements of a kind than members of a set of which every
\* value of that kind takes its share.
LEMMA AmountFromCounts ==
    ASSUME NEW S, NEW s \in Seq(S), NEW C, NEW X, IsFiniteSet(X), NEW shown,
           \A x \in C : Count(s, x) = Cardinality({ t \in X : shown[t] = x })
    PROVE  Amount(s, Len(s), C) <= Cardinality({ t \in X : shown[t] \in C })
<1> DEFINE P == { k \in 1 .. Len(s) : s[k] \in C }
           Y == { t \in X : shown[t] \in C }
           part(x) == { t \in X : shown[t] = x }
           pairing(x) == CHOOSE b : b \in Bijection(Places(s, x), part(x))
           f == [ k \in P |-> pairing(s[k])[k] ]
<1>1. ASSUME NEW x \in C PROVE pairing(x) \in Bijection(Places(s, x), part(x))
  <2>1. IsFiniteSet(Places(s, x)) /\ IsFiniteSet(part(x))
    <3>1. part(x) \in SUBSET X
      OBVIOUS
    <3> QED
      BY <3>1, CountType, FS_Subset
  <2>2. Cardinality(Places(s, x)) = Cardinality(part(x))
    BY DEF Count
  <2> HIDE DEF part
  <2>3. ExistsBijection(Places(s, x), part(x))
    BY <2>1, <2>2, FS_SameCardinalityBij
  <2> QED
    BY <2>3 DEF ExistsBijection
<1>2. \A k \in P : s[k] \in C /\ k \in Places(s, s[k])
  <2>1. DOMAIN s = 1 .. Len(s)
    OBVIOUS
  <2> QED
    BY <2>1 DEF Places
<1> HIDE DEF P, pairing
<1>3. ASSUME NEW k \in P
      PROVE  f[k] \in X /\ shown[f[k]] = s[k]
  <2>1. pairing(s[k]) \in Bijection(Places(s, s[k]), part(s[k]))
    BY <1>1, <1>2
  <2>2. pairing(s[k])[k] \in part(s[k])
    <3> HIDE DEF part
    <3> QED
      BY <1>2, <2>1 DEF Bijection, Injection
  <2>3. f[k] = pairing(s[k])[k]
    OBVIOUS
  <2> HIDE DEF f
  <2> QED
    BY <2>2, <2>3
<1>4. ASSUME NEW j \in P, NEW k \in P, f[j] = f[k]
      PROVE  j = k
  <2>1. s[j] = s[k]
    BY <1>3, <1>4
  <2>2. pairing(s[k]) \in Bijection(Places(s, s[k]), part(s[k]))
    BY <1>1, <1>2
  <2>3. j \in Places(s, s[k]) /\ k \in Places(s, s[k])
    BY <1>2, <2>1
  <2>4. pairing(s[k])[j] = pairing(s[k])[k]
    BY <1>4, <2>1
  <2> HIDE DEF part, f
  <2> QED
    BY <2>2, <2>3, <2>4 DEF Bijection, Injection, IsInjective
<1>5. f \in Injection(P, Y)
  <2>1. \A k \in P : f[k] \in Y
    BY <1>2, <1>3
  <2>2. f \in [P -> Y]
    BY <2>1
  <2> HIDE DEF f, Y
  <2> QED
    BY <1>4, <2>2 DEF Injection, IsInjective
<1>6. IsFiniteSet(Y)
  BY FS_Subset
<1> HIDE DEF f, Y
<1>7. Cardinality(P) <= Cardinality(Y)
  BY <1>5, <1>6, FS_Injection
<1> QED
  BY <1>7 DEF Amount, P, Y

-----------------------------------------------------------------------------
(* What follows an element at once.                                        *)

Followed(s, A, R) ==
    \A k \in 1 .. Len(s) : s[k] \in A =>
        k + 1 \in 1 .. Len(s) /\ <<s[k], s[k + 1]>> \in R

\* It follows it in a concatenation too.
LEMMA FollowedInConcat ==
    ASSUME NEW S, NEW s \in Seq(S), NEW t \in Seq(S), NEW A, NEW R,
           Followed(s, A, R), Followed(t, A, R)
    PROVE  s \o t \in Seq(S) /\ Followed(s \o t, A, R)
<1> DEFINE u == s \o t
           m == Len(s)
           n == Len(t)
<1>1. /\ u \in Seq(S) /\ Len(u) = m + n
      /\ \A k \in 1 .. m : u[k] = s[k]
      /\ \A k \in 1 .. n : u[m + k] = t[k]
  BY ConcatElements
<1>2. m \in Nat /\ n \in Nat
  OBVIOUS
<1> HIDE DEF u
<1>3. ASSUME NEW k \in 1 .. m + n, u[k] \in A
      PROVE  k + 1 \in 1 .. m + n /\ <<u[k], u[k + 1]>> \in R
  <2>1. CASE k \in 1 .. m
    <3>1. k + 1 \in 1 .. m /\ <<s[k], s[k + 1]>> \in R
      BY <1>1, <1>3, <2>1 DEF Followed
    <3> QED
      BY <1>1, <1>2, <2>1, <3>1
  <2>2. CASE k \notin 1 .. m
    <3> DEFINE j == k - m
    <3>1. j \in 1 .. n /\ m + j = k /\ m + (j + 1) = k + 1
      BY <1>2, <2>2
    <3> HIDE DEF j
    <3>2. j + 1 \in 1 .. n /\ <<t[j], t[j + 1]>> \in R
      BY <1>1, <1>3, <3>1 DEF Followed
    <3>3. u[k] = t[j] /\ u[k + 1] = t[j + 1]
      BY <1>1, <3>1, <3>2
    <3>4. k + 1 \in 1 .. m + n
      BY <1>2, <3>1, <3>2
    <3> QED
      BY <3>2, <3>3, <3>4
  <2> QED
    BY <2>1, <2>2
<1>4. Followed(u, A, R)
  BY <1>1, <1>3 DEF Followed
<1> QED
  BY <1>1, <1>4 DEF u

\* And in what is left when the first element is taken.
LEMMA FollowedInTail ==
    ASSUME NEW S, NEW s \in Seq(S), s # <<>>, NEW A, NEW R, Followed(s, A, R)
    PROVE  /\ Followed(Tail(s), A, R)
           /\ Head(s) \in A => Tail(s) # <<>> /\ <<Head(s), Head(Tail(s))>> \in R
<1> DEFINE t == Tail(s)
           n == Len(t)
<1>1. /\ n \in Nat /\ Len(s) = n + 1 /\ Head(s) = s[1] /\ t \in Seq(S)
      /\ \A k \in 1 .. n : t[k] = s[k + 1]
      /\ n # 0 => Head(t) = t[1]
      /\ n # 0 => t # <<>>
  <2>1. t \in Seq(S) /\ Len(s) = Len(t) + 1 /\ Head(s) = s[1]
    OBVIOUS
  <2>2. \A k \in 1 .. Len(t) : t[k] = s[k + 1]
    OBVIOUS
  <2> HIDE DEF t
  <2>3. Len(t) \in Nat /\ (Len(t) # 0 => t # <<>> /\ Head(t) = t[1])
    BY <2>1
  <2> QED
    BY <2>1, <2>2, <2>3
<1> HIDE DEF t, n
<1>2. ASSUME NEW k \in 1 .. n, t[k] \in A
      PROVE  k + 1 \in 1 .. n /\ <<t[k], t[k + 1]>> \in R
  <2> DEFINE j == k + 1
  <2>1. j \in 1 .. Len(s) /\ s[j] \in A /\ s[j] = t[k]
    BY <1>1, <1>2
  <2> HIDE DEF j
  <2>2. j + 1 \in 1 .. Len(s) /\ <<s[j], s[j + 1]>> \in R
    BY <2>1 DEF Followed
  <2>3. k + 1 \in 1 .. n
    BY <1>1, <2>2 DEF j
  <2>4. t[k + 1] = s[j + 1]
    BY <1>1, <2>3 DEF j
  <2> QED
    BY <2>1, <2>2, <2>3, <2>4
<1>3. ASSUME Head(s) \in A PROVE t # <<>> /\ <<Head(s), Head(t)>> \in R
  <2>1. 1 + 1 \in 1 .. Len(s) /\ <<s[1], s[1 + 1]>> \in R
    <3>1. 1 \in 1 .. Len(s) /\ s[1] \in A
      BY <1>1, <1>3
    <3> QED
      BY <3>1 DEF Followed
  <2>2. 1 \in 1 .. n /\ n # 0
    BY <1>1, <2>1
  <2> QED
    BY <1>1, <2>1, <2>2
<1> QED
  BY <1>2, <1>3 DEF Followed, t, n

\* And in flattened sequences.
LEMMA FollowedInFlatten ==
    ASSUME NEW S, NEW seqs \in Seq(Seq(S)), NEW A, NEW R,
           \A i \in 1 .. Len(seqs) : Followed(seqs[i], A, R)
    PROVE  Followed(FlattenSeq(seqs), A, R)
<1>1. CASE seqs = <<>>
  <2>1. FlattenSeq(seqs) = <<>>
    BY <1>1 DEF FlattenSeq
  <2>2. Len(<<>>) = 0 /\ 1 .. 0 = {}
    OBVIOUS
  <2> QED
    BY <2>1, <2>2 DEF Followed
<1>2. CASE seqs # <<>>
  <2> DEFINE n == Len(seqs)
  <2>1. n \in Nat \ {0} /\ \A i \in 1 .. n : seqs[i] \in Seq(S)
    BY <1>2
  <2>2. PICK f : /\ f[1] = seqs[1]
                 /\ \A i \in 1 .. n - 1 : f[i + 1] = f[i] \o seqs[i + 1]
                 /\ FlattenSeq(seqs) = f[n]
    BY <1>2, FlattenSteps
  <2>3. \A i \in 1 .. n : Followed(seqs[i], A, R)
    OBVIOUS
  <2> HIDE DEF n
  <2> DEFINE N == { i \in 1 .. n : f[i] \in Seq(S) /\ Followed(f[i], A, R) }
  <2>4. 1 \in N
    BY <2>1, <2>2, <2>3
  <2>5. ASSUME NEW i \in 1 .. n - 1, i \in N PROVE i + 1 \in N
    <3>1. i + 1 \in 1 .. n /\ seqs[i + 1] \in Seq(S)
      BY <2>1
    <3>2. f[i] \in Seq(S) /\ Followed(f[i], A, R)
      BY <2>5
    <3>3. Followed(seqs[i + 1], A, R)
      BY <2>3, <3>1
    <3>4. f[i] \o seqs[i + 1] \in Seq(S) /\ Followed(f[i] \o seqs[i + 1], A, R)
      BY <3>1, <3>2, <3>3, FollowedInConcat
    <3> QED
      BY <2>2, <3>1, <3>4
  <2> HIDE DEF N
  <2>6. n \in N
    BY <2>1, <2>4, <2>5, AlongSequence
  <2> QED
    BY <2>2, <2>6 DEF N
<1> QED
  BY <1>1, <1>2

\* The first place of a value is no later than any other.
LEMMA FirstPlaceIsFirst ==
    ASSUME NEW S, NEW s \in Seq(S), NEW x, NEW k \in 1 .. Len(s), s[k] = x
    PROVE  PlaceOf(s, x) <= k
<1> DEFINE I == { j \in 1 .. Len(s) : s[j] = x }
<1>1. k \in I /\ I \in SUBSET Nat
  OBVIOUS
<1>2. PlaceOf(s, x) = Min(I)
  <2>1. PlaceOf(s, x) = IF I # {} THEN Min(I) ELSE 0
    BY DEF SelectInSeq, PlaceOf
  <2> HIDE DEF I
  <2> QED
    BY <1>1, <2>1
<1> HIDE DEF I
<1>3. \E m \in I : \A j \in I : m <= j
  BY <1>1, LeastNatural
<1>4. \A j \in I : Min(I) <= j
  BY <1>3 DEF Min
<1> QED
  BY <1>1, <1>2, <1>4

\* Removing a value of a sequence shortens it by one.
LEMMA RemoveFirstLength ==
    ASSUME NEW S, NEW s \in Seq(S), NEW x, Count(s, x) # 0
    PROVE  RemoveFirst(s, x) \in Seq(S) /\ Len(RemoveFirst(s, x)) = Len(s) - 1
<1> DEFINE n == Len(s)
           p == PlaceOf(s, x)
           before == SubSeq(s, 1, p - 1)
           after  == SubSeq(s, p + 1, n)
<1>1. \E k \in 1 .. n : s[k] = x
  BY CountType
<1>2. p \in 1 .. n /\ n \in Nat
  <2>1. p \in 0 .. n /\ (p = 0 <=> \A k \in 1 .. n : s[k] # x)
    BY FirstPlace
  <2> HIDE DEF p
  <2> QED
    BY <1>1, <2>1
<1>3. RemoveFirst(s, x) = before \o after
  BY <1>1 DEF RemoveFirst, RemoveAt, PlaceOf
<1> HIDE DEF p
<1>4. /\ before \in Seq(S) /\ after \in Seq(S)
      /\ Len(before) = p - 1 /\ Len(after) = n - p
  BY <1>2
<1> HIDE DEF before, after, n
<1>5. before \o after \in Seq(S) /\ Len(before \o after) = Len(before) + Len(after)
  <2>1. before \in Seq(S) /\ after \in Seq(S)
    BY <1>4
  <2> QED
    BY <2>1, ConcatElements
<1>6. Len(before) + Len(after) = n - 1
  BY <1>2, <1>4
<1> QED
  BY <1>3, <1>5, <1>6 DEF n

=============================================================================
