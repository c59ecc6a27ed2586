------------------------ MODULE EnrichPipelineProofs ------------------------
(***************************************************************************)
(* Proofs about EnrichPipeline, for any contents of the four topics, any   *)
(* limits and any number of submissions: what the staging topic holds when *)
(* all has been read, in whatever order, and what the anomaly topic holds. *)
(***************************************************************************)
EXTENDS EnrichPipeline, SequenceFacts

\* The rows a reading can be joined to: its tag's and any asset's and
\* component's, or the NULLs of one that has not been read.
Places4 == [ raw: 1 .. Len(topic.raw), tags: 1 .. Len(topic.tags),
             assets: 0 .. Len(topic.assets), comps: 0 .. Len(topic.comps) ]
Candidates == { t \in Places4 : t.tags \in tag_matches(All, t.raw) }
PartRows   == { columns(t) : t \in Candidates }
RowsOf(e)  == { p \in PartRows : p.event_id = e }

\* The rows before each join, and after both of them.
Stage(q) == { t \in Candidates : /\ q = "assets" => t.assets = 0 /\ t.comps = 0
                                 /\ q = "comps" => t.comps = 0 }

\* The sets of rows a queue may stand for: with one row per key in the master
\* tables, they have no two rows of one reading.
OneEach(X) == \A s, t \in X : s.raw = t.raw => s = t
SetsOf(q)  == { X \in SUBSET Stage(q) : OneRowPerKey => OneEach(X) }

Change == [ op: {"-D", "+I"}, row: Candidates ]

\* A change that a set of rows admits, and what it makes of it.
Admits(X, c) == \/ c.op = "+I" /\ c.row \notin X
                \/ c.op = "-D" /\ c.row \in X
Applied(X, c) == IF c.op = "+I" THEN X \union {c.row} ELSE X \ {c.row}

\* The changes of q, one after the other, lead from A to B.
Leads(Sets, A, q, B) ==
    \E H \in [0 .. Len(q) -> Sets] :
        /\ H[0] = A /\ H[Len(q)] = B
        /\ \A n \in 1 .. Len(q) : /\ Admits(H[n - 1], q[n])
                                  /\ H[n] = Applied(H[n - 1], q[n])

Record == [ op: {"upsert"}, row: PartRows ]
          \union [ op: {"tombstone"}, event_id: EventIds ]
Breaches == { anomaly_row(r) : r \in { p \in PartRows : over_limit(p) } }

Queues == Lookups \union {"sink"}

PipelineTypeOK ==
    /\ topic \in Topics
    /\ read \in [Sources -> Nat]
    /\ \A s \in Sources : read[s] <= Len(topic[s])
    /\ left \in [Lookups -> SUBSET Candidates]
    /\ queue \in [Queues -> Seq(Change)]
    /\ kept \in [EventIds -> Seq(PartRows)]
    /\ \A e \in EventIds : kept[e] \in Seq(RowsOf(e))
    /\ staging \in Seq(Record)
    /\ scanned \in Nat
    /\ mart \in Seq(Breaches)

\* The joined rows that have these columns.
With(rows, row) == { t \in rows : columns(t) = row }

\* The sink keeps a set of rows as often as they have these columns.
Keeps(X) ==
    \A row \in PartRows : Count(kept[row.event_id], row) = Cardinality(With(X, row))

\* The changes on their way to a join lead from its left rows to what the join
\* before it has put out by now; those to the sink from what it keeps.
QueuesLead ==
    /\ Leads(SetsOf("assets"), left.assets, queue.assets, tagged(read))
    /\ Leads(SetsOf("comps"), left.comps, queue.comps,
             joined("assets", left.assets, read))
    /\ \E X \in SetsOf("sink") :
           /\ Keeps(X)
           /\ Leads(SetsOf("sink"), X, queue.sink, joined("comps", left.comps, read))

\* The staging topic holds the last row the sink keeps for an event.
LastKeptWritten ==
    \A e \in EventIds :
        kept[e] # <<>> => CurrentRow(e) = Upsert(Last(kept[e]))

PipelineInv == PipelineTypeOK /\ QueuesLead /\ LastKeptWritten

-----------------------------------------------------------------------------
(* Changes.                                                                *)

\* No change leads nowhere.
LEMMA LeadsNone ==
    ASSUME NEW Sets, NEW A
    PROVE  /\ A \in Sets => Leads(Sets, A, <<>>, A)
           /\ \A B : Leads(Sets, A, <<>>, B) => A = B
<1>1. ASSUME A \in Sets PROVE Leads(Sets, A, <<>>, A)
  <2> DEFINE H == [n \in 0 .. 0 |-> A]
  <2>1. Len(<<>>) = 0 /\ H \in [0 .. Len(<<>>) -> Sets] /\ H[0] = A /\ H[Len(<<>>)] = A
    BY <1>1
  <2>2. \A n \in 1 .. Len(<<>>) : FALSE
    OBVIOUS
  <2> HIDE DEF H
  <2> QED
    BY <2>1, <2>2 DEF Leads
<1> QED
  BY <1>1 DEF Leads

\* Where changes lead from and to.
LEMMA LeadsTypes ==
    ASSUME NEW S, NEW q \in Seq(S), NEW Sets, NEW A, NEW B, Leads(Sets, A, q, B)
    PROVE  A \in Sets /\ B \in Sets
BY DEF Leads

\* The first change taken.
LEMMA LeadsHead ==
    ASSUME NEW S, NEW q \in Seq(S), q # <<>>, NEW Sets, NEW A, NEW B,
           Leads(Sets, A, q, B)
    PROVE  /\ Admits(A, Head(q))
           /\ Leads(Sets, Applied(A, Head(q)), Tail(q), B)
           /\ Applied(A, Head(q)) \in Sets
<1>1. PICK H \in [0 .. Len(q) -> Sets] :
          /\ H[0] = A /\ H[Len(q)] = B
          /\ \A n \in 1 .. Len(q) : /\ Admits(H[n - 1], q[n])
                                    /\ H[n] = Applied(H[n - 1], q[n])
  BY DEF Leads
<1> DEFINE t == Tail(q)
           m == Len(t)
<1>2. /\ m \in Nat /\ Len(q) = m + 1 /\ Head(q) = q[1]
      /\ \A n \in 1 .. m : t[n] = q[n + 1]
  OBVIOUS
<1> HIDE DEF t, m
<1>3. Admits(A, q[1]) /\ H[1] = Applied(A, q[1]) /\ H[1] \in Sets
  <2>1. 1 \in 1 .. Len(q) /\ 1 - 1 = 0
    BY <1>2
  <2> QED
    BY <1>1, <2>1
<1> DEFINE G == [n \in 0 .. m |-> H[n + 1]]
<1>4. /\ G \in [0 .. m -> Sets] /\ G[0] = H[1] /\ G[m] = B
  BY <1>1, <1>2
<1>5. ASSUME NEW n \in 1 .. m
      PROVE  Admits(G[n - 1], t[n]) /\ G[n] = Applied(G[n - 1], t[n])
  <2>1. /\ n + 1 \in 1 .. Len(q) /\ (n + 1) - 1 = n /\ n - 1 \in 0 .. m /\ n \in 0 .. m
        /\ (n - 1) + 1 = n
    BY <1>2
  <2>2. G[n - 1] = H[n] /\ G[n] = H[n + 1] /\ t[n] = q[n + 1]
    BY <1>2, <2>1
  <2>3. Admits(H[n], q[n + 1]) /\ H[n + 1] = Applied(H[n], q[n + 1])
    BY <1>1, <2>1
  <2> QED
    BY <2>2, <2>3
<1> HIDE DEF G
<1>6. Leads(Sets, H[1], t, B)
  BY <1>4, <1>5 DEF Leads, m
<1> QED
  BY <1>2, <1>3, <1>6 DEF t

\* Changes after changes.
LEMMA LeadsConcat ==
    ASSUME NEW S, NEW p \in Seq(S), NEW q \in Seq(S), NEW Sets, NEW A, NEW B, NEW C,
           Leads(Sets, A, p, B), Leads(Sets, B, q, C)
    PROVE  Leads(Sets, A, p \o q, C)
<1>1. PICK G \in [0 .. Len(p) -> Sets] :
          /\ G[0] = A /\ G[Len(p)] = B
          /\ \A n \in 1 .. Len(p) : /\ Admits(G[n - 1], p[n])
                                    /\ G[n] = Applied(G[n - 1], p[n])
  BY DEF Leads
<1>2. PICK H \in [0 .. Len(q) -> Sets] :
          /\ H[0] = B /\ H[Len(q)] = C
          /\ \A n \in 1 .. Len(q) : /\ Admits(H[n - 1], q[n])
                                    /\ H[n] = Applied(H[n - 1], q[n])
  BY DEF Leads
<1> DEFINE a == Len(p)
           b == Len(q)
           w == p \o q
           F == [n \in 0 .. a + b |-> IF n <= a THEN G[n] ELSE H[n - a]]
<1>3. /\ a \in Nat /\ b \in Nat /\ Len(w) = a + b
      /\ \A n \in 1 .. a : w[n] = p[n]
      /\ \A n \in 1 .. a + b : n > a => w[n] = q[n - a]
  OBVIOUS
<1>4. /\ G \in [0 .. a -> Sets] /\ H \in [0 .. b -> Sets] /\ G[0] = A /\ G[a] = B
      /\ H[0] = B /\ H[b] = C
  BY <1>1, <1>2
<1>5. \A n \in 1 .. a : Admits(G[n - 1], p[n]) /\ G[n] = Applied(G[n - 1], p[n])
  BY <1>1
<1>6. \A n \in 1 .. b : Admits(H[n - 1], q[n]) /\ H[n] = Applied(H[n - 1], q[n])
  BY <1>2
<1> HIDE DEF a, b, w
<1>7. F \in [0 .. a + b -> Sets] /\ F[0] = A /\ F[a + b] = C
  <2>1. ASSUME NEW n \in 0 .. a + b PROVE F[n] \in Sets
    <3>1. n <= a => n \in 0 .. a
      BY <1>3
    <3>2. ~(n <= a) => n - a \in 0 .. b
      BY <1>3
    <3> QED
      BY <1>4, <3>1, <3>2
  <2>2. F[0] = A
    BY <1>3, <1>4
  <2>3. F[a + b] = C
    <3>1. CASE b = 0
      <4>1. a + b = a /\ a <= a
        BY <1>3, <3>1
      <4> QED
        BY <1>3, <1>4, <3>1, <4>1
    <3>2. CASE b # 0
      BY <1>3, <1>4, <3>2
    <3> QED
      BY <3>1, <3>2
  <2> QED
    BY <2>1, <2>2, <2>3
<1>8. ASSUME NEW n \in 1 .. a + b
      PROVE  Admits(F[n - 1], w[n]) /\ F[n] = Applied(F[n - 1], w[n])
  <2>0. n - 1 \in 0 .. a + b /\ n \in 0 .. a + b
    BY <1>3
  <2>1. CASE n <= a
    <3>1. n \in 1 .. a /\ n - 1 <= a
      BY <1>3, <2>1
    <3>2. F[n] = G[n] /\ F[n - 1] = G[n - 1] /\ w[n] = p[n]
      BY <1>3, <2>0, <2>1, <3>1
    <3> QED
      BY <1>5, <3>1, <3>2
  <2>2. CASE ~(n <= a)
    <3>1. n - a \in 1 .. b /\ (n - a) - 1 = (n - 1) - a /\ n > a
      BY <1>3, <2>2
    <3>2. F[n] = H[n - a] /\ w[n] = q[n - a]
      BY <1>3, <2>0, <2>2, <3>1
    <3>3. F[n - 1] = H[(n - a) - 1]
      <4>1. CASE n - 1 = a
        <5>1. F[n - 1] = G[a] /\ (n - a) - 1 = 0
          BY <1>3, <2>0, <4>1
        <5> QED
          BY <1>4, <5>1
      <4>2. CASE n - 1 # a
        BY <1>3, <2>0, <2>2, <3>1, <4>2
      <4> QED
        BY <4>1, <4>2
    <3> HIDE DEF F
    <3> QED
      BY <1>6, <3>1, <3>2, <3>3
  <2> QED
    BY <2>1, <2>2
<1> HIDE DEF F
<1>9. F \in [0 .. Len(w) -> Sets] /\ F[Len(w)] = C
  BY <1>3, <1>7
<1> QED
  BY <1>3, <1>7, <1>8, <1>9 DEF Leads, w

\* The changes of a finite set of rows hold each of them once.
LEMMA ChangesAre ==
    ASSUME NEW op, NEW X, IsFiniteSet(X), NEW w \in Changes(op, X)
    PROVE  \E f \in [1 .. Cardinality(X) -> X] :
               /\ Cardinality(X) \in Nat
               /\ w = [k \in 1 .. Cardinality(X) |-> [ op |-> op, row |-> f[k] ]]
               /\ \A j, k \in 1 .. Cardinality(X) : f[j] = f[k] => j = k
               /\ \A x \in X : \E k \in 1 .. Cardinality(X) : f[k] = x
<1>1. PICK f \in SetToSeqs(X) : w = [n \in DOMAIN f |-> [ op |-> op, row |-> f[n] ]]
  BY DEF Changes
<1>2. f \in [1 .. Cardinality(X) -> X] /\ IsInjective(f)
  BY DEF SetToSeqs, IsInjective
<1>3. /\ Cardinality(X) \in Nat /\ Len(f) = Cardinality(X)
      /\ f \in Bijection(1 .. Len(f), X)
  BY <1>2, ListingProperties
<1> QED
  BY <1>1, <1>2, <1>3 DEF Bijection, Injection, Surjection, IsInjective

\* They are changes of one operation.
LEMMA ChangesType ==
    ASSUME NEW op \in {"-D", "+I"}, NEW X \in SUBSET Candidates, IsFiniteSet(X),
           NEW w \in Changes(op, X)
    PROVE  /\ w \in Seq(Change)
           /\ Len(w) = Cardinality(X) /\ Cardinality(X) \in Nat
           /\ \A k \in 1 .. Len(w) : w[k].op = op
<1> DEFINE n == Cardinality(X)
<1>1. PICK f \in [1 .. n -> X] :
          /\ n \in Nat
          /\ w = [k \in 1 .. n |-> [ op |-> op, row |-> f[k] ]]
  BY ChangesAre
<1> HIDE DEF n
<1>2. \A k \in 1 .. n : [ op |-> op, row |-> f[k] ] \in Change
  BY <1>1 DEF Change
<1>3. w \in [1 .. n -> Change]
  BY <1>1, <1>2
<1>4. w \in Seq(Change) /\ Len(w) = n
  BY <1>1, <1>3
<1> QED
  BY <1>1, <1>4 DEF n

\* How many of them are of a set of changes.
LEMMA ChangesAmount ==
    ASSUME NEW op \in {"-D", "+I"}, NEW X \in SUBSET Candidates, IsFiniteSet(X),
           NEW w \in Changes(op, X), NEW C
    PROVE  Amount(w, Len(w), C) = Cardinality({ x \in X : [ op |-> op, row |-> x ] \in C })
<1> DEFINE n == Cardinality(X)
           P == { k \in 1 .. n : w[k] \in C }
           R == { x \in X : [ op |-> op, row |-> x ] \in C }
<1>1. PICK f \in [1 .. n -> X] :
          /\ n \in Nat
          /\ w = [k \in 1 .. n |-> [ op |-> op, row |-> f[k] ]]
          /\ \A j, k \in 1 .. n : f[j] = f[k] => j = k
          /\ \A x \in X : \E k \in 1 .. n : f[k] = x
  BY ChangesAre
<1>2. Len(w) = n
  BY ChangesType
<1> HIDE DEF n
<1>3. IsFiniteSet(P)
  <2>1. n \in Int
    BY <1>1
  <2> QED
    BY <2>1, AmountType
<1> DEFINE g == [k \in P |-> f[k]]
<1>4. g \in Bijection(P, R)
  <2>1. \A k \in 1 .. n : w[k] = [ op |-> op, row |-> f[k] ]
    BY <1>1
  <2>2. g \in [P -> R]
    BY <2>1
  <2>3. \A j, k \in P : g[j] = g[k] => j = k
    BY <1>1
  <2>4. \A x \in R : \E k \in P : g[k] = x
    BY <1>1, <2>1
  <2> HIDE DEF g, P, R
  <2> QED
    BY <2>2, <2>3, <2>4 DEF Bijection, Injection, Surjection, IsInjective
<1>5. ExistsBijection(P, R)
  BY <1>4 DEF ExistsBijection
<1> HIDE DEF P, R
<1>6. Cardinality(R) = Cardinality(P)
  BY <1>3, <1>5, FS_Bijection
<1> QED
  BY <1>2, <1>6 DEF Amount, P, R

\* Rows put out lead to the set with them.
LEMMA LeadsByAdded ==
    ASSUME NEW Sets, NEW A, NEW X, IsFiniteSet(X), X \intersect A = {},
           NEW w \in Changes("+I", X),
           \A Y : A \subseteq Y /\ Y \subseteq A \union X => Y \in Sets
    PROVE  Leads(Sets, A, w, A \union X)
<1> DEFINE n == Cardinality(X)
<1>1. PICK f \in [1 .. n -> X] :
          /\ n \in Nat
          /\ w = [k \in 1 .. n |-> [ op |-> "+I", row |-> f[k] ]]
          /\ \A j, k \in 1 .. n : f[j] = f[k] => j = k
          /\ \A x \in X : \E k \in 1 .. n : f[k] = x
  BY ChangesAre
<1> HIDE DEF n
<1> DEFINE H == [m \in 0 .. n |-> A \union { f[k] : k \in 1 .. m }]
<1>2. Len(w) = n
  BY <1>1
<1>3. H \in [0 .. n -> Sets] /\ H[0] = A /\ H[n] = A \union X
  <2>1. ASSUME NEW m \in 0 .. n PROVE H[m] \in Sets
    <3>1. \A k \in 1 .. m : k \in 1 .. n
      BY <1>1
    <3>2. A \subseteq H[m] /\ H[m] \subseteq A \union X
      BY <1>1, <3>1
    <3> HIDE DEF H
    <3> QED
      BY <3>2
  <2>2. H[0] = A
    BY <1>1
  <2>3. H[n] = A \union X
    BY <1>1
  <2> QED
    BY <2>1, <2>2, <2>3
<1>4. ASSUME NEW m \in 1 .. n
      PROVE  Admits(H[m - 1], w[m]) /\ H[m] = Applied(H[m - 1], w[m])
  <2>1. /\ m - 1 \in 0 .. n /\ m \in 0 .. n
        /\ \A k : k \in 1 .. m <=> k \in 1 .. m - 1 \/ k = m
        /\ m \notin 1 .. m - 1 /\ \A k \in 1 .. m - 1 : k \in 1 .. n
    BY <1>1
  <2>2. w[m].op = "+I" /\ w[m].row = f[m]
    BY <1>1
  <2>3. f[m] \notin H[m - 1]
    BY <1>1, <2>1
  <2>4. H[m] = H[m - 1] \union {f[m]}
    BY <2>1
  <2> HIDE DEF H
  <2> QED
    BY <2>2, <2>3, <2>4 DEF Admits, Applied
<1> HIDE DEF H
<1> QED
  BY <1>2, <1>3, <1>4 DEF Leads

\* Rows withdrawn lead to the set without them.
LEMMA LeadsByWithdrawn ==
    ASSUME NEW Sets, NEW A, NEW X, IsFiniteSet(X), X \subseteq A,
           NEW w \in Changes("-D", X), \A Y : Y \subseteq A => Y \in Sets
    PROVE  Leads(Sets, A, w, A \ X)
<1> DEFINE n == Cardinality(X)
<1>1. PICK f \in [1 .. n -> X] :
          /\ n \in Nat
          /\ w = [k \in 1 .. n |-> [ op |-> "-D", row |-> f[k] ]]
          /\ \A j, k \in 1 .. n : f[j] = f[k] => j = k
          /\ \A x \in X : \E k \in 1 .. n : f[k] = x
  BY ChangesAre
<1> HIDE DEF n
<1> DEFINE H == [m \in 0 .. n |-> A \ { f[k] : k \in 1 .. m }]
<1>2. Len(w) = n
  BY <1>1
<1>3. H \in [0 .. n -> Sets] /\ H[0] = A /\ H[n] = A \ X
  <2>1. ASSUME NEW m \in 0 .. n PROVE H[m] \in Sets
    <3>1. H[m] \subseteq A
      OBVIOUS
    <3> HIDE DEF H
    <3> QED
      BY <3>1
  <2>2. H[0] = A
    BY <1>1
  <2>3. H[n] = A \ X
    BY <1>1
  <2> QED
    BY <2>1, <2>2, <2>3
<1>4. ASSUME NEW m \in 1 .. n
      PROVE  Admits(H[m - 1], w[m]) /\ H[m] = Applied(H[m - 1], w[m])
  <2>1. /\ m - 1 \in 0 .. n /\ m \in 0 .. n
        /\ \A k : k \in 1 .. m <=> k \in 1 .. m - 1 \/ k = m
        /\ m \notin 1 .. m - 1 /\ \A k \in 1 .. m - 1 : k \in 1 .. n
    BY <1>1
  <2>2. w[m].op = "-D" /\ w[m].row = f[m] /\ w[m].op # "+I"
    BY <1>1
  <2>3. f[m] \in H[m - 1]
    BY <1>1, <2>1
  <2>4. H[m] = H[m - 1] \ {f[m]}
    BY <2>1
  <2> HIDE DEF H
  <2> QED
    BY <2>2, <2>3, <2>4 DEF Admits, Applied
<1> HIDE DEF H
<1> QED
  BY <1>2, <1>3, <1>4 DEF Leads

-----------------------------------------------------------------------------
(* The rows.                                                               *)

\* Every topic is a sequence.
LEMMA TopicLengths ==
    ASSUME topic \in Topics
    PROVE  /\ \A s \in Sources : Len(topic[s]) \in Nat
           /\ All \in [Sources -> Nat]
           /\ Len(topic.raw) \in Nat /\ Len(topic.tags) \in Nat
           /\ Len(topic.assets) \in Nat /\ Len(topic.comps) \in Nat
<1>1. \A s \in Sources : topic[s] \in Seq(Range(topic[s]))
  BY TopicsAssumption
<1>2. \A s \in Sources : Len(topic[s]) \in Nat
  BY <1>1
<1> QED
  BY <1>2 DEF All, Sources

\* A product of four finite sets is finite.
LEMMA FiniteProduct ==
    ASSUME NEW A, NEW B, NEW C, NEW D, IsFiniteSet(A), IsFiniteSet(B),
           IsFiniteSet(C), IsFiniteSet(D)
    PROVE  IsFiniteSet([ raw: A, tags: B, assets: C, comps: D ])
<1>1. IsFiniteSet((A \X B) \X (C \X D))
  <2>1. IsFiniteSet(A \X B) /\ IsFiniteSet(C \X D)
    BY FS_Product
  <2> QED
    BY <2>1, FS_Product
<1> DEFINE P == [ raw: A, tags: B, assets: C, comps: D ]
           f == [ t \in P |-> << <<t.raw, t.tags>>, <<t.assets, t.comps>> >> ]
<1>2. f \in Injection(P, (A \X B) \X (C \X D))
  <2>1. f \in [P -> (A \X B) \X (C \X D)]
    OBVIOUS
  <2>2. ASSUME NEW s \in P, NEW t \in P, f[s] = f[t] PROVE s = t
    <3>1. s.raw = t.raw /\ s.tags = t.tags /\ s.assets = t.assets /\ s.comps = t.comps
      BY <2>2
    <3> QED
      BY <3>1
  <2> HIDE DEF f, P
  <2> QED
    BY <2>1, <2>2 DEF Injection, IsInjective
<1> HIDE DEF f
<1> QED
  BY <1>1, <1>2, FS_Injection

\* There are finitely many of them.
LEMMA CandidatesFinite ==
    ASSUME topic \in Topics
    PROVE  /\ IsFiniteSet(Candidates)
           /\ \A X \in SUBSET Candidates : IsFiniteSet(X)
<1>0. /\ Len(topic.raw) \in Int /\ Len(topic.tags) \in Int
      /\ Len(topic.assets) \in Int /\ Len(topic.comps) \in Int
      /\ 0 \in Int /\ 1 \in Int
  BY TopicLengths
<1>1. /\ IsFiniteSet(1 .. Len(topic.raw)) /\ IsFiniteSet(1 .. Len(topic.tags))
      /\ IsFiniteSet(0 .. Len(topic.assets)) /\ IsFiniteSet(0 .. Len(topic.comps))
  BY <1>0, FS_Interval
<1>2. IsFiniteSet(Places4)
  BY <1>1, FiniteProduct DEF Places4
<1>3. Candidates \subseteq Places4
  BY DEF Candidates
<1> QED
  BY <1>2, <1>3, FS_Subset

\* What a candidate is made of.
LEMMA CandidateIs ==
    ASSUME topic \in Topics, NEW t \in Candidates
    PROVE  /\ t.raw \in 1 .. Len(topic.raw) /\ t.tags \in 1 .. Len(topic.tags)
           /\ t.assets \in 0 .. Len(topic.assets) /\ t.comps \in 0 .. Len(topic.comps)
           /\ t.tags \in tag_matches(All, t.raw)
           /\ topic.raw[t.raw].event_id \in EventIds
           /\ columns(t) \in PartRows /\ columns(t) \in RowsOf(topic.raw[t.raw].event_id)
           /\ columns(t).event_id = topic.raw[t.raw].event_id
<1>1. t \in Places4 /\ t.tags \in tag_matches(All, t.raw)
  BY DEF Candidates
<1>2. columns(t) \in PartRows /\ columns(t).event_id = topic.raw[t.raw].event_id
  BY DEF PartRows, columns
<1> QED
  BY <1>1, <1>2 DEF Places4, EventIds, RowsOf

\* A row of the topic's events.
LEMMA PartRowEvent ==
    ASSUME topic \in Topics, NEW row \in PartRows
    PROVE  row.event_id \in EventIds /\ row \in RowsOf(row.event_id)
<1>1. PICK t \in Candidates : row = columns(t)
  BY DEF PartRows
<1> QED
  BY <1>1, CandidateIs DEF RowsOf

-----------------------------------------------------------------------------
(* The joins.                                                              *)

ReadOf(n) == n \in [Sources -> Nat] /\ \A s \in Sources : n[s] <= Len(topic[s])

\* A row with a place of another table.
LEMMA RowWithPlace ==
    ASSUME topic \in Topics, NEW s \in Lookups, NEW r \in Stage(s),
           NEW k \in 0 .. Len(topic[s])
    PROVE  LET x == [r EXCEPT ![s] = k] IN
           /\ x \in Candidates /\ x \in Stage(after(s))
           /\ x.raw = r.raw /\ x.tags = r.tags /\ x[s] = k
           /\ [x EXCEPT ![s] = 0] = r
           /\ r \in Candidates /\ r[s] = 0 /\ (k = 0 => x = r)
           /\ columns(x).event_id = topic.raw[r.raw].event_id
<1> DEFINE x == [r EXCEPT ![s] = k]
<1>1. /\ r \in Places4 /\ r.tags \in tag_matches(All, r.raw) /\ r \in Candidates
      /\ (s = "assets" => r.assets = 0 /\ r.comps = 0)
      /\ (s = "comps" => r.comps = 0)
      /\ s = "assets" \/ s = "comps"
  BY DEF Stage, Candidates, Lookups
<1>2. CASE s = "assets"
  <2>1. /\ x \in Places4 /\ x.raw = r.raw /\ x.tags = r.tags /\ x.assets = k
        /\ x.comps = 0
    BY <1>1, <1>2 DEF Places4
  <2>2. [x EXCEPT !.assets = 0] = r /\ (k = 0 => x = r)
    BY <1>1, <1>2 DEF Places4
  <2>3. x \in Candidates /\ columns(x).event_id = topic.raw[r.raw].event_id
    BY <1>1, <2>1 DEF Candidates, columns
  <2>4. after(s) = "comps"
    BY <1>2 DEF after
  <2> HIDE DEF x
  <2>5. x \in Stage(after(s)) /\ r[s] = 0 /\ x[s] = k /\ [x EXCEPT ![s] = 0] = r
    BY <1>1, <1>2, <2>1, <2>2, <2>3, <2>4 DEF Stage
  <2> QED
    BY <1>1, <2>1, <2>2, <2>3, <2>5 DEF x
<1>3. CASE s = "comps"
  <2>1. /\ x \in Places4 /\ x.raw = r.raw /\ x.tags = r.tags /\ x.comps = k
    BY <1>1, <1>3 DEF Places4
  <2>2. [x EXCEPT !.comps = 0] = r /\ (k = 0 => x = r)
    BY <1>1, <1>3 DEF Places4
  <2>3. x \in Candidates /\ columns(x).event_id = topic.raw[r.raw].event_id
    BY <1>1, <2>1 DEF Candidates, columns
  <2>4. after(s) = "sink"
    BY <1>3 DEF after
  <2> HIDE DEF x
  <2>5. x \in Stage(after(s)) /\ r[s] = 0 /\ x[s] = k /\ [x EXCEPT ![s] = 0] = r
    BY <1>1, <1>3, <2>1, <2>2, <2>3, <2>4 DEF Stage
  <2> QED
    BY <1>1, <2>1, <2>2, <2>3, <2>5 DEF x
<1> QED
  BY <1>1, <1>2, <1>3

\* Rows with a place of another table differ as the rows or the places do.
LEMMA PlaceTold ==
    ASSUME topic \in Topics, NEW s \in Lookups, NEW a \in Stage(s), NEW b \in Stage(s),
           NEW i \in 0 .. Len(topic[s]), NEW j \in 0 .. Len(topic[s]),
           [a EXCEPT ![s] = i] = [b EXCEPT ![s] = j]
    PROVE  a = b /\ i = j
<1> DEFINE x == [a EXCEPT ![s] = i]
           y == [b EXCEPT ![s] = j]
<1>1. x[s] = i /\ [x EXCEPT ![s] = 0] = a
  BY RowWithPlace
<1>2. y[s] = j /\ [y EXCEPT ![s] = 0] = b
  BY RowWithPlace
<1>3. x = y
  OBVIOUS
<1> HIDE DEF x, y
<1> QED
  BY <1>1, <1>2, <1>3

\* What matches a row so far is within its table.
LEMMA MatchesIn ==
    ASSUME topic \in Topics, NEW n, ReadOf(n), NEW s \in Lookups, NEW r
    PROVE  /\ matches(s, r, n) \subseteq 1 .. Len(topic[s])
           /\ OrNull(matches(s, r, n)) \subseteq 0 .. Len(topic[s])
           /\ matches(s, r, n) \subseteq matches(s, r, All)
<1>1. s \in Sources /\ n[s] \in Nat /\ n[s] <= Len(topic[s]) /\ Len(topic[s]) \in Nat
      /\ All[s] = Len(topic[s])
  BY TopicLengths DEF ReadOf, Lookups, Sources, All
<1> QED
  BY <1>1 DEF matches, OrNull

\* With one row per key a row has one match, and a reading one tag.
LEMMA OneMatch ==
    ASSUME topic \in Topics, OneRowPerKey, NEW s \in Lookups, NEW r
    PROVE  /\ \A j, k \in matches(s, r, All) : j = k
           /\ \A i : \A j, k \in tag_matches(All, i) : j = k
<1>1. /\ DOMAIN topic.assets = 1 .. Len(topic.assets)
      /\ DOMAIN topic.comps = 1 .. Len(topic.comps)
      /\ DOMAIN topic.tags = 1 .. Len(topic.tags)
  <2>1. \A q \in Sources : topic[q] \in Seq(Range(topic[q]))
    BY TopicsAssumption
  <2> QED
    BY <2>1 DEF Sources
<1>2. /\ All.assets = Len(topic.assets) /\ All.comps = Len(topic.comps)
      /\ All.tags = Len(topic.tags)
  BY DEF All, Sources
<1>3. ASSUME NEW i, NEW j \in tag_matches(All, i), NEW k \in tag_matches(All, i)
      PROVE  j = k
  <2>1. /\ j \in DOMAIN topic.tags /\ k \in DOMAIN topic.tags
        /\ topic.tags[j].tag_id = topic.tags[k].tag_id
    BY <1>1, <1>2 DEF tag_matches
  <2> QED
    BY <2>1 DEF OneRowPerKey
<1>4. ASSUME NEW j \in matches(s, r, All), NEW k \in matches(s, r, All)
      PROVE  j = k
  <2>0. fits(s, r, j) /\ fits(s, r, k) /\ j \in 1 .. All[s] /\ k \in 1 .. All[s]
    BY DEF matches
  <2>1. CASE s = "assets"
    <3>1. /\ j \in DOMAIN topic.assets /\ k \in DOMAIN topic.assets
          /\ topic.assets[j].asset_id = topic.assets[k].asset_id
      BY <1>1, <1>2, <2>0, <2>1 DEF fits
    <3> QED
      BY <3>1 DEF OneRowPerKey
  <2>2. CASE s = "comps"
    <3>1. /\ j \in DOMAIN topic.comps /\ k \in DOMAIN topic.comps
          /\ topic.comps[j].asset_id = topic.comps[k].asset_id
          /\ topic.comps[j].component_id = topic.comps[k].component_id
      BY <1>1, <1>2, <2>0, <2>2 DEF fits
    <3> QED
      BY <3>1 DEF OneRowPerKey
  <2> QED
    BY <2>1, <2>2 DEF Lookups
<1> QED
  BY <1>3, <1>4

\* A part of a set a queue may stand for is one, too.
LEMMA PartOfSets ==
    ASSUME NEW q, NEW X \in SetsOf(q)
    PROVE  /\ \A Y : Y \subseteq X => Y \in SetsOf(q)
           /\ X \subseteq Stage(q) /\ X \subseteq Candidates
BY DEF SetsOf, OneEach, Stage

\* What a join puts out for a row.
LEMMA LookedUpIs ==
    ASSUME topic \in Topics, NEW n, ReadOf(n), NEW s \in Lookups, NEW r \in Stage(s)
    PROVE  /\ looked_up(s, r, n) \subseteq Stage(after(s))
           /\ looked_up(s, r, n) \subseteq Candidates
           /\ looked_up(s, r, n) # {}
           /\ \A x \in looked_up(s, r, n) :
                  x.raw = r.raw /\ x.tags = r.tags /\ [x EXCEPT ![s] = 0] = r
           /\ OneRowPerKey => \A x, y \in looked_up(s, r, n) : x = y
           /\ \A x \in looked_up(s, r, n) :
                  columns(x).event_id = topic.raw[r.raw].event_id
<1>1. ASSUME NEW x \in looked_up(s, r, n)
      PROVE  /\ x \in Stage(after(s)) /\ x \in Candidates
             /\ x.raw = r.raw /\ x.tags = r.tags /\ [x EXCEPT ![s] = 0] = r
             /\ columns(x).event_id = topic.raw[r.raw].event_id
  <2>1. PICK k \in OrNull(matches(s, r, n)) : x = [r EXCEPT ![s] = k]
    BY DEF looked_up
  <2>2. k \in 0 .. Len(topic[s])
    BY MatchesIn
  <2> DEFINE y == [r EXCEPT ![s] = k]
  <2>3. /\ y \in Stage(after(s)) /\ y \in Candidates
        /\ y.raw = r.raw /\ y.tags = r.tags /\ [y EXCEPT ![s] = 0] = r
        /\ columns(y).event_id = topic.raw[r.raw].event_id
    BY <2>2, RowWithPlace
  <2>4. x = y
    BY <2>1
  <2> HIDE DEF y
  <2> QED
    BY <2>3, <2>4
<1>2. ASSUME OneRowPerKey, NEW x \in looked_up(s, r, n), NEW y \in looked_up(s, r, n)
      PROVE  x = y
  <2>1. \A j, k \in OrNull(matches(s, r, n)) : j = k
    BY <1>2, OneMatch, MatchesIn DEF OrNull
  <2> QED
    BY <2>1 DEF looked_up
<1>3. looked_up(s, r, n) # {}
  BY DEF looked_up, OrNull
<1> QED
  BY <1>1, <1>2, <1>3

\* What a join makes of its left rows.
LEMMA JoinedIs ==
    ASSUME topic \in Topics, NEW n, ReadOf(n), NEW s \in Lookups, NEW X \in SetsOf(s)
    PROVE  joined(s, X, n) \in SetsOf(after(s))
<1>1. X \subseteq Stage(s)
  BY PartOfSets
<1>2. \A r \in X : looked_up(s, r, n) \subseteq Stage(after(s))
  BY <1>1, LookedUpIs
<1>3. joined(s, X, n) \subseteq Stage(after(s))
  BY <1>2 DEF joined
<1>4. ASSUME OneRowPerKey, NEW x \in joined(s, X, n), NEW y \in joined(s, X, n),
             x.raw = y.raw
      PROVE  x = y
  <2>1. PICK a \in X : x \in looked_up(s, a, n)
    BY DEF joined
  <2>2. PICK b \in X : y \in looked_up(s, b, n)
    BY DEF joined
  <2>3. a \in Stage(s) /\ b \in Stage(s)
    BY <1>1
  <2>4. x.raw = a.raw /\ y.raw = b.raw
    BY <2>1, <2>2, <2>3, LookedUpIs
  <2>5. a = b
    BY <1>4, <2>4 DEF SetsOf, OneEach
  <2> QED
    BY <1>4, <2>1, <2>2, <2>3, <2>5, LookedUpIs
<1> QED
  BY <1>3, <1>4 DEF SetsOf, OneEach

\* The rows that are put out or withdrawn with a left row.
LEMMA JoinedWith ==
    ASSUME topic \in Topics, NEW n, ReadOf(n), NEW s \in Lookups, NEW X \in SetsOf(s),
           NEW r \in Stage(s)
    PROVE  /\ r \notin X =>
                  /\ looked_up(s, r, n) \intersect joined(s, X, n) = {}
                  /\ joined(s, X \union {r}, n) = joined(s, X, n) \union looked_up(s, r, n)
           /\ r \in X =>
                  /\ looked_up(s, r, n) \subseteq joined(s, X, n)
                  /\ joined(s, X \ {r}, n) = joined(s, X, n) \ looked_up(s, r, n)
<1>1. X \subseteq Stage(s)
  BY PartOfSets
<1>2. ASSUME NEW a \in Stage(s), NEW b \in Stage(s), NEW x,
             x \in looked_up(s, a, n), x \in looked_up(s, b, n)
      PROVE  a = b
  <2>1. [x EXCEPT ![s] = 0] = a
    BY <1>2, LookedUpIs
  <2>2. [x EXCEPT ![s] = 0] = b
    BY <1>2, LookedUpIs
  <2> QED
    BY <2>1, <2>2
<1>3. \A x : \A Y : x \in joined(s, Y, n) <=> \E a \in Y : x \in looked_up(s, a, n)
  BY DEF joined
<1>4. ASSUME r \notin X
      PROVE  /\ looked_up(s, r, n) \intersect joined(s, X, n) = {}
             /\ joined(s, X \union {r}, n) = joined(s, X, n) \union looked_up(s, r, n)
  <2>1. looked_up(s, r, n) \intersect joined(s, X, n) = {}
    <3> SUFFICES ASSUME NEW x \in looked_up(s, r, n), x \in joined(s, X, n)
                 PROVE  FALSE
      OBVIOUS
    <3>1. PICK a \in X : x \in looked_up(s, a, n)
      BY <1>3
    <3>2. a \in Stage(s)
      BY <1>1
    <3> QED
      BY <1>2, <1>4, <3>1, <3>2
  <2>2. \A x : x \in joined(s, X \union {r}, n)
                  <=> x \in joined(s, X, n) \/ x \in looked_up(s, r, n)
    BY <1>3
  <2> QED
    BY <2>1, <2>2
<1>5. ASSUME r \in X
      PROVE  /\ looked_up(s, r, n) \subseteq joined(s, X, n)
             /\ joined(s, X \ {r}, n) = joined(s, X, n) \ looked_up(s, r, n)
  <2>1. \A x : x \in looked_up(s, r, n) => x \in joined(s, X, n)
    BY <1>3, <1>5
  <2>2. ASSUME NEW x
        PROVE  x \in joined(s, X \ {r}, n)
                  <=> x \in joined(s, X, n) /\ x \notin looked_up(s, r, n)
    <3>1. ASSUME x \in joined(s, X \ {r}, n)
          PROVE  x \in joined(s, X, n) /\ x \notin looked_up(s, r, n)
      <4>1. PICK a \in X \ {r} : x \in looked_up(s, a, n)
        BY <1>3, <3>1
      <4>2. a \in Stage(s) /\ a # r
        BY <1>1
      <4> QED
        BY <1>2, <1>3, <4>1, <4>2
    <3>2. ASSUME x \in joined(s, X, n), x \notin looked_up(s, r, n)
          PROVE  x \in joined(s, X \ {r}, n)
      <4>1. PICK a \in X : x \in looked_up(s, a, n)
        BY <1>3, <3>2
      <4>2. a \in X \ {r}
        BY <3>2, <4>1
      <4> QED
        BY <1>3, <4>1, <4>2
    <3> QED
      BY <3>1, <3>2
  <2> QED
    BY <2>1, <2>2
<1> QED
  BY <1>4, <1>5

\* A join depends on the rows read of its own table only.
LEMMA JoinedSame ==
    ASSUME NEW s, NEW X, NEW m, NEW n, m[s] = n[s]
    PROVE  joined(s, X, m) = joined(s, X, n)
BY DEF joined, looked_up, matches

\* The first join.
LEMMA TaggedIs ==
    ASSUME topic \in Topics, NEW n, ReadOf(n)
    PROVE  tagged(n) \in SetsOf("assets")
<1>1. /\ n.raw \in Nat /\ n.tags \in Nat
      /\ n.raw <= Len(topic.raw) /\ n.tags <= Len(topic.tags)
      /\ Len(topic.raw) \in Nat /\ Len(topic.tags) \in Nat
      /\ Len(topic.assets) \in Nat /\ Len(topic.comps) \in Nat
      /\ All.tags = Len(topic.tags)
  BY TopicLengths DEF ReadOf, Sources, All
<1>2. ASSUME NEW t \in tagged(n)
      PROVE  /\ t \in Stage("assets") /\ t.tags \in tag_matches(All, t.raw)
             /\ t = Tagged(t.raw, t.tags)
  <2>1. PICK i \in 1 .. n.raw : \E j \in tag_matches(n, i) : t = Tagged(i, j)
    BY DEF tagged
  <2>2. PICK j \in tag_matches(n, i) : t = Tagged(i, j)
    BY <2>1
  <2>3. /\ i \in 1 .. Len(topic.raw) /\ j \in 1 .. Len(topic.tags)
        /\ j \in tag_matches(All, i)
    BY <1>1, <2>1, <2>2 DEF tag_matches
  <2>4. t.raw = i /\ t.tags = j /\ t.assets = 0 /\ t.comps = 0
    BY <2>2 DEF Tagged
  <2>5. t \in Places4
    BY <1>1, <2>2, <2>3 DEF Places4, Tagged
  <2> QED
    BY <2>2, <2>3, <2>4, <2>5 DEF Stage, Candidates
<1>3. ASSUME OneRowPerKey, NEW s \in tagged(n), NEW t \in tagged(n), s.raw = t.raw
      PROVE  s = t
  <2>1. "assets" \in Lookups
    BY DEF Lookups
  <2>2. s.tags = t.tags
    BY <1>2, <1>3, <2>1, OneMatch
  <2> QED
    BY <1>2, <1>3, <2>2
<1> QED
  BY <1>2, <1>3 DEF SetsOf, OneEach

\* It grows with what has been read.
LEMMA TaggedGrows ==
    ASSUME topic \in Topics, NEW m, ReadOf(m), NEW n, ReadOf(n),
           m.raw <= n.raw, m.tags <= n.tags
    PROVE  tagged(m) \subseteq tagged(n)
<1>1. /\ m.raw \in Nat /\ m.tags \in Nat /\ n.raw \in Nat /\ n.tags \in Nat
  BY DEF ReadOf, Sources
<1>2. \A i : tag_matches(m, i) \subseteq tag_matches(n, i)
  BY <1>1 DEF tag_matches
<1>3. \A i : i \in 1 .. m.raw => i \in 1 .. n.raw
  BY <1>1
<1> QED
  BY <1>2, <1>3 DEF tagged

\* Nothing is tagged before a row was read.
LEMMA NothingRead ==
    ASSUME topic \in Topics
    PROVE  /\ tagged(NotRead) = {} /\ ReadOf(NotRead)
           /\ \A s, n : joined(s, {}, n) = {}
           /\ \A q : {} \in SetsOf(q)
<1>1. 1 .. NotRead.raw = {}
  BY DEF NotRead, Sources
<1>2. tagged(NotRead) = {}
  BY <1>1 DEF tagged
<1>3. ReadOf(NotRead)
  BY TopicLengths DEF ReadOf, NotRead
<1> QED
  BY <1>2, <1>3 DEF joined, SetsOf, OneEach

-----------------------------------------------------------------------------
(* The staging topic as a table.                                           *)

KeyOf(r) == IF r.op = "upsert" THEN r.row.event_id ELSE r.event_id
KeyPlaces(st, e) == { k \in 1 .. Len(st) : e = KeyOf(st[k]) }
LastRecord(st, e) ==
    IF KeyPlaces(st, e) = {} THEN Tombstone([ event_id |-> e ])
    ELSE st[Max(KeyPlaces(st, e))]

\* The row of an event is the last record with its key.
LEMMA CurrentRowIs ==
    ASSUME NEW e, staging \in Seq(Record), staging' \in Seq(Record)'
    PROVE  /\ CurrentRow(e) = LastRecord(staging, e)
           /\ CurrentRow(e)' = LastRecord(staging', e)
<1> DEFINE n(st) == IF KeyPlaces(st, e) # {} THEN Max(KeyPlaces(st, e)) ELSE 0
<1>1. /\ CurrentRow(e) = IF n(staging) = 0 THEN Tombstone([ event_id |-> e ])
                                            ELSE staging[n(staging)]
      /\ CurrentRow(e)' = IF n(staging') = 0 THEN Tombstone([ event_id |-> e ])
                                             ELSE staging'[n(staging')]
  BY DEF CurrentRow, SelectLastInSeq, KeyPlaces, KeyOf, Tombstone
<1>2. ASSUME NEW st, Len(st) \in Nat
      PROVE  KeyPlaces(st, e) # {} => Max(KeyPlaces(st, e)) # 0
  <2>1. KeyPlaces(st, e) \in SUBSET (1 .. Len(st))
    BY DEF KeyPlaces
  <2>2. KeyPlaces(st, e) # {} => Max(KeyPlaces(st, e)) \in KeyPlaces(st, e)
    BY <1>2, <2>1, GreatestUpTo
  <2> QED
    BY <2>1, <2>2
<1>3. Len(staging) \in Nat /\ Len(staging') \in Nat
  OBVIOUS
<1> QED
  BY <1>1, <1>2, <1>3 DEF LastRecord

\* A record written replaces the row of its event and of no other.
LEMMA LastRecordOfAppend ==
    ASSUME NEW S, NEW st \in Seq(S), NEW y \in S, NEW e
    PROVE  LastRecord(Append(st, y), e) = IF e = KeyOf(y) THEN y ELSE LastRecord(st, e)
<1> DEFINE n == Len(st)
           longer == Append(st, y)
<1>1. /\ n \in Nat /\ Len(longer) = n + 1 /\ longer[n + 1] = y
      /\ \A k \in 1 .. n : longer[k] = st[k]
  OBVIOUS
<1> HIDE DEF longer
<1>2. KeyPlaces(st, e) \subseteq 1 .. n
  BY DEF KeyPlaces
<1>3. \A k : k \in KeyPlaces(longer, e)
                 <=> k \in KeyPlaces(st, e) \/ (k = n + 1 /\ e = KeyOf(y))
  <2>1. \A k : k \in 1 .. n + 1 <=> k \in 1 .. n \/ k = n + 1
    BY <1>1
  <2>2. n + 1 \notin 1 .. n
    BY <1>1
  <2>3. \A k : k \in KeyPlaces(longer, e) <=> k \in 1 .. n + 1 /\ e = KeyOf(longer[k])
    BY <1>1 DEF KeyPlaces
  <2>4. \A k : k \in KeyPlaces(st, e) <=> k \in 1 .. n /\ e = KeyOf(st[k])
    BY DEF KeyPlaces
  <2> HIDE DEF n
  <2> QED
    BY <1>1, <2>1, <2>2, <2>3, <2>4
<1> HIDE DEF n
<1>4. CASE e = KeyOf(y)
  <2>1. n + 1 \in KeyPlaces(longer, e)
    BY <1>3, <1>4
  <2>2. KeyPlaces(longer, e) \in SUBSET (1 .. n + 1)
    BY <1>1, <1>2, <1>3
  <2>3. Max(KeyPlaces(longer, e)) = n + 1
    <3>1. /\ Max(KeyPlaces(longer, e)) \in 1 .. n + 1
          /\ n + 1 <= Max(KeyPlaces(longer, e))
      <4>1. n + 1 \in Nat /\ KeyPlaces(longer, e) # {}
        BY <1>1, <2>1
      <4>2. /\ Max(KeyPlaces(longer, e)) \in KeyPlaces(longer, e)
            /\ \A m \in KeyPlaces(longer, e) : m <= Max(KeyPlaces(longer, e))
        BY <2>2, <4>1, GreatestUpTo
      <4> QED
        BY <2>1, <2>2, <4>2
    <3> QED
      BY <1>1, <3>1
  <2> QED
    BY <1>1, <1>4, <2>1, <2>3 DEF LastRecord, longer
<1>5. CASE e # KeyOf(y)
  <2>1. KeyPlaces(longer, e) = KeyPlaces(st, e)
    BY <1>3, <1>5
  <2>2. KeyPlaces(st, e) # {} => Max(KeyPlaces(st, e)) \in 1 .. n
    <3>1. KeyPlaces(st, e) \in SUBSET (1 .. n)
      BY <1>2
    <3> QED
      BY <1>1, <1>2, <3>1, GreatestUpTo
  <2> QED
    BY <1>1, <1>5, <2>1, <2>2 DEF LastRecord, longer
<1> QED
  BY <1>4, <1>5

\* A step that writes no record leaves the row of every event.
LEMMA CurrentRowSame ==
    ASSUME staging \in Seq(Record), staging' = staging, Record' = Record, NEW e
    PROVE  CurrentRow(e)' = CurrentRow(e)
BY CurrentRowIs

\* The same of the staging topic.
LEMMA CurrentRowOfAppend ==
    ASSUME staging \in Seq(Record), NEW y \in Record, staging' = Append(staging, y),
           Record' = Record, NEW e
    PROVE  CurrentRow(e)' = IF e = KeyOf(y) THEN y ELSE CurrentRow(e)
<1>1. staging' \in Seq(Record)'
  OBVIOUS
<1>2. LastRecord(staging', e) = IF e = KeyOf(y) THEN y ELSE LastRecord(staging, e)
  BY LastRecordOfAppend
<1> QED
  BY <1>1, <1>2, CurrentRowIs


-----------------------------------------------------------------------------
(* The invariant.                                                          *)

\* What is said of the topics stays the same, as they do.
LEMMA SameTopics ==
    ASSUME topic' = topic
    PROVE  /\ Candidates' = Candidates /\ PartRows' = PartRows
           /\ EventIds' = EventIds /\ Change' = Change /\ Record' = Record
           /\ Breaches' = Breaches /\ All' = All
           /\ \A e : RowsOf(e)' = RowsOf(e)
           /\ \A q : SetsOf(q)' = SetsOf(q)
           /\ \A X, row : With(X, row)' = With(X, row)
           /\ OneRowPerKey' = OneRowPerKey
<1>1. \A t : columns(t)' = columns(t)
  BY DEF columns
<1>2. All' = All /\ EventIds' = EventIds
  BY DEF All, EventIds
<1>3. Candidates' = Candidates
  BY <1>2 DEF Candidates, Places4, tag_matches
<1>4. PartRows' = PartRows
  BY <1>1, <1>3 DEF PartRows
<1>5. /\ Change' = Change /\ Record' = Record
      /\ Breaches' = Breaches /\ \A e : RowsOf(e)' = RowsOf(e)
  BY <1>2, <1>3, <1>4 DEF Change, Record, Breaches, RowsOf
<1>6. OneRowPerKey' = OneRowPerKey
  BY DEF OneRowPerKey
<1>7. \A q : SetsOf(q)' = SetsOf(q)
  BY <1>3, <1>6 DEF SetsOf, Stage
<1>8. \A X, row : With(X, row)' = With(X, row)
  BY <1>1 DEF With
<1> QED
  BY <1>2, <1>3, <1>4, <1>5, <1>6, <1>7, <1>8

\* What the queues have to show after a step.
LEMMA QueuesLeadNext ==
    ASSUME topic' = topic,
           Leads(SetsOf("assets"), left'.assets, queue'.assets, tagged(read')),
           Leads(SetsOf("comps"), left'.comps, queue'.comps,
                 joined("assets", left'.assets, read')),
           NEW X \in SetsOf("sink"),
           \A row \in PartRows :
               Count(kept'[row.event_id], row) = Cardinality(With(X, row)),
           Leads(SetsOf("sink"), X, queue'.sink, joined("comps", left'.comps, read'))
    PROVE  QueuesLead'
<1>1. tagged(read)' = tagged(read')
  BY DEF tagged, tag_matches, Tagged
<1>2. /\ joined("assets", left.assets, read)' = joined("assets", left'.assets, read')
      /\ joined("comps", left.comps, read)' = joined("comps", left'.comps, read')
  BY DEF joined, looked_up, matches, fits
<1>3. Keeps(X)'
  BY SameTopics DEF Keeps
<1>4. X \in SetsOf("sink")'
  BY SameTopics
<1>5. /\ Leads(SetsOf("assets"), left.assets, queue.assets, tagged(read))'
      /\ Leads(SetsOf("comps"), left.comps, queue.comps,
               joined("assets", left.assets, read))'
      /\ Leads(SetsOf("sink"), X, queue.sink, joined("comps", left.comps, read))'
  BY <1>1, <1>2, SameTopics DEF Leads
<1> QED
  BY <1>3, <1>4, <1>5 DEF QueuesLead

\* The steps of the joins leave the sink and all behind it alone.
LEMMA JoinStep ==
    ASSUME PipelineInv, UNCHANGED <<topic, kept, staging, scanned, mart>>,
           ReadOf(read'), left' \in [Lookups -> SUBSET Candidates],
           queue' \in [Queues -> Seq(Change)], QueuesLead'
    PROVE  PipelineInv'
<1>0. PipelineTypeOK
  BY DEF PipelineInv
<1>1. PipelineTypeOK'
  BY <1>0, SameTopics DEF PipelineTypeOK, ReadOf
<1>2. LastKeptWritten'
  <2>1. \A e : CurrentRow(e)' = CurrentRow(e)
    BY <1>0, SameTopics, CurrentRowSame DEF PipelineTypeOK
  <2> QED
    BY <1>0, <2>1, SameTopics DEF PipelineInv, LastKeptWritten, Upsert
<1> QED
  BY <1>1, <1>2 DEF PipelineInv

\* Nothing is counted in the empty sequence.
LEMMA EmptyCount ==
    ASSUME NEW x
    PROVE  Count(<<>>, x) = 0
<1>1. Places(<<>>, x) = {}
  BY DEF Places
<1> QED
  BY <1>1, FS_EmptySet DEF Count

\* The empty pipeline: at the start and when the job is submitted again.
LEMMA EmptyPipeline ==
    ASSUME topic \in Topics
    PROVE  /\ NotRead \in [Sources -> Nat] /\ \A s \in Sources : NotRead[s] <= Len(topic[s])
           /\ NoRows \in [Lookups -> SUBSET Candidates]
           /\ NoQueue \in [Queues -> Seq(Change)]
           /\ [e \in EventIds |-> <<>>] \in [EventIds -> Seq(PartRows)]
           /\ Leads(SetsOf("assets"), NoRows.assets, NoQueue.assets, tagged(NotRead))
           /\ Leads(SetsOf("comps"), NoRows.comps, NoQueue.comps,
                    joined("assets", NoRows.assets, NotRead))
           /\ Leads(SetsOf("sink"), {}, NoQueue.sink,
                    joined("comps", NoRows.comps, NotRead))
           /\ {} \in SetsOf("sink")
           /\ \A row : Cardinality(With({}, row)) = 0
<1>1. /\ NoRows.assets = {} /\ NoRows.comps = {}
      /\ NoQueue.assets = <<>> /\ NoQueue.comps = <<>> /\ NoQueue.sink = <<>>
  BY DEF NoRows, NoQueue, Lookups
<1>2. /\ NoRows \in [Lookups -> SUBSET Candidates]
      /\ NoQueue \in [Queues -> Seq(Change)]
      /\ [e \in EventIds |-> <<>>] \in [EventIds -> Seq(PartRows)]
  BY DEF NoRows, NoQueue, Queues
<1>3. \A q : Leads(SetsOf(q), {}, <<>>, {})
  BY NothingRead, LeadsNone
<1>4. \A row : Cardinality(With({}, row)) = 0
  <2>1. \A row : With({}, row) = {}
    BY DEF With
  <2> QED
    BY <2>1, FS_EmptySet
<1> QED
  BY <1>1, <1>2, <1>3, <1>4, NothingRead DEF ReadOf

\* Nothing is read, changed or written at the start.
LEMMA PipelineInit ==
    ASSUME Init
    PROVE  PipelineInv
<1>0. topic \in Topics /\ read = NotRead /\ left = NoRows /\ queue = NoQueue
      /\ kept = [e \in EventIds |-> <<>>] /\ staging = <<>> /\ scanned = 0 /\ mart = <<>>
  BY DEF Init
<1>1. PipelineTypeOK
  BY <1>0, EmptyPipeline DEF PipelineTypeOK
<1>2. Keeps({})
  BY <1>0, EmptyPipeline, EmptyCount, PartRowEvent DEF Keeps
<1>3. QueuesLead
  BY <1>0, <1>2, EmptyPipeline DEF QueuesLead
<1>4. LastKeptWritten
  BY <1>0 DEF LastKeptWritten
<1> QED
  BY <1>1, <1>3, <1>4 DEF PipelineInv

\* A queue with changes put at its end.
LEMMA PutIs ==
    ASSUME NEW Q \in [Queues -> Seq(Change)], NEW s \in Queues, NEW out \in Seq(Change)
    PROVE  /\ Put(Q, s, out) \in [Queues -> Seq(Change)]
           /\ \A q \in Queues : Put(Q, s, out)[q] = IF q = s THEN Q[q] \o out ELSE Q[q]
BY DEF Put

\* One row more of a topic.
LEMMA OneMoreRead ==
    ASSUME topic \in Topics, ReadOf(read), NEW s \in Sources, read[s] < Len(topic[s]),
           read' = [read EXCEPT ![s] = @ + 1]
    PROVE  /\ ReadOf(read') /\ read'[s] = read[s] + 1 /\ read[s] \in Nat
           /\ \A q \in Sources : q # s => read'[q] = read[q]
           /\ read[s] + 1 \in 1 .. Len(topic[s])
<1>1. Len(topic[s]) \in Nat /\ read \in [Sources -> Nat]
  BY TopicLengths DEF ReadOf
<1> QED
  BY <1>1 DEF ReadOf

\* The first join puts out what is tagged with the row read.
LEMMA ReadFirstKeepsInv ==
    ASSUME PipelineInv, NEW s \in {"raw", "tags"}, ReadFirst(s)
    PROVE  PipelineInv'
<1>0. /\ PipelineTypeOK /\ QueuesLead /\ topic \in Topics /\ ReadOf(read)
      /\ queue \in [Queues -> Seq(Change)] /\ s \in Sources
  BY DEF PipelineInv, PipelineTypeOK, ReadOf, Sources
<1>1. /\ read[s] < Len(topic[s]) /\ read' = [read EXCEPT ![s] = @ + 1]
      /\ UNCHANGED <<topic, left, kept, staging, scanned, mart>>
  BY DEF ReadFirst, anomaly
<1> DEFINE new == tagged(read') \ tagged(read)
<1>2. PICK out \in Changes("+I", new) : queue' = Put(queue, "assets", out)
  BY DEF ReadFirst
<1>3. /\ ReadOf(read') /\ read'.assets = read.assets /\ read'.comps = read.comps
      /\ read.raw <= read'.raw /\ read.tags <= read'.tags
  <2>1. /\ ReadOf(read') /\ read'[s] = read[s] + 1 /\ read[s] \in Nat
        /\ \A q \in Sources : q # s => read'[q] = read[q]
    BY <1>0, <1>1, OneMoreRead
  <2>2. read.raw \in Nat /\ read.tags \in Nat
    BY <1>0 DEF ReadOf, Sources
  <2> QED
    BY <2>1, <2>2 DEF Sources
<1>4. /\ tagged(read') \in SetsOf("assets") /\ tagged(read) \subseteq tagged(read')
      /\ new \subseteq tagged(read')
      /\ tagged(read) \union new = tagged(read')
  BY <1>0, <1>3, TaggedIs, TaggedGrows
<1>5. new \in SUBSET Candidates /\ IsFiniteSet(new)
  BY <1>0, <1>4, PartOfSets, CandidatesFinite
<1>6. out \in Seq(Change)
  BY <1>5, ChangesType
<1>7. new \intersect tagged(read) = {}
  OBVIOUS
<1> HIDE DEF new
<1>8. \A Y : tagged(read) \subseteq Y /\ Y \subseteq tagged(read) \union new
                 => Y \in SetsOf("assets")
  BY <1>4, PartOfSets
<1>9. Leads(SetsOf("assets"), tagged(read), out, tagged(read'))
  BY <1>4, <1>5, <1>7, <1>8, LeadsByAdded
<1>10. /\ queue' \in [Queues -> Seq(Change)] /\ queue'.assets = queue.assets \o out
       /\ queue'.comps = queue.comps /\ queue'.sink = queue.sink
       /\ queue.assets \in Seq(Change)
  <2>1. "assets" \in Queues /\ "comps" \in Queues /\ "sink" \in Queues
    BY DEF Queues, Lookups
  <2>2. /\ queue' \in [Queues -> Seq(Change)]
        /\ \A q \in Queues : queue'[q] = IF q = "assets" THEN queue[q] \o out ELSE queue[q]
    BY <1>0, <1>2, <1>6, <2>1, PutIs
  <2> QED
    BY <1>0, <2>1, <2>2
<1>11. Leads(SetsOf("assets"), left'.assets, queue'.assets, tagged(read'))
  <2>1. Leads(SetsOf("assets"), left.assets, queue.assets, tagged(read))
    BY <1>0 DEF QueuesLead
  <2>2. Leads(SetsOf("assets"), left.assets, queue.assets \o out, tagged(read'))
    BY <1>6, <1>9, <1>10, <2>1, LeadsConcat
  <2> QED
    BY <1>1, <1>10, <2>2
<1>12. /\ joined("assets", left'.assets, read') = joined("assets", left.assets, read)
       /\ joined("comps", left'.comps, read') = joined("comps", left.comps, read)
  BY <1>1, <1>3, JoinedSame
<1>13. QueuesLead'
  BY <1>0, <1>1, <1>10, <1>11, <1>12, QueuesLeadNext DEF QueuesLead, Keeps
<1> QED
  BY <1>0, <1>1, <1>3, <1>10, <1>13, JoinStep DEF PipelineTypeOK

\* What stands before a later join: what the join before it has put out.
Before(s) == IF s = "assets" THEN tagged(read) ELSE joined("assets", left.assets, read)

\* The change a later join takes and what it puts out for it.
LEMMA LeftTaken ==
    ASSUME PipelineInv, NEW s \in Lookups, TakeLeft(s)
    PROVE  LET c == Head(queue[s]) IN
           /\ c \in Change /\ c.row \in Stage(s) /\ Admits(left[s], c)
           /\ left[s] \in SetsOf(s) /\ left'[s] \in SetsOf(s)
           /\ left' = [left EXCEPT ![s] = Applied(left[s], c)]
           /\ Leads(SetsOf(s), left'[s], Tail(queue[s]), Before(s))
           /\ \E out \in Changes(c.op, looked_up(s, c.row, read)) :
                  /\ queue' = Put([queue EXCEPT ![s] = Tail(@)], after(s), out)
                  /\ out \in Seq(Change)
                  /\ Leads(SetsOf(after(s)), joined(s, left[s], read), out,
                           joined(s, left'[s], read))
<1>2. PICK out \in Changes(Head(queue[s]).op, looked_up(s, Head(queue[s]).row, read)) :
          queue' = Put([queue EXCEPT ![s] = Tail(@)], after(s), out)
  BY Zenon DEF TakeLeft
<1> DEFINE c == Head(queue[s])
           L == looked_up(s, c.row, read)
<1>0. /\ PipelineTypeOK /\ QueuesLead /\ topic \in Topics /\ ReadOf(read)
      /\ queue \in [Queues -> Seq(Change)] /\ s \in Queues
      /\ left \in [Lookups -> SUBSET Candidates]
  BY DEF PipelineInv, PipelineTypeOK, ReadOf, Queues
<1>1. /\ queue[s] # <<>> /\ queue[s] \in Seq(Change)
      /\ left' = [left EXCEPT ![s] = Applied(left[s], c)]
  BY <1>0 DEF TakeLeft, Applied
<1>3. c \in Change /\ c.op \in {"-D", "+I"} /\ c.row \in Candidates
  <2>1. c \in Change
    BY <1>1
  <2> HIDE DEF c
  <2> QED
    BY <2>1 DEF Change
<1>4. Leads(SetsOf(s), left[s], queue[s], Before(s))
  BY <1>0 DEF QueuesLead, Before, Lookups
<1>5. /\ left'[s] = Applied(left[s], c)
  BY <1>0, <1>1
<1> HIDE DEF c, L
<1>6. /\ Admits(left[s], c) /\ Applied(left[s], c) \in SetsOf(s) /\ left[s] \in SetsOf(s)
      /\ Leads(SetsOf(s), left'[s], Tail(queue[s]), Before(s))
  BY <1>1, <1>4, <1>5, LeadsHead, LeadsTypes DEF c
<1>7. c.row \in Stage(s)
  <2>1. \A X \in SetsOf(s) : X \subseteq Stage(s)
    BY PartOfSets
  <2>2. c.row \in left[s] \/ c.row \in Applied(left[s], c)
    BY <1>6 DEF Admits, Applied
  <2> QED
    BY <1>6, <2>1, <2>2
<1>8. L \subseteq Candidates /\ IsFiniteSet(L)
  BY <1>0, <1>7, LookedUpIs, CandidatesFinite DEF L
<1>9. out \in Changes(c.op, L) /\ out \in Seq(Change)
  <2>1. out \in Changes(c.op, L)
    BY DEF c, L
  <2> QED
    BY <1>3, <1>8, <2>1, ChangesType
<1> DEFINE old == joined(s, left[s], read)
           now == joined(s, left'[s], read)
<1>10. old \in SetsOf(after(s)) /\ now \in SetsOf(after(s))
  BY <1>0, <1>5, <1>6, JoinedIs
<1>11. Leads(SetsOf(after(s)), old, out, now)
  <2>1. CASE c.op = "+I"
    <3>1. c.row \notin left[s] /\ left'[s] = left[s] \union {c.row}
      BY <1>5, <1>6, <2>1 DEF Admits, Applied
    <3>2. L \intersect old = {} /\ now = old \union L
      BY <1>0, <1>6, <1>7, <3>1, JoinedWith DEF L
    <3> HIDE DEF old, now
    <3>3. \A Y : old \subseteq Y /\ Y \subseteq old \union L => Y \in SetsOf(after(s))
      BY <1>10, <3>2, PartOfSets
    <3> QED
      BY <1>8, <1>9, <2>1, <3>2, <3>3, LeadsByAdded
  <2>2. CASE c.op = "-D"
    <3>1. c.row \in left[s] /\ left'[s] = left[s] \ {c.row}
      BY <1>5, <1>6, <2>2 DEF Admits, Applied
    <3>2. L \subseteq old /\ now = old \ L
      BY <1>0, <1>6, <1>7, <3>1, JoinedWith DEF L
    <3> HIDE DEF old, now
    <3>3. \A Y : Y \subseteq old => Y \in SetsOf(after(s))
      BY <1>10, PartOfSets
    <3> QED
      BY <1>8, <1>9, <2>2, <3>2, <3>3, LeadsByWithdrawn
  <2> QED
    BY <1>3, <2>1, <2>2
<1> QED
  BY <1>1, <1>2, <1>3, <1>5, <1>6, <1>7, <1>9, <1>11 DEF c, L

\* What is read and kept makes up the queues after a change was taken.
LEMMA TakeLeftKeepsInv ==
    ASSUME PipelineInv, NEW s \in Lookups, TakeLeft(s)
    PROVE  PipelineInv'
<1> DEFINE c == Head(queue[s])
<1>0. /\ PipelineTypeOK /\ QueuesLead /\ topic \in Topics /\ ReadOf(read)
      /\ queue \in [Queues -> Seq(Change)] /\ s \in Queues
      /\ left \in [Lookups -> SUBSET Candidates]
      /\ UNCHANGED <<topic, read, kept, staging, scanned, mart>> /\ queue[s] # <<>>
  BY DEF PipelineInv, PipelineTypeOK, ReadOf, Queues, TakeLeft, anomaly
<1>1. /\ left'[s] \in SetsOf(s)
      /\ left' = [left EXCEPT ![s] = Applied(left[s], c)]
      /\ Leads(SetsOf(s), left'[s], Tail(queue[s]), Before(s))
  BY LeftTaken
<1>2. PICK out \in Changes(c.op, looked_up(s, c.row, read)) :
          /\ queue' = Put([queue EXCEPT ![s] = Tail(@)], after(s), out)
          /\ out \in Seq(Change)
          /\ Leads(SetsOf(after(s)), joined(s, left[s], read), out,
                   joined(s, left'[s], read))
  BY LeftTaken
<1> HIDE DEF c
<1>3. /\ left' \in [Lookups -> SUBSET Candidates]
      /\ \A q \in Lookups : q # s => left'[q] = left[q]
  <2>1. left'[s] \in SUBSET Candidates
    BY <1>1, PartOfSets
  <2> QED
    BY <1>0, <1>1, <2>1
<1>4. /\ "assets" \in Queues /\ "comps" \in Queues /\ "sink" \in Queues
      /\ "assets" \in Lookups /\ "comps" \in Lookups
      /\ after(s) \in Queues /\ after(s) # s
  BY DEF Queues, Lookups, after
<1>5. /\ queue' \in [Queues -> Seq(Change)]
      /\ queue'[s] = Tail(queue[s]) /\ queue'[after(s)] = queue[after(s)] \o out
      /\ \A q \in Queues : q # s /\ q # after(s) => queue'[q] = queue[q]
  <2> DEFINE Q == [queue EXCEPT ![s] = Tail(@)]
  <2>1. /\ Q \in [Queues -> Seq(Change)]
        /\ \A q \in Queues : Q[q] = IF q = s THEN Tail(queue[s]) ELSE queue[q]
    BY <1>0
  <2> HIDE DEF Q
  <2>2. /\ Put(Q, after(s), out) \in [Queues -> Seq(Change)]
        /\ \A q \in Queues : Put(Q, after(s), out)[q]
                               = IF q = after(s) THEN Q[q] \o out ELSE Q[q]
    BY <1>2, <1>4, <2>1, PutIs
  <2>3. queue' = Put(Q, after(s), out)
    BY <1>2 DEF Q
  <2> QED
    BY <1>0, <1>4, <2>1, <2>2, <2>3
<1>6. \A q \in Queues : queue[q] \in Seq(Change)
  BY <1>0
<1>7. PICK X \in SetsOf("sink") :
          /\ Keeps(X)
          /\ Leads(SetsOf("sink"), X, queue.sink, joined("comps", left.comps, read))
  BY <1>0 DEF QueuesLead
<1>8. QueuesLead'
  <2>1. CASE s = "assets"
    <3>1. after(s) = "comps" /\ Before(s) = tagged(read)
      BY <2>1 DEF after, Before
    <3>2. Leads(SetsOf("assets"), left'.assets, queue'.assets, tagged(read'))
      BY <1>0, <1>1, <1>5, <2>1, <3>1
    <3>3. Leads(SetsOf("comps"), left'.comps, queue'.comps,
                joined("assets", left'.assets, read'))
      <4>1. Leads(SetsOf("comps"), left.comps, queue.comps,
                  joined("assets", left.assets, read))
        BY <1>0 DEF QueuesLead
      <4>2. Leads(SetsOf("comps"), left.comps, queue.comps \o out,
                  joined("assets", left'.assets, read))
        BY <1>2, <1>4, <1>6, <2>1, <3>1, <4>1, LeadsConcat
      <4> QED
        BY <1>0, <1>3, <1>4, <1>5, <2>1, <3>1, <4>2
    <3>4. queue'.sink = queue.sink /\ left'.comps = left.comps
      BY <1>3, <1>4, <1>5, <2>1, <3>1
    <3> QED
      BY <1>0, <1>7, <3>2, <3>3, <3>4, QueuesLeadNext DEF Keeps
  <2>2. CASE s = "comps"
    <3>1. after(s) = "sink" /\ Before(s) = joined("assets", left.assets, read)
      BY <2>2 DEF after, Before
    <3>2. queue'.assets = queue.assets /\ left'.assets = left.assets
      BY <1>3, <1>4, <1>5, <2>2, <3>1
    <3>3. Leads(SetsOf("comps"), left'.comps, queue'.comps,
                joined("assets", left'.assets, read'))
      BY <1>0, <1>1, <1>5, <2>2, <3>1, <3>2
    <3>4. Leads(SetsOf("sink"), X, queue'.sink, joined("comps", left'.comps, read'))
      <4>1. Leads(SetsOf("sink"), X, queue.sink \o out,
                  joined("comps", left'.comps, read))
        BY <1>2, <1>4, <1>6, <1>7, <2>2, <3>1, LeadsConcat
      <4> QED
        BY <1>0, <1>4, <1>5, <2>2, <3>1, <4>1
    <3>5. Leads(SetsOf("assets"), left'.assets, queue'.assets, tagged(read'))
      BY <1>0, <3>2 DEF QueuesLead
    <3> QED
      BY <1>0, <1>7, <3>3, <3>4, <3>5, QueuesLeadNext DEF Keeps
  <2> QED
    BY <2>1, <2>2 DEF Lookups
<1> QED
  BY <1>0, <1>3, <1>5, <1>8, JoinStep

\* A row read of the right side, and what a join puts out for it.
LEMMA RightRead ==
    ASSUME PipelineInv, NEW s \in Lookups, ReadRight(s)
    PROVE  LET new == { [r EXCEPT ![s] = read[s] + 1] : r \in waiting(s) } IN
           /\ ReadOf(read') /\ read'[s] = read[s] + 1 /\ read[s] + 1 \in 1 .. Len(topic[s])
           /\ \A q \in Sources : q # s => read'[q] = read[q]
           /\ left[s] \in SetsOf(s)
           /\ unmatched(s) \subseteq Candidates /\ new \subseteq Candidates
           /\ \E out \in Changes("-D", unmatched(s)) : \E add \in Changes("+I", new) :
                  /\ queue' = Put(queue, after(s), out \o add)
                  /\ out \in Seq(Change) /\ add \in Seq(Change)
                  /\ Leads(SetsOf(after(s)), joined(s, left[s], read), out \o add,
                           joined(s, left[s], read'))
<1> DEFINE k == read[s] + 1
           new == { [r EXCEPT ![s] = k] : r \in waiting(s) }
<1>0. /\ PipelineTypeOK /\ QueuesLead /\ topic \in Topics /\ ReadOf(read)
      /\ queue \in [Queues -> Seq(Change)] /\ s \in Queues /\ s \in Sources
      /\ left \in [Lookups -> SUBSET Candidates]
  BY DEF PipelineInv, PipelineTypeOK, ReadOf, Queues, Lookups, Sources
<1>1. /\ ReadOf(read') /\ read'[s] = k /\ k \in 1 .. Len(topic[s])
      /\ \A q \in Sources : q # s => read'[q] = read[q]
      /\ read[s] \in Nat
  BY <1>0, OneMoreRead DEF ReadRight
<1>2. PICK out \in Changes("-D", unmatched(s)) : \E add \in Changes("+I", new) :
          queue' = Put(queue, after(s), out \o add)
  BY <1>1 DEF ReadRight
<1>3. PICK add \in Changes("+I", new) : queue' = Put(queue, after(s), out \o add)
  BY <1>2
<1>4. left[s] \in SetsOf(s) /\ left[s] \subseteq Stage(s)
  <2>1. Leads(SetsOf(s), left[s], queue[s], Before(s)) /\ queue[s] \in Seq(Change)
    BY <1>0 DEF QueuesLead, Before, Lookups
  <2> QED
    BY <2>1, LeadsTypes, PartOfSets
<1> HIDE DEF new, k
<1>5. /\ waiting(s) \subseteq left[s] /\ unmatched(s) \subseteq waiting(s)
      /\ \A r \in waiting(s) : fits(s, r, k)
      /\ \A r \in left[s] : fits(s, r, k) => r \in waiting(s)
      /\ \A r \in waiting(s) : matches(s, r, read) = {} => r \in unmatched(s)
      /\ \A r \in unmatched(s) : matches(s, r, read) = {}
  BY DEF waiting, unmatched, k
\* The matches of a row after the step.
<1>6. ASSUME NEW r \in left[s]
      PROVE  /\ matches(s, r, read') = matches(s, r, read)
                                         \union (IF r \in waiting(s) THEN {k} ELSE {})
             /\ k \notin matches(s, r, read) /\ 0 \notin matches(s, r, read)
             /\ matches(s, r, read) \subseteq 1 .. Len(topic[s])
             /\ r \in Stage(s) /\ r[s] = 0 /\ [r EXCEPT ![s] = 0] = r
             /\ r \in Candidates
  <2>1. \A j : j \in 1 .. read'[s] <=> j \in 1 .. read[s] \/ j = k
    BY <1>1 DEF k
  <2>2. k \notin 1 .. read[s] /\ 0 \notin 1 .. read[s]
    BY <1>1 DEF k
  <2>3. r \in waiting(s) <=> fits(s, r, k)
    BY <1>5
  <2>4. r \in Stage(s) /\ r[s] = 0 /\ [r EXCEPT ![s] = 0] = r /\ r \in Candidates
    <3>1. r \in Stage(s) /\ 0 \in 0 .. Len(topic[s])
      BY <1>0, <1>1, <1>4, TopicLengths
    <3> DEFINE x == [r EXCEPT ![s] = 0]
    <3>2. x = r /\ r[s] = 0 /\ r \in Candidates
      BY <1>0, <3>1, RowWithPlace
    <3> QED
      BY <3>1, <3>2
  <2>5. matches(s, r, read) \subseteq 1 .. Len(topic[s])
    BY <1>0, MatchesIn
  <2> QED
    BY <2>1, <2>2, <2>3, <2>4, <2>5 DEF matches
<1> DEFINE old == joined(s, left[s], read)
           now == joined(s, left[s], read')
           at(r, j) == [r EXCEPT ![s] = j]
<1>7. ASSUME NEW a \in left[s], NEW b \in left[s], NEW i \in 0 .. Len(topic[s]),
             NEW j \in 0 .. Len(topic[s]), at(a, i) = at(b, j)
      PROVE  a = b /\ i = j
  <2>0. a \in Stage(s) /\ b \in Stage(s)
    BY <1>6
  <2> QED
    BY <1>0, <1>7, <2>0, PlaceTold
<1>8. \A x : /\ x \in old <=> \E r \in left[s] : \E j \in OrNull(matches(s, r, read)) :
                                 x = at(r, j)
             /\ x \in now <=> \E r \in left[s] : \E j \in OrNull(matches(s, r, read')) :
                                 x = at(r, j)
             /\ x \in new <=> \E r \in waiting(s) : x = at(r, k)
  BY DEF joined, looked_up, new
<1>9. \A r \in left[s] : at(r, 0) = r
  BY <1>6
<1>10. \A r \in left[s] : /\ OrNull(matches(s, r, read)) \subseteq 0 .. Len(topic[s])
                          /\ OrNull(matches(s, r, read')) \subseteq 0 .. Len(topic[s])
  BY <1>0, <1>1, MatchesIn
<1>11. k \in 0 .. Len(topic[s]) /\ 0 \in 0 .. Len(topic[s]) /\ k # 0
  BY <1>1
<1> HIDE DEF at, old, now
<1>12. unmatched(s) \subseteq old
  BY <1>5, <1>8, <1>9 DEF OrNull
<1>13. new \intersect (old \ unmatched(s)) = {}
  <2> SUFFICES ASSUME NEW x \in new, x \in old PROVE FALSE
    OBVIOUS
  <2>1. PICK r \in waiting(s) : x = at(r, k)
    BY <1>8
  <2>2. PICK a \in left[s] : \E j \in OrNull(matches(s, a, read)) : x = at(a, j)
    BY <1>8
  <2>3. PICK j \in OrNull(matches(s, a, read)) : x = at(a, j)
    BY <2>2
  <2>4. r \in left[s] /\ j \in 0 .. Len(topic[s])
    BY <1>5, <1>10
  <2>5. a = r /\ j = k
    <3>1. at(a, j) = at(r, k)
      BY <2>1, <2>3
    <3> QED
      BY <1>7, <1>11, <2>4, <3>1
  <2> QED
    BY <1>6, <1>11, <2>3, <2>5 DEF OrNull
<1>14. now = (old \ unmatched(s)) \union new
  <2>1. ASSUME NEW x \in now PROVE x \in (old \ unmatched(s)) \union new
    <3>1. PICK r \in left[s] : \E j \in OrNull(matches(s, r, read')) : x = at(r, j)
      BY <1>8
    <3>2. PICK j \in OrNull(matches(s, r, read')) : x = at(r, j)
      BY <3>1
    <3>3. CASE r \in waiting(s) /\ j = k
      BY <1>8, <3>2, <3>3
    <3>4. CASE ~(r \in waiting(s) /\ j = k)
      <4>1. j \in OrNull(matches(s, r, read)) /\ (r \in waiting(s) => j # 0)
        <5>1. CASE r \in waiting(s)
          <6>1. j \in matches(s, r, read') /\ j # k
            BY <1>6, <3>2, <3>4, <5>1 DEF OrNull
          <6>2. j \in matches(s, r, read)
            BY <1>6, <5>1, <6>1
          <6> QED
            BY <1>6, <6>2 DEF OrNull
        <5>2. CASE r \notin waiting(s)
          <6>1. matches(s, r, read') = matches(s, r, read)
            BY <1>6, <5>2
          <6> QED
            BY <3>2, <5>2, <6>1
        <5> QED
          BY <5>1, <5>2
      <4>2. x \in old
        BY <1>8, <3>2, <4>1
      <4>3. ASSUME x \in unmatched(s) PROVE FALSE
        <5>1. x \in left[s] /\ x \in waiting(s) /\ x = at(x, 0)
          BY <1>5, <1>9, <4>3
        <5>2. r = x /\ j = 0
          BY <1>7, <1>10, <1>11, <3>2, <5>1
        <5> QED
          BY <4>1, <5>1, <5>2
      <4> QED
        BY <4>2, <4>3
    <3> QED
      BY <3>3, <3>4
  <2>2. ASSUME NEW x \in old, x \notin unmatched(s) PROVE x \in now
    <3>1. PICK r \in left[s] : \E j \in OrNull(matches(s, r, read)) : x = at(r, j)
      BY <1>8
    <3>2. PICK j \in OrNull(matches(s, r, read)) : x = at(r, j)
      BY <3>1
    <3>3. j \in OrNull(matches(s, r, read'))
      <4>1. CASE matches(s, r, read) = {}
        <5>1. j = 0 /\ x = r
          BY <1>9, <3>2, <4>1 DEF OrNull
        <5>2. r \notin waiting(s)
          BY <1>5, <2>2, <4>1, <5>1
        <5> QED
          BY <1>6, <3>2, <5>2
      <4>2. CASE matches(s, r, read) # {}
        <5>1. j \in matches(s, r, read)
          BY <3>2, <4>2 DEF OrNull
        <5>2. j \in matches(s, r, read')
          BY <1>6, <5>1
        <5> QED
          BY <5>2 DEF OrNull
      <4> QED
        BY <4>1, <4>2
    <3> QED
      BY <1>8, <3>2, <3>3
  <2>3. ASSUME NEW x \in new PROVE x \in now
    <3>1. PICK r \in waiting(s) : x = at(r, k)
      BY <1>8
    <3>2. r \in left[s] /\ k \in matches(s, r, read')
      BY <1>5, <1>6
    <3> QED
      BY <1>8, <3>1, <3>2 DEF OrNull
  <2> QED
    BY <2>1, <2>2, <2>3
<1>15. old \in SetsOf(after(s)) /\ now \in SetsOf(after(s))
  BY <1>0, <1>1, <1>4, JoinedIs DEF old, now
<1>16. /\ unmatched(s) \subseteq Candidates /\ new \subseteq Candidates
       /\ IsFiniteSet(unmatched(s)) /\ IsFiniteSet(new)
  <2>1. unmatched(s) \subseteq Candidates /\ new \subseteq Candidates
    BY <1>12, <1>14, <1>15, PartOfSets
  <2> QED
    BY <1>0, <2>1, CandidatesFinite
<1>17. out \in Seq(Change) /\ add \in Seq(Change)
  BY <1>16, ChangesType
<1>18. Leads(SetsOf(after(s)), old, out, old \ unmatched(s))
  <2>1. \A Y : Y \subseteq old => Y \in SetsOf(after(s))
    BY <1>15, PartOfSets
  <2> QED
    BY <1>12, <1>16, <2>1, LeadsByWithdrawn
<1>19. Leads(SetsOf(after(s)), old \ unmatched(s), add, now)
  <2>1. \A Y : Y \subseteq now => Y \in SetsOf(after(s))
    BY <1>15, PartOfSets
  <2> DEFINE mid == old \ unmatched(s)
  <2>2. now = mid \union new /\ new \intersect mid = {}
    BY <1>13, <1>14
  <2> HIDE DEF mid
  <2>3. Leads(SetsOf(after(s)), mid, add, mid \union new)
    BY <1>16, <2>1, <2>2, LeadsByAdded
  <2> QED
    BY <2>2, <2>3 DEF mid
<1>20. Leads(SetsOf(after(s)), old, out \o add, now)
  BY <1>17, <1>18, <1>19, LeadsConcat
<1> QED
  BY <1>1, <1>3, <1>4, <1>16, <1>17, <1>20 DEF new, k, old, now

\* The row of a master table reaches every left row it is for.
LEMMA ReadRightKeepsInv ==
    ASSUME PipelineInv, NEW s \in Lookups, ReadRight(s)
    PROVE  PipelineInv'
<1> DEFINE new == { [r EXCEPT ![s] = read[s] + 1] : r \in waiting(s) }
<1>0. /\ PipelineTypeOK /\ QueuesLead /\ topic \in Topics /\ ReadOf(read)
      /\ queue \in [Queues -> Seq(Change)]
      /\ left \in [Lookups -> SUBSET Candidates]
      /\ UNCHANGED <<topic, left, kept, staging, scanned, mart>>
  BY DEF PipelineInv, PipelineTypeOK, ReadOf, ReadRight, anomaly
<1>1. /\ ReadOf(read')
      /\ \A q \in Sources : q # s => read'[q] = read[q]
  BY RightRead
<1>2. PICK out \in Changes("-D", unmatched(s)), add \in Changes("+I", new) :
          /\ queue' = Put(queue, after(s), out \o add)
          /\ out \in Seq(Change) /\ add \in Seq(Change)
          /\ Leads(SetsOf(after(s)), joined(s, left[s], read), out \o add,
                   joined(s, left[s], read'))
  BY RightRead
<1> HIDE DEF new
<1> DEFINE w == out \o add
<1>3. w \in Seq(Change)
  BY <1>2
<1> HIDE DEF w
<1>4. /\ "assets" \in Queues /\ "comps" \in Queues /\ "sink" \in Queues
      /\ "assets" \in Lookups /\ "comps" \in Lookups /\ after(s) \in Queues
      /\ "assets" \in Sources /\ "comps" \in Sources
      /\ "raw" \in Sources /\ "tags" \in Sources
  BY DEF Queues, Lookups, after, Sources
<1>5. /\ queue' \in [Queues -> Seq(Change)]
      /\ \A q \in Queues : queue'[q] = IF q = after(s) THEN queue[q] \o w ELSE queue[q]
  <2>1. queue' = Put(queue, after(s), w)
    BY <1>2 DEF w
  <2> QED
    BY <1>0, <1>3, <1>4, <2>1, PutIs
<1>6. \A q \in Queues : queue[q] \in Seq(Change)
  BY <1>0
<1>7. PICK X \in SetsOf("sink") :
          /\ Keeps(X)
          /\ Leads(SetsOf("sink"), X, queue.sink, joined("comps", left.comps, read))
  BY <1>0 DEF QueuesLead
<1>8. tagged(read') = tagged(read)
  <2>1. read'.raw = read.raw /\ read'.tags = read.tags
    BY <1>1, <1>4 DEF Lookups
  <2> QED
    BY <2>1 DEF tagged, tag_matches
<1>9. Leads(SetsOf(after(s)), joined(s, left[s], read), w, joined(s, left[s], read'))
  BY <1>2 DEF w
<1>10. Leads(SetsOf("assets"), left'.assets, queue'.assets, tagged(read'))
  <2>1. queue'.assets = queue.assets
    BY <1>4, <1>5 DEF after
  <2> QED
    BY <1>0, <1>8, <2>1 DEF QueuesLead
<1>11. QueuesLead'
  <2>1. CASE s = "assets"
    <3>1. /\ after(s) = "comps" /\ read'.comps = read.comps /\ queue'.sink = queue.sink
          /\ queue'.comps = queue.comps \o w
      BY <1>1, <1>4, <1>5, <2>1 DEF after
    <3>2. Leads(SetsOf("comps"), left'.comps, queue'.comps,
                joined("assets", left'.assets, read'))
      <4>1. Leads(SetsOf("comps"), left.comps, queue.comps,
                  joined("assets", left.assets, read))
        BY <1>0 DEF QueuesLead
      <4>2. Leads(SetsOf("comps"), left.comps, queue.comps \o w,
                  joined("assets", left.assets, read'))
        BY <1>3, <1>4, <1>6, <1>9, <2>1, <3>1, <4>1, LeadsConcat
      <4> QED
        BY <1>0, <3>1, <4>2
    <3>3. joined("comps", left'.comps, read') = joined("comps", left.comps, read)
      BY <1>0, <3>1, JoinedSame
    <3> QED
      BY <1>0, <1>7, <1>10, <3>1, <3>2, <3>3, QueuesLeadNext DEF Keeps
  <2>2. CASE s = "comps"
    <3>1. /\ after(s) = "sink" /\ read'.assets = read.assets
          /\ queue'.comps = queue.comps /\ queue'.sink = queue.sink \o w
      BY <1>1, <1>4, <1>5, <2>2 DEF after
    <3>2. joined("assets", left'.assets, read') = joined("assets", left.assets, read)
      BY <1>0, <3>1, JoinedSame
    <3>3. Leads(SetsOf("comps"), left'.comps, queue'.comps,
                joined("assets", left'.assets, read'))
      BY <1>0, <3>1, <3>2 DEF QueuesLead
    <3>4. Leads(SetsOf("sink"), X, queue.sink \o w, joined("comps", left.comps, read'))
      BY <1>3, <1>4, <1>6, <1>7, <1>9, <2>2, <3>1, LeadsConcat
    <3> QED
      BY <1>0, <1>7, <1>10, <3>1, <3>3, <3>4, QueuesLeadNext DEF Keeps
  <2> QED
    BY <2>1, <2>2 DEF Lookups
<1> QED
  BY <1>0, <1>1, <1>5, <1>11, JoinStep

\* The change the sink takes, and what it is to keep after it.
Came(r) == IF Head(queue.sink).op = "+I" /\ columns(Head(queue.sink).row) = r
           THEN 1 ELSE 0
Gone(r) == IF Head(queue.sink).op # "+I" /\ columns(Head(queue.sink).row) = r
           THEN 1 ELSE 0

LEMMA SinkTaken ==
    ASSUME PipelineInv, Materialize
    PROVE  LET c   == Head(queue.sink)
               row == columns(c.row)
           IN
           /\ c \in Change /\ c.row \in Candidates /\ row \in PartRows
           /\ row.event_id \in EventIds /\ row \in RowsOf(row.event_id)
           /\ queue' = [queue EXCEPT !.sink = Tail(@)]
           /\ queue.sink # <<>> /\ queue.sink \in Seq(Change)
           /\ UNCHANGED <<topic, read, left, scanned, mart>>
           /\ \E X \in SetsOf("sink") :
                  /\ Keeps(X) /\ Admits(X, c) /\ Applied(X, c) \in SetsOf("sink")
                  /\ Leads(SetsOf("sink"), Applied(X, c), Tail(queue.sink),
                           joined("comps", left.comps, read))
                  /\ \A r : Cardinality(With(Applied(X, c), r))
                              = Cardinality(With(X, r)) + Came(r) - Gone(r)
                  /\ c.op # "+I" => Cardinality(With(X, row)) # 0
<1> DEFINE c   == Head(queue.sink)
           row == columns(c.row)
<1>0. /\ PipelineTypeOK /\ QueuesLead /\ topic \in Topics
      /\ queue \in [Queues -> Seq(Change)] /\ "sink" \in Queues
  BY DEF PipelineInv, PipelineTypeOK, Queues
<1>1. /\ queue.sink # <<>> /\ queue.sink \in Seq(Change)
      /\ queue' = [queue EXCEPT !.sink = Tail(@)]
      /\ UNCHANGED <<topic, read, left, scanned, mart>>
  BY <1>0 DEF Materialize, anomaly
<1>2. c \in Change
  BY <1>1
<1> HIDE DEF c
<1>3. c.row \in Candidates /\ c.op \in {"-D", "+I"}
  BY <1>2 DEF Change
<1>4. row \in PartRows /\ row.event_id \in EventIds /\ row \in RowsOf(row.event_id)
  BY <1>0, <1>3, CandidateIs
<1>5. PICK X \in SetsOf("sink") :
          /\ Keeps(X)
          /\ Leads(SetsOf("sink"), X, queue.sink, joined("comps", left.comps, read))
  BY <1>0 DEF QueuesLead
<1>6. /\ Admits(X, c) /\ Applied(X, c) \in SetsOf("sink")
      /\ Leads(SetsOf("sink"), Applied(X, c), Tail(queue.sink),
               joined("comps", left.comps, read))
  BY <1>1, <1>5, LeadsHead DEF c
<1>7. ASSUME NEW r
      PROVE  /\ Cardinality(With(Applied(X, c), r))
                  = Cardinality(With(X, r)) + Came(r) - Gone(r)
             /\ c.op # "+I" /\ r = row => Cardinality(With(X, r)) # 0
  <2> DEFINE A == With(X, r)
             B == With(Applied(X, c), r)
  <2>1. IsFiniteSet(A) /\ Cardinality(A) \in Nat
    <3>1. A \in SUBSET Candidates
      BY <1>5, PartOfSets DEF With
    <3> QED
      BY <1>0, <3>1, CandidatesFinite, FS_CardinalityType
  <2>2. \A t : /\ t \in A <=> t \in X /\ columns(t) = r
               /\ t \in B <=> t \in Applied(X, c) /\ columns(t) = r
    BY DEF With
  <2>3. /\ Came(r) = IF c.op = "+I" /\ row = r THEN 1 ELSE 0
        /\ Gone(r) = IF c.op # "+I" /\ row = r THEN 1 ELSE 0
    BY DEF Came, Gone, c
  <2> HIDE DEF A, B, row
  <2>4. CASE c.op = "+I"
    <3>1. c.row \notin X /\ Applied(X, c) = X \union {c.row}
      BY <1>6, <2>4 DEF Admits, Applied
    <3>2. CASE row = r
      <4>1. B = A \union {c.row} /\ c.row \notin A
        BY <2>2, <3>1, <3>2 DEF row
      <4>2. Cardinality(B) = Cardinality(A) + 1
        BY <2>1, <4>1, FS_AddElement
      <4> QED
        BY <2>1, <2>3, <2>4, <3>2, <4>2 DEF A, B
    <3>3. CASE row # r
      <4>1. B = A
        BY <2>2, <3>1, <3>3 DEF row
      <4> QED
        BY <2>1, <2>3, <2>4, <3>3, <4>1 DEF A, B
    <3> QED
      BY <3>2, <3>3
  <2>5. CASE c.op # "+I"
    <3>1. c.row \in X /\ Applied(X, c) = X \ {c.row}
      BY <1>3, <1>6, <2>5 DEF Admits, Applied
    <3>2. CASE row = r
      <4>1. B = A \ {c.row} /\ c.row \in A
        BY <2>2, <3>1, <3>2 DEF row
      <4>2. Cardinality(B) = Cardinality(A) - 1 /\ Cardinality(A) # 0
        BY <2>1, <4>1, FS_RemoveElement, FS_EmptySet
      <4> QED
        BY <2>1, <2>3, <2>5, <3>2, <4>2 DEF A, B
    <3>3. CASE row # r
      <4>1. B = A
        BY <2>2, <3>1, <3>3 DEF row
      <4> QED
        BY <2>1, <2>3, <2>5, <3>3, <4>1 DEF A, B
    <3> QED
      BY <3>2, <3>3
  <2> QED
    BY <2>4, <2>5
<1> QED
  BY <1>1, <1>2, <1>3, <1>4, <1>5, <1>6, <1>7 DEF c

\* What both kinds of change leave to prove: the sink's rows of one event
\* changed, and the staging topic has its last row.
LEMMA SinkStep ==
    ASSUME PipelineInv, Materialize, NEW ev, ev = columns(Head(queue.sink).row).event_id,
           NEW rows \in Seq(RowsOf(ev)), kept' = [kept EXCEPT ![ev] = rows],
           \A row : Count(rows, row) = Count(kept[ev], row) + Came(row) - Gone(row),
           staging' \in Seq(Record),
           \A e \in EventIds :
               /\ e # ev => CurrentRow(e)' = CurrentRow(e)
               /\ e = ev /\ rows # <<>> => CurrentRow(e)' = Upsert(Last(rows))
    PROVE  PipelineInv'
<1> DEFINE c == Head(queue.sink)
<1>0. /\ PipelineTypeOK /\ topic' = topic /\ topic \in Topics /\ ev \in EventIds
      /\ UNCHANGED <<read, left, scanned, mart>>
      /\ queue' = [queue EXCEPT !.sink = Tail(@)]
      /\ queue.sink # <<>> /\ queue.sink \in Seq(Change)
      /\ queue \in [Queues -> Seq(Change)] /\ kept \in [EventIds -> Seq(PartRows)]
  BY SinkTaken DEF PipelineInv, PipelineTypeOK
<1>1. PICK X \in SetsOf("sink") :
          /\ Keeps(X) /\ Applied(X, c) \in SetsOf("sink")
          /\ Leads(SetsOf("sink"), Applied(X, c), Tail(queue.sink),
                   joined("comps", left.comps, read))
          /\ \A r : Cardinality(With(Applied(X, c), r))
                      = Cardinality(With(X, r)) + Came(r) - Gone(r)
  BY SinkTaken
<1> HIDE DEF c
<1>2. /\ kept' \in [EventIds -> Seq(PartRows)]
      /\ \A e \in EventIds : kept'[e] = IF e = ev THEN rows ELSE kept[e]
  <2>1. rows \in Seq(PartRows)
    <3>1. RowsOf(ev) \subseteq PartRows
      BY DEF RowsOf
    <3> QED
      BY <3>1
  <2> QED
    BY <1>0, <2>1
<1>3. PipelineTypeOK'
  <2>1. \A e \in EventIds : kept'[e] \in Seq(RowsOf(e))
    BY <1>0, <1>2 DEF PipelineTypeOK
  <2>2. queue' \in [Queues -> Seq(Change)]
    <3>1. "sink" \in Queues /\ Tail(queue.sink) \in Seq(Change)
      BY <1>0 DEF Queues
    <3> QED
      BY <1>0, <3>1
  <2> QED
    BY <1>0, <1>2, <2>1, <2>2, SameTopics DEF PipelineTypeOK
<1>4. ASSUME NEW row \in PartRows
      PROVE  Count(kept'[row.event_id], row) = Cardinality(With(Applied(X, c), row))
  <2>1. row.event_id \in EventIds
    BY <1>0, PartRowEvent
  <2>2. Count(kept[row.event_id], row) = Cardinality(With(X, row))
    BY <1>1 DEF Keeps
  <2>3. CASE row.event_id = ev
    BY <1>1, <1>2, <2>1, <2>2, <2>3
  <2>4. CASE row.event_id # ev
    <3>1. Came(row) = 0 /\ Gone(row) = 0
      BY <2>4 DEF Came, Gone
    <3>2. Cardinality(With(X, row)) \in Nat
      <4>1. With(X, row) \in SUBSET Candidates
        BY <1>1, PartOfSets DEF With
      <4> QED
        BY <1>0, <4>1, CandidatesFinite, FS_CardinalityType
    <3> QED
      BY <1>1, <1>2, <2>1, <2>2, <2>4, <3>1, <3>2
  <2> QED
    BY <2>3, <2>4
<1>5. QueuesLead'
  <2>1. queue'.assets = queue.assets /\ queue'.comps = queue.comps
        /\ queue'.sink = Tail(queue.sink)
    BY <1>0 DEF Queues, Lookups
  <2> QED
    BY <1>0, <1>1, <1>4, <2>1, QueuesLeadNext DEF PipelineInv, QueuesLead
<1>6. LastKeptWritten'
  <2>1. ASSUME NEW e \in EventIds, kept'[e] # <<>>
        PROVE  CurrentRow(e)' = Upsert(Last(kept'[e]))
    <3>1. CASE e = ev
      <4>1. kept'[e] = rows
        BY <1>2, <3>1
      <4> QED
        BY <2>1, <3>1, <4>1
    <3>2. CASE e # ev
      <4>1. kept'[e] = kept[e] /\ CurrentRow(e)' = CurrentRow(e)
        BY <1>2, <3>2
      <4>2. kept[e] # <<>> => CurrentRow(e) = Upsert(Last(kept[e]))
        BY DEF PipelineInv, LastKeptWritten
      <4> QED
        BY <2>1, <4>1, <4>2
    <3> QED
      BY <3>1, <3>2
  <2> QED
    BY <1>0, <2>1, SameTopics DEF LastKeptWritten, Upsert
<1> QED
  BY <1>3, <1>5, <1>6 DEF PipelineInv

\* The sink takes one change from those on their way.
LEMMA MaterializeKeepsInv ==
    ASSUME PipelineInv, Materialize
    PROVE  PipelineInv'
<1> DEFINE row  == columns(Head(queue.sink).row)
           ev   == row.event_id
           rows == kept[ev]
           rest == RemoveFirst(rows, row)
<1>0. /\ PipelineTypeOK /\ row \in PartRows /\ row \in RowsOf(ev) /\ ev \in EventIds
      /\ topic' = topic
  BY SinkTaken DEF PipelineInv
<1>1. /\ rows \in Seq(RowsOf(ev)) /\ row \in RowsOf(ev) /\ staging \in Seq(Record)
      /\ Record' = Record
  BY <1>0, SameTopics DEF PipelineTypeOK
<1>2. CASE Head(queue.sink).op = "+I"
  <2> DEFINE more == Append(rows, row)
  <2>1. /\ kept' = [kept EXCEPT ![ev] = more]
        /\ staging' = Append(staging, Upsert(row))
    BY <1>2 DEF Materialize
  <2>2. more \in Seq(RowsOf(ev)) /\ more # <<>> /\ Last(more) = row
    <3> HIDE DEF rows, row, ev
    <3>1. /\ more \in Seq(RowsOf(ev)) /\ Len(more) = Len(rows) + 1
          /\ more[Len(rows) + 1] = row /\ Len(rows) \in Nat
      BY <1>1
    <3> HIDE DEF more
    <3> QED
      BY <3>1 DEF Last
  <2>3. \A r : Count(more, r) = Count(rows, r) + (IF row = r THEN 1 ELSE 0)
    BY <1>1, CountOfAppend
  <2>4. \A r : Came(r) = (IF row = r THEN 1 ELSE 0) /\ Gone(r) = 0
    BY <1>2 DEF Came, Gone
  <2>5. Upsert(row) \in Record /\ KeyOf(Upsert(row)) = ev
    BY <1>0 DEF Upsert, Record, KeyOf
  <2>6. \A e : CurrentRow(e)' = IF e = ev THEN Upsert(row) ELSE CurrentRow(e)
    BY <1>1, <2>1, <2>5, CurrentRowOfAppend
  <2>7. staging' \in Seq(Record)
    BY <1>1, <2>1, <2>5
  <2>8. \A r : Count(rows, r) \in Nat
    BY <1>1, CountType
  <2>9. \A r : Count(more, r) = Count(rows, r) + Came(r) - Gone(r)
    <3> HIDE DEF more, rows, row
    <3> QED
      BY <2>3, <2>4, <2>8
  <2>10. \A e \in EventIds :
             /\ e # ev => CurrentRow(e)' = CurrentRow(e)
             /\ e = ev /\ more # <<>> => CurrentRow(e)' = Upsert(Last(more))
    BY <2>2, <2>6
  <2> HIDE DEF more, rest
  <2> QED
    BY <2>1, <2>2, <2>7, <2>9, <2>10, SinkStep
<1>3. CASE Head(queue.sink).op # "+I"
  <2>1. /\ kept' = [kept EXCEPT ![ev] = rest]
        /\ staging' =
               CASE rest = <<>> -> Append(staging, Tombstone(row))
                 [] rest # <<>> /\ first_at(rows, row) = Len(rows) ->
                        Append(staging, Upsert(Last(rest)))
                 [] OTHER -> staging
    BY <1>3 DEF Materialize
  <2>2. \A r : Gone(r) = (IF row = r THEN 1 ELSE 0) /\ Came(r) = 0
    BY <1>3 DEF Came, Gone
  <2>3. Count(rows, row) \in Nat /\ Count(rows, row) # 0
    <3>1. PICK X \in SetsOf("sink") : Keeps(X) /\ Cardinality(With(X, row)) # 0
      BY <1>3, SinkTaken
    <3> HIDE DEF row
    <3>2. Count(rows, row) = Cardinality(With(X, row))
      BY <1>0, <3>1 DEF Keeps
    <3> QED
      BY <1>1, <3>1, <3>2, CountType
  <2>4. /\ rest \in Seq(RowsOf(ev))
        /\ \A r : Count(rows, r) = Count(rest, r) + (IF row = r THEN 1 ELSE 0)
        /\ first_at(rows, row) # Len(rows) =>
               /\ rows # <<>> => rest # <<>>
               /\ Last(rest) = Last(rows)
    <3> HIDE DEF rows, row
    <3>1. /\ rest \in Seq(RowsOf(ev))
          /\ \A r : Count(rows, r) = Count(rest, r) + (IF row = r THEN 1 ELSE 0)
      <4>1. rows \in Seq(RowsOf(ev)) /\ Count(rows, row) # 0
        BY <1>1, <2>3
      <4>2. rest \in Seq(RowsOf(ev))
        BY <4>1, RemoveFirstProperties
      <4>3. \A r : Count(rows, r) = Count(rest, r) + (IF row = r THEN 1 ELSE 0)
        <5>1. ASSUME NEW r
              PROVE  Count(rows, r) = Count(RemoveFirst(rows, row), r)
                                        + (IF row = r THEN 1 ELSE 0)
          BY <4>1, RemoveFirstCount
        <5> QED
          BY <5>1
      <4> QED
        BY <4>2, <4>3
    <3>2. first_at(rows, row) # Len(rows) =>
              /\ rows # <<>> => rest # <<>>
              /\ Last(rest) = Last(rows)
      BY <1>1, RemoveFirstProperties DEF first_at, PlaceOf
    <3> QED
      BY <3>1, <3>2
  <2>5. \A r : Count(rest, r) \in Nat
    BY <2>4, CountType
  <2>6. \A r : Count(rest, r) = Count(rows, r) + Came(r) - Gone(r)
    <3> HIDE DEF rest, rows, row
    <3> QED
      BY <2>2, <2>4, <2>5
  <2>7. rows # <<>>
    BY <2>3, EmptyCount
  <2> HIDE DEF rest
  <2>8. rest # <<>> => Last(rest) \in PartRows /\ Last(rest).event_id = ev
    <3>1. rest # <<>> => Last(rest) \in RowsOf(ev)
      BY <2>4 DEF Last
    <3> QED
      BY <3>1 DEF RowsOf
  <2>9. /\ staging' \in Seq(Record)
        /\ \A e \in EventIds :
               /\ e # ev => CurrentRow(e)' = CurrentRow(e)
               /\ e = ev /\ rest # <<>> => CurrentRow(e)' = Upsert(Last(rest))
    <3>1. CASE rest = <<>>
      <4>1. staging' = Append(staging, Tombstone(row))
        BY <2>1, <3>1
      <4>2. Tombstone(row) \in Record /\ KeyOf(Tombstone(row)) = ev
        BY <1>0 DEF Tombstone, Record, KeyOf
      <4>3. \A e : CurrentRow(e)' = IF e = ev THEN Tombstone(row) ELSE CurrentRow(e)
        BY <1>1, <4>1, <4>2, CurrentRowOfAppend
      <4> QED
        BY <1>1, <3>1, <4>1, <4>2, <4>3
    <3>2. CASE rest # <<>> /\ first_at(rows, row) = Len(rows)
      <4> DEFINE y == Upsert(Last(rest))
      <4>1. staging' = Append(staging, y)
        BY <2>1, <3>2
      <4>2. y \in Record /\ KeyOf(y) = ev
        BY <2>8, <3>2 DEF Upsert, Record, KeyOf
      <4>3. \A e : CurrentRow(e)' = IF e = ev THEN y ELSE CurrentRow(e)
        BY <1>1, <4>1, <4>2, CurrentRowOfAppend
      <4> QED
        <5>1. staging' \in Seq(Record)
          BY <1>1, <4>1, <4>2
        <5> HIDE DEF y, ev
        <5> QED
          BY <4>3, <5>1 DEF y
    <3>3. CASE rest # <<>> /\ first_at(rows, row) # Len(rows)
      <4>1. staging' = staging
        BY <2>1, <3>3
      <4>2. \A e : CurrentRow(e)' = CurrentRow(e)
        BY <1>1, <4>1, CurrentRowSame
      <4>3. CurrentRow(ev) = Upsert(Last(rows))
        BY <1>0, <2>7 DEF PipelineInv, LastKeptWritten
      <4> QED
        <5>1. Last(rest) = Last(rows)
          BY <2>4, <3>3
        <5>2. \A e \in EventIds : e = ev => CurrentRow(e)' = Upsert(Last(rest))
          BY <4>2, <4>3, <5>1
        <5>3. staging' \in Seq(Record)
          BY <1>1, <4>1
        <5> QED
          BY <4>2, <5>2, <5>3
    <3> QED
      BY <3>1, <3>2, <3>3
  <2> QED
    BY <2>1, <2>4, <2>6, <2>9, SinkStep
<1> QED
  BY <1>2, <1>3

\* Submitted again, the enrich job has read and kept nothing.
LEMMA SubmitEnrichKeepsInv ==
    ASSUME PipelineInv, SubmitEnrich
    PROVE  PipelineInv'
<1>0. /\ PipelineTypeOK /\ topic \in Topics
      /\ UNCHANGED <<topic, staging, scanned, mart>>
      /\ read' = NotRead /\ left' = NoRows /\ queue' = NoQueue
      /\ kept' = [e \in EventIds |-> <<>>]
  BY DEF PipelineInv, PipelineTypeOK, SubmitEnrich, anomaly
<1>1. \A e \in EventIds : kept'[e] = <<>>
  BY <1>0
<1>2. PipelineTypeOK'
  <2>1. ASSUME NEW e \in EventIds PROVE kept'[e] \in Seq(RowsOf(e))
    <3>1. <<>> \in Seq(RowsOf(e))
      OBVIOUS
    <3> QED
      BY <1>1, <3>1
  <2> QED
    BY <1>0, <2>1, SameTopics, EmptyPipeline DEF PipelineTypeOK
<1>3. \A row \in PartRows :
          Count(kept'[row.event_id], row) = Cardinality(With({}, row))
  BY <1>0, <1>1, PartRowEvent, EmptyPipeline, EmptyCount
<1>4. QueuesLead'
  BY <1>0, <1>3, EmptyPipeline, QueuesLeadNext
<1>5. LastKeptWritten'
  BY <1>0, <1>1, SameTopics DEF LastKeptWritten
<1> QED
  BY <1>2, <1>4, <1>5 DEF PipelineInv

\* The steps after the staging topic leave the enrich job alone.
LEMMA DownstreamKeepsInv ==
    ASSUME PipelineInv, UNCHANGED <<topic, enrich>>,
           scanned' \in Nat, mart' \in Seq(Breaches)
    PROVE  PipelineInv'
<1>0. /\ PipelineTypeOK
      /\ UNCHANGED <<topic, read, left, queue, kept, staging>>
  BY DEF PipelineInv, enrich
<1>1. PipelineTypeOK'
  BY <1>0, SameTopics DEF PipelineTypeOK
<1>2. QueuesLead'
  BY <1>0, QueuesLeadNext DEF PipelineInv, QueuesLead, Keeps
<1>3. LastKeptWritten'
  <2>1. \A e : CurrentRow(e)' = CurrentRow(e)
    BY <1>0, SameTopics, CurrentRowSame DEF PipelineTypeOK
  <2> QED
    BY <1>0, <2>1, SameTopics DEF PipelineInv, LastKeptWritten, Upsert
<1> QED
  BY <1>1, <1>2, <1>3 DEF PipelineInv


\* Every step keeps the invariant.
LEMMA StepKeepsPipelineInv ==
    ASSUME PipelineInv, [Next]_vars
    PROVE  PipelineInv'
<1>0. PipelineTypeOK
  BY DEF PipelineInv
<1>1. ASSUME NEW s \in {"raw", "tags"}, ReadFirst(s) PROVE PipelineInv'
  BY <1>1, ReadFirstKeepsInv
<1>8. ASSUME NEW s \in Lookups, TakeLeft(s) \/ ReadRight(s) PROVE PipelineInv'
  BY <1>8, TakeLeftKeepsInv, ReadRightKeepsInv
<1>2. CASE Materialize
  BY <1>2, MaterializeKeepsInv
<1>3. CASE Detect
  <2> DEFINE record == staging[scanned + 1]
  <2>1. /\ UNCHANGED <<topic, enrich>> /\ scanned' = scanned + 1
        /\ scanned < Len(staging)
        /\ mart' = IF record.op = "upsert" /\ over_limit(record.row)
                   THEN Append(mart, anomaly_row(record.row)) ELSE mart
    BY <1>3 DEF Detect
  <2>2. record \in Record
    BY <1>0, <2>1 DEF PipelineTypeOK
  <2> HIDE DEF record
  <2>3. record.op = "upsert" => record.row \in PartRows
    BY <2>2 DEF Record
  <2>4. record.op = "upsert" /\ over_limit(record.row)
          => anomaly_row(record.row) \in Breaches
    BY <2>3 DEF Breaches
  <2>5. mart' \in Seq(Breaches) /\ scanned' \in Nat
    BY <1>0, <2>1, <2>4 DEF PipelineTypeOK
  <2> QED
    BY <2>1, <2>5, DownstreamKeepsInv
<1>4. CASE Ingest
  <2>1. UNCHANGED <<topic, enrich, scanned, mart>>
    BY <1>4 DEF Ingest, anomaly
  <2> QED
    BY <1>0, <2>1, DownstreamKeepsInv DEF PipelineTypeOK
<1>5. CASE SubmitEnrich
  BY <1>5, SubmitEnrichKeepsInv
<1>6. CASE SubmitAnomaly
  <2>1. UNCHANGED <<topic, enrich, mart>> /\ scanned' = 0
    BY <1>6 DEF SubmitAnomaly
  <2> QED
    BY <1>0, <2>1, DownstreamKeepsInv DEF PipelineTypeOK
<1>7. CASE UNCHANGED vars
  <2>1. UNCHANGED <<topic, enrich, scanned, mart>>
    BY <1>7 DEF vars, anomaly
  <2> QED
    BY <1>0, <2>1, DownstreamKeepsInv DEF PipelineTypeOK
<1> QED
  BY <1>1, <1>2, <1>3, <1>4, <1>5, <1>6, <1>7, <1>8 DEF Next

\* The sink's rows and the changes on their way to it are always the join of
\* what the enrich job has read, and the staging topic has the last row kept.
THEOREM PipelineInvariance == Spec => []PipelineInv
<1>1. Init => PipelineInv
  BY PipelineInit
<1>2. PipelineInv /\ [Next]_vars => PipelineInv'
  BY StepKeepsPipelineInv
<1> QED
  BY <1>1, <1>2, PTL DEF Spec

-----------------------------------------------------------------------------
(* The properties.                                                         *)

\* When all has been read and written, the staging topic holds for each event
\* that has rows in the complete join one of them: whatever the order in which
\* the topics were read and the joins put their changes out.
THEOREM StagingComplete == Spec => []StagingIsCompleteJoin
<1>1. PipelineInv => StagingIsCompleteJoin
  <2> SUFFICES ASSUME PipelineInv, read = All, queue = NoQueue,
                      NEW e \in EventIds,
                      NEW r \in { columns(t) : t \in Joined(All) }, r.event_id = e
               PROVE  /\ CurrentRow(e).op = "upsert"
                      /\ CurrentRow(e).row \in { columns(t) : t \in Joined(All) }
    BY DEF StagingIsCompleteJoin
  <2>0. PipelineTypeOK /\ QueuesLead /\ topic \in Topics
    BY DEF PipelineInv, PipelineTypeOK
  \* Nothing is on its way: what the sink keeps is what is joined.
  <2>1. PICK X \in SetsOf("sink") :
            /\ Keeps(X)
            /\ Leads(SetsOf("sink"), X, queue.sink, joined("comps", left.comps, read))
    BY <2>0 DEF QueuesLead
  <2>2. X = Joined(All)
    <3>0. /\ NoQueue.assets = <<>> /\ NoQueue.comps = <<>> /\ NoQueue.sink = <<>>
      BY DEF NoQueue, Lookups
    <3>1. queue.assets = <<>> /\ queue.comps = <<>> /\ queue.sink = <<>>
      BY <3>0
    <3>2. left.assets = tagged(All)
      <4>1. Leads(SetsOf("assets"), left.assets, <<>>, tagged(All))
        BY <2>0, <3>1 DEF QueuesLead
      <4> QED
        BY <4>1, LeadsNone
    <3>3. left.comps = joined("assets", tagged(All), All)
      <4>1. Leads(SetsOf("comps"), left.comps, <<>>, joined("assets", tagged(All), All))
        BY <2>0, <3>1, <3>2 DEF QueuesLead
      <4> QED
        BY <4>1, LeadsNone
    <3> QED
      BY <2>1, <3>1, <3>3, LeadsNone DEF Joined
  <2>3. /\ \A row \in PartRows : Count(kept[row.event_id], row) = Cardinality(With(X, row))
        /\ X \subseteq Candidates
    BY <2>1, PartOfSets DEF Keeps
  <2>4. kept[e] \in Seq(RowsOf(e)) /\ kept[e] \in Seq(PartRows)
    BY <2>0 DEF PipelineTypeOK
  <2>5. kept[e] # <<>>
    <3>1. r \in PartRows /\ With(X, r) # {}
      BY <2>2, <2>3 DEF PartRows, With
    <3>2. IsFiniteSet(With(X, r))
      <4>1. With(X, r) \in SUBSET Candidates
        BY <2>3 DEF With
      <4> QED
        BY <2>0, <4>1, CandidatesFinite
    <3>3. Count(kept[e], r) # 0
      BY <2>3, <3>1, <3>2, FS_EmptySet
    <3> QED
      BY <3>3, EmptyCount
  <2>6. CurrentRow(e) = Upsert(Last(kept[e]))
    BY <2>5 DEF PipelineInv, LastKeptWritten
  <2> DEFINE last == Last(kept[e])
  <2>7. /\ Len(kept[e]) \in 1 .. Len(kept[e]) /\ last = kept[e][Len(kept[e])]
        /\ last \in RowsOf(e)
    BY <2>4, <2>5 DEF Last
  <2>8. last \in PartRows /\ last.event_id = e
    BY <2>7 DEF RowsOf
  <2>9. Count(kept[e], last) # 0
    BY <2>4, <2>7, CountType
  <2>10. With(X, last) # {}
    BY <2>3, <2>8, <2>9, FS_EmptySet
  <2>11. last \in { columns(t) : t \in Joined(All) }
    BY <2>2, <2>10 DEF With
  <2> QED
    BY <2>6, <2>11 DEF Upsert
<1> QED
  BY <1>1, PipelineInvariance, PTL

\* Whatever versions of a row went through, an anomaly is of a reading above
\* the limit of a metric its tag is mapped to.
THEOREM BreachesOnly == Spec => []OnlyBreachesReported
<1>1. PipelineInv => OnlyBreachesReported
  <2> SUFFICES ASSUME PipelineInv, NEW n \in DOMAIN mart
               PROVE  \E i \in DOMAIN topic.raw : \E j \in tag_matches(All, i) :
                          /\ topic.raw[i].event_id = mart[n].anomaly_id
                          /\ topic.raw[i].value = mart[n].observed_value
                          /\ over_limit([ metric_name |-> topic.tags[j].metric_name,
                                          value |-> topic.raw[i].value ])
    BY DEF OnlyBreachesReported
  <2>1. mart[n] \in Breaches
    BY DEF PipelineInv, PipelineTypeOK
  <2>2. PICK t \in Candidates : /\ over_limit(columns(t))
                                /\ mart[n] = anomaly_row(columns(t))
    BY <2>1 DEF Breaches, PartRows
  <2>3. /\ t.raw \in 1 .. Len(topic.raw) /\ t.tags \in tag_matches(All, t.raw)
    BY DEF Candidates, Places4
  <2>4. t.raw \in DOMAIN topic.raw
    <3>1. topic.raw \in Seq(Range(topic.raw))
      BY TopicsAssumption DEF PipelineInv, PipelineTypeOK, Sources
    <3> QED
      BY <2>3, <3>1
  <2>5. /\ topic.raw[t.raw].event_id = mart[n].anomaly_id
        /\ topic.raw[t.raw].value = mart[n].observed_value
        /\ over_limit([ metric_name |-> topic.tags[t.tags].metric_name,
                        value |-> topic.raw[t.raw].value ])
    <3>1. /\ columns(t).event_id = topic.raw[t.raw].event_id
          /\ columns(t).value = topic.raw[t.raw].value
          /\ columns(t).metric_name = topic.tags[t.tags].metric_name
      BY DEF columns
    <3>2. /\ mart[n].anomaly_id = columns(t).event_id
          /\ mart[n].observed_value = columns(t).value
      BY <2>2 DEF anomaly_row
    <3> QED
      BY <2>2, <3>1, <3>2 DEF over_limit
  <2> QED
    BY <2>3, <2>4, <2>5
<1> QED
  BY <1>1, PipelineInvariance, PTL


-----------------------------------------------------------------------------
(* The number of reports: what an event has in the staging topic and what  *)
(* is on its way there never gets more than its readings and the master    *)
(* rows yet to be read allow.                                              *)

Readings(e) == { i \in DOMAIN topic.raw : topic.raw[i].event_id = e }
Single(e)   == Cardinality(Readings(e)) = 1
OfEvent(X, e) == { r \in X : topic.raw[r.raw].event_id = e }

\* Changes of an event that may have the sink write a row: the withdrawal of
\* the only row of an event writes a tombstone.
Costly(e)     == { c \in Change : /\ topic.raw[c.row.raw].event_id = e
                                  /\ c.op = "+I" \/ ~Single(e) }
UpsertsOf(e)  == { Upsert(p) : p \in RowsOf(e) }
BreachesOf(e) == { b \in Breaches : b.anomaly_id = e }

cost(q, e) == Amount(queue[q], Len(queue[q]), Costly(e))
upserts(e) == Amount(staging, Len(staging), UpsertsOf(e))
seen(e)    == Amount(staging, scanned, UpsertsOf(e))
reports(e) == Amount(mart, Len(mart), BreachesOf(e))

\* Rows the first join has yet to put out, and readings that have a row of s
\* yet to come: it costs a withdrawal and a new row.
Untagged(e) == OfEvent(Stage("assets") \ tagged(read), e)
Awaits(n, s, e) == { i \in Readings(e) : \E j \in tag_matches(All, i) :
                         \E k \in n + 1 .. Len(topic[s]) : fits(s, Tagged(i, j), k) }
untagged(e)  == Cardinality(Untagged(e))
awaits(s, e) == Cardinality(Awaits(read[s], s, e))
Weight(e)    == IF Single(e) THEN 1 ELSE 2

room(e) == upserts(e) + cost("sink", e) + cost("comps", e) + cost("assets", e)
             + untagged(e) + Weight(e) * (awaits("assets", e) + awaits("comps", e))

most(s, e) == IF topic[s] = <<>> THEN 0 ELSE Cardinality(Readings(e))
Bound(e)   == Cardinality(Readings(e)) + Weight(e) * (most("assets", e) + most("comps", e))

ReportsInv ==
    /\ submissions \in Nat
    /\ OneRowPerKey /\ submissions = 0 =>
           /\ scanned <= Len(staging)
           /\ \A e \in EventIds : room(e) <= Bound(e) /\ reports(e) <= seen(e)

\* What is counted is finite.
LEMMA ReadingsFinite ==
    ASSUME topic \in Topics, NEW e
    PROVE  /\ IsFiniteSet(Readings(e)) /\ Cardinality(Readings(e)) \in Nat
           /\ Readings(e) = { i \in 1 .. Len(topic.raw) : topic.raw[i].event_id = e }
           /\ \A s \in Lookups : most(s, e) \in Nat
           /\ Weight(e) \in {1, 2}
<1>1. topic.raw \in Seq(Range(topic.raw))
  BY TopicsAssumption DEF Sources
<1>2. DOMAIN topic.raw = 1 .. Len(topic.raw) /\ Len(topic.raw) \in Int /\ 1 \in Int
  BY <1>1
<1>3. IsFiniteSet(1 .. Len(topic.raw))
  BY <1>2, FS_Interval
<1>4. Readings(e) \in SUBSET (1 .. Len(topic.raw))
  BY <1>2 DEF Readings
<1>5. IsFiniteSet(Readings(e)) /\ Cardinality(Readings(e)) \in Nat
  BY <1>3, <1>4, FS_Subset, FS_CardinalityType
<1> QED
  BY <1>2, <1>5 DEF Readings, most, Weight

LEMMA EventsFinite ==
    ASSUME topic \in Topics, NEW X \in SUBSET Candidates, NEW e
    PROVE  /\ IsFiniteSet(OfEvent(X, e)) /\ Cardinality(OfEvent(X, e)) \in Nat
           /\ OfEvent(X, e) \in SUBSET Candidates
<1>1. OfEvent(X, e) \in SUBSET Candidates
  BY DEF OfEvent
<1> QED
  BY <1>1, CandidatesFinite, FS_CardinalityType

LEMMA AwaitsFinite ==
    ASSUME topic \in Topics, NEW n, NEW s, NEW e
    PROVE  /\ IsFiniteSet(Awaits(n, s, e)) /\ Cardinality(Awaits(n, s, e)) \in Nat
           /\ Cardinality(Awaits(n, s, e)) <= Cardinality(Readings(e))
<1>1. Awaits(n, s, e) \in SUBSET Readings(e)
  BY DEF Awaits
<1> QED
  BY <1>1, ReadingsFinite, FS_Subset, FS_CardinalityType

\* Rows of which there is one for each reading are no more than the readings.
LEMMA OneForEach ==
    ASSUME topic \in Topics, NEW X \in SUBSET Candidates, OneEach(X), NEW e,
           NEW T, IsFiniteSet(T), \A r \in OfEvent(X, e) : r.raw \in T
    PROVE  Cardinality(OfEvent(X, e)) <= Cardinality(T)
<1> DEFINE S == OfEvent(X, e)
           f == [ r \in S |-> r.raw ]
<1>1. f \in [S -> T]
  OBVIOUS
<1>2. \A a, b \in S : f[a] = f[b] => a = b
  BY DEF OfEvent, OneEach
<1> HIDE DEF f, S
<1>3. f \in Injection(S, T)
  BY <1>1, <1>2 DEF Injection, IsInjective
<1> QED
  BY <1>3, FS_Injection DEF S

\* With one row per key a reading has one row before the later joins.
LEMMA StageOneEach ==
    ASSUME topic \in Topics, OneRowPerKey
    PROVE  OneEach(Stage("assets")) /\ Stage("assets") \in SUBSET Candidates
<1>1. ASSUME NEW a \in Stage("assets"), NEW b \in Stage("assets"), a.raw = b.raw
      PROVE  a = b
  <2>1. /\ a \in Places4 /\ b \in Places4
        /\ a.tags \in tag_matches(All, a.raw) /\ b.tags \in tag_matches(All, b.raw)
        /\ a.assets = 0 /\ b.assets = 0 /\ a.comps = 0 /\ b.comps = 0
    BY DEF Stage, Candidates
  <2>2. a.tags = b.tags
    <3>1. "assets" \in Lookups
      BY DEF Lookups
    <3> QED
      BY <1>1, <2>1, <3>1, OneMatch
  <2> QED
    BY <1>1, <2>1, <2>2 DEF Places4
<1> QED
  BY <1>1 DEF OneEach, Stage

\* The counts are natural numbers.
LEMMA CountsType ==
    ASSUME PipelineTypeOK, NEW e
    PROVE  /\ \A q \in Queues : cost(q, e) \in Nat
           /\ cost("sink", e) \in Nat /\ cost("comps", e) \in Nat /\ cost("assets", e) \in Nat
           /\ upserts(e) \in Nat /\ seen(e) \in Nat /\ reports(e) \in Nat
           /\ untagged(e) \in Nat /\ awaits("assets", e) \in Nat /\ awaits("comps", e) \in Nat
<1>1. /\ \A q \in Queues : Len(queue[q]) \in Int
      /\ Len(staging) \in Int /\ Len(mart) \in Int /\ scanned \in Int
  BY DEF PipelineTypeOK
<1>2. \A n \in Int : \A s, C : Amount(s, n, C) \in Nat
  BY AmountType
<1>3. \A q \in Queues : cost(q, e) \in Nat
  BY <1>1, <1>2 DEF cost
<1>4. "sink" \in Queues /\ "comps" \in Queues /\ "assets" \in Queues
  BY DEF Queues, Lookups
<1>5. untagged(e) \in Nat
  <2>1. Stage("assets") \ tagged(read) \in SUBSET Candidates
    BY DEF Stage
  <2> QED
    BY <2>1, EventsFinite DEF untagged, Untagged, PipelineTypeOK
<1>6. awaits("assets", e) \in Nat /\ awaits("comps", e) \in Nat
  BY AwaitsFinite DEF awaits, PipelineTypeOK
<1>7. upserts(e) \in Nat /\ seen(e) \in Nat /\ reports(e) \in Nat
  BY <1>1, <1>2 DEF upserts, seen, reports
<1> QED
  BY <1>3, <1>4, <1>5, <1>6, <1>7

\* What is counted, after a step.
LEMMA SameCounts ==
    ASSUME topic' = topic
    PROVE  /\ OneRowPerKey' = OneRowPerKey /\ EventIds' = EventIds
           /\ \A e : /\ Single(e)' = Single(e) /\ Weight(e)' = Weight(e)
                     /\ Costly(e)' = Costly(e) /\ RowsOf(e)' = RowsOf(e)
                     /\ Bound(e)' = Bound(e)
                     /\ upserts(e)' = Amount(staging', Len(staging'), UpsertsOf(e))
                     /\ seen(e)' = Amount(staging', scanned', UpsertsOf(e))
                     /\ reports(e)' = Amount(mart', Len(mart'), BreachesOf(e))
                     /\ untagged(e)' = Cardinality(OfEvent(Stage("assets") \ tagged(read'), e))
           /\ \A q, e : cost(q, e)' = Amount(queue'[q], Len(queue'[q]), Costly(e))
           /\ \A s, e : awaits(s, e)' = Cardinality(Awaits(read'[s], s, e))
<1>1. /\ EventIds' = EventIds /\ Change' = Change /\ Breaches' = Breaches
      /\ Candidates' = Candidates /\ All' = All /\ OneRowPerKey' = OneRowPerKey
      /\ \A e : RowsOf(e)' = RowsOf(e)
  BY SameTopics
<1>2. \A e : Readings(e)' = Readings(e)
  BY DEF Readings
<1>3. \A e : Single(e)' = Single(e) /\ Weight(e)' = Weight(e)
  BY <1>2 DEF Single, Weight
<1>4. \A e : /\ Costly(e)' = Costly(e) /\ UpsertsOf(e)' = UpsertsOf(e)
             /\ BreachesOf(e)' = BreachesOf(e)
  BY <1>1, <1>3 DEF Costly, UpsertsOf, BreachesOf, Upsert
<1>5. \A e : Bound(e)' = Bound(e)
  BY <1>2, <1>3 DEF Bound, most
<1>6. \A e : /\ upserts(e)' = Amount(staging', Len(staging'), UpsertsOf(e))
             /\ seen(e)' = Amount(staging', scanned', UpsertsOf(e))
             /\ reports(e)' = Amount(mart', Len(mart'), BreachesOf(e))
  BY <1>4 DEF upserts, seen, reports, Amount
<1>7. \A q, e : cost(q, e)' = Amount(queue'[q], Len(queue'[q]), Costly(e))
  BY <1>4 DEF cost, Amount
<1>8. Stage("assets")' = Stage("assets") /\ tagged(read)' = tagged(read')
  BY <1>1 DEF Stage, tagged, tag_matches
<1>9. \A e : untagged(e)' = Cardinality(OfEvent(Stage("assets") \ tagged(read'), e))
  BY <1>8 DEF untagged, Untagged, OfEvent
<1>10. \A s, e : awaits(s, e)' = Cardinality(Awaits(read'[s], s, e))
  BY <1>1, <1>2 DEF awaits, Awaits, tag_matches, fits
<1> QED
  BY <1>1, <1>3, <1>4, <1>5, <1>6, <1>7, <1>9, <1>10

\* Nothing is written at the start, and all is to be read.
LEMMA ReportsInit ==
    ASSUME Init
    PROVE  ReportsInv
<1>0. PipelineTypeOK /\ topic \in Topics
  BY PipelineInit DEF PipelineInv, PipelineTypeOK
<1>1. /\ read = NotRead /\ queue = NoQueue /\ staging = <<>> /\ mart = <<>> /\ scanned = 0
      /\ submissions = 0
  BY DEF Init
<1>2. SUFFICES ASSUME OneRowPerKey, NEW e \in EventIds
               PROVE  room(e) <= Bound(e) /\ reports(e) <= seen(e)
  <2>1. Len(<<>>) = 0
    OBVIOUS
  <2> QED
    BY <1>1, <2>1 DEF ReportsInv
<1>3. \A s, C : Amount(s, Len(<<>>), C) = 0 /\ Amount(s, 0, C) = 0
  <2>1. Len(<<>>) = 0 /\ 0 \in Int /\ 1 .. 0 = {}
    OBVIOUS
  <2> QED
    BY <2>1, AmountType
<1>4. /\ upserts(e) = 0 /\ seen(e) = 0 /\ reports(e) = 0
      /\ cost("sink", e) = 0 /\ cost("comps", e) = 0 /\ cost("assets", e) = 0
  <2>1. /\ NoQueue.sink = <<>> /\ NoQueue.comps = <<>> /\ NoQueue.assets = <<>>
    BY DEF NoQueue, Lookups
  <2> QED
    BY <1>1, <1>3, <2>1 DEF upserts, seen, reports, cost
<1>5. untagged(e) <= Cardinality(Readings(e))
  <2> DEFINE X == Stage("assets") \ tagged(read)
  <2>1. OneEach(X) /\ X \in SUBSET Candidates
    BY <1>0, <1>2, StageOneEach DEF OneEach
  <2>2. \A r \in OfEvent(X, e) : r.raw \in Readings(e)
    <3>1. \A r \in X : r.raw \in 1 .. Len(topic.raw)
      BY <2>1 DEF Candidates, Places4
    <3> HIDE DEF X
    <3> QED
      BY <1>0, <3>1, ReadingsFinite DEF OfEvent
  <2> HIDE DEF X
  <2>3. Cardinality(OfEvent(X, e)) <= Cardinality(Readings(e))
    BY <1>0, <2>1, <2>2, OneForEach, ReadingsFinite
  <2> QED
    BY <2>3 DEF untagged, Untagged, X
<1>6. \A s \in Lookups : awaits(s, e) <= most(s, e)
  <2>1. ASSUME NEW s \in Lookups, topic[s] = <<>> PROVE awaits(s, e) = 0
    <3>1. Len(topic[s]) = 0 /\ read[s] = 0
      BY <1>1, <2>1 DEF NotRead, Lookups, Sources
    <3>2. read[s] + 1 .. Len(topic[s]) = {}
      BY <3>1
    <3>3. Awaits(read[s], s, e) = {}
      BY <3>2 DEF Awaits
    <3> QED
      BY <3>3, FS_EmptySet DEF awaits
  <2> QED
    BY <1>0, <2>1, AwaitsFinite DEF awaits, most
<1>7. /\ awaits("assets", e) <= most("assets", e)
      /\ awaits("comps", e) <= most("comps", e)
      /\ most("assets", e) \in Nat /\ most("comps", e) \in Nat
      /\ Cardinality(Readings(e)) \in Nat /\ Weight(e) \in {1, 2}
  BY <1>0, <1>6, ReadingsFinite DEF Lookups
<1>8. /\ untagged(e) \in Nat /\ awaits("assets", e) \in Nat /\ awaits("comps", e) \in Nat
  BY <1>0, CountsType
<1>9. CASE Weight(e) = 1
  BY <1>4, <1>5, <1>7, <1>8, <1>9 DEF room, Bound
<1>10. CASE Weight(e) = 2
  BY <1>4, <1>5, <1>7, <1>8, <1>10 DEF room, Bound
<1> QED
  BY <1>7, <1>9, <1>10


\* What a queue costs with changes put at its end.
LEMMA PutCosts ==
    ASSUME topic' = topic, NEW Q \in [Queues -> Seq(Change)], NEW s \in Queues,
           NEW out \in Seq(Change), queue' = Put(Q, s, out), NEW e
    PROVE  /\ Amount(out, Len(out), Costly(e)) \in Nat
           /\ \A q \in Queues :
                  /\ Amount(Q[q], Len(Q[q]), Costly(e)) \in Nat
                  /\ cost(q, e)' = Amount(Q[q], Len(Q[q]), Costly(e))
                         + IF q = s THEN Amount(out, Len(out), Costly(e)) ELSE 0
<1>1. /\ queue' \in [Queues -> Seq(Change)]
      /\ \A q \in Queues : queue'[q] = IF q = s THEN Q[q] \o out ELSE Q[q]
  BY PutIs
<1>2. \A q \in Queues : Q[q] \in Seq(Change)
  OBVIOUS
<1>3. \A q \in Queues : cost(q, e)' = Amount(queue'[q], Len(queue'[q]), Costly(e))
  BY SameCounts
<1>4. ASSUME NEW q \in Queues
      PROVE  /\ Amount(out, Len(out), Costly(e)) \in Nat
             /\ Amount(Q[q], Len(Q[q]), Costly(e)) \in Nat
             /\ cost(q, e)' = Amount(Q[q], Len(Q[q]), Costly(e))
                    + IF q = s THEN Amount(out, Len(out), Costly(e)) ELSE 0
  <2>1. /\ Amount(Q[q] \o out, Len(Q[q] \o out), Costly(e))
             = Amount(Q[q], Len(Q[q]), Costly(e)) + Amount(out, Len(out), Costly(e))
        /\ Amount(Q[q], Len(Q[q]), Costly(e)) \in Nat
        /\ Amount(out, Len(out), Costly(e)) \in Nat
    BY <1>2, AmountOfConcat
  <2>2. cost(q, e)' = Amount(queue'[q], Len(queue'[q]), Costly(e))
    BY <1>3
  <2>3. CASE q = s
    <3>1. queue'[q] = Q[q] \o out
      BY <1>1, <2>3
    <3> QED
      BY <2>1, <2>2, <2>3, <3>1
  <2>4. CASE q # s
    <3>1. queue'[q] = Q[q]
      BY <1>1, <2>4
    <3> QED
      BY <2>1, <2>2, <2>4, <3>1
  <2> QED
    BY <2>3, <2>4
<1> QED
  BY <1>4

\* What changes of a set of rows cost.
LEMMA ChangesCost ==
    ASSUME topic \in Topics, NEW op \in {"-D", "+I"}, NEW X \in SUBSET Candidates,
           NEW out \in Changes(op, X), NEW e
    PROVE  Amount(out, Len(out), Costly(e))
             = IF op = "+I" \/ ~Single(e) THEN Cardinality(OfEvent(X, e)) ELSE 0
<1> DEFINE R == { x \in X : [ op |-> op, row |-> x ] \in Costly(e) }
<1>1. Amount(out, Len(out), Costly(e)) = Cardinality(R)
  BY CandidatesFinite, ChangesAmount
<1>2. \A x \in X : [ op |-> op, row |-> x ] \in Change
  BY DEF Change
<1>3. \A x \in X : [ op |-> op, row |-> x ] \in Costly(e)
                     <=> topic.raw[x.raw].event_id = e /\ (op = "+I" \/ ~Single(e))
  BY <1>2 DEF Costly
<1>4. R = IF op = "+I" \/ ~Single(e) THEN OfEvent(X, e) ELSE {}
  BY <1>3 DEF OfEvent
<1> HIDE DEF R
<1> QED
  BY <1>1, <1>4, FS_EmptySet

\* What room there is, is a number.
LEMMA RoomType ==
    ASSUME PipelineTypeOK, NEW e
    PROVE  /\ room(e) \in Nat /\ Bound(e) \in Nat /\ Weight(e) \in {1, 2}
           /\ Weight(e) * (awaits("assets", e) + awaits("comps", e)) \in Nat
<1>1. topic \in Topics /\ "assets" \in Lookups /\ "comps" \in Lookups
  BY DEF PipelineTypeOK, Lookups
<1>2. /\ Weight(e) \in {1, 2} /\ Cardinality(Readings(e)) \in Nat
      /\ most("assets", e) \in Nat /\ most("comps", e) \in Nat
  BY <1>1, ReadingsFinite
<1>3. /\ cost("sink", e) \in Nat /\ cost("comps", e) \in Nat /\ cost("assets", e) \in Nat
      /\ upserts(e) \in Nat /\ untagged(e) \in Nat
      /\ awaits("assets", e) \in Nat /\ awaits("comps", e) \in Nat
  BY CountsType
<1>4. \A m, n \in Nat : Weight(e) * (m + n) \in Nat
  BY <1>2
<1> QED
  BY <1>2, <1>3, <1>4 DEF room, Bound

\* What is left to prove of a step of the enrich job.
LEMMA RoomKept ==
    ASSUME PipelineTypeOK, ReportsInv, UNCHANGED <<topic, submissions, scanned, mart>>,
           OneRowPerKey /\ submissions = 0 /\ scanned <= Len(staging) =>
               /\ scanned <= Len(staging')
               /\ \A e \in EventIds : /\ seen(e)' = seen(e)
                                      /\ room(e)' \in Int /\ room(e)' <= room(e)
    PROVE  ReportsInv'
<1>1. OneRowPerKey' = OneRowPerKey /\ EventIds' = EventIds
  BY SameCounts
<1>2. SUFFICES ASSUME OneRowPerKey, submissions = 0
               PROVE  /\ scanned' <= Len(staging')
                      /\ \A e \in EventIds : room(e)' <= Bound(e)' /\ reports(e)' <= seen(e)'
  BY <1>1 DEF ReportsInv
<1>3. scanned <= Len(staging) /\ scanned' <= Len(staging')
  BY <1>2 DEF ReportsInv
<1>4. ASSUME NEW e \in EventIds
      PROVE  room(e)' <= Bound(e)' /\ reports(e)' <= seen(e)'
  <2>1. /\ seen(e)' = seen(e) /\ room(e)' \in Int /\ room(e)' <= room(e)
        /\ room(e) <= Bound(e) /\ reports(e) <= seen(e)
    BY <1>2, <1>3 DEF ReportsInv
  <2>2. Bound(e)' = Bound(e) /\ reports(e)' = reports(e)
    BY SameCounts DEF reports
  <2>3. room(e) \in Int /\ Bound(e) \in Int
    <3>1. room(e) \in Nat /\ Bound(e) \in Nat
      BY RoomType
    <3> QED
      BY <3>1
  <2> QED
    BY <2>1, <2>2, <2>3
<1> QED
  BY <1>3, <1>4

\* The first join puts out rows it had yet to.
LEMMA ReadFirstKeepsReports ==
    ASSUME PipelineInv, ReportsInv, NEW s \in {"raw", "tags"}, ReadFirst(s)
    PROVE  ReportsInv'
<1> DEFINE new == tagged(read') \ tagged(read)
<1>0. /\ PipelineTypeOK /\ topic \in Topics /\ ReadOf(read) /\ s \in Sources
      /\ queue \in [Queues -> Seq(Change)]
      /\ read[s] < Len(topic[s]) /\ read' = [read EXCEPT ![s] = @ + 1]
      /\ UNCHANGED <<topic, submissions, staging, scanned, mart>>
  BY DEF PipelineInv, PipelineTypeOK, ReadOf, ReadFirst, Sources, anomaly
<1>1. PICK out \in Changes("+I", new) : queue' = Put(queue, "assets", out)
  BY DEF ReadFirst
<1>2. /\ ReadOf(read') /\ read'.assets = read.assets /\ read'.comps = read.comps
      /\ tagged(read) \subseteq tagged(read')
  <2>1. /\ ReadOf(read') /\ read'[s] = read[s] + 1 /\ read[s] \in Nat
        /\ \A q \in Sources : q # s => read'[q] = read[q]
    BY <1>0, OneMoreRead
  <2>2. read.raw \in Nat /\ read.tags \in Nat
    BY <1>0 DEF ReadOf, Sources
  <2>3. read.raw <= read'.raw /\ read.tags <= read'.tags
    BY <2>1, <2>2 DEF Sources
  <2> QED
    BY <1>0, <2>1, <2>3, TaggedGrows DEF Sources
<1>3. tagged(read') \subseteq Stage("assets") /\ Stage("assets") \in SUBSET Candidates
  BY <1>0, <1>2, TaggedIs, PartOfSets DEF Stage
<1>4. new \in SUBSET Candidates
  BY <1>3
<1>5. ASSUME NEW e \in EventIds
      PROVE  /\ seen(e)' = seen(e) /\ room(e)' \in Int /\ room(e)' <= room(e)
  <2> DEFINE A == OfEvent(new, e)
             B == OfEvent(Stage("assets") \ tagged(read'), e)
  <2>1. /\ Amount(out, Len(out), Costly(e)) = Cardinality(A)
        /\ Cardinality(A) \in Nat /\ IsFiniteSet(A)
        /\ out \in Seq(Change)
    <3>1. IsFiniteSet(new)
      BY <1>0, <1>4, CandidatesFinite
    <3> HIDE DEF new
    <3>2. out \in Seq(Change)
      BY <1>1, <1>4, <3>1, ChangesType
    <3>3. Amount(out, Len(out), Costly(e)) = Cardinality(OfEvent(new, e))
      BY <1>0, <1>1, <1>4, ChangesCost
    <3>4. IsFiniteSet(OfEvent(new, e)) /\ Cardinality(OfEvent(new, e)) \in Nat
      BY <1>0, <1>4, EventsFinite
    <3> QED
      BY <3>2, <3>3, <3>4
  <2>2. IsFiniteSet(B) /\ Cardinality(B) \in Nat
    <3>1. Stage("assets") \ tagged(read') \in SUBSET Candidates
      BY <1>3
    <3> QED
      BY <1>0, <3>1, EventsFinite
  <2>3. untagged(e) = Cardinality(A) + Cardinality(B) /\ untagged(e)' = Cardinality(B)
    <3>1. Untagged(e) = A \union B /\ A \intersect B = {}
      BY <1>2, <1>3 DEF Untagged, OfEvent
    <3>2. untagged(e)' = Cardinality(B)
      BY <1>0, SameCounts
    <3> HIDE DEF A, B
    <3> QED
      BY <2>1, <2>2, <3>1, <3>2, DisjointUnion DEF untagged
  <2> HIDE DEF A, B, new
  <2>4. /\ "assets" \in Queues /\ "comps" \in Queues /\ "sink" \in Queues
    BY DEF Queues, Lookups
  <2>5. /\ cost("assets", e)' = cost("assets", e) + Cardinality(A)
        /\ cost("comps", e)' = cost("comps", e) /\ cost("sink", e)' = cost("sink", e)
    <3>0. \A q \in Queues : cost(q, e)' = Amount(queue[q], Len(queue[q]), Costly(e))
              + IF q = "assets" THEN Amount(out, Len(out), Costly(e)) ELSE 0
      <4>1. /\ topic' = topic /\ queue \in [Queues -> Seq(Change)] /\ out \in Seq(Change)
            /\ queue' = Put(queue, "assets", out) /\ "assets" \in Queues
        BY <1>0, <1>1, <2>1, <2>4
      <4> QED
        BY ONLY <4>1, PutCosts
    <3>1. \A q \in Queues : cost(q, e)' = cost(q, e)
              + IF q = "assets" THEN Amount(out, Len(out), Costly(e)) ELSE 0
      <4>1. \A q : cost(q, e) = Amount(queue[q], Len(queue[q]), Costly(e))
        BY DEF cost
      <4> QED
        BY <3>0, <4>1
    <3>2. cost("comps", e) \in Nat /\ cost("sink", e) \in Nat
      BY <1>0, CountsType
    <3> QED
      BY <2>1, <2>4, <3>1, <3>2
  <2>6. /\ upserts(e)' = upserts(e) /\ seen(e)' = seen(e)
        /\ awaits("assets", e)' = awaits("assets", e)
        /\ awaits("comps", e)' = awaits("comps", e) /\ Weight(e)' = Weight(e)
    BY <1>0, <1>2, SameCounts DEF upserts, seen, awaits
  <2>7. Weight(e) \in {1, 2}
    BY <1>0, ReadingsFinite
  <2>8. /\ upserts(e) \in Nat /\ awaits("assets", e) \in Nat /\ awaits("comps", e) \in Nat
        /\ cost("sink", e) \in Nat /\ cost("comps", e) \in Nat /\ cost("assets", e) \in Nat
    BY <1>0, CountsType
  <2>9. room(e)' = upserts(e)' + cost("sink", e)' + cost("comps", e)' + cost("assets", e)'
             + untagged(e)' + Weight(e)' * (awaits("assets", e)' + awaits("comps", e)')
    BY DEF room
  <2>10. Weight(e) * (awaits("assets", e) + awaits("comps", e)) \in Nat
    BY <1>0, RoomType
  <2> QED
    BY <2>1, <2>2, <2>3, <2>5, <2>6, <2>8, <2>9, <2>10 DEF room
<1> HIDE DEF new
<1> QED
  BY <1>0, <1>5, RoomKept

\* A later join passes each change of its left side on as one change.
LEMMA TakeLeftKeepsReports ==
    ASSUME PipelineInv, ReportsInv, NEW s \in Lookups, TakeLeft(s)
    PROVE  ReportsInv'
<1> DEFINE c == Head(queue[s])
           X == looked_up(s, c.row, read)
           Q == [queue EXCEPT ![s] = Tail(@)]
<1>0. /\ PipelineTypeOK /\ topic \in Topics /\ ReadOf(read) /\ s \in Queues
      /\ after(s) \in Queues /\ after(s) # s
      /\ queue \in [Queues -> Seq(Change)] /\ queue[s] # <<>> /\ queue[s] \in Seq(Change)
      /\ UNCHANGED <<topic, submissions, read, staging, scanned, mart>>
  BY DEF PipelineInv, PipelineTypeOK, ReadOf, Queues, Lookups, after, TakeLeft, anomaly
<1>1. c \in Change /\ c.row \in Stage(s)
  BY LeftTaken
<1>2. PICK out \in Changes(c.op, X) : queue' = Put(Q, after(s), out) /\ out \in Seq(Change)
  BY LeftTaken
<1>3. Q \in [Queues -> Seq(Change)] /\ \A q \in Queues : Q[q] = IF q = s THEN Tail(queue[s]) ELSE queue[q]
  <2>1. Tail(queue[s]) \in Seq(Change)
    BY <1>0
  <2> QED
    BY <1>0, <2>1
<1>4. ASSUME OneRowPerKey, NEW e \in EventIds
      PROVE  /\ seen(e)' = seen(e) /\ room(e)' \in Int /\ room(e)' <= room(e)
  <2> DEFINE one == IF c \in Costly(e) THEN 1 ELSE 0
  <2>1. Amount(out, Len(out), Costly(e)) = one
    <3>1. PICK x \in X : X = {x} /\ topic.raw[x.raw].event_id = topic.raw[c.row.raw].event_id
      BY <1>0, <1>1, <1>4, LookedUpIs
    <3>2. X \in SUBSET Candidates /\ c.op \in {"-D", "+I"}
      BY <1>0, <1>1, LookedUpIs DEF Change
    <3>3. Amount(out, Len(out), Costly(e))
            = IF c.op = "+I" \/ ~Single(e) THEN Cardinality(OfEvent(X, e)) ELSE 0
      <4> HIDE DEF X, c
      <4> QED
        BY <1>0, <1>2, <3>2, ChangesCost
    <3>4. OfEvent(X, e) = IF topic.raw[c.row.raw].event_id = e THEN {x} ELSE {}
      BY <3>1 DEF OfEvent
    <3>5. Cardinality({x}) = 1 /\ Cardinality({}) = 0
      BY FS_Singleton, FS_EmptySet
    <3>6. c \in Costly(e) <=> topic.raw[c.row.raw].event_id = e /\ (c.op = "+I" \/ ~Single(e))
      BY <1>1 DEF Costly
    <3> HIDE DEF X, c
    <3> QED
      BY <3>3, <3>4, <3>5, <3>6
  <2>2. cost(s, e) = Amount(Tail(queue[s]), Len(Tail(queue[s])), Costly(e)) + one
    BY <1>0, AmountOfTail DEF cost
  <2> HIDE DEF one, X, c
  <2>3. one \in {0, 1}
    BY DEF one
  <2>4. /\ cost(s, e)' = cost(s, e) - one
        /\ cost(after(s), e)' = cost(after(s), e) + one
        /\ \A q \in Queues : q # s /\ q # after(s) => cost(q, e)' = cost(q, e)
    <3>1. \A q \in Queues :
              /\ Amount(Q[q], Len(Q[q]), Costly(e)) \in Nat
              /\ cost(q, e)' = Amount(Q[q], Len(Q[q]), Costly(e))
                     + IF q = after(s) THEN Amount(out, Len(out), Costly(e)) ELSE 0
      <4> HIDE DEF Q
      <4> QED
        BY <1>0, <1>2, <1>3, PutCosts
    <3>2. \A q \in Queues : q # s => Amount(Q[q], Len(Q[q]), Costly(e)) = cost(q, e)
      BY <1>3 DEF cost
    <3>3. Amount(Q[s], Len(Q[s]), Costly(e)) = cost(s, e) - one
                 /\ Amount(Q[s], Len(Q[s]), Costly(e)) \in Nat
      <4>1. Q[s] = Tail(queue[s]) /\ Amount(Q[s], Len(Q[s]), Costly(e)) \in Nat
        BY <1>0, <1>3, <3>1
      <4> HIDE DEF Q
      <4> QED
        BY <2>2, <2>3, <4>1
    <3> HIDE DEF Q
    <3>4. cost(s, e)' = cost(s, e) - one
      BY <1>0, <3>1, <3>3
    <3>5. cost(after(s), e)' = cost(after(s), e) + one
      BY <1>0, <2>1, <3>1, <3>2
    <3>6. \A q \in Queues : q # s /\ q # after(s) => cost(q, e)' = cost(q, e)
      <4>1. \A q \in Queues : cost(q, e) \in Nat
        BY <1>0, CountsType
      <4> QED
        BY <3>1, <3>2, <4>1
    <3> QED
      BY <3>4, <3>5, <3>6
  <2>5. /\ cost("sink", e) \in Nat /\ cost("comps", e) \in Nat /\ cost("assets", e) \in Nat
        /\ upserts(e) \in Nat /\ untagged(e) \in Nat
        /\ awaits("assets", e) \in Nat /\ awaits("comps", e) \in Nat
    BY <1>0, CountsType
  <2>6. /\ cost("sink", e)' + cost("comps", e)' + cost("assets", e)'
             = cost("sink", e) + cost("comps", e) + cost("assets", e)
        /\ cost("sink", e)' \in Int /\ cost("comps", e)' \in Int /\ cost("assets", e)' \in Int
    <3>1. "sink" \in Queues /\ "comps" \in Queues /\ "assets" \in Queues
      BY DEF Queues, Lookups
    <3>2. CASE s = "assets"
      <4>1. after(s) = "comps"
        BY <3>2 DEF after
      <4> QED
        BY <2>3, <2>4, <2>5, <3>1, <3>2, <4>1
    <3>3. CASE s = "comps"
      <4>1. after(s) = "sink"
        BY <3>3 DEF after
      <4> QED
        BY <2>3, <2>4, <2>5, <3>1, <3>3, <4>1
    <3> QED
      BY <3>2, <3>3 DEF Lookups
  <2>7. /\ upserts(e)' = upserts(e) /\ seen(e)' = seen(e) /\ untagged(e)' = untagged(e)
        /\ awaits("assets", e)' = awaits("assets", e)
        /\ awaits("comps", e)' = awaits("comps", e) /\ Weight(e)' = Weight(e)
    BY <1>0, SameCounts DEF upserts, seen, awaits, untagged, Untagged
  <2>8. Weight(e) \in {1, 2}
    BY <1>0, ReadingsFinite
  <2>9. room(e)' = upserts(e)' + cost("sink", e)' + cost("comps", e)' + cost("assets", e)'
             + untagged(e)' + Weight(e)' * (awaits("assets", e)' + awaits("comps", e)')
    BY DEF room
  <2>10. Weight(e) * (awaits("assets", e) + awaits("comps", e)) \in Nat
    BY <1>0, RoomType
  <2> QED
    BY <2>5, <2>6, <2>7, <2>9, <2>10 DEF room
<1> QED
  BY <1>0, <1>4, RoomKept


\* A later join that reads a row of its right side withdraws and puts out a row
\* for each reading that awaited it, at most.
LEMMA ReadRightKeepsReports ==
    ASSUME PipelineInv, ReportsInv, NEW s \in Lookups, ReadRight(s)
    PROVE  ReportsInv'
<1> DEFINE k == read[s] + 1
           new == { [r EXCEPT ![s] = k] : r \in waiting(s) }
<1>0. /\ PipelineTypeOK /\ topic \in Topics /\ ReadOf(read) /\ s \in Sources
      /\ after(s) \in Queues /\ read[s] \in Nat
      /\ queue \in [Queues -> Seq(Change)]
      /\ UNCHANGED <<topic, submissions, left, staging, scanned, mart>>
  BY DEF PipelineInv, PipelineTypeOK, ReadOf, Queues, Lookups, Sources, after,
         ReadRight, anomaly
<1>1. /\ ReadOf(read') /\ read'[s] = k /\ k \in 1 .. Len(topic[s])
      /\ \A q \in Sources : q # s => read'[q] = read[q]
      /\ left[s] \in SetsOf(s) /\ unmatched(s) \subseteq Candidates /\ new \subseteq Candidates
  BY RightRead
<1>2. PICK out \in Changes("-D", unmatched(s)), add \in Changes("+I", new) :
          /\ queue' = Put(queue, after(s), out \o add)
          /\ out \in Seq(Change) /\ add \in Seq(Change)
  BY RightRead
<1>3. /\ unmatched(s) \subseteq waiting(s) /\ waiting(s) \subseteq left[s]
      /\ left[s] \subseteq Stage(s)
      /\ \A r \in waiting(s) : fits(s, r, k)
  BY <1>1, PartOfSets DEF unmatched, waiting
<1>4. ASSUME OneRowPerKey, NEW e \in EventIds
      PROVE  /\ seen(e)' = seen(e) /\ room(e)' \in Int /\ room(e)' <= room(e)
  <2> DEFINE A == Awaits(read[s], s, e)
             B == Awaits(k, s, e)
             D == Cardinality(A \ B)
  <2>1. IsFiniteSet(A) /\ IsFiniteSet(B) /\ Cardinality(A) \in Nat /\ Cardinality(B) \in Nat
    BY <1>0, AwaitsFinite
  <2>2. B \subseteq A
    <3>1. k + 1 .. Len(topic[s]) \subseteq read[s] + 1 .. Len(topic[s])
      BY <1>0
    <3> QED
      BY <3>1 DEF Awaits
  <2>3. IsFiniteSet(A \ B) /\ D \in Nat /\ Cardinality(A) = Cardinality(B) + D
    <3> HIDE DEF A, B
    <3> DEFINE C == A \ B
    <3>1. A = C \union B /\ C \intersect B = {}
      BY <2>2
    <3>2. IsFiniteSet(C)
      BY <2>1, FS_Difference
    <3> HIDE DEF C
    <3>3. Cardinality(C \union B) = Cardinality(C) + Cardinality(B)
          /\ Cardinality(C) \in Nat
      BY <2>1, <3>1, <3>2, DisjointUnion
    <3>4. IsFiniteSet(C) /\ Cardinality(C) \in Nat
          /\ Cardinality(A) = Cardinality(B) + Cardinality(C)
      BY <2>1, <3>1, <3>2, <3>3
    <3> QED
      BY <3>4 DEF C
  \* The row is the only one a reading that awaits it can have.
  <2>4. ASSUME NEW r \in waiting(s), topic.raw[r.raw].event_id = e
        PROVE  r.raw \in A \ B
    <3>1. /\ r \in Candidates /\ r.raw \in 1 .. Len(topic.raw)
          /\ r.tags \in tag_matches(All, r.raw)
      BY <1>3 DEF Stage, Candidates, Places4
    <3>2. r.raw \in Readings(e)
      BY <1>0, <2>4, <3>1, ReadingsFinite
    <3>3. \A n : fits(s, Tagged(r.raw, r.tags), n) <=> fits(s, r, n)
      BY DEF fits, Tagged
    <3>4. r.raw \in A
      <4>1. k \in read[s] + 1 .. Len(topic[s])
        BY <1>0, <1>1
      <4> QED
        BY <1>3, <3>1, <3>2, <3>3, <4>1 DEF Awaits
    <3>5. ASSUME r.raw \in B PROVE FALSE
      <4>1. PICK j \in tag_matches(All, r.raw), n \in k + 1 .. Len(topic[s]) :
                fits(s, Tagged(r.raw, j), n)
        BY <3>5 DEF Awaits
      <4>2. j = r.tags
        BY <1>0, <1>4, <3>1, OneMatch
      <4>3. All[s] = Len(topic[s]) /\ k \in 1 .. All[s] /\ n \in 1 .. All[s] /\ n # k
        BY <1>0, <1>1 DEF All
      <4>4. k \in matches(s, r, All) /\ n \in matches(s, r, All)
        BY <1>3, <3>3, <4>1, <4>2, <4>3 DEF matches
      <4> QED
        BY <1>0, <1>4, <4>3, <4>4, OneMatch
    <3> QED
      BY <3>4, <3>5
  <2> HIDE DEF A, B
  <2>5. OneEach(waiting(s)) /\ OneEach(unmatched(s)) /\ OneEach(new)
    <3>1. OneEach(left[s])
      BY <1>1, <1>4 DEF SetsOf
    <3>2. ASSUME NEW x \in new, NEW y \in new, x.raw = y.raw PROVE x = y
      <4>1. PICK a \in waiting(s) : x = [a EXCEPT ![s] = k]
        OBVIOUS
      <4>2. PICK b \in waiting(s) : y = [b EXCEPT ![s] = k]
        OBVIOUS
      <4>3. x.raw = a.raw /\ y.raw = b.raw
        BY <1>0, <1>1, <1>3, <4>1, <4>2, RowWithPlace
      <4>4. a = b
        BY <1>3, <3>1, <3>2, <4>3 DEF OneEach
      <4> QED
        BY <4>1, <4>2, <4>4
    <3> HIDE DEF new
    <3> QED
      BY <1>3, <3>1, <3>2 DEF OneEach
  <2>6. Cardinality(OfEvent(unmatched(s), e)) <= D
    <3>1. \A r \in OfEvent(unmatched(s), e) : r.raw \in A \ B
      BY <1>3, <2>4 DEF OfEvent
    <3> QED
      BY <1>0, <1>1, <2>3, <2>5, <3>1, OneForEach
  <2>7. Cardinality(OfEvent(new, e)) <= D
    <3>1. ASSUME NEW x \in OfEvent(new, e) PROVE x.raw \in A \ B
      <4>1. x \in new /\ topic.raw[x.raw].event_id = e
        BY DEF OfEvent
      <4>2. PICK a \in waiting(s) : x = [a EXCEPT ![s] = k]
        BY <4>1
      <4>3. x.raw = a.raw
        BY <1>0, <1>1, <1>3, <4>2, RowWithPlace
      <4> QED
        BY <2>4, <4>1, <4>3
    <3> HIDE DEF new
    <3> QED
      BY <1>0, <1>1, <2>3, <2>5, <3>1, OneForEach
  <2>8. /\ Amount(out, Len(out), Costly(e)) \in Nat
        /\ Amount(out, Len(out), Costly(e)) <= IF Single(e) THEN 0 ELSE D
    <3>1. /\ Amount(out, Len(out), Costly(e))
               = IF Single(e) THEN 0 ELSE Cardinality(OfEvent(unmatched(s), e))
      BY <1>0, <1>1, <1>2, ChangesCost
    <3>2. Cardinality(OfEvent(unmatched(s), e)) \in Nat
      BY <1>0, <1>1, EventsFinite
    <3> QED
      BY <2>3, <2>6, <3>1, <3>2
  <2>9. /\ Amount(add, Len(add), Costly(e)) \in Nat
        /\ Amount(add, Len(add), Costly(e)) <= D
    <3> HIDE DEF new
    <3>1. Amount(add, Len(add), Costly(e)) = Cardinality(OfEvent(new, e))
      BY <1>0, <1>1, <1>2, ChangesCost
    <3>2. Cardinality(OfEvent(new, e)) \in Nat
      BY <1>0, <1>1, EventsFinite
    <3> QED
      BY <2>3, <2>7, <3>1, <3>2
  <2> HIDE DEF D, new, k
  <2> DEFINE w == out \o add
             more == Amount(w, Len(w), Costly(e))
  <2>10. more \in Nat /\ more <= Weight(e) * D /\ w \in Seq(Change)
    <3>1. more = Amount(out, Len(out), Costly(e)) + Amount(add, Len(add), Costly(e))
          /\ w \in Seq(Change)
      BY <1>2, AmountOfConcat
    <3>2. CASE Single(e)
      <4>1. Weight(e) = 1 /\ 1 * D = D
        BY <2>3, <3>2 DEF Weight
      <4> QED
        BY <2>3, <2>8, <2>9, <3>1, <3>2, <4>1
    <3>3. CASE ~Single(e)
      <4>1. Weight(e) = 2
        BY <3>3 DEF Weight
      <4> QED
        BY <2>3, <2>8, <2>9, <3>1, <3>3, <4>1
    <3> QED
      BY <3>2, <3>3
  <2> HIDE DEF w, more
  <2>11. \A q \in Queues : cost(q, e)' = cost(q, e) + IF q = after(s) THEN more ELSE 0
    <3>1. \A q \in Queues : cost(q, e)' = Amount(queue[q], Len(queue[q]), Costly(e))
              + IF q = after(s) THEN Amount(w, Len(w), Costly(e)) ELSE 0
      <4>1. /\ topic' = topic /\ queue \in [Queues -> Seq(Change)] /\ w \in Seq(Change)
            /\ queue' = Put(queue, after(s), w) /\ after(s) \in Queues
        BY <1>0, <1>2, <2>10 DEF w
      <4> QED
        BY ONLY <4>1, PutCosts
    <3>2. \A q : cost(q, e) = Amount(queue[q], Len(queue[q]), Costly(e))
      BY DEF cost
    <3> QED
      BY <3>1, <3>2 DEF more
  <2>12. /\ cost("sink", e) \in Nat /\ cost("comps", e) \in Nat /\ cost("assets", e) \in Nat
         /\ upserts(e) \in Nat /\ untagged(e) \in Nat
         /\ awaits("assets", e) \in Nat /\ awaits("comps", e) \in Nat
    BY <1>0, CountsType
  <2>13. /\ cost("sink", e)' + cost("comps", e)' + cost("assets", e)'
              = cost("sink", e) + cost("comps", e) + cost("assets", e) + more
         /\ cost("sink", e)' \in Int /\ cost("comps", e)' \in Int /\ cost("assets", e)' \in Int
    <3>1. "sink" \in Queues /\ "comps" \in Queues /\ "assets" \in Queues
          /\ after(s) \in {"sink", "comps"}
      BY DEF Queues, Lookups, after
    <3>2. CASE after(s) = "sink"
      BY <2>10, <2>11, <2>12, <3>1, <3>2
    <3>3. CASE after(s) = "comps"
      BY <2>10, <2>11, <2>12, <3>1, <3>3
    <3> QED
      BY <3>1, <3>2, <3>3
  <2>14. /\ upserts(e)' = upserts(e) /\ seen(e)' = seen(e) /\ Weight(e)' = Weight(e)
         /\ untagged(e)' = untagged(e)
    <3>1. tagged(read') = tagged(read)
      <4>1. read'.raw = read.raw /\ read'.tags = read.tags
        BY <1>1 DEF Lookups, Sources
      <4> QED
        BY <4>1 DEF tagged, tag_matches
    <3>2. /\ untagged(e)' = Cardinality(OfEvent(Stage("assets") \ tagged(read'), e))
          /\ upserts(e)' = Amount(staging', Len(staging'), UpsertsOf(e))
          /\ seen(e)' = Amount(staging', scanned', UpsertsOf(e))
          /\ Weight(e)' = Weight(e)
      BY <1>0, SameCounts
    <3> QED
      BY <1>0, <3>1, <3>2 DEF upserts, seen, untagged, Untagged
  <2>15. awaits("assets", e)' + awaits("comps", e)' + D
             = awaits("assets", e) + awaits("comps", e)
         /\ awaits("assets", e)' \in Nat /\ awaits("comps", e)' \in Nat
    <3>1. \A q : awaits(q, e)' = Cardinality(Awaits(read'[q], q, e))
      BY <1>0, SameCounts
    <3>2. \A q \in Lookups : q # s => awaits(q, e)' = awaits(q, e)
      BY <1>1, <3>1 DEF awaits, Lookups, Sources
    <3>3. awaits(s, e)' = Cardinality(B) /\ awaits(s, e) = Cardinality(A)
      BY <1>1, <3>1 DEF awaits, A, B
    <3> QED
      BY <2>1, <2>3, <2>12, <3>2, <3>3 DEF Lookups
  <2>16. Weight(e) \in {1, 2}
    BY <1>0, ReadingsFinite
  <2>17. room(e)' = upserts(e)' + cost("sink", e)' + cost("comps", e)' + cost("assets", e)'
             + untagged(e)' + Weight(e)' * (awaits("assets", e)' + awaits("comps", e)')
    BY DEF room
  <2>18. room(e) = upserts(e) + cost("sink", e) + cost("comps", e) + cost("assets", e)
             + untagged(e) + Weight(e) * (awaits("assets", e) + awaits("comps", e))
    BY DEF room
  <2> DEFINE S == cost("sink", e) + cost("comps", e) + cost("assets", e)
             T == awaits("assets", e) + awaits("comps", e)
             U == awaits("assets", e)' + awaits("comps", e)'
  <2>19. /\ room(e) = upserts(e) + S + untagged(e) + Weight(e) * T
         /\ room(e)' = upserts(e) + S + more + untagged(e) + Weight(e) * U
         /\ S \in Nat /\ T \in Nat /\ U \in Nat /\ U + D = T
    <3>1. /\ Weight(e) * T \in Nat /\ Weight(e) * U \in Nat
      BY <2>12, <2>15, <2>16
    <3>2. room(e)' = upserts(e) + (cost("sink", e)' + cost("comps", e)' + cost("assets", e)')
                       + untagged(e) + Weight(e) * U
      BY <2>12, <2>13, <2>14, <2>17, <3>1
    <3>3. cost("sink", e)' + cost("comps", e)' + cost("assets", e)' = S + more
      BY <2>13
    <3>4. S \in Nat /\ T \in Nat /\ U \in Nat /\ U + D = T
      BY <2>12, <2>15
    <3>5. room(e) = upserts(e) + S + untagged(e) + Weight(e) * T
      BY <2>12, <2>18, <3>1
    <3> HIDE DEF S, T, U
    <3>6. room(e)' = upserts(e) + S + more + untagged(e) + Weight(e) * U
      BY <2>10, <2>12, <3>1, <3>2, <3>3, <3>4
    <3> QED
      BY <3>4, <3>5, <3>6
  <2> HIDE DEF S, T, U
  <2>20. Weight(e) * T = Weight(e) * U + Weight(e) * D
         /\ Weight(e) * D \in Nat /\ Weight(e) * U \in Nat
    BY <2>3, <2>16, <2>19
  <2> QED
    BY <2>10, <2>12, <2>14, <2>19, <2>20
<1> HIDE DEF new, k
<1> QED
  BY <1>0, <1>4, RoomKept


\* What is counted of the records when one is written.
LEMMA RecordWritten ==
    ASSUME staging \in Seq(Record), scanned \in Nat, scanned <= Len(staging), NEW y,
           staging' = Append(staging, y), topic' = topic, scanned' = scanned, NEW e
    PROVE  /\ upserts(e)' = upserts(e) + (IF y \in UpsertsOf(e) THEN 1 ELSE 0)
           /\ seen(e)' = seen(e) /\ scanned <= Len(staging')
<1>1. /\ upserts(e)' = Amount(staging', Len(staging'), UpsertsOf(e))
      /\ seen(e)' = Amount(staging', scanned', UpsertsOf(e))
  BY SameCounts
<1>2. ASSUME NEW C
      PROVE  /\ Len(staging') = Len(staging) + 1
             /\ Amount(staging', Len(staging) + 1, C)
                  = Amount(staging, Len(staging), C) + (IF y \in C THEN 1 ELSE 0)
             /\ \A n \in Int : n <= Len(staging) =>
                    Amount(staging', n, C) = Amount(staging, n, C)
  <2> DEFINE st == Append(staging, y)
  <2>1. Len(st) = Len(staging) + 1
    BY AmountOfAppend
  <2>2. Amount(st, Len(staging) + 1, C)
          = Amount(staging, Len(staging), C) + (IF y \in C THEN 1 ELSE 0)
    BY AmountOfAppend
  <2>3. ASSUME NEW n \in Int, n <= Len(staging)
        PROVE  Amount(st, n, C) = Amount(staging, n, C)
    <3>1. \A k \in 1 .. Len(staging) : st[k] = staging[k]
      OBVIOUS
    <3>2. \A k \in 1 .. n : st[k] = staging[k]
      BY <2>3, <3>1
    <3> HIDE DEF st
    <3> QED
      BY <3>2, AmountSame
  <2>4. staging' = st
    OBVIOUS
  <2> HIDE DEF st
  <2> QED
    BY <2>1, <2>2, <2>3, <2>4
<1>3. Len(staging) \in Nat
  OBVIOUS
<1>4. upserts(e)' = upserts(e) + (IF y \in UpsertsOf(e) THEN 1 ELSE 0)
  BY <1>1, <1>2 DEF upserts
<1>5. seen(e)' = seen(e)
  BY <1>1, <1>2 DEF seen
<1> QED
  BY <1>2, <1>3, <1>4, <1>5

\* A reading that is alone has no row in the sink once its row is withdrawn.
LEMMA AloneWithdrawn ==
    ASSUME PipelineInv, Materialize, OneRowPerKey, Head(queue.sink).op # "+I",
           NEW row, row = columns(Head(queue.sink).row), Single(row.event_id)
    PROVE  RemoveFirst(kept[row.event_id], row) = <<>>
<1> DEFINE ev   == row.event_id
           rows == kept[ev]
           rest == RemoveFirst(rows, row)
           c    == Head(queue.sink)
<1>0. /\ topic \in Topics /\ row \in PartRows /\ ev \in EventIds /\ row \in RowsOf(ev)
      /\ rows \in Seq(RowsOf(ev))
  BY SinkTaken DEF PipelineInv, PipelineTypeOK
<1>1. PICK X \in SetsOf("sink") : Keeps(X) /\ Cardinality(With(X, row)) # 0
  BY SinkTaken
<1>2. OneEach(X) /\ X \in SUBSET Candidates
  BY <1>1, PartOfSets DEF SetsOf
<1>3. PICK t0 \in X : columns(t0) = row
  BY <1>1, FS_EmptySet DEF With
<1>4. PICK i : Readings(ev) = {i}
  BY <1>0, ReadingsFinite, FS_Singleton DEF Single
<1>5. ASSUME NEW t \in X, columns(t).event_id = ev PROVE t = t0
  <2>1. /\ t.raw \in 1 .. Len(topic.raw) /\ topic.raw[t.raw].event_id = ev
        /\ t0.raw \in 1 .. Len(topic.raw) /\ topic.raw[t0.raw].event_id = ev
    <3>1. t \in Candidates /\ t0 \in Candidates /\ columns(t0).event_id = ev
      BY <1>2, <1>3
    <3> QED
      BY <1>0, <1>5, <3>1, CandidateIs
  <2>2. t.raw = i /\ t0.raw = i
    BY <1>0, <1>4, <2>1, ReadingsFinite
  <2> QED
    BY <1>2, <2>2 DEF OneEach
<1>6. ASSUME NEW p \in RowsOf(ev), Count(rows, p) # 0 PROVE p = row /\ Count(rows, p) = 1
  <2>1. p \in PartRows /\ p.event_id = ev
    BY DEF RowsOf
  <2>2. Count(rows, p) = Cardinality(With(X, p))
    BY <1>1, <2>1 DEF Keeps
  <2>3. With(X, p) # {}
    BY <1>6, <2>2, FS_EmptySet
  <2>4. PICK t \in X : columns(t) = p
    BY <2>3 DEF With
  <2>5. t = t0
    BY <1>5, <2>1, <2>4
  <2>6. With(X, p) = {t0}
    BY <1>3, <1>5, <2>1, <2>4, <2>5 DEF With
  <2> QED
    BY <1>3, <2>2, <2>4, <2>5, <2>6, FS_Singleton
<1>7. /\ rest \in Seq(RowsOf(ev))
      /\ Count(rows, row) # 0 =>
             \A y : Count(rows, y) = Count(rest, y) + (IF row = y THEN 1 ELSE 0)
  BY <1>0, RemoveFirstProperties
<1>8. Count(rows, row) # 0
  BY <1>0, <1>1 DEF Keeps
<1> HIDE DEF rest, rows, c, ev
<1>9. ASSUME rest # <<>> PROVE FALSE
  <2> DEFINE p == rest[1]
  <2>1. p \in RowsOf(ev) /\ 1 \in 1 .. Len(rest)
    BY <1>7, <1>9
  <2>2. Count(rest, p) # 0 /\ Count(rest, p) \in Nat
    BY <1>7, <2>1, CountType
  <2>3. Count(rows, p) = Count(rest, p) + (IF row = p THEN 1 ELSE 0)
    BY <1>7, <1>8
  <2> HIDE DEF p
  <2>4. Count(rows, p) # 0
    BY <2>2, <2>3
  <2>5. p = row /\ Count(rows, p) = 1
    BY <1>6, <2>1, <2>4
  <2> QED
    BY <2>2, <2>3, <2>5
<1> QED
  BY <1>9 DEF rest, rows, ev

\* The sink writes a row for a change that was counted on to.
LEMMA MaterializeKeepsReports ==
    ASSUME PipelineInv, ReportsInv, Materialize
    PROVE  ReportsInv'
<1> DEFINE c    == Head(queue.sink)
           row  == columns(c.row)
           ev   == row.event_id
           rows == kept[ev]
           rest == RemoveFirst(rows, row)
<1>0. /\ PipelineTypeOK /\ topic \in Topics /\ row \in PartRows /\ row \in RowsOf(ev)
      /\ rows \in Seq(RowsOf(ev)) /\ c \in Change /\ ev = topic.raw[c.row.raw].event_id
      /\ UNCHANGED <<topic, submissions, read, left, scanned, mart>>
      /\ queue' = [queue EXCEPT !.sink = Tail(@)]
      /\ queue.sink # <<>> /\ queue.sink \in Seq(Change)
      /\ queue \in [Queues -> Seq(Change)]
      /\ staging \in Seq(Record) /\ scanned \in Nat
  <2>1. c \in Change /\ c.row \in Candidates
    BY SinkTaken
  <2>2. topic \in Topics
    BY DEF PipelineInv, PipelineTypeOK
  <2>3. ev = topic.raw[c.row.raw].event_id
    BY <2>1, <2>2, CandidateIs
  <2> QED
    BY <2>1, <2>2, <2>3, SinkTaken DEF PipelineInv, PipelineTypeOK, Materialize
<1>1. \A e : /\ \A p : p \in RowsOf(e) <=> Upsert(p) \in UpsertsOf(e)
             /\ \A p : Tombstone(p) \notin UpsertsOf(e)
             /\ \A p \in RowsOf(ev) : p \in RowsOf(e) => e = ev
  <2>1. \A p, q : (Upsert(p) = Upsert(q) => p = q) /\ Tombstone(p) # Upsert(q)
    BY DEF Upsert, Tombstone
  <2> QED
    BY <2>1 DEF UpsertsOf, RowsOf
<1>2. SUFFICES ASSUME OneRowPerKey, submissions = 0, scanned <= Len(staging)
               PROVE  /\ scanned <= Len(staging')
                      /\ \A e \in EventIds : /\ seen(e)' = seen(e)
                                             /\ room(e)' \in Int /\ room(e)' <= room(e)
  BY <1>0, RoomKept
<1>3. ASSUME NEW e
      PROVE  /\ scanned <= Len(staging') /\ seen(e)' = seen(e)
             /\ \/ upserts(e)' = upserts(e)
                \/ upserts(e)' = upserts(e) + 1 /\ c \in Costly(e)
  <2>1. CASE c.op = "+I"
    <3>1. staging' = Append(staging, Upsert(row))
      BY <2>1 DEF Materialize
    <3>2. Upsert(row) \in UpsertsOf(e) => c \in Costly(e)
      BY <1>0, <1>1, <2>1 DEF Costly
    <3> HIDE DEF row
    <3>3. /\ upserts(e)' = upserts(e) + (IF Upsert(row) \in UpsertsOf(e) THEN 1 ELSE 0)
          /\ seen(e)' = seen(e) /\ scanned <= Len(staging')
      BY <1>0, <1>2, <3>1, RecordWritten
    <3>4. upserts(e) \in Nat
      BY <1>0, CountsType
    <3> QED
      BY <3>2, <3>3, <3>4
  <2>2. CASE c.op # "+I"
    <3>1. staging' =
              CASE rest = <<>> -> Append(staging, Tombstone(row))
                [] rest # <<>> /\ first_at(rows, row) = Len(rows) ->
                       Append(staging, Upsert(Last(rest)))
                [] OTHER -> staging
      BY <2>2 DEF Materialize
    <3>2. rest \in Seq(RowsOf(ev))
      BY <1>0, RemoveFirstProperties
    <3>3. Single(ev) => rest = <<>>
      BY <1>2, <2>2, AloneWithdrawn
    <3>4. upserts(e) \in Nat
      BY <1>0, CountsType
    <3>5. CASE rest = <<>>
      <4>1. staging' = Append(staging, Tombstone(row))
        BY <3>1, <3>5
      <4>2. Tombstone(row) \notin UpsertsOf(e)
        BY <1>1
      <4> HIDE DEF row, rest
      <4>3. /\ upserts(e)' = upserts(e) + (IF Tombstone(row) \in UpsertsOf(e) THEN 1 ELSE 0)
            /\ seen(e)' = seen(e) /\ scanned <= Len(staging')
        BY <1>0, <1>2, <4>1, RecordWritten
      <4> QED
        BY <3>4, <4>2, <4>3
    <3>6. CASE rest # <<>> /\ first_at(rows, row) = Len(rows)
      <4> DEFINE y == Upsert(Last(rest))
      <4>1. staging' = Append(staging, y)
        BY <3>1, <3>6
      <4>2. Last(rest) \in RowsOf(ev)
        <5> HIDE DEF rest, rows, row, ev
        <5> QED
          BY <3>2, <3>6 DEF Last
      <4>3. y \in UpsertsOf(e) => c \in Costly(e)
        <5> HIDE DEF rest
        <5>1. y \in UpsertsOf(e) => e = ev
          BY <1>1, <4>2
        <5> QED
          BY <1>0, <3>3, <3>6, <5>1 DEF Costly
      <4> HIDE DEF y, row, rest
      <4>4. /\ upserts(e)' = upserts(e) + (IF y \in UpsertsOf(e) THEN 1 ELSE 0)
            /\ seen(e)' = seen(e) /\ scanned <= Len(staging')
        BY <1>0, <1>2, <4>1, RecordWritten
      <4> QED
        BY <3>4, <4>3, <4>4
    <3>7. CASE rest # <<>> /\ first_at(rows, row) # Len(rows)
      <4>1. staging' = staging
        BY <3>1, <3>7
      <4> QED
        BY <1>0, <1>2, <4>1, SameCounts DEF upserts, seen
    <3> QED
      BY <3>5, <3>6, <3>7
  <2> QED
    BY <2>1, <2>2
<1> HIDE DEF c, row, ev, rows, rest
<1>4. ASSUME NEW e \in EventIds
      PROVE  room(e)' \in Int /\ room(e)' <= room(e)
  <2> DEFINE one == IF c \in Costly(e) THEN 1 ELSE 0
  <2>1. /\ cost("sink", e) = Amount(Tail(queue.sink), Len(Tail(queue.sink)), Costly(e)) + one
        /\ Amount(Tail(queue.sink), Len(Tail(queue.sink)), Costly(e)) \in Nat
    <3>1. Tail(queue.sink) \in Seq(Change) /\ Len(Tail(queue.sink)) \in Int
      BY <1>0
    <3> QED
      BY <1>0, <3>1, AmountOfTail, AmountType DEF cost, c
  <2>2. /\ queue'.sink = Tail(queue.sink) /\ queue'.comps = queue.comps
        /\ queue'.assets = queue.assets
    BY <1>0 DEF Queues, Lookups
  <2>3. /\ \A q : cost(q, e)' = Amount(queue'[q], Len(queue'[q]), Costly(e))
        /\ \A q : cost(q, e) = Amount(queue[q], Len(queue[q]), Costly(e))
    BY <1>0, SameCounts DEF cost
  <2>4. /\ cost("sink", e)' = cost("sink", e) - one /\ cost("sink", e)' \in Nat
        /\ cost("comps", e)' = cost("comps", e) /\ cost("assets", e)' = cost("assets", e)
    <3> HIDE DEF one
    <3>1. one \in {0, 1}
      BY DEF one
    <3>2. /\ cost("sink", e)' = Amount(Tail(queue.sink), Len(Tail(queue.sink)), Costly(e))
          /\ cost("comps", e)' = cost("comps", e) /\ cost("assets", e)' = cost("assets", e)
      BY <2>2, <2>3
    <3> QED
      BY <2>1, <3>1, <3>2
  <2>5. /\ untagged(e)' = untagged(e) /\ awaits("assets", e)' = awaits("assets", e)
        /\ awaits("comps", e)' = awaits("comps", e) /\ Weight(e)' = Weight(e)
    BY <1>0, SameCounts DEF untagged, Untagged, awaits
  <2>6. /\ cost("sink", e) \in Nat /\ cost("comps", e) \in Nat /\ cost("assets", e) \in Nat
        /\ upserts(e) \in Nat /\ untagged(e) \in Nat
        /\ Weight(e) * (awaits("assets", e) + awaits("comps", e)) \in Nat
    BY <1>0, CountsType, RoomType
  <2>7. room(e)' = upserts(e)' + cost("sink", e)' + cost("comps", e)' + cost("assets", e)'
             + untagged(e)' + Weight(e)' * (awaits("assets", e)' + awaits("comps", e)')
    BY DEF room
  <2>8. room(e) = upserts(e) + cost("sink", e) + cost("comps", e) + cost("assets", e)
             + untagged(e) + Weight(e) * (awaits("assets", e) + awaits("comps", e))
    BY DEF room
  <2>9. \/ upserts(e)' = upserts(e)
        \/ upserts(e)' = upserts(e) + 1 /\ one = 1
    BY <1>3
  <2> HIDE DEF one
  <2>10. one \in {0, 1}
    BY DEF one
  <2> QED
    BY <2>4, <2>5, <2>6, <2>7, <2>8, <2>9, <2>10
<1> QED
  BY <1>3, <1>4

\* The anomaly job and ClickHouse leave what the enrich job has written.
LEMMA SinkUnmoved ==
    ASSUME PipelineTypeOK, ReportsInv, UNCHANGED <<topic, enrich, submissions>>,
           submissions = 0 /\ OneRowPerKey /\ scanned <= Len(staging) =>
               /\ scanned' <= Len(staging)
               /\ \A e \in EventIds : reports(e) <= seen(e) => reports(e)' <= seen(e)'
    PROVE  ReportsInv'
<1>0. UNCHANGED <<topic, read, left, queue, kept, staging, submissions>>
  BY DEF enrich
<1>1. /\ OneRowPerKey' = OneRowPerKey /\ EventIds' = EventIds
  BY <1>0, SameCounts
<1>2. ASSUME NEW e
      PROVE  room(e)' = room(e) /\ Bound(e)' = Bound(e)
  <2>1. /\ upserts(e)' = upserts(e) /\ untagged(e)' = untagged(e)
        /\ awaits("assets", e)' = awaits("assets", e)
        /\ awaits("comps", e)' = awaits("comps", e) /\ Weight(e)' = Weight(e)
        /\ cost("sink", e)' = cost("sink", e) /\ cost("comps", e)' = cost("comps", e)
        /\ cost("assets", e)' = cost("assets", e) /\ Bound(e)' = Bound(e)
    BY <1>0, SameCounts DEF upserts, untagged, Untagged, awaits, cost
  <2> QED
    BY <2>1 DEF room
<1> QED
  BY <1>0, <1>1, <1>2 DEF ReportsInv


\* What is reported of an event was written for it.
LEMMA DetectKeepsReports ==
    ASSUME PipelineInv, ReportsInv, Detect
    PROVE  ReportsInv'
<1> DEFINE record == staging[scanned + 1]
           found  == record.op = "upsert" /\ over_limit(record.row)
<1>0. /\ PipelineTypeOK /\ UNCHANGED <<topic, enrich, submissions>>
      /\ scanned < Len(staging) /\ scanned' = scanned + 1
      /\ mart' = IF found THEN Append(mart, anomaly_row(record.row)) ELSE mart
      /\ staging \in Seq(Record) /\ scanned \in Nat /\ mart \in Seq(Breaches)
  BY DEF Detect, PipelineInv, PipelineTypeOK
<1>1. staging' = staging /\ topic' = topic
  BY <1>0 DEF enrich
<1>2. scanned + 1 \in 1 .. Len(staging) /\ record \in Record
  BY <1>0
<1> HIDE DEF record
<1>3. ASSUME NEW e, reports(e) <= seen(e)
      PROVE  reports(e)' <= seen(e)'
  <2>1. seen(e)' = Amount(staging, scanned + 1, UpsertsOf(e))
    BY <1>0, <1>1, SameCounts
  <2>2. seen(e)' = seen(e) + (IF record \in UpsertsOf(e) THEN 1 ELSE 0)
    BY <1>0, <2>1, AmountStep DEF seen, record
  <2>3. reports(e)' = Amount(mart', Len(mart'), BreachesOf(e))
    BY <1>1, SameCounts
  <2>4. reports(e) \in Nat /\ seen(e) \in Nat
    BY <1>0, CountsType
  <2>5. CASE ~found
    BY <1>0, <1>3, <2>2, <2>3, <2>4, <2>5 DEF reports
  <2>6. CASE found
    <3> DEFINE y == anomaly_row(record.row)
    <3>1. mart' = Append(mart, y)
      BY <1>0, <2>6
    <3>2. Len(mart') = Len(mart) + 1
      BY <1>0, <3>1
    <3>3. Amount(Append(mart, y), Len(mart) + 1, BreachesOf(e))
            = Amount(mart, Len(mart), BreachesOf(e))
                + (IF y \in BreachesOf(e) THEN 1 ELSE 0)
      <4> HIDE DEF y
      <4> QED
        BY <1>0, AmountOfAppend
    <3>4. reports(e)' = reports(e) + (IF y \in BreachesOf(e) THEN 1 ELSE 0)
      BY <2>3, <3>1, <3>2, <3>3 DEF reports
    <3>5. y \in BreachesOf(e) => record \in UpsertsOf(e)
      <4>1. record = Upsert(record.row) /\ record.row \in PartRows
        BY <1>2, <2>6 DEF Record, Upsert
      <4>2. y.anomaly_id = record.row.event_id
        BY DEF anomaly_row
      <4> QED
        BY <4>1, <4>2 DEF BreachesOf, UpsertsOf, RowsOf
    <3> HIDE DEF y
    <3> QED
      BY <1>3, <2>2, <2>4, <3>4, <3>5
  <2> QED
    BY <2>5, <2>6
<1>4. scanned' <= Len(staging)
  BY <1>0, <1>2
<1> QED
  BY <1>0, <1>3, <1>4, SinkUnmoved

\* Every step does.
LEMMA NextKeepsReports ==
    ASSUME PipelineInv, ReportsInv, [Next]_vars
    PROVE  ReportsInv'
<1>0. PipelineTypeOK
  BY DEF PipelineInv
<1>1. ASSUME NEW s \in {"raw", "tags"}, ReadFirst(s) PROVE ReportsInv'
  BY <1>1, ReadFirstKeepsReports
<1>6. ASSUME NEW s \in Lookups, TakeLeft(s) \/ ReadRight(s) PROVE ReportsInv'
  BY <1>6, TakeLeftKeepsReports, ReadRightKeepsReports
<1>2. CASE Materialize
  BY <1>2, MaterializeKeepsReports
<1>3. CASE Detect
  BY <1>3, DetectKeepsReports
<1>4. CASE Ingest \/ UNCHANGED vars
  <2>1. UNCHANGED <<topic, enrich, anomaly, submissions>>
    BY <1>4 DEF Ingest, vars
  <2>2. UNCHANGED <<topic, staging, scanned, mart>>
    BY <2>1 DEF enrich, anomaly
  <2>3. \A e : reports(e)' = reports(e) /\ seen(e)' = seen(e)
    BY <2>2, SameCounts DEF reports, seen
  <2> QED
    BY <1>0, <2>1, <2>2, <2>3, SinkUnmoved
<1>5. CASE SubmitEnrich \/ SubmitAnomaly
  <2>1. submissions \in Nat /\ submissions' = submissions + 1
    BY <1>5 DEF SubmitEnrich, SubmitAnomaly, ReportsInv
  <2>2. submissions' \in Nat /\ submissions' # 0
    BY <2>1
  <2> QED
    BY <2>2 DEF ReportsInv
<1> QED
  BY <1>1, <1>2, <1>3, <1>4, <1>5, <1>6 DEF Next

\* The reports of an event are as many as the records written for it allow.
THEOREM ReportsInvariance == Spec => []ReportsInv
<1>1. Init => ReportsInv
  BY ReportsInit
<1>2. PipelineInv /\ ReportsInv /\ [Next]_vars => ReportsInv'
  BY NextKeepsReports
<1>3. Spec => []PipelineInv
  BY PipelineInvariance
<1> QED
  BY <1>1, <1>2, <1>3, PTL DEF Spec

\* How often a reading is reported while the jobs run on.
THEOREM ReportsBounded == Spec => []AtMostThreeReports
<1>1. PipelineInv /\ ReportsInv => AtMostThreeReports
  <2> DEFINE masters == Cardinality({ s \in Lookups : topic[s] # <<>> })
             N(e)    == Cardinality(Readings(e))
             most2(e) == most("assets", e) + most("comps", e)
  <2> SUFFICES ASSUME PipelineInv, ReportsInv, OneRowPerKey, submissions = 0,
                      NEW e \in EventIds
               PROVE  Cardinality({ n \in DOMAIN mart : mart[n].anomaly_id = e })
                        <= N(e) * (1 + masters) + (IF N(e) = 1 THEN 0 ELSE N(e) * masters)
    BY DEF AtMostThreeReports, Readings
  <2>0. /\ PipelineTypeOK /\ topic \in Topics /\ staging \in Seq(Record) /\ scanned \in Nat
        /\ mart \in Seq(Breaches)
    BY DEF PipelineInv, PipelineTypeOK
  <2>1. scanned <= Len(staging) /\ room(e) <= Bound(e) /\ reports(e) <= seen(e)
    BY DEF ReportsInv
  <2>2. upserts(e) <= room(e) /\ room(e) \in Nat /\ Bound(e) \in Nat
    <3>1. /\ Weight(e) * (awaits("assets", e) + awaits("comps", e)) \in Nat
          /\ room(e) \in Nat /\ Bound(e) \in Nat
      BY <2>0, RoomType
    <3>2. /\ cost("sink", e) \in Nat /\ cost("comps", e) \in Nat /\ cost("assets", e) \in Nat
          /\ upserts(e) \in Nat /\ untagged(e) \in Nat
      BY <2>0, CountsType
    <3> QED
      BY <3>1, <3>2 DEF room
  <2>3. upserts(e) \in Nat /\ seen(e) \in Nat /\ reports(e) \in Nat
    BY <2>0, CountsType
  <2>4. seen(e) <= upserts(e)
    <3>1. scanned \in Int /\ Len(staging) \in Int
      BY <2>0
    <3> QED
      BY <2>1, <3>1, AmountGrows DEF seen, upserts
  <2>5. reports(e) = Cardinality({ n \in DOMAIN mart : mart[n].anomaly_id = e })
    <3>1. DOMAIN mart = 1 .. Len(mart) /\ \A n \in 1 .. Len(mart) : mart[n] \in Breaches
      BY <2>0
    <3>2. { n \in 1 .. Len(mart) : mart[n] \in BreachesOf(e) }
            = { n \in DOMAIN mart : mart[n].anomaly_id = e }
      BY <3>1 DEF BreachesOf
    <3> QED
      BY <3>2 DEF reports, Amount
  <2>6. N(e) \in Nat /\ Weight(e) = IF N(e) = 1 THEN 1 ELSE 2
    BY <2>0, ReadingsFinite DEF Weight, Single
  <2>7. most2(e) = N(e) * masters /\ masters \in Nat
    <3> DEFINE A == topic.assets # <<>>
               C == topic.comps # <<>>
               M == { s \in Lookups : topic[s] # <<>> }
    <3>1. /\ most("assets", e) = IF A THEN N(e) ELSE 0
          /\ most("comps", e) = IF C THEN N(e) ELSE 0
      BY DEF most
    <3>2. CASE A /\ C
      <4>1. M = {"assets", "comps"}
        BY <3>2 DEF Lookups
      <4>2. Cardinality(M) = 2
        <5>1. IsFiniteSet({"assets"}) /\ Cardinality({"assets"}) = 1
          BY FS_Singleton
        <5>2. Cardinality({"assets"} \union {"comps"}) = 2
          BY <5>1, FS_AddElement
        <5>3. M = {"assets"} \union {"comps"}
          BY <4>1
        <5> HIDE DEF M
        <5> QED
          BY <5>2, <5>3
      <4> HIDE DEF M
      <4> QED
        BY <2>6, <3>1, <3>2, <4>2 DEF M
    <3>3. CASE A /\ ~C
      <4>1. M = {"assets"}
        BY <3>3 DEF Lookups
      <4>2. Cardinality(M) = 1
        BY <4>1, FS_Singleton
      <4> QED
        BY <2>6, <3>1, <3>3, <4>2
    <3>4. CASE ~A /\ C
      <4>1. M = {"comps"}
        BY <3>4 DEF Lookups
      <4>2. Cardinality(M) = 1
        BY <4>1, FS_Singleton
      <4> QED
        BY <2>6, <3>1, <3>4, <4>2
    <3>5. CASE ~A /\ ~C
      <4>1. M = {}
        BY <3>5 DEF Lookups
      <4>2. Cardinality(M) = 0
        BY <4>1, FS_EmptySet
      <4> QED
        BY <2>6, <3>1, <3>5, <4>2
    <3> QED
      BY <3>2, <3>3, <3>4, <3>5
  <2>8. Bound(e) = N(e) + Weight(e) * most2(e)
    BY DEF Bound
  <2> HIDE DEF N, most2, masters
  <2>9. N(e) * masters \in Nat /\ N(e) * (1 + masters) = N(e) + N(e) * masters
    BY <2>6, <2>7
  <2>10. reports(e) <= Bound(e)
    BY <2>1, <2>2, <2>3, <2>4
  <2>11. CASE N(e) = 1
    <3>1. Bound(e) = N(e) + N(e) * masters
      BY <2>6, <2>7, <2>8, <2>9, <2>11
    <3> QED
      BY <2>3, <2>5, <2>6, <2>9, <2>10, <2>11, <3>1
  <2>12. CASE N(e) # 1
    <3> DEFINE p == N(e) * masters
    <3>1. Bound(e) = N(e) + 2 * p
      BY <2>6, <2>7, <2>8, <2>12
    <3>2. p \in Nat /\ N(e) * (1 + masters) = N(e) + p
      BY <2>9
    <3> HIDE DEF p
    <3>3. reports(e) <= N(e) + p + p
      BY <2>3, <2>6, <2>10, <3>1, <3>2
    <3> QED
      BY <2>5, <2>12, <3>2, <3>3 DEF p
  <2> QED
    BY <2>11, <2>12
<1> QED
  BY <1>1, PipelineInvariance, ReportsInvariance, PTL

=============================================================================
