------------------------- MODULE SourceLoaderProofs -------------------------
(***************************************************************************)
(* Proofs about SourceLoader, for every configuration of tenants, assets,  *)
(* tags, modes and rules, and any number of runs and of interrupted runs.  *)
(***************************************************************************)
EXTENDS SourceLoader, SequenceFacts

Events == "apm_failureevent"

\* Another UPDATE of the backfill would change nothing.
EventsLinked ==
    /\ db[Events] = [ i \in DOMAIN db[Events] |-> db[Events][i] ]
    /\ \A e \in Range(db[Events]) : Linked(e) = e

\* The report is reached with linked events, and after it no table is loaded:
\* the two tables that are loaded without being counted are never reached.
LoadInv ==
    /\ db = [ t \in TableSet |-> db[t] ]
    /\ inserting => step \in TableSet
    /\ step = "report" => EventsLinked
    /\ complete =>
         /\ \A t \in TableSet : db[t] # <<>>
         /\ ~inserting
         /\ step \notin {"apm_failureclass", "apm_failuremode"}
         /\ EventsLinked

\* The table after another one is a failure class only after the domains, and
\* a failure mode only after the classes.
LEMMA FollowingTaxonomy ==
    ASSUME NEW t \in TableSet
    PROVE  /\ Following(t) = "apm_failureclass" => t = "apm_failuredomain"
           /\ Following(t) = "apm_failuremode" => t = "apm_failureclass"
           /\ Following(t) # "report"
<1> DEFINE at == CHOOSE i \in DOMAIN Tables : Tables[i] = t
<1>1. DOMAIN Tables = 1 .. 12 /\ Len(Tables) = 12
  BY DEF Tables
<1>2. at \in 1 .. 12 /\ Tables[at] = t
  BY <1>1 DEF TableSet, Range
<1>3. Following(t) = IF at = 12 THEN "backfill" ELSE Tables[at + 1]
  BY <1>1 DEF Following
<1> HIDE DEF at
<1> QED
  BY <1>2, <1>3 DEF Tables

LEMMA TableNames ==
    TableSet = {"tenants", "assets", "asset_components",
                "asset_signal_tags_mapping", "apm_failuredomain",
                "apm_failureclass", "apm_failuremode", "apm_anomaly_rule",
                "apm_threshold_profile", "apm_failureevent", "workorder",
                "maintenance"}
<1>1. DOMAIN Tables = 1 .. 12
  BY DEF Tables
<1> QED
  BY <1>1 DEF TableSet, Range, Tables

\* The names of the steps that are no tables.
LEMMA StepNames ==
    /\ {"idle", "backfill", "report"} \intersect TableSet = {}
    /\ {"apm_failuredomain", "apm_failureclass", "apm_failuremode",
        "workorder", "maintenance", Events} \subseteq TableSet
BY TableNames DEF Events

\* The UPDATE of the backfill finds for each event what it found before.
LEMMA BackfillLinks ==
    ASSUME db = [ t \in TableSet |-> db[t] ], Backfill
    PROVE  EventsLinked'
<1>1. /\ db'[Events] = [ i \in DOMAIN db[Events] |-> Linked(db[Events][i]) ]
      /\ db'["workorder"] = db["workorder"]
      /\ db'["maintenance"] = db["maintenance"]
  BY StepNames DEF Backfill, Events
<1> DEFINE links(p) == {<<"workorder", p[1].key>>, <<"maintenance", p[2].key>>}
           kept(e) == { r \in e.refs : r[1] \notin {"workorder", "maintenance"} }
           found(M, e) ==
               IF M = {} THEN e
               ELSE [ key |-> e.key,
                      refs |-> kept(e) \union links(CHOOSE p \in M : TRUE),
                      data |-> e.data ]
<1>2. \A e : Linked(e) = found(Matches(e), e)
  BY DEF Linked
<1>3. \A e : Linked(e)' = found(Matches(e)', e)
  BY DEF Linked
<1>4. \A e : Matches(e)' = Matches(e)
  BY <1>1 DEF Matches
<1>5. \A e, f : e.key = f.key => Matches(e) = Matches(f)
  BY DEF Matches
<1>6. ASSUME NEW M, NEW e PROVE found(M, found(M, e)) = found(M, e)
  <2>1. CASE M = {}
    BY <2>1
  <2>2. CASE M # {}
    <3>1. kept(found(M, e)) = kept(e)
      BY <2>2
    <3> QED
      BY <2>2, <3>1
  <2> QED
    BY <2>1, <2>2
<1>7. ASSUME NEW M, NEW e PROVE found(M, e).key = e.key
  OBVIOUS
<1> HIDE DEF found
<1>8. \A e : Linked(e)' = Linked(e)
  BY <1>2, <1>3, <1>4
<1>9. \A e : Linked(Linked(e)) = Linked(e)
  BY <1>2, <1>5, <1>6, <1>7
<1>10. \A e \in Range(db'[Events]) : Linked(e)' = e
  BY <1>1, <1>8, <1>9 DEF Range
<1> QED
  BY <1>1, <1>10 DEF EventsLinked

\* When every event is linked, the UPDATE changes nothing.
LEMMA BackfillAgain ==
    ASSUME db = [ t \in TableSet |-> db[t] ], EventsLinked, Backfill
    PROVE  db' = db
<1>1. \A i \in DOMAIN db[Events] : Linked(db[Events][i]) = db[Events][i]
  BY DEF EventsLinked, Range
<1>2. [ i \in DOMAIN db[Events] |-> Linked(db[Events][i]) ] = db[Events]
  BY <1>1 DEF EventsLinked
<1> QED
  BY <1>2 DEF Backfill, Events

\* What a step of a run does after the load was reported complete.
LEMMA NextFinal ==
    ASSUME LoadInv, [Next]_vars, complete
    PROVE  /\ db' = db /\ complete'
           /\ ~inserting'
           /\ step' \notin {"apm_failureclass", "apm_failuremode"}
<1> USE DEF LoadInv
<1>1. CASE Start
  BY <1>1 DEF Start, Tables
<1>2. CASE SkipTable
  BY <1>2, FollowingTaxonomy DEF SkipTable
<1>3. CASE Prepare
  <2>1. to_load(step)
    BY <1>3 DEF Prepare
  <2>2. ~to_load(step)
    BY <1>3, StepNames DEF Prepare, to_load, Taxonomy
  <2> QED
    BY <2>1, <2>2
<1>4. CASE Execute
  BY <1>4 DEF Execute
<1>5. CASE FinishTable
  BY <1>5 DEF FinishTable
<1>6. CASE Backfill
  BY <1>6, BackfillAgain DEF Backfill
<1>7. CASE Report
  BY <1>7 DEF Report
<1>8. CASE Interrupt
  BY <1>8 DEF Interrupt
<1>9. CASE UNCHANGED vars
  BY <1>9 DEF vars
<1> QED
  BY <1>1, <1>2, <1>3, <1>4, <1>5, <1>6, <1>7, <1>8, <1>9 DEF Next

\* An unchanged database keeps its events linked.
LEMMA LinkedKept ==
    ASSUME EventsLinked, db' = db
    PROVE  EventsLinked'
BY DEF EventsLinked, Linked, Matches

\* LoadInv is inductive.
LEMMA NextLoadInv == LoadInv /\ [Next]_vars => LoadInv'
<1> SUFFICES ASSUME LoadInv, [Next]_vars PROVE LoadInv'
  OBVIOUS
<1>1. db' = [ t \in TableSet |-> db'[t] ]
  BY DEF LoadInv, Next, Start, SkipTable, Prepare, Execute, FinishTable,
         Backfill, Report, Interrupt, vars
<1>2. inserting' => step' \in TableSet
  BY StepNames
  DEF LoadInv, Next, Start, SkipTable, Prepare, Execute, FinishTable,
      Backfill, Report, Interrupt, vars
<1>3. step' = "report" => EventsLinked'
  <2>1. CASE Backfill
    BY <2>1, BackfillLinks DEF LoadInv
  <2>2. CASE step' = "report" /\ ~Backfill
    <3>1. step = "report" /\ db' = db
      BY <2>2, StepNames, FollowingTaxonomy
      DEF LoadInv, Next, Start, SkipTable, Prepare, Execute, FinishTable,
          Report, Interrupt, vars, Tables
    <3> QED
      BY <3>1, LinkedKept DEF LoadInv
  <2> QED
    BY <2>1, <2>2
<1>4. CASE complete
  <2>1. EventsLinked'
    BY <1>4, NextFinal, LinkedKept DEF LoadInv
  <2> QED
    BY <1>1, <1>2, <1>3, <1>4, <2>1, NextFinal DEF LoadInv
<1>5. CASE ~complete /\ complete'
  <2>1. Report
    BY <1>5 DEF Next, Start, SkipTable, Prepare, Execute, FinishTable,
                Backfill, Interrupt, vars
  <2>2. /\ step = "report" /\ step' = "idle"
        /\ \A t \in TableSet : db[t] # <<>>
        /\ UNCHANGED <<db, inserting>>
    BY <1>5, <2>1 DEF Report
  <2>3. EventsLinked'
    BY <2>2, LinkedKept DEF LoadInv
  <2>4. ~inserting'
    BY <2>2, StepNames DEF LoadInv
  <2> QED
    BY <1>1, <2>2, <2>3, <2>4 DEF LoadInv
<1>6. CASE ~complete'
  BY <1>1, <1>2, <1>3, <1>6 DEF LoadInv
<1> QED
  BY <1>4, <1>5, <1>6

\* The first run starts with no table loaded but the tenants.
LEMMA InitLoadInv == Init => LoadInv
BY DEF Init, LoadInv

\* The invariant of the loader's runs holds in every reachable state.
THEOREM LoadInvariance == Spec => []LoadInv
BY InitLoadInv, NextLoadInv, PTL DEF Spec

\* Once a run has reported the load complete, no run and no interrupted run
\* changes the database again.
THEOREM CompletenessIsFinal == Spec => CompleteIsFinal
<1>1. LoadInv /\ [Next]_vars => [complete => db' = db]_vars
  BY NextFinal
<1> QED
  BY <1>1, LoadInvariance, PTL DEF Spec, CompleteIsFinal
-----------------------------------------------------------------------------
(* Keys and references.                                                    *)

Distinct(rows) == \A i, j \in DOMAIN rows : rows[i].key = rows[j].key => i = j
NamesTables(r) == \A ref \in r.refs : ref[1] \in TableSet

\* A statement generated for a table.
StatementFor(table, s) ==
    /\ s.table = table
    /\ Listed(s.rows) /\ Distinct(s.rows)
    /\ \A r \in Range(s.rows) : NamesTables(r)

ReferenceInv ==
    /\ db = [ t \in TableSet |-> db[t] ]
    /\ serial \in [ TableSet -> Nat ]
    /\ \A t \in TableSet :
           /\ Listed(db[t]) /\ Distinct(db[t])
           /\ \A r \in Range(db[t]) :
                  /\ NamesTables(r)
                  /\ \A ref \in r.refs : ref[2] \in Keys(ref[1])
    /\ inserting => step \in TableSet
    /\ Listed(script)
    /\ script # <<>> => inserting
    /\ \A s \in Range(script) : StatementFor(step, s)

-----------------------------------------------------------------------------
(* The numbers of events, work orders and maintenance.                     *)

Numerated  == {Events, "workorder", "maintenance"}
Parts      == {"assets", "asset_components"}
PartsOf(S) == { ref \in S : ref[1] \in Parts }

\* A row of one of the three tables is about the component of the slot its
\* number is of; a work order names its event, maintenance its work order.
NumberedRow(table, r) ==
    \E n \in DOMAIN Slots :
        /\ r.key = Key(Slots[n].tenant, n)
        /\ PartsOf(r.refs) = PartsOf(Slots[n].place)
        /\ table # Events => r.data = r.key
        /\ table = "maintenance" =>
               \A ref \in r.refs : ref[1] = "workorder" => ref[2] = r.key

ComponentRow(r) == \A ref \in r.refs : ref[1] \in {"assets", "tenants"}

\* The slots are numbered once: no row has a number while components come.
NumbersInv ==
    /\ \A t \in Numerated : \A r \in Range(db[t]) : NumberedRow(t, r)
    /\ step \in Numerated =>
           \A s \in Range(script) : \A r \in Range(s.rows) : NumberedRow(step, r)
    /\ \A r \in Range(db["asset_components"]) : ComponentRow(r)
    /\ step = "asset_components" =>
           \A s \in Range(script) : \A r \in Range(s.rows) : ComponentRow(r)
    /\ inserting /\ step = "asset_components" =>
           \A t \in Numerated : db[t] = <<>>

-----------------------------------------------------------------------------
(* The statements generated.                                               *)

\* A function over the places of a list is a list.
LEMMA ListedOver ==
    ASSUME NEW items, Listed(items), NEW f, f = [i \in DOMAIN items |-> f[i]]
    PROVE  /\ Listed(f)
           /\ \A x \in Range(f) : \E i \in DOMAIN items : x = f[i]
<1>1. items \in Seq(Range(items))
  BY DEF Listed
<1>2. DOMAIN items = 1 .. Len(items) /\ Len(items) \in Nat
  BY <1>1, IsListed
<1> DEFINE R == { f[i] : i \in DOMAIN items }
<1>3. f \in [1 .. Len(items) -> R]
  BY <1>2
<1> HIDE DEF R
<1>4. f \in Seq(R)
  BY <1>2, <1>3
<1> QED
  BY <1>4, IsListed DEF R

LEMMA PerTenantProperties ==
    ASSUME NEW items, Listed(items)
    PROVE  /\ Listed(PerTenant(items))
           /\ Range(PerTenant(items)) \subseteq [ tenant: Range(TenantIds), item: Range(items) ]
<1> DEFINE R == [ tenant: Range(TenantIds), item: Range(items) ]
           pairs(i) == [ j \in DOMAIN TenantIds |->
                           [ tenant |-> TenantIds[j], item |-> items[i] ] ]
           parts == [ i \in DOMAIN items |-> pairs(i) ]
<1>1. /\ DOMAIN items = 1 .. Len(items) /\ Len(items) \in Nat
      /\ DOMAIN TenantIds = 1 .. Len(TenantIds) /\ Len(TenantIds) \in Nat
  BY ConfigurationAssumption DEF Listed
<1>2. \A i \in DOMAIN items, j \in DOMAIN TenantIds :
          [ tenant |-> TenantIds[j], item |-> items[i] ] \in R
  BY DEF Range
<1> HIDE DEF R
<1>3. \A i \in DOMAIN items : pairs(i) \in Seq(R)
  BY <1>1, <1>2
<1> HIDE DEF pairs
<1>4. parts \in Seq(Seq(R))
  BY <1>1, <1>3
<1> HIDE DEF parts
<1>5. FlattenSeq(parts) \in Seq(R)
  BY <1>4, FlattenProperties
<1>6. PerTenant(items) = FlattenSeq(parts)
  BY DEF PerTenant, parts, pairs
<1> QED
  BY <1>5, <1>6, IsListed DEF R

\* One statement of one row for each item.
LEMMA SingleRows ==
    ASSUME NEW table, NEW items, Listed(items), NEW row, NEW sql,
           sql = [ i \in DOMAIN items |-> Statement(table, <<row[i]>>) ],
           \A i \in DOMAIN items : NamesTables(row[i])
    PROVE  /\ Listed(sql)
           /\ \A s \in Range(sql) :
                  /\ StatementFor(table, s)
                  /\ \E i \in DOMAIN items : Range(s.rows) = {row[i]}
<1>1. /\ Listed(sql)
      /\ \A s \in Range(sql) : \E i \in DOMAIN items : s = sql[i]
  BY ListedOver
<1>2. ASSUME NEW i \in DOMAIN items
      PROVE  StatementFor(table, sql[i]) /\ Range(sql[i].rows) = {row[i]}
  <2>1. sql[i].table = table /\ sql[i].rows = <<row[i]>>
    BY DEF Statement
  <2>2. Range(<<row[i]>>) = {row[i]}
    BY DEF Range
  <2>3. Listed(<<row[i]>>)
    <3>1. <<row[i]>> \in Seq({row[i]})
      OBVIOUS
    <3> QED
      BY <3>1, IsListed
  <2>4. Distinct(<<row[i]>>)
    BY DEF Distinct
  <2> QED
    BY <2>1, <2>2, <2>3, <2>4 DEF StatementFor
<1>3. ASSUME NEW s \in Range(sql)
      PROVE  /\ StatementFor(table, s)
             /\ \E i \in DOMAIN items : Range(s.rows) = {row[i]}
  <2>1. PICK i \in DOMAIN items : s = sql[i]
    BY <1>1
  <2> QED
    BY <1>2, <2>1
<1> QED
  BY <1>1, <1>3

\* One statement of one row for each item, with the numbers of an identity
\* column that has drawn some.
LEMMA NumberedRows ==
    ASSUME NEW table, NEW items, Listed(items), NEW row, NEW drawn \in Nat, NEW sql,
           sql = << Statement(table, [ i \in DOMAIN items |-> row[i] ]) >>,
           \A i \in DOMAIN items : /\ NamesTables(row[i])
                                   /\ row[i].key[2] = drawn + i
    PROVE  /\ Listed(sql)
           /\ \A s \in Range(sql) : StatementFor(table, s)
<1> DEFINE rows == [ i \in DOMAIN items |-> row[i] ]
           one  == Statement(table, rows)
<1>1. /\ Listed(rows)
      /\ \A x \in Range(rows) : \E i \in DOMAIN items : x = rows[i]
  <2>1. rows = [ i \in DOMAIN items |-> rows[i] ]
    OBVIOUS
  <2> HIDE DEF rows
  <2> QED
    BY <2>1, ListedOver
<1>2. \A i \in DOMAIN items : i \in Nat
  <2>1. items \in Seq(Range(items))
    BY DEF Listed
  <2> QED
    BY <2>1
<1>3. Distinct(rows)
  <2> SUFFICES ASSUME NEW i \in DOMAIN items, NEW j \in DOMAIN items,
                      row[i].key = row[j].key
               PROVE  i = j
    BY DEF Distinct
  <2>1. drawn + i = drawn + j
    OBVIOUS
  <2> QED
    BY <1>2, <2>1
<1>4. StatementFor(table, one)
  BY <1>1, <1>3 DEF StatementFor, Statement
<1> HIDE DEF one
<1>5. sql \in Seq({one}) /\ \A s \in Range(sql) : s = one
  BY DEF one, Range
<1> QED
  BY <1>4, <1>5, IsListed

\* The slots: for each tenant, its components' places, several times each.
PlaceFor(c) == c.refs \union {<<"asset_components", c.key>>}
SlotSet ==
    [ tenant: Range(TenantIds),
      place: { PlaceFor(c) : c \in Range(db["asset_components"]) }, index: Int ]

LEMMA SlotsOfTenant ==
    ASSUME Listed(db["asset_components"]), NEW tenant \in Range(TenantIds)
    PROVE  SlotsOf(tenant) \in Seq(SlotSet)
<1> DEFINE comps == ComponentsOf(tenant)
           slot(c, e) == [ tenant |-> tenant,
                           place |-> comps[c].refs
                                       \union {<<"asset_components", comps[c].key>>},
                           index |-> (c - 1) * num_events(comps[c]) + e - 1 ]
           of(c) == [ e \in 1 .. num_events(comps[c]) |-> slot(c, e) ]
           parts == [ c \in DOMAIN comps |-> of(c) ]
<1>1. Listed(comps) /\ Range(comps) \subseteq Range(db["asset_components"])
  BY PickedProperties DEF ComponentsOf
<1>2. SlotsOf(tenant) = FlattenSeq(parts)
  BY DEF SlotsOf
<1> HIDE DEF comps
<1>3. /\ DOMAIN comps = 1 .. Len(comps) /\ Len(comps) \in Nat
      /\ \A c \in DOMAIN comps : comps[c] \in Range(db["asset_components"])
  <2>1. comps \in Seq(Range(comps))
    BY <1>1 DEF Listed
  <2> QED
    BY <1>1, <2>1
<1>4. \A x : num_events(x) \in {2, 3}
  BY DEF num_events
<1>5. ASSUME NEW c \in DOMAIN comps, NEW e \in 1 .. num_events(comps[c])
      PROVE  slot(c, e) \in SlotSet
  <2>1. comps[c].refs \union {<<"asset_components", comps[c].key>>}
          \in { PlaceFor(x) : x \in Range(db["asset_components"]) }
    BY <1>3 DEF PlaceFor
  <2>2. (c - 1) * num_events(comps[c]) + e - 1 \in Int
    <3>1. c \in Int /\ num_events(comps[c]) \in Int /\ e \in Int
      BY <1>3, <1>4
    <3> HIDE DEF parts, of, slot
    <3> QED
      BY <3>1
  <2> QED
    BY <2>1, <2>2 DEF SlotSet
<1> HIDE DEF slot
<1>6. ASSUME NEW c \in DOMAIN comps PROVE of(c) \in Seq(SlotSet)
  BY <1>4, <1>5
<1> HIDE DEF of
<1>7. parts \in Seq(Seq(SlotSet))
  BY <1>3, <1>6
<1> HIDE DEF parts
<1> QED
  BY <1>2, <1>7, FlattenProperties

LEMMA SlotsProperties ==
    ASSUME Listed(db["asset_components"])
    PROVE  /\ Listed(Slots)
           /\ \A n \in DOMAIN Slots :
                  /\ n \in Nat /\ Slots[n].tenant \in Range(TenantIds)
                  /\ \E c \in Range(db["asset_components"]) :
                         Slots[n].place = PlaceFor(c)
<1> DEFINE parts == [ i \in DOMAIN TenantIds |-> SlotsOf(TenantIds[i]) ]
<1>1. /\ DOMAIN TenantIds = 1 .. Len(TenantIds) /\ Len(TenantIds) \in Nat
      /\ \A i \in DOMAIN TenantIds : TenantIds[i] \in Range(TenantIds)
  BY ConfigurationAssumption DEF Range
<1>2. \A i \in DOMAIN TenantIds : SlotsOf(TenantIds[i]) \in Seq(SlotSet)
  BY <1>1, SlotsOfTenant
<1>3. parts \in Seq(Seq(SlotSet))
  BY <1>1, <1>2
<1>4. Slots = FlattenSeq(parts)
  BY DEF Slots
<1> HIDE DEF parts
<1>5. Slots \in Seq(SlotSet)
  BY <1>3, <1>4, FlattenProperties
<1>6. /\ Listed(Slots) /\ DOMAIN Slots = 1 .. Len(Slots) /\ Len(Slots) \in Nat
  BY <1>5, IsListed
<1>7. \A n \in DOMAIN Slots : n \in Nat /\ Slots[n] \in SlotSet
  BY <1>5, <1>6
<1> QED
  BY <1>6, <1>7 DEF SlotSet

\* The tables a slot's place names.
LEMMA SlotNamesTables ==
    ASSUME ReferenceInv, NEW n \in DOMAIN Slots, NEW ref \in Slots[n].place
    PROVE  ref[1] \in TableSet
<1>1. Listed(db["asset_components"])
  BY TableNames DEF ReferenceInv
<1>2. PICK c \in Range(db["asset_components"]) : Slots[n].place = PlaceFor(c)
  BY <1>1, SlotsProperties
<1>3. \A r \in c.refs : r[1] \in TableSet
  BY <1>2, TableNames DEF ReferenceInv, NamesTables
<1> QED
  BY <1>2, <1>3, TableNames DEF PlaceFor

\* A row names the tables of its references, and the tenants.
LEMMA RowNamesTables ==
    ASSUME NEW tenant, NEW id, NEW refs, NEW data,
           \A ref \in refs : ref[1] \in TableSet
    PROVE  /\ NamesTables(Row(tenant, id, refs, data))
           /\ Row(tenant, id, refs, data).key[2] = id
<1>1. "tenants" \in TableSet
  BY TableNames
<1> QED
  BY <1>1 DEF NamesTables, Row, Key

\* What is generated for a table, given what the other tables hold.
LEMMA StatementsFor ==
    ASSUME ReferenceInv, NEW table \in TableSet
    PROVE  /\ Listed(Statements(table))
           /\ \A s \in Range(Statements(table)) : StatementFor(table, s)
<1> DEFINE Goal(t) == /\ Listed(Statements(t))
                      /\ \A s \in Range(Statements(t)) : StatementFor(t, s)
<1>0. table \in {"tenants", "assets", "asset_components",
                 "asset_signal_tags_mapping", "apm_failuredomain",
                 "apm_failureclass", "apm_failuremode", "apm_anomaly_rule",
                 "apm_threshold_profile", "apm_failureevent", "workorder",
                 "maintenance"}
  BY TableNames
<1>1. Goal("tenants")
  <2> DEFINE items == TenantIds
             row == [ i \in DOMAIN items |-> TenantRow(TenantIds[i]) ]
  <2>1. Listed(items)
    BY ConfigurationAssumption DEF Listed
  <2>2. Statements("tenants")
          = [ i \in DOMAIN items |-> Statement("tenants", <<row[i]>>) ]
    BY DEF Statements, tenants_sql, Each
  <2>3. \A i \in DOMAIN items : NamesTables(row[i])
    BY <2>1, TableNames DEF NamesTables, TenantRow
  <2> HIDE DEF row, items
  <2> QED
    BY <2>1, <2>2, <2>3, SingleRows
<1>2. Goal("assets")
  <2> DEFINE items == Assets
             refs(i) == {}
             row == [ i \in DOMAIN items |->
                        Row(items[i].tenant, items[i].asset, refs(i),
                            "") ]
  <2>1. Listed(items)
    BY ConfigurationAssumption DEF Listed
  <2>2. Statements("assets")
          = [ i \in DOMAIN items |-> Statement("assets", <<row[i]>>) ]
    BY DEF Statements, assets_sql, Each
  <2>3. ASSUME NEW i \in DOMAIN items
        PROVE  \A ref \in refs(i) : ref[1] \in TableSet
    <3> HIDE DEF items
    <3> QED
      BY TableNames
  <2> HIDE DEF items, refs
  <2>4. \A i \in DOMAIN items : NamesTables(row[i])
    BY <2>3, RowNamesTables
  <2> HIDE DEF row
  <2> QED
    BY <2>1, <2>2, <2>4, SingleRows
<1>3. Goal("asset_components")
  <2> DEFINE items == Unseen(TagMetadata, LAMBDA m : Key(m.tenant, m.component))
             refs(i) == {<<"assets", Key(items[i].tenant, items[i].asset)>>}
             row == [ i \in DOMAIN items |->
                        Row(items[i].tenant, items[i].component, refs(i),
                            items[i].type) ]
  <2>1. Listed(items)
    <3>1. Listed(TagMetadata)
      BY ConfigurationAssumption DEF Listed
    <3> QED
      BY <3>1, PickedProperties DEF Unseen
  <2>2. Statements("asset_components")
          = [ i \in DOMAIN items |-> Statement("asset_components", <<row[i]>>) ]
    BY DEF Statements, components_sql, Each
  <2>3. ASSUME NEW i \in DOMAIN items
        PROVE  \A ref \in refs(i) : ref[1] \in TableSet
    <3> HIDE DEF items
    <3> QED
      BY TableNames
  <2> HIDE DEF items, refs
  <2>4. \A i \in DOMAIN items : NamesTables(row[i])
    BY <2>3, RowNamesTables
  <2> HIDE DEF row
  <2> QED
    BY <2>1, <2>2, <2>4, SingleRows
<1>4. Goal("asset_signal_tags_mapping")
  <2> DEFINE items == TagMetadata
             refs(i) == { <<"assets", Key(items[i].tenant, items[i].asset)>>,
                          <<"asset_components",
                            Key(items[i].tenant, items[i].component)>> }
             row == [ i \in DOMAIN items |->
                        Row(items[i].tenant, items[i].tag, refs(i),
                            "") ]
  <2>1. Listed(items)
    BY ConfigurationAssumption DEF Listed
  <2>2. Statements("asset_signal_tags_mapping")
          = [ i \in DOMAIN items |-> Statement("asset_signal_tags_mapping", <<row[i]>>) ]
    BY DEF Statements, tag_mappings_sql, Each
  <2>3. ASSUME NEW i \in DOMAIN items
        PROVE  \A ref \in refs(i) : ref[1] \in TableSet
    <3> HIDE DEF items
    <3> QED
      BY TableNames
  <2> HIDE DEF items, refs
  <2>4. \A i \in DOMAIN items : NamesTables(row[i])
    BY <2>3, RowNamesTables
  <2> HIDE DEF row
  <2> QED
    BY <2>1, <2>2, <2>4, SingleRows
<1>5. Goal("apm_anomaly_rule")
  <2> DEFINE items == PerTenant(Rules)
             refs(i) == {}
             row == [ i \in DOMAIN items |->
                        Row(items[i].tenant, items[i].item, refs(i),
                            "") ]
  <2>1. Listed(items)
    BY ConfigurationAssumption, PerTenantProperties DEF Listed
  <2>2. Statements("apm_anomaly_rule")
          = [ i \in DOMAIN items |-> Statement("apm_anomaly_rule", <<row[i]>>) ]
    BY DEF Statements, anomaly_rules_sql, Each
  <2>3. ASSUME NEW i \in DOMAIN items
        PROVE  \A ref \in refs(i) : ref[1] \in TableSet
    <3> HIDE DEF items
    <3> QED
      BY TableNames
  <2> HIDE DEF items, refs
  <2>4. \A i \in DOMAIN items : NamesTables(row[i])
    BY <2>3, RowNamesTables
  <2> HIDE DEF row
  <2> QED
    BY <2>1, <2>2, <2>4, SingleRows
<1>6. Goal("apm_threshold_profile")
  <2> DEFINE items == PerTenant(Profiles)
             refs(i) == {<<"apm_anomaly_rule", Key(items[i].tenant, items[i].item)>>}
             row == [ i \in DOMAIN items |->
                        Row(items[i].tenant, items[i].item, refs(i),
                            "") ]
  <2>1. Listed(items)
    BY ConfigurationAssumption, PerTenantProperties DEF Listed
  <2>2. Statements("apm_threshold_profile")
          = [ i \in DOMAIN items |-> Statement("apm_threshold_profile", <<row[i]>>) ]
    BY DEF Statements, threshold_profiles_sql, Each
  <2>3. ASSUME NEW i \in DOMAIN items
        PROVE  \A ref \in refs(i) : ref[1] \in TableSet
    <3> HIDE DEF items
    <3> QED
      BY TableNames
  <2> HIDE DEF items, refs
  <2>4. \A i \in DOMAIN items : NamesTables(row[i])
    BY <2>3, RowNamesTables
  <2> HIDE DEF row
  <2> QED
    BY <2>1, <2>2, <2>4, SingleRows
<1>7. Goal("apm_failuredomain")
  <2> DEFINE items == PerTenant(Unseen(ComponentTypes, LAMBDA c : c.domain))
             refs(i) == {}
             row == [ i \in DOMAIN items |->
                        Row(items[i].tenant, serial["apm_failuredomain"] + i, refs(i),
                            items[i].item.domain) ]
  <2>1. Listed(items)
    <3>1. Listed(ComponentTypes)
      BY ConfigurationAssumption DEF Listed
    <3> DEFINE unseen == Unseen(ComponentTypes, LAMBDA c : c.domain)
    <3>2. Listed(unseen)
      BY <3>1, PickedProperties DEF Unseen
    <3> HIDE DEF unseen
    <3>3. Listed(PerTenant(unseen))
      BY <3>2, PerTenantProperties
    <3> QED
      BY <3>3 DEF unseen
  <2>2. Statements("apm_failuredomain")
          = << Statement("apm_failuredomain", [ i \in DOMAIN items |-> row[i] ]) >>
    BY DEF Statements, domains_sql, Numbered
  <2>3. ASSUME NEW i \in DOMAIN items
        PROVE  \A ref \in refs(i) : ref[1] \in TableSet
    <3> HIDE DEF items
    <3> QED
      BY TableNames
  <2>4. serial["apm_failuredomain"] \in Nat
    BY TableNames DEF ReferenceInv
  <2> HIDE DEF items, refs
  <2>5. \A i \in DOMAIN items :
            NamesTables(row[i]) /\ row[i].key[2] = serial["apm_failuredomain"] + i
    BY <2>3, RowNamesTables
  <2> HIDE DEF row
  <2> DEFINE sql == Statements("apm_failuredomain")
             drawn == serial["apm_failuredomain"]
             name == "apm_failuredomain"
  <2>6. /\ sql = << Statement(name, [ i \in DOMAIN items |-> row[i] ]) >>
        /\ drawn \in Nat
        /\ \A i \in DOMAIN items : NamesTables(row[i]) /\ row[i].key[2] = drawn + i
    BY <2>2, <2>4, <2>5
  <2> HIDE DEF sql, drawn, name
  <2>7. Listed(sql) /\ \A s \in Range(sql) : StatementFor(name, s)
    BY <2>1, <2>6, NumberedRows
  <2> QED
    BY <2>7 DEF sql, name
<1>8. Goal("apm_failureclass")
  <2> DEFINE items == PerTenant(Unseen(ComponentTypes, LAMBDA c : c.class))
             refs(i) == { <<"apm_failuredomain", Key(items[i].tenant,
                             captured_id("apm_failuredomain", items[i].tenant,
                                         items[i].item.domain))>> }
             row == [ i \in DOMAIN items |->
                        Row(items[i].tenant, serial["apm_failureclass"] + i, refs(i),
                            items[i].item.class) ]
  <2>1. Listed(items)
    <3>1. Listed(ComponentTypes)
      BY ConfigurationAssumption DEF Listed
    <3> DEFINE unseen == Unseen(ComponentTypes, LAMBDA c : c.class)
    <3>2. Listed(unseen)
      BY <3>1, PickedProperties DEF Unseen
    <3> HIDE DEF unseen
    <3>3. Listed(PerTenant(unseen))
      BY <3>2, PerTenantProperties
    <3> QED
      BY <3>3 DEF unseen
  <2>2. Statements("apm_failureclass")
          = << Statement("apm_failureclass", [ i \in DOMAIN items |-> row[i] ]) >>
    BY DEF Statements, classes_sql, Numbered
  <2>3. ASSUME NEW i \in DOMAIN items
        PROVE  \A ref \in refs(i) : ref[1] \in TableSet
    <3> HIDE DEF items
    <3> QED
      BY TableNames
  <2>4. serial["apm_failureclass"] \in Nat
    BY TableNames DEF ReferenceInv
  <2> HIDE DEF items, refs
  <2>5. \A i \in DOMAIN items :
            NamesTables(row[i]) /\ row[i].key[2] = serial["apm_failureclass"] + i
    BY <2>3, RowNamesTables
  <2> HIDE DEF row
  <2> DEFINE sql == Statements("apm_failureclass")
             drawn == serial["apm_failureclass"]
             name == "apm_failureclass"
  <2>6. /\ sql = << Statement(name, [ i \in DOMAIN items |-> row[i] ]) >>
        /\ drawn \in Nat
        /\ \A i \in DOMAIN items : NamesTables(row[i]) /\ row[i].key[2] = drawn + i
    BY <2>2, <2>4, <2>5
  <2> HIDE DEF sql, drawn, name
  <2>7. Listed(sql) /\ \A s \in Range(sql) : StatementFor(name, s)
    BY <2>1, <2>6, NumberedRows
  <2> QED
    BY <2>7 DEF sql, name
<1>9. Goal("apm_failuremode")
  <2> DEFINE items == PerTenant(FailureModes)
             refs(i) == { <<"apm_failureclass", Key(items[i].tenant,
                             captured_id("apm_failureclass", items[i].tenant,
                                         class_of(items[i].item)))>> }
             row == [ i \in DOMAIN items |->
                        Row(items[i].tenant, serial["apm_failuremode"] + i, refs(i),
                            items[i].item) ]
  <2>1. Listed(items)
    BY ConfigurationAssumption, PerTenantProperties DEF Listed
  <2>2. Statements("apm_failuremode")
          = << Statement("apm_failuremode", [ i \in DOMAIN items |-> row[i] ]) >>
    BY DEF Statements, modes_sql, Numbered
  <2>3. ASSUME NEW i \in DOMAIN items
        PROVE  \A ref \in refs(i) : ref[1] \in TableSet
    <3> HIDE DEF items
    <3> QED
      BY TableNames
  <2>4. serial["apm_failuremode"] \in Nat
    BY TableNames DEF ReferenceInv
  <2> HIDE DEF items, refs
  <2>5. \A i \in DOMAIN items :
            NamesTables(row[i]) /\ row[i].key[2] = serial["apm_failuremode"] + i
    BY <2>3, RowNamesTables
  <2> HIDE DEF row
  <2> DEFINE sql == Statements("apm_failuremode")
             drawn == serial["apm_failuremode"]
             name == "apm_failuremode"
  <2>6. /\ sql = << Statement(name, [ i \in DOMAIN items |-> row[i] ]) >>
        /\ drawn \in Nat
        /\ \A i \in DOMAIN items : NamesTables(row[i]) /\ row[i].key[2] = drawn + i
    BY <2>2, <2>4, <2>5
  <2> HIDE DEF sql, drawn, name
  <2>7. Listed(sql) /\ \A s \in Range(sql) : StatementFor(name, s)
    BY <2>1, <2>6, NumberedRows
  <2> QED
    BY <2>7 DEF sql, name
<1>10. Goal("apm_failureevent")
  <2> DEFINE items == Slots
             refs(i) == items[i].place \union mode_ref(items[i])
             row == [ i \in DOMAIN items |->
                        Row(items[i].tenant, i, refs(i),
                            "") ]
  <2>1. Listed(items)
    BY TableNames, SlotsProperties DEF ReferenceInv
  <2>2. Statements("apm_failureevent")
          = [ i \in DOMAIN items |-> Statement("apm_failureevent", <<row[i]>>) ]
    BY DEF Statements, failure_events_sql, Numerate
  <2>3. ASSUME NEW i \in DOMAIN items
        PROVE  \A ref \in refs(i) : ref[1] \in TableSet
    <3>1. \A ref \in items[i].place : ref[1] \in TableSet
      BY SlotNamesTables
    <3>2. \A ref \in mode_ref(items[i]) : ref[1] \in TableSet
      BY TableNames DEF mode_ref
    <3> HIDE DEF items
    <3> QED
      BY <3>1, <3>2
  <2> HIDE DEF items, refs
  <2>4. \A i \in DOMAIN items : NamesTables(row[i])
    BY <2>3, RowNamesTables
  <2> HIDE DEF row
  <2> QED
    BY <2>1, <2>2, <2>4, SingleRows
<1>11. Goal("workorder")
  <2> DEFINE items == Slots
             refs(i) == items[i].place
             row == [ i \in DOMAIN items |->
                        Row(items[i].tenant, i, refs(i),
                            Key(items[i].tenant, i)) ]
  <2>1. Listed(items)
    BY TableNames, SlotsProperties DEF ReferenceInv
  <2>2. Statements("workorder")
          = [ i \in DOMAIN items |-> Statement("workorder", <<row[i]>>) ]
    BY DEF Statements, workorder_sql, Numerate
  <2>3. ASSUME NEW i \in DOMAIN items
        PROVE  \A ref \in refs(i) : ref[1] \in TableSet
    <3>1. \A ref \in items[i].place : ref[1] \in TableSet
      BY SlotNamesTables
    <3> HIDE DEF items
    <3> QED
      BY <3>1, TableNames
  <2> HIDE DEF items, refs
  <2>4. \A i \in DOMAIN items : NamesTables(row[i])
    BY <2>3, RowNamesTables
  <2> HIDE DEF row
  <2> QED
    BY <2>1, <2>2, <2>4, SingleRows
<1>12. Goal("maintenance")
  <2> DEFINE items == Slots
             refs(i) == items[i].place
                          \union {<<"workorder", Key(items[i].tenant, i)>>}
             row == [ i \in DOMAIN items |->
                        Row(items[i].tenant, i, refs(i),
                            Key(items[i].tenant, i)) ]
  <2>1. Listed(items)
    BY TableNames, SlotsProperties DEF ReferenceInv
  <2>2. Statements("maintenance")
          = [ i \in DOMAIN items |-> Statement("maintenance", <<row[i]>>) ]
    BY DEF Statements, maintenance_sql, Numerate
  <2>3. ASSUME NEW i \in DOMAIN items
        PROVE  \A ref \in refs(i) : ref[1] \in TableSet
    <3>1. \A ref \in items[i].place : ref[1] \in TableSet
      BY SlotNamesTables
    <3> HIDE DEF items
    <3> QED
      BY <3>1, TableNames
  <2> HIDE DEF items, refs
  <2>4. \A i \in DOMAIN items : NamesTables(row[i])
    BY <2>3, RowNamesTables
  <2> HIDE DEF row
  <2> QED
    BY <2>1, <2>2, <2>4, SingleRows
<1> HIDE DEF Goal
<1>13. Goal(table)
  BY <1>0, <1>1, <1>2, <1>3, <1>4, <1>5, <1>6, <1>7, <1>8, <1>9, <1>10, <1>11, <1>12
<1> QED
  BY <1>13 DEF Goal

-----------------------------------------------------------------------------
(* Every reference names a row, in every reachable state.                  *)

LEMMA ListedConcat ==
    ASSUME NEW a, NEW b, Listed(a), Listed(b)
    PROVE  Listed(a \o b) /\ Range(a \o b) = Range(a) \union Range(b)
<1> DEFINE S == Range(a) \union Range(b)
<1>1. a \in Seq(Range(a)) /\ b \in Seq(Range(b))
  BY DEF Listed
<1>2. Range(a) \subseteq S /\ Range(b) \subseteq S
  OBVIOUS
<1> HIDE DEF S
<1>3. a \in Seq(S) /\ b \in Seq(S)
  <2> DEFINE A == Range(a)
             B == Range(b)
  <2>1. a \in Seq(A) /\ b \in Seq(B) /\ A \subseteq S /\ B \subseteq S
    BY <1>1, <1>2
  <2> HIDE DEF A, B
  <2> QED
    BY <2>1
<1>4. a \o b \in Seq(S) /\ Range(a \o b) = Range(a) \union Range(b)
  BY <1>3, RangeOfConcat
<1> QED
  BY <1>4, IsListed

\* Rows with keys that no row has yet.
LEMMA DistinctConcat ==
    ASSUME NEW a, NEW b, Listed(a), Listed(b), Distinct(a), Distinct(b),
           \A r \in Range(b) : \A q \in Range(a) : r.key # q.key
    PROVE  Distinct(a \o b)
<1>1. a \in Seq(Range(a)) /\ b \in Seq(Range(b))
  BY DEF Listed
<1>2. /\ DOMAIN a = 1 .. Len(a) /\ DOMAIN b = 1 .. Len(b)
      /\ Len(a) \in Nat /\ Len(b) \in Nat
      /\ DOMAIN (a \o b) = 1 .. Len(a) + Len(b)
      /\ \A i \in 1 .. Len(a) : (a \o b)[i] = a[i]
      /\ \A i \in Len(a) + 1 .. Len(a) + Len(b) : (a \o b)[i] = b[i - Len(a)]
  <2> DEFINE A == Range(a)
             B == Range(b)
  <2>1. a \in Seq(A) /\ b \in Seq(B)
    BY <1>1
  <2> HIDE DEF A, B
  <2> QED
    BY <2>1
<1>3. /\ \A i \in 1 .. Len(a) : a[i] \in Range(a)
      /\ \A i \in 1 .. Len(b) : b[i] \in Range(b)
  BY <1>2 DEF Range
<1> DEFINE c == a \o b
<1>4. /\ DOMAIN c = 1 .. Len(a) + Len(b)
      /\ \A i \in 1 .. Len(a) : c[i] = a[i]
      /\ \A i \in Len(a) + 1 .. Len(a) + Len(b) :
             c[i] = b[i - Len(a)] /\ i - Len(a) \in 1 .. Len(b)
  BY <1>2
<1> HIDE DEF c
<1> SUFFICES ASSUME NEW i \in DOMAIN c, NEW j \in DOMAIN c, c[i].key = c[j].key
             PROVE  i = j
  BY DEF Distinct, c
<1>5. CASE i \in 1 .. Len(a) /\ j \in 1 .. Len(a)
  BY <1>2, <1>4, <1>5 DEF Distinct
<1>6. CASE i \in Len(a) + 1 .. Len(a) + Len(b) /\ j \in Len(a) + 1 .. Len(a) + Len(b)
  <2>1. i - Len(a) = j - Len(a)
    BY <1>2, <1>4, <1>6 DEF Distinct
  <2> QED
    BY <1>2, <1>6, <2>1
<1>7. CASE i \in 1 .. Len(a) /\ j \in Len(a) + 1 .. Len(a) + Len(b)
  BY <1>3, <1>4, <1>7
<1>8. CASE j \in 1 .. Len(a) /\ i \in Len(a) + 1 .. Len(a) + Len(b)
  BY <1>3, <1>4, <1>8
<1> QED
  BY <1>2, <1>4, <1>5, <1>6, <1>7, <1>8

\* The backfill keeps an event's key and its other references; the two that
\* it writes name rows that are stored.
LEMMA LinkedRefs ==
    ASSUME NEW e
    PROVE  /\ Linked(e).key = e.key
           /\ \A ref \in Linked(e).refs :
                  \/ ref \in e.refs
                  \/ /\ ref[1] \in {"workorder", "maintenance"}
                     /\ ref[2] \in Keys(ref[1])
           /\ \A ref \in e.refs :
                  ref[1] \notin {"workorder", "maintenance"} => ref \in Linked(e).refs
<1>1. CASE Matches(e) = {}
  BY <1>1 DEF Linked
<1>2. CASE Matches(e) # {}
  <2> DEFINE match == CHOOSE p \in Matches(e) : TRUE
             kept == { r \in e.refs : r[1] \notin {"workorder", "maintenance"} }
  <2>1. match \in Matches(e)
    BY <1>2
  <2>2. /\ match[1] \in Range(db["workorder"])
        /\ match[2] \in Range(db["maintenance"])
    <3> HIDE DEF match
    <3> QED
      BY <2>1 DEF Matches
  <2>3. Linked(e) = [ key |-> e.key,
                      refs |-> kept \union { <<"workorder", match[1].key>>,
                                             <<"maintenance", match[2].key>> },
                      data |-> e.data ]
    BY <1>2 DEF Linked
  <2>4. /\ match[1].key \in Keys("workorder")
        /\ match[2].key \in Keys("maintenance")
    BY <2>2 DEF Keys
  <2> HIDE DEF match
  <2> QED
    BY <2>3, <2>4
<1> QED
  BY <1>1, <1>2

\* The rest of a script.
LEMMA TailOf ==
    ASSUME NEW s, Listed(s), s # <<>>
    PROVE  /\ Listed(Tail(s)) /\ Range(Tail(s)) \subseteq Range(s)
           /\ Head(s) \in Range(s)
<1>1. s \in Seq(Range(s))
  BY DEF Listed
<1> DEFINE R == Range(s)
<1>2. s \in Seq(R)
  BY <1>1
<1> HIDE DEF R
<1>3. Tail(s) \in Seq(R) /\ Head(s) \in R
  BY <1>2
<1> QED
  BY <1>3, IsListed DEF R

LEMMA InitReferenceInv == Init => ReferenceInv
<1> SUFFICES ASSUME Init PROVE ReferenceInv
  OBVIOUS
<1> USE DEF Init
<1>1. db = [ t \in TableSet |-> db[t] ] /\ serial \in [ TableSet -> Nat ]
  OBVIOUS
<1> DEFINE rows == [ i \in DOMAIN TenantIds |-> TenantRow(TenantIds[i]) ]
<1>2. db["tenants"] = rows /\ \A t \in TableSet \ {"tenants"} : db[t] = <<>>
  BY TableNames
<1>3. rows = [ i \in DOMAIN TenantIds |-> rows[i] ] /\ Listed(TenantIds)
  BY ConfigurationAssumption DEF Listed
<1>4. /\ Listed(rows)
      /\ \A r \in Range(rows) : \E i \in DOMAIN TenantIds : r = rows[i]
  <2> HIDE DEF rows
  <2> QED
    BY <1>3, ListedOver
<1>5. Distinct(rows)
  BY ConfigurationAssumption DEF Distinct, TenantRow, Key
<1>6. \A r \in Range(rows) : r.refs = {}
  <2>1. \A i \in DOMAIN TenantIds : rows[i].refs = {}
    BY DEF TenantRow
  <2> HIDE DEF rows
  <2> QED
    BY <1>4, <2>1
<1>7. Listed(<<>>) /\ Range(<<>>) = {} /\ Distinct(<<>>)
  <2>1. Range(<<>>) = {} /\ <<>> \in Seq({})
    BY DEF Range
  <2> QED
    BY <2>1 DEF Listed, Distinct
<1>8. ASSUME NEW t \in TableSet
      PROVE  /\ Listed(db[t]) /\ Distinct(db[t])
             /\ \A r \in Range(db[t]) :
                    /\ NamesTables(r)
                    /\ \A ref \in r.refs : ref[2] \in Keys(ref[1])
  <2> HIDE DEF rows
  <2>1. CASE t = "tenants"
    BY <1>2, <1>4, <1>5, <1>6, <2>1 DEF NamesTables
  <2>2. CASE t # "tenants"
    BY <1>2, <1>7, <2>2
  <2> QED
    BY <2>1, <2>2
<1> QED
  BY <1>1, <1>7, <1>8 DEF ReferenceInv

\* A step that leaves the tables alone.
LEMMA TablesKept ==
    ASSUME ReferenceInv, db' = db, serial' = serial,
           inserting' => step' \in TableSet,
           script' # <<>> => inserting', Listed(script'),
           \A s \in Range(script') : StatementFor(step', s)
    PROVE  ReferenceInv'
BY DEF ReferenceInv, Keys

LEMMA PrepareReferenceInv == ReferenceInv /\ Prepare => ReferenceInv'
<1> SUFFICES ASSUME ReferenceInv, Prepare PROVE ReferenceInv'
  OBVIOUS
<1>1. /\ step \in TableSet /\ inserting' /\ step' = step
      /\ script' = Statements(step) /\ UNCHANGED <<db, serial>>
  BY DEF Prepare
<1>2. /\ Listed(Statements(step))
      /\ \A s \in Range(Statements(step)) : StatementFor(step, s)
  BY <1>1, StatementsFor
<1> QED
  BY <1>1, <1>2, TablesKept

LEMMA ExecuteReferenceInv == ReferenceInv /\ Execute => ReferenceInv'
<1> SUFFICES ASSUME ReferenceInv, Execute PROVE ReferenceInv'
  OBVIOUS
<1> DEFINE s == Head(script)
<1>1. /\ inserting /\ script # <<>> /\ step \in TableSet
      /\ db' = IF Accepted(s) THEN [db EXCEPT ![s.table] = @ \o s.rows] ELSE db
      /\ serial' = [serial EXCEPT ![s.table] = @ + Len(s.rows)]
      /\ script' = Tail(script) /\ UNCHANGED <<step, inserting>>
  BY DEF Execute, ReferenceInv
<1>2. /\ Listed(script') /\ Range(script') \subseteq Range(script)
      /\ s \in Range(script)
  BY <1>1, TailOf DEF ReferenceInv
<1>3. StatementFor(step, s)
  BY <1>2 DEF ReferenceInv
<1> HIDE DEF s
<1>4. s.table = step /\ Listed(s.rows) /\ Distinct(s.rows)
  BY <1>3 DEF StatementFor
<1>5. serial' \in [ TableSet -> Nat ]
  <2>1. Len(s.rows) \in Nat
    BY <1>4 DEF Listed
  <2>2. serial \in [ TableSet -> Nat ]
    BY DEF ReferenceInv
  <2> QED
    BY <1>1, <1>4, <2>1, <2>2
<1>6. db = [ t \in TableSet |-> db[t] ]
  BY DEF ReferenceInv
<1>7. ASSUME NEW t \in TableSet
      PROVE  /\ Listed(db'[t]) /\ Distinct(db'[t])
             /\ Range(db[t]) \subseteq Range(db'[t])
             /\ \A r \in Range(db'[t]) :
                    /\ NamesTables(r)
                    /\ \A ref \in r.refs : ref[2] \in Keys(ref[1])
  <2>1. /\ Listed(db[t]) /\ Distinct(db[t])
        /\ \A r \in Range(db[t]) :
               NamesTables(r) /\ \A ref \in r.refs : ref[2] \in Keys(ref[1])
    BY DEF ReferenceInv
  <2>2. CASE Accepted(s) /\ t = step
    <3>1. db'[t] = db[t] \o s.rows
      BY <1>1, <1>4, <1>6, <2>2
    <3>2. Listed(db'[t]) /\ Range(db'[t]) = Range(db[t]) \union Range(s.rows)
      BY <1>4, <2>1, <3>1, ListedConcat
    <3>3. \A r \in Range(s.rows) :
              /\ \A q \in Range(db[t]) : r.key # q.key
              /\ \A ref \in r.refs : ref[2] \in Keys(ref[1])
      BY <1>4, <2>2 DEF Accepted, Keys
    <3>4. Distinct(db'[t])
      BY <1>4, <2>1, <3>1, <3>3, DistinctConcat
    <3>5. \A r \in Range(s.rows) : NamesTables(r)
      BY <1>3 DEF StatementFor
    <3> QED
      BY <2>1, <3>2, <3>3, <3>4, <3>5
  <2>3. CASE ~(Accepted(s) /\ t = step)
    <3>1. db'[t] = db[t]
      BY <1>1, <1>4, <1>6, <2>3
    <3> QED
      BY <2>1, <3>1
  <2> QED
    BY <2>2, <2>3
<1>8. ASSUME NEW t \in TableSet PROVE Keys(t) \subseteq Keys(t)'
  BY <1>7 DEF Keys
<1>9. db' = [ t \in TableSet |-> db'[t] ]
  BY <1>1, <1>6
<1>10. ASSUME NEW t \in TableSet, NEW r \in Range(db'[t]), NEW ref \in r.refs
       PROVE  ref[2] \in Keys(ref[1])'
  BY <1>7, <1>8 DEF NamesTables
<1>11. \A q \in Range(script') : StatementFor(step', q)
  BY <1>1, <1>2 DEF ReferenceInv
<1> QED
  BY <1>1, <1>2, <1>5, <1>7, <1>9, <1>10, <1>11 DEF ReferenceInv

LEMMA BackfillReferenceInv == ReferenceInv /\ Backfill => ReferenceInv'
<1> SUFFICES ASSUME ReferenceInv, Backfill PROVE ReferenceInv'
  OBVIOUS
<1> DEFINE old == db["apm_failureevent"]
           new == [ i \in DOMAIN old |-> Linked(old[i]) ]
<1>1. /\ db' = [ db EXCEPT !["apm_failureevent"] = new ]
      /\ step = "backfill" /\ UNCHANGED <<serial, inserting, script>>
  BY DEF Backfill
<1>2. db = [ t \in TableSet |-> db[t] ] /\ "apm_failureevent" \in TableSet
  BY TableNames DEF ReferenceInv
<1>3. /\ Listed(old) /\ Distinct(old)
      /\ \A r \in Range(old) :
             NamesTables(r) /\ \A ref \in r.refs : ref[2] \in Keys(ref[1])
  BY <1>2 DEF ReferenceInv
<1>4. /\ db'["apm_failureevent"] = new
      /\ \A t \in TableSet \ {"apm_failureevent"} : db'[t] = db[t]
      /\ db' = [ t \in TableSet |-> db'[t] ]
  BY <1>1, <1>2
<1>5. ~inserting /\ script = <<>>
  BY <1>1, StepNames DEF ReferenceInv
<1>6. \A i \in DOMAIN old : old[i] \in Range(old)
  BY DEF Range
<1> HIDE DEF old
<1>7. new = [ i \in DOMAIN old |-> new[i] ]
  OBVIOUS
<1>8. DOMAIN new = DOMAIN old /\ \A i \in DOMAIN old : new[i] = Linked(old[i])
  OBVIOUS
<1> HIDE DEF new
<1>9. /\ Listed(new)
      /\ \A r \in Range(new) : \E i \in DOMAIN old : r = new[i]
  BY <1>3, <1>7, ListedOver
<1>10. \A i \in DOMAIN old : new[i].key = old[i].key
  BY <1>8, LinkedRefs
<1>11. Distinct(new)
  BY <1>3, <1>8, <1>10 DEF Distinct
<1>12. ASSUME NEW t \in TableSet PROVE Keys(t)' = Keys(t)
  <2>1. CASE t = "apm_failureevent"
    <3>1. Keys(t)' = { r.key : r \in Range(new) }
      BY <1>4, <2>1 DEF Keys
    <3>2. Keys(t) = { r.key : r \in Range(old) }
      BY <2>1 DEF Keys, old
    <3> QED
      BY <1>8, <1>10, <3>1, <3>2 DEF Range
  <2>2. CASE t # "apm_failureevent"
    BY <1>4, <2>2 DEF Keys
  <2> QED
    BY <2>1, <2>2
<1>13. ASSUME NEW r \in Range(new), NEW ref \in r.refs
       PROVE  ref[1] \in TableSet /\ ref[2] \in Keys(ref[1])
  <2>1. PICK i \in DOMAIN old : r = Linked(old[i])
    BY <1>8, <1>9
  <2>2. CASE ref \in old[i].refs
    BY <1>3, <1>6, <2>2 DEF NamesTables
  <2>3. CASE ref[1] \in {"workorder", "maintenance"} /\ ref[2] \in Keys(ref[1])
    BY <2>3, TableNames
  <2> QED
    BY <2>1, <2>2, <2>3, LinkedRefs
<1>14. ASSUME NEW t \in TableSet
       PROVE  /\ Listed(db'[t]) /\ Distinct(db'[t])
              /\ \A r \in Range(db'[t]) :
                     /\ NamesTables(r)
                     /\ \A ref \in r.refs : ref[2] \in Keys(ref[1])'
  <2>1. CASE t = "apm_failureevent"
    BY <1>4, <1>9, <1>11, <1>12, <1>13, <2>1 DEF NamesTables
  <2>2. CASE t # "apm_failureevent"
    <3>1. db'[t] = db[t]
      BY <1>4, <2>2
    <3> QED
      BY <1>12, <3>1 DEF ReferenceInv, NamesTables
  <2> QED
    BY <2>1, <2>2
<1>15. Listed(script) /\ serial \in [ TableSet -> Nat ] /\ Range(<<>>) = {}
  BY DEF ReferenceInv, Range
<1> QED
  BY <1>1, <1>4, <1>5, <1>14, <1>15 DEF ReferenceInv

\* ReferenceInv is inductive.
LEMMA NextReferenceInv == ReferenceInv /\ [Next]_vars => ReferenceInv'
<1> SUFFICES ASSUME ReferenceInv, [Next]_vars PROVE ReferenceInv'
  OBVIOUS
<1>1. Listed(<<>>) /\ Range(<<>>) = {}
  <2>1. Range(<<>>) = {} /\ <<>> \in Seq({})
    BY DEF Range
  <2> QED
    BY <2>1 DEF Listed
<1>2. ~inserting => script = <<>>
  BY DEF ReferenceInv
<1>3. CASE script = <<>> /\ script' = <<>> /\ ~inserting' /\ UNCHANGED <<db, serial>>
  BY <1>1, <1>3, TablesKept
<1>4. CASE Start
  <2>1. UNCHANGED <<db, serial, script, inserting>> /\ step = "idle"
    BY <1>4 DEF Start
  <2>2. ~inserting
    BY <2>1, StepNames DEF ReferenceInv
  <2> QED
    BY <1>2, <1>3, <2>1, <2>2
<1>5. CASE SkipTable
  BY <1>2, <1>3, <1>5 DEF SkipTable
<1>6. CASE Prepare
  BY <1>6, PrepareReferenceInv
<1>7. CASE Execute
  BY <1>7, ExecuteReferenceInv
<1>8. CASE FinishTable
  BY <1>3, <1>8 DEF FinishTable
<1>9. CASE Backfill
  BY <1>9, BackfillReferenceInv
<1>10. CASE Report
  <2>1. UNCHANGED <<db, serial, script, inserting>> /\ step = "report"
    BY <1>10 DEF Report
  <2>2. ~inserting
    BY <2>1, StepNames DEF ReferenceInv
  <2> QED
    BY <1>2, <1>3, <2>1, <2>2
<1>11. CASE Interrupt
  <2>1. /\ UNCHANGED <<db, serial>> /\ script' = <<>> /\ ~inserting'
    BY <1>11 DEF Interrupt
  <2> QED
    BY <1>1, <2>1, TablesKept
<1>12. CASE UNCHANGED vars
  BY <1>12 DEF vars, ReferenceInv, Keys
<1> QED
  BY <1>4, <1>5, <1>6, <1>7, <1>8, <1>9, <1>10, <1>11, <1>12 DEF Next

\* The invariant of keys and references holds in every reachable state.
THEOREM ReferenceInvariance == Spec => []ReferenceInv
BY InitReferenceInv, NextReferenceInv, PTL DEF Spec

\* Distinct keys are as many as the rows.
LEMMA KeysAreRows ==
    ASSUME NEW rows, Listed(rows), Distinct(rows)
    PROVE  Cardinality({ r.key : r \in Range(rows) }) = Len(rows)
<1> DEFINE n == Len(rows)
           K == { r.key : r \in Range(rows) }
           f == [ i \in 1 .. n |-> rows[i].key ]
<1>1. DOMAIN rows = 1 .. n /\ n \in Nat
  BY DEF Listed
<1>2. \A i \in 1 .. n : f[i] \in K
  BY <1>1 DEF Range
<1>3. \A k \in K : \E i \in 1 .. n : f[i] = k
  BY <1>1 DEF Range
<1>4. \A i, j \in 1 .. n : f[i] = f[j] => i = j
  BY <1>1 DEF Distinct
<1>5. f \in [ 1 .. n -> K ]
  BY <1>2
<1> HIDE DEF f, K
<1>6. f \in Bijection(1 .. n, K)
  BY <1>3, <1>4, <1>5 DEF Bijection, Injection, Surjection, IsInjective
<1> HIDE DEF n
<1>7. IsFiniteSet(1 .. n) /\ Cardinality(1 .. n) = n
  BY <1>1, FS_Interval
<1>8. Cardinality(K) = Cardinality(1 .. n)
  BY <1>6, <1>7, FS_Bijection DEF ExistsBijection
<1> QED
  BY <1>7, <1>8 DEF K, n

\* Every reference names a row and no key is stored twice, in whatever order
\* statements are refused and runs are killed.
THEOREM ReferencesAlwaysHold == Spec => []ReferencesHold
<1>1. ReferenceInv => ReferencesHold
  BY KeysAreRows DEF ReferenceInv, ReferencesHold, Keys
<1> QED
  BY <1>1, ReferenceInvariance, PTL

-----------------------------------------------------------------------------
(* Rows of one number are about one component.                             *)

\* The slots depend on the components alone.
LEMMA SlotsKept ==
    ASSUME db'["asset_components"] = db["asset_components"]
    PROVE  Slots' = Slots
<1>1. ASSUME NEW t PROVE ComponentsOf(t)' = ComponentsOf(t)
  BY DEF ComponentsOf
<1>2. ASSUME NEW t PROVE SlotsOf(t)' = SlotsOf(t)
  BY <1>1 DEF SlotsOf
<1> QED
  BY <1>2 DEF Slots

\* Without components there is no slot, and no row has a number.
LEMMA NoSlots ==
    ASSUME ReferenceInv, NumbersInv, db["asset_components"] = <<>>,
           NEW t \in Numerated
    PROVE  db[t] = <<>>
<1>1. t \in TableSet /\ "asset_components" \in TableSet
  BY TableNames DEF Numerated, Events
<1>2. Listed(db["asset_components"]) /\ Listed(db[t])
  BY <1>1 DEF ReferenceInv
<1>3. DOMAIN Slots = {}
  <2>1. Range(db["asset_components"]) = {}
    BY DEF Range
  <2> QED
    BY <1>2, <2>1, SlotsProperties
<1>4. Range(db[t]) = {}
  BY <1>3 DEF NumbersInv, NumberedRow
<1> DEFINE rows == db[t]
<1>5. rows \in Seq(Range(rows)) /\ Range(rows) = {}
  BY <1>2, <1>4 DEF Listed
<1> HIDE DEF rows
<1>6. rows = <<>>
  <2>1. rows \in Seq({})
    BY <1>5
  <2> QED
    BY <2>1
<1> QED
  BY <1>6 DEF rows

\* The parts that a slot's place names, and no work order among them.
LEMMA PlaceOfSlot ==
    ASSUME ReferenceInv, NumbersInv, NEW n \in DOMAIN Slots
    PROVE  \A ref \in Slots[n].place : ref[1] # "workorder"
<1>1. Listed(db["asset_components"])
  BY TableNames DEF ReferenceInv
<1>2. PICK c \in Range(db["asset_components"]) : Slots[n].place = PlaceFor(c)
  BY <1>1, SlotsProperties
<1> QED
  BY <1>2 DEF NumbersInv, ComponentRow, PlaceFor

\* A row made for a slot.
LEMMA RowOfSlot ==
    ASSUME NEW table \in Numerated, NEW n \in DOMAIN Slots, NEW more, NEW data,
           \A ref \in more : ref[1] \notin Parts,
           table # Events => data = Key(Slots[n].tenant, n),
           table = "maintenance" =>
               /\ \A ref \in Slots[n].place : ref[1] # "workorder"
               /\ more = {<<"workorder", Key(Slots[n].tenant, n)>>}
    PROVE  NumberedRow(table, Row(Slots[n].tenant, n, Slots[n].place \union more, data))
<1> DEFINE slot == Slots[n]
           r == Row(slot.tenant, n, slot.place \union more, data)
<1>1. /\ r.key = Key(slot.tenant, n) /\ r.data = data
      /\ r.refs = (slot.place \union more)
                    \union {<<"tenants", Key(slot.tenant, slot.tenant)>>}
  BY DEF Row
<1> HIDE DEF slot, r
<1>2. PartsOf(r.refs) = PartsOf(slot.place)
  BY <1>1 DEF PartsOf, Parts
<1>3. table = "maintenance" =>
          \A ref \in r.refs : ref[1] = "workorder" => ref[2] = r.key
  BY <1>1 DEF slot
<1>4. NumberedRow(table, r)
  BY <1>1, <1>2, <1>3 DEF NumberedRow, slot
<1> QED
  BY <1>4 DEF r, slot

\* The one row of each statement that Numerate generates.
LEMMA NumeratedRows ==
    ASSUME ReferenceInv, NumbersInv, NEW table \in Numerated,
           NEW s \in Range(Statements(table)), NEW r \in Range(s.rows)
    PROVE  NumberedRow(table, r)
<1>1. CASE table = Events
  <2>1. PICK n \in DOMAIN Slots :
            s = Statement(Events, <<Row(Slots[n].tenant, n,
                    Slots[n].place \union mode_ref(Slots[n]), "")>>)
    BY <1>1 DEF Events, Range, Statements, failure_events_sql, Numerate
  <2>2. r = Row(Slots[n].tenant, n, Slots[n].place \union mode_ref(Slots[n]), "")
    <3> DEFINE row ==
            Row(Slots[n].tenant, n, Slots[n].place \union mode_ref(Slots[n]), "")
    <3>1. s.rows = <<row>>
      BY <2>1 DEF Statement
    <3> HIDE DEF row
    <3>2. r = row
      BY <3>1 DEF Range
    <3> QED
      BY <3>2 DEF row
  <2>3. \A ref \in mode_ref(Slots[n]) : ref[1] \notin Parts
    BY DEF mode_ref, Parts
  <2> QED
    BY <1>1, <2>2, <2>3, RowOfSlot DEF Events
<1>2. CASE table = "workorder"
  <2>1. PICK n \in DOMAIN Slots :
            s = Statement("workorder", <<Row(Slots[n].tenant, n,
                    Slots[n].place, Key(Slots[n].tenant, n))>>)
    BY <1>2 DEF Range, Statements, workorder_sql, Numerate
  <2>2. r = Row(Slots[n].tenant, n, Slots[n].place \union {}, Key(Slots[n].tenant, n))
    BY <2>1 DEF Statement, Range
  <2> QED
    BY <1>2, <2>2, RowOfSlot
<1>3. CASE table = "maintenance"
  <2>1. PICK n \in DOMAIN Slots :
            s = Statement("maintenance", <<Row(Slots[n].tenant, n,
                    Slots[n].place \union {<<"workorder", Key(Slots[n].tenant, n)>>},
                    Key(Slots[n].tenant, n))>>)
    BY <1>3 DEF Range, Statements, maintenance_sql, Numerate
  <2>2. r = Row(Slots[n].tenant, n,
                Slots[n].place \union {<<"workorder", Key(Slots[n].tenant, n)>>},
                Key(Slots[n].tenant, n))
    BY <2>1 DEF Statement, Range
  <2> DEFINE more == {<<"workorder", Key(Slots[n].tenant, n)>>}
             data == Key(Slots[n].tenant, n)
  <2>3. \A ref \in more : ref[1] \notin Parts
    BY DEF Parts
  <2>4. /\ \A ref \in Slots[n].place : ref[1] # "workorder"
        /\ more = {<<"workorder", Key(Slots[n].tenant, n)>>}
        /\ data = Key(Slots[n].tenant, n)
    BY PlaceOfSlot
  <2>5. r = Row(Slots[n].tenant, n, Slots[n].place \union more, data)
    BY <2>2
  <2> HIDE DEF more, data
  <2> QED
    BY <1>3, <2>3, <2>4, <2>5, RowOfSlot
<1> QED
  BY <1>1, <1>2, <1>3 DEF Numerated

\* A component names its asset and its tenant.
LEMMA ComponentRows ==
    ASSUME NEW s \in Range(Statements("asset_components")), NEW r \in Range(s.rows)
    PROVE  ComponentRow(r)
<1> DEFINE items == Unseen(TagMetadata, LAMBDA m : Key(m.tenant, m.component))
<1>1. PICK i \in DOMAIN items :
          s = Statement("asset_components",
                <<Row(items[i].tenant, items[i].component,
                      {<<"assets", Key(items[i].tenant, items[i].asset)>>},
                      items[i].type)>>)
  BY DEF Range, Statements, components_sql, Each
<1> HIDE DEF items
<1>2. r = Row(items[i].tenant, items[i].component,
              {<<"assets", Key(items[i].tenant, items[i].asset)>>}, items[i].type)
  BY <1>1 DEF Statement, Range
<1> QED
  BY <1>2 DEF ComponentRow, Row

\* A step that leaves the tables alone.
LEMMA NumbersKept ==
    ASSUME NumbersInv, db' = db,
           script' = <<>> \/ (script' = script /\ step' = step /\ inserting' = inserting),
           script' = <<>> => ~inserting' \/ (step' = step /\ inserting' = inserting)
    PROVE  NumbersInv'
<1>1. Slots' = Slots
  BY SlotsKept
<1>2. ASSUME NEW t, NEW r, NumberedRow(t, r) PROVE NumberedRow(t, r)'
  BY <1>1, <1>2 DEF NumberedRow
<1>3. Range(<<>>) = {}
  BY DEF Range
<1>4. \A t \in Numerated : \A r \in Range(db'[t]) : NumberedRow(t, r)'
  BY <1>2 DEF NumbersInv
<1>5. ASSUME NEW t \in Numerated, step' = t, NEW q \in Range(script'), NEW r \in Range(q.rows)
      PROVE  NumberedRow(t, r)'
  BY <1>2, <1>3, <1>5 DEF NumbersInv
<1> QED
  BY <1>3, <1>4, <1>5 DEF NumbersInv

LEMMA PrepareNumbersInv == ReferenceInv /\ NumbersInv /\ Prepare => NumbersInv'
<1> SUFFICES ASSUME ReferenceInv, NumbersInv, Prepare PROVE NumbersInv'
  OBVIOUS
<1>1. /\ step \in TableSet /\ to_load(step) /\ inserting'
      /\ script' = Statements(step) /\ UNCHANGED <<db, step>>
  BY DEF Prepare
<1>2. Slots' = Slots
  BY <1>1, SlotsKept
<1>3. ASSUME NEW t, NEW r, NumberedRow(t, r) PROVE NumberedRow(t, r)'
  BY <1>2, <1>3 DEF NumberedRow
<1>4. \A t \in Numerated : \A r \in Range(db'[t]) : NumberedRow(t, r)'
  BY <1>1, <1>3 DEF NumbersInv
<1>5. ASSUME NEW t \in Numerated, step' = t, NEW q \in Range(script'), NEW r \in Range(q.rows)
      PROVE  NumberedRow(t, r)'
  BY <1>1, <1>3, <1>5, NumeratedRows
<1>6. ASSUME step = "asset_components", NEW q \in Range(script'), NEW r \in Range(q.rows)
      PROVE  ComponentRow(r)
  BY <1>1, <1>6, ComponentRows
<1>7. ASSUME step = "asset_components", NEW t \in Numerated PROVE db[t] = <<>>
  <2>1. db["asset_components"] = <<>>
    BY <1>1, <1>7 DEF to_load
  <2> QED
    BY <2>1, NoSlots
<1> QED
  BY <1>1, <1>4, <1>5, <1>6, <1>7 DEF NumbersInv

LEMMA ExecuteNumbersInv == ReferenceInv /\ NumbersInv /\ Execute => NumbersInv'
<1> SUFFICES ASSUME ReferenceInv, NumbersInv, Execute PROVE NumbersInv'
  OBVIOUS
<1> DEFINE s == Head(script)
<1>1. /\ inserting /\ script # <<>> /\ step \in TableSet
      /\ db' = IF Accepted(s) THEN [db EXCEPT ![s.table] = @ \o s.rows] ELSE db
      /\ script' = Tail(script) /\ UNCHANGED <<step, inserting>>
  BY DEF Execute, ReferenceInv
<1>2. Range(script') \subseteq Range(script) /\ s \in Range(script)
  BY <1>1, TailOf DEF ReferenceInv
<1>3. s.table = step /\ Listed(s.rows)
  BY <1>2 DEF ReferenceInv, StatementFor
<1>4. db = [ t \in TableSet |-> db[t] ] /\ \A t \in TableSet : Listed(db[t])
  BY DEF ReferenceInv
<1> HIDE DEF s
<1>5. /\ \A t \in TableSet \ {step} : db'[t] = db[t]
      /\ Range(db'[step]) \subseteq Range(db[step]) \union Range(s.rows)
  <2>1. CASE Accepted(s)
    <3>1. db'[step] = db[step] \o s.rows /\ \A t \in TableSet \ {step} : db'[t] = db[t]
      BY <1>1, <1>3, <1>4, <2>1
    <3> QED
      BY <1>1, <1>3, <1>4, <3>1, ListedConcat
  <2>2. CASE ~Accepted(s)
    BY <1>1, <2>2
  <2> QED
    BY <2>1, <2>2
<1>6. Numerated \subseteq TableSet /\ "asset_components" \in TableSet \ Numerated
  BY TableNames DEF Numerated, Events
<1>7. CASE step = "asset_components"
  <2>1. \A t \in Numerated : db'[t] = <<>>
    BY <1>1, <1>5, <1>6, <1>7 DEF NumbersInv
  <2>2. \A r \in Range(db'["asset_components"]) : ComponentRow(r)
    BY <1>2, <1>5, <1>7 DEF NumbersInv
  <2>3. Range(<<>>) = {}
    BY DEF Range
  <2>4. \A q \in Range(script') : \A r \in Range(q.rows) : ComponentRow(r)
    BY <1>2, <1>7 DEF NumbersInv
  <2>5. step' \notin Numerated
    BY <1>1, <1>6, <1>7
  <2> QED
    BY <1>1, <2>1, <2>2, <2>3, <2>4, <2>5 DEF NumbersInv
<1>8. CASE step # "asset_components"
  <2>1. db'["asset_components"] = db["asset_components"]
    BY <1>5, <1>6, <1>8
  <2>2. Slots' = Slots
    BY <2>1, SlotsKept
  <2>3. ASSUME NEW t, NEW r, NumberedRow(t, r) PROVE NumberedRow(t, r)'
    BY <2>2, <2>3 DEF NumberedRow
  <2>4. ASSUME NEW t \in Numerated, NEW r \in Range(db'[t]) PROVE NumberedRow(t, r)
    <3>1. CASE t = step
      BY <1>2, <1>5, <2>4, <3>1 DEF NumbersInv
    <3>2. CASE t # step
      BY <1>5, <1>6, <2>4, <3>2 DEF NumbersInv
    <3> QED
      BY <3>1, <3>2
  <2>5. ASSUME NEW t \in Numerated, step' = t, NEW q \in Range(script'), NEW r \in Range(q.rows)
        PROVE  NumberedRow(t, r)
    BY <1>1, <1>2, <2>5 DEF NumbersInv
  <2> QED
    BY <1>1, <1>8, <2>1, <2>3, <2>4, <2>5 DEF NumbersInv
<1> QED
  BY <1>7, <1>8

LEMMA BackfillNumbersInv == ReferenceInv /\ NumbersInv /\ Backfill => NumbersInv'
<1> SUFFICES ASSUME ReferenceInv, NumbersInv, Backfill PROVE NumbersInv'
  OBVIOUS
<1>1. /\ db' = [ db EXCEPT ![Events] =
                   [ i \in DOMAIN db[Events] |-> Linked(db[Events][i]) ] ]
      /\ step = "backfill" /\ step' = "report" /\ UNCHANGED <<inserting, script>>
  BY DEF Backfill, Events
<1>2. db = [ t \in TableSet |-> db[t] ] /\ Events \in TableSet
  BY StepNames DEF ReferenceInv
<1>3. ~inserting /\ script = <<>>
  BY <1>1, StepNames DEF ReferenceInv
<1>4. /\ db'[Events] = [ i \in DOMAIN db[Events] |-> Linked(db[Events][i]) ]
      /\ \A t \in TableSet \ {Events} : db'[t] = db[t]
  BY <1>1, <1>2
<1>5. /\ Numerated \subseteq TableSet
      /\ "asset_components" \in TableSet \ Numerated /\ "report" \notin Numerated
  BY TableNames DEF Numerated, Events
<1>6. db'["asset_components"] = db["asset_components"]
  BY <1>4, <1>5 DEF Numerated
<1>7. Slots' = Slots
  BY <1>6, SlotsKept
<1>8. ASSUME NEW t, NEW r, NumberedRow(t, r) PROVE NumberedRow(t, r)'
  BY <1>7, <1>8 DEF NumberedRow
<1>9. ASSUME NEW e, NumberedRow(Events, e) PROVE NumberedRow(Events, Linked(e))
  <2>1. PartsOf(Linked(e).refs) = PartsOf(e.refs) /\ Linked(e).key = e.key
    BY LinkedRefs DEF PartsOf, Parts
  <2> QED
    BY <1>9, <2>1 DEF NumberedRow, Events
<1>10. ASSUME NEW t \in Numerated, NEW r \in Range(db'[t]) PROVE NumberedRow(t, r)
  <2>1. CASE t = Events
    <3>1. PICK i \in DOMAIN db[Events] : r = Linked(db[Events][i])
      BY <1>4, <1>10, <2>1 DEF Range
    <3>2. NumberedRow(Events, db[Events][i])
      BY <1>10, <2>1 DEF NumbersInv, Range
    <3> QED
      BY <1>9, <2>1, <3>1, <3>2
  <2>2. CASE t # Events
    BY <1>4, <1>5, <1>10, <2>2 DEF NumbersInv
  <2> QED
    BY <2>1, <2>2
<1> QED
  BY <1>1, <1>3, <1>5, <1>6, <1>8, <1>10 DEF NumbersInv

LEMMA InitNumbersInv == Init => NumbersInv
<1>1. Range(<<>>) = {}
  BY DEF Range
<1>2. /\ Numerated \subseteq TableSet \ {"tenants"} /\ "idle" \notin Numerated
      /\ "asset_components" \in TableSet \ {"tenants"}
  BY TableNames DEF Numerated, Events
<1> QED
  BY <1>1, <1>2 DEF Init, NumbersInv

\* NumbersInv is inductive relative to ReferenceInv.
LEMMA NextNumbersInv == ReferenceInv /\ NumbersInv /\ [Next]_vars => NumbersInv'
<1> SUFFICES ASSUME ReferenceInv, NumbersInv, [Next]_vars PROVE NumbersInv'
  OBVIOUS
<1>1. ~inserting => script = <<>>
  BY DEF ReferenceInv
<1>2. CASE db' = db /\ script' = <<>> /\ ~inserting'
  BY <1>2, NumbersKept
<1>3. CASE Start
  <2>1. UNCHANGED <<db, script, inserting>> /\ step = "idle"
    BY <1>3 DEF Start
  <2>2. ~inserting
    BY <2>1, StepNames DEF ReferenceInv
  <2> QED
    BY <1>1, <1>2, <2>1, <2>2
<1>4. CASE SkipTable
  BY <1>1, <1>2, <1>4 DEF SkipTable
<1>5. CASE Prepare
  BY <1>5, PrepareNumbersInv
<1>6. CASE Execute
  BY <1>6, ExecuteNumbersInv
<1>7. CASE FinishTable
  BY <1>2, <1>7 DEF FinishTable
<1>8. CASE Backfill
  BY <1>8, BackfillNumbersInv
<1>9. CASE Report
  <2>1. UNCHANGED <<db, script, inserting>> /\ step = "report"
    BY <1>9 DEF Report
  <2>2. ~inserting
    BY <2>1, StepNames DEF ReferenceInv
  <2> QED
    BY <1>1, <1>2, <2>1, <2>2
<1>10. CASE Interrupt
  BY <1>2, <1>10 DEF Interrupt
<1>11. CASE UNCHANGED vars
  BY <1>11, NumbersKept DEF vars
<1> QED
  BY <1>3, <1>4, <1>5, <1>6, <1>7, <1>8, <1>9, <1>10, <1>11 DEF Next

\* The invariant of the numbers holds in every reachable state.
THEOREM NumbersInvariance == Spec => []NumbersInv
<1>1. Init => NumbersInv
  BY InitNumbersInv
<1>2. ReferenceInv /\ NumbersInv /\ [Next]_vars => NumbersInv'
  BY NextNumbersInv
<1> QED
  BY <1>1, <1>2, ReferenceInvariance, PTL DEF Spec

\* Events, work orders and maintenance of one number are about one component,
\* though three loops count them, in runs that may have been killed between.
THEOREM NumbersAlwaysAgree == Spec => []NumbersAgree
<1>1. ASSUME NumbersInv PROVE NumbersAgree
  <2>1. ASSUME NEW t \in Numerated, NEW u \in Numerated,
               NEW q, NEW r, NumberedRow(t, q), NumberedRow(u, r), q.key = r.key
        PROVE  PartsOf(q.refs) = PartsOf(r.refs)
    <3>1. PICK n \in DOMAIN Slots :
              q.key = Key(Slots[n].tenant, n) /\ PartsOf(q.refs) = PartsOf(Slots[n].place)
      BY <2>1 DEF NumberedRow
    <3>2. PICK m \in DOMAIN Slots :
              r.key = Key(Slots[m].tenant, m) /\ PartsOf(r.refs) = PartsOf(Slots[m].place)
      BY <2>1 DEF NumberedRow
    <3>3. m = n
      <4>1. Key(Slots[m].tenant, m) = Key(Slots[n].tenant, n)
        BY <2>1, <3>1, <3>2
      <4> QED
        BY <4>1 DEF Key
    <3> QED
      BY <3>1, <3>2, <3>3
  <2>2. \A r : Place(r) = PartsOf(r.refs)
    BY DEF Place, PartsOf, Parts
  <2>3. {Events, "workorder", "maintenance"} = Numerated
    BY DEF Numerated
  <2>4. \A t \in Numerated : \A r \in Range(db[t]) : NumberedRow(t, r)
    BY <1>1 DEF NumbersInv
  <2> SUFFICES ASSUME NEW w \in Range(db["workorder"])
               PROVE  /\ \A e \in Range(db["apm_failureevent"]) :
                             e.key = w.data => Place(e) = Place(w)
                      /\ \A m \in Range(db["maintenance"]) :
                             <<"workorder", w.key>> \in m.refs =>
                                 Place(m) = Place(w) /\ m.data = w.data
    BY DEF NumbersAgree
  <2>5. NumberedRow("workorder", w) /\ w.data = w.key
    BY <2>3, <2>4 DEF NumberedRow, Events
  <2>6. ASSUME NEW e \in Range(db["apm_failureevent"]), e.key = w.data
        PROVE  Place(e) = Place(w)
    <3>1. NumberedRow(Events, e)
      BY <2>3, <2>4, <2>6 DEF Events
    <3> QED
      BY <2>1, <2>2, <2>3, <2>5, <2>6, <3>1
  <2>7. ASSUME NEW m \in Range(db["maintenance"]), <<"workorder", w.key>> \in m.refs
        PROVE  Place(m) = Place(w) /\ m.data = w.data
    <3>1. NumberedRow("maintenance", m)
      BY <2>3, <2>4, <2>7
    <3>2. m.data = m.key /\ w.key = m.key
      BY <2>7, <3>1 DEF NumberedRow, Events
    <3> QED
      BY <2>1, <2>2, <2>3, <2>5, <3>1, <3>2
  <2> QED
    BY <2>6, <2>7
<1> QED
  BY <1>1, NumbersInvariance, PTL

-----------------------------------------------------------------------------
(* A failure mode is of its class, and the class of its domain.            *)

Domains == "apm_failuredomain"
Classes == "apm_failureclass"
Modes   == "apm_failuremode"

\* Rows of every domain, or class, for every tenant.
AllDomains(rows) ==
    \A tenant \in Range(TenantIds), c \in Range(ComponentTypes) :
        \E r \in Range(rows) : r.key[1] = tenant /\ r.data = c.domain

AllClasses(rows) ==
    \A tenant \in Range(TenantIds), c \in Range(ComponentTypes) :
        \E r \in Range(rows) : r.key[1] = tenant /\ r.data = c.class

AllCodes(table, rows) ==
    /\ table = Domains => AllDomains(rows)
    /\ table = Classes => AllClasses(rows)

Numeral(r, n) == r.key = Key(r.key[1], r.key[2]) /\ r.key[2] \in 1 .. n

\* The row it names is of the domain, or class, it should be of; as long as
\* the table it refers to is empty, none is.
ClassRow(r) ==
    /\ \E ref \in r.refs : ref = <<Domains, ref[2]>>
    /\ \E i \in DOMAIN ComponentTypes :
           /\ ComponentTypes[i].class = r.data
           /\ \A d \in Range(db[Domains]) :
                  <<Domains, d.key>> \in r.refs => d.data = ComponentTypes[i].domain

ModeRow(r) ==
    /\ \E ref \in r.refs : ref = <<Classes, ref[2]>>
    /\ \A c \in Range(db[Classes]) :
           <<Classes, c.key>> \in r.refs => c.data = class_of(r.data)

OfItsKind(table, r) ==
    /\ table = Classes => ClassRow(r)
    /\ table = Modes => ModeRow(r)

\* A table of the taxonomy is filled by one statement: it is empty or has
\* every code, so that no row is stored that the id 1 stands for.
TaxonomyInv ==
    /\ \A t \in Taxonomy :
           /\ db[t] = <<>> \/ AllCodes(t, db[t])
           /\ \A r \in Range(db[t]) : Numeral(r, serial[t]) /\ OfItsKind(t, r)
    /\ step \in Taxonomy =>
           \A s \in Range(script) :
               /\ AllCodes(step, s.rows)
               /\ \A r \in Range(s.rows) :
                      /\ Numeral(r, serial[step] + Len(s.rows))
                      /\ OfItsKind(step, r)

\* Of the items with one value the first is picked.
LEMMA FirstPicked ==
    ASSUME NEW items, Listed(items), NEW f, NEW places,
           \A i \in DOMAIN items : (\A j \in 1 .. i - 1 : f[j] # f[i]) => i \in places,
           NEW i \in DOMAIN items
    PROVE  \E j \in DOMAIN items :
               f[j] = f[i] /\ items[j] \in Range(Picked(items, places))
<1>1. DOMAIN items = 1 .. Len(items) /\ Len(items) \in Nat
  BY DEF Listed
<1> DEFINE S == { j \in DOMAIN items : f[j] = f[i] }
<1>2. S \in SUBSET Nat /\ S # {}
  BY <1>1
<1>3. PICK j \in S : \A k \in S : j <= k
  <2> HIDE DEF S
  <2> QED
    BY <1>2, LeastNatural
<1>4. j \in places
  <2> SUFFICES ASSUME NEW k \in 1 .. j - 1, f[k] = f[j] PROVE FALSE
    BY <1>3
  <2>1. k \in S /\ k < j /\ k \in Nat /\ j \in Nat
    BY <1>1, <1>3
  <2> QED
    BY <1>3, <2>1
<1> QED
  BY <1>3, <1>4, PickedItems

LEMMA PerTenantItems ==
    ASSUME NEW items, Listed(items), NEW x \in Range(items),
           NEW tenant \in Range(TenantIds)
    PROVE  [ tenant |-> tenant, item |-> x ] \in Range(PerTenant(items))
<1> DEFINE R == [ tenant: Range(TenantIds), item: Range(items) ]
           pairs(i) == [ j \in DOMAIN TenantIds |->
                           [ tenant |-> TenantIds[j], item |-> items[i] ] ]
           parts == [ i \in DOMAIN items |-> pairs(i) ]
<1>1. /\ DOMAIN items = 1 .. Len(items) /\ Len(items) \in Nat
      /\ DOMAIN TenantIds = 1 .. Len(TenantIds) /\ Len(TenantIds) \in Nat
  BY ConfigurationAssumption DEF Listed
<1>2. \A i \in DOMAIN items, j \in DOMAIN TenantIds :
          [ tenant |-> TenantIds[j], item |-> items[i] ] \in R
  BY DEF Range
<1>3. PICK i \in DOMAIN items : x = items[i]
  BY DEF Range
<1>4. PICK j \in DOMAIN TenantIds : tenant = TenantIds[j]
  BY DEF Range
<1>5. [ tenant |-> tenant, item |-> x ] \in Range(pairs(i))
  <2>1. pairs(i)[j] = [ tenant |-> tenant, item |-> x ] /\ j \in DOMAIN pairs(i)
    BY <1>3, <1>4
  <2> HIDE DEF pairs
  <2> QED
    BY <2>1 DEF Range
<1> HIDE DEF R
<1>6. \A k \in DOMAIN items : pairs(k) \in Seq(R)
  BY <1>1, <1>2
<1> HIDE DEF pairs
<1>7. parts \in Seq(Seq(R)) /\ i \in 1 .. Len(parts) /\ parts[i] = pairs(i)
  BY <1>1, <1>6
<1> HIDE DEF parts
<1>8. Range(FlattenSeq(parts)) = UNION { Range(parts[k]) : k \in 1 .. Len(parts) }
  BY <1>7, FlattenProperties
<1>9. PerTenant(items) = FlattenSeq(parts)
  BY DEF PerTenant, parts, pairs
<1> QED
  BY <1>5, <1>7, <1>8, <1>9

\* The rows of one INSERT with generated ids.
LEMMA InsertedRows ==
    ASSUME NEW items, Listed(items), NEW rows, Listed(rows), DOMAIN rows = DOMAIN items,
           NEW drawn \in Nat,
           \A i \in DOMAIN items : rows[i].key = Key(items[i].tenant, drawn + i)
    PROVE  \A r \in Range(rows) : Numeral(r, drawn + Len(rows))
<1>1. DOMAIN rows = 1 .. Len(rows) /\ Len(rows) \in Nat
  BY DEF Listed
<1> SUFFICES ASSUME NEW i \in DOMAIN rows PROVE Numeral(rows[i], drawn + Len(rows))
  BY DEF Range
<1>2. drawn + i \in 1 .. drawn + Len(rows)
  BY <1>1
<1>3. rows[i].key = Key(items[i].tenant, drawn + i)
  OBVIOUS
<1> QED
  BY <1>2, <1>3 DEF Numeral, Key

LEMMA OnlyStatement ==
    ASSUME NEW table, NEW rows, NEW s \in Range(<<Statement(table, rows)>>)
    PROVE  s.rows = rows
<1> DEFINE one == Statement(table, rows)
<1>1. one.rows = rows
  BY DEF Statement
<1> HIDE DEF one
<1>2. s = one
  BY DEF Range, one
<1> QED
  BY <1>1, <1>2

\* The id read back for a code that is there is that of a row of the code.
LEMMA CapturedId ==
    ASSUME ReferenceInv, TaxonomyInv, NEW t \in Taxonomy, NEW tenant, NEW code,
           NEW q \in Range(db[t]), q.key[1] = tenant, q.data = code
    PROVE  \E r \in Range(db[t]) :
               r.key = Key(tenant, captured_id(t, tenant, code)) /\ r.data = code
<1> DEFINE own == { r \in Range(db[t]) : r.key[1] = tenant /\ r.data = code }
           ids == { r.key[2] : r \in own }
           n == serial[t]
<1>1. n \in Nat
  BY TableNames DEF ReferenceInv, Taxonomy
<1>2. \A r \in Range(db[t]) : Numeral(r, n)
  BY DEF TaxonomyInv
<1>3. q.key[2] \in ids
  OBVIOUS
<1>4. ids \in SUBSET (1 .. n)
  BY <1>2 DEF Numeral
<1>5. captured_id(t, tenant, code) = IF ids = {} THEN 1 ELSE Max(ids)
  BY DEF captured_id
<1> HIDE DEF ids, n
<1>6. Max(ids) \in ids
  BY <1>1, <1>3, <1>4, GreatestUpTo
<1>7. PICK r \in own : r.key[2] = Max(ids)
  BY <1>6 DEF ids
<1>8. r.key = Key(r.key[1], r.key[2])
  BY <1>2, <1>7 DEF Numeral
<1> QED
  BY <1>3, <1>5, <1>7, <1>8

\* A key is that of one row.
LEMMA OneRow ==
    ASSUME ReferenceInv, NEW t \in TableSet,
           NEW q \in Range(db[t]), NEW r \in Range(db[t]), q.key = r.key
    PROVE  q = r
BY DEF ReferenceInv, Distinct, Range

\* The classes generated are of the domains whose ids were read back.
LEMMA GeneratedClass ==
    ASSUME ReferenceInv, TaxonomyInv, NEW tenant \in Range(TenantIds), NEW id,
           NEW c \in Range(ComponentTypes)
    PROVE  ClassRow(Row(tenant, id,
                        { <<Domains, Key(tenant,
                              captured_id(Domains, tenant, c.domain))>> }, c.class))
<1> DEFINE key == Key(tenant, captured_id(Domains, tenant, c.domain))
           r == Row(tenant, id, {<<Domains, key>>}, c.class)
<1>1. /\ r.refs = {<<Domains, key>>} \union {<<"tenants", Key(tenant, tenant)>>}
      /\ r.data = c.class
  BY DEF Row
<1>2. Domains # "tenants" /\ Domains \in Taxonomy /\ Domains \in TableSet
  BY TableNames DEF Domains, Taxonomy
<1>3. PICK i \in DOMAIN ComponentTypes : c = ComponentTypes[i]
  BY DEF Range
<1>4. ASSUME NEW d \in Range(db[Domains]), d.key = key PROVE d.data = c.domain
  <2>1. db[Domains] # <<>>
    BY <1>4 DEF Range
  <2>2. AllDomains(db[Domains])
    BY <1>2, <2>1 DEF TaxonomyInv, AllCodes
  <2>3. PICK q \in Range(db[Domains]) : q.key[1] = tenant /\ q.data = c.domain
    BY <2>2 DEF AllDomains
  <2>4. PICK q2 \in Range(db[Domains]) : q2.key = key /\ q2.data = c.domain
    BY <1>2, <2>3, CapturedId
  <2> QED
    BY <1>2, <1>4, <2>4, OneRow
<1> HIDE DEF key, r
<1>5. \A d \in Range(db[Domains]) : <<Domains, d.key>> \in r.refs => d.data = c.domain
  BY <1>1, <1>2, <1>4
<1>6. \E ref \in r.refs : ref = <<Domains, ref[2]>>
  BY <1>1
<1>7. ClassRow(r)
  BY <1>1, <1>3, <1>5, <1>6 DEF ClassRow
<1> QED
  BY <1>7 DEF r, key

\* Every type has a class of the map.
LEMMA ClassOfType ==
    ASSUME NEW type
    PROVE  \E c \in Range(ComponentTypes) : c.class = class_of(type)
<1> DEFINE at == { i \in DOMAIN ComponentTypes : ComponentTypes[i].type = type }
<1>1. class_of(type) = IF at = {} THEN "rotating_bearing"
                       ELSE ComponentTypes[CHOOSE i \in at : TRUE].class
  BY DEF class_of
<1>2. CASE at = {}
  BY <1>1, <1>2, ClassesAssumption DEF Range
<1>3. CASE at # {}
  <2>1. (CHOOSE i \in at : TRUE) \in at
    BY <1>3
  <2> QED
    BY <1>1, <1>3, <2>1 DEF Range
<1> QED
  BY <1>2, <1>3

LEMMA GeneratedMode ==
    ASSUME ReferenceInv, TaxonomyInv, NEW tenant \in Range(TenantIds), NEW id, NEW type
    PROVE  ModeRow(Row(tenant, id,
                       { <<Classes, Key(tenant,
                             captured_id(Classes, tenant, class_of(type)))>> }, type))
<1> DEFINE key == Key(tenant, captured_id(Classes, tenant, class_of(type)))
           r == Row(tenant, id, {<<Classes, key>>}, type)
<1>1. /\ r.refs = {<<Classes, key>>} \union {<<"tenants", Key(tenant, tenant)>>}
      /\ r.data = type
  BY DEF Row
<1>2. Classes # "tenants" /\ Classes \in Taxonomy /\ Classes \in TableSet
  BY TableNames DEF Classes, Taxonomy
<1>3. PICK c \in Range(ComponentTypes) : c.class = class_of(type)
  BY ClassOfType
<1>4. ASSUME NEW d \in Range(db[Classes]), d.key = key PROVE d.data = class_of(type)
  <2>1. db[Classes] # <<>>
    BY <1>4 DEF Range
  <2>2. AllClasses(db[Classes])
    BY <1>2, <2>1 DEF TaxonomyInv, AllCodes
  <2>3. PICK q \in Range(db[Classes]) : q.key[1] = tenant /\ q.data = class_of(type)
    BY <1>3, <2>2 DEF AllClasses
  <2>4. PICK q2 \in Range(db[Classes]) : q2.key = key /\ q2.data = class_of(type)
    BY <1>2, <2>3, CapturedId
  <2> QED
    BY <1>2, <1>4, <2>4, OneRow
<1> HIDE DEF key, r
<1>5. \A d \in Range(db[Classes]) : <<Classes, d.key>> \in r.refs => d.data = class_of(type)
  BY <1>1, <1>2, <1>4
<1>6. \E ref \in r.refs : ref = <<Classes, ref[2]>>
  BY <1>1
<1>7. ModeRow(r)
  BY <1>1, <1>5, <1>6 DEF ModeRow
<1> QED
  BY <1>7 DEF r, key

\* The domains inserted are all of them.
LEMMA DomainStatement ==
    ASSUME ReferenceInv, NEW s \in Range(Statements(Domains))
    PROVE  /\ AllDomains(s.rows)
           /\ \A r \in Range(s.rows) : Numeral(r, serial[Domains] + Len(s.rows))
<1> DEFINE drawn == serial[Domains]
           unseen == Unseen(ComponentTypes, LAMBDA c : c.domain)
           items == PerTenant(unseen)
           row == [ i \in DOMAIN items |->
                      Row(items[i].tenant, drawn + i, {}, items[i].item.domain) ]
           sql == Statements(Domains)
           code == [ i \in DOMAIN ComponentTypes |-> ComponentTypes[i].domain ]
           places == { i \in DOMAIN ComponentTypes :
                         \A j \in 1 .. i - 1 :
                             ComponentTypes[j].domain # ComponentTypes[i].domain }
<1>1. Listed(ComponentTypes) /\ DOMAIN ComponentTypes = 1 .. Len(ComponentTypes)
      /\ Len(ComponentTypes) \in Nat
  BY ConfigurationAssumption DEF Listed
<1>2. unseen = Picked(ComponentTypes, places)
  BY DEF Unseen
<1>3. \A i \in DOMAIN ComponentTypes :
          (\A j \in 1 .. i - 1 : code[j] # code[i]) => i \in places
  <2> SUFFICES ASSUME NEW i \in DOMAIN ComponentTypes, NEW j \in 1 .. i - 1
               PROVE  /\ code[j] = ComponentTypes[j].domain
                      /\ code[i] = ComponentTypes[i].domain
    OBVIOUS
  <2> QED
    BY <1>1
<1>4. sql = << Statement(Domains, [ i \in DOMAIN items |-> row[i] ]) >>
  BY DEF Statements, domains_sql, Numbered, Domains
<1>5. drawn \in Nat
  BY TableNames DEF ReferenceInv, Domains
<1> HIDE DEF unseen, places, sql, drawn
<1>6. Listed(unseen)
  BY <1>1, <1>2, PickedProperties
<1>7. \A i \in DOMAIN ComponentTypes :
          \E j \in DOMAIN ComponentTypes :
              code[j] = code[i] /\ ComponentTypes[j] \in Range(unseen)
  <2> HIDE DEF code
  <2>1. ASSUME NEW i \in DOMAIN ComponentTypes
        PROVE  \E j \in DOMAIN ComponentTypes :
                   /\ code[j] = code[i]
                   /\ ComponentTypes[j] \in Range(Picked(ComponentTypes, places))
    <3>1. Listed(ComponentTypes)
      BY <1>1
    <3> QED
      BY <1>3, <3>1, FirstPicked
  <2> QED
    BY <1>2, <2>1
<1>8. \A c \in Range(ComponentTypes) : \E x \in Range(unseen) : x.domain = c.domain
  BY <1>7 DEF Range
<1>9. Listed(items)
  BY <1>6, PerTenantProperties
<1>10. \A x \in Range(unseen), tenant \in Range(TenantIds) :
           \E i \in DOMAIN items : items[i] = [ tenant |-> tenant, item |-> x ]
  BY <1>6, PerTenantItems DEF Range
<1> HIDE DEF items
<1>11. \A i \in DOMAIN items :
           /\ row[i].key = Key(items[i].tenant, drawn + i)
           /\ row[i].data = items[i].item.domain
  BY DEF Row
<1> HIDE DEF row, code
<1>12. /\ \A i \in DOMAIN items : row[i] \in Range(s.rows)
       /\ \A r \in Range(s.rows) : Numeral(r, drawn + Len(s.rows))
  <2>1. s.rows = row
    <3>1. row = [ i \in DOMAIN items |-> row[i] ]
      BY DEF row
    <3>2. s \in Range(sql)
      BY DEF sql
    <3> HIDE DEF row
    <3>3. s \in Range(<< Statement(Domains, row) >>)
      BY <1>4, <3>1, <3>2
    <3> QED
      BY <3>3, OnlyStatement
  <2>2. Listed(row) /\ DOMAIN row = DOMAIN items
    <3>1. DOMAIN items = 1 .. Len(items) /\ Len(items) \in Nat
      BY <1>9 DEF Listed
    <3>2. row = [ i \in DOMAIN items |-> row[i] ]
      BY DEF row
    <3> HIDE DEF row
    <3>3. \A i \in DOMAIN items : row[i] \in Range(row)
      BY <3>2 DEF Range
    <3> QED
      BY <3>1, <3>2, <3>3 DEF Listed
  <2>3. \A i \in DOMAIN items : row[i].key = Key(items[i].tenant, drawn + i)
    BY <1>11
  <2>4. Listed(items)
    BY <1>9
  <2> HIDE DEF row
  <2>5. \A r \in Range(row) : Numeral(r, drawn + Len(row))
    BY <1>5, <2>2, <2>3, <2>4, InsertedRows
  <2> QED
    BY <2>1, <2>2, <2>5 DEF Range
<1>13. AllDomains(s.rows)
  <2> SUFFICES ASSUME NEW tenant \in Range(TenantIds), NEW c \in Range(ComponentTypes)
               PROVE  \E r \in Range(s.rows) : r.key[1] = tenant /\ r.data = c.domain
    BY DEF AllDomains
  <2>1. PICK x \in Range(unseen) : x.domain = c.domain
    BY <1>8
  <2>2. PICK i \in DOMAIN items : items[i] = [ tenant |-> tenant, item |-> x ]
    BY <1>10, <2>1
  <2>3. row[i].key = Key(tenant, drawn + i) /\ row[i].data = c.domain
    BY <1>11, <2>1, <2>2
  <2> QED
    BY <1>12, <2>3 DEF Key
<1> QED
  BY <1>12, <1>13 DEF drawn

\* The classes inserted are all of them, each of its domain.
LEMMA ClassStatement ==
    ASSUME ReferenceInv, TaxonomyInv, NEW s \in Range(Statements(Classes))
    PROVE  /\ AllClasses(s.rows)
           /\ \A r \in Range(s.rows) :
                  Numeral(r, serial[Classes] + Len(s.rows)) /\ ClassRow(r)
<1> DEFINE drawn == serial[Classes]
           unseen == Unseen(ComponentTypes, LAMBDA c : c.class)
           items == PerTenant(unseen)
           row == [ i \in DOMAIN items |->
                      Row(items[i].tenant, drawn + i,
                          { <<Domains, Key(items[i].tenant,
                                captured_id(Domains, items[i].tenant,
                                            items[i].item.domain))>> },
                          items[i].item.class) ]
           sql == Statements(Classes)
           code == [ i \in DOMAIN ComponentTypes |-> ComponentTypes[i].class ]
           places == { i \in DOMAIN ComponentTypes :
                         \A j \in 1 .. i - 1 :
                             ComponentTypes[j].class # ComponentTypes[i].class }
<1>1. Listed(ComponentTypes) /\ DOMAIN ComponentTypes = 1 .. Len(ComponentTypes)
      /\ Len(ComponentTypes) \in Nat
  BY ConfigurationAssumption DEF Listed
<1>2. unseen = Picked(ComponentTypes, places)
  BY DEF Unseen
<1>3. \A i \in DOMAIN ComponentTypes :
          (\A j \in 1 .. i - 1 : code[j] # code[i]) => i \in places
  <2> SUFFICES ASSUME NEW i \in DOMAIN ComponentTypes, NEW j \in 1 .. i - 1
               PROVE  /\ code[j] = ComponentTypes[j].class
                      /\ code[i] = ComponentTypes[i].class
    OBVIOUS
  <2> QED
    BY <1>1
<1>4. sql = << Statement(Classes, [ i \in DOMAIN items |-> row[i] ]) >>
  BY DEF Statements, classes_sql, Numbered, Classes, Domains
<1>5. drawn \in Nat
  BY TableNames DEF ReferenceInv, Classes
<1> HIDE DEF unseen, places, sql, drawn
<1>6. Listed(unseen) /\ Range(unseen) \subseteq Range(ComponentTypes)
  BY <1>1, <1>2, PickedProperties
<1>7. \A i \in DOMAIN ComponentTypes :
          \E j \in DOMAIN ComponentTypes :
              code[j] = code[i] /\ ComponentTypes[j] \in Range(unseen)
  <2> HIDE DEF code
  <2>1. ASSUME NEW i \in DOMAIN ComponentTypes
        PROVE  \E j \in DOMAIN ComponentTypes :
                   /\ code[j] = code[i]
                   /\ ComponentTypes[j] \in Range(Picked(ComponentTypes, places))
    <3>1. Listed(ComponentTypes)
      BY <1>1
    <3> QED
      BY <1>3, <3>1, FirstPicked
  <2> QED
    BY <1>2, <2>1
<1>8. \A c \in Range(ComponentTypes) : \E x \in Range(unseen) : x.class = c.class
  BY <1>7 DEF Range
<1>9. /\ Listed(items)
      /\ Range(items) \subseteq [ tenant: Range(TenantIds), item: Range(unseen) ]
  BY <1>6, PerTenantProperties
<1>10. \A x \in Range(unseen), tenant \in Range(TenantIds) :
           \E i \in DOMAIN items : items[i] = [ tenant |-> tenant, item |-> x ]
  BY <1>6, PerTenantItems DEF Range
<1> HIDE DEF items
<1>11. \A i \in DOMAIN items :
           /\ row[i].key = Key(items[i].tenant, drawn + i)
           /\ row[i].data = items[i].item.class
  BY DEF Row
<1>12. ASSUME NEW i \in DOMAIN items PROVE ClassRow(row[i])
  <2>1. items[i].tenant \in Range(TenantIds) /\ items[i].item \in Range(ComponentTypes)
    BY <1>6, <1>9 DEF Range
  <2> QED
    BY <2>1, GeneratedClass
<1> HIDE DEF row, code
<1>13. /\ \A i \in DOMAIN items : row[i] \in Range(s.rows)
       /\ \A r \in Range(s.rows) : /\ Numeral(r, drawn + Len(s.rows))
                                   /\ \E i \in DOMAIN items : r = row[i]
  <2>1. s.rows = row
    <3>1. row = [ i \in DOMAIN items |-> row[i] ]
      BY DEF row
    <3>2. s \in Range(sql)
      BY DEF sql
    <3> HIDE DEF row
    <3>3. s \in Range(<< Statement(Classes, row) >>)
      BY <1>4, <3>1, <3>2
    <3> QED
      BY <3>3, OnlyStatement
  <2>2. Listed(row) /\ DOMAIN row = DOMAIN items
    <3>1. DOMAIN items = 1 .. Len(items) /\ Len(items) \in Nat
      BY <1>9 DEF Listed
    <3>2. row = [ i \in DOMAIN items |-> row[i] ]
      BY DEF row
    <3> HIDE DEF row
    <3>3. \A i \in DOMAIN items : row[i] \in Range(row)
      BY <3>2 DEF Range
    <3> QED
      BY <3>1, <3>2, <3>3 DEF Listed
  <2>3. \A i \in DOMAIN items : row[i].key = Key(items[i].tenant, drawn + i)
    BY <1>11
  <2>4. Listed(items)
    BY <1>9
  <2> HIDE DEF row
  <2>5. \A r \in Range(row) : Numeral(r, drawn + Len(row))
    BY <1>5, <2>2, <2>3, <2>4, InsertedRows
  <2> QED
    BY <2>1, <2>2, <2>5 DEF Range
<1>14. AllClasses(s.rows)
  <2> SUFFICES ASSUME NEW tenant \in Range(TenantIds), NEW c \in Range(ComponentTypes)
               PROVE  \E r \in Range(s.rows) : r.key[1] = tenant /\ r.data = c.class
    BY DEF AllClasses
  <2>1. PICK x \in Range(unseen) : x.class = c.class
    BY <1>8
  <2>2. PICK i \in DOMAIN items : items[i] = [ tenant |-> tenant, item |-> x ]
    BY <1>10, <2>1
  <2>3. row[i].key = Key(tenant, drawn + i) /\ row[i].data = c.class
    BY <1>11, <2>1, <2>2
  <2> QED
    BY <1>13, <2>3 DEF Key
<1> QED
  BY <1>12, <1>13, <1>14 DEF drawn

LEMMA ModeStatement ==
    ASSUME ReferenceInv, TaxonomyInv, NEW s \in Range(Statements(Modes))
    PROVE  \A r \in Range(s.rows) :
               Numeral(r, serial[Modes] + Len(s.rows)) /\ ModeRow(r)
<1> DEFINE drawn == serial[Modes]
           items == PerTenant(FailureModes)
           row == [ i \in DOMAIN items |->
                      Row(items[i].tenant, drawn + i,
                          { <<Classes, Key(items[i].tenant,
                                captured_id(Classes, items[i].tenant,
                                            class_of(items[i].item)))>> },
                          items[i].item) ]
           sql == Statements(Modes)
<1>1. Listed(FailureModes)
  BY ConfigurationAssumption DEF Listed
<1>2. sql = << Statement(Modes, [ i \in DOMAIN items |-> row[i] ]) >>
  BY DEF Statements, modes_sql, Numbered, Classes, Modes
<1>3. drawn \in Nat
  BY TableNames DEF ReferenceInv, Modes
<1>4. /\ Listed(items)
      /\ Range(items) \subseteq [ tenant: Range(TenantIds), item: Range(FailureModes) ]
  BY <1>1, PerTenantProperties
<1> HIDE DEF items, sql, drawn
<1>5. \A i \in DOMAIN items : row[i].key = Key(items[i].tenant, drawn + i)
  BY DEF Row
<1>6. ASSUME NEW i \in DOMAIN items PROVE ModeRow(row[i])
  <2>1. items[i].tenant \in Range(TenantIds)
    BY <1>4 DEF Range
  <2> QED
    BY <2>1, GeneratedMode
<1> HIDE DEF row
<1>7. \A r \in Range(s.rows) : /\ Numeral(r, drawn + Len(s.rows))
                               /\ \E i \in DOMAIN items : r = row[i]
  <2>1. s.rows = row
    <3>1. row = [ i \in DOMAIN items |-> row[i] ]
      BY DEF row
    <3>2. s \in Range(sql)
      BY DEF sql
    <3> HIDE DEF row
    <3>3. s \in Range(<< Statement(Modes, row) >>)
      BY <1>2, <3>1, <3>2
    <3> QED
      BY <3>3, OnlyStatement
  <2>2. Listed(row) /\ DOMAIN row = DOMAIN items
    <3>1. DOMAIN items = 1 .. Len(items) /\ Len(items) \in Nat
      BY <1>4 DEF Listed
    <3>2. row = [ i \in DOMAIN items |-> row[i] ]
      BY DEF row
    <3> HIDE DEF row
    <3>3. \A i \in DOMAIN items : row[i] \in Range(row)
      BY <3>2 DEF Range
    <3> QED
      BY <3>1, <3>2, <3>3 DEF Listed
  <2>3. \A i \in DOMAIN items : row[i].key = Key(items[i].tenant, drawn + i)
    BY <1>5
  <2>4. Listed(items)
    BY <1>4
  <2> HIDE DEF row
  <2>5. \A r \in Range(row) : Numeral(r, drawn + Len(row))
    BY <1>3, <2>2, <2>3, <2>4, InsertedRows
  <2> QED
    BY <2>1, <2>2, <2>5 DEF Range
<1> QED
  BY <1>6, <1>7 DEF drawn

\* A step that changes nothing of the taxonomy.
LEMMA TaxonomyKept ==
    ASSUME TaxonomyInv, \A t \in Taxonomy : db'[t] = db[t] /\ serial'[t] = serial[t],
           \/ step' \notin Taxonomy \/ script' = <<>>
           \/ step' = step /\ script' = script
    PROVE  TaxonomyInv'
<1>1. db'[Domains] = db[Domains] /\ db'[Classes] = db[Classes]
  BY DEF Taxonomy, Domains, Classes
<1>2. ASSUME NEW t, NEW r, OfItsKind(t, r) PROVE OfItsKind(t, r)'
  BY <1>1, <1>2 DEF OfItsKind, ClassRow, ModeRow
<1>3. ASSUME NEW t \in Taxonomy
      PROVE  /\ db'[t] = <<>> \/ AllCodes(t, db'[t])
             /\ \A r \in Range(db'[t]) : Numeral(r, serial'[t]) /\ OfItsKind(t, r)'
  BY <1>2 DEF TaxonomyInv
<1>4. ASSUME NEW t \in Taxonomy, step' = t, NEW s \in Range(script')
      PROVE  /\ AllCodes(t, s.rows)
             /\ \A r \in Range(s.rows) :
                    Numeral(r, serial'[t] + Len(s.rows)) /\ OfItsKind(t, r)'
  <2>1. Range(<<>>) = {}
    BY DEF Range
  <2>2. step = t /\ s \in Range(script)
    BY <1>4, <2>1
  <2>3. /\ AllCodes(t, s.rows)
        /\ \A r \in Range(s.rows) :
               Numeral(r, serial[t] + Len(s.rows)) /\ OfItsKind(t, r)
    BY <2>2 DEF TaxonomyInv
  <2> QED
    BY <1>2, <2>3
<1> QED
  BY <1>3, <1>4 DEF TaxonomyInv, OfItsKind, ClassRow, ModeRow

LEMMA PrepareTaxonomyInv == ReferenceInv /\ TaxonomyInv /\ Prepare => TaxonomyInv'
<1> SUFFICES ASSUME ReferenceInv, TaxonomyInv, Prepare PROVE TaxonomyInv'
  OBVIOUS
<1>1. script' = Statements(step) /\ UNCHANGED <<db, serial, step>>
  BY DEF Prepare
<1>2. CASE step \notin Taxonomy
  BY <1>1, <1>2, TaxonomyKept
<1>3. CASE step \in Taxonomy
  <2>1. ASSUME NEW t, NEW r, OfItsKind(t, r) PROVE OfItsKind(t, r)'
    BY <1>1, <2>1 DEF OfItsKind, ClassRow, ModeRow
  <2>2. ASSUME NEW t \in Taxonomy, NEW s \in Range(Statements(t))
        PROVE  /\ AllCodes(t, s.rows)
               /\ \A r \in Range(s.rows) :
                      Numeral(r, serial[t] + Len(s.rows)) /\ OfItsKind(t, r)
    <3>1. CASE t = Domains
      BY <2>2, <3>1, DomainStatement
      DEF AllCodes, OfItsKind, Domains, Classes, Modes
    <3>2. CASE t = Classes
      BY <2>2, <3>2, ClassStatement
      DEF AllCodes, OfItsKind, Domains, Classes, Modes
    <3>3. CASE t = Modes
      BY <2>2, <3>3, ModeStatement
      DEF AllCodes, OfItsKind, Domains, Classes, Modes
    <3> QED
      BY <3>1, <3>2, <3>3 DEF Taxonomy, Domains, Classes, Modes
  <2>3. ASSUME NEW t \in Taxonomy
        PROVE  /\ db'[t] = <<>> \/ AllCodes(t, db'[t])
               /\ \A r \in Range(db'[t]) : Numeral(r, serial'[t]) /\ OfItsKind(t, r)'
    BY <1>1, <2>1 DEF TaxonomyInv
  <2>4. ASSUME NEW t \in Taxonomy, step' = t, NEW s \in Range(script')
        PROVE  /\ AllCodes(t, s.rows)
               /\ \A r \in Range(s.rows) :
                      Numeral(r, serial'[t] + Len(s.rows)) /\ OfItsKind(t, r)'
    <3>1. s \in Range(Statements(t)) /\ serial' = serial
      BY <1>1, <2>4
    <3>2. /\ AllCodes(t, s.rows)
          /\ \A r \in Range(s.rows) :
                 Numeral(r, serial[t] + Len(s.rows)) /\ OfItsKind(t, r)
      BY <2>2, <3>1
    <3> QED
      BY <2>1, <3>1, <3>2
  <2> QED
    BY <2>3, <2>4 DEF TaxonomyInv, OfItsKind, ClassRow, ModeRow
<1> QED
  BY <1>2, <1>3

LEMMA ExecuteTaxonomyInv == ReferenceInv /\ TaxonomyInv /\ Execute => TaxonomyInv'
<1> SUFFICES ASSUME ReferenceInv, TaxonomyInv, Execute PROVE TaxonomyInv'
  OBVIOUS
<1> DEFINE s == Head(script)
<1>1. /\ script # <<>> /\ step \in TableSet /\ step' = step
      /\ db' = IF Accepted(s) THEN [db EXCEPT ![s.table] = @ \o s.rows] ELSE db
      /\ serial' = [serial EXCEPT ![s.table] = @ + Len(s.rows)]
      /\ script' = Tail(script)
  BY DEF Execute, ReferenceInv
<1>2. Range(script') \subseteq Range(script) /\ s \in Range(script)
  BY <1>1, TailOf DEF ReferenceInv
<1>3. s.table = step /\ Listed(s.rows)
  BY <1>2 DEF ReferenceInv, StatementFor
<1>4. /\ db = [ t \in TableSet |-> db[t] ] /\ \A t \in TableSet : Listed(db[t])
      /\ serial \in [ TableSet -> Nat ]
  BY DEF ReferenceInv
<1>5. Len(s.rows) \in Nat
  BY <1>3 DEF Listed
<1>6. Accepted(s) => \A r \in Range(s.rows) : \A q \in Range(db[step]) : r.key # q.key
  BY <1>3 DEF Accepted, Keys
<1> DEFINE n == Len(s.rows)
           rows == s.rows
<1>7. /\ \A t \in TableSet \ {step} : db'[t] = db[t] /\ serial'[t] = serial[t]
      /\ serial'[step] = serial[step] + n
      /\ Accepted(s) => db'[step] = db[step] \o rows
      /\ ~Accepted(s) => db'[step] = db[step]
  BY <1>1, <1>3, <1>4
<1> HIDE DEF s
<1>8. Taxonomy \subseteq TableSet
  BY TableNames DEF Taxonomy
<1>9. CASE step \notin Taxonomy
  BY <1>1, <1>7, <1>8, <1>9, TaxonomyKept
<1>10. CASE step \in Taxonomy
  <2>1. Accepted(s) => Range(db'[step]) = Range(db[step]) \union Range(rows)
    BY <1>1, <1>3, <1>4, <1>7, ListedConcat
  <2>2. /\ AllCodes(step, rows)
        /\ \A r \in Range(rows) : Numeral(r, serial[step] + n) /\ OfItsKind(step, r)
    BY <1>2, <1>10 DEF TaxonomyInv
  <2>3. ASSUME NEW t \in TableSet, NEW d \in Range(db'[t]), d.key \in Keys(t)
        PROVE  d \in Range(db[t])
    BY <1>6, <1>7, <2>1, <2>3 DEF Keys
  <2>4. ASSUME NEW t \in Taxonomy, NEW r \in Range(db[t]), NEW ref \in r.refs
        PROVE  ref[2] \in Keys(ref[1])
    BY <1>8, <2>4 DEF ReferenceInv
  <2>5. ASSUME NEW t \in Taxonomy, NEW r, OfItsKind(t, r), r \in Range(db[t]) \/ t = step
        PROVE  OfItsKind(t, r)'
    <3>1. ASSUME t = Classes, NEW d \in Range(db'[Domains]), <<Domains, d.key>> \in r.refs
          PROVE  d \in Range(db[Domains])
      <4>1. Domains \in TableSet /\ Domains # Classes
        BY TableNames DEF Domains, Classes
      <4>2. CASE t = step
        BY <1>7, <3>1, <4>1, <4>2
      <4>3. CASE r \in Range(db[t])
        <5>1. d.key \in Keys(Domains)
          BY <2>4, <3>1, <4>3
        <5> QED
          BY <2>3, <3>1, <4>1, <5>1
      <4> QED
        BY <2>5, <4>2, <4>3
    <3>2. ASSUME t = Modes, NEW d \in Range(db'[Classes]), <<Classes, d.key>> \in r.refs
          PROVE  d \in Range(db[Classes])
      <4>1. Classes \in TableSet /\ Classes # Modes
        BY TableNames DEF Classes, Modes
      <4>2. CASE t = step
        BY <1>7, <3>2, <4>1, <4>2
      <4>3. CASE r \in Range(db[t])
        <5>1. d.key \in Keys(Classes)
          BY <2>4, <3>2, <4>3
        <5> QED
          BY <2>3, <3>2, <4>1, <5>1
      <4> QED
        BY <2>5, <4>2, <4>3
    <3>3. t = Classes => ClassRow(r)'
      BY <2>5, <3>1 DEF OfItsKind, ClassRow
    <3>4. t = Modes => ModeRow(r)'
      BY <2>5, <3>2 DEF OfItsKind, ModeRow
    <3> QED
      BY <3>3, <3>4 DEF OfItsKind
  <2>6. \A r, m : Numeral(r, m) /\ m \in Nat => Numeral(r, m + n)
    BY <1>5 DEF Numeral
  <2>7. \A t \in Taxonomy : serial[t] \in Nat
    BY <1>4, <1>8
  <2>8. ASSUME NEW t \in Taxonomy
        PROVE  /\ db'[t] = <<>> \/ AllCodes(t, db'[t])
               /\ \A r \in Range(db'[t]) : Numeral(r, serial'[t]) /\ OfItsKind(t, r)'
    <3>1. /\ db[t] = <<>> \/ AllCodes(t, db[t])
          /\ \A r \in Range(db[t]) : Numeral(r, serial[t]) /\ OfItsKind(t, r)
      BY DEF TaxonomyInv
    <3>2. CASE t # step
      <4>1. db'[t] = db[t] /\ serial'[t] = serial[t]
        BY <1>7, <1>8, <3>2
      <4> QED
        BY <2>5, <3>1, <4>1
    <3>3. CASE t = step /\ ~Accepted(s)
      <4>1. db'[t] = db[t] /\ serial'[t] = serial[t] + n
        BY <1>7, <3>3
      <4> QED
        BY <2>5, <2>6, <2>7, <3>1, <4>1
    <3>4. CASE t = step /\ Accepted(s)
      <4>1. Range(db'[t]) = Range(db[t]) \union Range(rows) /\ serial'[t] = serial[t] + n
        BY <1>7, <2>1, <3>4
      <4>2. AllCodes(t, db'[t])
        BY <2>2, <3>4, <4>1 DEF AllCodes, AllDomains, AllClasses
      <4>3. ASSUME NEW r \in Range(db'[t])
            PROVE  Numeral(r, serial'[t]) /\ OfItsKind(t, r)'
        <5>1. CASE r \in Range(db[t])
          BY <2>5, <2>6, <2>7, <3>1, <4>1, <5>1
        <5>2. CASE r \in Range(rows)
          BY <2>2, <2>5, <3>4, <4>1, <5>2
        <5> QED
          BY <4>1, <5>1, <5>2
      <4> QED
        BY <4>2, <4>3
    <3> QED
      BY <3>2, <3>3, <3>4
  <2>9. ASSUME NEW t \in Taxonomy, step' = t, NEW q \in Range(script')
        PROVE  /\ AllCodes(t, q.rows)
               /\ \A r \in Range(q.rows) :
                      Numeral(r, serial'[t] + Len(q.rows)) /\ OfItsKind(t, r)'
    <3>1. step = t /\ q \in Range(script) /\ serial'[t] = serial[t] + n
      BY <1>1, <1>2, <1>7, <2>9
    <3>2. /\ AllCodes(t, q.rows)
          /\ \A r \in Range(q.rows) :
                 Numeral(r, serial[t] + Len(q.rows)) /\ OfItsKind(t, r)
      BY <3>1 DEF TaxonomyInv
    <3>3. Len(q.rows) \in Nat
      <4>1. Listed(q.rows)
        BY <3>1 DEF ReferenceInv, StatementFor
      <4> QED
        BY <4>1 DEF Listed
    <3>4. serial'[t] + Len(q.rows) = (serial[t] + Len(q.rows)) + n
      BY <1>5, <2>7, <3>1, <3>3
    <3>5. serial[t] + Len(q.rows) \in Nat
      BY <2>7, <3>3
    <3> QED
      BY <2>5, <2>6, <3>1, <3>2, <3>4, <3>5
  <2> QED
    BY <2>8, <2>9 DEF TaxonomyInv, OfItsKind, ClassRow, ModeRow
<1> QED
  BY <1>9, <1>10

LEMMA InitTaxonomyInv == Init => TaxonomyInv
<1>1. Range(<<>>) = {} /\ "idle" \notin Taxonomy
  BY DEF Range, Taxonomy
<1>2. Taxonomy \subseteq TableSet \ {"tenants"}
  BY TableNames DEF Taxonomy
<1> QED
  BY <1>1, <1>2 DEF Init, TaxonomyInv

\* TaxonomyInv is inductive relative to ReferenceInv.
LEMMA NextTaxonomyInv == ReferenceInv /\ TaxonomyInv /\ [Next]_vars => TaxonomyInv'
<1> SUFFICES ASSUME ReferenceInv, TaxonomyInv, [Next]_vars PROVE TaxonomyInv'
  OBVIOUS
<1>1. ~inserting => script = <<>>
  BY DEF ReferenceInv
<1>2. CASE UNCHANGED <<db, serial>> /\ script' = <<>>
  BY <1>2, TaxonomyKept
<1>3. CASE Start
  <2>1. UNCHANGED <<db, serial, script>> /\ step = "idle"
    BY <1>3 DEF Start
  <2>2. ~inserting
    BY <2>1, StepNames DEF ReferenceInv
  <2> QED
    BY <1>1, <1>2, <2>1, <2>2
<1>4. CASE SkipTable
  BY <1>1, <1>2, <1>4 DEF SkipTable
<1>5. CASE Prepare
  BY <1>5, PrepareTaxonomyInv
<1>6. CASE Execute
  BY <1>6, ExecuteTaxonomyInv
<1>7. CASE FinishTable
  BY <1>2, <1>7 DEF FinishTable
<1>8. CASE Backfill
  <2>1. db = [ t \in TableSet |-> db[t] ] /\ Taxonomy \subseteq TableSet
    BY TableNames DEF ReferenceInv, Taxonomy
  <2>2. "apm_failureevent" \notin Taxonomy /\ "report" \notin Taxonomy
    BY DEF Taxonomy
  <2>3. \A t \in Taxonomy : db'[t] = db[t] /\ serial'[t] = serial[t]
    BY <1>8, <2>1, <2>2 DEF Backfill
  <2>4. step' \notin Taxonomy
    BY <1>8, <2>2 DEF Backfill
  <2> QED
    BY <2>3, <2>4, TaxonomyKept
<1>9. CASE Report
  BY <1>9, TaxonomyKept DEF Report, Taxonomy
<1>10. CASE Interrupt
  BY <1>2, <1>10 DEF Interrupt
<1>11. CASE UNCHANGED vars
  BY <1>11, TaxonomyKept DEF vars
<1> QED
  BY <1>3, <1>4, <1>5, <1>6, <1>7, <1>8, <1>9, <1>10, <1>11 DEF Next

\* The invariant of the taxonomy holds in every reachable state.
THEOREM TaxonomyInvariance == Spec => []TaxonomyInv
<1>1. Init => TaxonomyInv
  BY InitTaxonomyInv
<1>2. ReferenceInv /\ TaxonomyInv /\ [Next]_vars => TaxonomyInv'
  BY NextTaxonomyInv
<1> QED
  BY <1>1, <1>2, ReferenceInvariance, PTL DEF Spec

\* A row found by a reference.
LEMMA ReferredRow ==
    ASSUME ReferenceInv, NEW t \in TableSet, NEW r \in Range(db[t]), NEW table,
           \E ref \in r.refs : ref = <<table, ref[2]>>
    PROVE  /\ Referred(r, table) \in Range(db[table])
           /\ <<table, Referred(r, table).key>> \in r.refs
<1>1. PICK ref \in r.refs : ref = <<table, ref[2]>>
  OBVIOUS
<1>2. ref[2] \in Keys(table)
  BY <1>1 DEF ReferenceInv
<1>3. \E q \in Range(db[table]) : <<table, q.key>> \in r.refs
  BY <1>1, <1>2 DEF Keys
<1> QED
  BY <1>3 DEF Referred

\* Every failure mode is of the class of its component type, and that class of
\* its domain, in spite of killed runs and of ids that were not found.
THEOREM TaxonomyIsAlwaysTree == Spec => []TaxonomyIsTree
<1>1. ASSUME ReferenceInv, TaxonomyInv PROVE TaxonomyIsTree
  <2> DEFINE class(mode) == Referred(mode, Classes)
             domain(mode) == Referred(class(mode), Domains)
  <2>1. ASSUME NEW mode \in Range(db[Modes])
        PROVE  /\ class(mode).data = class_of(mode.data)
               /\ \E i \in DOMAIN ComponentTypes :
                      /\ ComponentTypes[i].class = class(mode).data
                      /\ ComponentTypes[i].domain = domain(mode).data
    <3>1. /\ Modes \in TableSet /\ Classes \in TableSet
          /\ Modes \in Taxonomy /\ Classes \in Taxonomy
      BY TableNames DEF Modes, Classes, Taxonomy
    <3>2. ModeRow(mode)
      BY <1>1, <3>1 DEF TaxonomyInv, OfItsKind
    <3>3. class(mode) \in Range(db[Classes]) /\ <<Classes, class(mode).key>> \in mode.refs
      BY <1>1, <3>1, <3>2, ReferredRow DEF ModeRow
    <3>4. class(mode).data = class_of(mode.data)
      BY <3>2, <3>3 DEF ModeRow
    <3>5. ClassRow(class(mode))
      BY <1>1, <3>1, <3>3 DEF TaxonomyInv, OfItsKind
    <3>6. /\ domain(mode) \in Range(db[Domains])
          /\ <<Domains, domain(mode).key>> \in class(mode).refs
      BY <1>1, <3>1, <3>3, <3>5, ReferredRow DEF ClassRow
    <3> HIDE DEF class, domain
    <3>7. \E i \in DOMAIN ComponentTypes :
              /\ ComponentTypes[i].class = class(mode).data
              /\ ComponentTypes[i].domain = domain(mode).data
      BY <3>5, <3>6 DEF ClassRow
    <3> QED
      BY <3>4, <3>7
  <2> QED
    BY <2>1 DEF TaxonomyIsTree, Modes, Classes, Domains
<1> QED
  BY <1>1, ReferenceInvariance, TaxonomyInvariance, PTL

-----------------------------------------------------------------------------
(* A first run that nothing interrupts loads everything.                   *)

Numbers(S) == { Key(Slots[n].tenant, n) : n \in S }

\* The keys of the rows a load stores in a table, but for the taxonomy.
Wanted(t) ==
    CASE t = "tenants" -> { Key(x, x) : x \in Range(TenantIds) }
      [] t = "assets" -> { Key(a.tenant, a.asset) : a \in Range(Assets) }
      [] t = "asset_components" ->
             { Key(m.tenant, m.component) : m \in Range(TagMetadata) }
      [] t = "asset_signal_tags_mapping" ->
             { Key(m.tenant, m.tag) : m \in Range(TagMetadata) }
      [] t = "apm_anomaly_rule" -> Range(TenantIds) \X Range(Rules)
      [] t = "apm_threshold_profile" -> Range(TenantIds) \X Range(Profiles)
      [] t = "apm_failureevent" ->
             Numbers({ n \in DOMAIN Slots : OwnMode(Slots[n]) })
      [] t \in {"workorder", "maintenance"} -> Numbers(DOMAIN Slots)

\* The number of codes of a table of the taxonomy.
DomainCodes == { ComponentTypes[i].domain : i \in DOMAIN ComponentTypes }
ClassCodes  == { ComponentTypes[i].class : i \in DOMAIN ComponentTypes }

Codes(t) ==
    CASE t = Domains -> Cardinality(DomainCodes)
      [] t = Classes -> Cardinality(ClassCodes)
      [] t = Modes   -> Len(FailureModes)

Filled(t) ==
    IF t \in Taxonomy THEN db[t] # <<>> /\ Len(db[t]) = Codes(t) * Len(TenantIds)
                      ELSE Keys(t) = Wanted(t)

\* The rows it refers to are stored.
FindsAll(r) == \A ref \in r.refs : ref[2] \in Keys(ref[1])

\* The keys that the statements will add.
Due(sql) ==
    { r.key : r \in { q \in UNION { Range(s.rows) : s \in Range(sql) } : FindsAll(q) } }

OneOfItsOwn(t, s) == \E r : s.rows = <<r>> /\ \A ref \in r.refs : ref[1] # t

\* What is stored and what is still to be executed make the table full.
Pending(t, sql) ==
    IF t \in Taxonomy
    THEN \/ sql = <<>> /\ Filled(t)
         \/ /\ db[t] = <<>>
            /\ \E rows : /\ sql = << Statement(t, rows) >>
                         /\ rows # <<>> /\ Len(rows) = Codes(t) * Len(TenantIds)
                         /\ \A r \in Range(rows) : FindsAll(r)
    ELSE /\ Keys(t) \union Due(sql) = Wanted(t)
         /\ \A s \in Range(sql) : OneOfItsOwn(t, s)

\* The table that the run is at.
Underway(t) ==
    IF t = "tenants" THEN ~inserting /\ Filled(t)
    ELSE IF inserting THEN Pending(t, script) ELSE db[t] = <<>>

LoadingAt(k) ==
    /\ \A i \in 1 .. 12 : i < k => Filled(Tables[i])
    /\ \A i \in 1 .. 12 : i > k => db[Tables[i]] = <<>>
    /\ IF k = 13 THEN step \in {"backfill", "report"}
                 ELSE step = Tables[k] /\ Underway(Tables[k])

\* As long as nothing interrupts it the first run fills table after table.
FirstRunInv ==
    /\ runs \in Nat /\ interrupts \in Nat
    /\ interrupts = 0 =>
         /\ runs = 0 => /\ step = "idle" /\ ~inserting /\ Filled("tenants")
                        /\ \A t \in TableSet \ {"tenants"} : db[t] = <<>>
         /\ runs > 0 => complete \/ \E k \in 1 .. 13 : LoadingAt(k)
         /\ complete => \A t \in TableSet : Filled(t)

\* One item for each pair of a tenant and an item of the list.
LEMMA PerTenantLength ==
    ASSUME NEW items, Listed(items)
    PROVE  /\ Len(PerTenant(items)) = Len(items) * Len(TenantIds)
           /\ Len(items) \in Nat /\ Len(TenantIds) \in Nat
<1> DEFINE R == [ tenant: Range(TenantIds), item: Range(items) ]
           pairs(i) == [ j \in DOMAIN TenantIds |->
                           [ tenant |-> TenantIds[j], item |-> items[i] ] ]
           parts == [ i \in DOMAIN items |-> pairs(i) ]
           n == Len(TenantIds)
<1>1. /\ DOMAIN items = 1 .. Len(items) /\ Len(items) \in Nat
      /\ DOMAIN TenantIds = 1 .. n /\ n \in Nat
  BY ConfigurationAssumption DEF Listed
<1>2. \A i \in DOMAIN items, j \in DOMAIN TenantIds :
          [ tenant |-> TenantIds[j], item |-> items[i] ] \in R
  BY DEF Range
<1> HIDE DEF R
<1>3. \A i \in DOMAIN items : pairs(i) \in Seq(R) /\ Len(pairs(i)) = n
  BY <1>1, <1>2
<1> HIDE DEF pairs, n
<1>4. /\ parts \in Seq(Seq(R)) /\ Len(parts) = Len(items)
      /\ \A i \in 1 .. Len(parts) : Len(parts[i]) = n
  BY <1>1, <1>3
<1> HIDE DEF parts
<1>5. Len(FlattenSeq(parts)) = Len(parts) * n
  BY <1>1, <1>4, FlattenLength
<1>6. PerTenant(items) = FlattenSeq(parts)
  BY DEF PerTenant, parts, pairs
<1> QED
  BY <1>1, <1>4, <1>5, <1>6 DEF n

\* Every domain, and every class, is listed once.
LEMMA UnseenDomains ==
    LET unseen == Unseen(ComponentTypes, LAMBDA c : c.domain) IN
    /\ Listed(unseen) /\ Range(unseen) \subseteq Range(ComponentTypes)
    /\ Len(unseen) = Codes(Domains) /\ Codes(Domains) \in Nat \ {0}
<1> DEFINE items == ComponentTypes
           code == [ i \in DOMAIN items |-> items[i].domain ]
           places == { i \in DOMAIN items :
                         \A j \in 1 .. i - 1 : items[j].domain # items[i].domain }
           K == { code[i] : i \in DOMAIN items }
<1>1. Listed(items) /\ DOMAIN items = 1 .. Len(items) /\ Len(items) \in Nat
  BY ConfigurationAssumption DEF Listed
<1>2. Unseen(ComponentTypes, LAMBDA c : c.domain) = Picked(items, places)
  BY DEF Unseen
<1>3. \A i : i \in places <=> i \in DOMAIN items /\ \A j \in 1 .. i - 1 : code[j] # code[i]
  <2>1. \A i \in DOMAIN items : code[i] = items[i].domain
    OBVIOUS
  <2>2. \A i \in DOMAIN items : \A j : j \in 1 .. i - 1 => j \in DOMAIN items
    BY <1>1
  <2> HIDE DEF code, items
  <2> QED
    BY <2>1, <2>2
<1>4. \A i, j \in DOMAIN items : items[i] = items[j] => code[i] = code[j]
  OBVIOUS
<1>5. K # {} /\ K = { items[i].domain : i \in DOMAIN items }
  BY ClassesAssumption
<1>6. Codes(Domains) = Cardinality(K)
  <2>1. Codes(Domains) = Cardinality(DomainCodes)
    BY DEF Codes, Domains, Classes, Modes
  <2> QED
    BY <1>5, <2>1 DEF DomainCodes
<1> HIDE DEF code, items, places
<1>7. IsFiniteSet(K) /\ Len(Picked(items, places)) = Cardinality(K)
  <2>1. Listed(items)
    BY <1>1
  <2>2. /\ IsFiniteSet({ code[i] : i \in DOMAIN items })
        /\ Len(Picked(items, places)) = Cardinality({ code[i] : i \in DOMAIN items })
    BY <1>3, <1>4, <2>1, FirstsPicked
  <2> QED
    BY <2>2
<1>8. Cardinality(K) \in Nat \ {0}
  <2> HIDE DEF K
  <2> QED
    BY <1>5, <1>7, FS_CardinalityType, FS_EmptySet
<1>9. Listed(Picked(items, places)) /\ Range(Picked(items, places)) \subseteq Range(items)
  BY <1>1, PickedProperties
<1> QED
  BY <1>2, <1>6, <1>7, <1>8, <1>9 DEF items

\* One class for each of the map's.
LEMMA UnseenClasses ==
    LET unseen == Unseen(ComponentTypes, LAMBDA c : c.class) IN
    /\ Listed(unseen) /\ Range(unseen) \subseteq Range(ComponentTypes)
    /\ Len(unseen) = Codes(Classes) /\ Codes(Classes) \in Nat \ {0}
<1> DEFINE items == ComponentTypes
           code == [ i \in DOMAIN items |-> items[i].class ]
           places == { i \in DOMAIN items :
                         \A j \in 1 .. i - 1 : items[j].class # items[i].class }
           K == { code[i] : i \in DOMAIN items }
<1>1. Listed(items) /\ DOMAIN items = 1 .. Len(items) /\ Len(items) \in Nat
  BY ConfigurationAssumption DEF Listed
<1>2. Unseen(ComponentTypes, LAMBDA c : c.class) = Picked(items, places)
  BY DEF Unseen
<1>3. \A i : i \in places <=> i \in DOMAIN items /\ \A j \in 1 .. i - 1 : code[j] # code[i]
  <2>1. \A i \in DOMAIN items : code[i] = items[i].class
    OBVIOUS
  <2>2. \A i \in DOMAIN items : \A j : j \in 1 .. i - 1 => j \in DOMAIN items
    BY <1>1
  <2> HIDE DEF code, items
  <2> QED
    BY <2>1, <2>2
<1>4. \A i, j \in DOMAIN items : items[i] = items[j] => code[i] = code[j]
  OBVIOUS
<1>5. K # {} /\ K = { items[i].class : i \in DOMAIN items }
  BY ClassesAssumption
<1>6. Codes(Classes) = Cardinality(K)
  <2>1. Codes(Classes) = Cardinality(ClassCodes)
    BY DEF Codes, Domains, Classes, Modes
  <2> QED
    BY <1>5, <2>1 DEF ClassCodes
<1> HIDE DEF code, items, places
<1>7. IsFiniteSet(K) /\ Len(Picked(items, places)) = Cardinality(K)
  <2>1. Listed(items)
    BY <1>1
  <2>2. /\ IsFiniteSet({ code[i] : i \in DOMAIN items })
        /\ Len(Picked(items, places)) = Cardinality({ code[i] : i \in DOMAIN items })
    BY <1>3, <1>4, <2>1, FirstsPicked
  <2> QED
    BY <2>2
<1>8. Cardinality(K) \in Nat \ {0}
  <2> HIDE DEF K
  <2> QED
    BY <1>5, <1>7, FS_CardinalityType, FS_EmptySet
<1>9. Listed(Picked(items, places)) /\ Range(Picked(items, places)) \subseteq Range(items)
  BY <1>1, PickedProperties
<1> QED
  BY <1>2, <1>6, <1>7, <1>8, <1>9 DEF items

\* A row names its tenant and what it is made with.
LEMMA RowFinds ==
    ASSUME Keys("tenants") = Wanted("tenants"), NEW tenant \in Range(TenantIds),
           NEW id, NEW refs, NEW data, NEW r, r = Row(tenant, id, refs, data)
    PROVE  /\ r.key = Key(tenant, id)
           /\ FindsAll(r) <=> \A ref \in refs : ref[2] \in Keys(ref[1])
           /\ \A ref \in r.refs : ref[1] = "tenants" \/ ref \in refs
<1> DEFINE own == <<"tenants", Key(tenant, tenant)>>
<1>1. r.key = Key(tenant, id) /\ r.refs = refs \union {own}
  BY DEF Row
<1>2. own[1] = "tenants" /\ own[2] \in Keys("tenants")
  BY DEF Wanted
<1> HIDE DEF own
<1> QED
  BY <1>1, <1>2 DEF FindsAll

\* A statement of one row for each item; those that are not refused make the
\* table full.
Singles(t, items, row, sql) ==
    /\ sql = [ i \in DOMAIN items |-> Statement(t, <<row[i]>>) ]
    /\ \A i \in DOMAIN items : \A ref \in row[i].refs : ref[1] # t
    /\ Wanted(t) = { row[i].key : i \in { j \in DOMAIN items : FindsAll(row[j]) } }

\* Single rows whose keys, if what they refer to is stored, are the wanted ones.
LEMMA SinglesPending ==
    ASSUME NEW t, t \notin Taxonomy, db[t] = <<>>,
           NEW items, NEW row, NEW sql, Singles(t, items, row, sql)
    PROVE  Pending(t, sql)
<1> USE DEF Singles
<1>1. ASSUME NEW s \in Range(sql)
      PROVE  \E i \in DOMAIN items : s.rows = <<row[i]>>
  BY DEF Range, Statement
<1>2. ASSUME NEW i \in DOMAIN items PROVE \E s \in Range(sql) : s.rows = <<row[i]>>
  BY DEF Range, Statement
<1>3. \A x : Range(<<x>>) = {x}
  BY DEF Range
<1>4. \A s \in Range(sql) : OneOfItsOwn(t, s)
  <2> SUFFICES ASSUME NEW s \in Range(sql) PROVE OneOfItsOwn(t, s)
    OBVIOUS
  <2>1. PICK i \in DOMAIN items : s.rows = <<row[i]>>
    BY <1>1
  <2> DEFINE r == row[i]
  <2>2. s.rows = <<r>> /\ \A ref \in r.refs : ref[1] # t
    BY <2>1
  <2> HIDE DEF r
  <2> QED
    BY <2>2 DEF OneOfItsOwn
<1>5. UNION { Range(s.rows) : s \in Range(sql) } = { row[i] : i \in DOMAIN items }
  <2> DEFINE U == UNION { Range(s.rows) : s \in Range(sql) }
             V == { row[i] : i \in DOMAIN items }
  <2>1. ASSUME NEW x \in U PROVE x \in V
    <3>1. PICK s \in Range(sql) : x \in Range(s.rows)
      OBVIOUS
    <3>2. PICK i \in DOMAIN items : s.rows = <<row[i]>>
      BY <1>1
    <3>3. x = row[i]
      BY <1>3, <3>1, <3>2
    <3> QED
      BY <3>3
  <2>2. ASSUME NEW i \in DOMAIN items PROVE row[i] \in U
    <3>1. PICK s \in Range(sql) : s.rows = <<row[i]>>
      BY <1>2
    <3>2. row[i] \in Range(s.rows)
      BY <1>3, <3>1
    <3> QED
      BY <3>2
  <2> HIDE DEF U
  <2>3. U = V
    BY <2>1, <2>2
  <2> QED
    BY <2>3 DEF U
<1>6. Due(sql) = Wanted(t)
  <2>1. Due(sql) = { r.key : r \in { q \in { row[i] : i \in DOMAIN items } : FindsAll(q) } }
    BY <1>5 DEF Due
  <2> QED
    BY <2>1
<1>7. Keys(t) = {}
  BY DEF Keys, Range
<1> QED
  BY <1>4, <1>6, <1>7 DEF Pending

\* What is pending of one statement of several rows.
LEMMA NumberedPending ==
    ASSUME NEW t \in Taxonomy, db[t] = <<>>, NEW items, Listed(items), NEW row, NEW sql,
           sql = << Statement(t, [ i \in DOMAIN PerTenant(items) |-> row[i] ]) >>,
           Codes(t) = Len(items), items # <<>>, TenantIds # <<>>,
           \A i \in DOMAIN PerTenant(items) : FindsAll(row[i])
    PROVE  Pending(t, sql)
<1> DEFINE all  == PerTenant(items)
           rows == [ i \in DOMAIN all |-> row[i] ]
<1>1. /\ Len(all) = Codes(t) * Len(TenantIds)
      /\ Len(items) \in Nat /\ Len(TenantIds) \in Nat
  BY PerTenantLength
<1>2. Len(items) # 0 /\ Len(TenantIds) # 0
  <2>1. items \in Seq(Range(items)) /\ TenantIds \in Seq(Range(TenantIds))
    BY ConfigurationAssumption DEF Listed
  <2> QED
    BY <2>1
<1>3. Listed(all)
  BY PerTenantProperties
<1>4. sql = << Statement(t, rows) >> /\ \A i \in DOMAIN all : FindsAll(row[i])
  OBVIOUS
<1> HIDE DEF all
<1>5. DOMAIN all = 1 .. Len(all) /\ Len(all) \in Nat
  BY <1>3 DEF Listed
<1>6. Len(rows) = Len(all) /\ DOMAIN rows = 1 .. Len(all)
  BY <1>5
<1>7. Len(all) # 0
  BY <1>1, <1>2
<1>8. rows # <<>>
  BY <1>6, <1>7
<1>9. \A r \in Range(rows) : FindsAll(r)
  BY <1>4 DEF Range
<1> HIDE DEF rows
<1> QED
  BY <1>1, <1>4, <1>6, <1>8, <1>9 DEF Pending

\* Every asset is of a tenant that is stored.
LEMMA AssetsPending ==
    ASSUME Keys("tenants") = Wanted("tenants"), db["assets"] = <<>>
    PROVE  Pending("assets", Statements("assets"))
<1> DEFINE t == "assets"
           items == Assets
           row == [ i \in DOMAIN items |-> Row(items[i].tenant, items[i].asset, {}, "") ]
           sql == Statements(t)
<1>1. sql = [ i \in DOMAIN items |-> Statement(t, <<row[i]>>) ]
  BY DEF Statements, assets_sql, Each
<1>2. ASSUME NEW i \in DOMAIN items
      PROVE  /\ row[i].key = Key(items[i].tenant, items[i].asset)
             /\ FindsAll(row[i]) /\ \A ref \in row[i].refs : ref[1] # t
  <2>1. items[i].tenant \in Range(TenantIds)
    BY LoadableAssumption DEF Range
  <2> HIDE DEF items
  <2> DEFINE refs == {}
             data == ""
  <2>2. row[i] = Row(items[i].tenant, items[i].asset, refs, data)
    OBVIOUS
  <2>3. \A ref \in refs : FALSE
    OBVIOUS
  <2> HIDE DEF row, refs, data
  <2>4. /\ row[i].key = Key(items[i].tenant, items[i].asset)
        /\ FindsAll(row[i]) /\ \A ref \in row[i].refs : ref[1] = "tenants"
    BY <2>1, <2>2, <2>3, RowFinds
  <2> QED
    BY <2>4
<1>3. Wanted(t) = { Key(items[i].tenant, items[i].asset) : i \in DOMAIN items }
  BY DEF Wanted, Range
<1> HIDE DEF row, sql
<1>4. Wanted(t) = { row[i].key : i \in { j \in DOMAIN items : FindsAll(row[j]) } }
  BY <1>2, <1>3
<1>5. db[t] = <<>>
  OBVIOUS
<1>6. t \notin Taxonomy
  BY DEF Taxonomy
<1>7. \A i \in DOMAIN items : \A ref \in row[i].refs : ref[1] # t
  BY <1>2
<1> HIDE DEF items, t
<1>8. Singles(t, items, row, sql)
  BY <1>1, <1>4, <1>7 DEF Singles
<1>9. Pending(t, sql)
  BY <1>5, <1>6, <1>8, SinglesPending
<1> QED
  BY <1>9 DEF sql, t

\* One component for each pair of a tenant and a component.
LEMMA ComponentsUnseen ==
    LET unseen == Unseen(TagMetadata, LAMBDA m : Key(m.tenant, m.component)) IN
    /\ Listed(unseen) /\ Range(unseen) \subseteq Range(TagMetadata)
    /\ \A m \in Range(TagMetadata) :
           \E u \in Range(unseen) : u.tenant = m.tenant /\ u.component = m.component
<1> DEFINE items == TagMetadata
           code == [ i \in DOMAIN items |-> Key(items[i].tenant, items[i].component) ]
           places == { i \in DOMAIN items :
                         \A j \in 1 .. i - 1 :
                             Key(items[j].tenant, items[j].component)
                               # Key(items[i].tenant, items[i].component) }
           unseen == Picked(items, places)
<1>1. Listed(items) /\ DOMAIN items = 1 .. Len(items) /\ Len(items) \in Nat
  BY ConfigurationAssumption DEF Listed
<1>2. Unseen(TagMetadata, LAMBDA m : Key(m.tenant, m.component)) = unseen
  BY DEF Unseen
<1>3. \A i \in DOMAIN items : (\A j \in 1 .. i - 1 : code[j] # code[i]) => i \in places
  <2>1. \A i \in DOMAIN items : code[i] = Key(items[i].tenant, items[i].component)
    OBVIOUS
  <2>2. \A i \in DOMAIN items : \A j : j \in 1 .. i - 1 => j \in DOMAIN items
    BY <1>1
  <2> HIDE DEF code, items
  <2> QED
    BY <2>1, <2>2
<1>4. \A i \in DOMAIN items : code[i] = Key(items[i].tenant, items[i].component)
  OBVIOUS
<1> HIDE DEF code, places, items
<1>5. Listed(unseen) /\ Range(unseen) \subseteq Range(items)
  BY <1>1, PickedProperties
<1>6. ASSUME NEW i \in DOMAIN items
      PROVE  \E u \in Range(unseen) :
                 u.tenant = items[i].tenant /\ u.component = items[i].component
  <2>1. Listed(items)
    BY <1>1
  <2>2. \E j \in DOMAIN items : code[j] = code[i] /\ items[j] \in Range(Picked(items, places))
    BY <1>3, <2>1, FirstPicked
  <2>3. PICK j \in DOMAIN items : code[j] = code[i] /\ items[j] \in Range(unseen)
    BY <2>2
  <2>4. items[j].tenant = items[i].tenant /\ items[j].component = items[i].component
    BY <1>4, <2>3 DEF Key
  <2> QED
    BY <2>3, <2>4
<1>7. \A m \in Range(items) :
          \E u \in Range(unseen) : u.tenant = m.tenant /\ u.component = m.component
  BY <1>6 DEF Range
<1> HIDE DEF unseen
<1> QED
  BY <1>2, <1>5, <1>7 DEF items

\* Every component is of an asset that is stored.
LEMMA ComponentsPending ==
    ASSUME Keys("tenants") = Wanted("tenants"), Keys("assets") = Wanted("assets"),
           db["asset_components"] = <<>>
    PROVE  Pending("asset_components", Statements("asset_components"))
<1> DEFINE t == "asset_components"
           items == Unseen(TagMetadata, LAMBDA m : Key(m.tenant, m.component))
           refs(i) == {<<"assets", Key(items[i].tenant, items[i].asset)>>}
           row == [ i \in DOMAIN items |->
                      Row(items[i].tenant, items[i].component, refs(i), items[i].type) ]
           sql == Statements(t)
<1>1. sql = [ i \in DOMAIN items |-> Statement(t, <<row[i]>>) ]
  BY DEF Statements, components_sql, Each
<1>2. /\ Range(items) \subseteq Range(TagMetadata)
      /\ \A m \in Range(TagMetadata) :
             \E u \in Range(items) : u.tenant = m.tenant /\ u.component = m.component
  BY ComponentsUnseen
<1> HIDE DEF items
<1>3. ASSUME NEW i \in DOMAIN items
      PROVE  /\ row[i].key = Key(items[i].tenant, items[i].component)
             /\ FindsAll(row[i]) /\ \A ref \in row[i].refs : ref[1] # t
  <2>1. items[i] \in Range(TagMetadata)
    BY <1>2 DEF Range
  <2>2. PICK a \in Range(Assets) : a.tenant = items[i].tenant /\ a.asset = items[i].asset
    BY <2>1, LoadableAssumption
  <2>3. items[i].tenant \in Range(TenantIds)
    BY <2>2, LoadableAssumption
  <2>4. Key(items[i].tenant, items[i].asset) \in Keys("assets")
    BY <2>2 DEF Wanted
  <2>5. \A ref \in refs(i) : ref[2] \in Keys(ref[1]) /\ ref[1] = "assets"
    BY <2>4
  <2> HIDE DEF refs
  <2>6. row[i] = Row(items[i].tenant, items[i].component, refs(i), items[i].type)
    OBVIOUS
  <2> HIDE DEF row
  <2>7. /\ row[i].key = Key(items[i].tenant, items[i].component) /\ FindsAll(row[i])
        /\ \A ref \in row[i].refs : ref[1] = "tenants" \/ ref \in refs(i)
    BY <2>3, <2>5, <2>6, RowFinds
  <2> QED
    BY <2>5, <2>7
<1>4. Wanted(t) = { Key(items[i].tenant, items[i].component) : i \in DOMAIN items }
  <2>1. Wanted(t) = { Key(m.tenant, m.component) : m \in Range(TagMetadata) }
    BY DEF Wanted
  <2>2. \A i \in DOMAIN items : items[i] \in Range(TagMetadata)
    BY <1>2 DEF Range
  <2>3. ASSUME NEW m \in Range(TagMetadata)
        PROVE  \E i \in DOMAIN items :
                   Key(m.tenant, m.component) = Key(items[i].tenant, items[i].component)
    BY <1>2 DEF Range
  <2> QED
    BY <2>1, <2>2, <2>3
<1> HIDE DEF row, sql
<1>5. Wanted(t) = { row[i].key : i \in { j \in DOMAIN items : FindsAll(row[j]) } }
  BY <1>3, <1>4
<1>6. db[t] = <<>>
  OBVIOUS
<1>7. t \notin Taxonomy
  BY DEF Taxonomy
<1>8. \A i \in DOMAIN items : \A ref \in row[i].refs : ref[1] # t
  BY <1>3
<1> HIDE DEF t
<1>9. Singles(t, items, row, sql)
  BY <1>1, <1>5, <1>8 DEF Singles
<1>10. Pending(t, sql)
  BY <1>6, <1>7, <1>9, SinglesPending
<1> QED
  BY <1>10 DEF sql, t

\* Every tag is of an asset and of a component that are stored.
LEMMA MappingPending ==
    ASSUME Keys("tenants") = Wanted("tenants"), Keys("assets") = Wanted("assets"),
           Keys("asset_components") = Wanted("asset_components"),
           db["asset_signal_tags_mapping"] = <<>>
    PROVE  Pending("asset_signal_tags_mapping", Statements("asset_signal_tags_mapping"))
<1> DEFINE t == "asset_signal_tags_mapping"
           items == TagMetadata
           refs(i) == { <<"assets", Key(items[i].tenant, items[i].asset)>>,
                        <<"asset_components", Key(items[i].tenant, items[i].component)>> }
           row == [ i \in DOMAIN items |->
                      Row(items[i].tenant, items[i].tag, refs(i), "") ]
           sql == Statements(t)
<1>1. sql = [ i \in DOMAIN items |-> Statement(t, <<row[i]>>) ]
  BY DEF Statements, tag_mappings_sql, Each
<1>2. ASSUME NEW i \in DOMAIN items
      PROVE  /\ row[i].key = Key(items[i].tenant, items[i].tag)
             /\ FindsAll(row[i]) /\ \A ref \in row[i].refs : ref[1] # t
  <2>1. items[i] \in Range(TagMetadata)
    BY DEF Range
  <2>2. PICK a \in Range(Assets) : a.tenant = items[i].tenant /\ a.asset = items[i].asset
    BY <2>1, LoadableAssumption
  <2>3. items[i].tenant \in Range(TenantIds)
    BY <2>2, LoadableAssumption
  <2>4. Key(items[i].tenant, items[i].asset) \in Keys("assets")
    BY <2>2 DEF Wanted
  <2>5. Key(items[i].tenant, items[i].component) \in Keys("asset_components")
    BY <2>1 DEF Wanted
  <2>6. \A ref \in refs(i) : ref[2] \in Keys(ref[1]) /\ ref[1] # t
    BY <2>4, <2>5
  <2> HIDE DEF refs, items
  <2> DEFINE data == ""
  <2>7. row[i] = Row(items[i].tenant, items[i].tag, refs(i), data)
    OBVIOUS
  <2> HIDE DEF row, data
  <2>8. /\ row[i].key = Key(items[i].tenant, items[i].tag) /\ FindsAll(row[i])
        /\ \A ref \in row[i].refs : ref[1] = "tenants" \/ ref \in refs(i)
    BY <2>3, <2>6, <2>7, RowFinds
  <2> QED
    BY <2>6, <2>8
<1>3. Wanted(t) = { Key(items[i].tenant, items[i].tag) : i \in DOMAIN items }
  BY DEF Wanted, Range
<1> HIDE DEF row, sql
<1>4. Wanted(t) = { row[i].key : i \in { j \in DOMAIN items : FindsAll(row[j]) } }
  BY <1>2, <1>3
<1>5. db[t] = <<>>
  OBVIOUS
<1>6. t \notin Taxonomy
  BY DEF Taxonomy
<1>7. \A i \in DOMAIN items : \A ref \in row[i].refs : ref[1] # t
  BY <1>2
<1> HIDE DEF items, t
<1>8. Singles(t, items, row, sql)
  BY <1>1, <1>4, <1>7 DEF Singles
<1>9. Pending(t, sql)
  BY <1>5, <1>6, <1>8, SinglesPending
<1> QED
  BY <1>9 DEF sql, t

\* The pairs of a tenant and an item.
LEMMA PerTenantPairs ==
    ASSUME NEW items, Listed(items)
    PROVE  /\ \A i \in DOMAIN PerTenant(items) :
                  /\ PerTenant(items)[i].tenant \in Range(TenantIds)
                  /\ PerTenant(items)[i].item \in Range(items)
           /\ Range(TenantIds) \X Range(items)
                = { Key(PerTenant(items)[i].tenant, PerTenant(items)[i].item)
                    : i \in DOMAIN PerTenant(items) }
<1> DEFINE all == PerTenant(items)
           keys == { Key(all[i].tenant, all[i].item) : i \in DOMAIN all }
<1>1. Range(all) \subseteq [ tenant: Range(TenantIds), item: Range(items) ]
  BY PerTenantProperties
<1>2. \A x \in Range(items), tenant \in Range(TenantIds) :
          \E i \in DOMAIN all : all[i] = [ tenant |-> tenant, item |-> x ]
  BY PerTenantItems DEF Range
<1> HIDE DEF all
<1>3. \A i \in DOMAIN all : all[i].tenant \in Range(TenantIds) /\ all[i].item \in Range(items)
  BY <1>1 DEF Range
<1>4. ASSUME NEW k \in Range(TenantIds) \X Range(items) PROVE k \in keys
  <2>1. PICK i \in DOMAIN all : all[i] = [ tenant |-> k[1], item |-> k[2] ]
    BY <1>2
  <2>2. k = Key(all[i].tenant, all[i].item)
    BY <2>1 DEF Key
  <2> QED
    BY <2>2
<1>5. ASSUME NEW k \in keys PROVE k \in Range(TenantIds) \X Range(items)
  BY <1>3 DEF Key
<1> HIDE DEF keys
<1>6. Range(TenantIds) \X Range(items) = keys
  <2> DEFINE pairs == Range(TenantIds) \X Range(items)
  <2>1. \A k : k \in pairs <=> k \in keys
    BY <1>4, <1>5
  <2> HIDE DEF pairs
  <2>2. pairs = keys
    BY <2>1
  <2> QED
    BY <2>2 DEF pairs
<1> QED
  BY <1>3, <1>6 DEF keys, all

\* Every rule is of a tenant that is stored.
LEMMA RulesPending ==
    ASSUME Keys("tenants") = Wanted("tenants"), db["apm_anomaly_rule"] = <<>>
    PROVE  Pending("apm_anomaly_rule", Statements("apm_anomaly_rule"))
<1> DEFINE t == "apm_anomaly_rule"
           items == PerTenant(Rules)
           refs == {}
           data == ""
           row == [ i \in DOMAIN items |->
                      Row(items[i].tenant, items[i].item, refs, data) ]
           sql == Statements(t)
<1>1. sql = [ i \in DOMAIN items |-> Statement(t, <<row[i]>>) ]
  BY DEF Statements, anomaly_rules_sql, Each
<1>2. Listed(Rules)
  BY ConfigurationAssumption DEF Listed
<1>3. /\ \A i \in DOMAIN items : items[i].tenant \in Range(TenantIds)
      /\ Wanted(t) = { Key(items[i].tenant, items[i].item) : i \in DOMAIN items }
  BY <1>2, PerTenantPairs DEF Wanted
<1>4. \A ref \in refs : FALSE
  OBVIOUS
<1> HIDE DEF items, refs, data
<1>5. ASSUME NEW i \in DOMAIN items
      PROVE  /\ row[i].key = Key(items[i].tenant, items[i].item)
             /\ FindsAll(row[i]) /\ \A ref \in row[i].refs : ref[1] # t
  <2>1. row[i] = Row(items[i].tenant, items[i].item, refs, data)
    OBVIOUS
  <2> HIDE DEF row
  <2>2. /\ row[i].key = Key(items[i].tenant, items[i].item)
        /\ FindsAll(row[i]) /\ \A ref \in row[i].refs : ref[1] = "tenants"
    BY <1>3, <1>4, <2>1, RowFinds
  <2> QED
    BY <2>2
<1> HIDE DEF row, sql
<1>6. Wanted(t) = { row[i].key : i \in { j \in DOMAIN items : FindsAll(row[j]) } }
  BY <1>3, <1>5
<1>7. db[t] = <<>> /\ t \notin Taxonomy
  BY DEF Taxonomy
<1>8. \A i \in DOMAIN items : \A ref \in row[i].refs : ref[1] # t
  BY <1>5
<1> HIDE DEF t
<1>9. Singles(t, items, row, sql)
  BY <1>1, <1>6, <1>8 DEF Singles
<1>10. Pending(t, sql)
  BY <1>7, <1>9, SinglesPending
<1> QED
  BY <1>10 DEF sql, t

\* Every threshold profile is of the rule of its own id.
LEMMA ProfilesPending ==
    ASSUME Keys("tenants") = Wanted("tenants"),
           Keys("apm_anomaly_rule") = Wanted("apm_anomaly_rule"),
           db["apm_threshold_profile"] = <<>>
    PROVE  Pending("apm_threshold_profile", Statements("apm_threshold_profile"))
<1> DEFINE t == "apm_threshold_profile"
           items == PerTenant(Profiles)
           refs(i) == {<<"apm_anomaly_rule", Key(items[i].tenant, items[i].item)>>}
           data == ""
           row == [ i \in DOMAIN items |->
                      Row(items[i].tenant, items[i].item, refs(i), data) ]
           sql == Statements(t)
<1>1. sql = [ i \in DOMAIN items |-> Statement(t, <<row[i]>>) ]
  BY DEF Statements, threshold_profiles_sql, Each
<1>2. Listed(Profiles)
  BY ConfigurationAssumption DEF Listed
<1>3. /\ \A i \in DOMAIN items : /\ items[i].tenant \in Range(TenantIds)
                                 /\ items[i].item \in Range(Profiles)
      /\ Wanted(t) = { Key(items[i].tenant, items[i].item) : i \in DOMAIN items }
  BY <1>2, PerTenantPairs DEF Wanted
<1> HIDE DEF items, data
<1>4. ASSUME NEW i \in DOMAIN items
      PROVE  \A ref \in refs(i) : ref[1] = "apm_anomaly_rule" /\ ref[2] \in Keys(ref[1])
  <2>1. Key(items[i].tenant, items[i].item) \in Keys("apm_anomaly_rule")
    BY <1>3, LoadableAssumption DEF Wanted, Key
  <2> QED
    BY <2>1
<1> HIDE DEF refs
<1>5. ASSUME NEW i \in DOMAIN items
      PROVE  /\ row[i].key = Key(items[i].tenant, items[i].item)
             /\ FindsAll(row[i]) /\ \A ref \in row[i].refs : ref[1] # t
  <2>1. row[i] = Row(items[i].tenant, items[i].item, refs(i), data)
    OBVIOUS
  <2> HIDE DEF row
  <2>2. /\ row[i].key = Key(items[i].tenant, items[i].item) /\ FindsAll(row[i])
        /\ \A ref \in row[i].refs : ref[1] = "tenants" \/ ref \in refs(i)
    BY <1>3, <1>4, <2>1, RowFinds
  <2> QED
    BY <1>4, <2>2
<1> HIDE DEF row, sql
<1>6. Wanted(t) = { row[i].key : i \in { j \in DOMAIN items : FindsAll(row[j]) } }
  BY <1>3, <1>5
<1>7. db[t] = <<>> /\ t \notin Taxonomy
  BY DEF Taxonomy
<1>8. \A i \in DOMAIN items : \A ref \in row[i].refs : ref[1] # t
  BY <1>5
<1> HIDE DEF t
<1>9. Singles(t, items, row, sql)
  BY <1>1, <1>6, <1>8 DEF Singles
<1>10. Pending(t, sql)
  BY <1>7, <1>9, SinglesPending
<1> QED
  BY <1>10 DEF sql, t

\* The domains refer to no table but the tenants.
LEMMA DomainsPending ==
    ASSUME Keys("tenants") = Wanted("tenants"), db[Domains] = <<>>
    PROVE  Pending(Domains, Statements(Domains))
<1> DEFINE items == Unseen(ComponentTypes, LAMBDA c : c.domain)
           all == PerTenant(items)
           refs == {}
           row == [ i \in DOMAIN all |->
                      Row(all[i].tenant, serial[Domains] + i, refs, all[i].item.domain) ]
           sql == Statements(Domains)
<1>1. sql = << Statement(Domains, [ i \in DOMAIN all |-> row[i] ]) >>
  BY DEF Statements, domains_sql, Numbered, Domains
<1>2. Listed(items) /\ Len(items) = Codes(Domains) /\ Codes(Domains) \in Nat \ {0}
  BY UnseenDomains
<1>3. \A ref \in refs : FALSE
  OBVIOUS
<1> HIDE DEF items, refs
<1>4. \A i \in DOMAIN all : all[i].tenant \in Range(TenantIds)
  BY <1>2, PerTenantPairs
<1>5. ASSUME NEW i \in DOMAIN all PROVE FindsAll(row[i])
  <2>1. row[i] = Row(all[i].tenant, serial[Domains] + i, refs, all[i].item.domain)
    OBVIOUS
  <2> HIDE DEF row, all
  <2> QED
    BY <1>3, <1>4, <2>1, RowFinds
<1> HIDE DEF row, sql
<1>6. Domains \in Taxonomy
  BY DEF Domains, Taxonomy
<1>7. items # <<>> /\ TenantIds # <<>>
  BY <1>2, LoadableAssumption
<1>8. Pending(Domains, sql)
  BY <1>1, <1>2, <1>5, <1>6, <1>7, NumberedPending
<1> QED
  BY <1>8 DEF sql

\* A code that a table has for every tenant is found again.
LEMMA CapturedKey ==
    ASSUME ReferenceInv, TaxonomyInv, NEW t \in {Domains, Classes}, db[t] # <<>>,
           NEW tenant \in Range(TenantIds), NEW c \in Range(ComponentTypes), NEW code,
           code = IF t = Domains THEN c.domain ELSE c.class
    PROVE  Key(tenant, captured_id(t, tenant, code)) \in Keys(t)
<1>1. t \in Taxonomy /\ Domains # Classes
  BY DEF Taxonomy, Domains, Classes
<1>2. AllCodes(t, db[t])
  BY <1>1 DEF TaxonomyInv
<1>3. PICK q \in Range(db[t]) : q.key[1] = tenant /\ q.data = code
  <2>1. CASE t = Domains
    BY <1>2, <2>1 DEF AllCodes, AllDomains
  <2>2. CASE t = Classes
    BY <1>1, <1>2, <2>2 DEF AllCodes, AllClasses
  <2> QED
    BY <2>1, <2>2
<1>4. PICK r \in Range(db[t]) : r.key = Key(tenant, captured_id(t, tenant, code))
  BY <1>1, <1>3, CapturedId
<1> QED
  BY <1>4 DEF Keys

\* Every class is of a domain that was captured.
LEMMA ClassesPending ==
    ASSUME ReferenceInv, TaxonomyInv, Keys("tenants") = Wanted("tenants"),
           db[Domains] # <<>>, db[Classes] = <<>>
    PROVE  Pending(Classes, Statements(Classes))
<1> DEFINE items == Unseen(ComponentTypes, LAMBDA c : c.class)
           all == PerTenant(items)
           refs(i) == { <<Domains, Key(all[i].tenant,
                            captured_id(Domains, all[i].tenant, all[i].item.domain))>> }
           row == [ i \in DOMAIN all |->
                      Row(all[i].tenant, serial[Classes] + i, refs(i), all[i].item.class) ]
           sql == Statements(Classes)
<1>1. sql = << Statement(Classes, [ i \in DOMAIN all |-> row[i] ]) >>
  BY DEF Statements, classes_sql, Numbered, Domains, Classes
<1>2. /\ Listed(items) /\ Len(items) = Codes(Classes) /\ Codes(Classes) \in Nat \ {0}
      /\ Range(items) \subseteq Range(ComponentTypes)
  BY UnseenClasses
<1> HIDE DEF items
<1>3. \A i \in DOMAIN all : /\ all[i].tenant \in Range(TenantIds)
                            /\ all[i].item \in Range(ComponentTypes)
  BY <1>2, PerTenantPairs
<1>4. ASSUME NEW i \in DOMAIN all
      PROVE  \A ref \in refs(i) : ref[2] \in Keys(ref[1])
  <2> HIDE DEF all
  <2>1. Domains \in {Domains, Classes}
    OBVIOUS
  <2>2. Key(all[i].tenant, captured_id(Domains, all[i].tenant, all[i].item.domain))
          \in Keys(Domains)
    BY <1>3, <2>1, CapturedKey
  <2> QED
    BY <2>2
<1> HIDE DEF refs
<1>5. ASSUME NEW i \in DOMAIN all PROVE FindsAll(row[i])
  <2>1. row[i] = Row(all[i].tenant, serial[Classes] + i, refs(i), all[i].item.class)
    OBVIOUS
  <2> HIDE DEF row, all
  <2> QED
    BY <1>3, <1>4, <2>1, RowFinds
<1> HIDE DEF row, sql
<1>6. Classes \in Taxonomy
  BY DEF Classes, Taxonomy
<1>7. items # <<>> /\ TenantIds # <<>>
  BY <1>2, LoadableAssumption
<1>8. Pending(Classes, sql)
  BY <1>1, <1>2, <1>5, <1>6, <1>7, NumberedPending
<1> QED
  BY <1>8 DEF sql

\* Every mode is of a class that was captured.
LEMMA ModesPending ==
    ASSUME ReferenceInv, TaxonomyInv, Keys("tenants") = Wanted("tenants"),
           db[Classes] # <<>>, db[Modes] = <<>>
    PROVE  Pending(Modes, Statements(Modes))
<1> DEFINE items == FailureModes
           all == PerTenant(items)
           refs(i) == { <<Classes, Key(all[i].tenant,
                            captured_id(Classes, all[i].tenant, class_of(all[i].item)))>> }
           row == [ i \in DOMAIN all |->
                      Row(all[i].tenant, serial[Modes] + i, refs(i), all[i].item) ]
           sql == Statements(Modes)
<1>1. sql = << Statement(Modes, [ i \in DOMAIN all |-> row[i] ]) >>
  BY DEF Statements, modes_sql, Numbered, Modes, Classes
<1>2. Listed(items) /\ Len(items) = Codes(Modes)
  BY ConfigurationAssumption DEF Listed, Codes, Domains, Classes, Modes
<1>3. items # <<>> /\ TenantIds # <<>>
  BY LoadableAssumption
<1> HIDE DEF items
<1>4. \A i \in DOMAIN all : all[i].tenant \in Range(TenantIds)
  BY <1>2, PerTenantPairs
<1>5. ASSUME NEW i \in DOMAIN all
      PROVE  \A ref \in refs(i) : ref[2] \in Keys(ref[1])
  <2> HIDE DEF all
  <2>1. Classes \in {Domains, Classes} /\ Classes # Domains
    BY DEF Domains, Classes
  <2>2. PICK c \in Range(ComponentTypes) : c.class = class_of(all[i].item)
    BY ClassOfType
  <2>3. Key(all[i].tenant, captured_id(Classes, all[i].tenant, class_of(all[i].item)))
          \in Keys(Classes)
    BY <1>4, <2>1, <2>2, CapturedKey
  <2> QED
    BY <2>3
<1> HIDE DEF refs
<1>6. ASSUME NEW i \in DOMAIN all PROVE FindsAll(row[i])
  <2>1. row[i] = Row(all[i].tenant, serial[Modes] + i, refs(i), all[i].item)
    OBVIOUS
  <2> HIDE DEF row, all
  <2> QED
    BY <1>4, <1>5, <2>1, RowFinds
<1> HIDE DEF row, sql
<1>7. Modes \in Taxonomy
  BY DEF Modes, Taxonomy
<1>8. Pending(Modes, sql)
  BY <1>1, <1>2, <1>3, <1>6, <1>7, NumberedPending
<1> QED
  BY <1>8 DEF sql

\* What a slot names is stored.
LEMMA SlotFinds ==
    ASSUME ReferenceInv, NumbersInv, NEW n \in DOMAIN Slots
    PROVE  /\ Slots[n].tenant \in Range(TenantIds)
           /\ \A ref \in Slots[n].place :
                  /\ ref[1] \in {"tenants", "assets", "asset_components"}
                  /\ ref[2] \in Keys(ref[1])
<1>1. "asset_components" \in TableSet /\ Listed(db["asset_components"])
  BY TableNames DEF ReferenceInv
<1>2. /\ Slots[n].tenant \in Range(TenantIds)
      /\ \E c \in Range(db["asset_components"]) : Slots[n].place = PlaceFor(c)
  BY <1>1, SlotsProperties
<1>3. PICK c \in Range(db["asset_components"]) : Slots[n].place = PlaceFor(c)
  BY <1>2
<1>4. \A ref \in c.refs : ref[1] \in {"tenants", "assets"} /\ ref[2] \in Keys(ref[1])
  BY <1>1 DEF ReferenceInv, NumbersInv, ComponentRow
<1>5. c.key \in Keys("asset_components")
  BY DEF Keys
<1>6. \A ref \in PlaceFor(c) :
          ref \in c.refs \/ (ref[1] = "asset_components" /\ ref[2] = c.key)
  BY DEF PlaceFor
<1> QED
  BY <1>2, <1>3, <1>4, <1>5, <1>6

\* An event is refused exactly if its failure mode is not its tenant's.
LEMMA EventsPending ==
    ASSUME ReferenceInv, NumbersInv, Keys("tenants") = Wanted("tenants"),
           db["apm_failureevent"] = <<>>
    PROVE  Pending("apm_failureevent", Statements("apm_failureevent"))
<1> DEFINE t == "apm_failureevent"
           items == Slots
           refs(n) == items[n].place \union mode_ref(items[n])
           data == ""
           row == [ n \in DOMAIN items |-> Row(items[n].tenant, n, refs(n), data) ]
           sql == Statements(t)
<1>1. sql = [ n \in DOMAIN items |-> Statement(t, <<row[n]>>) ]
  BY DEF Statements, failure_events_sql, Numerate
<1>2. \A n \in DOMAIN items :
          /\ items[n].tenant \in Range(TenantIds)
          /\ \A ref \in items[n].place :
                 /\ ref[1] \in {"tenants", "assets", "asset_components"}
                 /\ ref[2] \in Keys(ref[1])
  BY SlotFinds
<1>3. \A n \in DOMAIN items : \A ref \in mode_ref(items[n]) : ref[1] = "apm_failuremode"
  BY DEF mode_ref
<1> HIDE DEF items, data
<1>4. ASSUME NEW n \in DOMAIN items
      PROVE  /\ \A ref \in refs(n) : ref[1] # t
             /\ (\A ref \in refs(n) : ref[2] \in Keys(ref[1])) <=> OwnMode(items[n])
  <2>1. OwnMode(items[n]) <=> \A ref \in mode_ref(items[n]) : ref[2] \in Keys(ref[1])
    BY <1>3 DEF OwnMode
  <2> QED
    BY <1>2, <1>3, <2>1
<1> HIDE DEF refs
<1>5. ASSUME NEW n \in DOMAIN items
      PROVE  /\ row[n].key = Key(items[n].tenant, n)
             /\ FindsAll(row[n]) <=> OwnMode(items[n])
             /\ \A ref \in row[n].refs : ref[1] # t
  <2>1. row[n] = Row(items[n].tenant, n, refs(n), data)
    OBVIOUS
  <2> HIDE DEF row
  <2>2. /\ row[n].key = Key(items[n].tenant, n)
        /\ FindsAll(row[n]) <=> \A ref \in refs(n) : ref[2] \in Keys(ref[1])
        /\ \A ref \in row[n].refs : ref[1] = "tenants" \/ ref \in refs(n)
    BY <1>2, <2>1, RowFinds
  <2> QED
    BY <1>4, <2>2
<1>6. Wanted(t) = { Key(items[n].tenant, n) : n \in { m \in DOMAIN items : OwnMode(items[m]) } }
  BY DEF Wanted, Numbers, items
<1> HIDE DEF row, sql
<1>7. Wanted(t) = { row[n].key : n \in { j \in DOMAIN items : FindsAll(row[j]) } }
  BY <1>5, <1>6
<1>8. db[t] = <<>> /\ t \notin Taxonomy
  BY DEF Taxonomy
<1>9. \A n \in DOMAIN items : \A ref \in row[n].refs : ref[1] # t
  BY <1>5
<1> HIDE DEF t
<1>10. Singles(t, items, row, sql)
  BY <1>1, <1>7, <1>9 DEF Singles
<1>11. Pending(t, sql)
  BY <1>8, <1>10, SinglesPending
<1> QED
  BY <1>11 DEF sql, t

\* Every work order is of a place that is stored.
LEMMA WorkordersPending ==
    ASSUME ReferenceInv, NumbersInv, Keys("tenants") = Wanted("tenants"),
           db["workorder"] = <<>>
    PROVE  Pending("workorder", Statements("workorder"))
<1> DEFINE t == "workorder"
           items == Slots
           refs(n) == items[n].place
           data(n) == Key(items[n].tenant, n)
           row == [ n \in DOMAIN items |-> Row(items[n].tenant, n, refs(n), data(n)) ]
           sql == Statements(t)
<1>1. sql = [ n \in DOMAIN items |-> Statement(t, <<row[n]>>) ]
  BY DEF Statements, workorder_sql, Numerate
<1>2. \A n \in DOMAIN items :
          /\ items[n].tenant \in Range(TenantIds)
          /\ \A ref \in refs(n) : /\ ref[1] \in {"tenants", "assets", "asset_components"}
                                  /\ ref[2] \in Keys(ref[1])
  BY SlotFinds
<1> HIDE DEF items, data, refs
<1>3. ASSUME NEW n \in DOMAIN items
      PROVE  /\ row[n].key = Key(items[n].tenant, n)
             /\ FindsAll(row[n]) /\ \A ref \in row[n].refs : ref[1] # t
  <2>1. row[n] = Row(items[n].tenant, n, refs(n), data(n))
    OBVIOUS
  <2> HIDE DEF row
  <2>2. /\ row[n].key = Key(items[n].tenant, n) /\ FindsAll(row[n])
        /\ \A ref \in row[n].refs : ref[1] = "tenants" \/ ref \in refs(n)
    BY <1>2, <2>1, RowFinds
  <2> QED
    BY <1>2, <2>2
<1>4. Wanted(t) = { Key(items[n].tenant, n) : n \in DOMAIN items }
  BY DEF Wanted, Numbers, items
<1> HIDE DEF row, sql
<1>5. Wanted(t) = { row[n].key : n \in { j \in DOMAIN items : FindsAll(row[j]) } }
  BY <1>3, <1>4
<1>6. db[t] = <<>> /\ t \notin Taxonomy
  BY DEF Taxonomy
<1>7. \A n \in DOMAIN items : \A ref \in row[n].refs : ref[1] # t
  BY <1>3
<1> HIDE DEF t
<1>8. Singles(t, items, row, sql)
  BY <1>1, <1>5, <1>7 DEF Singles
<1>9. Pending(t, sql)
  BY <1>6, <1>8, SinglesPending
<1> QED
  BY <1>9 DEF sql, t

\* Every maintenance is of a work order that is stored.
LEMMA MaintenancePending ==
    ASSUME ReferenceInv, NumbersInv, Keys("tenants") = Wanted("tenants"),
           Keys("workorder") = Wanted("workorder"), db["maintenance"] = <<>>
    PROVE  Pending("maintenance", Statements("maintenance"))
<1> DEFINE t == "maintenance"
           items == Slots
           refs(n) == items[n].place \union {<<"workorder", Key(items[n].tenant, n)>>}
           data(n) == Key(items[n].tenant, n)
           row == [ n \in DOMAIN items |-> Row(items[n].tenant, n, refs(n), data(n)) ]
           sql == Statements(t)
<1>1. sql = [ n \in DOMAIN items |-> Statement(t, <<row[n]>>) ]
  BY DEF Statements, maintenance_sql, Numerate
<1>2. \A n \in DOMAIN items :
          /\ items[n].tenant \in Range(TenantIds)
          /\ \A ref \in items[n].place :
                 /\ ref[1] \in {"tenants", "assets", "asset_components"}
                 /\ ref[2] \in Keys(ref[1])
  BY SlotFinds
<1>3. \A n \in DOMAIN items : Key(items[n].tenant, n) \in Keys("workorder")
  BY DEF Wanted, Numbers
<1> HIDE DEF items, data
<1>4. \A n \in DOMAIN items : \A ref \in refs(n) : ref[1] # t /\ ref[2] \in Keys(ref[1])
  BY <1>2, <1>3
<1> HIDE DEF refs
<1>5. ASSUME NEW n \in DOMAIN items
      PROVE  /\ row[n].key = Key(items[n].tenant, n)
             /\ FindsAll(row[n]) /\ \A ref \in row[n].refs : ref[1] # t
  <2>1. row[n] = Row(items[n].tenant, n, refs(n), data(n))
    OBVIOUS
  <2> HIDE DEF row
  <2>2. /\ row[n].key = Key(items[n].tenant, n) /\ FindsAll(row[n])
        /\ \A ref \in row[n].refs : ref[1] = "tenants" \/ ref \in refs(n)
    BY <1>2, <1>4, <2>1, RowFinds
  <2> QED
    BY <1>4, <2>2
<1>6. Wanted(t) = { Key(items[n].tenant, n) : n \in DOMAIN items }
  BY DEF Wanted, Numbers, items
<1> HIDE DEF row, sql
<1>7. Wanted(t) = { row[n].key : n \in { j \in DOMAIN items : FindsAll(row[j]) } }
  BY <1>5, <1>6
<1>8. db[t] = <<>> /\ t \notin Taxonomy
  BY DEF Taxonomy
<1>9. \A n \in DOMAIN items : \A ref \in row[n].refs : ref[1] # t
  BY <1>5
<1> HIDE DEF t
<1>10. Singles(t, items, row, sql)
  BY <1>1, <1>7, <1>9 DEF Singles
<1>11. Pending(t, sql)
  BY <1>8, <1>10, SinglesPending
<1> QED
  BY <1>11 DEF sql, t

\* The second event of a component names no failure mode, and is never refused.
LEMMA SomeEvent ==
    ASSUME ReferenceInv, Keys("asset_components") = Wanted("asset_components")
    PROVE  \E n \in DOMAIN Slots : OwnMode(Slots[n])
<1> DEFINE m == TagMetadata[1]
           tenant == m.tenant
           heap == db["asset_components"]
           comps == ComponentsOf(tenant)
<1>1. m \in Range(TagMetadata)
  <2>1. TagMetadata \in Seq(Range(TagMetadata)) /\ TagMetadata # <<>>
    BY ConfigurationAssumption, LoadableAssumption
  <2> QED
    BY <2>1
<1>2. tenant \in Range(TenantIds)
  BY <1>1, LoadableAssumption
<1>3. Key(m.tenant, m.component) \in Keys("asset_components")
  BY <1>1 DEF Wanted
<1> HIDE DEF m
<1>4. PICK i \in DOMAIN heap : heap[i].key[1] = tenant
  BY <1>3 DEF Keys, Range, Key
<1>5. Listed(heap)
  BY TableNames DEF ReferenceInv
<1> DEFINE own == { k \in DOMAIN heap : heap[k].key[1] = tenant }
<1>6. comps = Picked(heap, own) /\ i \in own
  BY <1>4 DEF ComponentsOf
<1> HIDE DEF own, comps, heap, tenant
<1>7. Listed(comps) /\ heap[i] \in Range(comps)
  BY <1>4, <1>5, <1>6, PickedProperties, PickedItems
<1>8. 1 \in DOMAIN comps
  <2>1. DOMAIN comps = 1 .. Len(comps) /\ Len(comps) \in Nat
    BY <1>7 DEF Listed
  <2> QED
    BY <1>7, <2>1 DEF Range
<1> DEFINE second == [ tenant |-> tenant,
                       place |-> comps[1].refs
                                   \union {<<"asset_components", comps[1].key>>},
                       index |-> 1 ]
<1>10. second \in Range(SlotsOf(tenant))
  <2> DEFINE slot(c, e) == [ tenant |-> tenant,
                             place |-> comps[c].refs
                                         \union {<<"asset_components", comps[c].key>>},
                             index |-> (c - 1) * num_events(comps[c]) + e - 1 ]
             of(c) == [ e \in 1 .. num_events(comps[c]) |-> slot(c, e) ]
             parts == [ c \in DOMAIN comps |-> of(c) ]
             S == UNION { Range(of(c)) : c \in DOMAIN comps }
  <2>1. SlotsOf(tenant) = FlattenSeq(parts)
    BY DEF SlotsOf, comps
  <2>2. \A x : num_events(x) \in {2, 3}
    BY DEF num_events
  <2>3. slot(1, 2) = second
    <3>1. (1 - 1) * num_events(comps[1]) + 2 - 1 = 1
      <4>1. num_events(comps[1]) \in Int
        BY <2>2
      <4> HIDE DEF parts, of, slot, second
      <4> QED
        BY <4>1
    <3> QED
      BY <3>1
  <2> HIDE DEF slot, second
  <2>4. second \in Range(of(1))
    <3>1. 2 \in 1 .. num_events(comps[1])
      BY <2>2
    <3>2. of(1)[2] = second /\ 2 \in DOMAIN of(1)
      BY <2>3, <3>1
    <3> HIDE DEF of
    <3> QED
      BY <3>2 DEF Range
  <2>5. ASSUME NEW c \in DOMAIN comps PROVE of(c) \in Seq(S)
    <3>1. DOMAIN of(c) = 1 .. num_events(comps[c]) /\ num_events(comps[c]) \in Nat
      BY <2>2
    <3>2. \A e \in 1 .. num_events(comps[c]) : of(c)[e] \in Range(of(c))
      BY <3>1 DEF Range
    <3>3. of(c) = [ e \in 1 .. num_events(comps[c]) |-> of(c)[e] ]
      OBVIOUS
    <3>4. \A e \in 1 .. num_events(comps[c]) : of(c)[e] \in S
      BY <3>2
    <3> HIDE DEF of, S
    <3> QED
      BY <3>1, <3>3, <3>4
  <2> HIDE DEF of, S
  <2>6. DOMAIN comps = 1 .. Len(comps) /\ Len(comps) \in Nat
    BY <1>7 DEF Listed
  <2>7. /\ parts \in Seq(Seq(S)) /\ Len(parts) = Len(comps)
        /\ 1 \in 1 .. Len(parts) /\ parts[1] = of(1)
    BY <1>8, <2>5, <2>6
  <2> HIDE DEF parts
  <2>8. Range(FlattenSeq(parts)) = UNION { Range(parts[c]) : c \in 1 .. Len(parts) }
    BY <2>7, FlattenProperties
  <2> QED
    BY <2>1, <2>4, <2>7, <2>8
<1>11. second.index = 1
  OBVIOUS
<1> HIDE DEF second
<1>12. second \in Range(Slots)
  <2> DEFINE parts == [ j \in DOMAIN TenantIds |-> SlotsOf(TenantIds[j]) ]
  <2>1. /\ DOMAIN TenantIds = 1 .. Len(TenantIds) /\ Len(TenantIds) \in Nat
        /\ \A j \in DOMAIN TenantIds : TenantIds[j] \in Range(TenantIds)
    BY ConfigurationAssumption DEF Range
  <2>2. \A j \in DOMAIN TenantIds : SlotsOf(TenantIds[j]) \in Seq(SlotSet)
    BY <1>5, <2>1, SlotsOfTenant DEF heap
  <2>3. PICK j \in DOMAIN TenantIds : tenant = TenantIds[j]
    BY <1>2 DEF Range
  <2>4. /\ parts \in Seq(Seq(SlotSet)) /\ j \in 1 .. Len(parts)
        /\ parts[j] = SlotsOf(tenant)
    BY <2>1, <2>2, <2>3
  <2>5. Slots = FlattenSeq(parts)
    BY DEF Slots
  <2> HIDE DEF parts
  <2>6. Range(FlattenSeq(parts)) = UNION { Range(parts[k]) : k \in 1 .. Len(parts) }
    BY <2>4, FlattenProperties
  <2> QED
    BY <1>10, <2>4, <2>5, <2>6
<1>13. PICK n \in DOMAIN Slots : Slots[n] = second
  BY <1>12 DEF Range
<1>14. OwnMode(Slots[n])
  BY <1>11, <1>13 DEF OwnMode, mode_ref
<1> QED
  BY <1>14

\* The order of the tables.
LEMMA FollowingPlace ==
    /\ DOMAIN Tables = 1 .. 12
    /\ \A k \in 1 .. 12 : /\ Tables[k] \in TableSet
                          /\ Following(Tables[k]) = IF k = 12 THEN "backfill"
                                                              ELSE Tables[k + 1]
    /\ \A i, j \in 1 .. 12 : Tables[i] = Tables[j] => i = j
    /\ \A t \in TableSet : \E k \in 1 .. 12 : t = Tables[k]
<1>1. DOMAIN Tables = 1 .. 12 /\ Len(Tables) = 12
  BY DEF Tables
<1>2. \A i, j \in 1 .. 12 : Tables[i] = Tables[j] => i = j
  BY DEF Tables
<1>3. /\ \A k \in 1 .. 12 : Tables[k] \in TableSet
      /\ \A t \in TableSet : \E k \in 1 .. 12 : t = Tables[k]
  BY <1>1 DEF TableSet, Range
<1>4. ASSUME NEW k \in 1 .. 12
      PROVE  Following(Tables[k]) = IF k = 12 THEN "backfill" ELSE Tables[k + 1]
  <2> DEFINE at == CHOOSE i \in DOMAIN Tables : Tables[i] = Tables[k]
  <2>1. at \in 1 .. 12 /\ Tables[at] = Tables[k]
    BY <1>1
  <2>2. Following(Tables[k]) = IF at = Len(Tables) THEN "backfill" ELSE Tables[at + 1]
    BY DEF Following
  <2> HIDE DEF at
  <2> QED
    BY <1>1, <1>2, <2>1, <2>2
<1> QED
  BY <1>1, <1>2, <1>3, <1>4

\* The tables by name.
LEMMA TablesInOrder ==
    /\ Tables[1] = "tenants" /\ Tables[2] = "assets" /\ Tables[3] = "asset_components"
    /\ Tables[4] = "asset_signal_tags_mapping" /\ Tables[5] = Domains
    /\ Tables[6] = Classes /\ Tables[7] = Modes /\ Tables[8] = "apm_anomaly_rule"
    /\ Tables[9] = "apm_threshold_profile" /\ Tables[10] = "apm_failureevent"
    /\ Tables[11] = "workorder" /\ Tables[12] = "maintenance"
BY DEF Tables, Domains, Classes, Modes

\* What a table should hold depends on the components and the modes alone.
LEMMA WantedKept ==
    ASSUME NEW t, t \in Numerated => db'["asset_components"] = db["asset_components"],
           t = Events => db'[Modes] = db[Modes]
    PROVE  Wanted(t)' = Wanted(t)
<1>1. CASE t \in Numerated
  <2>1. Slots' = Slots
    BY <1>1, SlotsKept
  <2>2. \A S : Numbers(S)' = Numbers(S)
    BY <2>1 DEF Numbers
  <2>3. t = Events => \A slot : OwnMode(slot)' = OwnMode(slot)
    BY DEF OwnMode, Keys, mode_ref, Modes
  <2>4. CASE t = Events
    <3> DEFINE own == { n \in DOMAIN Slots : OwnMode(Slots[n]) }
    <3>1. own' = own
      BY <2>1, <2>3, <2>4
    <3>2. Wanted(t) = Numbers(own) /\ Wanted(t)' = Numbers(own)'
      BY <2>4 DEF Wanted, Events
    <3>3. Numbers(own)' = Numbers(own)
      BY <2>1, <3>1 DEF Numbers
    <3> QED
      BY <3>2, <3>3
  <2>5. CASE t # Events
    <3>1. Wanted(t) = Numbers(DOMAIN Slots) /\ Wanted(t)' = Numbers(DOMAIN Slots)'
      BY <1>1, <2>5 DEF Wanted, Numerated, Events
    <3>2. Numbers(DOMAIN Slots)' = Numbers(DOMAIN Slots)
      BY <2>1 DEF Numbers
    <3> QED
      BY <3>1, <3>2
  <2> QED
    BY <2>4, <2>5
<1>2. CASE t \notin Numerated
  BY <1>2 DEF Wanted, Numerated, Events
<1> QED
  BY <1>1, <1>2

\* A table is as full as it was, if what it is measured by is the same.
LEMMA FilledKept ==
    ASSUME NEW t, db'[t] = db[t], Filled(t),
           t \in Numerated => db'["asset_components"] = db["asset_components"],
           t = Events => db'[Modes] = db[Modes]
    PROVE  Filled(t)'
<1>1. Wanted(t)' = Wanted(t)
  BY WantedKept
<1>2. Keys(t)' = Keys(t)
  BY DEF Keys
<1> QED
  BY <1>1, <1>2 DEF Filled, Codes, DomainCodes, ClassCodes

\* What is generated for the next table makes it full.
LEMMA NextTablePending ==
    ASSUME ReferenceInv, TaxonomyInv, NumbersInv, NEW k \in 2 .. 12,
           \A i \in 1 .. 12 : i < k => Filled(Tables[i]),
           db[Tables[k]] = <<>>
    PROVE  Pending(Tables[k], Statements(Tables[k]))
<1>1. Taxonomy = {Domains, Classes, Modes}
  BY DEF Taxonomy, Domains, Classes, Modes
<1>2. \A i \in 1 .. 12 : i < k =>
          IF i \in 5 .. 7 THEN db[Tables[i]] # <<>> ELSE Keys(Tables[i]) = Wanted(Tables[i])
  <2> SUFFICES ASSUME NEW i \in 1 .. 12, i < k
               PROVE  IF i \in 5 .. 7 THEN db[Tables[i]] # <<>>
                                      ELSE Keys(Tables[i]) = Wanted(Tables[i])
    OBVIOUS
  <2>1. i \in 5 .. 7 <=> Tables[i] \in Taxonomy
    BY <1>1, TablesInOrder, FollowingPlace
  <2> QED
    BY <2>1 DEF Filled
<1>3. Keys("tenants") = Wanted("tenants")
  BY <1>2, TablesInOrder
<1>4. CASE k = 2
  BY <1>3, <1>4, TablesInOrder, AssetsPending
<1>5. CASE k = 3
  <2>1. Keys("assets") = Wanted("assets")
    BY <1>2, <1>5, TablesInOrder
  <2> QED
    BY <1>3, <1>5, <2>1, TablesInOrder, ComponentsPending
<1>6. CASE k = 4
  <2>1. /\ Keys("assets") = Wanted("assets")
        /\ Keys("asset_components") = Wanted("asset_components")
    BY <1>2, <1>6, TablesInOrder
  <2> QED
    BY <1>3, <1>6, <2>1, TablesInOrder, MappingPending
<1>7. CASE k = 5
  BY <1>3, <1>7, TablesInOrder, DomainsPending
<1>8. CASE k = 6
  <2>1. db[Domains] # <<>>
    BY <1>2, <1>8, TablesInOrder
  <2> QED
    BY <1>3, <1>8, <2>1, TablesInOrder, ClassesPending
<1>9. CASE k = 7
  <2>1. db[Classes] # <<>>
    BY <1>2, <1>9, TablesInOrder
  <2> QED
    BY <1>3, <1>9, <2>1, TablesInOrder, ModesPending
<1>10. CASE k = 8
  BY <1>3, <1>10, TablesInOrder, RulesPending
<1>11. CASE k = 9
  <2>1. Keys("apm_anomaly_rule") = Wanted("apm_anomaly_rule")
    BY <1>2, <1>11, TablesInOrder
  <2> QED
    BY <1>3, <1>11, <2>1, TablesInOrder, ProfilesPending
<1>12. CASE k = 10
  BY <1>3, <1>12, TablesInOrder, EventsPending
<1>13. CASE k = 11
  BY <1>3, <1>13, TablesInOrder, WorkordersPending
<1>14. CASE k = 12
  <2>1. Keys("workorder") = Wanted("workorder")
    BY <1>2, <1>14, TablesInOrder
  <2> QED
    BY <1>3, <1>14, <2>1, TablesInOrder, MaintenancePending
<1> QED
  BY <1>4, <1>5, <1>6, <1>7, <1>8, <1>9, <1>10, <1>11, <1>12, <1>13, <1>14

\* A statement executed, or refused, leaves the same keys to be had.
LEMMA ExecutePending ==
    ASSUME ReferenceInv, Execute, NEW t, step = t, Pending(t, script)
    PROVE  /\ Pending(t, script)'
           /\ \A u \in TableSet \ {t} : db'[u] = db[u]
<1> DEFINE s == Head(script)
<1>1. /\ script # <<>> /\ t \in TableSet
      /\ db' = IF Accepted(s) THEN [db EXCEPT ![s.table] = @ \o s.rows] ELSE db
      /\ script' = Tail(script)
  BY DEF Execute, ReferenceInv
<1>2. s \in Range(script) /\ Listed(script) /\ StatementFor(t, s)
  BY <1>1, TailOf DEF ReferenceInv
<1>3. s.table = t /\ Listed(s.rows)
  BY <1>2 DEF StatementFor
<1>4. db = [ u \in TableSet |-> db[u] ] /\ Listed(db[t])
  BY <1>1 DEF ReferenceInv
<1>5. \A u \in TableSet \ {t} : db'[u] = db[u]
  BY <1>1, <1>3, <1>4
<1>6. Accepted(s) => db'[t] = db[t] \o s.rows
  BY <1>1, <1>3, <1>4
<1>7. ~Accepted(s) => db' = db
  BY <1>1
<1>8. Accepted(s) <=> \A r \in Range(s.rows) : r.key \notin Keys(t) /\ FindsAll(r)
  BY <1>3 DEF Accepted, FindsAll
<1>9. CASE t \in Taxonomy
  <2>1. PICK rows : /\ script = << Statement(t, rows) >> /\ db[t] = <<>>
                    /\ rows # <<>> /\ Len(rows) = Codes(t) * Len(TenantIds)
                    /\ \A r \in Range(rows) : FindsAll(r)
    BY <1>1, <1>9 DEF Pending
  <2>2. s = Statement(t, rows) /\ script' = <<>>
    BY <1>1, <2>1
  <2> HIDE DEF s
  <2>3. s.rows = rows /\ Keys(t) = {}
    BY <2>1, <2>2 DEF Statement, Keys, Range
  <2>4. db'[t] = rows
    <3>1. Accepted(s)
      BY <1>8, <2>1, <2>3
    <3>2. <<>> \o rows = rows
      BY <1>3, <2>3 DEF Listed
    <3> QED
      BY <1>6, <2>1, <2>3, <3>1, <3>2
  <2>5. Pending(t, script)'
    BY <1>9, <2>1, <2>2, <2>4 DEF Pending, Filled, Codes, DomainCodes, ClassCodes
  <2> QED
    BY <1>5, <2>5
<1>10. CASE t \notin Taxonomy
  <2>1. /\ Keys(t) \union Due(script) = Wanted(t)
        /\ \A q \in Range(script) : OneOfItsOwn(t, q)
    BY <1>10 DEF Pending
  <2>2. PICK r : s.rows = <<r>> /\ \A ref \in r.refs : ref[1] # t
    BY <1>2, <2>1 DEF OneOfItsOwn
  <2>3. Range(<<r>>) = {r}
    BY DEF Range
  <2>4. Range(s.rows) = {r} /\ NamesTables(r)
    BY <1>2, <2>2, <2>3 DEF StatementFor
  <2>5. /\ Range(script') \subseteq Range(script)
        /\ Range(script) = Range(script') \union {s}
    <3>1. script \in Seq(Range(script))
      BY <1>2 DEF Listed
    <3>2. \A x \in Range(script) : x = Head(script) \/ x \in Range(Tail(script))
      <4> SUFFICES ASSUME NEW i \in DOMAIN script
                   PROVE  script[i] = Head(script) \/ script[i] \in Range(Tail(script))
        BY DEF Range
      <4>1. /\ DOMAIN script = 1 .. Len(script) /\ DOMAIN Tail(script) = 1 .. Len(script) - 1
            /\ Len(script) \in Nat
            /\ \A j \in 1 .. Len(script) - 1 : Tail(script)[j] = script[j + 1]
        BY <1>1, <3>1
      <4>2. CASE i = 1
        BY <4>2
      <4>3. CASE i # 1
        <5>1. i - 1 \in 1 .. Len(script) - 1 /\ (i - 1) + 1 = i
          BY <4>1, <4>3
        <5>2. Tail(script)[i - 1] = script[i]
          BY <4>1, <5>1
        <5> QED
          BY <4>1, <5>1, <5>2 DEF Range
      <4> QED
        BY <4>2, <4>3
    <3>3. Range(Tail(script)) \subseteq Range(script)
      BY <1>1, <1>2, TailOf
    <3> QED
      BY <1>1, <1>2, <3>2, <3>3
  <2> HIDE DEF s
  \* Statements refer to other tables, which are as they were.
  <2>6. \A u \in TableSet \ {t} : Keys(u)' = Keys(u)
    BY <1>5 DEF Keys
  <2>7. ASSUME NEW q \in Range(script), NEW x \in Range(q.rows)
        PROVE  FindsAll(x)' <=> FindsAll(x)
    <3>1. PICK y : q.rows = <<y>> /\ \A ref \in y.refs : ref[1] # t
      BY <2>1, <2>7 DEF OneOfItsOwn
    <3>2. x = y
      BY <2>7, <3>1 DEF Range
    <3>3. NamesTables(x)
      BY <2>7 DEF ReferenceInv, StatementFor
    <3>4. \A ref \in x.refs : ref[1] \in TableSet \ {t}
      BY <3>1, <3>2, <3>3 DEF NamesTables
    <3>5. \A ref \in x.refs : Keys(ref[1])' = Keys(ref[1])
      BY <2>6, <3>4
    <3> QED
      BY <3>5 DEF FindsAll
  <2> DEFINE due == { x.key : x \in { y \in UNION { Range(q.rows) : q \in Range(script') }
                                      : FindsAll(y) } }
             own == IF FindsAll(r) THEN {r.key} ELSE {}
  <2>8. Due(script) = due \union own
    <3>1. UNION { Range(q.rows) : q \in Range(script) }
            = (UNION { Range(q.rows) : q \in Range(script') }) \union {r}
      BY <2>4, <2>5
    <3> DEFINE rest == UNION { Range(q.rows) : q \in Range(script') }
               all == UNION { Range(q.rows) : q \in Range(script) }
    <3>2. /\ Due(script) = { x.key : x \in { y \in all : FindsAll(y) } }
          /\ due = { x.key : x \in { y \in rest : FindsAll(y) } }
          /\ all = rest \union {r}
      BY <3>1 DEF Due
    <3> HIDE DEF rest, all, due
    <3> QED
      BY <3>2
  <2>9. Due(script)' = due
    <3>1. Due(script)' = { x.key : x \in { y \in UNION { Range(q.rows) : q \in Range(script') }
                                           : FindsAll(y)' } }
      BY DEF Due
    <3>2. \A y \in UNION { Range(q.rows) : q \in Range(script') } :
              FindsAll(y)' <=> FindsAll(y)
      BY <2>5, <2>7
    <3> QED
      BY <3>1, <3>2
  <2> HIDE DEF due
  <2>10. Keys(t)' = Keys(t) \union own
    <3>1. CASE Accepted(s)
      <4>1. FindsAll(r)
        BY <1>8, <2>4, <3>1
      <4>2. Range(db'[t]) = Range(db[t]) \union {r}
        BY <1>3, <1>4, <1>6, <2>4, <3>1, ListedConcat
      <4> QED
        BY <4>1, <4>2 DEF Keys
    <3>2. CASE ~Accepted(s)
      <4>1. r.key \in Keys(t) \/ ~FindsAll(r)
        BY <1>8, <2>4, <3>2
      <4>2. Keys(t)' = Keys(t)
        BY <1>7, <3>2 DEF Keys
      <4> QED
        BY <4>1, <4>2
    <3> QED
      BY <3>1, <3>2
  <2> HIDE DEF own
  <2>11. Wanted(t)' = Wanted(t)
    <3>1. t \in Numerated => db'["asset_components"] = db["asset_components"]
      BY <1>5, TableNames DEF Numerated, Events
    <3>2. t = Events => db'[Modes] = db[Modes]
      BY <1>5, TableNames DEF Events, Modes
    <3> QED
      BY <3>1, <3>2, WantedKept
  <2>12. Keys(t)' \union Due(script)' = Wanted(t)'
    BY <2>1, <2>8, <2>9, <2>10, <2>11
  <2>13. \A q \in Range(script') : OneOfItsOwn(t, q)
    BY <2>1, <2>5
  <2>14. Pending(t, script)'
    BY <1>10, <2>12, <2>13 DEF Pending, OneOfItsOwn
  <2> QED
    BY <1>5, <2>14
<1> QED
  BY <1>9, <1>10

\* Nothing is loaded yet but the tenants.
LEMMA InitFirstRunInv == Init => FirstRunInv
<1> SUFFICES ASSUME Init PROVE FirstRunInv
  OBVIOUS
<1> DEFINE rows == [ i \in DOMAIN TenantIds |-> TenantRow(TenantIds[i]) ]
<1>1. /\ db["tenants"] = rows /\ \A t \in TableSet \ {"tenants"} : db[t] = <<>>
      /\ step = "idle" /\ ~inserting /\ runs = 0 /\ interrupts = 0 /\ ~complete
  BY TableNames DEF Init
<1>2. /\ DOMAIN rows = DOMAIN TenantIds
      /\ \A i \in DOMAIN TenantIds : rows[i].key = Key(TenantIds[i], TenantIds[i])
  BY DEF TenantRow
<1>3. db["tenants"] = rows
  BY <1>1
<1> HIDE DEF rows
<1>4. Keys("tenants") = { rows[i].key : i \in DOMAIN TenantIds }
  BY <1>2, <1>3 DEF Keys, Range
<1>5. Wanted("tenants") = { Key(TenantIds[i], TenantIds[i]) : i \in DOMAIN TenantIds }
  BY DEF Wanted, Range
<1>6. Keys("tenants") = Wanted("tenants")
  BY <1>2, <1>4, <1>5
<1>7. Filled("tenants")
  BY <1>6 DEF Filled, Taxonomy
<1> QED
  BY <1>1, <1>7 DEF FirstRunInv

\* A step of the load that leaves the tables alone.
LEMMA FilledUnchanged ==
    ASSUME db' = db, NEW t, Filled(t)
    PROVE  Filled(t)'
BY FilledKept

\* A list that is not empty has an item.
LEMMA SomeItem ==
    ASSUME NEW items, items \in Seq(Range(items)), items # <<>>
    PROVE  \E x : x \in Range(items)
<1> DEFINE R == Range(items)
<1>1. items \in Seq(R)
  OBVIOUS
<1> HIDE DEF R
<1>2. Head(items) \in R
  BY <1>1
<1> QED
  BY <1>2 DEF R

\* A table that is full has rows.
LEMMA FilledNotEmpty ==
    ASSUME ReferenceInv, \A t \in TableSet : Filled(t), NEW t \in TableSet
    PROVE  db[t] # <<>>
<1>1. CASE t \in Taxonomy
  BY <1>1 DEF Filled
<1>2. CASE t \notin Taxonomy
  <2> SUFFICES ASSUME db[t] = <<>> PROVE FALSE
    OBVIOUS
  <2>1. Keys(t) = {} /\ Keys(t) = Wanted(t)
    BY <1>2 DEF Filled, Keys, Range
  <2>2. /\ \E x : x \in Range(TenantIds)
        /\ \E a : a \in Range(Assets)
        /\ \E m : m \in Range(TagMetadata)
        /\ \E p : p \in Range(Profiles) /\ p \in Range(Rules)
    <3>1. /\ TenantIds \in Seq(Range(TenantIds)) /\ TenantIds # <<>>
          /\ Assets \in Seq(Range(Assets)) /\ Assets # <<>>
          /\ TagMetadata \in Seq(Range(TagMetadata)) /\ TagMetadata # <<>>
          /\ Profiles \in Seq(Range(Profiles)) /\ Profiles # <<>>
      BY ConfigurationAssumption, LoadableAssumption
    <3> QED
      BY <3>1, SomeItem, LoadableAssumption
  <2>3. PICK n \in DOMAIN Slots : OwnMode(Slots[n])
    <3>1. Keys("asset_components") = Wanted("asset_components")
      BY TableNames DEF Filled, Taxonomy
    <3> QED
      BY <3>1, SomeEvent
  <2>4. t \in {"tenants", "assets", "asset_components", "asset_signal_tags_mapping",
               "apm_anomaly_rule", "apm_threshold_profile", "apm_failureevent",
               "workorder", "maintenance"}
    BY <1>2, TableNames DEF Taxonomy
  <2>5. Wanted(t) # {}
    <3>1. CASE t = "tenants"
      BY <2>2, <3>1 DEF Wanted
    <3>2. CASE t = "assets"
      BY <2>2, <3>2 DEF Wanted
    <3>3. CASE t = "asset_components"
      BY <2>2, <3>3 DEF Wanted
    <3>4. CASE t = "asset_signal_tags_mapping"
      BY <2>2, <3>4 DEF Wanted
    <3>5. CASE t = "apm_anomaly_rule"
      <4>1. PICK x, p : x \in Range(TenantIds) /\ p \in Range(Rules)
        BY <2>2
      <4>2. <<x, p>> \in Range(TenantIds) \X Range(Rules)
        BY <4>1
      <4> QED
        BY <3>5, <4>2 DEF Wanted
    <3>6. CASE t = "apm_threshold_profile"
      <4>1. PICK x, p : x \in Range(TenantIds) /\ p \in Range(Profiles)
        BY <2>2
      <4>2. <<x, p>> \in Range(TenantIds) \X Range(Profiles)
        BY <4>1
      <4> QED
        BY <3>6, <4>2 DEF Wanted
    <3>7. CASE t = "apm_failureevent"
      BY <2>3, <3>7 DEF Wanted, Numbers
    <3>8. CASE t \in {"workorder", "maintenance"}
      BY <2>3, <3>8 DEF Wanted, Numbers
    <3> QED
      BY <2>4, <3>1, <3>2, <3>3, <3>4, <3>5, <3>6, <3>7, <3>8
  <2> QED
    BY <2>1, <2>5
<1> QED
  BY <1>1, <1>2

\* The load goes on to the next table.
LEMMA NextTable ==
    ASSUME NEW k \in 1 .. 12, LoadingAt(k), db' = db, ~inserting',
           step' = Following(Tables[k]), Filled(Tables[k])
    PROVE  LoadingAt(k + 1)'
<1>1. \A i \in 1 .. 12 : i < k + 1 => Filled(Tables[i])
  <2>1. \A i \in 1 .. 12 : i < k + 1 => i < k \/ i = k
    OBVIOUS
  <2> QED
    BY <2>1 DEF LoadingAt
<1>2. \A i \in 1 .. 12 : i < k + 1 => Filled(Tables[i])'
  BY <1>1, FilledUnchanged
<1>3. \A i \in 1 .. 12 : i > k => db'[Tables[i]] = <<>>
  BY DEF LoadingAt
<1>4. \A i \in 1 .. 12 : i > k + 1 => db'[Tables[i]] = <<>>
  <2>1. \A i \in 1 .. 12 : i > k + 1 => i > k
    OBVIOUS
  <2> QED
    BY <1>3, <2>1
<1>5. CASE k = 12
  <2>1. k + 1 = 13 /\ step' = "backfill"
    BY <1>5, FollowingPlace
  <2> QED
    BY <1>2, <1>4, <2>1 DEF LoadingAt
<1>6. CASE k # 12
  <2>1. k + 1 \in 2 .. 12 /\ k + 1 # 13 /\ k + 1 > k
    BY <1>6
  <2>2. step' = Tables[k + 1] /\ db'[Tables[k + 1]] = <<>>
    BY <1>3, <1>6, <2>1, FollowingPlace
  <2>3. Tables[k + 1] # "tenants"
    <3>1. k + 1 # 1 /\ k + 1 \in 1 .. 12 /\ 1 \in 1 .. 12
      BY <2>1
    <3> QED
      BY <3>1, FollowingPlace, TablesInOrder
  <2>4. Underway(Tables[k + 1])'
    BY <2>2, <2>3 DEF Underway
  <2> QED
    BY <1>2, <1>4, <2>1, <2>2, <2>4 DEF LoadingAt
<1> QED
  BY <1>5, <1>6

\* What is to be had is the same for an unchanged database.
LEMMA PendingUnchanged ==
    ASSUME db' = db, NEW t, NEW sql, Pending(t, sql), script' = sql
    PROVE  Pending(t, script)'
<1>1. Wanted(t)' = Wanted(t)
  BY WantedKept
<1>2. \A u : Keys(u)' = Keys(u)
  BY DEF Keys
<1>3. \A r : FindsAll(r)' <=> FindsAll(r)
  BY <1>2 DEF FindsAll
<1>4. Filled(t) => Filled(t)'
  BY FilledUnchanged
<1>5. Due(script)' = Due(sql)
  <2>1. Due(script)' = { r.key : r \in { q \in UNION { Range(s.rows) : s \in Range(sql) }
                                         : FindsAll(q)' } }
    BY DEF Due
  <2> QED
    BY <1>3, <2>1 DEF Due
<1>6. CASE t \in Taxonomy
  <2>1. CASE sql = <<>> /\ Filled(t)
    <3>1. script' = <<>> /\ Filled(t)'
      BY <1>4, <2>1
    <3> QED
      BY <1>6, <3>1 DEF Pending
  <2>2. CASE ~(sql = <<>> /\ Filled(t))
    <3>1. db[t] = <<>>
      BY <1>6, <2>2 DEF Pending
    <3>2. PICK rows : /\ sql = << Statement(t, rows) >>
                      /\ rows # <<>> /\ Len(rows) = Codes(t) * Len(TenantIds)
                      /\ \A r \in Range(rows) : FindsAll(r)
      BY <1>6, <2>2 DEF Pending
    <3>3. \A r \in Range(rows) : FindsAll(r)'
      BY <1>3, <3>2
    <3>4. script' = << Statement(t, rows) >> /\ db'[t] = <<>>
      BY <3>1, <3>2
    <3> QED
      BY <1>6, <3>2, <3>3, <3>4 DEF Pending, Codes, DomainCodes, ClassCodes
  <2> QED
    BY <2>1, <2>2
<1>7. CASE t \notin Taxonomy
  <2>1. /\ Keys(t) \union Due(sql) = Wanted(t)
        /\ \A s \in Range(sql) : OneOfItsOwn(t, s)
    BY <1>7 DEF Pending
  <2>2. Keys(t)' \union Due(script)' = Wanted(t)'
    BY <1>1, <1>2, <1>5, <2>1
  <2>3. \A s \in Range(script') : OneOfItsOwn(t, s)
    BY <2>1
  <2> QED
    BY <1>7, <2>2, <2>3 DEF Pending, OneOfItsOwn
<1> QED
  BY <1>6, <1>7

\* With nothing left to be executed the table is full.
LEMMA PendingNothing ==
    ASSUME NEW t, Pending(t, <<>>)
    PROVE  Filled(t)
<1>1. Range(<<>>) = {}
  BY DEF Range
<1>2. CASE t \in Taxonomy
  <2>1. \A rows : <<>> # << Statement(t, rows) >>
    OBVIOUS
  <2> QED
    BY <1>2, <2>1 DEF Pending
<1>3. CASE t \notin Taxonomy
  <2>1. Due(<<>>) = {}
    BY <1>1 DEF Due
  <2>2. Keys(t) \union Due(<<>>) = Wanted(t)
    BY <1>3 DEF Pending
  <2> QED
    BY <1>3, <2>1, <2>2 DEF Filled
<1> QED
  BY <1>2, <1>3

\* A load that is at a table is inserting into it, or about to.
LEMMA LoadingTable ==
    ASSUME ReferenceInv, NEW k \in 1 .. 13, LoadingAt(k)
    PROVE  /\ k = 13 => step \in {"backfill", "report"} /\ ~inserting
           /\ step \in TableSet => k # 13
           /\ k # 13 => step \in TableSet /\ step = Tables[k] /\ Underway(Tables[k])
           /\ k = 1 => step = "tenants" /\ ~inserting /\ Filled("tenants")
           /\ k \notin {1, 13} => k \in 2 .. 12 /\ Tables[k] # "tenants"
           /\ step # "idle"
<1>1. k # 13 => step \in TableSet /\ step = Tables[k] /\ Underway(Tables[k])
  BY FollowingPlace DEF LoadingAt
<1>2. k = 13 => step \in {"backfill", "report"} /\ ~inserting /\ step \notin TableSet
  BY StepNames DEF LoadingAt, ReferenceInv
<1>3. step # "idle"
  BY <1>1, <1>2, StepNames
<1>4. k = 1 => step = "tenants" /\ ~inserting /\ Filled("tenants")
  BY <1>1, TablesInOrder DEF Underway
<1>5. k \notin {1, 13} => k \in 2 .. 12 /\ Tables[k] # "tenants"
  BY FollowingPlace, TablesInOrder
<1> QED
  BY <1>1, <1>2, <1>3, <1>4, <1>5

\* A table that is stored already is the tenants'.
LEMMA LoadingSkip ==
    ASSUME ReferenceInv, NEW k \in 1 .. 13, LoadingAt(k), SkipTable
    PROVE  \E l \in 1 .. 13 : LoadingAt(l)'
<1>1. /\ step \in TableSet /\ ~inserting /\ ~to_load(step) /\ db' = db
      /\ ~inserting'
      /\ step' = IF step = "apm_failuredomain" THEN "apm_anomaly_rule"
                                               ELSE Following(step)
  BY DEF SkipTable
<1>2. k = 1
  <2>1. k \notin {1, 13} => db[step] = <<>>
    BY <1>1, LoadingTable DEF Underway
  <2> QED
    BY <1>1, <2>1, LoadingTable DEF to_load
<1>3. step = "tenants" /\ Filled("tenants") /\ Tables[1] = "tenants"
  BY <1>2, LoadingTable, TablesInOrder
<1>4. step' = Following(Tables[1])
  BY <1>1, <1>3
<1>5. LoadingAt(1) /\ 1 \in 1 .. 12 /\ 1 + 1 \in 1 .. 13 /\ Filled(Tables[1])
  BY <1>2, <1>3
<1>6. LoadingAt(1 + 1)'
  BY <1>1, <1>4, <1>5, NextTable
<1> QED
  BY <1>5, <1>6

\* What is generated for a table is all it needs.
LEMMA LoadingPrepare ==
    ASSUME ReferenceInv, TaxonomyInv, NumbersInv, NEW k \in 1 .. 13, LoadingAt(k), Prepare
    PROVE  LoadingAt(k)'
<1>1. /\ step \in TableSet /\ ~inserting /\ to_load(step) /\ inserting'
      /\ script' = Statements(step) /\ db' = db /\ step' = step
  BY DEF Prepare
<1>2. k # 13
  BY <1>1, LoadingTable
<1>3. k # 1
  <2> SUFFICES ASSUME k = 1 PROVE FALSE
    OBVIOUS
  <2>1. step = "tenants" /\ Filled("tenants")
    BY LoadingTable
  <2>2. \E x : x \in Range(TenantIds)
    <3>1. TenantIds \in Seq(Range(TenantIds)) /\ TenantIds # <<>>
      BY ConfigurationAssumption, LoadableAssumption
    <3> QED
      BY <3>1, SomeItem
  <2>3. \E x : x \in Keys("tenants")
    BY <2>1, <2>2 DEF Filled, Taxonomy, Wanted
  <2>4. db["tenants"] # <<>>
    BY <2>3 DEF Keys, Range
  <2> QED
    BY <1>1, <2>1, <2>4 DEF to_load
<1> DEFINE t == Tables[k]
<1>4. k \in 2 .. 12 /\ t # "tenants" /\ step = t /\ db[t] = <<>>
  BY <1>1, <1>2, <1>3, LoadingTable DEF Underway
<1>5. Pending(t, Statements(t))
  BY <1>4, NextTablePending DEF LoadingAt
<1> DEFINE sql == Statements(t)
<1>6. Pending(t, sql) /\ script' = sql
  BY <1>1, <1>4, <1>5
<1> HIDE DEF sql, t
<1>7. Pending(t, script)'
  BY <1>1, <1>6, PendingUnchanged
<1>8. Underway(t)'
  BY <1>1, <1>4, <1>7 DEF Underway
<1>9. \A i \in 1 .. 12 : i < k => Filled(Tables[i])'
  BY <1>1, FilledUnchanged DEF LoadingAt
<1>10. \A i \in 1 .. 12 : i > k => db'[Tables[i]] = <<>>
  BY <1>1 DEF LoadingAt
<1>11. step' = t
  BY <1>1, <1>4
<1> QED
  BY <1>2, <1>8, <1>9, <1>10, <1>11 DEF LoadingAt, t

\* A statement disturbs no table but its own.
LEMMA LoadingExecute ==
    ASSUME ReferenceInv, NEW k \in 1 .. 13, LoadingAt(k), Execute
    PROVE  LoadingAt(k)'
<1>1. inserting /\ inserting' = inserting /\ step' = step
  BY DEF Execute
<1> DEFINE t == Tables[k]
<1>2. k \in 2 .. 12 /\ t # "tenants" /\ step = t /\ Underway(t) /\ t \in TableSet
  BY <1>1, LoadingTable
<1>3. Pending(t, script)
  BY <1>1, <1>2 DEF Underway
<1> HIDE DEF t
<1>4. Pending(t, script)' /\ \A u \in TableSet \ {t} : db'[u] = db[u]
  BY <1>2, <1>3, ExecutePending
<1>5. Underway(t)'
  BY <1>1, <1>2, <1>4 DEF Underway
<1>6. \A i \in 1 .. 12 : i # k => db'[Tables[i]] = db[Tables[i]]
  BY <1>2, <1>4, FollowingPlace DEF t
<1>7. ASSUME NEW i \in 1 .. 12, i < k PROVE Filled(Tables[i])'
  <2> DEFINE u == Tables[i]
  <2>1. Filled(u) /\ db'[u] = db[u]
    BY <1>6, <1>7 DEF LoadingAt
  <2>2. u \in Numerated => i > 3
    <3>1. i \notin {10, 11, 12} => u \notin Numerated
      BY FollowingPlace, TablesInOrder DEF Numerated, Events
    <3> QED
      BY <3>1
  <2>3. u = Events => i > 7
    <3>1. i # 10 => u # Events
      BY FollowingPlace, TablesInOrder DEF Events
    <3> QED
      BY <3>1
  <2>4. u \in Numerated => db'["asset_components"] = db["asset_components"]
    <3>1. i > 3 => 3 \in 1 .. 12 /\ 3 # k
      BY <1>7
    <3> QED
      BY <1>6, <2>2, <3>1, TablesInOrder
  <2>5. u = Events => db'[Modes] = db[Modes]
    <3>1. i > 7 => 7 \in 1 .. 12 /\ 7 # k
      BY <1>7
    <3> QED
      BY <1>6, <2>3, <3>1, TablesInOrder
  <2> HIDE DEF u
  <2>6. Filled(u)'
    BY <2>1, <2>4, <2>5, FilledKept
  <2> QED
    BY <2>6 DEF u
<1>8. ASSUME NEW i \in 1 .. 12, i > k PROVE db'[Tables[i]] = <<>>
  <2>1. i # k
    BY <1>8
  <2> QED
    BY <1>6, <1>8, <2>1 DEF LoadingAt
<1>9. k # 13 /\ step' = t
  BY <1>1, <1>2
<1> QED
  BY <1>5, <1>7, <1>8, <1>9 DEF LoadingAt, t

\* The run leaves a table when it is full.
LEMMA LoadingFinish ==
    ASSUME ReferenceInv, NEW k \in 1 .. 13, LoadingAt(k), FinishTable
    PROVE  \E l \in 1 .. 13 : LoadingAt(l)'
<1>1. inserting /\ ~inserting' /\ step' = Following(step) /\ db' = db /\ script = <<>>
  BY DEF FinishTable
<1> DEFINE t == Tables[k]
<1>2. k \in 2 .. 12 /\ t # "tenants" /\ step = t /\ Underway(t)
  BY <1>1, LoadingTable
<1>3. Pending(t, <<>>)
  BY <1>1, <1>2 DEF Underway
<1>4. Filled(t)
  BY <1>3, PendingNothing
<1>5. k \in 1 .. 12 /\ k + 1 \in 1 .. 13 /\ step' = Following(Tables[k])
  BY <1>1, <1>2
<1>6. LoadingAt(k + 1)'
  BY <1>1, <1>4, <1>5, NextTable
<1> QED
  BY <1>5, <1>6

\* The UPDATE changes no key.
LEMMA LoadingBackfill ==
    ASSUME ReferenceInv, NEW k \in 1 .. 13, LoadingAt(k), Backfill
    PROVE  LoadingAt(13)'
<1>1. /\ step = "backfill" /\ step' = "report"
      /\ db' = [ db EXCEPT !["apm_failureevent"] = [ i \in DOMAIN @ |-> Linked(@[i]) ] ]
  BY DEF Backfill
<1>2. k = 13
  BY <1>1, LoadingTable, StepNames
<1>3. /\ \A u \in TableSet \ {Events} : db'[u] = db[u]
      /\ db'[Events] = [ i \in DOMAIN db[Events] |-> Linked(db[Events][i]) ]
  BY <1>1, TableNames DEF ReferenceInv, Events
<1>4. \A e : Linked(e).key = e.key
  BY DEF Linked
<1>5. Keys(Events)' = Keys(Events)
  <2> DEFINE old == db[Events]
             new == db'[Events]
  <2>1. DOMAIN new = DOMAIN old /\ \A i \in DOMAIN old : new[i].key = old[i].key
    BY <1>3, <1>4
  <2>2. Keys(Events) = { old[i].key : i \in DOMAIN old }
    BY DEF Keys, Range
  <2>3. Keys(Events)' = { new[i].key : i \in DOMAIN new }
    BY DEF Keys, Range
  <2> HIDE DEF old, new
  <2> QED
    BY <2>1, <2>2, <2>3
<1>6. /\ db'["asset_components"] = db["asset_components"] /\ db'[Modes] = db[Modes]
      /\ Events \notin Taxonomy
  BY <1>3, TableNames DEF Events, Modes, Taxonomy
<1>7. ASSUME NEW i \in 1 .. 12 PROVE Filled(Tables[i])'
  <2>1. Filled(Tables[i]) /\ Tables[i] \in TableSet
    BY <1>2, FollowingPlace DEF LoadingAt
  <2>2. CASE Tables[i] # Events
    BY <1>3, <1>6, <2>1, <2>2, FilledKept
  <2>3. CASE Tables[i] = Events
    <3>1. Wanted(Events)' = Wanted(Events)
      BY <1>6, WantedKept
    <3>2. Keys(Events)' = Wanted(Events)'
      BY <1>5, <1>6, <2>1, <2>3, <3>1 DEF Filled
    <3> QED
      BY <1>6, <2>3, <3>2 DEF Filled
  <2> QED
    BY <2>2, <2>3
<1> QED
  BY <1>1, <1>7 DEF LoadingAt

\* The report of a load that nothing interrupted is that it is complete.
LEMMA LoadingReport ==
    ASSUME ReferenceInv, NEW k \in 1 .. 13, LoadingAt(k), Report
    PROVE  complete' /\ \A t \in TableSet : Filled(t)'
<1>1. /\ step = "report" /\ db' = db
      /\ complete' = (complete \/ \A t \in TableSet : db[t] # <<>>)
  BY DEF Report
<1>2. k = 13
  BY <1>1, LoadingTable, StepNames
<1>3. \A i \in 1 .. 12 : Filled(Tables[i])
  BY <1>2 DEF LoadingAt
<1>4. \A t \in TableSet : Filled(t)
  BY <1>3, FollowingPlace
<1>5. \A t \in TableSet : db[t] # <<>>
  BY <1>4, FilledNotEmpty
<1>6. \A t \in TableSet : Filled(t)'
  BY <1>1, <1>4, FilledUnchanged
<1> QED
  BY <1>1, <1>5, <1>6

\* Every step of a first run goes on with the load, or reports it complete.
LEMMA LoadingStep ==
    ASSUME ReferenceInv, TaxonomyInv, NumbersInv, NEW k \in 1 .. 13, LoadingAt(k),
           Next, ~Interrupt
    PROVE  \/ \E l \in 1 .. 13 : LoadingAt(l)'
           \/ complete' /\ \A t \in TableSet : Filled(t)'
<1>1. CASE Start
  BY <1>1, LoadingTable DEF Start
<1>2. CASE SkipTable
  BY <1>2, LoadingSkip
<1>3. CASE Prepare
  BY <1>3, LoadingPrepare
<1>4. CASE Execute
  BY <1>4, LoadingExecute
<1>5. CASE FinishTable
  BY <1>5, LoadingFinish
<1>6. CASE Backfill
  BY <1>6, LoadingBackfill
<1>7. CASE Report
  BY <1>7, LoadingReport
<1> QED
  BY <1>1, <1>2, <1>3, <1>4, <1>5, <1>6, <1>7 DEF Next

\* What the steps count.
LEMMA StepsCount ==
    ASSUME [Next]_vars
    PROVE  /\ Interrupt => runs' = runs /\ interrupts' = interrupts + 1
           /\ ~Interrupt => /\ interrupts' = interrupts
                            /\ runs' = runs \/ runs' = runs + 1
<1>1. CASE Start
  BY <1>1 DEF Start, Interrupt
<1>2. CASE SkipTable
  BY <1>2 DEF SkipTable, Interrupt
<1>3. CASE Prepare
  BY <1>3 DEF Prepare, Interrupt
<1>4. CASE Execute
  BY <1>4 DEF Execute, Interrupt
<1>5. CASE FinishTable
  BY <1>5 DEF FinishTable, Interrupt
<1>6. CASE Backfill
  BY <1>6 DEF Backfill, Interrupt
<1>7. CASE Report
  BY <1>7 DEF Report, Interrupt
<1>8. CASE Interrupt
  BY <1>8 DEF Interrupt
<1>9. CASE UNCHANGED vars
  BY <1>9 DEF vars, Interrupt
<1> QED
  BY <1>1, <1>2, <1>3, <1>4, <1>5, <1>6, <1>7, <1>8, <1>9 DEF Next

\* FirstRunInv is inductive, relative to the invariants of the tables' rows.
LEMMA NextFirstRunInv ==
    LoadInv /\ ReferenceInv /\ TaxonomyInv /\ NumbersInv /\ FirstRunInv /\ [Next]_vars
        => FirstRunInv'
<1> SUFFICES ASSUME LoadInv, ReferenceInv, TaxonomyInv, NumbersInv, FirstRunInv, [Next]_vars
             PROVE  FirstRunInv'
  OBVIOUS
<1>1. runs \in Nat /\ interrupts \in Nat
  BY DEF FirstRunInv
<1>2. runs' \in Nat /\ interrupts' \in Nat
  BY <1>1, StepsCount
<1>3. CASE interrupts' # 0
  BY <1>2, <1>3 DEF FirstRunInv
<1>4. CASE interrupts' = 0
  <2>1. ~Interrupt /\ interrupts = 0
    BY <1>1, <1>4, StepsCount
  <2>2. CASE UNCHANGED vars
    <3>1. /\ db' = db /\ step' = step /\ inserting' = inserting /\ script' = script
          /\ runs' = runs /\ complete' = complete
      BY <2>2 DEF vars
    <3>2. \A t : Filled(t) => Filled(t)'
      BY <3>1, FilledUnchanged
    <3>3. ASSUME NEW k \in 1 .. 13, LoadingAt(k) PROVE LoadingAt(k)'
      <4>1. ASSUME NEW t, Pending(t, script) PROVE Pending(t, script)'
        <5> DEFINE sql == script
        <5>1. Pending(t, sql) /\ script' = sql
          BY <3>1, <4>1
        <5> HIDE DEF sql
        <5> QED
          BY <3>1, <5>1, PendingUnchanged
      <4>2. \A t : Underway(t) => Underway(t)'
        BY <3>1, <3>2, <4>1 DEF Underway
      <4> QED
        BY <3>1, <3>2, <3>3, <4>2 DEF LoadingAt
    <3> QED
      BY <1>1, <1>4, <2>1, <3>1, <3>2, <3>3 DEF FirstRunInv
  <2>3. CASE Next /\ complete
    <3>1. db' = db /\ complete'
      BY <2>3, NextFinal
    <3>2. \A t \in TableSet : Filled(t)
      BY <2>1, <2>3 DEF FirstRunInv
    <3>3. \A t \in TableSet : Filled(t)'
      BY <3>1, <3>2, FilledUnchanged
    <3>4. runs' # 0
      <4>1. runs # 0
        <5> SUFFICES ASSUME runs = 0 PROVE FALSE
          OBVIOUS
        <5>1. "assets" \in TableSet \ {"tenants"}
          BY TableNames
        <5>2. db["assets"] = <<>>
          BY <2>1, <5>1 DEF FirstRunInv
        <5> QED
          BY <2>3, <5>1, <5>2 DEF LoadInv
      <4> QED
        BY <1>1, <2>3, <4>1, StepsCount
    <3> QED
      BY <1>2, <3>1, <3>3, <3>4 DEF FirstRunInv
  <2>4. CASE Next /\ ~complete /\ runs = 0
    <3>1. step = "idle" /\ ~inserting /\ Filled("tenants")
          /\ \A t \in TableSet \ {"tenants"} : db[t] = <<>>
      BY <2>1, <2>4 DEF FirstRunInv
    <3>2. Start
      BY <2>1, <2>4, <3>1, StepNames DEF Next, SkipTable, Prepare, Execute, FinishTable,
                                         Backfill, Report
    <3>3. /\ db' = db /\ ~inserting' /\ step' = Tables[1] /\ runs' = runs + 1
          /\ complete' = complete
      BY <3>1, <3>2 DEF Start
    <3>4. Tables[1] = "tenants" /\ 1 \in 1 .. 13
      BY TablesInOrder
    <3>5. Filled("tenants")'
      BY <3>1, <3>3, FilledUnchanged
    <3>6. Underway(Tables[1])'
      BY <3>3, <3>4, <3>5 DEF Underway
    <3>7. \A i \in 1 .. 12 : i > 1 => db'[Tables[i]] = <<>>
      <4> SUFFICES ASSUME NEW i \in 1 .. 12, i > 1 PROVE db'[Tables[i]] = <<>>
        OBVIOUS
      <4>1. i # 1 /\ 1 \in 1 .. 12
        OBVIOUS
      <4>2. Tables[i] \in TableSet \ {"tenants"}
        BY <3>4, <4>1, FollowingPlace
      <4> QED
        BY <3>1, <3>3, <4>2
    <3>8. \A i \in 1 .. 12 : ~(i < 1)
      OBVIOUS
    <3>9. LoadingAt(1)'
      BY <3>3, <3>6, <3>7, <3>8 DEF LoadingAt
    <3>10. runs' > 0 /\ runs' # 0
      BY <1>1, <3>3
    <3> QED
      BY <1>2, <2>4, <3>3, <3>4, <3>9, <3>10 DEF FirstRunInv
  <2>5. CASE Next /\ ~complete /\ runs # 0
    <3>1. PICK k \in 1 .. 13 : LoadingAt(k)
      <4>1. runs > 0
        BY <1>1, <2>5
      <4> QED
        BY <2>1, <2>5, <4>1 DEF FirstRunInv
    <3>2. \/ \E l \in 1 .. 13 : LoadingAt(l)'
          \/ complete' /\ \A t \in TableSet : Filled(t)'
      BY <2>1, <2>5, <3>1, LoadingStep
    <3>3. runs' # 0
      BY <1>1, <2>5, StepsCount
    <3>4. complete' => \A t \in TableSet : Filled(t)'
      <4>1. CASE Report
        BY <3>1, <4>1, LoadingReport
      <4>2. CASE ~Report
        BY <2>5, <4>2 DEF Next, Start, SkipTable, Prepare, Execute, FinishTable,
                          Backfill, Interrupt
      <4> QED
        BY <4>1, <4>2
    <3> QED
      BY <1>2, <3>2, <3>3, <3>4 DEF FirstRunInv
  <2> QED
    BY <2>2, <2>3, <2>4, <2>5
<1> QED
  BY <1>3, <1>4

\* The invariant of a first run holds in every reachable state.
THEOREM FirstRunInvariance == Spec => []FirstRunInv
<1>1. Init => FirstRunInv
  BY InitFirstRunInv
<1>2. LoadInv /\ ReferenceInv /\ TaxonomyInv /\ NumbersInv /\ FirstRunInv /\ [Next]_vars
          => FirstRunInv'
  BY NextFirstRunInv
<1> QED
  BY <1>1, <1>2, LoadInvariance, ReferenceInvariance, TaxonomyInvariance,
     NumbersInvariance, PTL DEF Spec

\* A first run that nothing interrupts stores everything the configuration
\* asks for, whatever the configuration: no foreign key stands in its way.
THEOREM FirstRunAlwaysComplete == Spec => []FirstRunComplete
<1>1. ASSUME ReferenceInv, FirstRunInv PROVE FirstRunComplete
  <2> SUFFICES ASSUME step = "idle", runs > 0, interrupts = 0
               PROVE  LET slots == Slots
                          numbers(S) == { Key(slots[n].tenant, n) : n \in S }
                          types == { ComponentTypes[i].class : i \in DOMAIN ComponentTypes }
                      IN  /\ complete
                          /\ Keys("asset_signal_tags_mapping")
                                 = { Key(m.tenant, m.tag) : m \in Range(TagMetadata) }
                          /\ Keys("asset_components")
                                 = { Key(m.tenant, m.component) : m \in Range(TagMetadata) }
                          /\ Len(db["apm_failuremode"]) = Len(FailureModes) * Len(TenantIds)
                          /\ Len(db["apm_failureclass"])
                                 = Cardinality(types) * Len(TenantIds)
                          /\ Keys("apm_threshold_profile")
                                 = Range(TenantIds) \X Range(Profiles)
                          /\ Keys("workorder") = numbers(DOMAIN slots)
                          /\ Keys("maintenance") = numbers(DOMAIN slots)
                          /\ Keys("apm_failureevent")
                                 = numbers({ n \in DOMAIN slots : OwnMode(slots[n]) })
    BY DEF FirstRunComplete
  <2>1. complete
    <3>1. \A k \in 1 .. 13 : ~LoadingAt(k)
      BY <1>1, LoadingTable
    <3> QED
      BY <1>1, <3>1 DEF FirstRunInv
  <2>2. \A t \in TableSet : Filled(t)
    BY <1>1, <2>1 DEF FirstRunInv
  <2>3. /\ Keys("asset_signal_tags_mapping")
               = { Key(m.tenant, m.tag) : m \in Range(TagMetadata) }
        /\ Keys("asset_components") = { Key(m.tenant, m.component) : m \in Range(TagMetadata) }
        /\ Keys("apm_threshold_profile") = Range(TenantIds) \X Range(Profiles)
    BY <2>2, TableNames DEF Filled, Wanted, Taxonomy
  <2>4. Len(db["apm_failuremode"]) = Len(FailureModes) * Len(TenantIds)
    BY <2>2, TableNames DEF Filled, Codes, Taxonomy, Modes, Classes, Domains
  <2>5. Len(db["apm_failureclass"]) = Cardinality(ClassCodes) * Len(TenantIds)
    BY <2>2, TableNames DEF Filled, Codes, Taxonomy, Modes, Classes, Domains
  <2>6. /\ Keys("workorder") = Numbers(DOMAIN Slots)
        /\ Keys("maintenance") = Numbers(DOMAIN Slots)
        /\ Keys("apm_failureevent") = Numbers({ n \in DOMAIN Slots : OwnMode(Slots[n]) })
    BY <2>2, TableNames DEF Filled, Wanted, Taxonomy
  <2> QED
    BY <2>1, <2>3, <2>4, <2>5, <2>6 DEF Numbers, ClassCodes
<1> QED
  BY <1>1, ReferenceInvariance, FirstRunInvariance, PTL

=============================================================================
