---------------------------- MODULE SourceLoader ----------------------------
(***************************************************************************)
(* scripts/phase1-load-postgres-source-data.py: the run that fills the     *)
(* twelve tables of PostgreSQL, one table after the other and only those   *)
(* it finds empty, one autocommitted statement at a time; killed at any    *)
(* statement and run again.  The keys are those of sql/postgres_init.sql.  *)
(*                                                                         *)
(* A row is its primary key, the rows its foreign keys name, and one datum *)
(* (a code, a type, or the event a work order is about).                   *)
(***************************************************************************)
EXTENDS Integers, FiniteSets, Picking

CONSTANTS
    TenantIds,       \* TENANT_IDS and the tenants of tenants.yml, in order
    Assets,          \* sequence of [tenant, asset] of assets.yml
    TagMetadata,     \* build_tag_metadata(): [tenant, tag, asset, component, type]
    FailureModes,    \* sequence of the component types of failure_modes.yml
    ComponentTypes,  \* sequence of [type, class, domain]: the two literal maps
    Rules,           \* profile ids of anomaly_rules.yml
    Profiles,        \* profile ids of threshold_profiles.yml
    ModeCycle,       \* the 12 of line 568
    MaxRuns,         \* runs of the script (bound)
    MaxInterrupts    \* runs that are killed or lose psql (bound)

ASSUME RunAssumption == MaxRuns \in Nat /\ MaxInterrupts \in Nat

\* The configuration is lists, and the tenants are stored already (line 295 of
\* sql/postgres_init.sql), in a table whose key they are.
ASSUME ConfigurationAssumption ==
    /\ TenantIds \in Seq(Range(TenantIds)) /\ Assets \in Seq(Range(Assets))
    /\ TagMetadata \in Seq(Range(TagMetadata))
    /\ FailureModes \in Seq(Range(FailureModes))
    /\ ComponentTypes \in Seq(Range(ComponentTypes))
    /\ Rules \in Seq(Range(Rules)) /\ Profiles \in Seq(Range(Profiles))
    /\ \A i, j \in DOMAIN TenantIds : TenantIds[i] = TenantIds[j] => i = j

\* The class a type has for lack of another is one of the map's (line 349).
ASSUME ClassesAssumption ==
    \E i \in DOMAIN ComponentTypes : ComponentTypes[i].class = "rotating_bearing"

\* The files are about each other: assets are of tenants of tenants.yml, tags
\* of assets of assets.yml (build_tag_metadata makes them from these), and the
\* profiles are "one-to-one" with the rules (line 2 of
\* threshold_profiles.yml).
ASSUME LoadableAssumption ==
    /\ <<>> \notin {TenantIds, Assets, TagMetadata, FailureModes, Profiles}
    /\ \A a \in Range(Assets) : a.tenant \in Range(TenantIds)
    /\ \A m \in Range(TagMetadata) :
           \E a \in Range(Assets) : a.tenant = m.tenant /\ a.asset = m.asset
    /\ Range(Profiles) \subseteq Range(Rules)

Tables == <<"tenants", "assets", "asset_components",
            "asset_signal_tags_mapping", "apm_failuredomain",
            "apm_failureclass", "apm_failuremode", "apm_anomaly_rule",
            "apm_threshold_profile", "apm_failureevent", "workorder",
            "maintenance">>

TableSet == Range(Tables)
Taxonomy == {"apm_failuredomain", "apm_failureclass", "apm_failuremode"}

VARIABLES
    db,          \* table -> its rows, in the order of the heap
    serial,      \* table -> identity values drawn so far
    step,        \* the table the run is at, "backfill", "report" or "idle"
    inserting,   \* _run_psql_pipe is under way
    script,      \* the statements psql has not executed yet
    runs,        \* runs started
    interrupts,  \* runs that were killed
    complete     \* history: a run has printed "data load complete"

vars == <<db, serial, step, inserting, script, runs, interrupts, complete>>

-----------------------------------------------------------------------------
(* PostgreSQL.                                                             *)

Key(tenant, id) == <<tenant, id>>

\* Every table refers to tenants.
Row(tenant, id, refs, data) ==
    [ key |-> Key(tenant, id),
      refs |-> refs \union {<<"tenants", Key(tenant, tenant)>>},
      data |-> data ]

TenantRow(tenant) == [ key |-> Key(tenant, tenant), refs |-> {}, data |-> "" ]

Keys(table) == { r.key : r \in Range(db[table]) }

\* No key is there already, and every row referred to is.
Accepted(statement) ==
    \A r \in Range(statement.rows) :
        /\ r.key \notin Keys(statement.table)
        /\ \A ref \in r.refs : ref[2] \in Keys(ref[1])

Statement(table, rows) == [ table |-> table, rows |-> rows ]

-----------------------------------------------------------------------------
(* The statements generated for each table.                                *)

\* One statement for each item of a sequence.
Each(table, items, RowOf(_)) ==
    [ i \in DOMAIN items |-> Statement(table, <<RowOf(items[i])>>) ]

\* Item-major, tenant-minor, as the nested loops.
PerTenant(items) ==
    FlattenSeq([ i \in DOMAIN items |->
        [ j \in DOMAIN TenantIds |->
            [ tenant |-> TenantIds[j], item |-> items[i] ] ] ])

tenants_sql == Each("tenants", TenantIds, TenantRow)

assets_sql ==
    Each("assets", Assets, LAMBDA a : Row(a.tenant, a.asset, {}, ""))

\* The items whose field was not seen before (seen, seen_classes).
Unseen(items, field(_)) ==
    Picked(items, { i \in DOMAIN items :
                      \A j \in 1 .. i - 1 : field(items[j]) # field(items[i]) })

components_sql ==
    Each("asset_components",
         Unseen(TagMetadata, LAMBDA m : Key(m.tenant, m.component)),
         LAMBDA m : Row(m.tenant, m.component,
                        {<<"assets", Key(m.tenant, m.asset)>>}, m.type))

tag_mappings_sql ==
    Each("asset_signal_tags_mapping", TagMetadata,
         LAMBDA m : Row(m.tenant, m.tag,
                        { <<"assets", Key(m.tenant, m.asset)>>,
                          <<"asset_components", Key(m.tenant, m.component)>> },
                        ""))

\* One INSERT for all rows; the identity column continues where it stopped.
Numbered(table, items, RefsOf(_), DataOf(_)) ==
    << Statement(table,
         [ i \in DOMAIN items |->
             Row(items[i].tenant, serial[table] + i,
                 RefsOf(items[i]), DataOf(items[i])) ]) >>

\* The dictionaries filled from SELECT ... ORDER BY id: the last row of a
\* code wins, and 1 stands for a code that is not there.
captured_id_by_tenant(table, tenant, code) ==
    LET ids == { r.key[2] : r \in { q \in Range(db[table]) : q.key[1] = tenant } }
    IN  IF ids = {} THEN 1 ELSE Max(ids)

captured_id(table, tenant, code) ==
    LET ids == { r.key[2] : r \in { q \in Range(db[table]) :
                                      q.key[1] = tenant /\ q.data = code } }
    IN  IF ids = {} THEN 1 ELSE Max(ids)

\* A type the map does not have counts as a bearing.
class_of(type) ==
    LET at == { i \in DOMAIN ComponentTypes : ComponentTypes[i].type = type }
    IN  IF at = {} THEN "rotating_bearing"
        ELSE ComponentTypes[CHOOSE i \in at : TRUE].class

domains_sql ==
    Numbered("apm_failuredomain",
             PerTenant(Unseen(ComponentTypes, LAMBDA c : c.domain)),
             LAMBDA p : {}, LAMBDA p : p.item.domain)

classes_sql ==
    Numbered("apm_failureclass",
             PerTenant(Unseen(ComponentTypes, LAMBDA c : c.class)),
             LAMBDA p : { <<"apm_failuredomain", Key(p.tenant,
                              captured_id("apm_failuredomain", p.tenant,
                                          p.item.domain))>> },
             LAMBDA p : p.item.class)

modes_sql ==
    Numbered("apm_failuremode", PerTenant(FailureModes),
             LAMBDA p : { <<"apm_failureclass", Key(p.tenant,
                              captured_id("apm_failureclass", p.tenant,
                                          class_of(p.item)))>> },
             LAMBDA p : p.item)

anomaly_rules_sql ==
    Each("apm_anomaly_rule", PerTenant(Rules),
         LAMBDA p : Row(p.tenant, p.item, {}, ""))

threshold_profiles_sql ==
    Each("apm_threshold_profile", PerTenant(Profiles),
         LAMBDA p : Row(p.tenant, p.item,
                        {<<"apm_anomaly_rule", Key(p.tenant, p.item)>>}, ""))

\* The triple loop shared by events, work orders and maintenance: components
\* in the order SELECT returns them, two or three events for each.
num_events(component) == IF component.data = "generic_component" THEN 3 ELSE 2

ComponentsOf(tenant) ==
    LET rows == db["asset_components"]
    IN  Picked(rows, { i \in DOMAIN rows : rows[i].key[1] = tenant })

SlotsOf(tenant) ==
    FlattenSeq([ c \in DOMAIN ComponentsOf(tenant) |->
        LET component == ComponentsOf(tenant)[c]
        IN  [ e \in 1 .. num_events(component) |->
                [ tenant |-> tenant,
                  place |-> component.refs
                              \union {<<"asset_components", component.key>>},
                  index |-> (c - 1) * num_events(component) + e - 1 ] ] ])

Slots == FlattenSeq([ i \in DOMAIN TenantIds |-> SlotsOf(TenantIds[i]) ])

\* The n-th slot over all tenants; its number is the id of all three rows.
Numerate(table, RowOf(_, _)) ==
    LET slots == Slots
    IN  [ n \in DOMAIN slots |-> Statement(table, <<RowOf(n, slots[n])>>) ]

mode_ref(slot) ==
    IF slot.index % 3 = 0
    THEN { <<"apm_failuremode", Key(slot.tenant, (slot.index % ModeCycle) + 1)>> }
    ELSE {}

failure_events_sql ==
    Numerate("apm_failureevent",
             LAMBDA n, s : Row(s.tenant, n, s.place \union mode_ref(s), ""))

workorder_sql_counted_late ==
    Numerate("workorder",
             LAMBDA n, s : Row(s.tenant, n - 1, s.place, Key(s.tenant, n - 1)))

workorder_sql ==
    Numerate("workorder",
             LAMBDA n, s : Row(s.tenant, n, s.place, Key(s.tenant, n)))

maintenance_sql ==
    Numerate("maintenance",
             LAMBDA n, s : Row(s.tenant, n,
                               s.place \union {<<"workorder", Key(s.tenant, n)>>},
                               Key(s.tenant, n)))

Statements(table) ==
    CASE table = "tenants"                   -> tenants_sql
      [] table = "assets"                    -> assets_sql
      [] table = "asset_components"          -> components_sql
      [] table = "asset_signal_tags_mapping" -> tag_mappings_sql
      [] table = "apm_failuredomain"         -> domains_sql
      [] table = "apm_failureclass"          -> classes_sql
      [] table = "apm_failuremode"           -> modes_sql
      [] table = "apm_anomaly_rule"          -> anomaly_rules_sql
      [] table = "apm_threshold_profile"     -> threshold_profiles_sql
      [] table = "apm_failureevent"          -> failure_events_sql
      [] table = "workorder"                 -> workorder_sql
      [] table = "maintenance"               -> maintenance_sql

-----------------------------------------------------------------------------
(* The run.                                                                *)

Init ==
    /\ db = [ t \in TableSet |-> IF t = "tenants"
                                 THEN [ i \in DOMAIN TenantIds |->
                                          TenantRow(TenantIds[i]) ]
                                 ELSE <<>> ]
    /\ serial = [ t \in TableSet |-> 0 ]
    /\ step = "idle" /\ inserting = FALSE /\ script = <<>>
    /\ runs = 0 /\ interrupts = 0 /\ complete = FALSE

Start ==
    /\ step = "idle" /\ runs < MaxRuns
    /\ step' = Tables[1]
    /\ runs' = runs + 1
    /\ UNCHANGED <<db, serial, inserting, script, interrupts, complete>>

Following(table) ==
    LET at == CHOOSE i \in DOMAIN Tables : Tables[i] = table
    IN  IF at = Len(Tables) THEN "backfill" ELSE Tables[at + 1]

\* The three tables of the taxonomy are counted first, and loaded together.
to_load_taxonomy_always(table) ==
    table \in Taxonomy \/ db[table] = <<>>

to_load(table) ==
    \/ db[table] = <<>>
    \/ table = "apm_failuredomain" /\ \E t \in Taxonomy : db[t] = <<>>
    \/ table \in {"apm_failureclass", "apm_failuremode"}

SkipTable ==
    /\ step \in TableSet /\ ~inserting /\ ~to_load(step)
    /\ step' = IF step = "apm_failuredomain" THEN "apm_anomaly_rule"
                                             ELSE Following(step)
    /\ UNCHANGED <<db, serial, inserting, script, runs, interrupts, complete>>

Prepare ==
    /\ step \in TableSet /\ ~inserting /\ to_load(step)
    /\ inserting' = TRUE
    /\ script' = Statements(step)
    /\ UNCHANGED <<db, serial, step, runs, interrupts, complete>>

\* psql reads its input to the end: a statement that fails is reported on
\* stderr, which nobody reads, and the next one is executed.
Execute ==
    /\ inserting /\ script # <<>>
    /\ LET s == Head(script) IN
       /\ db' = IF Accepted(s) THEN [db EXCEPT ![s.table] = @ \o s.rows] ELSE db
       /\ serial' = [serial EXCEPT ![s.table] = @ + Len(s.rows)]
    /\ script' = Tail(script)
    /\ UNCHANGED <<step, inserting, runs, interrupts, complete>>

FinishTable_maintenance_first ==
    /\ inserting /\ script = <<>>
    /\ inserting' = FALSE
    /\ step' = CASE step = "apm_failureevent" -> "maintenance"
                 [] step = "maintenance"      -> "workorder"
                 [] step = "workorder"        -> "backfill"
                 [] OTHER                     -> Following(step)
    /\ UNCHANGED <<db, serial, script, runs, interrupts, complete>>

FinishTable ==
    /\ inserting /\ script = <<>>
    /\ inserting' = FALSE
    /\ step' = Following(step)
    /\ UNCHANGED <<db, serial, script, runs, interrupts, complete>>

\* The UPDATE's join of an event with its work order and maintenance.
Matches(event) ==
    { p \in Range(db["workorder"]) \X Range(db["maintenance"]) :
        /\ p[1].data = event.key
        /\ p[2].key[1] = p[1].key[1]
        /\ <<"workorder", p[1].key>> \in p[2].refs }

Linked_without_join(event) ==
    [ event EXCEPT !.refs = @ \union { <<"workorder", event.key>>,
                                       <<"maintenance", event.key>> } ]

Linked(event) ==
    IF Matches(event) = {} THEN event
    ELSE LET match == CHOOSE p \in Matches(event) : TRUE
             kept == { r \in event.refs :
                         r[1] \notin {"workorder", "maintenance"} }
         IN  [ key |-> event.key,
               refs |-> kept \union { <<"workorder", match[1].key>>,
                                      <<"maintenance", match[2].key>> },
               data |-> event.data ]

Backfill ==
    /\ step = "backfill"
    /\ db' = [ db EXCEPT !["apm_failureevent"] =
                 [ i \in DOMAIN @ |-> Linked(@[i]) ] ]
    /\ step' = "report"
    /\ UNCHANGED <<serial, inserting, script, runs, interrupts, complete>>

\* The message and the exit code depend on the counts alone.
Report ==
    /\ step = "report"
    /\ complete' = (complete \/ \A t \in TableSet : db[t] # <<>>)
    /\ step' = "idle"
    /\ UNCHANGED <<db, serial, inserting, script, runs, interrupts>>

\* The script is killed, or psql fails or takes more than its timeout.  psql is
\* in the container and may go on with what it has in its buffer: the steps of
\* Execute before this one stand for that, provided that it is through before
\* the next run counts a table.
Interrupt ==
    /\ step # "idle" /\ interrupts < MaxInterrupts
    /\ step' = "idle" /\ inserting' = FALSE /\ script' = <<>>
    /\ interrupts' = interrupts + 1
    /\ UNCHANGED <<db, serial, runs, complete>>

Next == \/ Start \/ SkipTable \/ Prepare \/ Execute \/ FinishTable
        \/ Backfill \/ Report \/ Interrupt

Spec == Init /\ [][Next]_vars

-----------------------------------------------------------------------------
(* Correctness.                                                            *)

\* Every reference names a row, those the backfill writes included, and no
\* key is stored twice (sql/postgres_init.sql): the UPDATE of line 879 is
\* never refused, however short the tables it joins were left.
ReferencesHold ==
    \A t \in TableSet :
        /\ \A r \in Range(db[t]) : \A ref \in r.refs : ref[2] \in Keys(ref[1])
        /\ Cardinality(Keys(t)) = Len(db[t])

Place(row) == { ref \in row.refs : ref[1] \in {"assets", "asset_components"} }

\* Events, work orders and maintenance are numbered by three separate loops
\* (lines 549, 615, 696), maybe in different runs and over tables a kill left
\* short; yet rows of one number are about one component of one asset.
NumbersAgree ==
    \A w \in Range(db["workorder"]) :
        /\ \A e \in Range(db["apm_failureevent"]) :
               e.key = w.data => Place(e) = Place(w)
        /\ \A m \in Range(db["maintenance"]) :
               <<"workorder", w.key>> \in m.refs =>
                   Place(m) = Place(w) /\ m.data = w.data

Referred(row, table) ==
    CHOOSE r \in Range(db[table]) : <<table, r.key>> \in row.refs

\* "capture real generated IDs for FK references" (line 332): a failure mode
\* is of the class its component type calls for, and that class of its
\* domain, also after interrupted runs have left several rows of a code; the
\* id 1 that stands for a code not found (lines 393 and 440) is never stored.
TaxonomyIsTree ==
    \A mode \in Range(db["apm_failuremode"]) :
        LET class == Referred(mode, "apm_failureclass")
            domain == Referred(class, "apm_failuredomain")
        IN  /\ class.data = class_of(mode.data)
            /\ \E i \in DOMAIN ComponentTypes :
                   /\ ComponentTypes[i].class = class.data
                   /\ ComponentTypes[i].domain = domain.data

OwnMode(slot) == \A ref \in mode_ref(slot) : ref[2] \in Keys("apm_failuremode")

\* A first run that nothing interrupts stores one row for each item of the
\* configuration and three for each event of a component, in spite of every
\* foreign key between the tables; the only rows that PostgreSQL refuses are
\* the events that name a failure mode of another tenant (line 567).
FirstRunComplete ==
    step = "idle" /\ runs > 0 /\ interrupts = 0 =>
        LET slots == Slots
            numbers(S) == { Key(slots[n].tenant, n) : n \in S }
            types == { ComponentTypes[i].class : i \in DOMAIN ComponentTypes }
        IN  /\ complete
            /\ Keys("asset_signal_tags_mapping")
                   = { Key(m.tenant, m.tag) : m \in Range(TagMetadata) }
            /\ Keys("asset_components")
                   = { Key(m.tenant, m.component) : m \in Range(TagMetadata) }
            /\ Len(db["apm_failuremode"]) = Len(FailureModes) * Len(TenantIds)
            /\ Len(db["apm_failureclass"]) = Cardinality(types) * Len(TenantIds)
            /\ Keys("apm_threshold_profile")
                   = Range(TenantIds) \X Range(Profiles)
            /\ Keys("workorder") = numbers(DOMAIN slots)
            /\ Keys("maintenance") = numbers(DOMAIN slots)
            /\ Keys("apm_failureevent")
                   = numbers({ n \in DOMAIN slots : OwnMode(slots[n]) })

\* Once a run has reported the load complete, later runs change nothing: what
\* an interrupted run left out stays out, and nothing is stored twice.
CompleteIsFinal == [][complete => db' = db]_vars

\* "Generate workorder rows linked to failure events -- one per failure event"
\* (line 593): after a run that nothing interrupted, the event a work order
\* names is stored.
EveryWorkOrderHasItsEvent ==
    complete /\ interrupts = 0 =>
        \A w \in Range(db["workorder"]) : w.data \in Keys("apm_failureevent")

=============================================================================
