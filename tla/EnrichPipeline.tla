--------------------------- MODULE EnrichPipeline ---------------------------
(***************************************************************************)
(* The enrich and anomaly jobs of src/sql/flink/templates for one tenant,  *)
(* from the raw topic and the change topics of PostgreSQL to the anomaly   *)
(* table of ClickHouse.  The enrich job joins its four sources as they     *)
(* come, in a pipeline of three joins that run side by side, keeps every   *)
(* row it has read, and writes each new version of a joined row to an      *)
(* upsert topic.  The anomaly job reads that topic as a plain one.  No job *)
(* has checkpoints: submitted again, it reads its topics from the start.   *)
(* The old job is gone by then.                                            *)
(*                                                                         *)
(* A topic is given with all it will ever hold: a record written later is  *)
(* one not read yet.  A change topic holds one row per change; updates,    *)
(* deletions (delete.handling.mode "rewrite") and repeated snapshots are   *)
(* rows like any other.  The joins and the sink are Flink 1.19's.          *)
(***************************************************************************)
EXTENDS Integers, FiniteSets, SequencesExt

CONSTANTS
    Topics,           \* contents of the four topics, to choose from
    Limits,           \* metric_name -> value above which there is an anomaly
    MaxSubmissions    \* contents -> repeated submissions of the two jobs (bound)

Sources == {"raw", "tags", "assets", "comps"}

ASSUME TopicsAssumption ==
    \A t \in Topics : /\ DOMAIN t = Sources
                        /\ \A s \in Sources : t[s] \in Seq(Range(t[s]))
ASSUME SubmissionsAssumption == MaxSubmissions \in [Topics -> Nat]

VARIABLES
    topic,        \* contents of the topics
    read,         \* source -> rows the enrich job has read
    left,         \* second and third join -> rows of their left side they hold
    queue,        \* changes on their way to these joins and to the sink
    kept,         \* event_id -> rows the sink keeps for it, oldest first
    staging,      \* records of the staging topic
    scanned,      \* records of staging the anomaly job has read
    mart,         \* rows of the anomaly topic
    ingested,     \* rows of mart that are in dwd_apm_anomaly_events
    submissions

enrich   == <<read, left, queue, kept, staging>>
anomaly  == <<scanned, mart>>
vars     == <<topic, enrich, anomaly, ingested, submissions>>

\* The second and the third join, named for the table they look up.
Lookups == {"assets", "comps"}
after(s) == IF s = "assets" THEN "comps" ELSE "sink"

NotRead  == [s \in Sources |-> 0]
All      == [s \in Sources |-> Len(topic[s])]
NoRows   == [s \in Lookups |-> {}]
NoQueue  == [q \in Lookups \union {"sink"} |-> <<>>]
EventIds == { topic.raw[i].event_id : i \in 1 .. Len(topic.raw) }

Init ==
    /\ topic \in Topics
    /\ read = NotRead
    /\ left = NoRows
    /\ queue = NoQueue
    /\ kept = [e \in EventIds |-> <<>>]
    /\ staging = <<>>
    /\ scanned = 0 /\ mart = <<>>
    /\ ingested = 0
    /\ submissions = 0

-----------------------------------------------------------------------------
(* The query of the enrich job.                                            *)

\* A joined row is given by the places of its rows in their topics, 0 for a
\* row not looked up yet and for the NULLs of a LEFT JOIN.
Tagged(i, j) == [ raw |-> i, tags |-> j, assets |-> 0, comps |-> 0 ]

tag_matches(n, i) ==
    { j \in 1 .. n.tags : topic.tags[j].tag_id = topic.raw[i].tag_id }

\* WHERE m.asset_id IS NOT NULL keeps the rows with a tag only.
tagged(n) ==
    UNION { { Tagged(i, j) : j \in tag_matches(n, i) } : i \in 1 .. n.raw }

fits(s, r, k) ==
    /\ topic[s][k].asset_id = topic.tags[r.tags].asset_id
    /\ s = "comps" => topic.comps[k].component_id = topic.tags[r.tags].component_id
matches(s, r, n) == { k \in 1 .. n[s] : fits(s, r, k) }

OrNull_inner(found) == found
OrNull(found) == IF found = {} THEN {0} ELSE found

looked_up(s, r, n) == { [r EXCEPT ![s] = k] : k \in OrNull(matches(s, r, n)) }
joined(s, rows, n) == UNION { looked_up(s, r, n) : r \in rows }

Joined(n) == joined("comps", joined("assets", tagged(n), n), n)

\* The columns of a joined row that differ between rows of one event.
columns(t) ==
    [ event_id |-> topic.raw[t.raw].event_id, value |-> topic.raw[t.raw].value,
      metric_name |-> topic.tags[t.tags].metric_name,
      asset_id |-> topic.tags[t.tags].asset_id,
      asset_name |-> IF t.assets = 0 THEN ""
                                     ELSE topic.assets[t.assets].asset_name,
      component_type |-> IF t.comps = 0 THEN ""
                                     ELSE topic.comps[t.comps].component_type ]

-----------------------------------------------------------------------------
(* The joins of the enrich job.  What one of them puts out goes to the next *)
(* in order; each takes its two sides in any order, and the rows of its     *)
(* state in any order.                                                      *)

Changes(op, rows) ==
    { [n \in DOMAIN f |-> [ op |-> op, row |-> f[n] ]] : f \in SetToSeqs(rows) }

Put(q, s, out) == [q EXCEPT ![s] = @ \o out]

\* The first join reads a row of one side.
ReadFirst(s) ==
    /\ read[s] < Len(topic[s])
    /\ read' = [read EXCEPT ![s] = @ + 1]
    /\ \E out \in Changes("+I", tagged(read') \ tagged(read)) :
           queue' = Put(queue, "assets", out)
    /\ UNCHANGED <<topic, left, kept, staging, anomaly, ingested, submissions>>

\* A later join takes a row of its left side, or withdraws one.
TakeLeft(s) ==
    /\ queue[s] # <<>>
    /\ LET change == Head(queue[s]) IN
         /\ left' = [left EXCEPT ![s] = IF change.op = "+I"
                                        THEN @ \union {change.row}
                                        ELSE @ \ {change.row}]
         /\ \E out \in Changes(change.op, looked_up(s, change.row, read)) :
                queue' = Put([queue EXCEPT ![s] = Tail(@)], after(s), out)
    /\ UNCHANGED <<topic, read, kept, staging, anomaly, ingested, submissions>>

\* Left rows the next row of s is for, and those without one so far.
waiting(s)  == { r \in left[s] : fits(s, r, read[s] + 1) }
unmatched(s) == { r \in waiting(s) : matches(s, r, read) = {} }

ReadRight_looked_up(s) ==
    /\ read[s] < Len(topic[s])
    /\ read' = [read EXCEPT ![s] = @ + 1]
    /\ UNCHANGED <<topic, left, queue, kept, staging, anomaly, ingested, submissions>>

\* A later join reads a row of its right side: first it withdraws the rows it
\* had padded with NULLs, then it puts out the matches.
ReadRight(s) ==
    /\ read[s] < Len(topic[s])
    /\ read' = [read EXCEPT ![s] = @ + 1]
    /\ \E out \in Changes("-D", unmatched(s)) :
       \E new \in Changes("+I", { [r EXCEPT ![s] = read'[s]] : r \in waiting(s) }) :
           queue' = Put(queue, after(s), out \o new)
    /\ UNCHANGED <<topic, left, kept, staging, anomaly, ingested, submissions>>

-----------------------------------------------------------------------------
(* The sink of the enrich job.                                             *)

first_at(rows, row) == SelectInSeq(rows, LAMBDA r : r = row)

Upsert(row)  == [ op |-> "upsert", row |-> row ]
Tombstone(row) == [ op |-> "tombstone", event_id |-> row.event_id ]

\* The sink has the primary key event_id, the query has none: it keeps the
\* rows of an event, and writes the last of them when that changes.
Materialize_withdrawn_row_written ==
    /\ queue.sink # <<>>
    /\ LET row  == columns(Head(queue.sink).row)
           rows == kept[row.event_id]
       IN  /\ kept' = [kept EXCEPT ![row.event_id] =
                           IF Head(queue.sink).op = "+I" THEN Append(rows, row)
                           ELSE RemoveFirst(rows, row)]
           /\ staging' = Append(staging, Upsert(row))
    /\ queue' = [queue EXCEPT !.sink = Tail(@)]
    /\ UNCHANGED <<topic, read, left, anomaly, ingested, submissions>>

Materialize ==
    /\ queue.sink # <<>>
    /\ LET row  == columns(Head(queue.sink).row)
           rows == kept[row.event_id]
           rest == RemoveFirst(rows, row)
       IN  IF Head(queue.sink).op = "+I"
           THEN /\ kept' = [kept EXCEPT ![row.event_id] = Append(rows, row)]
                /\ staging' = Append(staging, Upsert(row))
           ELSE /\ kept' = [kept EXCEPT ![row.event_id] = rest]
                /\ staging' =
                       CASE rest = <<>> -> Append(staging, Tombstone(row))
                         [] rest # <<>> /\ first_at(rows, row) = Len(rows) ->
                                Append(staging, Upsert(Last(rest)))
                         [] OTHER -> staging
    /\ queue' = [queue EXCEPT !.sink = Tail(@)]
    /\ UNCHANGED <<topic, read, left, anomaly, ingested, submissions>>

\* The job is gone with all it kept, and is submitted again.
SubmitEnrich ==
    /\ submissions < MaxSubmissions[topic]
    /\ submissions' = submissions + 1
    /\ read' = NotRead
    /\ left' = NoRows
    /\ queue' = NoQueue
    /\ kept' = [e \in EventIds |-> <<>>]
    /\ UNCHANGED <<topic, staging, anomaly, ingested>>

-----------------------------------------------------------------------------
(* The anomaly job and ClickHouse.                                         *)

over_limit(row) ==
    row.metric_name \in DOMAIN Limits /\ row.value > Limits[row.metric_name]

anomaly_row(row) ==
    [ anomaly_id |-> row.event_id, asset_name |-> row.asset_name,
      observed_value |-> row.value ]

Detect_unfiltered ==
    /\ scanned < Len(staging)
    /\ scanned' = scanned + 1
    /\ LET record == staging[scanned + 1] IN
         mart' = IF record.op = "upsert"
                 THEN Append(mart, anomaly_row(record.row)) ELSE mart
    /\ UNCHANGED <<topic, enrich, ingested, submissions>>

\* One record of the staging topic, of which a tombstone is no row.
Detect ==
    /\ scanned < Len(staging)
    /\ scanned' = scanned + 1
    /\ LET record == staging[scanned + 1] IN
         mart' = IF record.op = "upsert" /\ over_limit(record.row)
                 THEN Append(mart, anomaly_row(record.row)) ELSE mart
    /\ UNCHANGED <<topic, enrich, ingested, submissions>>

SubmitAnomaly ==
    /\ submissions < MaxSubmissions[topic]
    /\ submissions' = submissions + 1
    /\ scanned' = 0
    /\ UNCHANGED <<topic, enrich, mart, ingested>>

\* ClickHouse appends what it reads.
Ingest ==
    /\ ingested < Len(mart)
    /\ ingested' = ingested + 1
    /\ UNCHANGED <<topic, enrich, anomaly, submissions>>

dwd_apm_anomaly_events == SubSeq(mart, 1, ingested)

Next == \/ \E s \in {"raw", "tags"} : ReadFirst(s)
        \/ \E s \in Lookups : TakeLeft(s) \/ ReadRight(s)
        \/ Materialize \/ Detect \/ Ingest
        \/ SubmitEnrich \/ SubmitAnomaly

Spec == Init /\ [][Next]_vars

\* A running job goes on reading what its topics hold, and so does ClickHouse.
FairSpec ==
    /\ Spec
    /\ \A s \in {"raw", "tags"} : WF_vars(ReadFirst(s))
    /\ \A s \in Lookups : WF_vars(TakeLeft(s)) /\ WF_vars(ReadRight(s))
    /\ WF_vars(Materialize) /\ WF_vars(Detect) /\ WF_vars(Ingest)

-----------------------------------------------------------------------------
(* Correctness.                                                            *)

\* The upsert topic as a table: the last record of each key.
CurrentRow(e) ==
    LET RecordOf(r) == e = IF r.op = "upsert" THEN r.row.event_id ELSE r.event_id
        n == SelectLastInSeq(staging, RecordOf)
    IN  IF n = 0 THEN Tombstone([ event_id |-> e ]) ELSE staging[n]

\* In whatever order the four topics were read, and however often the job was
\* submitted, in the end the staging topic holds for each event a row of the
\* complete join, and a tombstone for none that has one: a reading that
\* overtook its master data is enriched all the same.
StagingIsCompleteJoin ==
    read = All /\ queue = NoQueue =>
        LET rows == { columns(t) : t \in Joined(All) } IN
        \A e \in EventIds :
            (\E r \in rows : r.event_id = e) =>
                /\ CurrentRow(e).op = "upsert"
                /\ CurrentRow(e).row \in rows

\* An anomaly is reported only for a reading above the limit of a metric its
\* tag is mapped to, in every version of the row and after every submission.
OnlyBreachesReported ==
    \A n \in DOMAIN mart :
        \E i \in DOMAIN topic.raw : \E j \in tag_matches(All, i) :
            /\ topic.raw[i].event_id = mart[n].anomaly_id
            /\ topic.raw[i].value = mart[n].observed_value
            /\ over_limit([ metric_name |-> topic.tags[j].metric_name,
                            value |-> topic.raw[i].value ])

OneRowPerKey ==
    /\ \A a, b \in DOMAIN topic.tags :
           topic.tags[a].tag_id = topic.tags[b].tag_id => a = b
    /\ \A a, b \in DOMAIN topic.assets :
           topic.assets[a].asset_id = topic.assets[b].asset_id => a = b
    /\ \A a, b \in DOMAIN topic.comps :
           /\ topic.comps[a].asset_id = topic.comps[b].asset_id
           /\ topic.comps[a].component_id = topic.comps[b].component_id
           => a = b

\* With one row per key in the master tables and no second submission, a
\* reading is reported once before its asset and component were read and once
\* more for each of these tables that has rows: at most three times.  Readings
\* that share an event id are the exception: each withdrawal of the row last
\* written of one of them puts the row of another out again.
AtMostThreeReports ==
    OneRowPerKey /\ submissions = 0 =>
        \A e \in EventIds :
            LET readings == Cardinality({ i \in DOMAIN topic.raw :
                                              topic.raw[i].event_id = e })
                masters  == Cardinality({ s \in Lookups : topic[s] # <<>> })
                repeats  == IF readings = 1 THEN 0 ELSE readings * masters
            IN  Cardinality({ n \in DOMAIN mart : mart[n].anomaly_id = e })
                    <= readings * (1 + masters) + repeats

BreachStored(i) ==
    \E n \in 1 .. ingested :
        /\ mart[n].anomaly_id = topic.raw[i].event_id
        /\ mart[n].observed_value = topic.raw[i].value
        /\ \A j \in tag_matches(All, i) :
               matches("assets", Tagged(i, j), All) # {} => mart[n].asset_name # ""

\* Every reading above its limit ends up in the anomaly table, with the name
\* of its asset if the asset has one.
EveryBreachStored ==
    <>(\A i \in DOMAIN topic.raw :
          (\E j \in tag_matches(All, i) :
              over_limit([ metric_name |-> topic.tags[j].metric_name,
                           value |-> topic.raw[i].value ]))
          => BreachStored(i))

\* "Grain: one row per (anomaly_id)" (schema.sql:323), of the table that
\* phase-4 loader and ads_refresh read.
AnomalyGrain ==
    \A a, b \in 1 .. ingested :
        mart[a].anomaly_id = mart[b].anomaly_id => a = b

=============================================================================
