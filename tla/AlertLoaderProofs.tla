-------------------------- MODULE AlertLoaderProofs --------------------------
(***************************************************************************)
(* Proofs about AlertLoader, for any rows, any limit and any number of     *)
(* runs: what the fact tables hold after scripts that were cut short.      *)
(***************************************************************************)
EXTENDS AlertLoader, IncidentWorkflowProofs, SequenceFacts

\* Statements and rows of the fact tables.
RecommendationInsert(a) == [ table |-> "recommendations", row |-> a ]

LoadedIncident == { i \in Incident : i.incident_id \in IncidentIds }
RouteRow  == [ incident_id: IncidentIds, severity: Severities,
               routing_channel: Channels, routing_status: Statuses ]
Statement == [ table: {"recommendations"}, row: Nat ]
             \union [ table: {"incidents"}, row: LoadedIncident ]
             \union [ table: {"routing"}, row: RouteRow ]

Phases == {"start", "group", "route", "execute", "loaded", "aborted"}

LoaderTypeOK ==
    /\ anomaly_table \subseteq Rows
    /\ IsFiniteSet(anomaly_table)
    /\ input \subseteq anomaly_table
    /\ phase \in Phases
    /\ sql_statements \in Seq(Statement)
    /\ fact_apm_incidents \in [IncidentIds -> LoadedIncident \union {NoRow}]
    /\ fact_apm_alert_routing \in [IncidentIds -> RouteRow \union {NoRow}]

\* What a statement refers to is stored, or inserted by an earlier one.
StatementsInOrder ==
    \A k \in DOMAIN sql_statements :
        LET s == sql_statements[k] IN
        /\ s.table = "incidents" =>
               \A a \in s.row.source_anomaly_ids :
                   \/ a \in fact_apm_agent_recommendations
                   \/ \E j \in 1 .. k - 1 :
                          sql_statements[j] = RecommendationInsert(a)
        /\ s.table = "routing" =>
               \/ fact_apm_incidents[s.row.incident_id] # NoRow
               \/ \E j \in 1 .. k - 1 :
                      /\ sql_statements[j].table = "incidents"
                      /\ sql_statements[j].row.incident_id = s.row.incident_id

\* A route to be stored as delivered has been shown.
PendingWasShown ==
    \A k \in DOMAIN sql_statements :
        LET s == sql_statements[k] IN
        s.table = "routing" /\ s.row.routing_status = "delivered" =>
            s.row.incident_id \in delivered

\* The incident, and a route of its severity, are stored or to be inserted.
IncidentLoaded(i) ==
    \/ fact_apm_incidents[i.incident_id] = i
    \/ \E k \in DOMAIN sql_statements : sql_statements[k] = IncidentInsert(i)

RouteLoaded(i) ==
    \/ \E k \in DOMAIN sql_statements :
          /\ sql_statements[k].table = "routing"
          /\ sql_statements[k].row.incident_id = i.incident_id
    \/ fact_apm_alert_routing[i.incident_id].severity = i.max_severity

\* The statements are about this run's incidents only.
OwnStatements ==
    \A k \in DOMAIN sql_statements :
        LET s == sql_statements[k] IN
        /\ s.table = "incidents" => s.row \in Incidents
        /\ s.table = "routing" =>
               \E i \in Incidents : /\ s.row.incident_id = i.incident_id
                                    /\ s.row.severity = i.max_severity

\* How far the run is: the incidents routed are loaded, and those of them on
\* the Teams channel carded.
RunProgress ==
    /\ phase = "group" => carded = {}
    /\ phase \in {"route", "execute", "loaded"} =>
           /\ todo = {}
           /\ unrouted \subseteq Incidents
           /\ carded = { i.incident_id : i \in { x \in Incidents \ unrouted :
                                         x.routing_channel = "teams_card" } }
           /\ OwnStatements
           /\ \A i \in Incidents \ unrouted : IncidentLoaded(i) /\ RouteLoaded(i)
    /\ phase = "route" =>
           \A r \in input : \E k \in DOMAIN sql_statements :
               sql_statements[k] = RecommendationInsert(r.anomaly_id)
    /\ phase \in {"execute", "loaded"} => unrouted = {}
    /\ phase = "loaded" => sql_statements = <<>>

LoaderInv ==
    /\ IInv
    /\ RowsInv
    /\ LoaderTypeOK
    /\ StatementsInOrder
    /\ StoredRowsReferToStoredRows
    /\ PendingWasShown
    /\ DeliveredWasShown
    /\ RunProgress

-----------------------------------------------------------------------------
(* Steps that leave a part of the state alone.                             *)

\* The incidents stay what they are.
LEMMA GroupingKept ==
    ASSUME IInv, RowsInv, UNCHANGED grouping
    PROVE  IInv' /\ RowsInv' /\ Incidents' = Incidents
<1>1. /\ input' = input /\ todo' = todo
      /\ active' = active /\ resolved' = resolved
  BY DEF grouping
<1>2. Incidents' = Incidents
  BY <1>1 DEF Incidents
<1>3. IInv'
  BY <1>1, <1>2
  DEF IInv, TypeOK, LaterRowsOnly, ActiveUnderOwnKey, ResolvedBeforeActive,
      IncidentsSeparated
<1>4. RowsInv'
  BY <1>1, <1>2 DEF RowsInv, EveryRowInOneIncident
<1> QED
  BY <1>2, <1>3, <1>4

\* The fact tables and the statements to come stay in order.
LEMMA StoreKept ==
    ASSUME LoaderInv, UNCHANGED facts, UNCHANGED sql_statements,
           delivered \subseteq delivered'
    PROVE  /\ StatementsInOrder' /\ StoredRowsReferToStoredRows'
           /\ PendingWasShown' /\ DeliveredWasShown'
<1>1. /\ fact_apm_agent_recommendations' = fact_apm_agent_recommendations
      /\ fact_apm_incidents' = fact_apm_incidents
      /\ fact_apm_alert_routing' = fact_apm_alert_routing
      /\ sql_statements' = sql_statements
  BY DEF facts
<1>2. StoredIncidents' = StoredIncidents /\ StoredRoutes' = StoredRoutes
  BY <1>1 DEF StoredIncidents, StoredRoutes
<1>3. StatementsInOrder'
  BY <1>1 DEF LoaderInv, StatementsInOrder
<1>4. StoredRowsReferToStoredRows'
  BY <1>1, <1>2 DEF LoaderInv, StoredRowsReferToStoredRows
<1>5. PendingWasShown'
  BY <1>1 DEF LoaderInv, PendingWasShown
<1>6. DeliveredWasShown'
  BY <1>2 DEF LoaderInv, DeliveredWasShown
<1> QED
  BY <1>3, <1>4, <1>5, <1>6

\* The types of what a step outside the query and the script leaves alone.
LEMMA TypesKept ==
    ASSUME LoaderTypeOK, UNCHANGED facts, UNCHANGED anomaly_table,
           input' = input, phase' \in Phases, sql_statements' \in Seq(Statement)
    PROVE  LoaderTypeOK'
BY DEF LoaderTypeOK, facts

\* Where a run stands is told from the incidents, statements and facts.
LEMMA ProgressKept ==
    ASSUME RunProgress, Incidents' = Incidents, todo' = todo, input' = input,
           UNCHANGED <<phase, unrouted, sql_statements, carded>>, UNCHANGED facts
    PROVE  RunProgress'
BY DEF RunProgress, OwnStatements, IncidentLoaded, RouteLoaded, facts

-----------------------------------------------------------------------------
(* The actions, one lemma each.                                            *)

\* The initial state has nothing stored and nothing to store.
LEMMA InitLoaderInv == LoaderInit => LoaderInv
<1> SUFFICES ASSUME LoaderInit PROVE LoaderInv
  OBVIOUS
<1>1. /\ Incidents = {} /\ StoredIncidents = {} /\ StoredRoutes = {}
      /\ sql_statements = <<>>
  BY DEF LoaderInit, Incidents, StoredIncidents, StoredRoutes
<1>2. IInv /\ RowsInv
  BY <1>1
  DEF LoaderInit, IInv, TypeOK, LaterRowsOnly, ActiveUnderOwnKey,
      ResolvedBeforeActive, IncidentsSeparated, RowsInv, EveryRowInOneIncident
<1>3. LoaderTypeOK
  BY FS_EmptySet DEF LoaderInit, LoaderTypeOK, Phases
<1>4. StatementsInOrder /\ PendingWasShown
  BY <1>1 DEF StatementsInOrder, PendingWasShown
<1>5. StoredRowsReferToStoredRows /\ DeliveredWasShown
  BY <1>1 DEF StoredRowsReferToStoredRows, DeliveredWasShown
<1>6. RunProgress
  BY DEF LoaderInit, RunProgress
<1> QED
  BY <1>2, <1>3, <1>4, <1>5, <1>6 DEF LoaderInv

\* A new anomaly row touches neither the run nor the fact tables.
LEMMA ArriveKeepsInv ==
    ASSUME LoaderInv, NEW r \in Rows, Arrive(r)
    PROVE  LoaderInv'
<1>1. UNCHANGED <<grouping, loader, delivered, facts>>
  BY DEF Arrive
<1>2. IInv' /\ RowsInv' /\ Incidents' = Incidents
  BY <1>1, GroupingKept DEF LoaderInv
<1>3. IsFiniteSet(anomaly_table \union {r})
  BY FS_AddElement DEF LoaderInv, LoaderTypeOK
<1>4. LoaderTypeOK'
  BY <1>1, <1>3 DEF Arrive, LoaderInv, LoaderTypeOK, grouping, loader, facts
<1>5. /\ StatementsInOrder' /\ StoredRowsReferToStoredRows'
      /\ PendingWasShown' /\ DeliveredWasShown'
  BY <1>1, StoreKept DEF loader
<1>6. RunProgress'
  BY <1>1, <1>2, ProgressKept DEF LoaderInv, loader, grouping
<1> QED
  BY <1>2, <1>4, <1>5, <1>6 DEF LoaderInv

\* A run starts from no incident and no statement.
LEMMA QueryKeepsInv ==
    ASSUME LoaderInv, Query
    PROVE  LoaderInv'
<1>1. PICK W \in SUBSET anomaly_table \ {{}} : Newest(W) /\ input' = W
  BY DEF Query
<1>2. /\ todo' = input' /\ resolved' = {}
      /\ active' = [b \in BaseKeys |-> NoIncident]
      /\ phase' = "group" /\ carded' = {} /\ sql_statements' = <<>>
      /\ UNCHANGED <<anomaly_table, delivered, facts>>
  BY DEF Query
<1>3. Incidents' = {}
  BY <1>2 DEF Incidents
<1>4. input' \subseteq AnomalyRow
  BY <1>1, RowAssumption DEF LoaderInv, LoaderTypeOK
<1>5. IInv'
  BY <1>2, <1>3, <1>4
  DEF IInv, TypeOK, LaterRowsOnly, ActiveUnderOwnKey, ResolvedBeforeActive,
      IncidentsSeparated
<1>6. RowsInv'
  BY <1>2, <1>3 DEF RowsInv, EveryRowInOneIncident
<1>7. LoaderTypeOK'
  BY <1>1, <1>2 DEF LoaderInv, LoaderTypeOK, Phases, facts
<1>8. StatementsInOrder' /\ PendingWasShown'
  BY <1>2 DEF StatementsInOrder, PendingWasShown
<1>9. StoredRowsReferToStoredRows' /\ DeliveredWasShown'
  BY <1>2
  DEF LoaderInv, StoredRowsReferToStoredRows, DeliveredWasShown,
      StoredIncidents, StoredRoutes, facts
<1>10. RunProgress'
  BY <1>2 DEF RunProgress
<1> QED
  BY <1>5, <1>6, <1>7, <1>8, <1>9, <1>10 DEF LoaderInv

\* Grouping adds to the incidents only.
LEMMA GroupKeepsInv ==
    ASSUME LoaderInv, Group
    PROVE  LoaderInv'
<1>1. /\ Next /\ phase = "group"
      /\ UNCHANGED <<anomaly_table, loader, delivered, facts>>
  BY DEF Group
<1>2. PICK r \in todo : OpenFirst(r) \/ ResolveAndReopen(r) \/ Update(r)
  BY <1>1 DEF Next
<1>3. IInv' /\ RowsInv'
  BY <1>2, StepKeepsIInv, StepKeepsRowsInv DEF LoaderInv
<1>4. input' = input
  BY <1>2 DEF OpenFirst, ResolveAndReopen, Update, Visit
<1>5. LoaderTypeOK'
  BY <1>1, <1>4, TypesKept DEF LoaderInv, LoaderTypeOK, loader
<1>6. /\ StatementsInOrder' /\ StoredRowsReferToStoredRows'
      /\ PendingWasShown' /\ DeliveredWasShown'
  BY <1>1, StoreKept DEF loader
<1>7. RunProgress'
  BY <1>1 DEF LoaderInv, RunProgress, loader
<1> QED
  BY <1>3, <1>5, <1>6, <1>7 DEF LoaderInv

\* An aborted run leaves its statements unexecuted and the fact tables alone.
LEMMA AbortKeepsInv ==
    ASSUME LoaderInv, Abort
    PROVE  LoaderInv'
<1>1. /\ phase' = "aborted"
      /\ UNCHANGED <<grouping, anomaly_table, sql_statements, delivered, facts>>
  BY DEF Abort
<1>2. IInv' /\ RowsInv'
  BY <1>1, GroupingKept DEF LoaderInv
<1>3. LoaderTypeOK'
  BY <1>1, TypesKept DEF LoaderInv, LoaderTypeOK, grouping, Phases
<1>4. /\ StatementsInOrder' /\ StoredRowsReferToStoredRows'
      /\ PendingWasShown' /\ DeliveredWasShown'
  BY <1>1, StoreKept
<1>5. RunProgress'
  BY <1>1 DEF RunProgress
<1> QED
  BY <1>2, <1>3, <1>4, <1>5 DEF LoaderInv

\* The script starts when every incident has been routed.
LEMMA StartExecuteKeepsInv ==
    ASSUME LoaderInv, StartExecute
    PROVE  LoaderInv'
<1>1. /\ phase = "route" /\ unrouted = {} /\ phase' = "execute"
      /\ UNCHANGED <<grouping, anomaly_table, unrouted, sql_statements, carded,
                     delivered, facts>>
  BY DEF StartExecute
<1>2. IInv' /\ RowsInv' /\ Incidents' = Incidents
  BY <1>1, GroupingKept DEF LoaderInv
<1>3. LoaderTypeOK'
  BY <1>1, TypesKept DEF LoaderInv, LoaderTypeOK, grouping, Phases
<1>4. /\ StatementsInOrder' /\ StoredRowsReferToStoredRows'
      /\ PendingWasShown' /\ DeliveredWasShown'
  BY <1>1, StoreKept
<1>5. RunProgress'
  BY <1>1, <1>2
  DEF LoaderInv, RunProgress, OwnStatements, IncidentLoaded, RouteLoaded,
      grouping, facts
<1> QED
  BY <1>2, <1>3, <1>4, <1>5 DEF LoaderInv

\* A script that ends well has no statement left.
LEMMA ExecuteEndsKeepsInv ==
    ASSUME LoaderInv, ExecuteEnds
    PROVE  LoaderInv'
<1>1. /\ phase = "execute"
      /\ phase' = IF sql_statements = <<>> THEN "loaded" ELSE "aborted"
      /\ UNCHANGED <<grouping, anomaly_table, unrouted, sql_statements, carded,
                     delivered, facts>>
  BY DEF ExecuteEnds
<1>2. IInv' /\ RowsInv' /\ Incidents' = Incidents
  BY <1>1, GroupingKept DEF LoaderInv
<1>3. LoaderTypeOK'
  BY <1>1, TypesKept DEF LoaderInv, LoaderTypeOK, grouping, Phases
<1>4. /\ StatementsInOrder' /\ StoredRowsReferToStoredRows'
      /\ PendingWasShown' /\ DeliveredWasShown'
  BY <1>1, StoreKept
<1>5. RunProgress'
  BY <1>1, <1>2
  DEF LoaderInv, RunProgress, OwnStatements, IncidentLoaded, RouteLoaded,
      grouping, facts
<1> QED
  BY <1>2, <1>3, <1>4, <1>5 DEF LoaderInv

\* The statements begin with a recommendation for every row of the input.
LEMMA RecommendKeepsInv ==
    ASSUME LoaderInv, Recommend
    PROVE  LoaderInv'
<1> DEFINE inserts_of == { [ table |-> "recommendations", row |-> r.anomaly_id ] :
                              r \in input }
<1>1. /\ phase = "group" /\ todo = {} /\ phase' = "route"
      /\ unrouted' = Incidents /\ sql_statements' = SetToSeq(inserts_of)
      /\ UNCHANGED <<grouping, anomaly_table, carded, delivered, facts>>
  BY DEF Recommend
<1>2. /\ IsFiniteSet(input)
      /\ \A r \in input : r \in AnomalyRow
  BY FS_Subset DEF LoaderInv, LoaderTypeOK, IInv, TypeOK
<1>3. IsFiniteSet(inserts_of)
  <2> DEFINE f == [ r \in input |->
                      [ table |-> "recommendations", row |-> r.anomaly_id ] ]
  <2>1. f \in Surjection(input, inserts_of)
    BY DEF Surjection
  <2> QED
    BY <1>2, <2>1, FS_Surjection
<1>4. inserts_of \subseteq Statement
  BY <1>2 DEF Statement, AnomalyRow
<1>5. SetToSeq(inserts_of) \in Seq(inserts_of) /\ Range(SetToSeq(inserts_of)) = inserts_of
  BY <1>3, SetToSeqProperties
<1>6. sql_statements' \in Seq(Statement)
  BY <1>1, <1>4, <1>5
<1>7. \A k \in DOMAIN sql_statements' : sql_statements'[k].table = "recommendations"
  BY <1>1, <1>5
<1>8. IInv' /\ RowsInv' /\ Incidents' = Incidents
  BY <1>1, GroupingKept DEF LoaderInv
<1>9. LoaderTypeOK'
  BY <1>1, <1>6, TypesKept DEF LoaderInv, grouping, Phases
<1>10. StatementsInOrder' /\ PendingWasShown'
  BY <1>7 DEF StatementsInOrder, PendingWasShown
<1>11. StoredRowsReferToStoredRows' /\ DeliveredWasShown'
  BY <1>1
  DEF LoaderInv, StoredRowsReferToStoredRows, DeliveredWasShown,
      StoredIncidents, StoredRoutes, facts
<1>12. RunProgress'
  <2>1. todo' = {} /\ input' = input
    BY <1>1 DEF grouping
  <2>2. carded' = {} /\ Incidents' \ unrouted' = {}
    BY <1>1, <1>8 DEF LoaderInv, RunProgress
  <2>3. OwnStatements'
    BY <1>7 DEF OwnStatements
  <2>4. \A r \in input' : \E k \in DOMAIN sql_statements' :
            sql_statements'[k] = RecommendationInsert(r.anomaly_id)
    <3> SUFFICES ASSUME NEW r \in input
                 PROVE  \E k \in DOMAIN sql_statements' :
                            sql_statements'[k] = RecommendationInsert(r.anomaly_id)
      BY <2>1
    <3>1. RecommendationInsert(r.anomaly_id) \in Range(sql_statements')
      BY <1>1, <1>5 DEF RecommendationInsert
    <3> QED
      BY <3>1 DEF Range
  <2> QED
    BY <1>1, <1>8, <2>1, <2>2, <2>3, <2>4 DEF RunProgress
<1> QED
  BY <1>8, <1>9, <1>10, <1>11, <1>12 DEF LoaderInv

\* An incident's id is one of those the fact tables are keyed by.
LEMMA IncidentIsLoadable ==
    ASSUME LoaderInv, NEW i \in Incidents
    PROVE  i \in LoadedIncident
<1>1. i \in Incident /\ IncidentShape(i)
  BY DEF LoaderInv, IInv, TypeOK, Incidents
<1>2. PICK q \in i.rows : q.ts = i.first_seen
  BY DEF LoaderInv, RowsInv, SpansItsRows
<1>3. q \in Rows
  BY DEF LoaderInv, RowsInv, EveryRowInOneIncident, LoaderTypeOK
<1>4. i.base \in BaseKeys
  BY <1>1 DEF Incident
<1>5. i.first_seen \div Bucket \in { r.ts \div Bucket : r \in Rows }
  BY <1>2, <1>3
<1>6. i.incident_id \in IncidentIds
  BY <1>1, <1>4, <1>5 DEF IncidentShape, IncidentIds
<1> QED
  BY <1>1, <1>6 DEF LoadedIncident

\* Routing an incident adds its own row and its route, in this order, after
\* the recommendations of its rows.
LEMMA RouteKeepsInv ==
    ASSUME LoaderInv, NEW i \in unrouted, Route(i)
    PROVE  LoaderInv'
<1>1. /\ phase = "route" /\ phase' = phase /\ unrouted' = unrouted \ {i}
      /\ UNCHANGED <<grouping, anomaly_table, facts>>
  BY DEF Route
<1>2. IInv' /\ RowsInv' /\ Incidents' = Incidents /\ input' = input /\ todo' = todo
  BY <1>1, GroupingKept DEF LoaderInv, grouping
<1>3. i \in Incidents /\ i \in LoadedIncident /\ i \in Incident
  <2>1. i \in Incidents
    BY <1>1 DEF LoaderInv, RunProgress
  <2> QED
    BY <2>1, IncidentIsLoadable DEF LoadedIncident
<1>4. \E status \in Statuses :
          /\ sql_statements' = sql_statements \o inserts(i, status)
          /\ delivered \subseteq delivered'
          /\ status = "delivered" => i.incident_id \in delivered'
  <2>1. CASE RouteCard(i)
    BY <2>1 DEF RouteCard, send_teams_card
  <2>2. CASE RouteOther(i)
    BY <2>2 DEF RouteOther, Statuses
  <2> QED
    BY <2>1, <2>2 DEF Route
<1>5. PICK status \in Statuses :
          /\ sql_statements' = sql_statements \o inserts(i, status)
          /\ delivered \subseteq delivered'
          /\ status = "delivered" => i.incident_id \in delivered'
  BY <1>4
<1> DEFINE n == Len(sql_statements)
           row == RouteInsert(i, status).row
<1>6. /\ IncidentInsert(i) \in Statement /\ RouteInsert(i, status) \in Statement
      /\ IncidentInsert(i).table = "incidents" /\ IncidentInsert(i).row = i
      /\ RouteInsert(i, status).table = "routing"
      /\ row.incident_id = i.incident_id /\ row.severity = i.max_severity
      /\ row.routing_status = status
  BY <1>3
  DEF IncidentInsert, RouteInsert, Statement, LoadedIncident, RouteRow, Incident
<1>7. /\ n \in Nat /\ sql_statements \in Seq(Statement)
      /\ sql_statements' \in Seq(Statement)
      /\ DOMAIN sql_statements = 1 .. n /\ DOMAIN sql_statements' = 1 .. n + 2
      /\ \A k \in 1 .. n : sql_statements'[k] = sql_statements[k]
      /\ sql_statements'[n + 1] = IncidentInsert(i)
      /\ sql_statements'[n + 2] = RouteInsert(i, status)
  <2>1. inserts(i, status) = <<IncidentInsert(i), RouteInsert(i, status)>>
    BY DEF inserts
  <2>2. sql_statements \in Seq(Statement)
    BY DEF LoaderInv, LoaderTypeOK
  <2> HIDE DEF n
  <2>3. n \in Nat /\ n = Len(sql_statements)
    BY <2>2 DEF n
  <2> QED
    BY <1>5, <1>6, <2>1, <2>2, <2>3
<1> HIDE DEF n, row
<1>8. \A k \in DOMAIN sql_statements' :
          \/ k \in 1 .. n /\ sql_statements'[k] = sql_statements[k]
          \/ k = n + 1 /\ sql_statements'[k] = IncidentInsert(i)
          \/ k = n + 2 /\ sql_statements'[k] = RouteInsert(i, status)
  BY <1>7
<1>9. LoaderTypeOK'
  BY <1>1, <1>2, <1>7, TypesKept DEF LoaderInv, Phases
<1>10. /\ fact_apm_agent_recommendations' = fact_apm_agent_recommendations
       /\ fact_apm_incidents' = fact_apm_incidents
       /\ fact_apm_alert_routing' = fact_apm_alert_routing
       /\ StoredIncidents' = StoredIncidents /\ StoredRoutes' = StoredRoutes
  BY <1>1 DEF facts, StoredIncidents, StoredRoutes
<1>11. StatementsInOrder'
  <2> SUFFICES ASSUME NEW k \in DOMAIN sql_statements'
               PROVE  LET s == sql_statements'[k] IN
                      /\ s.table = "incidents" =>
                             \A a \in s.row.source_anomaly_ids :
                                 \/ a \in fact_apm_agent_recommendations
                                 \/ \E j \in 1 .. k - 1 :
                                        sql_statements'[j] = RecommendationInsert(a)
                      /\ s.table = "routing" =>
                             \/ fact_apm_incidents[s.row.incident_id] # NoRow
                             \/ \E j \in 1 .. k - 1 :
                                    /\ sql_statements'[j].table = "incidents"
                                    /\ sql_statements'[j].row.incident_id
                                         = s.row.incident_id
    BY <1>10 DEF StatementsInOrder
  <2>1. CASE k \in 1 .. n /\ sql_statements'[k] = sql_statements[k]
    <3>1. \A j \in 1 .. k - 1 : sql_statements'[j] = sql_statements[j]
      BY <1>7, <2>1
    <3> QED
      BY <1>7, <2>1, <3>1 DEF LoaderInv, StatementsInOrder
  <2>2. CASE k = n + 1 /\ sql_statements'[k] = IncidentInsert(i)
    <3>1. ASSUME NEW a \in i.source_anomaly_ids
          PROVE  \E j \in 1 .. k - 1 : sql_statements'[j] = RecommendationInsert(a)
      <4>1. PICK q \in i.rows : a = q.anomaly_id
        BY <1>3 DEF LoaderInv, RowsInv, SummarisesItsRows
      <4>2. q \in input
        BY <1>3 DEF LoaderInv, RowsInv, EveryRowInOneIncident
      <4>3. PICK j \in DOMAIN sql_statements :
                sql_statements[j] = RecommendationInsert(a)
        BY <1>1, <4>1, <4>2 DEF LoaderInv, RunProgress
      <4>4. j \in 1 .. k - 1 /\ sql_statements'[j] = sql_statements[j]
        BY <1>7, <2>2
      <4> QED
        BY <4>3, <4>4
    <3> QED
      BY <1>6, <2>2, <3>1
  <2>3. CASE k = n + 2 /\ sql_statements'[k] = RouteInsert(i, status)
    <3>1. n + 1 \in 1 .. k - 1
      BY <1>7, <2>3
    <3>2. /\ sql_statements'[n + 1].table = "incidents"
          /\ sql_statements'[n + 1].row.incident_id = sql_statements'[k].row.incident_id
      BY <1>6, <1>7, <2>3 DEF row
    <3>3. sql_statements'[k].table # "incidents"
      BY <1>6, <2>3
    <3> QED
      BY <3>1, <3>2, <3>3
  <2> QED
    BY <1>8, <2>1, <2>2, <2>3
<1>12. StoredRowsReferToStoredRows'
  BY <1>10 DEF LoaderInv, StoredRowsReferToStoredRows
<1>13. PendingWasShown'
  <2> SUFFICES ASSUME NEW k \in DOMAIN sql_statements',
                      sql_statements'[k].table = "routing",
                      sql_statements'[k].row.routing_status = "delivered"
               PROVE  sql_statements'[k].row.incident_id \in delivered'
    BY DEF PendingWasShown
  <2>1. CASE k \in 1 .. n /\ sql_statements'[k] = sql_statements[k]
    BY <1>5, <1>7, <2>1 DEF LoaderInv, PendingWasShown
  <2>2. CASE k = n + 2 /\ sql_statements'[k] = RouteInsert(i, status)
    BY <1>5, <1>6, <2>2 DEF row
  <2> QED
    BY <1>6, <1>8, <2>1, <2>2
<1>14. DeliveredWasShown'
  BY <1>5, <1>10 DEF LoaderInv, DeliveredWasShown
<1>15. RunProgress'
  <2>1. todo' = {} /\ unrouted' \subseteq Incidents'
    BY <1>1, <1>2 DEF LoaderInv, RunProgress
  <2>2. carded' = { x.incident_id : x \in { y \in Incidents' \ unrouted' :
                                       y.routing_channel = "teams_card" } }
    <3>1. carded = { x.incident_id : x \in { y \in Incidents \ unrouted :
                                       y.routing_channel = "teams_card" } }
      BY <1>1 DEF LoaderInv, RunProgress
    <3>2. Incidents' \ unrouted' = (Incidents \ unrouted) \union {i}
      BY <1>1, <1>2, <1>3
    <3>3. CASE RouteCard(i)
      <4>1. carded' = carded \union {i.incident_id} /\ i.routing_channel = "teams_card"
        BY <3>3 DEF RouteCard
      <4>2. { y \in Incidents' \ unrouted' : y.routing_channel = "teams_card" }
              = { y \in Incidents \ unrouted : y.routing_channel = "teams_card" }
                \union {i}
        BY <3>2, <4>1
      <4> QED
        BY <3>1, <4>1, <4>2
    <3>4. CASE RouteOther(i)
      <4>1. carded' = carded /\ i.routing_channel # "teams_card"
        BY <3>4 DEF RouteOther
      <4>2. { y \in Incidents' \ unrouted' : y.routing_channel = "teams_card" }
              = { y \in Incidents \ unrouted : y.routing_channel = "teams_card" }
        BY <3>2, <4>1
      <4> QED
        BY <3>1, <4>1, <4>2
    <3> QED
      BY <3>3, <3>4 DEF Route
  <2>3. OwnStatements'
    <3> SUFFICES ASSUME NEW k \in DOMAIN sql_statements'
                 PROVE  LET s == sql_statements'[k] IN
                        /\ s.table = "incidents" => s.row \in Incidents
                        /\ s.table = "routing" =>
                               \E x \in Incidents :
                                   /\ s.row.incident_id = x.incident_id
                                   /\ s.row.severity = x.max_severity
      BY <1>2 DEF OwnStatements
    <3>1. CASE k \in 1 .. n /\ sql_statements'[k] = sql_statements[k]
      BY <1>1, <1>7, <3>1 DEF LoaderInv, RunProgress, OwnStatements
    <3>2. CASE k = n + 1 /\ sql_statements'[k] = IncidentInsert(i)
      BY <1>3, <1>6, <3>2
    <3>3. CASE k = n + 2 /\ sql_statements'[k] = RouteInsert(i, status)
      BY <1>3, <1>6, <3>3 DEF row
    <3> QED
      BY <1>8, <3>1, <3>2, <3>3
  <2>4. \A x \in Incidents' \ unrouted' : IncidentLoaded(x)' /\ RouteLoaded(x)'
    <3> SUFFICES ASSUME NEW x \in Incidents' \ unrouted'
                 PROVE  IncidentLoaded(x)' /\ RouteLoaded(x)'
      OBVIOUS
    <3>1. CASE x = i
      <4>1. n + 1 \in DOMAIN sql_statements' /\ n + 2 \in DOMAIN sql_statements'
        BY <1>7
      <4>2. IncidentLoaded(x)'
        BY <1>7, <3>1, <4>1 DEF IncidentLoaded
      <4>3. RouteLoaded(x)'
        BY <1>6, <1>7, <3>1, <4>1 DEF RouteLoaded, row
      <4> QED
        BY <4>2, <4>3
    <3>2. CASE x # i
      <4>1. IncidentLoaded(x) /\ RouteLoaded(x)
        BY <1>1, <1>2, <3>2 DEF LoaderInv, RunProgress
      <4>2. \A k \in DOMAIN sql_statements :
                k \in DOMAIN sql_statements' /\ sql_statements'[k] = sql_statements[k]
        BY <1>7
      <4>3. IncidentLoaded(x)'
        BY <1>10, <4>1, <4>2 DEF IncidentLoaded
      <4>4. RouteLoaded(x)'
        BY <1>10, <4>1, <4>2 DEF RouteLoaded
      <4> QED
        BY <4>3, <4>4
    <3> QED
      BY <3>1, <3>2
  <2>5. \A r \in input' : \E k \in DOMAIN sql_statements' :
            sql_statements'[k] = RecommendationInsert(r.anomaly_id)
    <3>1. \A k \in DOMAIN sql_statements :
              k \in DOMAIN sql_statements' /\ sql_statements'[k] = sql_statements[k]
      BY <1>7
    <3> QED
      BY <1>1, <1>2, <3>1 DEF LoaderInv, RunProgress
  <2> QED
    BY <1>1, <2>1, <2>2, <2>3, <2>4, <2>5 DEF RunProgress
<1> QED
  BY <1>2, <1>9, <1>11, <1>12, <1>13, <1>14, <1>15 DEF LoaderInv

\* What one statement does: the tables only gain rows, and its own is there.
LEMMA ExecuteStores ==
    ASSUME LoaderInv, Execute
    PROVE  LET s == sql_statements[1] IN
           /\ s \in Statement
           /\ fact_apm_agent_recommendations \subseteq fact_apm_agent_recommendations'
           /\ s.table = "recommendations" =>
                  s.row \in fact_apm_agent_recommendations'
           /\ fact_apm_incidents' \in [IncidentIds -> LoadedIncident \union {NoRow}]
           /\ \A id \in IncidentIds :
                  fact_apm_incidents'[id] =
                      IF s.table = "incidents" /\ s.row.incident_id = id
                      THEN s.row ELSE fact_apm_incidents[id]
           /\ fact_apm_alert_routing' \in [IncidentIds -> RouteRow \union {NoRow}]
           /\ \A id \in IncidentIds :
                  fact_apm_alert_routing'[id] =
                      IF s.table = "routing" /\ s.row.incident_id = id
                      THEN s.row ELSE fact_apm_alert_routing[id]
<1> DEFINE s == sql_statements[1]
<1>0. /\ sql_statements \in Seq(Statement) /\ sql_statements # <<>>
      /\ s = Head(sql_statements)
  BY DEF Execute, LoaderInv, LoaderTypeOK
<1>1. /\ fact_apm_agent_recommendations' =
             IF s.table = "recommendations"
             THEN fact_apm_agent_recommendations \union {s.row}
             ELSE fact_apm_agent_recommendations
      /\ fact_apm_incidents' =
             IF s.table = "incidents"
             THEN [fact_apm_incidents EXCEPT ![s.row.incident_id] = s.row]
             ELSE fact_apm_incidents
      /\ fact_apm_alert_routing' =
             IF s.table = "routing"
             THEN [fact_apm_alert_routing EXCEPT ![s.row.incident_id] = s.row]
             ELSE fact_apm_alert_routing
  BY <1>0, Zenon DEF Execute
<1>2. s \in Statement
  BY <1>0
<1> HIDE DEF s
<1>3. /\ s.table = "incidents" => s.row \in LoadedIncident
                                   /\ s.row.incident_id \in IncidentIds
      /\ s.table = "routing" => s.row \in RouteRow /\ s.row.incident_id \in IncidentIds
  BY <1>2 DEF Statement, LoadedIncident, RouteRow
<1>4. /\ fact_apm_incidents \in [IncidentIds -> LoadedIncident \union {NoRow}]
      /\ fact_apm_alert_routing \in [IncidentIds -> RouteRow \union {NoRow}]
  BY DEF LoaderInv, LoaderTypeOK
<1>5. /\ fact_apm_agent_recommendations \subseteq fact_apm_agent_recommendations'
      /\ s.table = "recommendations" => s.row \in fact_apm_agent_recommendations'
  BY <1>1
<1>6. /\ fact_apm_incidents' \in [IncidentIds -> LoadedIncident \union {NoRow}]
      /\ \A id \in IncidentIds :
             fact_apm_incidents'[id] =
                 IF s.table = "incidents" /\ s.row.incident_id = id
                 THEN s.row ELSE fact_apm_incidents[id]
  BY <1>1, <1>3, <1>4
<1>7. /\ fact_apm_alert_routing' \in [IncidentIds -> RouteRow \union {NoRow}]
      /\ \A id \in IncidentIds :
             fact_apm_alert_routing'[id] =
                 IF s.table = "routing" /\ s.row.incident_id = id
                 THEN s.row ELSE fact_apm_alert_routing[id]
  BY <1>1, <1>3, <1>4
<1> QED
  BY <1>2, <1>5, <1>6, <1>7 DEF s

\* Executing one statement keeps the rest in order: what they refer to was
\* stored, is stored now, or still comes before them.
LEMMA ExecuteKeepsInv ==
    ASSUME LoaderInv, Execute
    PROVE  LoaderInv'
<1> DEFINE s == sql_statements[1]
           n == Len(sql_statements)
<1>1. /\ phase = "execute" /\ sql_statements # <<>>
      /\ sql_statements' = Tail(sql_statements)
      /\ UNCHANGED <<grouping, anomaly_table, phase, unrouted, carded, delivered>>
  BY DEF Execute
<1>2. /\ s \in Statement
      /\ fact_apm_agent_recommendations \subseteq fact_apm_agent_recommendations'
      /\ s.table = "recommendations" => s.row \in fact_apm_agent_recommendations'
      /\ fact_apm_incidents' \in [IncidentIds -> LoadedIncident \union {NoRow}]
      /\ \A id \in IncidentIds :
             fact_apm_incidents'[id] =
                 IF s.table = "incidents" /\ s.row.incident_id = id
                 THEN s.row ELSE fact_apm_incidents[id]
      /\ fact_apm_alert_routing' \in [IncidentIds -> RouteRow \union {NoRow}]
      /\ \A id \in IncidentIds :
             fact_apm_alert_routing'[id] =
                 IF s.table = "routing" /\ s.row.incident_id = id
                 THEN s.row ELSE fact_apm_alert_routing[id]
  BY ExecuteStores
<1>3. /\ n \in Nat \ {0} /\ sql_statements \in Seq(Statement)
      /\ sql_statements' \in Seq(Statement)
      /\ DOMAIN sql_statements = 1 .. n /\ DOMAIN sql_statements' = 1 .. n - 1
      /\ \A k \in 1 .. n - 1 : sql_statements'[k] = sql_statements[k + 1]
  BY <1>1 DEF LoaderInv, LoaderTypeOK
<1> HIDE DEF n, s
<1>4. \A k \in DOMAIN sql_statements' :
          k + 1 \in DOMAIN sql_statements /\ sql_statements'[k] = sql_statements[k + 1]
  BY <1>3
<1>5. \A j \in 1 .. n : \/ j = 1 /\ sql_statements[j] = s
                        \/ j - 1 \in 1 .. n - 1 /\ sql_statements'[j - 1] = sql_statements[j]
  BY <1>3 DEF s
<1>6. IInv' /\ RowsInv' /\ Incidents' = Incidents /\ input' = input /\ todo' = todo
  BY <1>1, GroupingKept DEF LoaderInv, grouping
<1>7. LoaderTypeOK'
  BY <1>1, <1>2, <1>3, <1>6 DEF LoaderInv, LoaderTypeOK
<1>8. /\ s.table = "incidents" => s.row \in LoadedIncident /\ s.row \in Incident
      /\ s.table = "routing" => s.row \in RouteRow
      /\ s.table \in {"recommendations", "incidents", "routing"}
  BY <1>2 DEF Statement, LoadedIncident
<1>9. \A id \in IncidentIds :
          fact_apm_incidents[id] # NoRow => fact_apm_incidents'[id] # NoRow
  BY <1>2, <1>8, NoRowAssumption
<1>10. \A k \in DOMAIN sql_statements :
           sql_statements[k].table = "routing" =>
               sql_statements[k].row.incident_id \in IncidentIds
  <2> SUFFICES ASSUME NEW k \in DOMAIN sql_statements,
                      sql_statements[k].table = "routing"
               PROVE  sql_statements[k].row.incident_id \in IncidentIds
    OBVIOUS
  <2>1. sql_statements[k] \in Statement
    BY <1>3
  <2> QED
    BY <2>1 DEF Statement, RouteRow
<1>11. StatementsInOrder'
  <2> SUFFICES ASSUME NEW k \in DOMAIN sql_statements'
               PROVE  /\ sql_statements'[k].table = "incidents" =>
                             \A a \in sql_statements'[k].row.source_anomaly_ids :
                                 \/ a \in fact_apm_agent_recommendations'
                                 \/ \E j \in 1 .. k - 1 :
                                        sql_statements'[j] = RecommendationInsert(a)
                      /\ sql_statements'[k].table = "routing" =>
                             \/ fact_apm_incidents'[sql_statements'[k].row.incident_id]
                                  # NoRow
                             \/ \E j \in 1 .. k - 1 :
                                    /\ sql_statements'[j].table = "incidents"
                                    /\ sql_statements'[j].row.incident_id
                                         = sql_statements'[k].row.incident_id
    BY DEF StatementsInOrder
  <2> DEFINE t == sql_statements'[k]
  <2>1. k \in 1 .. n - 1 /\ k + 1 \in 1 .. n /\ sql_statements[k + 1] = t
    BY <1>3
  <2>2. \A j \in 1 .. (k + 1) - 1 :
            \/ sql_statements[j] = s
            \/ j - 1 \in 1 .. k - 1 /\ sql_statements'[j - 1] = sql_statements[j]
    BY <1>3, <1>5, <2>1
  <2> HIDE DEF t
  <2>3. ASSUME t.table = "incidents", NEW a \in t.row.source_anomaly_ids
        PROVE  \/ a \in fact_apm_agent_recommendations'
               \/ \E j \in 1 .. k - 1 : sql_statements'[j] = RecommendationInsert(a)
    <3>1. \/ a \in fact_apm_agent_recommendations
          \/ \E j \in 1 .. (k + 1) - 1 : sql_statements[j] = RecommendationInsert(a)
      BY <1>3, <2>1, <2>3 DEF LoaderInv, StatementsInOrder
    <3>2. s = RecommendationInsert(a) => a \in fact_apm_agent_recommendations'
      BY <1>2 DEF RecommendationInsert
    <3> QED
      BY <1>2, <2>2, <3>1, <3>2
  <2>4. ASSUME t.table = "routing"
        PROVE  \/ fact_apm_incidents'[t.row.incident_id] # NoRow
               \/ \E j \in 1 .. k - 1 :
                      /\ sql_statements'[j].table = "incidents"
                      /\ sql_statements'[j].row.incident_id = t.row.incident_id
    <3>1. t.row.incident_id \in IncidentIds
      BY <1>3, <1>10, <2>1, <2>4
    <3>2. \/ fact_apm_incidents[t.row.incident_id] # NoRow
          \/ \E j \in 1 .. (k + 1) - 1 :
                 /\ sql_statements[j].table = "incidents"
                 /\ sql_statements[j].row.incident_id = t.row.incident_id
      BY <1>3, <2>1, <2>4 DEF LoaderInv, StatementsInOrder
    <3>3. s.table = "incidents" /\ s.row.incident_id = t.row.incident_id =>
              fact_apm_incidents'[t.row.incident_id] # NoRow
      BY <1>2, <1>8, <3>1, NoRowAssumption
    <3> QED
      BY <1>9, <2>2, <3>1, <3>2, <3>3
  <2> QED
    BY <2>3, <2>4 DEF t
<1>12. StoredRowsReferToStoredRows'
  <2>1. ASSUME NEW r \in StoredRoutes'
        PROVE  fact_apm_incidents'[r.incident_id] # NoRow
    <3>1. PICK id \in IncidentIds : r = fact_apm_alert_routing'[id] /\ r # NoRow
      BY DEF StoredRoutes
    <3>2. r \in RouteRow /\ r.incident_id \in IncidentIds
      BY <1>2, <3>1 DEF RouteRow
    <3>3. CASE r = s.row /\ s.table = "routing"
      <4>1. 1 \in DOMAIN sql_statements /\ sql_statements[1] = s /\ ~(\E j \in 1 .. 1 - 1 : TRUE)
        BY <1>3 DEF s
      <4>2. fact_apm_incidents[r.incident_id] # NoRow
        BY <3>3, <4>1 DEF LoaderInv, StatementsInOrder
      <4> QED
        BY <1>9, <3>2, <4>2
    <3>4. CASE r = fact_apm_alert_routing[id]
      <4>1. r \in StoredRoutes
        BY <3>1, <3>4 DEF StoredRoutes
      <4> QED
        BY <1>9, <3>2, <4>1 DEF LoaderInv, StoredRowsReferToStoredRows
    <3> QED
      BY <1>2, <3>1, <3>3, <3>4
  <2>2. ASSUME NEW i \in StoredIncidents'
        PROVE  i.source_anomaly_ids \subseteq fact_apm_agent_recommendations'
    <3>1. PICK id \in IncidentIds : i = fact_apm_incidents'[id] /\ i # NoRow
      BY DEF StoredIncidents
    <3>2. CASE i = s.row /\ s.table = "incidents"
      <4>1. 1 \in DOMAIN sql_statements /\ sql_statements[1] = s /\ ~(\E j \in 1 .. 1 - 1 : TRUE)
        BY <1>3 DEF s
      <4>2. i.source_anomaly_ids \subseteq fact_apm_agent_recommendations
        BY <3>2, <4>1 DEF LoaderInv, StatementsInOrder
      <4> QED
        BY <1>2, <4>2
    <3>3. CASE i = fact_apm_incidents[id]
      <4>1. i \in StoredIncidents
        BY <3>1, <3>3 DEF StoredIncidents
      <4> QED
        BY <1>2, <4>1 DEF LoaderInv, StoredRowsReferToStoredRows
    <3> QED
      BY <1>2, <3>1, <3>2, <3>3
  <2> QED
    BY <2>1, <2>2 DEF StoredRowsReferToStoredRows
<1>13. PendingWasShown'
  BY <1>1, <1>4 DEF LoaderInv, PendingWasShown
<1>14. DeliveredWasShown'
  <2> SUFFICES ASSUME NEW r \in StoredRoutes', r.routing_status = "delivered"
               PROVE  r.incident_id \in delivered
    BY <1>1 DEF DeliveredWasShown
  <2>1. PICK id \in IncidentIds : r = fact_apm_alert_routing'[id] /\ r # NoRow
    BY DEF StoredRoutes
  <2>2. CASE r = s.row /\ s.table = "routing"
    <3>1. 1 \in DOMAIN sql_statements /\ sql_statements[1] = s
      BY <1>3 DEF s
    <3> QED
      BY <2>2, <3>1 DEF LoaderInv, PendingWasShown
  <2>3. CASE r = fact_apm_alert_routing[id]
    <3>1. r \in StoredRoutes
      BY <2>1, <2>3 DEF StoredRoutes
    <3> QED
      BY <3>1 DEF LoaderInv, DeliveredWasShown
  <2> QED
    BY <1>2, <2>1, <2>2, <2>3
<1>15. RunProgress'
  <2>1. /\ todo' = {} /\ unrouted' = {} /\ unrouted = {}
        /\ OwnStatements
        /\ \A i \in Incidents : IncidentLoaded(i) /\ RouteLoaded(i)
    BY <1>1, <1>6 DEF LoaderInv, RunProgress
  <2>2. OwnStatements'
    BY <1>4, <1>6, <2>1 DEF OwnStatements
  <2>3. 1 \in DOMAIN sql_statements /\ sql_statements[1] = s
    BY <1>3 DEF s
  <2>4. ASSUME NEW i \in Incidents PROVE IncidentLoaded(i)' /\ RouteLoaded(i)'
    <3>1. i.incident_id \in IncidentIds
      BY IncidentIsLoadable DEF LoadedIncident
    <3>2. \A x \in Incidents : x.incident_id = i.incident_id => x = i
      BY IdsUnique DEF LoaderInv, IncidentIdsUnique
    <3>3. IncidentLoaded(i)'
      <4>1. CASE fact_apm_incidents[i.incident_id] = i
        <5>1. s.table = "incidents" /\ s.row.incident_id = i.incident_id => s.row = i
          BY <2>1, <2>3, <3>2 DEF OwnStatements
        <5> QED
          BY <1>2, <3>1, <4>1, <5>1 DEF IncidentLoaded
      <4>2. CASE \E k \in DOMAIN sql_statements :
                     sql_statements[k] = IncidentInsert(i)
        <5>1. s = IncidentInsert(i) => fact_apm_incidents'[i.incident_id] = i
          BY <1>2, <3>1 DEF IncidentInsert
        <5> QED
          BY <1>3, <1>5, <4>2, <5>1 DEF IncidentLoaded
      <4> QED
        BY <2>1, <4>1, <4>2 DEF IncidentLoaded
    <3>4. RouteLoaded(i)'
      <4>1. s.table = "routing" /\ s.row.incident_id = i.incident_id =>
                s.row.severity = i.max_severity
        BY <2>1, <2>3, <3>2 DEF OwnStatements
      <4>2. CASE fact_apm_alert_routing[i.incident_id].severity = i.max_severity
        BY <1>2, <3>1, <4>1, <4>2 DEF RouteLoaded
      <4>3. CASE \E k \in DOMAIN sql_statements :
                     /\ sql_statements[k].table = "routing"
                     /\ sql_statements[k].row.incident_id = i.incident_id
        <5>1. PICK k \in 1 .. n :
                  /\ sql_statements[k].table = "routing"
                  /\ sql_statements[k].row.incident_id = i.incident_id
          BY <1>3, <4>3
        <5>2. CASE sql_statements[k] = s
          <6>1. fact_apm_alert_routing'[i.incident_id] = s.row
            BY <1>2, <3>1, <5>1, <5>2
          <6> QED
            BY <4>1, <5>1, <5>2, <6>1 DEF RouteLoaded
        <5>3. CASE k - 1 \in 1 .. n - 1 /\ sql_statements'[k - 1] = sql_statements[k]
          BY <1>3, <5>1, <5>3 DEF RouteLoaded
        <5> QED
          BY <1>5, <5>2, <5>3
      <4> QED
        BY <2>1, <4>2, <4>3 DEF RouteLoaded
    <3> QED
      BY <3>3, <3>4
  <2>5. carded' = { i.incident_id : i \in { x \in Incidents' \ unrouted' :
                                       x.routing_channel = "teams_card" } }
    BY <1>1, <1>6 DEF LoaderInv, RunProgress
  <2> QED
    BY <1>1, <1>6, <2>1, <2>2, <2>4, <2>5 DEF RunProgress
<1> QED
  BY <1>6, <1>7, <1>11, <1>12, <1>13, <1>14, <1>15 DEF LoaderInv

-----------------------------------------------------------------------------
(* The properties.                                                         *)

\* The invariant is inductive.
THEOREM LoaderInvariance == LoaderSpec => []LoaderInv
<1>1. LoaderInit => LoaderInv
  BY InitLoaderInv
<1>2. LoaderInv /\ [LoaderNext]_allvars => LoaderInv'
  <2> SUFFICES ASSUME LoaderInv, [LoaderNext]_allvars PROVE LoaderInv'
    OBVIOUS
  <2>1. ASSUME NEW r \in Rows, Arrive(r) PROVE LoaderInv'
    BY <2>1, ArriveKeepsInv
  <2>2. CASE Query
    BY <2>2, QueryKeepsInv
  <2>3. CASE Group
    BY <2>3, GroupKeepsInv
  <2>4. CASE Recommend
    BY <2>4, RecommendKeepsInv
  <2>5. CASE Abort
    BY <2>5, AbortKeepsInv
  <2>6. ASSUME NEW i \in unrouted, Route(i) PROVE LoaderInv'
    BY <2>6, RouteKeepsInv
  <2>7. CASE StartExecute
    BY <2>7, StartExecuteKeepsInv
  <2>8. CASE Execute
    BY <2>8, ExecuteKeepsInv
  <2>9. CASE ExecuteEnds
    BY <2>9, ExecuteEndsKeepsInv
  <2>10. CASE UNCHANGED allvars
    <3>1. UNCHANGED <<grouping, anomaly_table, loader, delivered, facts>>
      BY <2>10 DEF allvars
    <3>2. IInv' /\ RowsInv' /\ Incidents' = Incidents
      BY <3>1, GroupingKept DEF LoaderInv
    <3>3. LoaderTypeOK'
      BY <3>1, TypesKept DEF LoaderInv, LoaderTypeOK, grouping, loader
    <3>4. /\ StatementsInOrder' /\ StoredRowsReferToStoredRows'
          /\ PendingWasShown' /\ DeliveredWasShown'
      BY <3>1, StoreKept DEF loader
    <3>5. RunProgress'
      BY <3>1, <3>2, ProgressKept DEF LoaderInv, loader, grouping
    <3> QED
      BY <3>2, <3>3, <3>4, <3>5 DEF LoaderInv
  <2> QED
    BY <2>1, <2>2, <2>3, <2>4, <2>5, <2>6, <2>7, <2>8, <2>9, <2>10 DEF LoaderNext
<1> QED
  BY <1>1, <1>2, PTL DEF LoaderSpec

\* However the script of any run was cut short, a stored route has its
\* incident and a stored incident the recommendations of its anomalies.
THEOREM StoredRowsReferToStored == LoaderSpec => []StoredRowsReferToStoredRows
<1>1. LoaderInv => StoredRowsReferToStoredRows
  BY DEF LoaderInv
<1> QED
  BY <1>1, LoaderInvariance, PTL

\* A route is stored as delivered only if Teams has shown the incident.
THEOREM DeliveredMeansShown == LoaderSpec => []DeliveredWasShown
<1>1. LoaderInv => DeliveredWasShown
  BY DEF LoaderInv
<1> QED
  BY <1>1, LoaderInvariance, PTL

\* The channel of an incident is the Teams card exactly when one of its rows
\* is critical.
LEMMA CardForCritical ==
    ASSUME LoaderInv, NEW i \in Incidents
    PROVE  i.routing_channel = "teams_card" <=> \E r \in i.rows : r.severity = "critical"
BY WorstRowChannel DEF LoaderInv, ChannelFollowsWorstRow

\* A run that ends well has stored all it read, with the route of the final
\* severity, and carded the incidents with a critical row and no other.
THEOREM LoadedRunComplete == LoaderSpec => []LoadedRunIsComplete
<1>1. LoaderInv => LoadedRunIsComplete
  <2> SUFFICES ASSUME LoaderInv, phase = "loaded"
               PROVE  /\ \A i \in Incidents :
                             /\ fact_apm_incidents[i.incident_id] = i
                             /\ fact_apm_alert_routing[i.incident_id].severity
                                    = i.max_severity
                             /\ i.incident_id \in carded
                                    <=> \E r \in i.rows : r.severity = "critical"
                      /\ UNION { i.rows : i \in Incidents } = input
    BY DEF LoadedRunIsComplete
  <2>1. /\ todo = {} /\ unrouted = {} /\ sql_statements = <<>>
        /\ carded = { i.incident_id : i \in { x \in Incidents \ unrouted :
                                         x.routing_channel = "teams_card" } }
        /\ \A i \in Incidents : IncidentLoaded(i) /\ RouteLoaded(i)
    BY DEF LoaderInv, RunProgress
  <2>2. ASSUME NEW i \in Incidents
        PROVE  /\ fact_apm_incidents[i.incident_id] = i
               /\ fact_apm_alert_routing[i.incident_id].severity = i.max_severity
    BY <2>1 DEF IncidentLoaded, RouteLoaded
  <2>3. ASSUME NEW i \in Incidents
        PROVE  i.incident_id \in carded <=> \E r \in i.rows : r.severity = "critical"
    <3>1. i.incident_id \in carded <=> i.routing_channel = "teams_card"
      BY <2>1, IdsUnique DEF LoaderInv, IncidentIdsUnique
    <3> QED
      BY <3>1, CardForCritical
  <2>4. UNION { i.rows : i \in Incidents } = input
    BY <2>1 DEF LoaderInv, RowsInv, EveryRowInOneIncident
  <2> QED
    BY <2>2, <2>3, <2>4
<1> QED
  BY <1>1, LoaderInvariance, PTL

=============================================================================
