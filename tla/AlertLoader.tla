----------------------------- MODULE AlertLoader -----------------------------
(***************************************************************************)
(* main of src/scripts/phase4-load-incidents.py, run again and again while *)
(* anomaly rows arrive: the newest rows are read, grouped into incidents   *)
(* by IncidentWorkflow, critical incidents are sent to Teams, and only     *)
(* then all INSERT statements are executed as one script, which stops at   *)
(* the first that fails.  The fact tables keep the last row of each key.   *)
(*                                                                         *)
(* Data kept: the statements about recommendations, incidents and routes,  *)
(* in their order.  Evidence and invocation rows go with the               *)
(* recommendation of their anomaly; how that one is chosen is in           *)
(* TriageRecommendation.  The demo feedback row is left out.               *)
(***************************************************************************)
EXTENDS IncidentWorkflow, Sequences, SequencesExt

CONSTANTS
    Rows,          \* anomaly rows that may arrive in the serving store
    Limit,         \* --limit
    MaxRuns,       \* runs of the loader (bound)
    NoRow          \* key absent from a fact table

ASSUME RowAssumption   == Rows \subseteq AnomalyRow
ASSUME LimitAssumption == Limit \in Nat \ {0} /\ MaxRuns \in Nat
ASSUME NoRowAssumption == NoRow \notin Incident

VARIABLES
    anomaly_table,       \* dwd_apm_anomaly_events
    phase,               \* what the loader does next
    unrouted,            \* incidents the routing loop has not visited
    sql_statements,      \* statements built and not executed
    carded,              \* ids of this run's incidents send_teams_card was called for
    delivered,           \* ids of incidents Teams has shown in any run
    fact_apm_agent_recommendations, fact_apm_incidents, fact_apm_alert_routing,
    webhook,             \* TEAMS_WEBHOOK_URL is set
    runs                 \* runs started

facts == <<fact_apm_agent_recommendations, fact_apm_incidents,
           fact_apm_alert_routing>>
grouping == <<input, todo, active, resolved>>
loader == <<phase, unrouted, sql_statements, carded>>
allvars == <<grouping, anomaly_table, loader, delivered, facts, webhook, runs>>

IncidentIds == BaseKeys \X { r.ts \div Bucket : r \in Rows }
Statuses    == {"simulated", "delivered", "failed"}

LoaderInit ==
    /\ input = {} /\ todo = {} /\ resolved = {}
    /\ active = [b \in BaseKeys |-> NoIncident]
    /\ anomaly_table = {}
    /\ phase = "start"
    /\ unrouted = {} /\ sql_statements = <<>> /\ carded = {}
    /\ delivered = {}
    /\ fact_apm_agent_recommendations = {}
    /\ fact_apm_incidents = [i \in IncidentIds |-> NoRow]
    /\ fact_apm_alert_routing = [i \in IncidentIds |-> NoRow]
    /\ webhook \in BOOLEAN
    /\ runs = 0

\* Flink's anomalies reach the store, in any order.
Arrive(r) ==
    /\ r \notin anomaly_table
    /\ anomaly_table' = anomaly_table \union {r}
    /\ UNCHANGED <<grouping, loader, delivered, facts, webhook, runs>>

\* ORDER BY window_start DESC, anomaly_id LIMIT n; ties in any order.
newer(a, b) ==
    \/ a.ts > b.ts
    \/ a.ts = b.ts /\ a.anomaly_id < b.anomaly_id
Newest(W) ==
    /\ W \subseteq anomaly_table
    /\ Cardinality(W) <= Limit
    /\ Cardinality(W) = Limit \/ W = anomaly_table
    /\ \A a \in W, b \in anomaly_table \ W : ~newer(b, a)

Query ==
    /\ phase \in {"start", "loaded", "aborted"}
    /\ runs < MaxRuns
    /\ runs' = runs + 1
    /\ \E W \in SUBSET anomaly_table \ {{}} : Newest(W) /\ input' = W
    /\ todo' = input'
    /\ active' = [b \in BaseKeys |-> NoIncident]
    /\ resolved' = {}
    /\ phase' = "group"
    /\ unrouted' = {} /\ sql_statements' = <<>> /\ carded' = {}
    /\ UNCHANGED <<anomaly_table, delivered, facts, webhook>>

Group ==
    /\ phase = "group"
    /\ Next
    /\ UNCHANGED <<anomaly_table, loader, delivered, facts, webhook, runs>>

\* Evidence and a recommendation for every row.
Recommend ==
    /\ phase = "group" /\ todo = {}
    /\ phase' = "route"
    /\ unrouted' = Incidents
    /\ sql_statements' =
           SetToSeq({ [ table |-> "recommendations", row |-> r.anomaly_id ] :
                          r \in input })
    /\ UNCHANGED <<grouping, anomaly_table, carded, delivered, facts, webhook,
                   runs>>

\* A non-zero exit of a query's subprocess, or the death of the loader.
Abort ==
    /\ phase \in {"group", "route"}
    /\ phase' = "aborted"
    /\ UNCHANGED <<grouping, anomaly_table, unrouted, sql_statements, carded,
                   delivered, facts, webhook, runs>>

IncidentInsert(i)      == [ table |-> "incidents", row |-> i ]
RouteInsert(i, status) ==
    [ table |-> "routing",
      row |-> [ incident_id |-> i.incident_id, severity |-> i.max_severity,
                routing_channel |-> i.routing_channel,
                routing_status |-> status ] ]

inserts_swapped(i, status) == <<RouteInsert(i, status), IncidentInsert(i)>>
inserts(i, status) == <<IncidentInsert(i), RouteInsert(i, status)>>

\* send_teams_card: no webhook, a 2xx answer, or an error, which may come
\* after Teams has taken the card (a timeout).
send_teams_card_optimistic(i, status) ==
    \/ ~webhook /\ status = "simulated" /\ UNCHANGED delivered
    \/ webhook /\ status = "delivered"
       /\ delivered' \in {delivered, delivered \union {i.incident_id}}
send_teams_card(i, status) ==
    \/ ~webhook /\ status = "simulated" /\ UNCHANGED delivered
    \/ webhook /\ status = "delivered"
       /\ delivered' = delivered \union {i.incident_id}
    \/ webhook /\ status = "failed"
       /\ delivered' \in {delivered, delivered \union {i.incident_id}}

RouteCard(i) ==
    /\ i.routing_channel = "teams_card"
    /\ carded' = carded \union {i.incident_id}
    /\ \E status \in Statuses :
         /\ send_teams_card(i, status)
         /\ sql_statements' = sql_statements \o inserts(i, status)

RouteOther(i) ==
    /\ i.routing_channel # "teams_card"
    /\ sql_statements' = sql_statements \o inserts(i, "simulated")
    /\ UNCHANGED <<carded, delivered>>

Route(i) ==
    /\ phase = "route"
    /\ i \in unrouted
    /\ unrouted' = unrouted \ {i}
    /\ RouteCard(i) \/ RouteOther(i)
    /\ UNCHANGED <<grouping, anomaly_table, phase, facts, webhook, runs>>

StartExecute ==
    /\ phase = "route" /\ unrouted = {}
    /\ phase' = "execute"
    /\ UNCHANGED <<grouping, anomaly_table, unrouted, sql_statements, carded,
                   delivered, facts, webhook, runs>>

\* One statement of the script; a later row replaces the one of its key.
Execute ==
    /\ phase = "execute" /\ sql_statements # <<>>
    /\ LET s == Head(sql_statements) IN
         /\ fact_apm_agent_recommendations' =
                IF s.table = "recommendations"
                THEN fact_apm_agent_recommendations \union {s.row}
                ELSE fact_apm_agent_recommendations
         /\ fact_apm_incidents' =
                IF s.table = "incidents"
                THEN [fact_apm_incidents EXCEPT ![s.row.incident_id] = s.row]
                ELSE fact_apm_incidents
         /\ fact_apm_alert_routing' =
                IF s.table = "routing"
                THEN [fact_apm_alert_routing EXCEPT ![s.row.incident_id] = s.row]
                ELSE fact_apm_alert_routing
    /\ sql_statements' = Tail(sql_statements)
    /\ UNCHANGED <<grouping, anomaly_table, phase, unrouted, carded, delivered,
                   webhook, runs>>

\* The script ends, or stops with the statements before kept.
ExecuteEnds ==
    /\ phase = "execute"
    /\ phase' = IF sql_statements = <<>> THEN "loaded" ELSE "aborted"
    /\ UNCHANGED <<grouping, anomaly_table, unrouted, sql_statements, carded,
                   delivered, facts, webhook, runs>>

LoaderNext ==
    \/ \E r \in Rows : Arrive(r)
    \/ Query \/ Group \/ Recommend \/ Abort
    \/ \E i \in unrouted : Route(i)
    \/ StartExecute \/ Execute \/ ExecuteEnds

LoaderSpec == LoaderInit /\ [][LoaderNext]_allvars

-----------------------------------------------------------------------------
(* Correctness.                                                            *)

StoredIncidents == { fact_apm_incidents[i] : i \in IncidentIds } \ {NoRow}
StoredRoutes    == { fact_apm_alert_routing[i] : i \in IncidentIds } \ {NoRow}

\* However the script was cut short, and by whichever run, a stored route has
\* its incident, and both the incident's anomalies their recommendations.
StoredRowsReferToStoredRows ==
    /\ \A r \in StoredRoutes : fact_apm_incidents[r.incident_id] # NoRow
    /\ \A i \in StoredIncidents :
           i.source_anomaly_ids \subseteq fact_apm_agent_recommendations

\* A route stored as delivered was shown in Teams, now or in an earlier run
\* (teams.py:72, whose status the loader stores lines 143-152).
DeliveredWasShown ==
    \A r \in StoredRoutes :
        r.routing_status = "delivered" => r.incident_id \in delivered

\* A run that ends well has called send_teams_card, whatever became of the card,
\* for every critical row it read and no other, wherever in its incident the
\* row came, and stored every incident with the route that belongs to its final
\* severity.
LoadedRunIsComplete ==
    phase = "loaded" =>
        /\ \A i \in Incidents :
               /\ fact_apm_incidents[i.incident_id] = i
               /\ fact_apm_alert_routing[i.incident_id].severity
                      = i.max_severity
               /\ i.incident_id \in carded
                      <=> \E r \in i.rows : r.severity = "critical"
        /\ UNION { i.rows : i \in Incidents } = input

\* "Incident correlation (time-bucketed dedup + cooldown)" (README.md:65): an
\* anomaly is in one stored incident.  The loader groups only the newest rows
\* of the moment, so that a later run may start the same incident elsewhere.
StoredAnomalyInOneIncident ==
    \A i, j \in StoredIncidents :
        /\ i.base = j.base
        /\ i.source_anomaly_ids \intersect j.source_anomaly_ids # {}
        => i = j

=============================================================================
