-------------------------- MODULE IncidentWorkflow --------------------------
(***************************************************************************)
(* group_anomalies of src/src/alerts/incident_workflow.py: the anomaly     *)
(* rows the phase-4 loader has read are visited in sorted order and folded *)
(* into incidents.  A row joins the active incident of its base key unless *)
(* more than the cooldown has passed since that incident was last seen; in *)
(* that case the incident is resolved and the row opens a new one.         *)
(*                                                                         *)
(* Data kept: of a row, its tenant, its signal (the asset, metric and rule *)
(* of its base key taken together), time, id and severity; of an incident, *)
(* every field a step reads or changes.  "status" is left out, no step     *)
(* changes it.  The SHA-1 of a correlation key stands for the key itself.  *)
(*                                                                         *)
(* A definition named like another one with an added suffix is a faulty    *)
(* variant of it, which the properties are to detect and no specification  *)
(* uses; so in every module of the project.                                *)
(***************************************************************************)
EXTENDS Integers, FiniteSets

CONSTANTS
    Tenants,      \* tenant ids, as integers: their string order matters
    Signals,      \* <asset_id, metric_name, rule_id> triples
    Copies,       \* tells apart rows the append-only table holds twice
    Inputs,       \* the row sets a call of group_anomalies may be given
    Bucket,       \* bucket_minutes of correlation_key
    Cooldown,     \* cooldown_minutes of group_anomalies
    NoIncident    \* base key absent from the dict of active incidents

Severities == {"critical", "warning", "info", "other"}
Channels   == {"teams_card", "ticket_simulated", "dashboard_only"}
BaseKeys   == Tenants \X Signals

AnomalyRow == [ tenant: Tenants, signal: Signals, ts: Nat, anomaly_id: Nat,
                severity: Severities, copy: Copies ]

\* The rows field is a history: which rows the incident has absorbed.
Incident == [ incident_id: BaseKeys \X Nat, base: BaseKeys,
              first_seen: Nat, last_seen: Nat, anomaly_count: Nat,
              max_severity: Severities, routing_channel: Channels,
              source_anomaly_ids: SUBSET Nat, primary: Nat,
              rows: SUBSET AnomalyRow ]

\* group_anomalies and correlation_key are called with their defaults, a
\* bucket of 5 minutes and a cooldown of 10.
ASSUME BucketAssumption   == Bucket \in Nat \ {0}
ASSUME CooldownAssumption == Cooldown \in Nat /\ Bucket <= Cooldown
ASSUME TenantAssumption   == Tenants \subseteq Nat
ASSUME InputAssumption    == Inputs \subseteq SUBSET AnomalyRow
ASSUME NoIncidentAssumption == NoIncident \notin Incident

VARIABLES
    input,        \* the anomalies argument
    todo,         \* rows the for loop has not visited
    active,       \* base key -> active incident
    resolved      \* incidents popped from active

vars == <<input, todo, active, resolved>>

-----------------------------------------------------------------------------
(* Keys, severities and the order of the loop.                             *)

base_correlation_key(r) == <<r.tenant, r.signal>>

correlation_key_unbucketed(r) == <<base_correlation_key(r), 0>>
correlation_key(r) == <<base_correlation_key(r), r.ts \div Bucket>>

severity_rank(s) == CASE s = "critical" -> 3
                      [] s = "warning"  -> 2
                      [] s = "info"     -> 1
                      [] OTHER          -> 0

severity_route_no_default(s) == CASE s = "critical" -> "teams_card"
                                  [] s = "warning"  -> "ticket_simulated"
                                  [] s = "info"     -> "dashboard_only"
                                  [] OTHER          -> s

severity_route(s) == CASE s = "critical" -> "teams_card"
                       [] s = "warning"  -> "ticket_simulated"
                       [] OTHER          -> "dashboard_only"

sort_key_time_last(a, b) ==
    \/ a.tenant < b.tenant
    \/ a.tenant = b.tenant /\ a.anomaly_id < b.anomaly_id
    \/ a.tenant = b.tenant /\ a.anomaly_id = b.anomaly_id /\ a.ts <= b.ts

\* a's sort key is not above b's: tenant, then time, then anomaly id.
sort_key_leq(a, b) ==
    \/ a.tenant < b.tenant
    \/ a.tenant = b.tenant /\ a.ts < b.ts
    \/ a.tenant = b.tenant /\ a.ts = b.ts /\ a.anomaly_id <= b.anomaly_id

\* Rows the loop may visit next; equal keys stay in the order of the query.
NextRow(r) == \A t \in todo : sort_key_leq(r, t)

-----------------------------------------------------------------------------
(* The two ways an incident changes.                                       *)

new_incident(r) ==
    [ incident_id |-> correlation_key(r), base |-> base_correlation_key(r),
      first_seen |-> r.ts, last_seen |-> r.ts, anomaly_count |-> 1,
      max_severity |-> r.severity,
      routing_channel |-> severity_route(r.severity),
      source_anomaly_ids |-> {r.anomaly_id}, primary |-> r.anomaly_id,
      rows |-> {r} ]

raises(i, r) == severity_rank(r.severity) > severity_rank(i.max_severity)

update_incident_channel_kept(i, r) ==
    [ i EXCEPT !.last_seen = r.ts, !.anomaly_count = @ + 1,
               !.max_severity = IF raises(i, r) THEN r.severity ELSE @,
               !.source_anomaly_ids = @ \union {r.anomaly_id},
               !.rows = @ \union {r} ]

update_incident(i, r) ==
    [ i EXCEPT !.last_seen = r.ts, !.anomaly_count = @ + 1,
               !.max_severity = IF raises(i, r) THEN r.severity ELSE @,
               !.routing_channel =
                   IF raises(i, r) THEN severity_route(r.severity) ELSE @,
               !.source_anomaly_ids = @ \union {r.anomaly_id},
               !.rows = @ \union {r} ]

cooldown_over_inclusive(i, r) == r.ts >= i.last_seen + Cooldown
cooldown_over_from_first(i, r) == r.ts > i.first_seen + Cooldown
cooldown_over(i, r) == r.ts > i.last_seen + Cooldown

-----------------------------------------------------------------------------
Init ==
    /\ input \in Inputs
    /\ todo = input
    /\ active = [b \in BaseKeys |-> NoIncident]
    /\ resolved = {}

Visit(r) ==
    /\ NextRow(r)
    /\ todo' = todo \ {r}
    /\ UNCHANGED input

OpenFirst(r) ==
    LET b == base_correlation_key(r) IN
    /\ Visit(r)
    /\ active[b] = NoIncident
    /\ active' = [active EXCEPT ![b] = new_incident(r)]
    /\ UNCHANGED resolved

ResolveAndReopen_not_kept(r) ==
    LET b == base_correlation_key(r) IN
    /\ Visit(r)
    /\ active[b] # NoIncident
    /\ cooldown_over(active[b], r)
    /\ active' = [active EXCEPT ![b] = new_incident(r)]
    /\ UNCHANGED resolved

ResolveAndReopen(r) ==
    LET b == base_correlation_key(r) IN
    /\ Visit(r)
    /\ active[b] # NoIncident
    /\ cooldown_over(active[b], r)
    /\ resolved' = resolved \union {active[b]}
    /\ active' = [active EXCEPT ![b] = new_incident(r)]

Update(r) ==
    LET b == base_correlation_key(r) IN
    /\ Visit(r)
    /\ active[b] # NoIncident
    /\ ~cooldown_over(active[b], r)
    /\ active' = [active EXCEPT ![b] = update_incident(active[b], r)]
    /\ UNCHANGED resolved

Next == \E r \in todo : OpenFirst(r) \/ ResolveAndReopen(r) \/ Update(r)

Spec == Init /\ [][Next]_vars

\* The list group_anomalies returns once todo is empty.
Incidents == resolved \union ({active[b] : b \in BaseKeys} \ {NoIncident})

-----------------------------------------------------------------------------
(* Correctness.                                                            *)

\* Every variable keeps its type; each active incident is under its own key.
TypeOK ==
    /\ input \subseteq AnomalyRow
    /\ todo \subseteq input
    /\ active \in [BaseKeys -> Incident \union {NoIncident}]
    /\ resolved \subseteq Incident

\* No two incidents of one call share an id.  The id is the hash of the
\* base key and the 5-minute bucket of the first row alone: it is the
\* cooldown being at least the bucket that keeps ids apart (line 88).
IncidentIdsUnique ==
    \A i, j \in Incidents : i.incident_id = j.incident_id => i = j

\* Two incidents of one base key are more than a cooldown apart: what the
\* loop resolves could not have absorbed a row that comes later (line 67).
IncidentsSeparated ==
    \A i, j \in Incidents :
        i.base = j.base /\ i # j =>
            \/ i.last_seen + Cooldown < j.first_seen
            \/ j.last_seen + Cooldown < i.first_seen

\* Every row visited is in exactly one incident, under its own base key.
EveryRowInOneIncident ==
    /\ \A r \in input \ todo : \E i \in Incidents : r \in i.rows
    /\ \A i, j \in Incidents : i.rows \intersect j.rows # {} => i = j
    /\ \A i \in Incidents : \A r \in i.rows :
           r \in input \ todo /\ i.base = base_correlation_key(r)

\* However late in an incident a critical row arrives, the incident ends up
\* on the Teams channel, and no other does (lines 116-119).
ChannelFollowsWorstRow ==
    \A i \in Incidents :
        /\ i.routing_channel = "teams_card"
               <=> \E r \in i.rows : r.severity = "critical"
        /\ i.routing_channel = "ticket_simulated"
               <=> /\ \E r \in i.rows : r.severity = "warning"
                   /\ \A r \in i.rows : r.severity # "critical"

\* The reference definition of what the loop computes: a and b are linked if
\* each row of their base key from a up to b has a later one in its cooldown.
Linked(a, b) ==
    LET peers == { r \in input :
                     base_correlation_key(r) = base_correlation_key(a) }
    IN  /\ b \in peers
        /\ \A q \in peers : a.ts <= q.ts /\ q.ts < b.ts =>
               \E r \in peers : q.ts < r.ts /\ r.ts <= q.ts + Cooldown

\* When the loop ends two rows share an incident exactly when they are
\* linked: the result is independent of the order the query returned them.
GroupsAreLinkedRows ==
    todo = {} =>
        \A a, b \in input :
            a.ts <= b.ts =>
                ((\E i \in Incidents : {a, b} \subseteq i.rows) <=> Linked(a, b))

\* An incident is never dropped, split or eased: it keeps its id, absorbs
\* rows and its severity rank only rises (lines 68, 107-123).
IncidentsOnlyGrow ==
    [][ \A i \in Incidents : \E j \in Incidents' :
            /\ j.incident_id = i.incident_id
            /\ j.first_seen = i.first_seen
            /\ i.rows \subseteq j.rows
            /\ severity_rank(j.max_severity) >= severity_rank(i.max_severity)
      ]_vars

=============================================================================
