----------------------- MODULE IncidentWorkflowProofs -----------------------
(***************************************************************************)
(* Proofs about IncidentWorkflow, for every set of tenants, signals and    *)
(* input rows and every cooldown that is at least the bucket.              *)
(***************************************************************************)
EXTENDS IncidentWorkflow, TLAPS

\* What the loop keeps about times: its rows only get later, an incident spans
\* first_seen to last_seen, its id is fixed by its key and first row, and a
\* resolved incident ended more than a cooldown before the active one of its
\* base key, which exists.
IncidentShape(i) ==
    /\ i.first_seen <= i.last_seen
    /\ i.incident_id = <<i.base, i.first_seen \div Bucket>>

LaterRowsOnly ==
    \A i \in Incidents : \A t \in todo :
        i.base[1] = t.tenant => i.last_seen <= t.ts

ActiveUnderOwnKey ==
    \A b \in BaseKeys : active[b] # NoIncident => active[b].base = b

ResolvedBeforeActive ==
    \A i \in resolved :
        /\ active[i.base] # NoIncident
        /\ i.last_seen + Cooldown < active[i.base].first_seen

IInv ==
    /\ TypeOK
    /\ \A i \in Incidents : IncidentShape(i)
    /\ LaterRowsOnly
    /\ ActiveUnderOwnKey
    /\ ResolvedBeforeActive
    /\ IncidentsSeparated

\* What an incident is made of: rows between first_seen and last_seen, one at
\* either end, and from each row that is not last to a later one no more than
\* a cooldown; its ids, its severity and its channel are those of its rows.
SpansItsRows(i) ==
    /\ \A q \in i.rows : i.first_seen <= q.ts /\ q.ts <= i.last_seen
    /\ \E q \in i.rows : q.ts = i.first_seen
    /\ \E q \in i.rows : q.ts = i.last_seen

Chained(i) ==
    \A q \in i.rows : q.ts < i.last_seen =>
        \E s \in i.rows : q.ts < s.ts /\ s.ts <= q.ts + Cooldown

SummarisesItsRows(i) ==
    /\ i.source_anomaly_ids = { q.anomaly_id : q \in i.rows }
    /\ \E q \in i.rows : q.severity = i.max_severity
    /\ \A q \in i.rows : severity_rank(q.severity) <= severity_rank(i.max_severity)
    /\ i.routing_channel = severity_route(i.max_severity)

RowsInv ==
    /\ EveryRowInOneIncident
    /\ \A i \in Incidents : SpansItsRows(i) /\ Chained(i) /\ SummarisesItsRows(i)

-----------------------------------------------------------------------------
(* Lemmas.                                                                 *)

\* Times more than a bucket apart fall in different buckets.
LEMMA BucketsDiffer ==
    ASSUME NEW s \in Nat, NEW t \in Nat, s + Cooldown < t
    PROVE  s \div Bucket # t \div Bucket
<1> DEFINE p == s \div Bucket
           q == t \div Bucket
<1>1. /\ p \in Nat /\ q \in Nat
      /\ t < Bucket * q + Bucket
      /\ Bucket * p <= s
  BY BucketAssumption
<1>2. SUFFICES ASSUME p = q PROVE FALSE
  OBVIOUS
<1>3. t < s + Bucket
  BY <1>1, <1>2, BucketAssumption
<1> QED
  BY <1>3, CooldownAssumption, BucketAssumption

\* The incident a first row opens has its type and shape.
LEMMA NewIncidentType ==
    ASSUME NEW r \in AnomalyRow
    PROVE  /\ new_incident(r) \in Incident
           /\ IncidentShape(new_incident(r))
           /\ new_incident(r).base = base_correlation_key(r)
           /\ new_incident(r).first_seen = r.ts
           /\ new_incident(r).last_seen = r.ts
<1>1. base_correlation_key(r) \in BaseKeys
  BY DEF base_correlation_key, BaseKeys, AnomalyRow
<1>2. r.ts \div Bucket \in Nat
  BY BucketAssumption DEF AnomalyRow
<1>3. correlation_key(r) \in BaseKeys \X Nat
  BY <1>1, <1>2 DEF correlation_key
<1>4. severity_route(r.severity) \in Channels
  BY DEF severity_route, Channels, AnomalyRow, Severities
<1> QED
  BY <1>1, <1>3, <1>4
  DEF new_incident, Incident, IncidentShape, AnomalyRow, correlation_key

\* Absorbing a row that is not earlier keeps an incident's type, shape, key
\* and first_seen, and moves last_seen to the row.
LEMMA UpdateIncidentType ==
    ASSUME NEW i \in Incident, NEW r \in AnomalyRow,
           IncidentShape(i), i.last_seen <= r.ts
    PROVE  /\ update_incident(i, r) \in Incident
           /\ IncidentShape(update_incident(i, r))
           /\ update_incident(i, r).base = i.base
           /\ update_incident(i, r).first_seen = i.first_seen
           /\ update_incident(i, r).last_seen = r.ts
<1>1. severity_route(r.severity) \in Channels
  BY DEF severity_route, Channels, AnomalyRow, Severities
<1>2. r.ts \in Nat /\ r.severity \in Severities /\ r.anomaly_id \in Nat
  BY DEF AnomalyRow
<1>3. /\ i.max_severity \in Severities
      /\ i.routing_channel \in Channels
      /\ i.anomaly_count + 1 \in Nat
      /\ i.source_anomaly_ids \union {r.anomaly_id} \in SUBSET Nat
      /\ i.rows \union {r} \in SUBSET AnomalyRow
  BY <1>2 DEF Incident
<1>4. update_incident(i, r) \in Incident
  BY <1>1, <1>2, <1>3 DEF update_incident, Incident
<1>5. /\ update_incident(i, r).base = i.base
      /\ update_incident(i, r).incident_id = i.incident_id
      /\ update_incident(i, r).first_seen = i.first_seen
      /\ update_incident(i, r).last_seen = r.ts
  BY DEF update_incident, Incident
<1>6. IncidentShape(update_incident(i, r))
  BY <1>2, <1>5 DEF IncidentShape, Incident
<1> QED
  BY <1>4, <1>5, <1>6

\* A row that is next is not later, within its tenant, than any row to come.
LEMMA NextRowIsEarliest ==
    ASSUME todo \subseteq AnomalyRow, NEW r \in todo, NextRow(r), NEW t \in todo,
           t.tenant = r.tenant
    PROVE  r.ts <= t.ts
<1>1. sort_key_leq(r, t)
  BY DEF NextRow
<1>2. /\ r.tenant \in Nat /\ r.ts \in Nat
      /\ t.tenant \in Nat /\ t.ts \in Nat
  BY TenantAssumption DEF AnomalyRow
<1> QED
  BY <1>1, <1>2 DEF sort_key_leq

\* What one step does to the incidents: a new or updated incident n takes the
\* place of the active one of r's key, which is resolved if it was cool.
StepShape(r, n) ==
    LET b == base_correlation_key(r) IN
    /\ todo' = todo \ {r} /\ input' = input
    /\ active' = [active EXCEPT ![b] = n]
    /\ n.last_seen = r.ts
    /\ \/ /\ active[b] = NoIncident /\ resolved' = resolved
          /\ n = new_incident(r)
       \/ /\ active[b] # NoIncident /\ resolved' = resolved \union {active[b]}
          /\ cooldown_over(active[b], r)
          /\ n = new_incident(r)
       \/ /\ active[b] # NoIncident /\ resolved' = resolved
          /\ n = update_incident(active[b], r)
          /\ n.first_seen = active[b].first_seen

-----------------------------------------------------------------------------
(* The inductive invariant.                                                *)

\* The initial state has no incident.
LEMMA InitIInv == Init => IInv
<1> SUFFICES ASSUME Init PROVE IInv
  OBVIOUS
<1>1. Incidents = {}
  BY DEF Init, Incidents
<1>2. TypeOK
  BY InputAssumption DEF Init, TypeOK
<1> QED
  BY <1>1, <1>2
  DEF Init, IInv, LaterRowsOnly, ActiveUnderOwnKey, ResolvedBeforeActive,
      IncidentsSeparated

\* Every step has the shape above, with an incident of the right type.
LEMMA StepHasShape ==
    ASSUME IInv, NEW r \in todo,
           OpenFirst(r) \/ ResolveAndReopen(r) \/ Update(r)
    PROVE  /\ r \in AnomalyRow /\ base_correlation_key(r) \in BaseKeys
           /\ NextRow(r)
           /\ \E n \in Incident :
                 /\ StepShape(r, n)
                 /\ IncidentShape(n) /\ n.base = base_correlation_key(r)
<1> DEFINE b == base_correlation_key(r)
<1>1. r \in AnomalyRow
  BY DEF IInv, TypeOK
<1>2. b \in BaseKeys
  BY <1>1 DEF base_correlation_key, BaseKeys, AnomalyRow
<1>3. NextRow(r)
  BY DEF OpenFirst, ResolveAndReopen, Update, Visit
<1>4. active[b] # NoIncident =>
          /\ active[b] \in Incident /\ IncidentShape(active[b])
          /\ active[b].base = b /\ active[b].last_seen <= r.ts
  <2> SUFFICES ASSUME active[b] # NoIncident
               PROVE  /\ active[b] \in Incident /\ IncidentShape(active[b])
                      /\ active[b].base = b /\ active[b].last_seen <= r.ts
    OBVIOUS
  <2>1. active[b] \in Incident /\ active[b] \in Incidents
    BY <1>2 DEF IInv, TypeOK, Incidents
  <2>2. active[b].base = b
    BY <1>2 DEF IInv, ActiveUnderOwnKey
  <2>3. active[b].base[1] = r.tenant
    BY <2>2 DEF base_correlation_key
  <2> QED
    BY <2>1, <2>2, <2>3 DEF IInv, LaterRowsOnly
<1>5. CASE OpenFirst(r)
  BY <1>1, <1>2, <1>3, <1>5, NewIncidentType DEF OpenFirst, Visit, StepShape
<1>6. CASE ResolveAndReopen(r)
  BY <1>1, <1>2, <1>3, <1>6, NewIncidentType
  DEF ResolveAndReopen, Visit, StepShape
<1>7. CASE Update(r)
  <2>1. active[b] # NoIncident
    BY <1>7 DEF Update
  <2>2. /\ update_incident(active[b], r) \in Incident
        /\ IncidentShape(update_incident(active[b], r))
        /\ update_incident(active[b], r).base = b
        /\ update_incident(active[b], r).first_seen = active[b].first_seen
        /\ update_incident(active[b], r).last_seen = r.ts
    BY <2>1, <1>1, <1>4, UpdateIncidentType
  <2>3. StepShape(r, update_incident(active[b], r))
    BY <1>7, <2>2 DEF Update, Visit, StepShape
  <2> QED
    BY <1>1, <1>2, <1>3, <2>2, <2>3
<1> QED
  BY <1>5, <1>6, <1>7

\* A step of the loop keeps the invariant.
LEMMA StepKeepsIInv ==
    ASSUME IInv, NEW r \in todo,
           OpenFirst(r) \/ ResolveAndReopen(r) \/ Update(r)
    PROVE  IInv'
<1> DEFINE b == base_correlation_key(r)
<1>1. /\ r \in AnomalyRow /\ b \in BaseKeys /\ NextRow(r)
      /\ \E n \in Incident : /\ StepShape(r, n)
                             /\ IncidentShape(n) /\ n.base = b
  BY StepHasShape
<1>2. PICK n \in Incident : StepShape(r, n) /\ IncidentShape(n) /\ n.base = b
  BY <1>1
<1>3. /\ todo' = todo \ {r} /\ input' = input
      /\ active' = [active EXCEPT ![b] = n] /\ n.last_seen = r.ts
      /\ resolved' = resolved \/
         (active[b] # NoIncident /\ resolved' = resolved \union {active[b]})
  BY <1>2 DEF StepShape
<1>4. TypeOK
  BY DEF IInv
<1>5. TypeOK'
  BY <1>1, <1>3, <1>4 DEF TypeOK
<1>6. n # NoIncident
  BY NoIncidentAssumption
<1>7. /\ active'[b] = n
      /\ \A c \in BaseKeys : c # b => active'[c] = active[c]
  BY <1>1, <1>3, <1>4 DEF TypeOK
<1>8. \A i \in Incidents' : i = n \/ i \in Incidents
  BY <1>1, <1>3, <1>7 DEF Incidents
<1>9. \A i \in Incidents' : IncidentShape(i)
  BY <1>2, <1>8 DEF IInv
<1>10. LaterRowsOnly'
  <2> SUFFICES ASSUME NEW i \in Incidents', NEW t \in todo',
                      i.base[1] = t.tenant
               PROVE  i.last_seen <= t.ts
    BY DEF LaterRowsOnly
  <2>1. t \in todo
    BY <1>3
  <2>2. CASE i = n
    <3>1. t.tenant = r.tenant
      BY <1>2, <2>2 DEF base_correlation_key
    <3> QED
      BY <1>1, <1>3, <1>4, <2>1, <2>2, <3>1, NextRowIsEarliest DEF TypeOK
  <2>3. CASE i \in Incidents
    BY <2>1, <2>3 DEF IInv, LaterRowsOnly
  <2> QED
    BY <1>8, <2>2, <2>3
<1>11. ActiveUnderOwnKey'
  BY <1>2, <1>7 DEF IInv, ActiveUnderOwnKey
<1>12. ResolvedBeforeActive'
  <2> SUFFICES ASSUME NEW i \in resolved'
               PROVE  /\ active'[i.base] # NoIncident
                      /\ i.last_seen + Cooldown < active'[i.base].first_seen
    BY DEF ResolvedBeforeActive
  <2>1. CASE i \in resolved
    <3>1. /\ active[i.base] # NoIncident
          /\ i.last_seen + Cooldown < active[i.base].first_seen
      BY <2>1 DEF IInv, ResolvedBeforeActive
    <3>2. i \in Incident /\ i.base \in BaseKeys
      BY <1>4, <2>1 DEF TypeOK, Incident
    <3>3. CASE i.base # b
      BY <1>7, <3>1, <3>2, <3>3
    <3>4. CASE i.base = b
      <4>1. active[b] \in Incident /\ active[b] \in Incidents
        BY <1>1, <1>4, <3>1, <3>4 DEF TypeOK, Incidents
      <4>2. active[b].first_seen <= n.first_seen
        <5>1. /\ active[b].first_seen <= active[b].last_seen
              /\ n.first_seen <= n.last_seen
          BY <1>2, <4>1 DEF IInv, IncidentShape
        <5>2. /\ n.first_seen \in Nat /\ n.last_seen \in Nat
              /\ active[b].first_seen \in Nat /\ active[b].last_seen \in Nat
              /\ r.ts \in Nat
          BY <1>1, <4>1 DEF Incident, AnomalyRow
        <5>3. \/ n.first_seen = r.ts /\ cooldown_over(active[b], r)
              \/ n.first_seen = active[b].first_seen
          BY <1>1, <1>2, <3>1, <3>4, NewIncidentType DEF StepShape
        <5> QED
          BY <5>1, <5>2, <5>3, CooldownAssumption DEF cooldown_over
      <4>3. /\ i.last_seen \in Nat /\ n.first_seen \in Nat
            /\ active[b].first_seen \in Nat
        BY <3>2, <4>1 DEF Incident
      <4> QED
        BY <1>6, <1>7, <3>1, <3>4, <4>2, <4>3, CooldownAssumption
    <3> QED
      BY <3>3, <3>4
  <2>2. CASE i \notin resolved
    <3>1. /\ i = active[b] /\ active[b] # NoIncident
          /\ cooldown_over(active[b], r) /\ n = new_incident(r)
      BY <2>2, <1>2 DEF StepShape
    <3>2. i.base = b
      BY <1>1, <3>1 DEF IInv, ActiveUnderOwnKey
    <3>3. n.first_seen = r.ts
      BY <1>1, <3>1, NewIncidentType
    <3> QED
      BY <1>6, <1>7, <3>1, <3>2, <3>3 DEF cooldown_over
  <2> QED
    BY <2>1, <2>2
<1>13. IncidentsSeparated'
  <2> SUFFICES ASSUME NEW i \in Incidents', NEW j \in Incidents',
                      i.base = j.base, i # j
               PROVE  \/ i.last_seen + Cooldown < j.first_seen
                      \/ j.last_seen + Cooldown < i.first_seen
    BY DEF IncidentsSeparated
  <2>1. CASE i \in resolved' /\ j \in resolved'
    <3>1. i \in Incidents /\ j \in Incidents
      BY <1>1, <1>3, <2>1 DEF Incidents
    <3> QED
      BY <3>1 DEF IInv, IncidentsSeparated
  <2>2. CASE i \in resolved' /\ j \notin resolved'
    <3>1. j = active'[j.base]
      BY <1>11, <2>2 DEF Incidents, ActiveUnderOwnKey
    <3> QED
      BY <1>12, <2>2, <3>1 DEF ResolvedBeforeActive
  <2>3. CASE i \notin resolved' /\ j \in resolved'
    <3>1. i = active'[i.base]
      BY <1>11, <2>3 DEF Incidents, ActiveUnderOwnKey
    <3> QED
      BY <1>12, <2>3, <3>1 DEF ResolvedBeforeActive
  <2>4. CASE i \notin resolved' /\ j \notin resolved'
    BY <1>11, <2>4 DEF Incidents, ActiveUnderOwnKey
  <2> QED
    BY <2>1, <2>2, <2>3, <2>4
<1> QED
  BY <1>5, <1>9, <1>10, <1>11, <1>12, <1>13 DEF IInv

\* The invariant is inductive.
THEOREM Invariance == Spec => []IInv
<1>1. Init => IInv
  BY InitIInv
<1>2. IInv /\ [Next]_vars => IInv'
  <2> SUFFICES ASSUME IInv, [Next]_vars PROVE IInv'
    OBVIOUS
  <2>1. CASE Next
    BY <2>1, StepKeepsIInv DEF Next
  <2>2. CASE UNCHANGED vars
    BY <2>2
    DEF vars, IInv, TypeOK, Incidents, LaterRowsOnly, ActiveUnderOwnKey,
        ResolvedBeforeActive, IncidentsSeparated
  <2> QED
    BY <2>1, <2>2
<1> QED
  BY <1>1, <1>2, PTL DEF Spec

-----------------------------------------------------------------------------
(* The properties.                                                         *)

\* Every reachable state is well typed.
THEOREM TypeCorrect == Spec => []TypeOK
<1>1. IInv => TypeOK
  BY DEF IInv
<1> QED
  BY <1>1, Invariance, PTL

\* Incidents of one base key are more than a cooldown apart, for any input.
THEOREM Separation == Spec => []IncidentsSeparated
<1>1. IInv => IncidentsSeparated
  BY DEF IInv
<1> QED
  BY <1>1, Invariance, PTL

\* Within a call, incidents of one id are one incident.
LEMMA IdsUnique ==
    ASSUME IInv
    PROVE  IncidentIdsUnique
<1> SUFFICES ASSUME NEW i \in Incidents, NEW j \in Incidents,
                    i.incident_id = j.incident_id, i # j
             PROVE  FALSE
  BY DEF IncidentIdsUnique
<1>1. i \in Incident /\ j \in Incident
  BY DEF IInv, TypeOK, Incidents
<1>2. IncidentShape(i) /\ IncidentShape(j)
  BY DEF IInv
<1>3. i.base = j.base /\ i.first_seen \div Bucket = j.first_seen \div Bucket
  <2> DEFINE p == i.first_seen \div Bucket
             q == j.first_seen \div Bucket
  <2>1. <<i.base, p>> = <<j.base, q>>
    BY <1>2 DEF IncidentShape
  <2> HIDE DEF p, q
  <2>2. i.base = j.base /\ p = q
    BY <2>1
  <2> QED
    BY <2>2 DEF p, q
<1>4. /\ i.first_seen \in Nat /\ i.last_seen \in Nat
      /\ j.first_seen \in Nat /\ j.last_seen \in Nat
      /\ i.first_seen <= i.last_seen /\ j.first_seen <= j.last_seen
  BY <1>1, <1>2 DEF Incident, IncidentShape
<1>5. \/ i.last_seen + Cooldown < j.first_seen
      \/ j.last_seen + Cooldown < i.first_seen
  BY <1>3 DEF IInv, IncidentsSeparated
<1>6. \/ i.first_seen + Cooldown < j.first_seen
      \/ j.first_seen + Cooldown < i.first_seen
  BY <1>4, <1>5, CooldownAssumption
<1> QED
  BY <1>3, <1>4, <1>6, BucketsDiffer

\* The hashed key of an incident identifies it within a call, for any input,
\* as long as the cooldown is at least the bucket.
THEOREM UniqueIds == Spec => []IncidentIdsUnique
<1>1. IInv => IncidentIdsUnique
  BY IdsUnique
<1> QED
  BY <1>1, Invariance, PTL

-----------------------------------------------------------------------------
(* Which rows an incident holds.                                           *)

\* A step adds an incident of r alone, or puts r into an incident of its base
\* key that was last seen no more than a cooldown ago.
StepOnIncidents(r, n) ==
    \/ /\ n = new_incident(r)
       /\ Incidents' = Incidents \union {n}
    \/ \E a \in Incidents :
          /\ a.base = base_correlation_key(r)
          /\ a.last_seen <= r.ts /\ r.ts <= a.last_seen + Cooldown
          /\ n = update_incident(a, r)
          /\ Incidents' = (Incidents \ {a}) \union {n}

\* Every step of the loop changes the set of incidents in one of those ways.
LEMMA StepChangesIncidents ==
    ASSUME IInv, NEW r \in todo,
           OpenFirst(r) \/ ResolveAndReopen(r) \/ Update(r)
    PROVE  /\ r \in AnomalyRow /\ todo' = todo \ {r} /\ input' = input
           /\ \E n \in Incident : StepOnIncidents(r, n)
<1> DEFINE b == base_correlation_key(r)
<1>1. /\ r \in AnomalyRow /\ b \in BaseKeys
      /\ \E n \in Incident : StepShape(r, n) /\ IncidentShape(n) /\ n.base = b
  BY StepHasShape
<1>2. PICK n \in Incident : StepShape(r, n) /\ IncidentShape(n) /\ n.base = b
  BY <1>1
<1>3. /\ todo' = todo \ {r} /\ input' = input
      /\ active' = [active EXCEPT ![b] = n] /\ n.last_seen = r.ts
  BY <1>2 DEF StepShape
<1>4. active \in [BaseKeys -> Incident \union {NoIncident}] /\ n # NoIncident
  BY NoIncidentAssumption DEF IInv, TypeOK
<1>5. /\ active'[b] = n
      /\ \A c \in BaseKeys : c # b => active'[c] = active[c]
  BY <1>1, <1>3, <1>4
<1>6. CASE active[b] = NoIncident
  <2>1. n = new_incident(r) /\ resolved' = resolved
    BY <1>2, <1>6 DEF StepShape
  <2>2. Incidents' = Incidents \union {n}
    BY <1>1, <1>4, <1>5, <1>6, <2>1 DEF Incidents
  <2> QED
    BY <1>1, <1>3, <2>1, <2>2 DEF StepOnIncidents
<1>7. CASE active[b] # NoIncident /\ resolved' = resolved \union {active[b]}
                                  /\ cooldown_over(active[b], r)
  <2>1. n = new_incident(r)
    <3>1. resolved' = resolved => active[b] \in resolved
      BY <1>7
    <3>2. active[b] \notin resolved
      <4>1. active[b].base = b
        BY <1>1, <1>7 DEF IInv, ActiveUnderOwnKey
      <4>2. active[b] \in Incident /\ IncidentShape(active[b])
        BY <1>1, <1>4, <1>7 DEF IInv, Incidents
      <4>3. active[b] \in resolved => active[b].last_seen + Cooldown < active[b].first_seen
        BY <4>1 DEF IInv, ResolvedBeforeActive
      <4>4. active[b].first_seen \in Nat /\ active[b].last_seen \in Nat
        BY <4>2 DEF Incident
      <4> QED
        BY <4>2, <4>3, <4>4, CooldownAssumption DEF IncidentShape
    <3> QED
      BY <1>2, <1>7, <3>1, <3>2 DEF StepShape
  <2>2. Incidents' = Incidents \union {n}
    BY <1>1, <1>4, <1>5, <1>7 DEF Incidents
  <2> QED
    BY <1>1, <1>3, <2>1, <2>2 DEF StepOnIncidents
<1>8. CASE Update(r)
  <2> DEFINE a == active[b]
  <2>1. a # NoIncident /\ ~cooldown_over(a, r) /\ resolved' = resolved
    BY <1>8 DEF Update
  <2>2. a \in Incidents /\ a.base = b /\ a \in Incident /\ IncidentShape(a)
    BY <1>1, <1>4, <2>1 DEF Incidents, IInv, ActiveUnderOwnKey
  <2>3. a.last_seen <= r.ts
    BY <2>2 DEF IInv, LaterRowsOnly, base_correlation_key
  <2>4. r.ts <= a.last_seen + Cooldown
    <3>1. r.ts \in Nat /\ a.last_seen \in Nat
      BY <1>1, <2>2 DEF AnomalyRow, Incident
    <3> QED
      BY <2>1, <3>1, CooldownAssumption DEF cooldown_over
  <2>5. n = update_incident(a, r)
    <3>1. active' = [active EXCEPT ![b] = update_incident(a, r)]
      BY <1>8 DEF Update
    <3> QED
      BY <3>1, <1>1, <1>4, <1>5
  <2>6. a \notin resolved
    <3>1. a.first_seen \in Nat /\ a.last_seen \in Nat
      BY <2>2 DEF Incident
    <3>2. a \in resolved => a.last_seen + Cooldown < a.first_seen
      BY <2>2 DEF IInv, ResolvedBeforeActive
    <3> QED
      BY <2>2, <3>1, <3>2, CooldownAssumption DEF IncidentShape
  <2>7. \A c \in BaseKeys : c # b => active[c] # a
    BY <2>1, <2>2 DEF IInv, ActiveUnderOwnKey
  <2>8. Incidents' = (Incidents \ {a}) \union {n}
    BY <1>1, <1>4, <1>5, <2>1, <2>6, <2>7 DEF Incidents
  <2> QED
    BY <1>1, <1>3, <2>2, <2>3, <2>4, <2>5, <2>8 DEF StepOnIncidents
<1> QED
  BY <1>6, <1>7, <1>8 DEF OpenFirst, ResolveAndReopen

\* The incident a first row opens is made of that row.
LEMMA NewIncidentRows ==
    ASSUME NEW r \in AnomalyRow
    PROVE  /\ new_incident(r).rows = {r}
           /\ SpansItsRows(new_incident(r)) /\ Chained(new_incident(r))
           /\ SummarisesItsRows(new_incident(r))
<1>1. r.ts \in Nat /\ r.severity \in Severities
  BY DEF AnomalyRow
<1>2. severity_rank(r.severity) \in Nat
  BY DEF severity_rank
<1>3. { q.anomaly_id : q \in {r} } = {r.anomaly_id}
  OBVIOUS
<1>4. SpansItsRows(new_incident(r)) /\ Chained(new_incident(r))
  BY <1>1 DEF new_incident, SpansItsRows, Chained
<1>5. SummarisesItsRows(new_incident(r))
  BY <1>2, <1>3 DEF new_incident, SummarisesItsRows
<1> QED
  BY <1>4, <1>5 DEF new_incident

\* Absorbing a row no more than a cooldown after the last one keeps what an
\* incident is made of.
LEMMA UpdateIncidentRows ==
    ASSUME NEW a \in Incident, NEW r \in AnomalyRow,
           SpansItsRows(a), Chained(a), SummarisesItsRows(a), IncidentShape(a),
           a.last_seen <= r.ts, r.ts <= a.last_seen + Cooldown
    PROVE  /\ update_incident(a, r).rows = a.rows \union {r}
           /\ SpansItsRows(update_incident(a, r))
           /\ Chained(update_incident(a, r))
           /\ SummarisesItsRows(update_incident(a, r))
           /\ severity_rank(update_incident(a, r).max_severity)
                >= severity_rank(a.max_severity)
<1> DEFINE n == update_incident(a, r)
<1>1. /\ r.ts \in Nat /\ r.severity \in Severities /\ r.anomaly_id \in Nat
      /\ a.first_seen \in Nat /\ a.last_seen \in Nat
      /\ a.rows \subseteq AnomalyRow /\ a.max_severity \in Severities
      /\ \A q \in a.rows : q.ts \in Nat
  BY DEF AnomalyRow, Incident
<1>2. /\ n.rows = a.rows \union {r} /\ n.first_seen = a.first_seen
      /\ n.last_seen = r.ts
      /\ n.source_anomaly_ids = a.source_anomaly_ids \union {r.anomaly_id}
      /\ n.max_severity = IF raises(a, r) THEN r.severity ELSE a.max_severity
      /\ n.routing_channel = IF raises(a, r) THEN severity_route(r.severity)
                                             ELSE a.routing_channel
  BY DEF update_incident, Incident
<1> HIDE DEF n
<1>3. SpansItsRows(n)
  BY <1>1, <1>2 DEF SpansItsRows, IncidentShape
<1>4. Chained(n)
  <2> SUFFICES ASSUME NEW q \in n.rows, q.ts < n.last_seen
               PROVE  \E s \in n.rows : q.ts < s.ts /\ s.ts <= q.ts + Cooldown
    BY DEF Chained
  <2>1. q \in a.rows
    BY <1>1, <1>2
  <2>2. CASE q.ts < a.last_seen
    BY <1>2, <2>1, <2>2 DEF Chained
  <2>3. CASE q.ts = a.last_seen
    <3>1. r \in n.rows /\ q.ts < r.ts /\ r.ts <= q.ts + Cooldown
      BY <1>2, <2>3
    <3> QED
      BY <3>1
  <2> QED
    BY <1>1, <2>1, <2>2, <2>3 DEF SpansItsRows
<1>5. /\ severity_rank(r.severity) \in Nat /\ severity_rank(a.max_severity) \in Nat
      /\ \A q \in a.rows : severity_rank(q.severity) \in Nat
  BY DEF severity_rank
<1>6. severity_rank(n.max_severity) >= severity_rank(a.max_severity)
  BY <1>2, <1>5 DEF raises
<1>7. SummarisesItsRows(n)
  <2>1. n.source_anomaly_ids = { q.anomaly_id : q \in n.rows }
    BY <1>2 DEF SummarisesItsRows
  <2>2. \E q \in n.rows : q.severity = n.max_severity
    BY <1>2 DEF SummarisesItsRows
  <2>3. \A q \in n.rows : severity_rank(q.severity) <= severity_rank(n.max_severity)
    BY <1>2, <1>5 DEF SummarisesItsRows, raises
  <2>4. n.routing_channel = severity_route(n.max_severity)
    BY <1>2 DEF SummarisesItsRows
  <2> QED
    BY <2>1, <2>2, <2>3, <2>4 DEF SummarisesItsRows
<1> QED
  BY <1>2, <1>3, <1>4, <1>6, <1>7 DEF n

\* A step of the loop keeps what the incidents are made of.
LEMMA StepKeepsRowsInv ==
    ASSUME IInv, RowsInv, NEW r \in todo,
           OpenFirst(r) \/ ResolveAndReopen(r) \/ Update(r)
    PROVE  RowsInv'
<1>1. /\ r \in AnomalyRow /\ todo' = todo \ {r} /\ input' = input
      /\ \E n \in Incident : StepOnIncidents(r, n)
  BY StepChangesIncidents
<1>2. PICK n \in Incident : StepOnIncidents(r, n)
  BY <1>1
<1>3. /\ r \in input /\ todo \subseteq input /\ r \in input' \ todo'
      /\ input' \ todo' = (input \ todo) \union {r}
  BY <1>1 DEF IInv, TypeOK
<1>4. \A i \in Incidents : i \in Incident /\ r \notin i.rows
  BY DEF IInv, TypeOK, Incidents, RowsInv, EveryRowInOneIncident
<1>5. CASE n = new_incident(r) /\ Incidents' = Incidents \union {n}
  <2>1. n.rows = {r} /\ n.base = base_correlation_key(r)
    BY <1>1, <1>5, NewIncidentRows, NewIncidentType
  <2>2. EveryRowInOneIncident'
    BY <1>1, <1>3, <1>4, <1>5, <2>1 DEF RowsInv, EveryRowInOneIncident
  <2>3. SpansItsRows(n) /\ Chained(n) /\ SummarisesItsRows(n)
    BY <1>1, <1>5, NewIncidentRows
  <2> QED
    BY <1>5, <2>2, <2>3 DEF RowsInv
<1>6. CASE \E a \in Incidents :
              /\ a.base = base_correlation_key(r)
              /\ a.last_seen <= r.ts /\ r.ts <= a.last_seen + Cooldown
              /\ n = update_incident(a, r)
              /\ Incidents' = (Incidents \ {a}) \union {n}
  <2>1. PICK a \in Incidents :
            /\ a.base = base_correlation_key(r)
            /\ a.last_seen <= r.ts /\ r.ts <= a.last_seen + Cooldown
            /\ n = update_incident(a, r)
            /\ Incidents' = (Incidents \ {a}) \union {n}
    BY <1>6
  <2>2. a \in Incident /\ IncidentShape(a)
    BY <1>4 DEF IInv
  <2>3. SpansItsRows(a) /\ Chained(a) /\ SummarisesItsRows(a)
    BY DEF RowsInv
  <2>4. /\ n.rows = a.rows \union {r}
        /\ SpansItsRows(n) /\ Chained(n) /\ SummarisesItsRows(n)
    BY <1>1, <2>1, <2>2, <2>3, UpdateIncidentRows
  <2>5. n.base = base_correlation_key(r)
    BY <1>1, <2>1, <2>2, UpdateIncidentType
  <2>6. \A q \in input' \ todo' : \E i \in Incidents' : q \in i.rows
    BY <1>3, <2>1, <2>4 DEF RowsInv, EveryRowInOneIncident
  <2>7. \A i, j \in Incidents' : i.rows \intersect j.rows # {} => i = j
    <3>1. \A i \in Incidents \ {a} : i.rows \intersect n.rows = {}
      BY <1>4, <2>4 DEF RowsInv, EveryRowInOneIncident
    <3> QED
      BY <2>1, <3>1 DEF RowsInv, EveryRowInOneIncident
  <2>8. \A i \in Incidents' : \A q \in i.rows :
            q \in input' \ todo' /\ i.base = base_correlation_key(q)
    BY <1>3, <2>1, <2>4, <2>5 DEF RowsInv, EveryRowInOneIncident
  <2>9. EveryRowInOneIncident'
    BY <2>6, <2>7, <2>8 DEF EveryRowInOneIncident
  <2> QED
    BY <2>1, <2>4, <2>9 DEF RowsInv
<1> QED
  BY <1>2, <1>5, <1>6 DEF StepOnIncidents

\* The rows of the incidents stay as RowsInv says.
THEOREM RowsInvariance == Spec => []RowsInv
<1>1. Init => RowsInv
  BY DEF Init, Incidents, RowsInv, EveryRowInOneIncident
<1>2. IInv /\ RowsInv /\ [Next]_vars => RowsInv'
  <2> SUFFICES ASSUME IInv, RowsInv, [Next]_vars PROVE RowsInv'
    OBVIOUS
  <2>1. CASE Next
    BY <2>1, StepKeepsRowsInv DEF Next
  <2>2. CASE UNCHANGED vars
    BY <2>2 DEF vars, Incidents, RowsInv, EveryRowInOneIncident
  <2> QED
    BY <2>1, <2>2
<1> QED
  BY <1>1, <1>2, Invariance, PTL DEF Spec

\* No row the loop has visited is lost or counted twice, for any input.
THEOREM RowsPartitioned == Spec => []EveryRowInOneIncident
<1>1. RowsInv => EveryRowInOneIncident
  BY DEF RowsInv
<1> QED
  BY <1>1, RowsInvariance, PTL

\* The worst row of an incident decides its channel.
LEMMA WorstRowChannel ==
    ASSUME IInv, RowsInv
    PROVE  ChannelFollowsWorstRow
<1> SUFFICES ASSUME NEW i \in Incidents
             PROVE  /\ i.routing_channel = "teams_card"
                         <=> \E r \in i.rows : r.severity = "critical"
                    /\ i.routing_channel = "ticket_simulated"
                         <=> /\ \E r \in i.rows : r.severity = "warning"
                             /\ \A r \in i.rows : r.severity # "critical"
  BY DEF ChannelFollowsWorstRow
<1>1. SummarisesItsRows(i)
  BY DEF RowsInv
<1>2. /\ i.max_severity \in Severities
      /\ \A r \in i.rows : r.severity \in Severities
  BY DEF IInv, TypeOK, Incidents, Incident, AnomalyRow
<1>3. PICK q \in i.rows : q.severity = i.max_severity
  BY <1>1 DEF SummarisesItsRows
<1>4. \A r \in i.rows : severity_rank(r.severity) <= severity_rank(q.severity)
  BY <1>1, <1>3 DEF SummarisesItsRows
<1>5. i.routing_channel = severity_route(q.severity)
  BY <1>1, <1>3 DEF SummarisesItsRows
<1>6. CASE q.severity = "critical"
  BY <1>5, <1>6 DEF severity_route
<1>7. CASE q.severity = "warning"
  <2>1. \A r \in i.rows : r.severity # "critical"
    BY <1>4, <1>7 DEF severity_rank
  <2> QED
    BY <1>5, <1>7, <2>1 DEF severity_route
<1>8. CASE q.severity \in {"info", "other"}
  <2>1. \A r \in i.rows : r.severity # "critical" /\ r.severity # "warning"
    BY <1>4, <1>8 DEF severity_rank
  <2> QED
    BY <1>5, <1>8, <2>1 DEF severity_route
<1> QED
  BY <1>2, <1>3, <1>6, <1>7, <1>8 DEF Severities

\* The channel of an incident is that of its worst row, in whatever order the
\* severities came.
THEOREM ChannelIsOfWorstRow == Spec => []ChannelFollowsWorstRow
<1>1. IInv /\ RowsInv => ChannelFollowsWorstRow
  BY WorstRowChannel
<1> QED
  BY <1>1, Invariance, RowsInvariance, PTL

\* Rows of one base key in different incidents are more than a cooldown apart.
LEMMA RowsFarApart ==
    ASSUME IInv, RowsInv, NEW i \in Incidents, NEW j \in Incidents,
           NEW q \in i.rows, NEW s \in j.rows,
           base_correlation_key(q) = base_correlation_key(s), i # j, q.ts <= s.ts
    PROVE  i.last_seen + Cooldown < s.ts
<1>1. i.base = j.base
  BY DEF RowsInv, EveryRowInOneIncident
<1>2. \/ i.last_seen + Cooldown < j.first_seen
      \/ j.last_seen + Cooldown < i.first_seen
  BY <1>1 DEF IInv, IncidentsSeparated
<1>3. /\ i.first_seen <= q.ts /\ q.ts <= i.last_seen
      /\ j.first_seen <= s.ts /\ s.ts <= j.last_seen
  BY DEF RowsInv, SpansItsRows
<1>4. /\ i.first_seen \in Nat /\ i.last_seen \in Nat /\ q.ts \in Nat
      /\ j.first_seen \in Nat /\ j.last_seen \in Nat /\ s.ts \in Nat
  BY DEF IInv, TypeOK, Incidents, Incident, AnomalyRow
<1> QED
  BY <1>2, <1>3, <1>4, CooldownAssumption

\* Two rows of one incident are linked.
LEMMA TogetherIsLinked ==
    ASSUME IInv, RowsInv, todo = {}, NEW i \in Incidents,
           NEW a \in i.rows, NEW b \in i.rows
    PROVE  Linked(a, b)
<1> DEFINE key(r) == base_correlation_key(r)
           peers == { r \in input : key(r) = key(a) }
<1>1. \A r \in i.rows : r \in peers
  BY DEF RowsInv, EveryRowInOneIncident
<1>2. ASSUME NEW q \in peers, a.ts <= q.ts, q.ts < b.ts
      PROVE  \E r \in peers : q.ts < r.ts /\ r.ts <= q.ts + Cooldown
  <2>1. PICK j \in Incidents : q \in j.rows
    BY DEF RowsInv, EveryRowInOneIncident
  <2>2. /\ q.ts \in Nat /\ b.ts \in Nat /\ i.last_seen \in Nat /\ j.last_seen \in Nat
        /\ b.ts <= i.last_seen /\ q.ts <= j.last_seen
    BY <2>1 DEF RowsInv, SpansItsRows, IInv, TypeOK, Incidents, Incident, AnomalyRow
  <2>3. i = j
    <3>1. SUFFICES ASSUME i # j PROVE FALSE
      OBVIOUS
    <3>2. i.last_seen + Cooldown < q.ts
      BY <1>2, <2>1, <3>1, RowsFarApart
    <3> QED
      BY <1>2, <2>2, <3>2, CooldownAssumption
  <2>4. \E r \in i.rows : q.ts < r.ts /\ r.ts <= q.ts + Cooldown
    BY <1>2, <2>1, <2>2, <2>3 DEF RowsInv, Chained
  <2> QED
    BY <1>1, <2>4
<1>3. b \in peers
  BY <1>1
<1> QED
  BY <1>2, <1>3 DEF Linked

\* Two linked rows, the first not later, are in one incident.
LEMMA LinkedIsTogether ==
    ASSUME IInv, RowsInv, todo = {}, NEW a \in input, NEW b \in input,
           a.ts <= b.ts, Linked(a, b)
    PROVE  \E i \in Incidents : {a, b} \subseteq i.rows
<1> DEFINE key(r) == base_correlation_key(r)
           peers == { r \in input : key(r) = key(a) }
<1>1. PICK i \in Incidents : a \in i.rows
  BY DEF RowsInv, EveryRowInOneIncident
<1>2. PICK j \in Incidents : b \in j.rows
  BY DEF RowsInv, EveryRowInOneIncident
<1>3. SUFFICES ASSUME i # j PROVE FALSE
  BY <1>1, <1>2
<1>4. b \in peers
  BY DEF Linked
<1>5. i.last_seen + Cooldown < b.ts
  BY <1>1, <1>2, <1>3, <1>4, RowsFarApart
<1>6. PICK q \in i.rows : q.ts = i.last_seen
  BY DEF RowsInv, SpansItsRows
<1>7. /\ i.last_seen \in Nat /\ a.ts \in Nat /\ b.ts \in Nat
      /\ a.ts <= i.last_seen
      /\ \A r \in peers : r.ts \in Nat
  BY <1>1 DEF RowsInv, SpansItsRows, IInv, TypeOK, Incidents, Incident, AnomalyRow
<1>8. q \in peers /\ a.ts <= q.ts /\ q.ts < b.ts
  BY <1>1, <1>5, <1>6, <1>7, CooldownAssumption DEF RowsInv, EveryRowInOneIncident
<1>9. PICK r \in peers : q.ts < r.ts /\ r.ts <= q.ts + Cooldown
  BY <1>8 DEF Linked
<1>10. PICK k \in Incidents : r \in k.rows
  BY DEF RowsInv, EveryRowInOneIncident
<1>11. i # k
  BY <1>6, <1>7, <1>9, <1>10 DEF RowsInv, SpansItsRows
<1>12. i.last_seen + Cooldown < r.ts
  <2>1. q.ts <= r.ts /\ base_correlation_key(q) = base_correlation_key(r)
    BY <1>6, <1>7, <1>8, <1>9
  <2> QED
    BY <1>10, <1>11, <2>1, RowsFarApart
<1> QED
  BY <1>6, <1>7, <1>9, <1>12, CooldownAssumption

\* The loop computes its reference definition on every input: two rows end in
\* one incident exactly when a chain of rows a cooldown apart links them, so
\* the result does not depend on the order of rows with equal sort keys.
THEOREM GroupsAreLinked == Spec => []GroupsAreLinkedRows
<1>1. IInv /\ RowsInv => GroupsAreLinkedRows
  <2> SUFFICES ASSUME IInv, RowsInv, todo = {},
                      NEW a \in input, NEW b \in input, a.ts <= b.ts
               PROVE  (\E i \in Incidents : {a, b} \subseteq i.rows) <=> Linked(a, b)
    BY DEF GroupsAreLinkedRows
  <2>1. ASSUME NEW i \in Incidents, {a, b} \subseteq i.rows PROVE Linked(a, b)
    BY <2>1, TogetherIsLinked
  <2>2. Linked(a, b) => \E i \in Incidents : {a, b} \subseteq i.rows
    BY LinkedIsTogether
  <2> QED
    BY <2>1, <2>2
<1> QED
  BY <1>1, Invariance, RowsInvariance, PTL

\* No step drops, splits or eases an incident: it keeps its id and its rows.
THEOREM OnlyGrowth == Spec => IncidentsOnlyGrow
<1> DEFINE Grows ==
               \A i \in Incidents : \E j \in Incidents' :
                   /\ j.incident_id = i.incident_id
                   /\ j.first_seen = i.first_seen
                   /\ i.rows \subseteq j.rows
                   /\ severity_rank(j.max_severity) >= severity_rank(i.max_severity)
<1>1. ASSUME NEW i, i \in Incidents', i \in Incidents, IInv
      PROVE  severity_rank(i.max_severity) >= severity_rank(i.max_severity)
  BY DEF severity_rank
<1>2. IInv /\ RowsInv /\ Next => Grows
  <2> SUFFICES ASSUME IInv, RowsInv, NEW r \in todo,
                      OpenFirst(r) \/ ResolveAndReopen(r) \/ Update(r)
               PROVE  Grows
    BY DEF Next
  <2>1. PICK n \in Incident : StepOnIncidents(r, n)
    BY StepChangesIncidents
  <2>2. CASE Incidents' = Incidents \union {n}
    <3> SUFFICES ASSUME NEW i \in Incidents
                 PROVE  \E j \in Incidents' :
                            /\ j.incident_id = i.incident_id
                            /\ j.first_seen = i.first_seen
                            /\ i.rows \subseteq j.rows
                            /\ severity_rank(j.max_severity) >= severity_rank(i.max_severity)
      OBVIOUS
    <3> QED
      BY <2>2, <1>1
  <2>3. CASE \E a \in Incidents :
                /\ a.base = base_correlation_key(r)
                /\ a.last_seen <= r.ts /\ r.ts <= a.last_seen + Cooldown
                /\ n = update_incident(a, r)
                /\ Incidents' = (Incidents \ {a}) \union {n}
    <3>1. PICK a \in Incidents :
              /\ a.last_seen <= r.ts /\ r.ts <= a.last_seen + Cooldown
              /\ n = update_incident(a, r)
              /\ Incidents' = (Incidents \ {a}) \union {n}
      BY <2>3
    <3>2. a \in Incident /\ r \in AnomalyRow
      BY DEF IInv, TypeOK, Incidents
    <3>3. SpansItsRows(a) /\ Chained(a) /\ SummarisesItsRows(a) /\ IncidentShape(a)
      BY DEF IInv, RowsInv
    <3>4. /\ a.rows \subseteq n.rows
          /\ severity_rank(n.max_severity) >= severity_rank(a.max_severity)
      BY <3>1, <3>2, <3>3, UpdateIncidentRows
    <3>5. n.incident_id = a.incident_id /\ n.first_seen = a.first_seen
      BY <3>1, <3>2 DEF update_incident, Incident
    <3> QED
      BY <1>1, <3>1, <3>4, <3>5
  <2> QED
    BY <2>1, <2>2, <2>3 DEF StepOnIncidents
<1>3. IInv /\ RowsInv /\ [Next]_vars => [Grows]_vars
  BY <1>2
<1> QED
  BY <1>3, Invariance, RowsInvariance, PTL DEF Spec, IncidentsOnlyGrow

=============================================================================
