------------------------ MODULE MCIncidentWorkflow ------------------------
(***************************************************************************)
(* Instance of IncidentWorkflow for TLC.  The scale is 2 : 4 for the 5 and *)
(* 10 minutes of the code, so that ts 4 is the cooldown boundary of ts 0,  *)
(* and ts 5 the first that opens a new incident.                           *)
(***************************************************************************)
EXTENDS IncidentWorkflow

Row(tenant, signal, ts, id, severity, copy) ==
    [ tenant |-> tenant, signal |-> signal, ts |-> ts, anomaly_id |-> id,
      severity |-> severity, copy |-> copy ]

Nondecreasing(f) == \A i, j \in DOMAIN f : i < j => f[i] <= f[j]

\* Four rows of one signal over three cooldowns; id 1 is used twice.
OneSignal ==
    { { Row(1, "s1", ts[i], i % 3, sev[i], 1) : i \in 1 .. 4 } :
        ts \in { f \in [1 .. 4 -> {0, 1, 4, 5, 9, 10}] : Nondecreasing(f) },
        sev \in [1 .. 4 -> {"critical", "warning", "other"}] }

\* Three rows of two tenants and two signals, the first one present twice.
Mixed ==
    { { Row(base[i][1], base[i][2], ts[i], i, sev[i], 1) : i \in 1 .. 3 }
      \union { Row(base[1][1], base[1][2], ts[1], 1, sev[1], 2) } :
        base \in [1 .. 3 -> {1, 2} \X {"s1", "s2"}],
        ts \in { f \in [1 .. 3 -> {0, 4, 5}] : Nondecreasing(f) },
        sev \in [1 .. 3 -> {"critical", "info"}] }

MCInputs == OneSignal \union Mixed
=============================================================================
