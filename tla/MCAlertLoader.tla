---------------------------- MODULE MCAlertLoader ----------------------------
(***************************************************************************)
(* Instance of AlertLoader for TLC: four rows of one asset, each within    *)
(* the cooldown of the one before it or just outside, of which a run reads *)
(* three or two.                                                           *)
(***************************************************************************)
EXTENDS AlertLoader

Row(ts, id, severity) ==
    [ tenant |-> 1, signal |-> "s1", ts |-> ts, anomaly_id |-> id,
      severity |-> severity, copy |-> 1 ]

MCRows == { Row(0, 1, "warning"), Row(4, 2, "critical"), Row(9, 3, "info"),
            Row(11, 4, "critical") }
=============================================================================
