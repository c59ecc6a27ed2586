-------------------------- MODULE MCDiagnosisAgent --------------------------
(***************************************************************************)
(* Instances of DiagnosisAgent for TLC: five records and two workers, so   *)
(* that the pool is full at four and results come out of order (for the    *)
(* liveness four and one), and the three verdicts of the validators.       *)
(***************************************************************************)
EXTENDS DiagnosisAgent

Answer(claims, filled) ==
    [ kind |-> "object",
      rec |-> [ generate_fallback_recommendation EXCEPT !.claims = claims,
                                                        !.filled = filled ] ]

\* One answer for each verdict of the agent: valid, quarantined, raises.
MCReplies ==
    { Answer({}, ListFields), Answer({}, {"findings"}),
      Answer({[ phrase |-> "agent_only", text |-> "agent_only" ]}, ListFields) }

\* A topic that fills the pool, and one with every kind of record.
MCTopics ==
    { <<"unusable", "unusable", "unusable", "unusable", "usable">>,
      <<"usable", "rejected", "usable", "poison", "unusable">> }

MCLiveTopics ==
    { <<"usable", "unusable", "usable", "usable">>,
      <<"usable", "rejected", "usable", "usable">> }
=============================================================================
