-------------------------- MODULE MCEnrichPipeline --------------------------
(***************************************************************************)
(* Instance of EnrichPipeline for TLC: one to three readings, master data  *)
(* with one row per key, and master data in which a row was updated or a   *)
(* key is missing.                                                         *)
(***************************************************************************)
EXTENDS EnrichPipeline

Reading(id, tag, value) == [ event_id |-> id, tag_id |-> tag, value |-> value ]
Tag(tag, metric) == [ tag_id |-> tag, asset_id |-> "a", component_id |-> "c",
                      metric_name |-> metric ]
Asset(name) == [ asset_id |-> "a", asset_name |-> name ]
Comp(type)  == [ asset_id |-> "a", component_id |-> "c",
                 component_type |-> type ]

Contents(raw, tags, assets, comps) ==
    [ raw |-> raw, tags |-> tags, assets |-> assets, comps |-> comps ]

MCLimits == [ m \in {"temperature"} |-> 1 ]

\* Topics with which one of the jobs is submitted again.
MCSubmittedAgain ==
    { \* one row per key
      Contents(<<Reading("e1", "t1", 2)>>,
               <<Tag("t1", "temperature")>>, <<Asset("n1")>>, <<Comp("p1")>>),
      \* one event id for two readings, as after a restart of the pump
      Contents(<<Reading("e1", "t1", 1), Reading("e1", "t1", 2)>>,
               <<Tag("t1", "temperature")>>, <<Asset("n1")>>, <<>>),
      \* the asset was renamed
      Contents(<<Reading("e1", "t1", 2)>>,
               <<Tag("t1", "temperature")>>, <<Asset("n1"), Asset("n2")>>, <<>>),
      \* the tag was mapped again, to a metric without a limit
      Contents(<<Reading("e1", "t1", 2)>>,
               <<Tag("t1", "temperature"), Tag("t1", "humidity")>>,
               <<Asset("n1")>>, <<>>) }

\* One row per key, with two or three readings of one id above their limit.
MCSharedIds ==
    { Contents(<<Reading("e1", "t1", 2), Reading("e1", "t2", 3)>>,
               <<Tag("t1", "temperature"), Tag("t2", "temperature")>>,
               <<Asset("n1")>>, <<Comp("p1")>>),
      Contents(<<Reading("e1", "t1", 2), Reading("e1", "t1", 3), Reading("e1", "t1", 4)>>,
               <<Tag("t1", "temperature")>>, <<Asset("n1")>>, <<>>) }

MCTopics == MCSubmittedAgain \union MCSharedIds
MCMaxSubmissions == [ t \in MCTopics |-> IF t \in MCSubmittedAgain THEN 1 ELSE 0 ]

\* One reading whose asset has a row.
MCGrainTopics ==
    { Contents(<<Reading("e1", "t1", 2)>>,
               <<Tag("t1", "temperature")>>, <<Asset("n1")>>, <<>>) }
MCGrainSubmissions == [ t \in MCGrainTopics |-> 0 ]
=============================================================================
