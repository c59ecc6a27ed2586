------------------------ MODULE MCTelemetryIngestion ------------------------
(***************************************************************************)
(* Instance of TelemetryIngestion for TLC: two tenants with a plant each,  *)
(* one asset with two tags, three periods; two seeds, under which the four *)
(* tags go through six scenarios; a file by hand with a record for each    *)
(* route; and for the rules the lists of up to six readings of five kinds. *)
(***************************************************************************)
EXTENDS TelemetryIngestion

CONSTANT OtherText   \* a time of another form than the contract asks for

MCTenantIds == <<"n", "a">>

Tag(tenant, plant, metric, unit, base) ==
    [ tenant |-> tenant, plant |-> plant, asset |-> <<plant, 1>>,
      tag |-> <<plant, metric, "mp">>, metric |-> metric, unit |-> unit,
      plant_index |-> 1, asset_index |-> 1, base |-> base ]

MCTags == << Tag("n", "pn", "temperature", "celsius", 6800),
             Tag("n", "pn", "vibration", "mm_s", 240),
             Tag("a", "pa", "pressure", "bar", 600),
             Tag("a", "pa", "power_draw", "kw", 34000) >>

MCPlausible == [ pn |-> {"normal", "late", "flatline"},
                 pa |-> {"missing_heartbeat", "spike", "drift"} ]

MCProfile ==
    [ tenants |-> 2, plants |-> 1, assets |-> 1, periods |-> 3,
      metrics |-> {"temperature", "vibration", "pressure", "power_draw"},
      scenarios |-> <<"normal", "late", "missing_heartbeat", "flatline",
                      "spike", "drift", "invalid_event">> ]

MCJitter == [ seed \in {6, 8} |->
                [ ordinal \in 0 .. 11 |-> 75 * (((seed + 5 * ordinal) % 3) - 1) ] ]

Hand(id, tenant, value) ==
    [ id |-> id, schema_version |-> "v1", tenant |-> tenant,
      tag |-> <<"pn", "hand">>, event_time |-> id, fraction |-> FALSE,
      ingest_time |-> id, value |-> value, unit |-> "bar", extra |-> FALSE,
      metadata_is_object |-> TRUE, quality_flags |-> {},
      scenario |-> "normal", period |-> 0 ]

MCHandmade == << Hand(1, "n", 500), Hand(2, "x", None), Hand(3, "x", 500),
                 Hand(4, "a", None), Hand(5, "x", None),
                 [ Hand(6, "n", 500) EXCEPT !.event_time = None ],
                 [ Hand(7, "a", None) EXCEPT !.event_time = OtherText ],
                 [ Hand(8, "a", 500) EXCEPT !.ingest_time = OtherText,
                                            !.metadata_is_object = FALSE ] >>

MCTopicKeys == <<"raw_sensor_events", "raw_dlq">>

\* In a minute several of the same text, with a fraction of a second, and behind
\* one without; then one within the gap, and one at it; low, zero and high.
MCArrivals == { [ after |-> p[1], fraction |-> p[2], value |-> p[3] ] :
                p \in { <<0, TRUE, 10>>, <<0, TRUE, 400>>, <<1, FALSE, 0>>,
                        <<9, FALSE, 10>>, <<10, FALSE, 400>> } }
=============================================================================
