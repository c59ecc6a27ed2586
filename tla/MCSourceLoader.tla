--------------------------- MODULE MCSourceLoader ---------------------------
(***************************************************************************)
(* Instance of SourceLoader for TLC: three tenants with one or two         *)
(* components each, one of which has two tags and two three events; two    *)
(* failure modes of different classes, one of a component type the map     *)
(* does not have; two of three runs may be killed at any statement. As     *)
(* with the 36 rows of the real configuration, the ids 1 and 4 that the    *)
(* events name are both of the first tenant.                               *)
(***************************************************************************)
EXTENDS SourceLoader

MCTenantIds == <<"n", "a", "e">>

MCAssets == << [ tenant |-> "n", asset |-> "an" ],
               [ tenant |-> "a", asset |-> "aa" ],
               [ tenant |-> "e", asset |-> "ae" ] >>

Tag(tenant, tag, asset, component, type) ==
    [ tenant |-> tenant, tag |-> tag, asset |-> asset,
      component |-> component, type |-> type ]

MCTagMetadata ==
    << Tag("n", "t1", "an", "c1", "bearing"),
       Tag("n", "t2", "an", "c1", "bearing"),
       Tag("n", "t3", "an", "c2", "generic_component"),
       Tag("a", "t4", "aa", "c3", "bearing"),
       Tag("a", "t5", "aa", "c4", "generic_component"),
       Tag("e", "t6", "ae", "c5", "generic_component") >>

MCComponentTypes ==
    << [ type |-> "bearing", class |-> "rotating_bearing",
         domain |-> "mechanical" ],
       [ type |-> "motor", class |-> "motor_system", domain |-> "electrical" ],
       [ type |-> "generic_component", class |-> "sensor_system",
         domain |-> "instrumentation" ] >>

MCFailureModes == <<"motor", "valve">>

MCRules == <<"p1", "p2">>
=============================================================================
