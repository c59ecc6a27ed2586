------------------------- MODULE TelemetryIngestion -------------------------
(***************************************************************************)
(* The commands that bring historian telemetry into the broker: creating   *)
(* the topics, generating the two files of a profile, validating them, and *)
(* publishing a file to the tenants' raw and DLQ topics.  Each is a        *)
(* process that works through a list of writes; it may be killed between   *)
(* two of them or within one, and be run again.                            *)
(*                                                                         *)
(* A record keeps what the contract looks at: two times, each minutes,     *)
(* None or text of another form; a value or None; a unit, a schema version,*)
(* a tenant; whether its synthetic_metadata, if any, is an object, and     *)
(* whether it has fields of its own.                                       *)
(***************************************************************************)
EXTENDS ReferenceJobs, Picking

CONSTANTS
    TenantIds,    \* tenants of assets.yml, in order
    Tags,         \* build_tag_metadata(), in order: [tenant, plant, asset, tag,
                  \*   metric, unit, plant_index, asset_index, base]
    Plausible,    \* plant -> plausible_scenarios of its archetype
    Profile,      \* [tenants, plants, assets, metrics, scenarios, periods]
    Jitter,       \* seed -> ordinal -> the generator's random draw
    Handmade,     \* records of a file written by hand, given with --input
    TopicKeys,    \* TOPIC_KEYS
    Now,          \* when records are published, minutes after the profile's start
    MaxJobs,      \* commands run (bound)
    MaxFailures   \* commands killed or failing (bound)

ASSUME BoundAssumption == MaxJobs \in Nat /\ MaxFailures \in Nat

Seeds == DOMAIN Jitter
Modes == {"backfill_replay", "realtime_live"}

VARIABLES
    files,      \* name -> [exists, records, torn]: torn when its last line is cut
    topics,     \* topic that exists -> its records
    job,        \* the command that runs, or "idle"
    work,       \* the writes it has left: [op, to, records]
    published,  \* history: the publisher's runs, [input, mode, done]
    jobs,       \* commands started
    failures    \* commands killed or failed

vars == <<files, topics, job, work, published, jobs, failures>>

-----------------------------------------------------------------------------
(* The contract raw_sensor_event.v1.                                       *)

Units == {"celsius", "mm_s", "bar", "m3_h", "kw", "ampere", "rpm", "db"}

Failing(path, code) == [ field_path |-> path, error_code |-> code ]

Found(failing, error) == IF failing THEN {error} ELSE {}

\* Of the required fields that are missing the first stands for all.
missing_fields(r) ==
    IF r.event_time = None       THEN {Failing("/event_time", "missing_required_field")}
    ELSE IF r.ingest_time = None THEN {Failing("/ingest_time", "missing_required_field")}
    ELSE Found(r.value = None, Failing("/value", "missing_required_field"))

invalid_format(time, path) ==
    Found(time # None /\ time \notin Int, Failing(path, "invalid_format"))

schema_errors(r) ==
    missing_fields(r)
      \union invalid_format(r.event_time, "/event_time")
      \union invalid_format(r.ingest_time, "/ingest_time")
      \union Found(r.extra, Failing("/", "unexpected_field"))
      \union Found(r.schema_version # "v1", Failing("/schema_version", "invalid_value"))
      \union Found(~r.metadata_is_object, Failing("/synthetic_metadata", "invalid_type"))
      \union Found(r.unit \notin Units, Failing("/unit", "invalid_value"))

\* In the order of sort_errors.
paths == <<"/", "/event_time", "/ingest_time", "/schema_version",
           "/synthetic_metadata", "/unit", "/value">>

place_of(e) == CHOOSE n \in DOMAIN paths : paths[n] = e.field_path

first_error(r) ==
    CHOOSE e \in schema_errors(r) :
        \A f \in schema_errors(r) : place_of(e) <= place_of(f)

reject_entry(r, error, all) ==
    [ original_record |-> r, error_code |-> error.error_code,
      field_path |-> error.field_path, all_errors |-> all ]

\* What the publisher knows of an error: no code, and the path of the object
\* for a field too many or too few.
dlq_record(r) ==
    LET of_object == \E e \in schema_errors(r) :
                         e.error_code \in {"unexpected_field", "missing_required_field"}
    IN  reject_entry(r, Failing(IF of_object THEN "/" ELSE first_error(r).field_path,
                                "schema_validation_error"), {})

-----------------------------------------------------------------------------
(* The generator.                                                          *)

TenantIndex(tenant) == CHOOSE i \in DOMAIN TenantIds : TenantIds[i] = tenant

\* Tenants, plants, assets and metrics the profile is limited to.
asset_tags ==
    Picked(Tags, { i \in DOMAIN Tags :
                     /\ TenantIndex(Tags[i].tenant) <= Profile.tenants
                     /\ Tags[i].plant_index <= Profile.plants
                     /\ Tags[i].asset_index <= Profile.assets
                     /\ Tags[i].metric \in Profile.metrics })

valid_scenarios(plant) ==
    LET plausible == Plausible[plant] \ {"invalid_event"}
        names == Picked(Profile.scenarios,
                        { i \in DOMAIN Profile.scenarios :
                            Profile.scenarios[i] \in plausible })
    IN  IF "normal" \in Range(names) THEN names ELSE <<"normal">> \o names

\* The tag's place among those of its asset.
metric_index(i) ==
    Cardinality({ j \in 1 .. i - 1 : asset_tags[j].asset = asset_tags[i].asset })

scenario_name(i, seed) ==
    LET names == valid_scenarios(asset_tags[i].plant)
    IN  names[((asset_tags[i].asset_index + metric_index(i) + seed) % Len(names)) + 1]

base_value(i) ==
    asset_tags[i].base + 100 * ((asset_tags[i].asset_index % 7) + metric_index(i))

scenario_value(scenario, base, jitter, period) ==
    CASE scenario = "flatline"          -> base
      [] scenario = "spike"             -> (27 * base) \div 10 + jitter
      [] scenario = "drift"             -> base + 125 * period + jitter
      [] scenario = "missing_heartbeat" -> base + jitter \div 2
      [] OTHER                          -> base + jitter

\* Event and ingest time.
event_times_ingest_gap(ordinal, scenario, period) ==
    CASE scenario = "late"              -> <<ordinal - 15, ordinal>>
      [] scenario = "missing_heartbeat" -> <<ordinal, ordinal + period * 10>>
      [] OTHER                          -> <<ordinal, ordinal>>

event_times_lagging(ordinal, scenario, period) ==
    CASE scenario = "late"              -> <<ordinal - 30, ordinal>>
      [] scenario = "missing_heartbeat" -> <<ordinal + period * 10, ordinal + period * 10>>
      [] OTHER                          -> <<ordinal, ordinal>>

event_times(ordinal, scenario, period) ==
    CASE scenario = "late"              -> <<ordinal - 15, ordinal>>
      [] scenario = "missing_heartbeat" -> <<ordinal + period * 10, ordinal + period * 10>>
      [] OTHER                          -> <<ordinal, ordinal>>

\* Ids are distinct for each seed, tag and period.
stable_event_id(seed, ordinal) == seed * 1000 + ordinal

valid_event(i, seed, period) ==
    LET ordinal == (i - 1) * Profile.periods + period
        scenario == scenario_name(i, seed)
        times == event_times(ordinal, scenario, period)
    IN  [ id |-> stable_event_id(seed, ordinal), schema_version |-> "v1",
          tenant |-> asset_tags[i].tenant, tag |-> asset_tags[i].tag,
          event_time |-> times[1], ingest_time |-> times[2],
          value |-> scenario_value(scenario, base_value(i), Jitter[seed][ordinal], period),
          unit |-> asset_tags[i].unit, extra |-> FALSE,
          fraction |-> FALSE, metadata_is_object |-> TRUE,
          quality_flags |-> IF scenario = "normal" THEN {} ELSE {scenario},
          scenario |-> scenario, period |-> period ]

valid_events(seed) ==
    FlattenSeq([ i \in DOMAIN asset_tags |->
        [ p \in 1 .. Profile.periods |-> valid_event(i, seed, p - 1) ] ])

\* Three for the first asset of each plant; k is the place among the plants.
invalid_events_of(tenant, plant, k, seed) ==
    LET record(n) ==
            [ id |-> stable_event_id(seed, 900 + 3 * k + n), schema_version |-> "v1",
              tenant |-> tenant, tag |-> <<plant, "temperature">>,
              event_time |-> 0, ingest_time |-> 0, value |-> 6900, unit |-> "celsius",
              fraction |-> FALSE, metadata_is_object |-> TRUE,
              extra |-> TRUE, quality_flags |-> {"invalid"},
              scenario |-> "invalid_event", period |-> 0 ]
    IN  << [ record(0) EXCEPT !.value = None ],
           [ record(1) EXCEPT !.unit = "bananas" ],
           [ record(2) EXCEPT !.schema_version = "v99" ] >>

first_assets ==
    Picked([ i \in DOMAIN asset_tags |-> i ],
           { i \in DOMAIN asset_tags :
               asset_tags[i].asset_index = 1 /\ metric_index(i) = 0 })

invalid_events(seed) ==
    IF "invalid_event" \in Range(Profile.scenarios)
    THEN FlattenSeq([ k \in DOMAIN first_assets |->
             LET t == asset_tags[first_assets[k]]
             IN  invalid_events_of(t.tenant, t.plant, k, seed) ])
    ELSE <<>>

\* The records of the files that may be published.
GivenRecords ==
    Range(Handmade) \union UNION { Range(valid_events(seed)) \union Range(invalid_events(seed)) :
                                     seed \in Seeds }

RecordFields == {"id", "schema_version", "tenant", "tag", "event_time", "fraction",
                 "ingest_time", "value", "unit", "extra", "metadata_is_object",
                 "quality_flags", "scenario", "period"}

DistinctIds(records) ==
    \A i, j \in DOMAIN records : records[i].id = records[j].id => i = j

ASSUME ListsAssumption ==
    /\ Tags \in Seq(Range(Tags)) /\ TenantIds \in Seq(Range(TenantIds))
    /\ TopicKeys \in Seq(Range(TopicKeys)) /\ Handmade \in Seq(Range(Handmade))
    /\ \A r \in Range(Handmade) : DOMAIN r = RecordFields
    /\ Profile.periods \in Nat /\ Seeds \subseteq Int

\* Tags are the keys of a dictionary, and their numbers are numbers.
ASSUME TagsAssumption ==
    /\ \A i, j \in DOMAIN Tags : Tags[i].tag = Tags[j].tag => i = j
    /\ \A t \in Range(Tags) : t.base \in Int /\ t.asset_index \in Int
    /\ \A seed \in Seeds, i \in DOMAIN asset_tags, p \in 1 .. Profile.periods :
           Jitter[seed][(i - 1) * Profile.periods + (p - 1)] \in Int

\* An id, a hash of what the record is about and of the seed, stands for one
\* record, which is in a file once and in the files of no other seed.
ASSUME IdentityAssumption ==
    /\ \A q, r \in GivenRecords : q.id = r.id => q = r
    /\ DistinctIds(Handmade)
    /\ \A seed \in Seeds : DistinctIds(valid_events(seed)) /\ DistinctIds(invalid_events(seed))
    /\ \A s, t \in Seeds : \A q \in Range(valid_events(s)), r \in Range(valid_events(t)) :
           q.id = r.id => s = t

\* The late scenario is at the limit of lateness: 15 minutes behind, where the
\* delay and the lateness allowed come to 15.
ASSUME LateScenarioAssumption == WatermarkDelay + AllowedLateness >= 15

\* The profile starts on a day in the past (line 234): what it generates was
\* before the publisher runs.
ASSUME NowAssumption ==
    /\ Now \in Int
    /\ \A seed \in Seeds : \A r \in Range(valid_events(seed)) : r.event_time < Now

-----------------------------------------------------------------------------
(* Topics and routes.                                                      *)

render_topic(key, tenant) == <<key, tenant>>

all_topics ==
    FlattenSeq([ i \in DOMAIN TenantIds |->
        [ k \in DOMAIN TopicKeys |-> render_topic(TopicKeys[k], TenantIds[i]) ] ])

\* The time of the clock has a fraction.
apply_producer_mode(record, mode, now) ==
    IF mode = "backfill_replay"
    THEN [ record EXCEPT !.ingest_time = now, !.metadata_is_object = TRUE ]
    ELSE [ record EXCEPT !.event_time = now, !.fraction = TRUE,
                         !.ingest_time = now, !.metadata_is_object = TRUE ]

Fallback == "raw_publish_rejected"

\* A topic, or the fallback file, with what is written there.  The tenant of
\* a valid record is not looked up.
route(r) ==
    IF schema_errors(r) = {}
    THEN [ to |-> render_topic("raw_sensor_events", r.tenant), record |-> r ]
    ELSE [ to |-> IF r.tenant \in Range(TenantIds)
                  THEN render_topic("raw_dlq", r.tenant) ELSE <<Fallback>>,
           record |-> dlq_record(r) ]

plan_routes(records) == [ i \in DOMAIN records |-> route(records[i]) ]

Write(op, to, records) == [ op |-> op, to |-> to, records |-> records ]

\* The routes to a topic, and the places where a topic first appears.
RoutesTo(routes, topic) == Picked(routes, { i \in DOMAIN routes : routes[i].to = topic })

Firsts(routes) == { i \in DOMAIN routes :
                      \A j \in 1 .. i - 1 : routes[j].to # routes[i].to }

publish_writes_last_batch(routes) ==
    LET rejected == RoutesTo(routes, <<Fallback>>)
        first == Picked(routes, { i \in Firsts(routes) : routes[i].to # <<Fallback>> })
    IN  [ i \in DOMAIN rejected |-> Write("append", <<Fallback>>, <<rejected[i].record>>) ]
          \o [ n \in DOMAIN first |-> Write("produce", first[n].to, <<first[n].record>>) ]

\* Rejected records first, one by one; then one call of rpk for each topic,
\* in the order the topics first appear.
publish_writes(routes) ==
    LET rejected == RoutesTo(routes, <<Fallback>>)
        first == Picked(routes, { i \in Firsts(routes) : routes[i].to # <<Fallback>> })
        batch(topic) == LET own == RoutesTo(routes, topic)
                        IN  [ i \in DOMAIN own |-> own[i].record ]
    IN  [ i \in DOMAIN rejected |-> Write("append", <<Fallback>>, <<rejected[i].record>>) ]
          \o [ n \in DOMAIN first |-> Write("produce", first[n].to, batch(first[n].to)) ]

-----------------------------------------------------------------------------
(* The commands.                                                           *)

NoFile == [ exists |-> FALSE, records |-> <<>>, torn |-> FALSE ]
File(records) == [ exists |-> TRUE, records |-> records, torn |-> FALSE ]

FileNames == {"valid", "invalid", "handmade", "accepted", "rejected", Fallback}

IngestionInit ==
    /\ files = [ f \in FileNames |-> IF f = "handmade" THEN File(Handmade) ELSE NoFile ]
    /\ topics = << >>
    /\ job = "idle" /\ work = <<>> /\ published = <<>>
    /\ jobs = 0 /\ failures = 0

Start(command, writes) ==
    /\ job = "idle" /\ jobs < MaxJobs
    /\ job' = command /\ work' = writes
    /\ jobs' = jobs + 1
    /\ UNCHANGED <<files, topics, failures>>

CreateTopics ==
    /\ Start("create", [ i \in DOMAIN all_topics |-> Write("create", all_topics[i], <<>>) ])
    /\ UNCHANGED published

Generate(seed) ==
    /\ Start("generate", << Write("write", "valid", valid_events(seed)),
                            Write("write", "invalid", invalid_events(seed)) >>)
    /\ UNCHANGED published

\* What is read of a file: a cut line is a record that does not parse.
Cut == [ cut |-> TRUE ]

Lines(f) == files[f].records \o (IF files[f].torn THEN <<Cut>> ELSE <<>>)

Accepted_any_version(line) ==
    line # Cut /\ line.unit \in Units /\ line.value # None

Accepted(line) == line # Cut /\ schema_errors(line) = {}

rejected_entry(line) ==
    IF line = Cut
    THEN reject_entry(None, Failing("/", "invalid_json"), {})
    ELSE reject_entry(line, first_error(line), schema_errors(line))

\* A profile names the two generated files; without one the files of the
\* directory are read that are there, maybe none, or those of a directory with
\* the file by hand.
InputFiles ==
    { fs \in {<<"valid", "invalid">>, <<"valid">>, <<"invalid">>, <<>>, <<"handmade">>} :
        \/ \A f \in {"valid", "invalid"} : files[f].exists <=> f \in Range(fs)
        \/ fs = <<"handmade">> }

Validate(fs) ==
    /\ fs \in InputFiles
    /\ LET lines == FlattenSeq([ i \in DOMAIN fs |-> Lines(fs[i]) ])
           failed == Picked(lines, { i \in DOMAIN lines : ~Accepted(lines[i]) })
       IN  Start("validate",
             << Write("write", "accepted", Picked(lines, { i \in DOMAIN lines : Accepted(lines[i]) })),
                Write("write", "rejected",
                      [ i \in DOMAIN failed |-> rejected_entry(failed[i]) ]) >>)
    /\ UNCHANGED published

\* A line that does not parse ends the publisher before it has routed any.
Publish(f, mode) ==
    /\ files[f].exists /\ ~files[f].torn
    /\ LET input == [ i \in DOMAIN files[f].records |->
                        apply_producer_mode(files[f].records[i], mode, Now + jobs) ]
       IN  /\ Start("publish", publish_writes(plan_routes(input)))
           /\ published' = Append(published,
                             [ input |-> input, mode |-> mode, done |-> FALSE ])

-----------------------------------------------------------------------------
(* Their writes.                                                           *)

Next_write(op) == job # "idle" /\ work # <<>> /\ Head(work).op = op

\* A topic that is there already is no error.
CreateTopic ==
    /\ Next_write("create")
    /\ topics' = [ t \in DOMAIN topics \union {Head(work).to} |->
                     IF t \in DOMAIN topics THEN topics[t] ELSE <<>> ]
    /\ work' = Tail(work)
    /\ UNCHANGED <<files, job, published, jobs, failures>>

WriteFile ==
    /\ Next_write("write")
    /\ files' = [files EXCEPT ![Head(work).to] = File(Head(work).records)]
    /\ work' = Tail(work)
    /\ UNCHANGED <<topics, job, published, jobs, failures>>

AppendFallback ==
    /\ Next_write("append")
    /\ files' = [files EXCEPT ![Fallback] = File(@.records \o Head(work).records)]
    /\ work' = Tail(work)
    /\ UNCHANGED <<topics, job, published, jobs, failures>>

Produce ==
    /\ Next_write("produce") /\ Head(work).to \in DOMAIN topics
    /\ topics' = [topics EXCEPT ![Head(work).to] = @ \o Head(work).records]
    /\ work' = Tail(work)
    /\ UNCHANGED <<files, job, published, jobs, failures>>

Stop == job' = "idle" /\ work' = <<>>

\* rpk refuses a topic that does not exist; the topics after it get nothing.
ProduceRefused ==
    /\ Next_write("produce") /\ Head(work).to \notin DOMAIN topics
    /\ Stop
    /\ UNCHANGED <<files, topics, published, jobs, failures>>

Finish ==
    /\ job # "idle" /\ work = <<>>
    /\ Stop
    /\ published' = IF job = "publish"
                    THEN [published EXCEPT ![Len(published)].done = TRUE] ELSE published
    /\ UNCHANGED <<files, topics, jobs, failures>>

\* Killed between two writes, or before a topic is created.
Kill ==
    /\ job # "idle" /\ work # <<>> /\ failures < MaxFailures
    /\ Stop /\ failures' = failures + 1
    /\ UNCHANGED <<files, topics, published, jobs>>

\* Killed within a write: a file opened with "w" keeps the first lines, the
\* last maybe cut; a topic has the first records of its batch.
Break ==
    /\ job # "idle" /\ work # <<>> /\ failures < MaxFailures
    /\ Stop /\ failures' = failures + 1
    /\ LET w == Head(work) IN
       \E n \in 0 .. Len(w.records) - 1 :
          \/ /\ w.op = "write"
             /\ \E torn \in BOOLEAN :
                   files' = [files EXCEPT ![w.to] =
                     [ exists |-> TRUE, records |-> SubSeq(w.records, 1, n), torn |-> torn ]]
             /\ UNCHANGED topics
          \/ /\ w.op = "produce" /\ w.to \in DOMAIN topics /\ n > 0
             /\ topics' = [topics EXCEPT ![w.to] = @ \o SubSeq(w.records, 1, n)]
             /\ UNCHANGED files
    /\ UNCHANGED <<published, jobs>>

IngestionNext ==
    \/ CreateTopics
    \/ \E fs \in InputFiles : Validate(fs)
    \/ \E seed \in Seeds : Generate(seed)
    \/ \E f \in {"valid", "invalid", "handmade"}, mode \in Modes : Publish(f, mode)
    \/ CreateTopic \/ WriteFile \/ AppendFallback \/ Produce \/ ProduceRefused
    \/ Finish \/ Kill \/ Break

\* The commands leave the list the rules are applied to alone.  The two share
\* no state, so that nothing is lost when the readings arrive before the first
\* command or there is no command: the order of the two is not seen by either.
Init == IngestionInit /\ ReadingsInit

Next == \/ IngestionNext /\ readings = <<>> /\ UNCHANGED readings
        \/ \E a \in Arrivals : Arrive(a) /\ jobs = 0 /\ UNCHANGED vars

Spec == Init /\ [][Next]_<<vars, readings>>

-----------------------------------------------------------------------------
(* Correctness.                                                            *)

Stored(place) ==
    IF place = <<Fallback>> THEN files[Fallback].records
    ELSE IF place \in DOMAIN topics THEN topics[place] ELSE <<>>

IdOf(stored) == IF "original_record" \in DOMAIN stored
                THEN stored.original_record.id ELSE stored.id

Copies(place, id) ==
    Cardinality({ i \in DOMAIN Stored(place) : IdOf(Stored(place)[i]) = id })

RightPlace(r) ==
    IF schema_errors(r) = {}               THEN <<"raw_sensor_events", r.tenant>>
    ELSE IF r.tenant \in Range(TenantIds) THEN <<"raw_dlq", r.tenant>>
    ELSE <<Fallback>>

\* The runs of the publisher that have a record with this id for this place.
RunsOf(id, place) ==
    { k \in DOMAIN published :
        \E r \in Range(published[k].input) : r.id = id /\ RightPlace(r) = place }

\* Each run of the publisher puts a record at most once, and if it ends at
\* least once, where it belongs as that run has stamped it: the raw topic of its
\* tenant, its DLQ, or the file for tenants nobody knows; never anywhere else,
\* whatever failed between two topics and however often the command was repeated
\* (publish_raw_events.py lines 178 to 203).
EveryRecordRouted ==
    LET records == UNION { Range(p.input) : p \in Range(published) }
        places == DOMAIN topics \union { RightPlace(r) : r \in records } \union {<<Fallback>>}
    IN  \A id \in { r.id : r \in records }, place \in places :
            LET runs == RunsOf(id, place)
            IN  Copies(place, id) \in
                    Cardinality({ k \in runs : published[k].done }) .. Cardinality(runs)

\* What the publisher sets itself before it checks the contract.
Overwritten == {"/event_time", "/ingest_time", "/synthetic_metadata"}

\* The validator and the publisher each check the contract, the publisher on
\* records that it has stamped anew: what the validator accepts the publisher
\* never rejects, and what the validator rejects gets into a raw topic only if
\* nothing was wrong but the fields the publisher sets, files of killed runs and
\* files by hand included (publish_raw_events.py lines 82 to 91, 106).
VerdictsAgree ==
    \A place \in DOMAIN topics \union {<<Fallback>>} :
        LET raw == place[1] = "raw_sensor_events"
        IN  /\ \A r \in Range(files["accepted"].records) :
                   ~raw => Copies(place, r.id) = 0
            /\ \A e \in Range(files["rejected"].records) :
                   raw /\ e.original_record # None /\ Copies(place, e.original_record.id) # 0
                       => \A error \in e.all_errors : error.field_path \in Overwritten

mappings == [ tag \in { t.tag : t \in Range(Tags) } |->
                CHOOSE t \in Range(Tags) : t.tag = tag ]

\* What the reference jobs read of a tag.
TagReadings(t) ==
    LET stream == Stored(render_topic("raw_sensor_events", t.tenant))
    IN  Picked(stream, { i \in DOMAIN stream :
                           /\ stream[i].tag = t.tag
                           /\ enrich_raw_event(stream[i], mappings) = "enriched" })

FirstCopies(stream) ==
    Picked(stream, { i \in DOMAIN stream :
                       \A j \in 1 .. i - 1 : stream[j].id # stream[i].id })

HandIds == { r.id : r \in Range(Handmade) }

\* Generated and published with the times the generator chose.
Backfilled(stream) ==
    \A r \in Range(stream) : r.id \notin HandIds /\ r.event_time < Now

\* A backfill of a missing_heartbeat series is found from its second period
\* on, and of no other scenario, however often the file was published and
\* wherever a run was killed; the anomaly keeps its identity.
HeartbeatSurvivesReplay ==
    \A t \in Range(Tags) :
        LET stored == TagReadings(t)
        IN  /\ Backfilled(stored)
            /\ \A q, r \in Range(stored) : q.scenario = r.scenario
            /\ \E q, r \in Range(stored) : q.period # r.period
            => /\ detect_missing_heartbeat(stored) # <<>>
                      <=> \E r \in Range(stored) : r.scenario = "missing_heartbeat"
               /\ detect_missing_heartbeat(stored)
                      = detect_missing_heartbeat(FirstCopies(stored))

\* In one backfill of one generated file no event is beyond the allowed
\* lateness, the late scenario's included (15 minutes behind its neighbours,
\* where 15 are allowed behind the newest), unless a missing_heartbeat series
\* has pushed the watermark ahead: then the events behind it are, whatever
\* their scenario.
LateOnlyBehindHeartbeat ==
    \A tenant \in Range(TenantIds) :
        LET stream == Stored(render_topic("raw_sensor_events", tenant))
        IN  /\ Backfilled(stream) /\ DistinctIds(stream)
            /\ \E seed \in Seeds : \A r \in Range(stream) :
                   \E g \in Range(valid_events(seed)) : g.id = r.id
            => \A i \in LateEvents(stream) :
                   \E j \in 1 .. i - 1 : stream[j].scenario = "missing_heartbeat"

=============================================================================
