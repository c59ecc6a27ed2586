# TLA+ verification of the industrial APM triage pipeline

This directory holds TLA+ models of the pipeline: the loader that fills its masters, the
commands that generate, check and publish telemetry, the SQL jobs that detect an anomaly and the
rules they restate, the realtime diagnosis daemon, the choice between a
model-written and a rule-based recommendation, the grouping of anomalies into
incidents, and the loader that stores and announces them. TLC checks them on small
instances; TLAPS proves the main safety properties for every value of the
constants. Paths are relative to the repository root.

## 1. The system

```
                                               phase1-load-postgres-source-data.py
                                                                v
telemetry_generator ──> publish_raw_events.py ─┐          PostgreSQL (masters)
e2e_data_pump.py ──────────────────────────────┤                │ CDC
                                               v                v
                              raw_sensor_events (Redpanda) ─> Flink SQL jobs
                                                                │ enriched, anomaly, late, dlq
                  ┌─────────────────────────────────────────────┴──────┐
                  v                                                    v
     realtime_diagnosis_agent (3 daemons)                    ClickHouse ingest
                  │ diagnosis topic                                    │
                  └──────────> ClickHouse          phase3 / phase4 loaders ──> Teams
```

### Inventory

| Part | State | Operations | Talks to | What is hard |
|---|---|---|---|---|
| Realtime diagnosis daemon (`src/flink_agents/realtime_diagnosis_agent.py`, `anomaly_event_consumer.py`, `diagnosis_producer.py`) | shutdown flag, four counters, futures in `pending`, the pool, the consumer's position, the group's committed offset | poll, submit, wait on a full pool, pop results, drain, close; per event: assemble, diagnose, validate, produce, flush | anomaly and diagnosis topics, the LLM provider, signals, Docker's restart policy | offsets are committed before the work on them is done; results come back in any order and are popped in three places; signals and kills at any point; a produce that times out may still be delivered |
| Diagnosis generation and validation (`diagnosis_generator.py`, `output_validator.py`, `evidence_assembler.py`, `context_lookup.py`) | none | build evidence, ask the model, complete its answer, banned wording, validate | triage service | two sets of rules, this one and the loader's, must not contradict each other |
| Triage service (`src/triage_service/*`, `contracts/agent_explanation.schema.json`) | none | provider call, fallback, schema and content validation, audit rows | OpenAI-compatible HTTP API | every failure of the provider must end in the fallback |
| Incident correlation (`src/alerts/incident_workflow.py`) | active incidents by base key, resolved incidents | open, update, resolve and reopen | phase-4 loader | cooldown and bucket boundaries, ids that hold only the bucket, ties and repeated rows |
| Alert loader (`scripts/phase4-load-incidents.py`, `src/alerts/teams.py`, `feedback.py`) | statements collected; fact tables in ClickHouse; cards shown in Teams | query newest rows, group, recommend, route, execute the script | ClickHouse client in a subprocess, Teams webhook | cards go out before anything is stored; the script may stop half way; each run sees another window of rows |
| Phase-3 loader (`scripts/phase3-load-triage.py`, `src/serving/*`) | statements collected | evidence, fallback, validation, insert | ClickHouse | late records |
| PostgreSQL source loader (`scripts/phase1-load-postgres-source-data.py`, keys of `sql/postgres_init.sql`) | twelve tables, their identity counters | count a table, pipe its statements to `psql` if it is empty, read back generated ids, link events to work orders, report | `psql` in a subprocess | `psql` goes on after a refused row and nobody reads its stderr; a run killed within a table leaves it short and later runs skip it; three loops number the same things separately |
| Telemetry generator and validator (`src/telemetry_generator/*`) | the files of valid, invalid, accepted and rejected records | generate a profile from a seed, validate both files | publisher | the validator and the publisher judge the same records separately; scenarios must be recognisable behind the publisher |
| Raw publishing (`src/streaming/publish_raw_events.py`, `scripts/e2e_data_pump.py`) | routes, rejected file; the pump's sequence number | stamp, validate, route, publish by topic; pump in ticks | Redpanda through `rpk` or kafka-python | partial publish, repetition, ids after a restart |
| Topics (`src/streaming/topic_admin.py`, `topic_names.py`) | topics in the broker | create, list | `rpk` | repeated and partial creation |
| Flink SQL (`sql/flink/templates/*`) | joins, windows, watermarks | enrich, detect, late, dlq, health | Kafka, Postgres CDC | late master data, re-emission |
| Anomaly rules (`src/flink_jobs/*`) | none | five detectors, each on a list of readings and on a window; metadata checks; lateness | nothing in production; the SQL restates them | boundaries, ties in time, two forms of one rule |
| ClickHouse serving (`sql/clickhouse/*`) | fact, dimension and serving tables | ingest views, refresh | Kafka engine tables | append-only against last-row-wins tables |
| Shell scripts, reports | files | start-up, formatting | file system, Docker | little beyond I/O |

What makes each part correct:

- **Source loader**: what is stored refers to what is stored, however a run was cut short; the
  separately numbered events, work orders and maintenance are about the same component; a mode
  is of the class and domain its type calls for; an uninterrupted first run stores everything but
  the rows its own foreign keys refuse; after "data load complete" nothing changes.
- **Telemetry**: each record is where it belongs and nowhere else, as often as runs put it
  there; validator and publisher disagree about nothing but the fields the publisher sets itself; the generated scenarios are what the reference jobs find,
  through repetitions and kills.
- **Rules**: the two forms of a rule agree where both apply, in whichever form a window gives its flags and
  its baseline; the order of arrival does not matter; a steady series
  is a flatline and nothing else.
- **Daemon**: no event of a committed offset disappears except by a kill; no event
  is triaged twice except after an end that did not commit; the counters account for
  every event; memory is bounded; what it calls produced is published; it gets
  through the topic and ends on a signal; each event goes through one life cycle (`EventTriage`).
- **Recommendation**: both callers end up with a complete recommendation when the provider fails or answers
  with anything but an object. With an object the daemon may quarantine, and the loader may even die (on
  `runbook_references` that are a number or hold a list, `validation.py:34-36`), but what it stores is complete;
  the daemon publishes nothing the loader would reject for its identity or an empty list.
- **Correlation**: the rows of an incident are exactly those linked by gaps of at
  most a cooldown; incidents have distinct ids; channel and severity are those of
  the worst row; incidents are never dropped or eased.
- **SQL jobs**: a reading is enriched whatever the order in which it and its master data are
  read; every breach is stored, nothing else is, and it is reported no more often than its readings and master
  tables call for; one anomaly is one row (it is not, finding 3).
- **Loader**: stored rows refer to stored rows at every moment, a stored "delivered" is
  true, a run that ends well has stored all it read and called Teams for what is critical in it.

## 2. Modules

| Module | Models | Proofs |
|---|---|---|
| `SourceLoader` | runs of the PostgreSQL loader over its twelve tables | `SourceLoaderProofs` |
| `ReferenceJobs` | metadata checks, lateness and the five rules, as operators; the readings of one tag | |
| `TelemetryIngestion` | creating topics, generating, validating and publishing files; what `ReferenceJobs` makes of the topics | `TelemetryIngestionProofs` |
| `TriageRecommendation` | provider outcomes, fallback, the daemon's and the loader's validators, as operators | |
| `TriageFlow` | one anomaly given the same answer on both paths | `TriageFlowProofs` |
| `EventTriage` | what the daemon promises of each event, abstractly | |
| `DiagnosisAgent` | one daemon: main loop, pool, consumer with automatic commits, producer, signals, kills, restarts; uses `TriageRecommendation` for what a job decides; implements `EventTriage` | `DiagnosisAgentProofs` |
| `IncidentWorkflow` | `group_anomalies` | `IncidentWorkflowProofs` |
| `EnrichPipeline` | the enrich and the anomaly job of one tenant, from the raw and change topics to the anomaly table | `EnrichPipelineProofs` |
| `AlertLoader` | runs of the phase-4 loader over a growing table; its grouping steps are the steps of `IncidentWorkflow` | `AlertLoaderProofs` |
| `Picking` | list comprehensions with a condition (`Picked`), for `SourceLoader` and `TelemetryIngestion` | |
| `SequenceFacts` | nothing: lemmas on `FlattenSeq`, `SetToSeq` and `Picked`, used by four of the proof modules | |
| `MC…` | instances for TLC | |

Composition is by `EXTENDS`: `AlertLoader` conjoins `Next` of `IncidentWorkflow` in
its action `Group`; `DiagnosisAgent` branches on `agent_verdict` of
`TriageRecommendation`; `TelemetryIngestion` applies the rules of `ReferenceJobs` to the records its
topics hold. `EventTriage` is an `INSTANCE` in `DiagnosisAgent` with a refinement mapping.

A definition named like another with an added suffix (`Close_not_committed`) is a
faulty variant of it. No specification uses one; replacing the definition by its
variant makes TLC report the property listed for it in `PROJECT.json` under `mutants`,
which shows that the property notices such a bug.

### 2.1 DiagnosisAgent and the code

The main thread is a program counter `main`; a job of the pool is `job[o]`, one per
offset.

| Action | Code |
|---|---|
| `CheckLoop` | `while not _shutdown_flag`, the test of `--max-events`, the test of `len(pending)` against twice the workers |
| `WaitForOne` | `wait(..., FIRST_COMPLETED)` and popping everything finished |
| `AutoCommit` | kafka-python commits the position from inside a poll, once the interval has passed |
| `PollRecord` | poll returns a usable record: submitted, counted as processed |
| `PollNone` | timeout, or a record `poll` drops for a missing field or another tenant; finished futures are popped |
| `PollRaises` | a record that is no JSON: the deserializer raises out of `poll`, through `finally`, out of `main` |
| `DrainOne`, `DrainDone` | `as_completed(pending)` after the loop, `executor.shutdown` |
| `Close` | `consumer.close()`, with its last commit or without if that fails |
| `StartJob`, `Diagnose` | a worker takes the job, assembles, diagnoses, validates |
| `Deliver`, `Acknowledge`, `ProduceRaises`, `Flush` | the broker takes the message; `future.get(timeout=10)` answers, or fails; the message may still go out with a later flush |
| `Append`, `Signal`, `Kill`, `Restart` | the environment |

A record is what the code does with it: `usable`, `unusable` (evidence assembly
raises: a forbidden field, or null quality flags), `rejected` (poll returns `None`) or
`poison` (poll raises). In which of the records in front of a poison one a fetch
loses its results depends on the kafka-python release, and the requirement is only
`kafka-python>=2.0`; the model allows both.

The containers start through `sh -c "pip install … && python …"`
(`docker-compose.yml:197-201`), so a `docker stop` signals the shell; what the daemon
then sees is mostly the kill that follows. Both ends are modelled.

**What it implements.** In `EventTriage` an event is received, taken once, open, and settled with
a result; `pass` requires a published diagnosis; a crash interrupts what is open and makes the
daemon forget having taken some events. The mapping, at the end of `DiagnosisAgent`: received are the
usable records of the topic, taken those in front of the offset the process, or its successor,
reads from, open the jobs queued or running, interrupted those that ran at a kill, crashes the ends
that did not commit. `PollRecord` is `Take`, a worker's last step `Settle`, the broker's
acceptance `Publish`, `Kill` and a `Close` whose commit fails `Crash`; everything else stutters.

### 2.2 IncidentWorkflow and the code

The list is sorted and then visited row by row; the model visits `todo` in sorted
order, ties in any order, which is every order the sort may leave. `OpenFirst`,
`ResolveAndReopen` and `Update` are the three branches of the loop
(`incident_workflow.py:150-159` with `_update_incident`). `rows` is a history field:
which rows the incident absorbed. The SHA-1 of a correlation key stands for the key,
that is, a collision of the hash is not considered.

### 2.3 AlertLoader and the code

A run is `Query`, `Group` steps, `Recommend`, one `Route` per incident (with the
Teams call), `StartExecute`, one `Execute` per statement and `ExecuteEnds`, which may
stop after any statement. `Arrive` adds rows between any two of these. `carded` holds the incidents `send_teams_card` was called for, also when the call is
simulated for lack of a webhook or fails; `delivered` those that Teams has shown. Tables of type
ReplacingMergeTree are functions from the key to the last row. The order in which the
routing loop visits incidents is left open. A failure of a query, or the death of the
loader, is `Abort`.

### 2.4 TriageRecommendation and the code

A recommendation is a record of the things the validators can tell apart: which
fields are present, which identity fields equal the evidence's, which lists are not
empty, whether the runbook references are known, unknown or of a kind the loader fails on,
whether types conform, and which banned claims its values make, split by whether one or both
patterns have the phrase and which of the validators reads the value: both, only the daemon
(`suggested_action`), or only the loader (a value that is neither a string nor a list, which
`validation.py:45-46` turns into text and the daemon skips). `Died` is the loader's run ending in the
`TypeError` of `validation.py:34-36`, with nothing stored.

### 2.5 EnrichPipeline and the code

The contents of the four source topics are fixed at the start; a record written later is
one not read yet. The query (`enrich.sql.tpl:84-92`) is three joins in a row, which run side by side: each
takes one record of either side at a time, in any order, and what it puts out waits in a `queue` in front
of the next. `ReadFirst` is the join of readings and tags, whose left join is an inner one because of
`WHERE m.asset_id IS NOT NULL`; `TakeLeft` is one of the later joins taking a change from its queue, and
`ReadRight` the same join reading a row of its master table. Then, like the `StreamingJoinOperator` of
Flink 1.19, it first withdraws every row of its left side that it had padded with NULLs (`-D`) and only
then puts out the new ones (`+I`). The rows of its state come in any order (`Changes`). The queues keep
their order, since nothing configures a parallelism or a second partition.
The query's rows have no unique key while the sink has `event_id`, so that Flink puts
an upsert materializer in front of the sink, which keeps the rows of an event
(`kept`) and writes the last; `Materialize` takes one change to it and to the upsert topic. `Detect` is the anomaly job on one record of the
topic, which it reads with the plain connector: a tombstone is no row to it, an update is a
row like any other. `Ingest` is the Kafka engine table with its view. `SubmitEnrich` and
`SubmitAnomaly` are a job that ended, submitted again: nothing configures checkpoints, so
it starts from the earliest offset, with empty joins.

PostgreSQL's changes arrive flattened, deletes included (`delete.handling.mode` is
`rewrite`), and the SQL reads neither `op` nor `__deleted`: each change is one more row
to join with.

### 2.6 SourceLoader and the code

`step` is the table `main()` is at (`phase1-load-postgres-source-data.py:740-900`). `SkipTable` is the
branch of a table that holds rows, `Prepare` renders the statements from what the database holds
at that moment, `Execute` is one statement at PostgreSQL, `FinishTable` the end of `psql`. A row is
its key, the rows its foreign keys name and one datum. `Accepted` is what PostgreSQL checks; a
refused statement has no effect but the identity values it drew. The three taxonomy tables are
counted together and loaded one after the other, which `to_load` and `SkipTable` keep.
`Backfill` is the `UPDATE ... FROM` of the events; where several pairs match, PostgreSQL takes any.
`class_of` is the dictionary of lines 349-354 with the default of line 436; the id 1 of lines 393
and 440, for a code not found, is in `captured_id`. `Report` looks at counts only, as the script does. `Interrupt` stands for a kill, a `psql` that
fails and its timeout, at any point. A kill ends the script and its `docker` client; `psql` is in the container and
may execute what it has in its buffer. The model has that as a later kill, which is the same as long
as `psql` is through before the next run counts a table. A run started within that moment is not modelled.

### 2.7 TelemetryIngestion, ReferenceJobs and the code

A command is a list of writes, made when it starts from what it reads then, and carried out
one by one: `CreateTopic` (an existing topic is no error), `WriteFile`, `AppendFallback`, `Produce`
(one `rpk` call per topic, in order of first appearance), `ProduceRefused` for a topic that is not
there, which ends the run. `Kill` strikes between two writes, `Break` within one: a file keeps its
first lines, the last perhaps cut, a topic the first records of a batch. The generator's draw is the
constant `Jitter`. Times are minutes, values hundredths; means and deviations are compared by exact
sums. Of the rule parameters the defaults are modelled.

The publisher sets the times of a record, or the ingest time only, and its `synthetic_metadata` before it
checks the contract (`publish_raw_events.py:82-91`); the validator checks what is in the file. A record has
these fields, absent, malformed or in order, like those the publisher leaves alone (`schema_errors`). The
handmade file stands for any `*.jsonl` that somebody writes: the validator reads those of a directory when no
`--profile` is given (`InputFiles`), the publisher one it is given the name of.

A reading has next to its time a flag that tells whether the text of that time has a fraction of a second.
`_sorted_events` compares texts, in which "." comes before "Z" (`time_text`), while gaps are taken from the
times themselves (`exact_time`); one fraction, half a minute, stands for any. `quality_flags` of a window are a list of
lists, of which the first is used (`anomaly_rules.py:126-130`), or one list. The baseline of a spike is
`rolling_baseline_mean`, or `baseline_value` when the former is missing or 0.0 (`:218`). `WindowOf` builds the
window a list of readings amounts to in each of these forms (`Forms`).

The list of readings the rules are applied to (`Arrive`) shares no state with the commands;
`Next` lets it grow while no command has been started, which adds up the two state spaces and does
not multiply them.

## 3. What the runs check

| Run | Instance | Shows |
|---|---|---|
| `incident_workflow` | four rows of one signal over three cooldowns, or three of two tenants and signals with one doubled; 2:4 for bucket and cooldown | ids, separation, partition, channel, growth, and agreement with a reference definition (`Linked`) |
| `triage_flow` | every combination of identity, lists, runbooks and types with seven field sets and at most one banned claim, and every failing reply | fallback on failure, complete rows, the daemon no laxer than the loader but for the schema and runbooks |
| `triage_prompt` | the same | **violated**: an answer that follows the prompt is never used by the loader (finding 1) |
| `agent` | five records of all kinds, two workers, no limit, one signal, one kill or failed commit | all safety properties of the daemon with results out of order and a full pool; `EventTriage` is implemented |
| `agent_liveness` | four records, one worker, a process that ends after three events and starts again, one signal, fair scheduling | every event is settled; the limit is kept; a signal ends the process |
| `alert_loader` | four rows, three read at a time, three runs | stored references, delivered cards, completeness of a run |
| `alert_loader_window` | two read at a time, two runs | **violated**: one anomaly in two stored incidents (finding 2) |
| `enrich_pipeline` | one or two readings with one tag, asset and component; an event id used twice, for one breach or two, a renamed asset, a remapped tag; in these one job is submitted again. Two readings of one id and two tags, three of one id and tag; fair scheduling | the complete join is reached in every order, only breaches are reported, each is stored; one reading is reported at most three times, readings that share an id within a bound (nine for the three, of which a run can have eight) |
| `anomaly_grain` | one reading whose asset has a row, no job submitted again | **violated**: the reading is reported before and after its asset was read (finding 3) |
| `source_loader` | three tenants, five components, two failure modes, one of a type the class map lacks; three runs, two of them killed at any statement | references, numbers and taxonomy hold; a first run is complete; a complete load is final |
| `source_events` | the same | **violated**: a work order whose event was refused (finding 4) |
| `telemetry_ingestion` | two tenants, four tags in six scenarios, two seeds, a file by hand with records for each route and with bad times and metadata; four commands, one killed; lists of up to six readings of five kinds | routing, verdicts, scenarios as the jobs see them; the rules |

**Bounds.** `MaxOffset`, `MaxSignals`, `MaxUncleanEnds`, `MaxRuns`, `MaxInterrupts`, `MaxJobs`,
`MaxFailures`, `MaxReadings`, `MaxSubmissions` and the number of rows
are the only bounds; each is in a guard. With two workers the pool is full
at four, hence five records; with one it is full at two, so that four records fill it twice and,
with a limit of three events, leave one to the next process. One unclean end is enough to lose or repeat an event and
to see what the process does after it. Four rows over three cooldowns give chains, two
separate incidents, and a row on both sides of every boundary (ts 4 and 5 after ts
0). Three runs let a complete run follow a cut one that followed a complete one.
`MaxEvents` above `MaxOffset` stands for `None`. In `SourceLoader` the first
kill can leave any table short, the second any table of the run that follows, and the third run can
complete; two component types with different numbers of events tell an id that counts rows from
one that counts components. In `TelemetryIngestion` four commands create the topics, generate,
and publish twice, or generate twice and publish both, or validate in between, one of them killed
(five commands hold as well, with 2.8 million states); six readings are the least a flatline needs,
and the gaps of nine and ten minutes are on both sides of the heartbeat's limit. In the rules' readings, two of the five kinds have a
fraction and come with no minute between, so that texts are equal, and smaller than those of readings before
them; the values give each rule both outcomes. In `EnrichPipeline` a topic of at most two rows per
source has every kind of overtaking, and two master rows of a key are enough for a joined row
to be kept next to another. Three readings of one id and tag are the least for which one `ReadRight` can withdraw two rows,
one after the other, that are last at that moment.

**Deadlock** is checked where the system must go on (the agent's runs). `group_anomalies`,
one triage, a bounded number of runs or commands and topics of fixed contents come to an end, so
their configurations switch it off.

**Fairness** (`agent_liveness` and `enrich_pipeline`). The main thread runs (`WF(Main)`); a job that can go
on does (`WF(Worker(o))`: the provider's call has a timeout of 120 s, the producer's of
10 s, and pool threads are started by the executor); Docker restarts the container
(`restart: unless-stopped`, `WF(Restart)`). `PollRecord` has strong fairness: poll has a
timeout of one second and may time out any number of times, but Kafka does not do so for
ever while records wait. The same holds for a poll that drops a rejected record. No
fairness is assumed of `Append`, `Signal`, `Kill` and `AutoCommit`. The liveness instance
has no kill and no poison record: a killed process may lose events and a poison record
stops the daemon for good, since it is read again after every restart. In
`enrich_pipeline` a submitted job goes on reading what its topics hold and writing what it
has (`WF` of `ReadFirst`, `TakeLeft` and `ReadRight` of each source, `Materialize`, `Detect`), as does ClickHouse (`WF(Ingest)`); no
fairness is assumed of `SubmitEnrich` and `SubmitAnomaly`.

## 4. What is proved

All theorems hold for every value of the constants that satisfies the named assumptions
in the modules; TLC evaluates the assumptions on every instance. Each invariant below was
checked by TLC on the module's instance before it was proved.

**IncidentWorkflowProofs** assumes a positive bucket, a cooldown no shorter than the
bucket, and that inputs are sets of rows.

- `TypeCorrect`: `Spec => []TypeOK`.
- `Separation`: incidents of one base key are more than a cooldown apart.
- `UniqueIds`: no two incidents of a call share an id. It rests on the separation: the
  first rows of two incidents of one key are more than a cooldown, hence more than a
  bucket apart.
- `RowsPartitioned`, `ChannelIsOfWorstRow`: every row visited is in exactly one incident, and the
  channel is that of the worst of them.
- `GroupsAreLinked`: the loop computes the reference definition `Linked`, in whatever order rows of
  equal times are visited.
- `OnlyGrowth`: `Spec => IncidentsOnlyGrow`, an action property.

Separation is not inductive. The invariant `IInv` adds that every incident's times are in
order, that resolved incidents of a key lie a cooldown before the active one, and that
no row still to be visited is older than an active incident's last row of its tenant,
which is where the sort enters. What an incident's rows have to do with its summary needs a second
one, `RowsInv`: next to the partition itself, the first and last times are those of rows
(`SpansItsRows`), from every row but the last some row of the incident is less than a cooldown ahead
(`Chained`), and severity, rank and channel are those of a worst row (`SummarisesItsRows`). With
`Chained` a gap can only lie between incidents and with the separation of `IInv` there is one there:
these are the two directions of `GroupsAreLinked`. That property alone says nothing before the loop
ends.

**DiagnosisAgentProofs** assumes at least one worker and natural bounds; topics are any
set of contents, replies any set of answers. The invariants are built in three layers.

- `TypeCorrect`: types, and `committed <= position <= end`.
- `JobInvariance`: `JobInv`, the pool and the main thread agree. A job lies behind the
  position, what is not finished is in `pending`, a process that is down has no jobs
  (`Jobs`); every event in front of the position has a result, is in the pool, or was in it
  at a kill (`Covered`, which is `LossOnlyByKill` for the position instead of the committed
  offset: the commit takes the position, so the property itself is not inductive); a
  record the next poll could return has been submitted at most once per unclean end
  (`Retriaged`); an acknowledged diagnosis is in the topic (`Sent`). From it `NoOtherLoss`,
  `NoOtherRetriage` and half of `NoFalseSuccess`.
- `CountInvariance`: `CountInv`, each counter is the cardinality of a set of offsets
  (`Counters`), which makes the sum in `Accounting` a fact about disjoint sets; and the loop's
  tests before a poll bound `pending` and `processed` (`Limits`). From it `CountersAddUp`,
  `Backpressure`, `EventsLimited` and the rest of `NoFalseSuccess`.
- `Refinement`: `Spec => RefinesEventTriage`. `NextRefines` takes the steps one by one, `WorkerRefines` those
  of the pool. It needs `Jobs` of `JobInv` (a record about to be polled is not open, so that
  taking it opens it) and `Sent` (a job that ends with `pass` has its diagnosis in the topic). A
  restart stutters since the next process reads from the committed offset, which is where
  "taken" already pointed while the process was down.

**TriageFlowProofs** assumes that the replies are answers of the shape `Replies`: any set of
present fields, identities, lists and claims. `FlowInv` (`FlowInvariance`) says that each caller holds
what its code computes of the one answer; the rest is about the operators.

- `FailureStillTriaged`: `FallbackPasses`, the rules' recommendation passes both validators,
  and `ParsedAnswer`, nothing but an object is taken for a recommendation.
- `StoredRowComplete`: whatever the loader accepts has, by the schema's required fields and
  the one it adds, every key of the row.
- `AgentNoLaxer`: an answer the daemon publishes fails at the loader only for its schema or an unknown
  runbook, and for its wording only together with the schema. The claims are split by which pattern knows
  the phrase and which validator reads the value. A phrase that both patterns have and only the loader reads
  stands in a value of a type the schema forbids, which is why the wording comes in with the schema alone;
  that the daemon publishes such an answer at all is among the observations of section 5.

**AlertLoaderProofs** builds on `IInv` and `RowsInv`, which the loader's steps keep (its `Group` is a
step of `IncidentWorkflow`, its `Query` a new call). It assumes a positive limit, and that the value for an
absent row is no incident.

- `StoredRowsReferToStored`, `DeliveredMeansShown`, `LoadedRunComplete`, from `LoaderInvariance`.

None of the three is inductive, since each `INSERT` is planned long before it is executed. `LoaderInv`
adds of the statements not yet executed that whatever one refers to is stored already or planned
in front of it (`StatementsInOrder`), that a planned "delivered" was shown (`PendingWasShown`),
and of the run that each incident is unrouted, planned as it is, or stored as it is, with a call of Teams exactly
if its channel is Teams (`RunProgress`). The last takes `RowsInv` to say it of the rows.

**EnrichPipelineProofs** assumes that a topic is four sequences, one per source, and a natural bound on
submissions; keys may occur any number of times, with any contents.

- `StagingComplete`: in the end the staging topic has, for every event of the join, a row of the join.
- `BreachesOnly`: an anomaly stems from a breaching reading that matches its tag.

`PipelineInv` (`PipelineInvariance`) says, next to the types, where the changes in each queue lead
(`QueuesLead`): taken one after the other from the left rows the next join holds, each adds a row that is
not there or withdraws one that is (`Leads`), and the last yields what the join in front has put out by now. The
sink keeps rows without their places, of which several may be equal; it therefore holds as many equal
rows as a set of joined rows has with those columns (`Keeps`), and the changes lead on from that set. What a
join puts out has to lead from its former output to its new one in whatever order its rows come
(`LeadsByAdded`, `LeadsByWithdrawn`, for one row of the right side `RightRead`). `LastKeptWritten` ties the
staging topic to the last row kept. When all is read and the queues are empty, `QueuesLead` says that what
is kept is the join.

- `ReportsBounded`: with one row per key and no second submission an event is reported at most as often as
  `AtMostThreeReports` says, whatever the order in which the topics are read, the joins take their two sides and
  put out their rows.

A bound on the length of `mart` is not inductive: what matters is how many records may still come.
`ReportsInv` (`ReportsInvariance`) therefore bounds what is written of an event together with what may
still be (`room`): the changes on their way that may have the sink write a row (`cost`), the rows the first
join has yet to put out (`untagged`), and the readings for which a master table has a row to come
(`awaits`), each of which costs a new row and, where readings share the event, a withdrawal. No step
increases it (`ReadFirstKeepsReports` to `MaterializeKeepsReports`), since with one row per key a reading has one
tag row and finds one row per master table at most (`OneMatch`, `StageOneEach`); and it starts at the bound
(`ReportsInit`). That needs nothing of the order of withdrawals and new rows: each withdrawal counts as
a record whether or not the row was the last one kept. Only for an event with a single reading is a withdrawal
free, because it takes the only row kept and leaves a tombstone (`AloneWithdrawn`).

**SourceLoaderProofs** bounds neither runs nor kills. Of the configuration it assumes that it is made of
sequences, that no tenant is listed twice (`sql/postgres_init.sql:295` stores them with
a primary key), that the default class of line 436 is in the map of line 349, and, for a complete first
run, that its files are about each other (`LoadableAssumption`): no list of theirs is empty, the tenants of
`assets.yml` are those of the loader, tags are of assets, from which `build_tag_metadata` makes them, and
every threshold profile has its rule, as line 2 of `threshold_profiles.yml` says.

- `CompletenessIsFinal`: `Spec => CompleteIsFinal`. That `complete => db' = db` is not inductive: the
  backfill runs again in every later run, and two tables are loaded without being
  counted. `LoadInv` (`LoadInvariance`) adds that the events are fixed points of the backfill once
  a report was reached (`BackfillAgain`, from `BackfillLinks`: linking twice gives what linking
  once gives, since the pair it picks depends on the other two tables only), that a
  complete database has no empty table, and that after it the run is never at
  `apm_failureclass` or `apm_failuremode`, which are entered from the tables before them alone
  (`FollowingTaxonomy`).
- `ReferencesAlwaysHold`: every foreign key holds and no key occurs twice. `ReferenceInv`
  (`ReferenceInvariance`) adds that the statements of a script are for the table of the step and
  have distinct keys; the rest is what PostgreSQL accepts, and that the backfill writes keys it has read.
- `NumbersAlwaysAgree`: rows of one number belong together. The property compares tables that
  need not exist yet; `NumbersInv` compares each row with the slot of its number instead
  (`NumberedRow`). Slots are computed from the components in the database, so that it has to say that no
  row has a number while components still come, also when a run was killed between two of them.
- `TaxonomyIsAlwaysTree`: failure modes are linked to their own class and domain. `TaxonomyInv`
  (`TaxonomyInvariance`) adds that ids are numbers up to the serial's value, which reading back the
  last row of a code takes, and that a table of codes is empty or has every code of every
  tenant, which is where one `INSERT` for all rows enters: no id 1 is made up for a missing code, but for
  a whole missing table, and then the row is refused.
- `FirstRunAlwaysComplete`: a first run that nothing interrupts stores all the configuration asks for. The
  property speaks of the end of the run; `FirstRunInv` (`FirstRunInvariance`) says of every state of it which
  tables are full (`Filled`), that those to come are empty (`LoadingAt`), and of the one under way that the keys
  stored and the keys that the statements left over will add are together those wanted (`Pending`). A
  statement adds a key only if the rows it refers to are stored (`FindsAll`), so that for each table, in
  order, the rows of the tables before it have to be shown to be the ones it refers to
  (`NextTablePending`): that is what the order of `main` is about. An event whose failure mode is another
  tenant's is left out on both sides; that some event is left for the count of the report is `SomeEvent`:
  the second event of a component names no failure mode.

**TelemetryIngestionProofs** bounds neither commands nor kills, and takes any configuration, files
and draw. It assumes that lists are sequences and records of the handmade file have the fields of
the contract (`ListsAssumption`); that the tags are distinct and draws are numbers (`TagsAssumption`: they are
the keys of a dictionary, `config.py:352`); that an id stands for one record, for one line of a file
and for one seed (`IdentityAssumption`: ids are hashes of what a record is about and of the seed,
`generate_events.py:298-308`, and the property counts records by id); that the delay and the lateness allowed
come to the quarter of an hour of the late scenario (`LateScenarioAssumption`: `streaming.yml:7-8` and
`generate_events.py:125`); and that what is generated happened before the publisher runs
(`NowAssumption`: the profile starts on a fixed day, `generate_events.py:234`).

- `RecordsRouted`: each record is where its verdict and tenant send it, at least once for each run of
  the publisher that ended and at most once for each other, and nowhere else.
- `ValidatorAndPublisherAgree`: what the validator accepts the publisher never rejects; what the validator
  rejects reaches a raw topic only if all its errors are in the times and the `synthetic_metadata`, which the
  publisher sets itself. It holds of every record of every file, by hand included, whatever files a killed
  command left (`StampedErrors`: stamping a record takes exactly these errors away).
- `HeartbeatFound`: the heartbeat rule finds a gap in what is stored of a missing_heartbeat series, and in no
  other series, and finds the same with every repetition left out, for any number of tags and periods and any
  draw, after any kills and repetitions.
- `LateBehindHeartbeats`: in one backfill of one generated file, cut short or not, an event is late only behind an
  event of the missing_heartbeat scenario.

The routing property is about what is stored, and a run stores one batch at a time, the last one
perhaps in part. `IngestionInv` (`IngestionIsInductive`) therefore says of each record (`NumberInv`) that
the copies stored lie between the ended runs and all runs that have it; and, while a run that has
it is under way, that there are fewer than all runs if it still waits to be written and more than the
ended ones if it does not. This needs that a record waits in one write at most (`PublisherWork`),
which follows from how a run makes its batches: each route goes into the batch of its topic, once
(`PublishWrites`, from `RoutesToTopic` and `FirstRoutes`). The other parts say what each file may
hold, that what topics and the fallback file hold was routed there by a run, and that a run's input is
a file's records with the times of its mode.

The last two theorems speak of what a killed run leaves out, of which `IngestionInv` says nothing. `OrderInv`
(`OrderIsInductive`) says it: a raw topic has no event of the generator that is not preceded there by
a copy of each event which its file has before it for that topic (`Closed`). A killed generator leaves the first
lines of a file, a killed publisher the first records of a batch, and neither breaks this
(`FileOrderPrefix`, `ClosedPrefix`); nor does a batch behind others (`ClosedConcat`); and the
batch of a topic has the lines of the file in their order (`BatchClosed`, from `PickedInOrder`). It says
of ids, not of records, so that it holds of live runs too, whose times are others.

- With it an event that is late behind one without gaps has a lower number in the file than that one
  (`EventTimes`), and so has a copy before it; since no id is stored twice the late event is that copy, which
  comes first and is not behind (`LateBehindNone`).
- With it what is stored of a tag is a copy of each of its events up to some period (`TagSeries`). At one
  minute apart no two neighbours then have a gap (`NoGap`); at eleven minutes apart the first gap is
  the one after the first period, wherever the copies are (`GapFound`), and leaving repetitions out
  leaves the same periods (`SeriesOfFirsts`).

The module also proves what `ReferenceJobs` says of the anomaly rules, for readings of any number, value
and spacing (`ArrivalsAssumption`, and `NoneAssumption`: `None` is no number).

- `WindowsAgreeWithLists`: the two forms of each of the five rules find the same where both apply, for flags in
  one list or in several and for a baseline in either field; where they part the theorem says how. Of flags
  that are a list for each reading a window tells the first one's only. Drift is measured per reading by
  the list and by five minutes by the window, so that the two are equal at six readings, and in one direction
  on each side of it.
- `OrderOfArrivalIgnored`: rotated or reversed readings give the same anomalies. The inductive invariant
  (`ReadingsInv`, `ReadingsInvariance`) is that ids differ, without which it is false; with it
  the order of `_sorted_events` is total, a sorted list is fixed by the set it lists (`OneOrder`,
  by the least place at which two lists differ), and rotation and reversal keep that set.
- `SteadySeries`: equal readings are outliers of nothing: their variance is zero (`EqualMoments`), so
  that the z-score rule skips them. The six readings of a flatline without spread are equal, since their
  variance is a sum of squared differences (`SixMoments`).

The prover knows nothing of `SortSeq`; `sorted` is therefore written out as the place each event
gets (`SortedStable`: it is a sorted list of the same events, copies included). Totals and squares are folds: what a fold gives
for every list would be an induction over data with an operator as parameter, which is avoided
by giving the sums over the sets of places as a function (`SumExists`, `TotalsAreSums`).

**SequenceFacts** has what these need of `FlattenSeq`, which is recursive over the length: what a
flattened sequence holds, how often it holds a value, how long it is and where each row of a table comes to
stand, and the same of the items picked from a list, with their order; of listing a set, removing the first of several equal elements, rotating and reversing, of the
sums of a sequence, of how many of its first elements are of a set (`Amount`), and of elements that are
always followed by another (`Followed`). The library's induction theorems take a predicate
and cannot be used; the lemmas use induction over a set instead, from `WFMin` and the well-founded
order of the naturals, which mention no operator.

**Only model-checked.**

- Liveness (`EveryEventSettled`, `ShutdownEnds`, `EveryBreachStored`): liveness under fairness and `ENABLED` are
  out of the prover's reach. Every invariant of a passing run is stated by a theorem.

## 5. Findings

1. `src/triage_service/openai_provider.py:55` asks for "exactly these fields" and does not
   list `prompt_version`, which `contracts/agent_explanation.schema.json:21` requires. The
   daemon adds it (`diagnosis_generator.py:76`); the phase-4 loader does not, so an answer
   that does what the prompt says is quarantined and replaced by the fallback
   (`phase4-load-incidents.py:94-110`). Run `triage_prompt`.
2. `README.md:65` promises incidents by "time-bucketed dedup + cooldown". The loader groups
   only the newest `--limit` rows (`phase4-load-incidents.py:45`). When the first row of
   an incident falls out of the window the next run gives the rest another first row, and
   with it another id, next to the incident already stored. Run `alert_loader_window`.
3. `sql/clickhouse/ddl/schema.sql:323` gives `dwd_apm_anomaly_events` the grain "one row per
   (anomaly_id)". The anomaly job reports every version of a joined row of the upsert topic
   (`anomaly.sql.tpl:15-16`), so a reading that overtakes the row of its asset or component is
   reported up to three times, more with each update of a master row; the table is
   append-only. The phase-4 loader then sees the anomaly that many times. The run has a single reading, which
   is reported without its asset and again with it. Run `anomaly_grain`.
4. `scripts/phase1-load-postgres-source-data.py:593` says the work orders are "linked to failure
   events — one per failure event", and line 535 that using component ids of the
   database avoids violations of foreign keys. Every third event names failure mode
   `(index % 12) + 1` (lines 567-570); the ids 1, 4, 7 and 10 are all of the first tenant, since each
   mode is numbered for the three tenants in turn (lines 429-441). PostgreSQL refuses these events for
   the other tenants (`sql/postgres_init.sql:233`), `psql` goes on, the script reports success, and
   work orders name events that are not stored. Run `source_events`.

Observations that no run states as violated:

- `configs/scenarios.yml:9` says of the late scenario that "event time lags ingest time enough to exercise
  watermark and lateness handling". The generator writes it so; the publisher sets both times to its
  own clock in a live run (`publish_raw_events.py:88-90`), after which there is no lag, and the late-events
  job (`late_events.sql.tpl:70`) finds none. In a backfill it sets the ingest time, and the job finds every
  event late.
- `README.md:323` lists "Validate output (cross-tenant isolation, banned wording, content completeness)" for
  the daemons. Both wording checks of the daemon (`diagnosis_generator.py:94-98`,
  `output_validator.py:74-78`) join strings and lists only, so that a banned phrase in a summary that is an
  object is published (`wording_allowed`).
- The publisher puts records in a raw topic that `validate_raw_events.py` rejects, when nothing is wrong but
  their times or `synthetic_metadata` (`VerdictsAgree`).
- An answer of the model whose `runbook_references` is a number or holds a list ends the phase-4 loader's
  run with a `TypeError`; nothing of that run is stored (`Died`).
- In the window form a threshold rule without a baseline takes it as 0.0, so that any
  reading of zero or more is a spike; in both forms a steady series at zero or below is one
  (`WindowAgreesWithList`, `SteadySeriesOnlyFlatlines`).
- Two readings of one event id put each other's row out again whenever the row last written
  is withdrawn: the bound of three reports per reading does not hold of them, and `AtMostThreeReports` allows one
  more per reading and master table. The pump's ids repeat after a restart (`e2e_data_pump.py:101`).
- A heartbeat gap equal to the limit counts, where the comment in `anomaly_rules.py` says
  greater.
- `configs/anomaly_rules.yml:62` names its slope `max_slope_per_hour`; the window form takes it as a slope
  per minute (`anomaly_rules.py:472`).
- Topics hold duplicates after a repeated publication. They cannot change what the heartbeat
  rule finds (`HeartbeatSurvivesReplay`); no such property holds of the spike and z-score rules, whose
  baselines the duplicates shift.

## 6. Not modelled, and why

- The lookups of `context_lookup.py` (they return defaults), the payload of evidence, audit
  rows' hashes and token counts, the text of cards: no property depends on them.
- Retries and duplicates inside the Kafka client and the broker's replication.
- `src/alerts/routing.py`: no caller.
- The demo feedback row of the phase-4 loader: a constant row.
- Shell scripts, Make targets, reports, seeds, dashboards: sequential I/O.
- `phase3-load-triage.py`: one pass that stores the fallback for the newest rows; the phase-4
  loader, its sibling, has the state and the side effects.
- Several daemons in one group: what a rebalance does to records in flight depends on the
  coordinator and the client's heartbeat thread, of which the code says nothing.
- The pump as a process (its repeated ids are in the instances of `EnrichPipeline`); the publisher's
  dry run and `--tenant` filter.
- The generator's `industrial_demo` profile with its work orders and labels, which are drawn from the
  seed and read by nothing that keeps state; loading of YAML.
- Rule parameters read from JSON, confidences, the health record, and the comparison of two files in
  `src/flink_jobs`.
- The late, dlq and health jobs, which filter, copy and count rows; dimension tables and the refresh of the
  serving tables, which are computed from queries over the clock's last minutes.

## 7. Plan

Done: all modules of section 2, with the proofs of section 4. Left:

1. The refresh of the serving tables against late rows of the fact tables.
