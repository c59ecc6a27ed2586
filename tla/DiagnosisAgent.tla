--------------------------- MODULE DiagnosisAgent ---------------------------
(***************************************************************************)
(* One daemon of src/src/flink_agents: the main loop and the thread pool   *)
(* of realtime_diagnosis_agent.py, the consumer of                         *)
(* anomaly_event_consumer.py with Kafka's automatic offset commits, and    *)
(* the producer of diagnosis_producer.py.  The process may be signalled,   *)
(* killed at any point, and is restarted (docker-compose.yml:192).         *)
(*                                                                         *)
(* One partition of one anomaly topic is modelled.  A record is what the   *)
(* code does with it: poll returns it ("usable" and "unusable"), returns   *)
(* None for it ("rejected") or raises on it ("poison"); assemble_evidence  *)
(* raises on an "unusable" one, which names a forbidden field or has null  *)
(* for its quality_flags.                                                  *)
(***************************************************************************)
EXTENDS TriageRecommendation, Integers

CONSTANTS
    MaxOffset,        \* records the topic ends up with (bound)
    Topics,           \* contents of the topic, to choose from
    Workers,          \* --workers
    MaxEvents,        \* --max-events; above MaxOffset it stands for None
    Enabled,          \* --use-llm, with a key and a model configured
    Replies,          \* the answers the provider may give
    MaxSignals,       \* bound on SIGTERM and SIGINT
    MaxUncleanEnds    \* bound on ends without a last commit

Offsets   == 1 .. MaxOffset
Positions == 1 .. MaxOffset + 1
Kinds     == {"usable", "unusable", "rejected", "poison"}
Submitted == {"usable", "unusable"}     \* the kinds poll returns

ASSUME BoundAssumption  == MaxOffset \in Nat /\ MaxSignals \in Nat
                           /\ MaxUncleanEnds \in Nat
ASSUME WorkerAssumption == Workers \in Nat \ {0}
ASSUME EventAssumption  == MaxEvents \in Nat
ASSUME TopicAssumption  == Topics \subseteq [Offsets -> Kinds]
ASSUME LLMAssumption    == /\ Enabled \in BOOLEAN
                           /\ Replies \subseteq
                                [ kind: ReplyKinds, rec: Recommendations ]

JobStates == {"none", "queued", "diagnosing", "sending", "delivered",
              "flushing", "done"}
Results   == {"pass", "quarantine", "error"}
MainSteps == {"check", "wait", "poll", "drain", "close", "down"}

VARIABLES
    topic,        \* kind of the record at each offset
    end,          \* offset the next record is appended at
    position,     \* the consumer's position
    committed,    \* the group's committed offset
    main,         \* what the main thread does next
    shutdown,     \* _shutdown_flag
    pending,      \* the futures of pending, by offset
    job,          \* offset -> where the pool is with it
    stats,        \* the four counters
    outcome,      \* history: offset -> result of its last finished job
    published,    \* offsets with a diagnosis in the diagnosis topic
    attempts,     \* history: offset -> times it was submitted
    killed,       \* history: offsets in flight when the process was killed
    signals,      \* signals received so far
    unclean       \* ends without a last commit so far

consumer == <<end, position, committed>>
history  == <<attempts, killed>>
env      == <<topic, signals, unclean>>
vars     == <<topic, end, position, committed, main, shutdown, pending, job,
              stats, outcome, published, attempts, killed, signals, unclean>>

Started(o)  == job[o] \notin {"none", "queued", "done"}
Running     == { o \in Offsets : Started(o) }
Finished    == { o \in pending : job[o] = "done" }
InFlight    == { o \in Offsets : job[o] \notin {"none", "done"} }

ZeroStats == [ processed |-> 0, produced |-> 0, quarantined |-> 0, errors |-> 0 ]

Init ==
    /\ topic \in Topics
    /\ end = 1 /\ position = 1 /\ committed = 1
    /\ main = "check" /\ shutdown = FALSE
    /\ pending = {}
    /\ job = [o \in Offsets |-> "none"]
    /\ stats = ZeroStats
    /\ outcome = [o \in Offsets |-> "none"]
    /\ published = {}
    /\ attempts = [o \in Offsets |-> 0]
    /\ killed = {}
    /\ signals = 0 /\ unclean = 0

-----------------------------------------------------------------------------
(* The environment.                                                        *)

Append ==
    /\ end \in Offsets
    /\ end' = end + 1
    /\ UNCHANGED <<topic, position, committed, main, shutdown, pending, job,
                   stats, outcome, published, history, signals, unclean>>

Signal ==
    /\ main # "down"
    /\ signals < MaxSignals
    /\ shutdown' = TRUE
    /\ signals' = signals + 1
    /\ UNCHANGED <<topic, consumer, main, pending, job, stats, outcome,
                   published, history, unclean>>

\* SIGKILL: the threads are gone, the offsets committed so far stay.
Kill ==
    /\ main # "down"
    /\ unclean < MaxUncleanEnds
    /\ unclean' = unclean + 1
    /\ main' = "down"
    /\ killed' = killed \union InFlight
    /\ pending' = {}
    /\ job' = [o \in Offsets |-> "none"]
    /\ UNCHANGED <<topic, consumer, shutdown, stats, outcome, published,
                   attempts, signals>>

\* Docker starts the process again.
Restart ==
    /\ main = "down"
    /\ main' = "check"
    /\ shutdown' = FALSE
    /\ stats' = ZeroStats
    /\ position' = committed
    /\ UNCHANGED <<topic, end, committed, pending, job, outcome, published,
                   history, signals, unclean>>

-----------------------------------------------------------------------------
(* The main thread.                                                        *)

pool_full_exclusive == Cardinality(pending) > Workers * 2
pool_full == Cardinality(pending) >= Workers * 2

max_reached_exclusive == stats.processed > MaxEvents
max_reached == stats.processed >= MaxEvents

\* The top of the while loop.
CheckLoop_flag_ignored ==
    /\ main = "check"
    /\ main' = IF max_reached THEN "drain"
               ELSE IF pool_full THEN "wait" ELSE "poll"
    /\ UNCHANGED <<env, consumer, shutdown, pending, job, stats, outcome,
                   published, history>>

CheckLoop ==
    /\ main = "check"
    /\ main' = IF shutdown \/ max_reached THEN "drain"
               ELSE IF pool_full THEN "wait" ELSE "poll"
    /\ UNCHANGED <<env, consumer, shutdown, pending, job, stats, outcome,
                   published, history>>

Count(D, result) == Cardinality({ o \in D : outcome[o] = result })

\* pending.pop and _handle_result for the futures in D.
HandleResults_errors_uncounted(D) ==
    /\ pending' = pending \ D
    /\ stats' = [ stats EXCEPT !.produced = @ + Count(D, "pass"),
                               !.quarantined = @ + Count(D, "quarantine") ]

HandleResults(D) ==
    /\ pending' = pending \ D
    /\ stats' = [ stats EXCEPT !.produced = @ + Count(D, "pass"),
                               !.quarantined = @ + Count(D, "quarantine"),
                               !.errors = @ + Count(D, "error") ]

\* wait(..., timeout=1.0): what has finished, or nothing after the timeout.
WaitForOne_not_popped ==
    /\ main = "wait"
    /\ main' = "check"
    /\ UNCHANGED <<env, consumer, shutdown, pending, stats, job, outcome,
                   published, history>>

WaitForOne ==
    /\ main = "wait"
    /\ HandleResults(Finished)
    /\ main' = "check"
    /\ UNCHANGED <<env, consumer, shutdown, job, outcome, published, history>>

\* Inside a poll Kafka may commit the position it was left with, then go on.
AutoCommit ==
    /\ main = "poll"
    /\ committed' = position
    /\ UNCHANGED <<env, end, position, main, shutdown, pending, job, stats,
                   outcome, published, history>>

\* poll returns the record at o, which is submitted to the pool.
PollRecord(o) ==
    /\ main = "poll"
    /\ o = position /\ o < end /\ topic[o] \in Submitted
    /\ position' = position + 1
    /\ job' = [job EXCEPT ![o] = "queued"]
    /\ attempts' = [attempts EXCEPT ![o] = @ + 1]
    /\ pending' = pending \union {o}
    /\ stats' = [stats EXCEPT !.processed = @ + 1]
    /\ main' = "check"
    /\ UNCHANGED <<env, end, committed, shutdown, outcome, published, killed>>

PollNone_past_end ==
    /\ main = "poll"
    /\ \/ position' = position
       \/ position' = position + 1
    /\ HandleResults(Finished)
    /\ main' = "check"
    /\ UNCHANGED <<env, end, committed, shutdown, job, outcome, published,
                   history>>

\* poll returns None: no record within 500 ms, or a rejected one.
PollNone ==
    /\ main = "poll"
    /\ \/ position' = position
       \/ /\ position < end /\ topic[position] = "rejected"
          /\ position' = position + 1
    /\ HandleResults(Finished)
    /\ main' = "check"
    /\ UNCHANGED <<env, end, committed, shutdown, job, outcome, published,
                   history>>

\* The deserializer raises out of poll.  A client that parses a whole fetch
\* at once raises before it returns the records in front of the poison.
PollRaises ==
    /\ main = "poll"
    /\ \E o \in position .. end - 1 : topic[o] = "poison"
    /\ main' = "close"
    /\ UNCHANGED <<env, consumer, shutdown, pending, job, stats, outcome,
                   published, history>>

\* The as_completed loop.
DrainOne(o) ==
    /\ main = "drain"
    /\ o \in Finished
    /\ HandleResults({o})
    /\ UNCHANGED <<env, consumer, main, shutdown, job, outcome, published,
                   history>>

DrainDone ==
    /\ main = "drain"
    /\ pending = {}
    /\ main' = "close"
    /\ UNCHANGED <<env, consumer, shutdown, pending, job, stats, outcome,
                   published, history>>

\* The finally clause: executor.shutdown(wait=True), then consumer.close(),
\* whose last commit may fail.
Close_not_waited ==
    /\ main = "close"
    /\ \/ committed' = position /\ UNCHANGED unclean
       \/ /\ unclean < MaxUncleanEnds
          /\ unclean' = unclean + 1 /\ UNCHANGED committed
    /\ pending' = {}
    /\ job' = [o \in Offsets |-> "none"]
    /\ main' = "down"
    /\ UNCHANGED <<topic, signals, end, position, shutdown, stats, outcome,
                   published, history>>

Close_not_committed ==
    /\ main = "close"
    /\ InFlight = {}
    /\ pending' = {}
    /\ job' = [o \in Offsets |-> "none"]
    /\ main' = "down"
    /\ UNCHANGED <<env, consumer, shutdown, stats, outcome, published, history>>

Close ==
    /\ main = "close"
    /\ InFlight = {}
    /\ \/ committed' = position /\ UNCHANGED unclean
       \/ /\ unclean < MaxUncleanEnds
          /\ unclean' = unclean + 1 /\ UNCHANGED committed
    /\ pending' = {}
    /\ job' = [o \in Offsets |-> "none"]
    /\ main' = "down"
    /\ UNCHANGED <<topic, signals, end, position, shutdown, stats, outcome,
                   published, history>>

-----------------------------------------------------------------------------
(* The pool: _process_event in a worker thread.                            *)

JobStep(o, from, to) ==
    /\ job[o] = from
    /\ job' = [job EXCEPT ![o] = to]
    /\ UNCHANGED <<env, consumer, main, shutdown, pending, stats, history>>

\* A free worker takes the job queued first.
StartJob(o) ==
    /\ Cardinality(Running) < Workers
    /\ \A p \in Offsets : job[p] = "queued" => o <= p
    /\ JobStep(o, "queued", "diagnosing")
    /\ UNCHANGED <<outcome, published>>

Finish(o, from, result) ==
    /\ JobStep(o, from, "done")
    /\ outcome' = [outcome EXCEPT ![o] = result]

assemble_evidence_raises(o) == topic[o] = "unusable"

\* Context lookup, evidence, generation and validation, up to the produce.
Diagnose(o) ==
    \/ /\ assemble_evidence_raises(o)
       /\ Finish(o, "diagnosing", "error")
       /\ UNCHANGED published
    \/ /\ ~assemble_evidence_raises(o)
       /\ \E reply \in Replies :
            LET verdict == agent_verdict(Enabled, reply) IN
            \/ /\ verdict = "valid"
               /\ JobStep(o, "diagnosing", "sending")
               /\ UNCHANGED outcome
            \/ /\ verdict = "quarantined"
               /\ Finish(o, "diagnosing", "quarantine")
            \/ /\ verdict = "raises"
               /\ Finish(o, "diagnosing", "error")
       /\ UNCHANGED published

\* The broker appends the diagnosis.
Deliver(o) ==
    /\ JobStep(o, "sending", "delivered")
    /\ published' = published \union {o}
    /\ UNCHANGED outcome

\* future.get returns.
Acknowledge_unsent(o) ==
    /\ Finish(o, "sending", "pass")
    /\ UNCHANGED published

Acknowledge(o) ==
    /\ Finish(o, "delivered", "pass")
    /\ UNCHANGED published

\* future.get raises: after 10 s, whether the diagnosis was delivered or not,
\* or at once.  producer.close() then flushes what is still buffered.
ProduceRaises(o) ==
    /\ \/ Finish(o, "delivered", "error")
       \/ Finish(o, "sending", "error")
       \/ JobStep(o, "sending", "flushing") /\ UNCHANGED outcome
    /\ UNCHANGED published

Flush(o) ==
    /\ Finish(o, "flushing", "error")
    /\ published' \in {published, published \union {o}}

-----------------------------------------------------------------------------
Main == \/ CheckLoop \/ WaitForOne \/ PollNone \/ PollRaises
        \/ DrainDone \/ Close
        \/ \E o \in Offsets : PollRecord(o) \/ DrainOne(o)

Worker(o) == \/ StartJob(o) \/ Diagnose(o) \/ Deliver(o)
             \/ Acknowledge(o) \/ ProduceRaises(o) \/ Flush(o)

Next == \/ Append \/ Signal \/ Kill \/ Restart \/ AutoCommit
        \/ Main
        \/ \E o \in Offsets : Worker(o)

Spec == Init /\ [][Next]_vars

\* The main thread and the workers keep running, every call of a worker has a
\* timeout, Docker restarts the container, and Kafka does not time out poll
\* for ever while records wait.
Fairness ==
    /\ WF_vars(Main) /\ WF_vars(Restart)
    /\ \A o \in Offsets :
           WF_vars(Worker(o)) /\ SF_vars(PollRecord(o))
    /\ SF_vars(PollNone /\ position' # position)

FairSpec == Spec /\ Fairness

-----------------------------------------------------------------------------
(* Correctness.                                                            *)

\* Every variable keeps its type, and the group never commits past what the
\* consumer has read, nor reads past the end of the topic.
TypeOK ==
    /\ topic \in [Offsets -> Kinds]
    /\ end \in Positions /\ position \in 1 .. end /\ committed \in 1 .. position
    /\ main \in MainSteps /\ shutdown \in BOOLEAN
    /\ pending \subseteq Offsets
    /\ job \in [Offsets -> JobStates]
    /\ stats \in [ processed: Nat, produced: Nat, quarantined: Nat, errors: Nat ]
    /\ outcome \in [Offsets -> Results \union {"none"}]
    /\ published \subseteq Offsets
    /\ attempts \in [Offsets -> Nat]
    /\ killed \subseteq Offsets
    /\ signals \in Nat /\ unclean \in Nat

\* The counters printed at shutdown add up: an event counted as processed is
\* in exactly one other counter or still pending, whichever of the three
\* places that pop futures popped it (lines 166-181, 225-238, 258-269).
Accounting ==
    main # "down" =>
        stats.processed = stats.produced + stats.quarantined + stats.errors
                              + Cardinality(pending)

\* Backpressure: no more than twice the workers are pending, and the pool has
\* no job the main thread does not wait for (line 225).
BoundedPool ==
    /\ Cardinality(pending) <= Workers * 2
    /\ InFlight \subseteq pending

\* Offsets are committed before their events are diagnosed, yet an event of a
\* committed offset has a result or is in the pool, unless the process was
\* killed while it was: a shutdown, a poison record or a failed produce loses
\* none (lines 206-210, 258-275).
LossOnlyByKill ==
    \A o \in Offsets :
        o < committed /\ topic[o] \in Submitted =>
            outcome[o] # "none" \/ o \in InFlight \/ o \in killed

\* An event is triaged again only after an end of the process that did not
\* commit, once for each: restarts in themselves duplicate none (line 275).
RetriagedOnlyAfterUncleanEnd ==
    \A o \in Offsets : attempts[o] <= 1 + unclean

\* What is reported as produced is in the diagnosis topic (line 132).
ProducedIsPublished ==
    /\ \A o \in Offsets : outcome[o] = "pass" => o \in published
    /\ stats.produced <= Cardinality(published)

\* "process at most N anomaly events" (line 74), per start of the process.
EventLimit == stats.processed <= MaxEvents

\* Where the next process, or this one, will read on.
ReadsFrom == IF main = "down" THEN committed ELSE position

Usable(limit) == { o \in Offsets : o < limit /\ topic[o] \in Submitted }

Triage == INSTANCE EventTriage
    WITH Events <- Offsets, Results <- Results, received <- Usable(end),
         taken <- Usable(ReadsFrom), open <- InFlight, result <- outcome,
         published <- published, interrupted <- killed, crashes <- unclean

\* The loop, the pool, the offsets and the restarts together do to each event
\* what EventTriage says and nothing else: no offset arithmetic takes an event
\* twice or none, no way through the pool leaves one open (lines 206-275).
RefinesEventTriage == Triage!Spec

\* Every event Kafka returns gets a result, across signals and restarts, as
\* long as the process is not killed and no record is poison.
EveryEventSettled ==
    \A o \in Offsets :
        o < end /\ topic[o] \in Submitted ~> outcome[o] # "none"

\* A signal ends the process: nothing the pool does holds it up for ever.
ShutdownEnds == shutdown ~> main = "down"

=============================================================================
