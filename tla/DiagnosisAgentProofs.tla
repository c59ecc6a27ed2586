------------------------ MODULE DiagnosisAgentProofs ------------------------
(***************************************************************************)
(* Proofs about DiagnosisAgent, for topics of any length and content, any  *)
(* number of workers, any --max-events, any answers of the provider and    *)
(* any number of signals and kills.                                        *)
(***************************************************************************)
EXTENDS DiagnosisAgent, FiniteSetTheorems, TLAPS

\* The pool and the main thread agree on the jobs there are: those of offsets
\* behind the position, none in a process that is down, and every job that is
\* not done has its future in pending.
Jobs ==
    /\ \A o \in Offsets : job[o] # "none" => o < position
    /\ \A o \in pending : job[o] # "none"
    /\ InFlight \subseteq pending
    /\ main = "down" => pending = {} /\ \A o \in Offsets : job[o] = "none"
    /\ \A o \in Offsets : job[o] = "done" => outcome[o] \in Results

\* LossOnlyByKill for the position, which is what the next commit takes.
Covered ==
    \A o \in Offsets :
        o < position /\ topic[o] \in Submitted =>
            outcome[o] # "none" \/ o \in InFlight \/ o \in killed

\* A record still ahead was submitted at most once for each unclean end.
Retriaged ==
    \A o \in Offsets :
        /\ attempts[o] <= 1 + unclean
        /\ ReadsFrom <= o => attempts[o] <= unclean

Sent ==
    \A o \in Offsets :
        job[o] = "delivered" \/ outcome[o] = "pass" => o \in published

JobInv == Jobs /\ Covered /\ Retriaged /\ Sent

\* What each counter counts: the jobs of this process, and those whose future
\* was popped, by their result.
Known       == { o \in Offsets : job[o] # "none" }
Popped(r)   == { o \in Offsets \ pending : job[o] = "done" /\ outcome[o] = r }

Counters ==
    main # "down" =>
        /\ stats.processed = Cardinality(Known)
        /\ stats.produced = Cardinality(Popped("pass"))
        /\ stats.quarantined = Cardinality(Popped("quarantine"))
        /\ stats.errors = Cardinality(Popped("error"))

\* A poll is entered only below both limits.
Limits ==
    /\ Cardinality(pending) <= Workers * 2
    /\ main = "poll" => Cardinality(pending) < Workers * 2
    /\ stats.processed <= MaxEvents
    /\ main = "poll" => stats.processed < MaxEvents

CountInv == Counters /\ Limits /\ stats.produced <= Cardinality(published)

-----------------------------------------------------------------------------
(* Type correctness.                                                       *)

\* The offsets are finitely many, so that sets of them can be counted.
LEMMA OffsetsFinite ==
    /\ IsFiniteSet(Offsets)
    /\ \A S \in SUBSET Offsets : IsFiniteSet(S) /\ Cardinality(S) \in Nat
<1>1. IsFiniteSet(Offsets)
  BY BoundAssumption, FS_Interval DEF Offsets
<1>2. \A S \in SUBSET Offsets : IsFiniteSet(S)
  BY <1>1, FS_Subset
<1> QED
  BY <1>1, <1>2, FS_CardinalityType

\* Counting handled results keeps the counters natural.
LEMMA HandleResultsType ==
    ASSUME TypeOK, NEW D \in SUBSET Offsets, HandleResults(D)
    PROVE  /\ pending' \in SUBSET Offsets
           /\ stats' \in [ processed: Nat, produced: Nat, quarantined: Nat,
                           errors: Nat ]
           /\ stats'.processed = stats.processed
           /\ stats'.produced = stats.produced + Count(D, "pass")
           /\ stats'.quarantined = stats.quarantined + Count(D, "quarantine")
           /\ stats'.errors = stats.errors + Count(D, "error")
<1>1. \A r \in Results : Count(D, r) \in Nat
  <2>1. \A r \in Results : { o \in D : outcome[o] = r } \in SUBSET Offsets
    OBVIOUS
  <2> QED
    BY <2>1, OffsetsFinite DEF Count
<1>2. /\ Count(D, "pass") \in Nat /\ Count(D, "quarantine") \in Nat
      /\ Count(D, "error") \in Nat
  BY <1>1 DEF Results
<1>3. pending' \in SUBSET Offsets
  BY DEF HandleResults, TypeOK
<1>4. stats \in [ processed: Nat, produced: Nat, quarantined: Nat, errors: Nat ]
  BY DEF TypeOK
<1> DEFINE p == Count(D, "pass")
           q == Count(D, "quarantine")
           e == Count(D, "error")
<1>5. p \in Nat /\ q \in Nat /\ e \in Nat
  BY <1>2
<1>6. stats' = [ stats EXCEPT !.produced = @ + p, !.quarantined = @ + q,
                              !.errors = @ + e ]
  BY DEF HandleResults
<1> HIDE DEF p, q, e
<1>7. stats' = [ processed |-> stats.processed,
                  produced |-> stats.produced + p,
                  quarantined |-> stats.quarantined + q,
                  errors |-> stats.errors + e ]
  BY <1>4, <1>6
<1>8. /\ stats.produced + p \in Nat /\ stats.quarantined + q \in Nat
      /\ stats.errors + e \in Nat /\ stats.processed \in Nat
  BY <1>4, <1>5
<1> QED
  BY <1>3, <1>7, <1>8 DEF p, q, e

\* A step of a worker keeps the types and moves one job.
LEMMA WorkerType ==
    ASSUME TypeOK, NEW o \in Offsets, Worker(o)
    PROVE  /\ TypeOK'
           /\ \E s \in JobStates \ {"none"} : job' = [job EXCEPT ![o] = s]
           /\ job[o] \notin {"none", "done"}
           /\ UNCHANGED <<env, consumer, main, shutdown, pending, stats, history>>
<1>1. CASE StartJob(o)
  BY <1>1 DEF StartJob, JobStep, TypeOK, JobStates, env, consumer, history
<1>2. CASE Diagnose(o)
  <2>1. CASE \E r \in Results : Finish(o, "diagnosing", r) /\ UNCHANGED published
    BY <2>1 DEF Finish, JobStep, TypeOK, JobStates, env, consumer, history
  <2>2. CASE JobStep(o, "diagnosing", "sending") /\ UNCHANGED <<outcome, published>>
    BY <2>2 DEF JobStep, TypeOK, JobStates, env, consumer, history
  <2> QED
    BY <1>2, <2>1, <2>2 DEF Diagnose, Results
<1>3. CASE Deliver(o)
  BY <1>3 DEF Deliver, JobStep, TypeOK, JobStates, env, consumer, history
<1>4. CASE Acknowledge(o)
  BY <1>4
  DEF Acknowledge, Finish, JobStep, TypeOK, JobStates, Results, env, consumer,
      history
<1>5. CASE ProduceRaises(o)
  BY <1>5
  DEF ProduceRaises, Finish, JobStep, TypeOK, JobStates, Results, env,
      consumer, history
<1>6. CASE Flush(o)
  BY <1>6
  DEF Flush, Finish, JobStep, TypeOK, JobStates, Results, env, consumer, history
<1> QED
  BY <1>1, <1>2, <1>3, <1>4, <1>5, <1>6 DEF Worker

\* The initial state is well typed.
LEMMA InitType == Init => TypeOK
<1> SUFFICES ASSUME Init PROVE TypeOK
  OBVIOUS
<1>1. topic \in [Offsets -> Kinds]
  BY TopicAssumption DEF Init
<1>2. /\ end \in Positions /\ position \in 1 .. end
      /\ committed \in 1 .. position
  BY BoundAssumption DEF Init, Positions
<1>3. stats \in [ processed: Nat, produced: Nat, quarantined: Nat, errors: Nat ]
  BY DEF Init, ZeroStats
<1> QED
  BY <1>1, <1>2, <1>3 DEF Init, TypeOK, MainSteps, JobStates

\* Every step keeps the types.
LEMMA NextType == TypeOK /\ [Next]_vars => TypeOK'
<1> SUFFICES ASSUME TypeOK, [Next]_vars PROVE TypeOK'
  OBVIOUS
<1> USE DEF env, consumer, history
<1>1. CASE Append
  BY <1>1, BoundAssumption DEF Append, TypeOK, Offsets, Positions
<1>2. CASE Signal
  BY <1>2 DEF Signal, TypeOK
<1>3. CASE Kill
  BY <1>3 DEF Kill, TypeOK, InFlight, JobStates, MainSteps
<1>4. CASE Restart
  <2>1. /\ stats' \in [ processed: Nat, produced: Nat, quarantined: Nat,
                          errors: Nat ]
        /\ main' \in MainSteps /\ shutdown' \in BOOLEAN
    BY <1>4 DEF Restart, ZeroStats, MainSteps
  <2>2. position' \in 1 .. end /\ committed \in 1 .. position'
    BY <1>4 DEF Restart, TypeOK, Positions
  <2> QED
    BY <1>4, <2>1, <2>2 DEF Restart, TypeOK
<1>5. CASE AutoCommit
  BY <1>5 DEF AutoCommit, TypeOK
<1>6. CASE CheckLoop
  BY <1>6 DEF CheckLoop, TypeOK, MainSteps
<1>7. CASE WaitForOne
  <2>1. Finished \in SUBSET Offsets
    BY DEF Finished, TypeOK
  <2>2. HandleResults(Finished)
    BY <1>7 DEF WaitForOne
  <2> QED
    BY <1>7, <2>1, <2>2, HandleResultsType DEF WaitForOne, TypeOK, MainSteps
<1>8. CASE PollNone
  <2>1. Finished \in SUBSET Offsets
    BY DEF Finished, TypeOK
  <2>2. HandleResults(Finished)
    BY <1>8 DEF PollNone
  <2>3. position' \in 1 .. end /\ committed \in 1 .. position'
    BY <1>8 DEF PollNone, TypeOK, Positions
  <2> QED
    BY <1>8, <2>1, <2>2, <2>3, HandleResultsType DEF PollNone, TypeOK, MainSteps
<1>9. CASE PollRaises
  BY <1>9 DEF PollRaises, TypeOK, MainSteps
<1>10. CASE DrainDone
  BY <1>10 DEF DrainDone, TypeOK, MainSteps
<1>11. CASE Close
  BY <1>11 DEF Close, TypeOK, MainSteps, JobStates
<1>12. ASSUME NEW o \in Offsets, PollRecord(o) PROVE TypeOK'
  BY <1>12 DEF PollRecord, TypeOK, MainSteps, JobStates, Positions
<1>13. ASSUME NEW o \in Offsets, DrainOne(o) PROVE TypeOK'
  <2>1. HandleResults({o})
    BY <1>13 DEF DrainOne
  <2> QED
    BY <1>13, <2>1, HandleResultsType DEF DrainOne, TypeOK
<1>14. ASSUME NEW o \in Offsets, Worker(o) PROVE TypeOK'
  BY <1>14, WorkerType
<1>15. CASE UNCHANGED vars
  BY <1>15 DEF vars, TypeOK
<1> QED
  BY <1>1, <1>2, <1>3, <1>4, <1>5, <1>6, <1>7, <1>8, <1>9, <1>10, <1>11,
     <1>12, <1>13, <1>14, <1>15
  DEF Next, Main

\* Every reachable state is well typed.
THEOREM TypeCorrect == Spec => []TypeOK
BY InitType, NextType, PTL DEF Spec

-----------------------------------------------------------------------------
(* The jobs, and what becomes of the events.                               *)

\* Popping finished futures leaves the jobs and the pending ones in step.
LEMMA PopKeepsJobs ==
    ASSUME TypeOK, Jobs, NEW D \in SUBSET Finished, HandleResults(D),
           UNCHANGED <<job, outcome>>, main' # "down", position <= position',
           position \in Int, position' \in Int
    PROVE  Jobs'
<1>1. InFlight' = InFlight
  BY DEF InFlight
<1>2. InFlight \subseteq pending'
  BY DEF Jobs, HandleResults, Finished, InFlight
<1> QED
  BY <1>1, <1>2 DEF Jobs, HandleResults, TypeOK, Offsets

\* A worker's step keeps the jobs in step with pending, and publishes what it
\* reports as passed.
LEMMA WorkerKeepsJobInv ==
    ASSUME TypeOK, JobInv, NEW w \in Offsets, Worker(w)
    PROVE  JobInv'
<1>1. /\ \E s \in JobStates \ {"none"} : job' = [job EXCEPT ![w] = s]
      /\ job[w] \notin {"none", "done"}
      /\ UNCHANGED <<topic, position, committed, main, pending, attempts,
                     killed, unclean>>
  BY WorkerType DEF env, consumer, history
<1>2. w \in InFlight /\ w \in pending /\ main # "down"
  BY <1>1 DEF InFlight, JobInv, Jobs
<1>3. /\ \A o \in Offsets : o # w => job'[o] = job[o]
      /\ job'[w] \in JobStates \ {"none"}
  BY <1>1 DEF TypeOK
<1>4. /\ \A o \in Offsets : o # w => outcome'[o] = outcome[o]
      /\ job'[w] = "done" => outcome'[w] \in Results
      /\ job'[w] # "done" => outcome'[w] = outcome[w]
      /\ job'[w] = "delivered" \/ outcome'[w] = "pass" => w \in published'
      /\ published \subseteq published'
  <2> USE DEF JobStep, Finish, TypeOK, JobInv, Sent, Results
  <2>1. CASE StartJob(w)
    BY <2>1 DEF StartJob
  <2>2. CASE Diagnose(w)
    <3>1. CASE \E r \in {"quarantine", "error"} :
                 Finish(w, "diagnosing", r) /\ UNCHANGED published
      BY <3>1
    <3>2. CASE JobStep(w, "diagnosing", "sending")
               /\ UNCHANGED <<outcome, published>>
      BY <3>2
    <3> QED
      BY <2>2, <3>1, <3>2 DEF Diagnose
  <2>3. CASE Deliver(w)
    BY <2>3 DEF Deliver
  <2>4. CASE Acknowledge(w)
    BY <2>4 DEF Acknowledge
  <2>5. CASE ProduceRaises(w)
    BY <2>5 DEF ProduceRaises
  <2>6. CASE Flush(w)
    BY <2>6 DEF Flush
  <2> QED
    BY <2>1, <2>2, <2>3, <2>4, <2>5, <2>6 DEF Worker
<1>5. InFlight' \subseteq InFlight
  BY <1>1, <1>2, <1>3 DEF InFlight
<1>6. Jobs'
  BY <1>1, <1>2, <1>3, <1>4, <1>5 DEF JobInv, Jobs
<1>7. Covered'
  <2> SUFFICES ASSUME NEW o \in Offsets, o < position', topic'[o] \in Submitted
               PROVE  outcome'[o] # "none" \/ o \in InFlight' \/ o \in killed'
    BY DEF Covered
  <2>1. CASE o = w
    BY <1>3, <1>4, <2>1 DEF InFlight, Results
  <2>2. CASE o # w
    <3>1. outcome[o] # "none" \/ o \in InFlight \/ o \in killed
      BY <1>1 DEF JobInv, Covered
    <3> QED
      BY <1>1, <1>3, <1>4, <2>2, <3>1 DEF InFlight
  <2> QED
    BY <2>1, <2>2
<1>8. Retriaged'
  BY <1>1 DEF JobInv, Retriaged, ReadsFrom
<1>9. Sent'
  BY <1>3, <1>4 DEF JobInv, Sent
<1> QED
  BY <1>6, <1>7, <1>8, <1>9 DEF JobInv

\* A poll that returns a record submits it, and only it.
LEMMA PollRecordKeepsJobInv ==
    ASSUME TypeOK, JobInv, NEW w \in Offsets, PollRecord(w)
    PROVE  JobInv'
<1>1. /\ position' = position + 1 /\ w = position /\ position \in Int
      /\ main = "poll" /\ main' = "check"
      /\ pending' = pending \union {w}
      /\ UNCHANGED <<topic, committed, outcome, published, killed, unclean>>
  BY DEF PollRecord, env, TypeOK
<1>2. /\ \A o \in Offsets : o # w => /\ job'[o] = job[o]
                                     /\ attempts'[o] = attempts[o]
      /\ job'[w] = "queued" /\ attempts'[w] = attempts[w] + 1
  BY DEF PollRecord, TypeOK
<1>3. InFlight' = InFlight \union {w}
  BY <1>2 DEF InFlight
<1>4. Jobs'
  <2>1. pending \subseteq Offsets
    BY DEF TypeOK
  <2>2. \A o \in Offsets : job'[o] # "none" => o < position'
    BY <1>1, <1>2 DEF JobInv, Jobs, Offsets
  <2>3. \A o \in pending' : job'[o] # "none"
    BY <1>1, <1>2, <2>1 DEF JobInv, Jobs
  <2> QED
    BY <1>1, <1>2, <1>3, <2>2, <2>3 DEF JobInv, Jobs
<1>5. Covered'
  BY <1>1, <1>3 DEF JobInv, Covered, Offsets
<1>6. Retriaged'
  BY <1>1, <1>2 DEF JobInv, Retriaged, ReadsFrom, Offsets, TypeOK
<1>7. Sent'
  BY <1>1, <1>2 DEF JobInv, Sent
<1> QED
  BY <1>4, <1>5, <1>6, <1>7 DEF JobInv

\* JobInv is inductive, given the types.
LEMMA NextJobInv == TypeOK /\ TypeOK' /\ JobInv /\ [Next]_vars => JobInv'
<1> SUFFICES ASSUME TypeOK, TypeOK', JobInv, [Next]_vars PROVE JobInv'
  OBVIOUS
<1> USE DEF env, consumer, history
<1>0. /\ position \in Int /\ committed \in Int /\ committed <= position
      /\ unclean \in Nat /\ attempts \in [Offsets -> Nat]
      /\ Offsets \subseteq Int
  BY DEF TypeOK, Offsets
<1>1. CASE Append
  BY <1>1 DEF Append, JobInv, Jobs, Covered, Retriaged, ReadsFrom, Sent, InFlight
<1>2. CASE Signal
  BY <1>2 DEF Signal, JobInv, Jobs, Covered, Retriaged, ReadsFrom, Sent, InFlight
<1>3. CASE Kill
  <2>1. InFlight' = {} /\ pending' = {} /\ \A o \in Offsets : job'[o] = "none"
    BY <1>3 DEF Kill, InFlight
  <2>2. Retriaged'
    BY <1>3, <1>0 DEF Kill, JobInv, Retriaged, ReadsFrom
  <2> QED
    BY <1>3, <2>1, <2>2 DEF Kill, JobInv, Jobs, Covered, Sent
<1>4. CASE Restart
  <2>1. InFlight' = {} /\ InFlight = {} /\ \A o \in Offsets : job[o] = "none"
    BY <1>4 DEF Restart, JobInv, Jobs, InFlight
  <2>2. Covered'
    BY <1>4, <1>0, <2>1 DEF Restart, JobInv, Covered
  <2> QED
    BY <1>4, <1>0, <2>1, <2>2
    DEF Restart, JobInv, Jobs, Retriaged, ReadsFrom, Sent
<1>5. CASE AutoCommit
  BY <1>5
  DEF AutoCommit, JobInv, Jobs, Covered, Retriaged, ReadsFrom, Sent, InFlight
<1>6. CASE CheckLoop
  BY <1>6
  DEF CheckLoop, JobInv, Jobs, Covered, Retriaged, ReadsFrom, Sent, InFlight
<1>7. CASE WaitForOne
  <2>1. Jobs'
    BY <1>7, <1>0, PopKeepsJobs DEF WaitForOne, JobInv
  <2> QED
    BY <1>7, <2>1
    DEF WaitForOne, JobInv, Covered, Retriaged, ReadsFrom, Sent, InFlight
<1>8. CASE PollNone
  <2>1. /\ position' \in Int /\ position <= position'
        /\ \A o \in Offsets :
               o < position' /\ topic[o] \in Submitted => o < position
    BY <1>8, <1>0 DEF PollNone, Submitted
  <2>2. Jobs'
    BY <1>8, <1>0, <2>1, PopKeepsJobs DEF PollNone, JobInv
  <2>3. Covered'
    BY <1>8, <2>1 DEF PollNone, JobInv, Covered, InFlight
  <2>4. Retriaged'
    BY <1>8, <1>0, <2>1 DEF PollNone, JobInv, Retriaged, ReadsFrom
  <2> QED
    BY <1>8, <2>2, <2>3, <2>4 DEF PollNone, JobInv, Sent
<1>9. CASE PollRaises
  BY <1>9
  DEF PollRaises, JobInv, Jobs, Covered, Retriaged, ReadsFrom, Sent, InFlight
<1>10. CASE DrainDone
  BY <1>10
  DEF DrainDone, JobInv, Jobs, Covered, Retriaged, ReadsFrom, Sent, InFlight
<1>11. CASE Close
  <2>1. InFlight' = {} /\ InFlight = {} /\ \A o \in Offsets : job'[o] = "none"
    BY <1>11 DEF Close, InFlight
  <2>2. Covered'
    BY <1>11, <2>1 DEF Close, JobInv, Covered
  <2>3. Retriaged'
    BY <1>11, <1>0 DEF Close, JobInv, Retriaged, ReadsFrom
  <2> QED
    BY <1>11, <2>1, <2>2, <2>3 DEF Close, JobInv, Jobs, Sent
<1>12. ASSUME NEW o \in Offsets, PollRecord(o) PROVE JobInv'
  BY <1>12, PollRecordKeepsJobInv
<1>13. ASSUME NEW o \in Offsets, DrainOne(o) PROVE JobInv'
  <2>1. Jobs'
    <3>1. {o} \in SUBSET Finished /\ HandleResults({o})
      BY <1>13 DEF DrainOne
    <3>2. UNCHANGED <<job, outcome>> /\ main' # "down" /\ position' = position
      BY <1>13 DEF DrainOne
    <3> QED
      BY <1>0, <3>1, <3>2, PopKeepsJobs DEF JobInv
  <2> QED
    BY <1>13, <2>1
    DEF DrainOne, JobInv, Covered, Retriaged, ReadsFrom, Sent, InFlight
<1>14. ASSUME NEW o \in Offsets, Worker(o) PROVE JobInv'
  BY <1>14, WorkerKeepsJobInv
<1>15. CASE UNCHANGED vars
  BY <1>15
  DEF vars, JobInv, Jobs, Covered, Retriaged, ReadsFrom, Sent, InFlight
<1> QED
  BY <1>1, <1>2, <1>3, <1>4, <1>5, <1>6, <1>7, <1>8, <1>9, <1>10, <1>11,
     <1>12, <1>13, <1>14, <1>15
  DEF Next, Main

\* The initial state has no job, and nothing is read.
LEMMA InitJobInv == Init => JobInv
BY DEF Init, JobInv, Jobs, Covered, Retriaged, ReadsFrom, Sent, InFlight, Offsets

\* The job invariant holds in every reachable state.
THEOREM JobInvariance == Spec => []JobInv
BY InitJobInv, NextJobInv, TypeCorrect, PTL DEF Spec

\* Only a kill loses an event of a committed offset, and only one in flight.
THEOREM NoOtherLoss == Spec => []LossOnlyByKill
<1>1. TypeOK /\ JobInv => LossOnlyByKill
  BY DEF TypeOK, JobInv, Covered, LossOnlyByKill, Offsets
<1> QED
  BY <1>1, TypeCorrect, JobInvariance, PTL

\* Only an end without a commit has an event triaged again.
THEOREM NoOtherRetriage == Spec => []RetriagedOnlyAfterUncleanEnd
<1>1. JobInv => RetriagedOnlyAfterUncleanEnd
  BY DEF JobInv, Retriaged, RetriagedOnlyAfterUncleanEnd
<1> QED
  BY <1>1, JobInvariance, PTL

-----------------------------------------------------------------------------
(* The counters and the limits.                                            *)

\* Disjoint sets of offsets are counted by the sum of their sizes.
LEMMA CountDisjoint ==
    ASSUME NEW S \in SUBSET Offsets, NEW T \in SUBSET Offsets, S \intersect T = {}
    PROVE  Cardinality(S \union T) = Cardinality(S) + Cardinality(T)
<1>1. /\ IsFiniteSet(S) /\ IsFiniteSet(T)
      /\ Cardinality(S) \in Nat /\ Cardinality(T) \in Nat
  BY OffsetsFinite
<1>2. Cardinality(S \union T)
          = Cardinality(S) + Cardinality(T) - Cardinality(S \intersect T)
  BY <1>1, FS_Union
<1>3. Cardinality(S \intersect T) = 0
  BY FS_EmptySet
<1> QED
  BY <1>1, <1>2, <1>3

\* No set of offsets is smaller than one of its subsets.
LEMMA CountSubset ==
    ASSUME NEW T \in SUBSET Offsets, NEW S \in SUBSET T
    PROVE  Cardinality(S) <= Cardinality(T)
BY OffsetsFinite, FS_Subset

\* Handling the results of D pops D: each counter grows by what it counts.
LEMMA PopKeepsCounters ==
    ASSUME TypeOK, Jobs, CountInv, NEW D \in SUBSET Finished, HandleResults(D),
           UNCHANGED <<job, outcome>>, main # "down"
    PROVE  /\ Counters' /\ Cardinality(pending') <= Cardinality(pending)
           /\ stats'.processed = stats.processed
<1>1. D \in SUBSET Offsets /\ pending \in SUBSET Offsets
  BY DEF Finished, TypeOK
<1>2. pending' = pending \ D
  BY DEF HandleResults
<1>3. \A r \in Results :
          Cardinality(Popped(r)') = Cardinality(Popped(r)) + Count(D, r)
  <2> SUFFICES ASSUME NEW r \in Results
               PROVE  Cardinality(Popped(r)')
                          = Cardinality(Popped(r)) + Count(D, r)
    OBVIOUS
  <2> DEFINE E == { o \in D : outcome[o] = r }
  <2>1. Popped(r)' = Popped(r) \union E
    BY <1>1, <1>2 DEF Popped, Finished
  <2>2. /\ Popped(r) \in SUBSET Offsets /\ E \in SUBSET Offsets
        /\ Popped(r) \intersect E = {}
    BY <1>1 DEF Popped, Finished
  <2> QED
    BY <2>1, <2>2, CountDisjoint DEF Count
<1>4. Known' = Known
  BY DEF Known
<1>5. Cardinality(pending') <= Cardinality(pending)
  BY <1>1, <1>2, CountSubset
<1> QED
  BY <1>1, <1>3, <1>4, <1>5, HandleResultsType
  DEF CountInv, Counters, Results

\* A job that is not done is in no counter but processed.
LEMMA WorkerKeepsCounters ==
    ASSUME TypeOK, JobInv, CountInv, NEW w \in Offsets, Worker(w)
    PROVE  /\ Counters' /\ main # "down"
           /\ UNCHANGED <<main, pending, stats>>
<1>1. /\ \E s \in JobStates \ {"none"} : job' = [job EXCEPT ![w] = s]
      /\ job[w] \notin {"none", "done"}
      /\ UNCHANGED <<main, pending, stats>>
  BY WorkerType
<1>2. w \in pending /\ main # "down"
  BY <1>1 DEF InFlight, JobInv, Jobs
<1>3. \A o \in Offsets \ pending :
          job'[o] = job[o] /\ outcome'[o] = outcome[o]
  <2>1. \A o \in Offsets : o # w => job'[o] = job[o]
    BY <1>1 DEF TypeOK
  <2>2. \A o \in Offsets : o # w => outcome'[o] = outcome[o]
    BY DEF Worker, StartJob, Diagnose, Deliver, Acknowledge, ProduceRaises,
           Flush, JobStep, Finish, TypeOK
  <2> QED
    BY <1>2, <2>1, <2>2
<1>4. \A r \in Results : Popped(r)' = Popped(r)
  BY <1>1, <1>3 DEF Popped
<1>5. Known' = Known
  BY <1>1 DEF Known, TypeOK
<1> QED
  BY <1>1, <1>2, <1>4, <1>5 DEF CountInv, Counters, Results

\* A submitted record is counted, and fits below both limits.
LEMMA PollRecordKeepsCounters ==
    ASSUME TypeOK, JobInv, CountInv, NEW w \in Offsets, PollRecord(w)
    PROVE  Counters' /\ Limits'
<1>1. /\ main = "poll" /\ main' = "check" /\ w = position
      /\ pending' = pending \union {w} /\ outcome' = outcome
      /\ job' = [job EXCEPT ![w] = "queued"]
      /\ stats' = [stats EXCEPT !.processed = @ + 1]
  BY DEF PollRecord
<1>2. job[w] = "none"
  BY <1>1 DEF JobInv, Jobs, TypeOK, Offsets
<1>3. w \notin pending /\ pending \in SUBSET Offsets
  BY <1>2 DEF JobInv, Jobs, TypeOK
<1>4. Known' = Known \union {w} /\ w \notin Known /\ Known \in SUBSET Offsets
  BY <1>1, <1>2 DEF Known, TypeOK
<1>5. /\ Cardinality(Known') = Cardinality(Known) + 1
      /\ Cardinality(pending') = Cardinality(pending) + 1
  BY <1>1, <1>3, <1>4, OffsetsFinite, FS_AddElement
<1>6. \A r \in Results : Popped(r)' = Popped(r)
  BY <1>1, <1>2 DEF Popped, TypeOK
<1>7. /\ stats'.processed = stats.processed + 1
      /\ stats'.produced = stats.produced
      /\ stats'.quarantined = stats.quarantined
      /\ stats'.errors = stats.errors
      /\ stats.processed \in Nat
  BY <1>1 DEF TypeOK
<1>8. Counters'
  BY <1>1, <1>4, <1>5, <1>6, <1>7, OffsetsFinite DEF CountInv, Counters, Results
<1>9. Limits'
  BY <1>1, <1>3, <1>5, <1>7, OffsetsFinite, WorkerAssumption, EventAssumption
  DEF CountInv, Limits
<1> QED
  BY <1>8, <1>9

\* CountInv is inductive, given the types and the job invariant.
LEMMA NextCountInv ==
    TypeOK /\ TypeOK' /\ JobInv /\ JobInv' /\ CountInv /\ [Next]_vars => CountInv'
<1> SUFFICES ASSUME TypeOK, TypeOK', JobInv, JobInv', CountInv, [Next]_vars
             PROVE  CountInv'
  OBVIOUS
<1> USE DEF env, consumer, history
<1>0. /\ Cardinality(pending) \in Nat /\ Cardinality(pending') \in Nat
      /\ Workers * 2 \in Nat /\ MaxEvents \in Nat /\ stats.processed \in Nat
  BY OffsetsFinite, WorkerAssumption, EventAssumption DEF TypeOK
\* What is reported as produced in a state that is up follows from the rest.
<1>a. ASSUME Counters', main' # "down"
      PROVE  stats'.produced <= Cardinality(published')
  <2>1. Popped("pass")' \in SUBSET published' /\ published' \in SUBSET Offsets
    BY DEF Popped, JobInv, Sent, TypeOK
  <2> QED
    BY <1>a, <2>1, CountSubset DEF Counters
<1>b. ASSUME UNCHANGED <<pending, job, stats, outcome, published>>,
             main' # "down", main # "down"
      PROVE  Counters'
  BY <1>b DEF CountInv, Counters, Known, Popped
<1>1. CASE Append
  BY <1>1 DEF Append, CountInv, Counters, Limits, Known, Popped
<1>2. CASE Signal
  BY <1>2 DEF Signal, CountInv, Counters, Limits, Known, Popped
<1>3. CASE Kill
  BY <1>3, <1>0, FS_EmptySet DEF Kill, CountInv, Counters, Limits
<1>4. CASE Restart
  <2>1. stats' = ZeroStats /\ main' = "check" /\ job' = job /\ pending' = pending
    BY <1>4 DEF Restart
  <2>2. pending = {} /\ \A o \in Offsets : job[o] = "none"
    BY <1>4 DEF Restart, JobInv, Jobs
  <2>3. Known' = {} /\ \A r \in Results : Popped(r)' = {}
    BY <2>1, <2>2 DEF Known, Popped
  <2>4. /\ stats'.processed = 0 /\ stats'.produced = 0
        /\ stats'.quarantined = 0 /\ stats'.errors = 0
    BY <2>1 DEF ZeroStats
  <2>5. Counters'
    BY <2>3, <2>4, FS_EmptySet DEF Counters, Results
  <2>6. Limits'
    BY <1>0, <2>1, <2>2, <2>4, FS_EmptySet DEF Limits
  <2> QED
    BY <1>a, <2>1, <2>5, <2>6 DEF CountInv
<1>5. CASE AutoCommit
  BY <1>5 DEF AutoCommit, CountInv, Counters, Limits, Known, Popped
<1>6. CASE CheckLoop
  <2>1. Counters'
    BY <1>6, <1>b DEF CheckLoop
  <2>2. Limits'
    BY <1>6, <1>0 DEF CheckLoop, pool_full, max_reached, CountInv, Limits
  <2> QED
    BY <1>6, <2>1, <2>2 DEF CheckLoop, CountInv
<1>7. CASE WaitForOne
  <2>1. /\ Counters' /\ Cardinality(pending') <= Cardinality(pending)
        /\ stats'.processed = stats.processed
    BY <1>7, PopKeepsCounters DEF WaitForOne, JobInv
  <2> QED
    BY <1>7, <1>0, <1>a, <2>1 DEF WaitForOne, CountInv, Limits
<1>8. CASE PollNone
  <2>1. /\ Counters' /\ Cardinality(pending') <= Cardinality(pending)
        /\ stats'.processed = stats.processed
    BY <1>8, PopKeepsCounters DEF PollNone, JobInv
  <2> QED
    BY <1>8, <1>0, <1>a, <2>1 DEF PollNone, CountInv, Limits
<1>9. CASE PollRaises
  BY <1>9, <1>b DEF PollRaises, CountInv, Limits
<1>10. CASE DrainDone
  BY <1>10, <1>b DEF DrainDone, CountInv, Limits
<1>11. CASE Close
  BY <1>11, <1>0, FS_EmptySet DEF Close, CountInv, Counters, Limits
<1>12. ASSUME NEW o \in Offsets, PollRecord(o) PROVE CountInv'
  BY <1>12, <1>a, PollRecordKeepsCounters DEF PollRecord, CountInv
<1>13. ASSUME NEW o \in Offsets, DrainOne(o) PROVE CountInv'
  <2>1. {o} \in SUBSET Finished /\ HandleResults({o})
    BY <1>13 DEF DrainOne
  <2>2. UNCHANGED <<job, outcome, main>> /\ main = "drain"
    BY <1>13 DEF DrainOne
  <2>3. /\ Counters' /\ Cardinality(pending') <= Cardinality(pending)
        /\ stats'.processed = stats.processed
    BY <2>1, <2>2, PopKeepsCounters DEF JobInv
  <2> QED
    BY <1>0, <1>a, <2>2, <2>3 DEF CountInv, Limits
<1>14. ASSUME NEW o \in Offsets, Worker(o) PROVE CountInv'
  BY <1>14, <1>a, WorkerKeepsCounters DEF CountInv, Limits
<1>15. CASE UNCHANGED vars
  BY <1>15 DEF vars, CountInv, Counters, Limits, Known, Popped
<1> QED
  BY <1>1, <1>2, <1>3, <1>4, <1>5, <1>6, <1>7, <1>8, <1>9, <1>10, <1>11,
     <1>12, <1>13, <1>14, <1>15
  DEF Next, Main

\* All counts are zero in the initial state.
LEMMA InitCountInv == Init => CountInv
<1> SUFFICES ASSUME Init PROVE CountInv
  OBVIOUS
<1>1. pending = {} /\ Known = {} /\ \A r \in Results : Popped(r) = {}
  BY DEF Init, Known, Popped
<1>2. /\ stats.processed = 0 /\ stats.produced = 0
      /\ stats.quarantined = 0 /\ stats.errors = 0
  BY DEF Init, ZeroStats
<1>3. Cardinality(published) = 0
  BY FS_EmptySet DEF Init
<1> QED
  BY <1>1, <1>2, <1>3, FS_EmptySet, WorkerAssumption, EventAssumption
  DEF Init, CountInv, Counters, Limits, Results

\* The counting invariant holds in every reachable state.
THEOREM CountInvariance == Spec => []CountInv
BY InitCountInv, NextCountInv, TypeCorrect, JobInvariance, PTL DEF Spec

\* The counters printed at shutdown add up.
THEOREM CountersAddUp == Spec => []Accounting
<1>1. TypeOK /\ JobInv /\ CountInv => Accounting
  <2> SUFFICES ASSUME TypeOK, JobInv, CountInv, main # "down"
               PROVE  stats.processed = stats.produced + stats.quarantined
                                            + stats.errors + Cardinality(pending)
    BY DEF Accounting
  <2> DEFINE P == Popped("pass")
             Q == Popped("quarantine")
             E == Popped("error")
  <2>1. /\ P \in SUBSET Offsets /\ Q \in SUBSET Offsets /\ E \in SUBSET Offsets
        /\ pending \in SUBSET Offsets
    BY DEF Popped, TypeOK
  <2>2. Known = ((P \union Q) \union E) \union pending
    BY DEF Known, Popped, JobInv, Jobs, InFlight, TypeOK, Results
  <2>3. /\ P \intersect Q = {} /\ (P \union Q) \intersect E = {}
        /\ ((P \union Q) \union E) \intersect pending = {}
    BY DEF Popped
  <2> HIDE DEF P, Q, E
  <2>4. Cardinality(Known) = Cardinality(P) + Cardinality(Q) + Cardinality(E)
                                 + Cardinality(pending)
    <3>1. Cardinality(P \union Q) = Cardinality(P) + Cardinality(Q)
      BY <2>1, <2>3, CountDisjoint
    <3>2. Cardinality((P \union Q) \union E)
              = Cardinality(P \union Q) + Cardinality(E)
      BY <2>1, <2>3, CountDisjoint
    <3>3. Cardinality(((P \union Q) \union E) \union pending)
              = Cardinality((P \union Q) \union E) + Cardinality(pending)
      BY <2>1, <2>3, CountDisjoint
    <3> QED
      BY <2>2, <3>1, <3>2, <3>3
  <2> QED
    BY <2>4 DEF P, Q, E, CountInv, Counters
<1> QED
  BY <1>1, TypeCorrect, JobInvariance, CountInvariance, PTL

\* Backpressure holds for any number of workers.
THEOREM Backpressure == Spec => []BoundedPool
<1>1. JobInv /\ CountInv => BoundedPool
  BY DEF JobInv, Jobs, CountInv, Limits, BoundedPool
<1> QED
  BY <1>1, JobInvariance, CountInvariance, PTL

\* What is reported as produced was published.
THEOREM NoFalseSuccess == Spec => []ProducedIsPublished
<1>1. JobInv /\ CountInv => ProducedIsPublished
  BY DEF JobInv, Sent, CountInv, ProducedIsPublished
<1> QED
  BY <1>1, JobInvariance, CountInvariance, PTL

\* A process takes at most --max-events events.
THEOREM EventsLimited == Spec => []EventLimit
<1>1. CountInv => EventLimit
  BY DEF CountInv, Limits, EventLimit
<1> QED
  BY <1>1, CountInvariance, PTL

-----------------------------------------------------------------------------
(* The daemon implements EventTriage.                                      *)

\* A step of a job that ends it settles its event, a delivery publishes, and
\* the others are not seen.
LEMMA WorkerRefines ==
    ASSUME TypeOK, JobInv, NEW o \in Offsets, Worker(o)
    PROVE  [Triage!Next]_(Triage!vars)
<1> USE DEF Triage!vars
<1>1. /\ job[o] \notin {"none", "done"}
      /\ UNCHANGED <<env, consumer, main, shutdown, pending, stats, history>>
  BY WorkerType
<1>2. /\ UNCHANGED <<Usable(end), Usable(ReadsFrom), killed, unclean>>
      /\ o \in InFlight
  BY <1>1 DEF Usable, ReadsFrom, InFlight, env, consumer, history
<1>3. ASSUME NEW s \in JobStates \ {"none", "done"},
             job' = [job EXCEPT ![o] = s]
      PROVE  InFlight' = InFlight
  BY <1>1, <1>3 DEF InFlight, TypeOK
<1>4. ASSUME NEW f, NEW r \in Results, Finish(o, f, r),
             published' \in {published, published \union {o}},
             r = "pass" => o \in published
      PROVE  Triage!Next
  <2>1. InFlight' = InFlight \ {o}
    BY <1>4 DEF Finish, JobStep, InFlight, TypeOK
  <2>2. outcome' = [outcome EXCEPT ![o] = r]
    BY <1>4 DEF Finish
  <2>3. Triage!Settle(o, r)
    BY <1>2, <1>4, <2>1, <2>2 DEF Triage!Settle
  <2> QED
    BY <2>3 DEF Triage!Next
<1>5. ASSUME NEW s \in JobStates \ {"none", "done"}, NEW f, JobStep(o, f, s),
             UNCHANGED <<outcome, published>>
      PROVE  UNCHANGED Triage!vars
  BY <1>2, <1>3, <1>5 DEF JobStep
<1>6. CASE StartJob(o)
  BY <1>6, <1>5 DEF StartJob, JobStates
<1>7. CASE Diagnose(o)
  <2>1. CASE \E r \in Results \ {"pass"} :
                 Finish(o, "diagnosing", r) /\ UNCHANGED published
    BY <2>1, <1>4
  <2>2. CASE JobStep(o, "diagnosing", "sending") /\ UNCHANGED <<outcome, published>>
    BY <2>2, <1>5 DEF JobStates
  <2> QED
    BY <1>7, <2>1, <2>2 DEF Diagnose, Results
<1>8. CASE Deliver(o)
  <2>1. InFlight' = InFlight
    BY <1>8, <1>3 DEF Deliver, JobStep, JobStates
  <2>2. Triage!Publish(o)
    BY <1>8, <1>2, <2>1 DEF Deliver, Triage!Publish
  <2> QED
    BY <2>2 DEF Triage!Next
<1>9. CASE Acknowledge(o)
  <2>1. o \in published
    BY <1>9 DEF Acknowledge, Finish, JobStep, JobInv, Sent
  <2> QED
    BY <1>9, <1>4, <2>1 DEF Acknowledge, Results
<1>10. CASE ProduceRaises(o)
  <2>1. CASE Finish(o, "delivered", "error") \/ Finish(o, "sending", "error")
    BY <1>10, <1>4, <2>1 DEF ProduceRaises, Results
  <2>2. CASE JobStep(o, "sending", "flushing") /\ UNCHANGED outcome
    BY <1>10, <1>5, <2>2 DEF ProduceRaises, JobStates
  <2> QED
    BY <1>10, <2>1, <2>2 DEF ProduceRaises
<1>11. CASE Flush(o)
  BY <1>11, <1>4 DEF Flush, Results
<1> QED
  BY <1>6, <1>7, <1>8, <1>9, <1>10, <1>11 DEF Worker

\* Every step of the daemon is one of EventTriage, or none.
LEMMA NextRefines == TypeOK /\ JobInv /\ [Next]_vars => [Triage!Next]_(Triage!vars)
<1> SUFFICES ASSUME TypeOK, JobInv, [Next]_vars PROVE [Triage!Next]_(Triage!vars)
  OBVIOUS
<1> USE DEF env, consumer, history, Triage!vars
<1>0. /\ position \in Int /\ committed \in Int /\ committed <= position
      /\ end \in Int /\ position <= end /\ \A o \in Offsets : o \in Int
  BY DEF TypeOK, Offsets, Positions
<1>1. CASE Append
  <2>1. UNCHANGED <<Usable(ReadsFrom), InFlight, outcome, published, killed, unclean>>
    BY <1>1 DEF Append, Usable, ReadsFrom, InFlight
  <2>2. /\ end \in Offsets /\ topic' = topic
        /\ \A o \in Offsets : o < end' <=> o < end \/ o = end
    BY <1>0, <1>1 DEF Append
  <2>3. CASE topic[end] \in Submitted
    <3>1. Usable(end)' = Usable(end) \union {end}
      BY <2>2, <2>3 DEF Usable
    <3>2. Triage!Receive(end)
      BY <2>1, <3>1 DEF Triage!Receive
    <3> QED
      BY <2>2, <3>2 DEF Triage!Next
  <2>4. CASE topic[end] \notin Submitted
    <3>1. Usable(end)' = Usable(end)
      BY <2>2, <2>4 DEF Usable
    <3> QED
      BY <2>1, <3>1
  <2> QED
    BY <2>3, <2>4
<1>2. CASE Signal
  BY <1>2 DEF Signal, Usable, ReadsFrom, InFlight
<1>3. CASE Kill
  <2>1. /\ InFlight' = {} /\ killed' = killed \union InFlight
        /\ unclean' = unclean + 1
        /\ UNCHANGED <<Usable(end), outcome, published>>
    BY <1>3 DEF Kill, InFlight, Usable
  <2>2. Usable(ReadsFrom)' \in SUBSET Usable(ReadsFrom)
    BY <1>3, <1>0 DEF Kill, Usable, ReadsFrom
  <2>3. Triage!Crash
    BY <2>1, <2>2 DEF Triage!Crash
  <2> QED
    BY <2>3 DEF Triage!Next
<1>4. CASE Restart
  BY <1>4 DEF Restart, Usable, ReadsFrom, InFlight
<1>5. CASE AutoCommit
  BY <1>5 DEF AutoCommit, Usable, ReadsFrom, InFlight
<1>6. CASE CheckLoop
  BY <1>6 DEF CheckLoop, Usable, ReadsFrom, InFlight
<1>7. CASE WaitForOne
  BY <1>7 DEF WaitForOne, Usable, ReadsFrom, InFlight
<1>8. CASE PollNone
  <2>1. Usable(ReadsFrom)' = Usable(ReadsFrom)
    BY <1>8, <1>0 DEF PollNone, Usable, ReadsFrom, Submitted
  <2> QED
    BY <1>8, <2>1 DEF PollNone, Usable, InFlight
<1>9. CASE PollRaises
  BY <1>9 DEF PollRaises, Usable, ReadsFrom, InFlight
<1>10. CASE DrainDone
  BY <1>10 DEF DrainDone, Usable, ReadsFrom, InFlight
<1>11. CASE Close
  <2>1. /\ InFlight' = {} /\ InFlight = {}
        /\ UNCHANGED <<Usable(end), outcome, published, killed>>
    BY <1>11 DEF Close, InFlight, Usable
  <2>2. CASE committed' = position /\ UNCHANGED unclean
    BY <1>11, <2>1, <2>2 DEF Close, Usable, ReadsFrom
  <2>3. CASE unclean' = unclean + 1 /\ UNCHANGED committed
    <3>1. Usable(ReadsFrom)' \in SUBSET Usable(ReadsFrom)
      BY <1>11, <1>0, <2>3 DEF Close, Usable, ReadsFrom
    <3>2. Triage!Crash
      BY <2>1, <2>3, <3>1 DEF Triage!Crash
    <3> QED
      BY <3>2 DEF Triage!Next
  <2> QED
    BY <1>11, <2>2, <2>3 DEF Close
<1>12. ASSUME NEW o \in Offsets, PollRecord(o) PROVE [Triage!Next]_(Triage!vars)
  <2>1. /\ position' = position + 1 /\ o = position /\ o < end
        /\ main = "poll" /\ main' = "check" /\ topic[o] \in Submitted
        /\ UNCHANGED <<topic, end, outcome, published, killed, unclean>>
    BY <1>12 DEF PollRecord
  <2>2. /\ Usable(ReadsFrom)' = Usable(ReadsFrom) \union {o}
        /\ Usable(end)' = Usable(end)
        /\ o \in Usable(end) \ Usable(ReadsFrom)
    <3>1. \A p \in Offsets : p < position' <=> p < position \/ p = o
      BY <1>0, <2>1
    <3>2. ReadsFrom = position /\ ReadsFrom' = position'
      BY <2>1 DEF ReadsFrom
    <3>3. ~(o < position)
      BY <1>0, <2>1
    <3> QED
      BY <2>1, <3>1, <3>2, <3>3 DEF Usable
  <2>3. InFlight' = InFlight \union {o}
    BY <1>12 DEF PollRecord, InFlight, TypeOK
  <2>4. Triage!Take(o)
    BY <2>1, <2>2, <2>3 DEF Triage!Take
  <2> QED
    BY <2>4 DEF Triage!Next
<1>13. ASSUME NEW o \in Offsets, DrainOne(o) PROVE [Triage!Next]_(Triage!vars)
  BY <1>13 DEF DrainOne, Usable, ReadsFrom, InFlight
<1>14. ASSUME NEW o \in Offsets, Worker(o) PROVE [Triage!Next]_(Triage!vars)
  BY <1>14, WorkerRefines
<1>15. CASE UNCHANGED vars
  BY <1>15 DEF vars, Usable, ReadsFrom, InFlight
<1> QED
  BY <1>1, <1>2, <1>3, <1>4, <1>5, <1>6, <1>7, <1>8, <1>9, <1>10, <1>11,
     <1>12, <1>13, <1>14, <1>15
  DEF Next, Main

\* The daemon starts as EventTriage does.
LEMMA InitRefines == Init => Triage!Init
BY DEF Init, Triage!Init, Usable, ReadsFrom, InFlight, Offsets

\* The daemon, with its threads, offsets, futures, signals and restarts,
\* implements EventTriage.
THEOREM Refinement == Spec => RefinesEventTriage
BY InitRefines, NextRefines, TypeCorrect, JobInvariance, PTL
DEF Spec, RefinesEventTriage, Triage!Spec

=============================================================================
