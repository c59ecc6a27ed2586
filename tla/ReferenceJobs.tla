---------------------------- MODULE ReferenceJobs ----------------------------
(***************************************************************************)
(* src/flink_jobs: the Python reference of what the Flink jobs compute.    *)
(* Metadata of a reading, lateness behind a watermark, and the five        *)
(* anomaly rules, each in the form that takes a list of readings and in    *)
(* the form that takes a window the SQL job has aggregated.                *)
(*                                                                         *)
(* Times are minutes, and whether the text of the time has a fraction of a *)
(* second (any, taken to be one); values are hundredths of a unit; an event*)
(* id is its rank among the ids.  A mean or a deviation is compared by its *)
(* exact sums, as Python's statistics module computes them.                *)
(***************************************************************************)
EXTENDS Integers, SequencesExt

CONSTANTS
    WatermarkDelay,   \* flink.watermark_delay_minutes of streaming.yml
    AllowedLateness,  \* flink.allowed_lateness_minutes of streaming.yml
    None,             \* Python's None
    Arrivals,         \* [after, fraction, value]: minutes since the reading before (bound)
    MaxReadings       \* readings in a list (bound)

ASSUME LatenessAssumption == WatermarkDelay \in Nat /\ AllowedLateness \in Nat
ASSUME ArrivalsAssumption ==
    /\ MaxReadings \in Nat
    /\ \A a \in Arrivals : a.after \in Nat /\ a.fraction \in BOOLEAN /\ a.value \in Int
\* None is no number, and no mean of numbers.
ASSUME NoneAssumption == None \notin Int /\ None \notin [ n: Int, sum: Int, squares: Int ]

VARIABLE readings     \* the readings of a tag so far, the list the rules are applied to

-----------------------------------------------------------------------------
(* Metadata and lateness.                                                  *)

\* mappings: tag -> [tenant, unit].
enrich_raw_event(raw, mappings) ==
    IF raw.tag \notin DOMAIN mappings                      THEN "missing_tag_metadata"
    ELSE IF mappings[raw.tag].tenant # raw.tenant          THEN "invalid_asset_tag_mapping"
    ELSE IF mappings[raw.tag].unit # raw.unit              THEN "invalid_tag_mapping"
    ELSE "enriched"

watermark_for(max_event_time) == max_event_time - WatermarkDelay

is_beyond_allowed_lateness(event_time, watermark_time) ==
    event_time < watermark_time - AllowedLateness

\* The events of a stream, of whole seconds, that are late behind those before.
LateEvents(stream) ==
    { i \in 2 .. Len(stream) :
        \E j \in 1 .. i - 1 :
            is_beyond_allowed_lateness(stream[i].event_time,
                                       watermark_for(stream[j].event_time)) }

-----------------------------------------------------------------------------
(* The parts the rules share.                                              *)

\* sorted() with a key: an event comes after those of a smaller key, and after
\* those of its own key that were before it.
sorted(events, before(_, _)) ==
    LET place == [ i \in DOMAIN events |->
                     1 + Cardinality({ j \in DOMAIN events :
                           \/ before(events[j], events[i])
                           \/ j < i /\ ~before(events[i], events[j]) }) ]
    IN  [ n \in DOMAIN events |->
            events[CHOOSE i \in DOMAIN events : place[i] = n] ]

\* Twice the minutes, and one for the fraction.
exact_time(e) == 2 * e.event_time + (IF e.fraction THEN 1 ELSE 0)

\* The rank of the text: of two texts of a second the one with a fraction is
\* the smaller, "." being before "Z".
time_text(e) == 2 * e.event_time + (IF e.fraction THEN 0 ELSE 1)

sorted_events_by_time(events) ==
    sorted(events, LAMBDA a, b : time_text(a) < time_text(b))

sorted_events(events) ==
    sorted(events, LAMBDA a, b : \/ time_text(a) < time_text(b)
                                 \/ time_text(a) = time_text(b) /\ a.id < b.id)

sensor_flags == {"calibration_drift", "sensor_stuck", "dead_sensor",
                 "noise_spike", "communication_loss"}

resolve_fault_type(quality_flags) ==
    IF sensor_flags \intersect quality_flags # {} THEN "sensor_fault"
                                                  ELSE "asset_fault"

\* The anomaly id hashes rule, tag, window_start and window_end.
base_anomaly(rule, ordered, severity) ==
    [ rule |-> rule, tag |-> ordered[1].tag,
      window_start |-> time_text(ordered[1]),
      window_end |-> time_text(ordered[Len(ordered)]),
      severity |-> severity,
      fault_type |-> resolve_fault_type(UNION { e.quality_flags : e \in Range(ordered) }) ]

\* quality_flags: the lists of a list of lists, of which the first is used, or
\* the one list there is.
base_window_anomaly(rule, window, severity) ==
    [ rule |-> rule, tag |-> window.tag,
      window_start |-> window.window_start, window_end |-> window.window_end,
      severity |-> severity,
      fault_type |-> resolve_fault_type(IF window.quality_flags = <<>> THEN {}
                                        ELSE Head(window.quality_flags)) ]

Magnitude(n) == IF n < 0 THEN -n ELSE n
Total(values) == FoldSeq(LAMBDA v, s : v + s, 0, values)
Squares(values) == FoldSeq(LAMBDA v, s : v * v + s, 0, values)
Values(events) == [ i \in DOMAIN events |-> events[i].value ]

\* Mean and deviation of readings: sums over their number.
Moments(values) == [ n |-> Len(values), sum |-> Total(values),
                     squares |-> Squares(values) ]

\* The squared deviation, times the square of the number of readings.
Spread(m) == m.n * m.squares - m.sum * m.sum

\* At a limit of the profile, or at two and a half times the baseline.
Spikes(observed, m, upper, lower) ==
    \/ upper # None /\ observed >= upper
    \/ lower # None /\ observed <= lower
    \/ 2 * m.n * observed >= 5 * m.sum

\* |observed - mean| >= 3 deviations, when there is a deviation.
Outlies_constant_baseline(observed, m) ==
    (m.n * observed - m.sum) * (m.n * observed - m.sum) >= 9 * Spread(m)

Outlies(observed, m) ==
    /\ Spread(m) # 0
    /\ (m.n * observed - m.sum) * (m.n * observed - m.sum) >= 9 * Spread(m)

-----------------------------------------------------------------------------
(* The rules on a list of readings: no anomaly, or one.                    *)

detect_threshold_spike(events, upper, lower) ==
    LET ordered == sorted_events(events)
        values == Values(ordered)
    IN  IF Len(ordered) >= 2 /\ Spikes(Last(values), Moments(Front(values)), upper, lower)
        THEN << base_anomaly("threshold_spike", ordered, "critical") >> ELSE <<>>

detect_rolling_zscore(events) ==
    LET ordered == sorted_events(events)
        values == Values(ordered)
    IN  IF Len(ordered) >= 4 /\ Outlies(Last(values), Moments(Front(values)))
        THEN << base_anomaly("rolling_zscore", ordered, "warning") >> ELSE <<>>

\* 0.8 for each reading after the first.
detect_drift_rate_of_change(events) ==
    LET ordered == sorted_events(events)
        values == Values(ordered)
    IN  IF /\ Len(ordered) >= 3
           /\ Magnitude(Last(values) - Head(values)) >= 80 * (Len(values) - 1)
        THEN << base_anomaly("drift_rate_of_change", ordered, "warning") >> ELSE <<>>

max_gap_minutes == 10

\* The first pair of neighbours that are far enough apart.
detect_missing_heartbeat(events) ==
    LET ordered == sorted_events(events)
        gap(i) == exact_time(ordered[i + 1]) - exact_time(ordered[i])
        at == { i \in 1 .. Len(ordered) - 1 : gap(i) >= 2 * max_gap_minutes }
        i == CHOOSE j \in at : \A k \in at : j <= k
    IN  IF at = {} THEN <<>>
        ELSE << base_anomaly("missing_heartbeat", <<ordered[i], ordered[i + 1]>>, "critical") >>

min_repeated_points == 6

detect_flatline(events) ==
    LET ordered == sorted_events(events)
        tail == SubSeq(ordered, Len(ordered) - min_repeated_points + 1, Len(ordered))
    IN  IF /\ Len(ordered) >= min_repeated_points
           /\ \A e \in Range(tail) : e.value = tail[1].value
        THEN << [ base_anomaly("flatline", tail, "warning")
                    EXCEPT !.fault_type = "sensor_fault" ] >>
        ELSE <<>>

detect_all(events) ==
    detect_missing_heartbeat(events) \o detect_flatline(events)
      \o detect_threshold_spike(events, None, None)
      \o detect_rolling_zscore(events) \o detect_drift_rate_of_change(events)

-----------------------------------------------------------------------------
(* The rules on a window.  rolling_baseline, baseline_value,               *)
(* prev_window_value and gap_minutes are None where there is no value; the *)
(* gap is twice its minutes.                                               *)

No_baseline == [ n |-> 1, sum |-> 0, squares |-> 0 ]

spike_baseline_rolling_only(w) ==
    IF w.rolling_baseline # None THEN w.rolling_baseline ELSE No_baseline

\* "or": a rolling mean of 0.0 gives way to baseline_value like one there is not.
spike_baseline(w) ==
    IF w.rolling_baseline # None /\ w.rolling_baseline.sum # 0 THEN w.rolling_baseline
    ELSE IF w.baseline_value # None THEN w.baseline_value
    ELSE No_baseline

detect_threshold_spike_from_window(w) ==
    IF Spikes(w.observed_value, spike_baseline(w),
              w.profile_critical_max, w.profile_critical_min)
    THEN << base_window_anomaly("threshold_spike", w, "critical") >> ELSE <<>>

detect_rolling_zscore_from_window(w) ==
    IF w.rolling_baseline # None /\ Outlies(w.observed_value, w.rolling_baseline)
    THEN << base_window_anomaly("rolling_zscore", w, "warning") >> ELSE <<>>

\* 0.8 for each of the five minutes between two windows.
detect_drift_rate_of_change_from_window(w) ==
    IF /\ w.prev_window_value # None
       /\ Magnitude(w.observed_value - w.prev_window_value) >= 5 * 80
    THEN << base_window_anomaly("drift_rate_of_change", w, "warning") >> ELSE <<>>

detect_missing_heartbeat_from_window(w) ==
    IF w.gap_minutes # None /\ w.gap_minutes >= 2 * max_gap_minutes
    THEN << base_window_anomaly("missing_heartbeat", w, "critical") >> ELSE <<>>

\* An unknown deviation counts as 1.
detect_flatline_from_window(w) ==
    IF w.window_moments # None /\ Spread(w.window_moments) = 0 /\ w.event_count >= 3
    THEN << [ base_window_anomaly("flatline", w, "warning")
                EXCEPT !.fault_type = "sensor_fault" ] >>
    ELSE <<>>

detect_all_from_window(w) ==
    CASE w.method = "static_threshold"        -> detect_threshold_spike_from_window(w)
      [] w.method = "rolling_baseline_zscore" -> detect_rolling_zscore_from_window(w)
      [] w.method = "slope_over_window"       -> detect_drift_rate_of_change_from_window(w)
      [] w.method = "repeated_value_window"   -> detect_flatline_from_window(w)
      [] w.method = "heartbeat_gap"           -> detect_missing_heartbeat_from_window(w)
      [] OTHER                                -> <<>>

-----------------------------------------------------------------------------
(* Readings of one tag.                                                    *)

ReadingsInit == readings = <<>>

\* quality_flags are the producer's; the ids fall, so that two readings of a
\* minute arrive against the order of their ids.
Arrive(a) ==
    /\ Len(readings) < MaxReadings
    /\ readings' = Append(readings,
         [ id |-> MaxReadings - Len(readings), tag |-> "tag", value |-> a.value,
           event_time |-> a.after + (IF readings = <<>> THEN 0
                                     ELSE Last(readings).event_time),
           fraction |-> a.fraction,
           quality_flags |-> IF a.value = 0 THEN {"dead_sensor"} ELSE {} ])

-----------------------------------------------------------------------------
(* Correctness of the rules.                                               *)

\* The ways a window can hold what a list of readings holds: its flags as one
\* list or as one for each reading, the mean of the readings before the last as
\* the rolling baseline or as baseline_value.
Forms == [ nested: BOOLEAN, rolling: BOOLEAN ]

\* The window a list of readings in time order amounts to, when the window
\* before it ended with the first of them.
WindowOf(events, method, form) ==
    LET values == Values(events)
        n == Len(events)
        before == IF n = 1 THEN None ELSE Moments(Front(values))
    IN  [ method |-> method, tag |-> events[1].tag,
          window_start |-> time_text(events[1]), window_end |-> time_text(events[n]),
          quality_flags |-> IF form.nested
                            THEN [ i \in DOMAIN events |-> events[i].quality_flags ]
                            ELSE << UNION { e.quality_flags : e \in Range(events) } >>,
          observed_value |-> values[n], event_count |-> n,
          rolling_baseline |-> IF form.rolling THEN before ELSE None,
          baseline_value |-> IF form.rolling THEN None ELSE before,
          window_moments |-> Moments(values),
          prev_window_value |-> values[1],
          gap_minutes |-> IF n = 1 THEN None
                          ELSE exact_time(events[n]) - exact_time(events[n - 1]),
          profile_critical_max |-> None, profile_critical_min |-> None ]

\* What a window tells of an anomaly found in a list: of flags that are a list
\* for each reading the first reading's only.
AsTold(anomalies, ordered, form) ==
    IF form.nested
    THEN [ k \in DOMAIN anomalies |->
             [ anomalies[k] EXCEPT !.fault_type =
                 resolve_fault_type(ordered[1].quality_flags) ] ]
    ELSE anomalies

\* The two forms of each rule (anomaly_rules.py:175 and :211, :249 and :272,
\* :303 and :321, :349 and :372, :395 and :413) find the same, up to the number
\* of readings the list form asks for and to the fault type of nested flags.
\* Drift is measured by readings in one and by five minutes in the other, which
\* is the same for six readings.  With no baseline the window form calls a
\* reading of zero or more a spike, where the list form calls none; with a
\* baseline that is not a rolling one it finds no outlier.
WindowAgreesWithList ==
    LET s == sorted_events(readings)
        n == Len(s)
        tail == SubSeq(s, n - min_repeated_points + 1, n)
    IN  \A form \in Forms :
        LET window(method) == detect_all_from_window(WindowOf(s, method, form))
            told(anomalies) == AsTold(anomalies, s, form)
        IN  /\ n >= 2 => window("static_threshold") = told(detect_threshold_spike(s, None, None))
            /\ n = 1 => (window("static_threshold") # <<>>) = (s[1].value >= 0)
            /\ n >= 1 /\ form.rolling =>
                 told(detect_rolling_zscore(s)) =
                     IF n >= 4 THEN window("rolling_baseline_zscore") ELSE <<>>
            /\ n >= 1 /\ ~form.rolling => window("rolling_baseline_zscore") = <<>>
            /\ n \in 3 .. 6 /\ window("slope_over_window") # <<>> =>
                 told(detect_drift_rate_of_change(s)) = window("slope_over_window")
            /\ n >= 6 /\ detect_drift_rate_of_change(s) # <<>> =>
                 told(detect_drift_rate_of_change(s)) = window("slope_over_window")
            /\ (detect_missing_heartbeat(s) # <<>>) =
                 \E i \in 2 .. n : detect_all_from_window(
                        WindowOf(SubSeq(s, 1, i), "heartbeat_gap", form)) # <<>>
            /\ n >= min_repeated_points =>
                 detect_flatline(s)
                   = detect_all_from_window(WindowOf(tail, "repeated_value_window", form))
            /\ n \in {1, 2} => window("repeated_value_window") = <<>>

\* What is detected does not depend on the order of arrival, readings of the
\* same minute included (_sorted_events, anomaly_rules.py:66).
DetectionIgnoresOrder ==
    LET n == Len(readings)
        rotated(k) == SubSeq(readings, k + 1, n) \o SubSeq(readings, 1, k)
    IN  \A k \in 0 .. n - 1 :
            /\ detect_all(rotated(k)) = detect_all(readings)
            /\ detect_all(Reverse(rotated(k))) = detect_all(readings)

\* Readings that never change and come in time are a flatline when there are
\* six, and nothing before; at zero or below each is also a spike, being at
\* least 2.5 times its baseline (anomaly_rules.py:198).
SteadySeriesOnlyFlatlines ==
    LET n == Len(readings)
        rules == { a.rule : a \in Range(detect_all(readings)) }
    IN  n >= 2 /\ (\A e \in Range(readings) : e.value = readings[1].value) =>
            rules \ {"missing_heartbeat"} =
                (IF n >= min_repeated_points THEN {"flatline"} ELSE {})
                  \union (IF readings[1].value <= 0 THEN {"threshold_spike"} ELSE {})

=============================================================================
