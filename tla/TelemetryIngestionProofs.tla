----------------------- MODULE TelemetryIngestionProofs -----------------------
(***************************************************************************)
(* Proofs about the commands of TelemetryIngestion: where the publisher's  *)
(* records end up, and that the validator agrees; and about the rules of   *)
(* ReferenceJobs, for every list of readings.                              *)
(***************************************************************************)
EXTENDS TelemetryIngestion, SequenceFacts

Inputs == { published[k].input : k \in DOMAIN published }

\* A stored record is what a record of some run was routed as.
Routed(place, s) ==
    \E input \in Inputs : \E r \in Range(input) : route(r) = [ to |-> place, record |-> s ]

Ids(stored) == [ i \in DOMAIN stored |-> IdOf(stored[i]) ]

\* What a record keeps when it is stamped.
KeptFields == RecordFields \ {"event_time", "fraction", "ingest_time", "metadata_is_object"}

\* A record of the publisher is one of a file, stamped.
StampOf(g, r, mode) ==
    /\ DOMAIN r = RecordFields
    /\ \A f \in KeptFields : r[f] = g[f]
    /\ r.ingest_time \in Int /\ r.ingest_time >= Now
    /\ r.metadata_is_object = TRUE
    /\ IF mode = "backfill_replay"
       THEN r.event_time = g.event_time /\ r.fraction = g.fraction
       ELSE r.event_time = r.ingest_time /\ r.fraction = TRUE

Stamped(r, mode) == \E g \in GivenRecords : StampOf(g, r, mode)

\* What each file may hold.
FileLine(f, r) ==
    /\ f \in {"valid", "invalid", "handmade"} => r \in GivenRecords
    /\ f = "accepted" => r \in GivenRecords /\ schema_errors(r) = {}
    /\ f = "rejected" => \/ r.original_record = None
                         \/ /\ r.original_record \in GivenRecords
                            /\ r.all_errors = schema_errors(r.original_record)

FileContents(f, records) ==
    /\ Listed(records)
    /\ \A r \in Range(records) : FileLine(f, r)
    /\ f \in {"valid", "invalid", "handmade"} => DistinctIds(records)

FilesInv ==
    /\ DOMAIN files = FileNames
    /\ \A f \in FileNames : FileContents(f, files[f].records)
    /\ \A s \in Range(files[Fallback].records) : Routed(<<Fallback>>, s)

TopicsInv ==
    \A t \in DOMAIN topics :
        Listed(topics[t]) /\ \A s \in Range(topics[t]) : Routed(t, s)

PublishedInv ==
    /\ Listed(published)
    /\ \A k \in DOMAIN published :
           /\ published[k] = [ input |-> published[k].input, mode |-> published[k].mode,
                               done |-> published[k].done ]
           /\ published[k].mode \in Modes
           /\ Listed(published[k].input) /\ DistinctIds(published[k].input)
           /\ \A r \in Range(published[k].input) : Stamped(r, published[k].mode)

PublisherWrite(w) ==
    /\ w.op \in {"append", "produce"}
    /\ w.op = "append" <=> w.to = <<Fallback>>

OtherWrite(w) ==
    /\ w.op \in {"create", "write"}
    /\ w.op = "write" => /\ w.to \in FileNames \ {Fallback}
                         /\ FileContents(w.to, w.records)

\* The publisher's writes hold each record of its input at most once.
Current == published[Len(published)]

PublisherWork ==
    /\ published # <<>> /\ ~Current.done
    /\ \A m \in DOMAIN work :
           /\ PublisherWrite(work[m])
           /\ \A s \in Range(work[m].records) :
                  \E r \in Range(Current.input) :
                      route(r) = [ to |-> work[m].to, record |-> s ]
    /\ \A m, n \in DOMAIN work :
           \A i \in DOMAIN work[m].records, j \in DOMAIN work[n].records :
               IdOf(work[m].records[i]) = IdOf(work[n].records[j]) => m = n /\ i = j

WorkInv ==
    /\ Listed(work) /\ jobs \in Nat
    /\ \A m \in DOMAIN work : Listed(work[m].records)
    /\ job = "idle" => work = <<>>
    /\ job = "publish" => PublisherWork
    /\ job # "publish" => \A m \in DOMAIN work : OtherWrite(work[m])

\* How often a record is in a place where runs have put it.
EndedOf(id, place) == { k \in RunsOf(id, place) : published[k].done }
Stays(id, place)   == job = "publish" /\ Len(published) \in RunsOf(id, place)
Waits(id, place)   == \E m \in DOMAIN work :
                          /\ work[m].to = place
                          /\ \E s \in Range(work[m].records) : IdOf(s) = id
Number(id, place)  == Count(Ids(Stored(place)), id)

NumberInv(id, place) ==
    LET runs == Cardinality(RunsOf(id, place))
        ended == Cardinality(EndedOf(id, place))
    IN  /\ Number(id, place) \in ended .. runs
        /\ Stays(id, place) => IF Waits(id, place) THEN Number(id, place) < runs
                                                   ELSE Number(id, place) > ended

IngestionInv ==
    /\ FilesInv
    /\ TopicsInv
    /\ PublishedInv
    /\ WorkInv
    /\ \A id, place : NumberInv(id, place)

-----------------------------------------------------------------------------
(* The records of the files.                                               *)

\* What the generator writes has all fields, and those that are stamped as the
\* contract wants them.
WellFormed(r) ==
    /\ DOMAIN r = RecordFields
    /\ r.event_time \in Int /\ r.ingest_time \in Int
    /\ r.fraction = FALSE /\ r.metadata_is_object = TRUE

\* The tags a profile is limited to.
LEMMA AssetTags ==
    Listed(asset_tags) /\ DOMAIN asset_tags = 1 .. Len(asset_tags) /\ Len(asset_tags) \in Nat
<1>1. Listed(Tags)
  BY ListsAssumption DEF Listed
<1>2. Listed(asset_tags)
  BY <1>1, PickedProperties DEF asset_tags
<1>3. asset_tags \in Seq(Range(asset_tags))
  BY <1>2 DEF Listed
<1> QED
  BY <1>2, <1>3

\* An event of the generator has all fields of the contract.
LEMMA ValidEvent ==
    ASSUME NEW i \in Nat, NEW seed, NEW p \in Int
    PROVE  WellFormed(valid_event(i, seed, p))
<1> DEFINE ordinal == (i - 1) * Profile.periods + p
           times == event_times(ordinal, scenario_name(i, seed), p)
           r == valid_event(i, seed, p)
<1>1. ordinal \in Int
  BY ListsAssumption
<1>2. /\ r.event_time = times[1] /\ r.ingest_time = times[2]
      /\ r.fraction = FALSE /\ r.metadata_is_object = TRUE
      /\ DOMAIN r = RecordFields
  BY DEF valid_event, RecordFields
<1> HIDE DEF ordinal, r
<1>3. times[1] \in Int /\ times[2] \in Int
  BY <1>1 DEF event_times
<1> QED
  BY <1>2, <1>3 DEF WellFormed, r

\* The events of a seed, row by row.
EventRows(seed) ==
    [ i \in DOMAIN asset_tags |-> [ p \in 1 .. Profile.periods |-> valid_event(i, seed, p - 1) ] ]

EventsOf(seed) == { valid_event(i, seed, p - 1) : i \in DOMAIN asset_tags,
                                                  p \in 1 .. Profile.periods }

\* A row for each tag, of an event for each period.
LEMMA ValidRows ==
    ASSUME NEW seed
    PROVE  /\ valid_events(seed) = FlattenSeq(EventRows(seed))
           /\ EventRows(seed) \in Seq(Seq(EventsOf(seed)))
           /\ Len(EventRows(seed)) = Len(asset_tags)
           /\ \A i \in DOMAIN asset_tags :
                  /\ Len(EventRows(seed)[i]) = Profile.periods
                  /\ \A p \in 1 .. Profile.periods :
                         EventRows(seed)[i][p] = valid_event(i, seed, p - 1)
<1> DEFINE n == Profile.periods
           V == EventsOf(seed)
           rows == EventRows(seed)
<1>1. ASSUME NEW i \in DOMAIN asset_tags
      PROVE  /\ rows[i] \in Seq(V) /\ Len(rows[i]) = n
             /\ \A p \in 1 .. n : rows[i][p] = valid_event(i, seed, p - 1)
  <2> DEFINE row == rows[i]
  <2>1. row = [ p \in 1 .. n |-> valid_event(i, seed, p - 1) ]
    BY DEF EventRows
  <2>2. n \in Nat /\ row = [ p \in 1 .. n |-> row[p] ]
    BY <2>1, ListsAssumption
  <2>3. \A p \in 1 .. n : row[p] = valid_event(i, seed, p - 1) /\ row[p] \in V
    BY <2>1 DEF EventsOf
  <2> HIDE DEF row, V, n
  <2>4. row \in Seq(V) /\ Len(row) = n
    BY <2>2, <2>3
  <2> QED
    BY <2>3, <2>4 DEF row
<1>2. rows = [ i \in 1 .. Len(asset_tags) |-> rows[i] ]
  BY AssetTags DEF EventRows
<1>3. valid_events(seed) = FlattenSeq(rows)
  BY DEF valid_events, EventRows
<1> HIDE DEF rows, V, n
<1>4. rows \in Seq(Seq(V)) /\ Len(rows) = Len(asset_tags)
  <2> DEFINE T == Seq(V)
  <2>1. \A i \in 1 .. Len(asset_tags) : rows[i] \in T
    BY <1>1, AssetTags
  <2> HIDE DEF T
  <2>2. rows \in Seq(T) /\ Len(rows) = Len(asset_tags)
    BY <1>2, <2>1, AssetTags
  <2> QED
    BY <2>2 DEF T
<1> QED
  BY <1>1, <1>3, <1>4 DEF n, V, rows

\* The file of valid events lists well-formed records.
LEMMA ValidFile ==
    ASSUME NEW seed
    PROVE  Listed(valid_events(seed)) /\ \A r \in Range(valid_events(seed)) : WellFormed(r)
<1>1. ASSUME NEW i \in DOMAIN asset_tags, NEW p \in 1 .. Profile.periods
      PROVE  WellFormed(valid_event(i, seed, p - 1))
  <2>1. i \in Nat /\ p - 1 \in Int
    BY AssetTags, ListsAssumption
  <2> QED
    BY <2>1, ValidEvent
<1> DEFINE V == EventsOf(seed)
<1>2. \A r \in V : WellFormed(r)
  BY <1>1 DEF EventsOf
<1> HIDE DEF V
<1>3. valid_events(seed) \in Seq(V)
  BY ValidRows, FlattenProperties DEF V
<1> QED
  BY <1>2, <1>3, IsListed

\* A field too many is an error.
LEMMA ExtraField ==
    ASSUME NEW r, r.extra = TRUE
    PROVE  schema_errors(r) # {}
<1>1. Failing("/", "unexpected_field") \in schema_errors(r)
  BY DEF schema_errors, Found
<1> QED
  BY <1>1

\* So does the file of invalid ones, which the contract rejects.
LEMMA InvalidFile ==
    ASSUME NEW seed
    PROVE  /\ Listed(invalid_events(seed))
           /\ \A r \in Range(invalid_events(seed)) : WellFormed(r) /\ schema_errors(r) # {}
<1> DEFINE of(k) == LET t == asset_tags[first_assets[k]]
                    IN  invalid_events_of(t.tenant, t.plant, k, seed)
           V == { of(k)[n] : k \in DOMAIN first_assets, n \in 1 .. 3 }
           rows == [ k \in DOMAIN first_assets |-> of(k) ]
<1>1. \A k \in DOMAIN first_assets : of(k) = [ n \in 1 .. 3 |-> of(k)[n] ]
  BY DEF invalid_events_of
<1> DEFINE Fits(r) == WellFormed(r) /\ schema_errors(r) # {}
<1>2. \A k \in DOMAIN first_assets, n \in 1 .. 3 : Fits(of(k)[n])
  <2> SUFFICES ASSUME NEW k \in DOMAIN first_assets, NEW n \in 1 .. 3
               PROVE  Fits(of(k)[n])
    OBVIOUS
  <2>1. n = 1 \/ n = 2 \/ n = 3
    OBVIOUS
  <2>2. Fits(of(k)[1])
    <3>1. WellFormed(of(k)[1]) /\ of(k)[1].extra = TRUE
      BY DEF invalid_events_of, WellFormed, RecordFields
    <3> QED
      BY <3>1, ExtraField
  <2>3. Fits(of(k)[2])
    <3>1. WellFormed(of(k)[2]) /\ of(k)[2].extra = TRUE
      BY DEF invalid_events_of, WellFormed, RecordFields
    <3> QED
      BY <3>1, ExtraField
  <2>4. Fits(of(k)[3])
    <3>1. WellFormed(of(k)[3]) /\ of(k)[3].extra = TRUE
      BY DEF invalid_events_of, WellFormed, RecordFields
    <3> QED
      BY <3>1, ExtraField
  <2> HIDE DEF of, Fits
  <2> QED
    BY <2>1, <2>2, <2>3, <2>4
<1> HIDE DEF of, Fits
<1>3. DOMAIN first_assets = 1 .. Len(first_assets) /\ Len(first_assets) \in Nat
  <2> DEFINE places == [ i \in DOMAIN asset_tags |-> i ]
  <2>1. places \in Seq(Nat)
    BY AssetTags
  <2>2. Listed(places)
    BY <2>1, IsListed
  <2> HIDE DEF places
  <2>3. Listed(first_assets)
    BY <2>2, PickedProperties DEF first_assets, places
  <2>4. first_assets \in Seq(Range(first_assets))
    BY <2>3 DEF Listed
  <2> QED
    BY <2>4
<1>4. \A k \in DOMAIN first_assets : rows[k] \in Seq(V)
  <2> SUFFICES ASSUME NEW k \in DOMAIN first_assets PROVE of(k) \in Seq(V)
    OBVIOUS
  <2>1. \A n \in 1 .. 3 : of(k)[n] \in V
    OBVIOUS
  <2>2. of(k) = [ n \in 1 .. 3 |-> of(k)[n] ]
    BY <1>1
  <2> HIDE DEF V
  <2> QED
    BY <2>1, <2>2
<1>5. \A r \in V : Fits(r)
  BY <1>2
<1> HIDE DEF V
<1>6. rows \in Seq(Seq(V))
  <2>1. rows = [ i \in 1 .. Len(first_assets) |-> rows[i] ]
    BY <1>3
  <2> HIDE DEF rows
  <2> QED
    BY <1>3, <1>4, <2>1
<1>7. invalid_events(seed) = FlattenSeq(rows) \/ invalid_events(seed) = <<>>
  BY DEF invalid_events, of
<1> HIDE DEF rows
<1>8. FlattenSeq(rows) \in Seq(V)
  BY <1>6, FlattenProperties
<1>9. invalid_events(seed) \in Seq(V)
  <2>1. <<>> \in Seq(V)
    OBVIOUS
  <2> QED
    BY <1>7, <1>8, <2>1, Zenon
<1>10. Listed(invalid_events(seed)) /\ \A r \in Range(invalid_events(seed)) : Fits(r)
  BY <1>5, <1>9, IsListed
<1> QED
  BY <1>10 DEF Fits

\* A record of a file has all fields, and what the generator wrote is well formed.
LEMMA GivenRecord ==
    ASSUME NEW g \in GivenRecords
    PROVE  DOMAIN g = RecordFields /\ (g.id \notin HandIds => WellFormed(g))
<1>1. CASE g \in Range(Handmade)
  BY <1>1, ListsAssumption DEF HandIds
<1>2. CASE g \notin Range(Handmade)
  <2>1. WellFormed(g)
    BY <1>2, ValidFile, InvalidFile DEF GivenRecords
  <2> QED
    BY <2>1 DEF WellFormed
<1> QED
  BY <1>1, <1>2

-----------------------------------------------------------------------------
(* Stamping and routing.                                                   *)

\* A record of a file is stamped with the publisher's clock.
LEMMA Stamping ==
    ASSUME NEW g \in GivenRecords, NEW mode \in Modes, NEW now \in Int, now >= Now
    PROVE  /\ Stamped(apply_producer_mode(g, mode, now), mode)
           /\ apply_producer_mode(g, mode, now).id = g.id
<1> DEFINE r == apply_producer_mode(g, mode, now)
<1>1. DOMAIN g = RecordFields
  BY GivenRecord
<1>2. StampOf(g, r, mode)
  <2>1. /\ "event_time" \in RecordFields /\ "ingest_time" \in RecordFields
        /\ "fraction" \in RecordFields /\ "metadata_is_object" \in RecordFields
    BY DEF RecordFields
  <2>2. CASE mode = "backfill_replay"
    <3>1. r = [ g EXCEPT !.ingest_time = now, !.metadata_is_object = TRUE ]
      BY <2>2 DEF apply_producer_mode
    <3> HIDE DEF r
    <3>2. /\ DOMAIN r = RecordFields /\ r.ingest_time = now /\ r.metadata_is_object = TRUE
          /\ \A f \in RecordFields \ {"ingest_time", "metadata_is_object"} : r[f] = g[f]
      BY <1>1, <2>1, <3>1
    <3> QED
      BY <2>1, <2>2, <3>2 DEF StampOf, KeptFields
  <2>3. CASE mode # "backfill_replay"
    <3>1. r = [ g EXCEPT !.event_time = now, !.fraction = TRUE,
                         !.ingest_time = now, !.metadata_is_object = TRUE ]
      BY <2>3 DEF apply_producer_mode
    <3> HIDE DEF r
    <3>2. /\ DOMAIN r = RecordFields /\ r.ingest_time = now /\ r.metadata_is_object = TRUE
          /\ r.event_time = now /\ r.fraction = TRUE
          /\ \A f \in KeptFields : r[f] = g[f]
      BY <1>1, <2>1, <3>1 DEF KeptFields
    <3> QED
      BY <2>3, <3>2 DEF StampOf
  <2> QED
    BY <2>2, <2>3
<1>3. "id" \in KeptFields
  BY DEF KeptFields, RecordFields
<1> HIDE DEF r
<1> QED
  BY <1>2, <1>3 DEF Stamped, StampOf, r

\* When the contract finds nothing wrong.
LEMMA NoErrors ==
    ASSUME NEW r
    PROVE  schema_errors(r) = {} <=>
               /\ r.event_time \in Int /\ r.ingest_time \in Int /\ r.value # None
               /\ Found(r.extra, Failing("/", "unexpected_field")) = {}
               /\ r.schema_version = "v1"
               /\ Found(~r.metadata_is_object, Failing("/synthetic_metadata", "invalid_type")) = {}
               /\ r.unit \in Units
<1>1. missing_fields(r) = {} <=>
          r.event_time # None /\ r.ingest_time # None /\ r.value # None
  BY DEF missing_fields, Found
<1>2. ASSUME NEW time, NEW path
      PROVE  invalid_format(time, path) = {} <=> time = None \/ time \in Int
  BY DEF invalid_format, Found
<1>3. /\ Found(r.schema_version # "v1", Failing("/schema_version", "invalid_value")) = {}
             <=> r.schema_version = "v1"
      /\ Found(r.unit \notin Units, Failing("/unit", "invalid_value")) = {} <=> r.unit \in Units
  BY DEF Found
<1>4. schema_errors(r) = {} <=>
          /\ missing_fields(r) = {}
          /\ invalid_format(r.event_time, "/event_time") = {}
          /\ invalid_format(r.ingest_time, "/ingest_time") = {}
          /\ Found(r.extra, Failing("/", "unexpected_field")) = {}
          /\ Found(r.schema_version # "v1", Failing("/schema_version", "invalid_value")) = {}
          /\ Found(~r.metadata_is_object, Failing("/synthetic_metadata", "invalid_type")) = {}
          /\ Found(r.unit \notin Units, Failing("/unit", "invalid_value")) = {}
  BY DEF schema_errors
<1> QED
  BY <1>1, <1>2, <1>3, <1>4, NoneAssumption

\* Stamping repairs the fields it sets, and nothing else.
LEMMA StampedErrors ==
    ASSUME NEW g, NEW r, NEW mode, StampOf(g, r, mode)
    PROVE  /\ r.id = g.id /\ r.tenant = g.tenant
           /\ schema_errors(g) = {} => schema_errors(r) = {}
           /\ schema_errors(r) = {} =>
                  \A e \in schema_errors(g) : e.field_path \in Overwritten
           /\ WellFormed(g) => schema_errors(r) = schema_errors(g)
<1>1. /\ r.id = g.id /\ r.extra = g.extra /\ r.schema_version = g.schema_version
      /\ r.unit = g.unit /\ r.value = g.value /\ r.tenant = g.tenant
  BY DEF StampOf, KeptFields, RecordFields
<1>2. /\ r.ingest_time \in Int /\ r.metadata_is_object = TRUE
      /\ g.event_time \in Int => r.event_time \in Int
  BY DEF StampOf
<1>3. Found(~r.metadata_is_object, Failing("/synthetic_metadata", "invalid_type")) = {}
  BY <1>2 DEF Found
<1>4. schema_errors(g) = {} => schema_errors(r) = {}
  BY <1>1, <1>2, <1>3, NoErrors
<1>5. ASSUME schema_errors(r) = {}, NEW e \in schema_errors(g)
      PROVE  e.field_path \in Overwritten
  <2>1. /\ g.value # None /\ Found(g.extra, Failing("/", "unexpected_field")) = {}
        /\ g.schema_version = "v1" /\ g.unit \in Units
    BY <1>1, <1>5, NoErrors
  <2>2. missing_fields(g) \subseteq {Failing("/event_time", "missing_required_field"),
                                    Failing("/ingest_time", "missing_required_field")}
    BY <2>1 DEF missing_fields, Found
  <2>3. e \in {Failing("/event_time", "missing_required_field"),
               Failing("/ingest_time", "missing_required_field"),
               Failing("/event_time", "invalid_format"),
               Failing("/ingest_time", "invalid_format"),
               Failing("/synthetic_metadata", "invalid_type")}
    BY <1>5, <2>1, <2>2 DEF schema_errors, invalid_format, Found
  <2> QED
    BY <2>3 DEF Failing, Overwritten
<1>6. ASSUME WellFormed(g) PROVE schema_errors(r) = schema_errors(g)
  <2>1. /\ g.event_time \in Int /\ g.ingest_time \in Int
        /\ g.metadata_is_object = r.metadata_is_object /\ r.event_time \in Int
    BY <1>2, <1>6 DEF WellFormed
  <2>2. missing_fields(r) = missing_fields(g)
    BY <1>1, <1>2, <2>1, NoneAssumption DEF missing_fields
  <2>3. ASSUME NEW time \in Int, NEW path PROVE invalid_format(time, path) = {}
    BY DEF invalid_format, Found
  <2> QED
    BY <1>1, <1>2, <2>1, <2>2, <2>3 DEF schema_errors
<1> QED
  BY <1>1, <1>4, <1>5, <1>6

\* Where a stamped record goes.
LEMMA StampedPlace ==
    ASSUME NEW g, NEW r, NEW mode, StampOf(g, r, mode), WellFormed(g)
    PROVE  RightPlace(r) = RightPlace(g)
BY StampedErrors DEF RightPlace

\* A record is routed to its place, with its id.
LEMMA RouteOf ==
    ASSUME NEW r, DOMAIN r = RecordFields
    PROVE  /\ route(r).to = RightPlace(r)
           /\ IdOf(route(r).record) = r.id
           /\ schema_errors(r) = {} => route(r).record = r
<1>1. CASE schema_errors(r) = {}
  <2>1. "original_record" \notin RecordFields
    BY DEF RecordFields
  <2>2. route(r).to = RightPlace(r) /\ route(r).record = r
    BY <1>1 DEF route, RightPlace, render_topic
  <2> QED
    BY <2>1, <2>2 DEF IdOf
<1>2. CASE schema_errors(r) # {}
  <2>1. route(r).to = RightPlace(r) /\ route(r).record = dlq_record(r)
    BY <1>2 DEF route, RightPlace, render_topic
  <2>2. "original_record" \in DOMAIN dlq_record(r) /\ dlq_record(r).original_record = r
    BY DEF dlq_record, reject_entry
  <2> QED
    BY <1>2, <2>1, <2>2 DEF IdOf
<1> QED
  BY <1>1, <1>2

\* The raw topics are those of the records the contract accepts.
LEMMA RawPlace ==
    ASSUME NEW r
    PROVE  RightPlace(r)[1] = "raw_sensor_events" <=> schema_errors(r) = {}
BY DEF RightPlace, Fallback

\* An id stands for one record.
LEMMA OneRecord ==
    ASSUME NEW g \in GivenRecords, NEW h \in GivenRecords, g.id = h.id
    PROVE  g = h
BY IdentityAssumption

-----------------------------------------------------------------------------
(* What is stored is in its place.                                         *)

\* A stored record is one of a run, in the place where that record belongs.
LEMMA StoredRecord ==
    ASSUME PublishedInv, NEW place, NEW s, Routed(place, s)
    PROVE  \E k \in DOMAIN published : \E r \in Range(published[k].input) :
               /\ Stamped(r, published[k].mode)
               /\ IdOf(s) = r.id /\ place = RightPlace(r)
<1>1. PICK k \in DOMAIN published : \E r \in Range(published[k].input) :
                                        route(r) = [ to |-> place, record |-> s ]
  BY DEF Routed, Inputs
<1>2. PICK r \in Range(published[k].input) : route(r) = [ to |-> place, record |-> s ]
  BY <1>1
<1>3. Stamped(r, published[k].mode)
  BY DEF PublishedInv
<1>4. DOMAIN r = RecordFields
  BY <1>3 DEF Stamped, StampOf
<1>5. route(r).to = place /\ route(r).record = s
  BY <1>2
<1> QED
  BY <1>3, <1>4, <1>5, RouteOf

Placed == FilesInv /\ TopicsInv /\ PublishedInv

\* What is stored was routed there.
LEMMA StoredRouted ==
    ASSUME Placed, NEW place, NEW i \in DOMAIN Stored(place)
    PROVE  Routed(place, Stored(place)[i])
<1> DEFINE fallback == <<Fallback>>
<1>1. CASE place = fallback
  <2>1. Stored(place) = files[Fallback].records
    BY <1>1 DEF Stored
  <2>2. Stored(place)[i] \in Range(files[Fallback].records)
    BY <2>1 DEF Range
  <2> QED
    BY <1>1, <2>2 DEF Placed, FilesInv
<1>2. CASE place # fallback /\ place \in DOMAIN topics
  <2>1. Stored(place) = topics[place]
    BY <1>2 DEF Stored
  <2>2. Stored(place)[i] \in Range(topics[place])
    BY <2>1 DEF Range
  <2> QED
    BY <1>2, <2>2 DEF Placed, TopicsInv
<1>3. CASE place # fallback /\ place \notin DOMAIN topics
  BY <1>3 DEF Stored
<1> QED
  BY <1>1, <1>2, <1>3

\* A place where a record is, is one where a run has sent it.
LEMMA WhereStored ==
    ASSUME Placed, NEW g \in GivenRecords, NEW place, Copies(place, g.id) # 0
    PROVE  \E r, mode : StampOf(g, r, mode) /\ place = RightPlace(r)
<1> DEFINE at == { i \in DOMAIN Stored(place) : IdOf(Stored(place)[i]) = g.id }
<1>1. at # {}
  BY FS_EmptySet DEF Copies
<1>2. PICK i \in DOMAIN Stored(place) : IdOf(Stored(place)[i]) = g.id
  BY <1>1
<1>3. Routed(place, Stored(place)[i])
  BY StoredRouted
<1>4. PICK k \in DOMAIN published : \E r \in Range(published[k].input) :
          /\ Stamped(r, published[k].mode)
          /\ IdOf(Stored(place)[i]) = r.id /\ place = RightPlace(r)
  BY <1>3, StoredRecord DEF Placed
<1>5. PICK r \in Range(published[k].input) :
          /\ Stamped(r, published[k].mode)
          /\ IdOf(Stored(place)[i]) = r.id /\ place = RightPlace(r)
  BY <1>4
<1>6. PICK h \in GivenRecords : StampOf(h, r, published[k].mode)
  BY <1>5 DEF Stamped
<1>7. h.id = g.id
  BY <1>2, <1>5, <1>6, StampedErrors
<1>8. h = g
  BY <1>7, OneRecord
<1> QED
  BY <1>5, <1>6, <1>8

\* The publisher is no stricter than the validator, and laxer only about what it
\* sets itself.
LEMMA PlacedAgrees ==
    ASSUME Placed
    PROVE  VerdictsAgree
<1>1. ASSUME NEW place, NEW r \in Range(files["accepted"].records),
             place[1] # "raw_sensor_events"
      PROVE  Copies(place, r.id) = 0
  <2> SUFFICES ASSUME Copies(place, r.id) # 0 PROVE FALSE
    OBVIOUS
  <2>1. r \in GivenRecords /\ schema_errors(r) = {}
    BY DEF Placed, FilesInv, FileContents, FileLine, FileNames
  <2>2. PICK q, mode : StampOf(r, q, mode) /\ place = RightPlace(q)
    BY <2>1, WhereStored
  <2> QED
    BY <1>1, <2>1, <2>2, StampedErrors, RawPlace
<1>2. ASSUME NEW place, NEW e \in Range(files["rejected"].records),
             place[1] = "raw_sensor_events", e.original_record # None,
             Copies(place, e.original_record.id) # 0,
             NEW error \in e.all_errors
      PROVE  error.field_path \in Overwritten
  <2> DEFINE g == e.original_record
  <2>1. g \in GivenRecords /\ e.all_errors = schema_errors(g)
    BY <1>2 DEF Placed, FilesInv, FileContents, FileLine, FileNames
  <2>2. Copies(place, g.id) # 0
    BY <1>2
  <2> HIDE DEF g
  <2>3. PICK q, mode : StampOf(g, q, mode) /\ place = RightPlace(q)
    BY <2>1, <2>2, WhereStored
  <2> QED
    BY <1>2, <2>1, <2>3, StampedErrors, RawPlace
<1> QED
  BY <1>1, <1>2 DEF VerdictsAgree

-----------------------------------------------------------------------------
(* The publisher's writes.                                                 *)

OneRouteEach(routes) ==
    \A i, j \in DOMAIN routes : IdOf(routes[i].record) = IdOf(routes[j].record) => i = j

\* The routes of a topic: all of them, each once.
LEMMA RoutesToTopic ==
    ASSUME NEW routes, Listed(routes), OneRouteEach(routes), NEW topic
    PROVE  LET own == RoutesTo(routes, topic) IN
           /\ Listed(own)
           /\ \A k \in DOMAIN own : \E i \in DOMAIN routes :
                  routes[i] = own[k] /\ routes[i].to = topic
           /\ \A i \in DOMAIN routes : routes[i].to = topic =>
                  \E k \in DOMAIN own : own[k] = routes[i]
           /\ \A k, l \in DOMAIN own : own[k] = own[l] => k = l
<1> DEFINE places == { i \in DOMAIN routes : routes[i].to = topic }
           own == Picked(routes, places)
<1>1. Listed(own)
  BY PickedProperties
<1>2. \A k \in DOMAIN own : \E i \in DOMAIN routes : i \in places /\ routes[i] = own[k]
  <2> HIDE DEF places
  <2> QED
    BY PickedFrom
<1>3. \A i \in DOMAIN routes : i \in places => routes[i] \in Range(own)
  <2> HIDE DEF places
  <2> QED
    BY PickedItems
<1>4. \A i, j \in DOMAIN routes : routes[i] = routes[j] => i = j
  BY DEF OneRouteEach
<1>5. \A k, l \in DOMAIN own : own[k] = own[l] => k = l
  <2> HIDE DEF places
  <2> QED
    BY <1>4, PickedOnce
<1>6. own = RoutesTo(routes, topic)
  BY DEF RoutesTo
<1>7. \A i : i \in places <=> i \in DOMAIN routes /\ routes[i].to = topic
  OBVIOUS
<1> HIDE DEF places, own
<1> QED
  BY <1>1, <1>2, <1>3, <1>5, <1>6, <1>7 DEF Range

\* The routes that open a batch.
Openings(routes, fallback) ==
    Picked(routes, { i \in Firsts(routes) : routes[i].to # fallback })

\* Every topic has one.
LEMMA FirstRoutes ==
    ASSUME NEW routes, Listed(routes), OneRouteEach(routes), NEW fallback
    PROVE  LET first == Openings(routes, fallback) IN
           /\ Listed(first)
           /\ \A k \in DOMAIN first : first[k].to # fallback
           /\ \A i \in DOMAIN routes : routes[i].to # fallback =>
                  \E k \in DOMAIN first : first[k].to = routes[i].to
           /\ \A k, l \in DOMAIN first : first[k].to = first[l].to => k = l
<1> DEFINE places == { i \in Firsts(routes) : routes[i].to # fallback }
           first == Picked(routes, places)
<1>0. DOMAIN routes = 1 .. Len(routes) /\ Len(routes) \in Nat
  <2>1. routes \in Seq(Range(routes))
    BY DEF Listed
  <2> QED
    BY <2>1
<1>1. Listed(first)
  BY PickedProperties
<1>2. \A k \in DOMAIN first : \E i \in DOMAIN routes : i \in places /\ routes[i] = first[k]
  <2> HIDE DEF places
  <2> QED
    BY PickedFrom
<1>3. \A i \in DOMAIN routes : i \in places => routes[i] \in Range(first)
  <2> HIDE DEF places
  <2> QED
    BY PickedItems
<1>4. \A i, j \in DOMAIN routes : routes[i] = routes[j] => i = j
  BY DEF OneRouteEach
<1>5. \A k, l \in DOMAIN first : first[k] = first[l] => k = l
  <2> HIDE DEF places
  <2> QED
    BY <1>4, PickedOnce
<1>6. \A i \in places : /\ i \in DOMAIN routes /\ routes[i].to # fallback
                        /\ \A j \in 1 .. i - 1 : routes[j].to # routes[i].to
  BY DEF Firsts
<1>7. ASSUME NEW i \in DOMAIN routes, routes[i].to # fallback
      PROVE  \E k \in DOMAIN first : first[k].to = routes[i].to
  <2> DEFINE same == { j \in DOMAIN routes : routes[j].to = routes[i].to }
  <2>1. same \in SUBSET Nat /\ same # {}
    BY <1>0
  <2>2. PICK j \in same : \A l \in same : j <= l
    BY <2>1, LeastNatural
  <2>3. j \in places
    <3>1. j \in DOMAIN routes /\ routes[j].to # fallback
      BY <1>7
    <3>2. ASSUME NEW l \in 1 .. j - 1 PROVE routes[l].to # routes[j].to
      <4>1. l \in DOMAIN routes /\ ~(j <= l)
        BY <1>0, <3>1
      <4> QED
        BY <2>2, <4>1
    <3> QED
      BY <3>1, <3>2 DEF Firsts
  <2>4. routes[j] \in Range(first)
    BY <1>3, <2>3
  <2>5. routes[j].to = routes[i].to
    OBVIOUS
  <2> HIDE DEF first, same
  <2> QED
    BY <2>4, <2>5 DEF Range
<1>8. ASSUME NEW k \in DOMAIN first, NEW l \in DOMAIN first, first[k].to = first[l].to
      PROVE  k = l
  <2> HIDE DEF places, first
  <2>1. PICK i \in DOMAIN routes : i \in places /\ routes[i] = first[k]
    BY <1>2
  <2>2. PICK j \in DOMAIN routes : j \in places /\ routes[j] = first[l]
    BY <1>2
  <2>3. routes[i].to = routes[j].to
    BY <1>8, <2>1, <2>2
  <2>4. ~(j < i)
    <3>1. j < i => j \in 1 .. i - 1
      BY <1>0
    <3> QED
      BY <1>6, <2>1, <2>3, <3>1
  <2>5. ~(i < j)
    <3>1. i < j => i \in 1 .. j - 1
      BY <1>0
    <3> QED
      BY <1>6, <2>2, <2>3, <3>1
  <2>6. i = j
    BY <1>0, <2>4, <2>5
  <2> QED
    BY <1>5, <2>1, <2>2, <2>6
<1>9. \A k \in DOMAIN first : first[k].to # fallback
  <2> HIDE DEF places, first
  <2> QED
    BY <1>2, <1>6
<1> QED
  BY <1>1, <1>7, <1>8, <1>9 DEF Openings

\* A write's record is one of the routes to where it goes.
FromRoute(routes, w, s) ==
    \E i \in DOMAIN routes : routes[i].to = w.to /\ routes[i].record = s

\* What the publisher writes: every route, each once.
LEMMA PublishWrites ==
    ASSUME NEW routes, Listed(routes), OneRouteEach(routes)
    PROVE  LET writes == publish_writes(routes) IN
           /\ Listed(writes)
           /\ \A m \in DOMAIN writes :
                  /\ Listed(writes[m].records) /\ PublisherWrite(writes[m])
                  /\ \A k \in DOMAIN writes[m].records :
                         FromRoute(routes, writes[m], writes[m].records[k])
           /\ \A m, n \in DOMAIN writes :
                  \A i \in DOMAIN writes[m].records, j \in DOMAIN writes[n].records :
                      IdOf(writes[m].records[i]) = IdOf(writes[n].records[j])
                          => m = n /\ i = j
           /\ \A i \in DOMAIN routes : \E m \in DOMAIN writes :
                  \E k \in DOMAIN writes[m].records : writes[m].records[k] = routes[i].record
           /\ \A m \in DOMAIN writes : writes[m].op = "produce" =>
                  LET own == RoutesTo(routes, writes[m].to)
                  IN  /\ DOMAIN writes[m].records = DOMAIN own
                      /\ \A k \in DOMAIN own : writes[m].records[k] = own[k].record
<1> DEFINE fallback == <<Fallback>>
           rejected == RoutesTo(routes, fallback)
           first == Openings(routes, fallback)
           own(n) == RoutesTo(routes, first[n].to)
           batch(n) == [ i \in DOMAIN own(n) |-> own(n)[i].record ]
           appends == [ i \in DOMAIN rejected |->
                          Write("append", fallback, <<rejected[i].record>>) ]
           produces == [ n \in DOMAIN first |-> Write("produce", first[n].to, batch(n)) ]
           writes == appends \o produces
<1>1. writes = publish_writes(routes)
  BY DEF publish_writes, Openings
<1>2. /\ Listed(rejected)
      /\ \A k \in DOMAIN rejected : \E i \in DOMAIN routes :
             routes[i] = rejected[k] /\ routes[i].to = fallback
      /\ \A i \in DOMAIN routes : routes[i].to = fallback =>
             \E k \in DOMAIN rejected : rejected[k] = routes[i]
      /\ \A k, l \in DOMAIN rejected : rejected[k] = rejected[l] => k = l
  <2> HIDE DEF fallback
  <2> QED
    BY RoutesToTopic
<1>3. /\ Listed(first)
      /\ \A k \in DOMAIN first : first[k].to # fallback
      /\ \A i \in DOMAIN routes : routes[i].to # fallback =>
             \E k \in DOMAIN first : first[k].to = routes[i].to
      /\ \A k, l \in DOMAIN first : first[k].to = first[l].to => k = l
  <2> HIDE DEF fallback
  <2> QED
    BY FirstRoutes
<1> HIDE DEF rejected, first
<1>4. ASSUME NEW n
      PROVE  /\ Listed(own(n))
             /\ \A k \in DOMAIN own(n) : \E i \in DOMAIN routes :
                    routes[i] = own(n)[k] /\ routes[i].to = first[n].to
             /\ \A i \in DOMAIN routes : routes[i].to = first[n].to =>
                    \E k \in DOMAIN own(n) : own(n)[k] = routes[i]
             /\ \A k, l \in DOMAIN own(n) : own(n)[k] = own(n)[l] => k = l
  BY RoutesToTopic
<1> HIDE DEF own
<1>5. /\ Listed(appends) /\ DOMAIN appends = DOMAIN rejected
      /\ \A m \in DOMAIN appends :
             /\ appends[m].op = "append" /\ appends[m].to = fallback
             /\ appends[m].records = <<rejected[m].record>>
  <2>1. DOMAIN rejected = 1 .. Len(rejected) /\ Len(rejected) \in Nat
    <3>1. rejected \in Seq(Range(rejected))
      BY <1>2 DEF Listed
    <3> QED
      BY <3>1
  <2>2. appends = [ i \in 1 .. Len(rejected) |-> appends[i] ]
    BY <2>1
  <2>3. /\ DOMAIN appends = DOMAIN rejected
        /\ \A m \in DOMAIN appends :
             /\ appends[m].op = "append" /\ appends[m].to = fallback
             /\ appends[m].records = <<rejected[m].record>>
    BY DEF Write
  <2> HIDE DEF appends
  <2>4. Listed(appends)
    BY <2>1, <2>2, FunctionListed
  <2> QED
    BY <2>3, <2>4
<1>6. /\ Listed(produces) /\ DOMAIN produces = DOMAIN first
      /\ \A m \in DOMAIN produces :
             /\ produces[m].op = "produce" /\ produces[m].to = first[m].to
             /\ produces[m].records = batch(m)
  <2>1. DOMAIN first = 1 .. Len(first) /\ Len(first) \in Nat
    <3>1. first \in Seq(Range(first))
      BY <1>3 DEF Listed
    <3> QED
      BY <3>1
  <2>2. produces = [ i \in 1 .. Len(first) |-> produces[i] ]
    BY <2>1
  <2>3. /\ DOMAIN produces = DOMAIN first
        /\ \A m \in DOMAIN produces :
             /\ produces[m].op = "produce" /\ produces[m].to = first[m].to
             /\ produces[m].records = batch(m)
    BY DEF Write
  <2> HIDE DEF produces
  <2>4. Listed(produces)
    BY <2>1, <2>2, FunctionListed
  <2> QED
    BY <2>3, <2>4
<1>7. ASSUME NEW m
      PROVE  Listed(batch(m)) /\ DOMAIN batch(m) = DOMAIN own(m)
             /\ \A k \in DOMAIN batch(m) : batch(m)[k] = own(m)[k].record
  <2>1. DOMAIN own(m) = 1 .. Len(own(m)) /\ Len(own(m)) \in Nat
    <3>1. own(m) \in Seq(Range(own(m)))
      BY <1>4 DEF Listed
    <3> QED
      BY <3>1
  <2> DEFINE b == batch(m)
  <2>2. b = [ i \in 1 .. Len(own(m)) |-> b[i] ]
    BY <2>1
  <2>3. DOMAIN b = DOMAIN own(m) /\ \A k \in DOMAIN b : b[k] = own(m)[k].record
    OBVIOUS
  <2> HIDE DEF b
  <2>4. Listed(b)
    BY <2>1, <2>2, FunctionListed
  <2> QED
    BY <2>3, <2>4 DEF b
<1> HIDE DEF appends, produces, batch
<1>8. /\ Listed(writes)
      /\ \A m \in DOMAIN appends : m \in DOMAIN writes /\ writes[m] = appends[m]
      /\ \A m \in DOMAIN produces : /\ Len(appends) + m \in DOMAIN writes
                                    /\ writes[Len(appends) + m] = produces[m]
      /\ \A m \in DOMAIN writes :
             \/ m \in DOMAIN appends /\ writes[m] = appends[m]
             \/ /\ m - Len(appends) \in DOMAIN produces /\ m \in Int
                /\ writes[m] = produces[m - Len(appends)]
      /\ Len(appends) \in Nat
  <2>1. Listed(appends) /\ Listed(produces)
    BY <1>5, <1>6
  <2>2. writes = appends \o produces
    OBVIOUS
  <2> HIDE DEF writes
  <2>3. /\ Listed(writes) /\ Len(appends) \in Nat
        /\ \A m \in DOMAIN appends : m \in DOMAIN writes /\ writes[m] = appends[m]
        /\ \A m \in DOMAIN produces : /\ Len(appends) + m \in DOMAIN writes
                                      /\ writes[Len(appends) + m] = produces[m]
    BY <2>1, <2>2, ConcatListed
  <2>4. \A m \in DOMAIN writes :
            \/ m \in DOMAIN appends /\ writes[m] = appends[m]
            \/ /\ m - Len(appends) \in DOMAIN produces
               /\ writes[m] = produces[m - Len(appends)] /\ m \in Int
    BY <2>1, <2>2, ConcatListed
  <2> QED
    BY <2>3, <2>4
<1> HIDE DEF writes
<1> DEFINE Appended(m) ==
               /\ m \in DOMAIN rejected
               /\ writes[m].op = "append" /\ writes[m].to = fallback
               /\ writes[m].records = <<rejected[m].record>>
           Produced(m, n) ==
               /\ n \in DOMAIN first /\ m = Len(appends) + n
               /\ writes[m].op = "produce" /\ writes[m].to = first[n].to
               /\ writes[m].records = batch(n)
<1>9. ASSUME NEW m \in DOMAIN writes PROVE Appended(m) \/ \E n : Produced(m, n)
  <2>1. CASE m \in DOMAIN appends /\ writes[m] = appends[m]
    BY <1>5, <2>1
  <2>2. CASE /\ m - Len(appends) \in DOMAIN produces /\ m \in Int
             /\ writes[m] = produces[m - Len(appends)]
    <3>1. m = Len(appends) + (m - Len(appends))
      BY <1>8, <2>2
    <3>2. Produced(m, m - Len(appends))
      BY <1>6, <2>2, <3>1
    <3> HIDE DEF Produced
    <3> QED
      BY <3>2
  <2> QED
    BY <1>8, <2>1, <2>2
\* The route a record was written for.
<1>10. ASSUME NEW m, Appended(m)
       PROVE  /\ Listed(writes[m].records) /\ PublisherWrite(writes[m])
              /\ DOMAIN writes[m].records = {1}
              /\ writes[m].records[1] = rejected[m].record
              /\ FromRoute(routes, writes[m], writes[m].records[1])
  <2> DEFINE x == rejected[m].record
  <2>1. writes[m].records = <<x>>
    BY <1>10
  <2> HIDE DEF x
  <2>2. <<x>> \in Seq({x}) /\ DOMAIN <<x>> = {1} /\ <<x>>[1] = x
    OBVIOUS
  <2>3. Listed(<<x>>)
    BY <2>2, IsListed
  <2>4. PublisherWrite(writes[m])
    BY <1>10 DEF PublisherWrite
  <2>5. PICK i \in DOMAIN routes : routes[i] = rejected[m] /\ routes[i].to = fallback
    BY <1>2, <1>10
  <2>6. FromRoute(routes, writes[m], x)
    BY <1>10, <2>5 DEF FromRoute, x
  <2> QED
    BY <2>1, <2>2, <2>3, <2>4, <2>6 DEF x
<1>11. ASSUME NEW m, NEW n, Produced(m, n)
       PROVE  /\ Listed(writes[m].records) /\ PublisherWrite(writes[m])
              /\ DOMAIN writes[m].records = DOMAIN own(n)
              /\ \A k \in DOMAIN own(n) :
                     /\ writes[m].records[k] = own(n)[k].record
                     /\ FromRoute(routes, writes[m], writes[m].records[k])
  <2>1. /\ Listed(writes[m].records) /\ DOMAIN writes[m].records = DOMAIN own(n)
        /\ \A k \in DOMAIN own(n) : writes[m].records[k] = own(n)[k].record
    BY <1>7, <1>11
  <2>2. PublisherWrite(writes[m])
    BY <1>3, <1>11 DEF PublisherWrite
  <2>3. ASSUME NEW k \in DOMAIN own(n)
        PROVE  FromRoute(routes, writes[m], writes[m].records[k])
    <3>1. PICK i \in DOMAIN routes : routes[i] = own(n)[k] /\ routes[i].to = first[n].to
      BY <1>4
    <3> QED
      BY <1>11, <2>1, <3>1 DEF FromRoute
  <2> QED
    BY <2>1, <2>2, <2>3
<1>12. ASSUME NEW m \in DOMAIN writes
       PROVE  /\ Listed(writes[m].records) /\ PublisherWrite(writes[m])
              /\ \A k \in DOMAIN writes[m].records :
                     FromRoute(routes, writes[m], writes[m].records[k])
  <2> HIDE DEF Appended, Produced
  <2> QED
    BY <1>9, <1>10, <1>11
<1>13. ASSUME NEW m \in DOMAIN writes, NEW n \in DOMAIN writes,
              NEW i \in DOMAIN writes[m].records, NEW j \in DOMAIN writes[n].records,
              IdOf(writes[m].records[i]) = IdOf(writes[n].records[j])
       PROVE  m = n /\ i = j
  <2>1. PICK a \in DOMAIN routes :
            routes[a].to = writes[m].to /\ routes[a].record = writes[m].records[i]
    BY <1>12 DEF FromRoute
  <2>2. PICK b \in DOMAIN routes :
            routes[b].to = writes[n].to /\ routes[b].record = writes[n].records[j]
    BY <1>12 DEF FromRoute
  <2>3. a = b
    BY <1>13, <2>1, <2>2 DEF OneRouteEach
  <2>4. writes[m].to = writes[n].to /\ writes[m].records[i] = writes[n].records[j]
    BY <2>1, <2>2, <2>3
  <2>5. writes[m].op = writes[n].op
    BY <1>12, <2>4 DEF PublisherWrite
  \* Routes with one record are one.
  <2>6. ASSUME NEW x, NEW y,
               \E c \in DOMAIN routes : routes[c] = x,
               \E c \in DOMAIN routes : routes[c] = y, x.record = y.record
        PROVE  x = y
    BY <2>6 DEF OneRouteEach
  <2>7. CASE Appended(m) /\ Appended(n)
    <3>1. i = 1 /\ j = 1 /\ rejected[m].record = rejected[n].record
      BY <1>10, <2>4, <2>7
    <3>2. rejected[m] = rejected[n]
      BY <1>2, <2>6, <2>7, <3>1
    <3> QED
      BY <1>2, <2>7, <3>1, <3>2
  <2>8. ASSUME NEW k, NEW l, Produced(m, k), Produced(n, l)
        PROVE  m = n /\ i = j
    <3>1. k = l
      BY <1>3, <2>4, <2>8
    <3>2. m = n
      BY <2>8, <3>1
    <3>3. i \in DOMAIN own(k) /\ j \in DOMAIN own(k)
      BY <1>11, <2>8, <3>1, <3>2
    <3>4. own(k)[i].record = own(k)[j].record
      BY <1>11, <2>4, <2>8, <3>1, <3>2, <3>3
    <3>5. own(k)[i] = own(k)[j]
      BY <1>4, <2>6, <3>3, <3>4
    <3> QED
      BY <1>4, <3>2, <3>3, <3>5
  <2>9. Appended(m) => \A l : ~Produced(n, l)
    BY <2>5
  <2>10. Appended(n) => \A l : ~Produced(m, l)
    BY <2>5
  <2> HIDE DEF Appended, Produced
  <2> QED
    BY <1>9, <2>7, <2>8, <2>9, <2>10
<1>14. ASSUME NEW i \in DOMAIN routes
       PROVE  \E m \in DOMAIN writes : \E k \in DOMAIN writes[m].records :
                  writes[m].records[k] = routes[i].record
  <2>1. CASE routes[i].to = fallback
    <3>1. PICK m \in DOMAIN rejected : rejected[m] = routes[i]
      BY <1>2, <2>1
    <3>2. m \in DOMAIN writes /\ Appended(m)
      BY <1>5, <1>8, <3>1
    <3> HIDE DEF Appended
    <3> QED
      BY <1>10, <3>1, <3>2
  <2>2. CASE routes[i].to # fallback
    <3>1. PICK n \in DOMAIN first : first[n].to = routes[i].to
      BY <1>3, <2>2
    <3>2. PICK k \in DOMAIN own(n) : own(n)[k] = routes[i]
      BY <1>4, <3>1
    <3>3. Len(appends) + n \in DOMAIN writes /\ Produced(Len(appends) + n, n)
      BY <1>6, <1>8
    <3> HIDE DEF Produced
    <3> QED
      BY <1>11, <3>2, <3>3
  <2> QED
    BY <2>1, <2>2
<1>15. ASSUME NEW m \in DOMAIN writes, writes[m].op = "produce"
       PROVE  /\ DOMAIN writes[m].records = DOMAIN RoutesTo(routes, writes[m].to)
              /\ \A k \in DOMAIN RoutesTo(routes, writes[m].to) :
                     writes[m].records[k] = RoutesTo(routes, writes[m].to)[k].record
  <2>1. ~Appended(m)
    BY <1>15
  <2>2. PICK n : Produced(m, n)
    BY <1>9, <2>1
  <2>3. own(n) = RoutesTo(routes, writes[m].to)
    BY <2>2 DEF own
  <2> HIDE DEF Produced
  <2> QED
    BY <1>11, <2>2, <2>3
<1> QED
  BY <1>1, <1>8, <1>12, <1>13, <1>14, <1>15

-----------------------------------------------------------------------------
(* How often an id is stored.                                              *)

\* The ids of a list.
LEMMA IdsListed ==
    ASSUME NEW s, Listed(s)
    PROVE  /\ Listed(Ids(s)) /\ DOMAIN Ids(s) = DOMAIN s
           /\ Len(Ids(s)) = Len(s)
           /\ \A k \in DOMAIN s : Ids(s)[k] = IdOf(s[k])
<1> DEFINE t == Ids(s)
<1>1. DOMAIN s = 1 .. Len(s) /\ Len(s) \in Nat
  <2>1. s \in Seq(Range(s))
    BY DEF Listed
  <2> QED
    BY <2>1
<1>2. DOMAIN t = DOMAIN s /\ \A k \in DOMAIN s : t[k] = IdOf(s[k])
  BY DEF Ids
<1>3. t = [ k \in 1 .. Len(s) |-> t[k] ]
  BY <1>1 DEF Ids
<1> HIDE DEF t
<1>4. Listed(t) /\ Len(t) = Len(s)
  BY <1>1, <1>3, FunctionListed
<1> QED
  BY <1>2, <1>4 DEF t

\* They add up.
LEMMA CountOfIds ==
    ASSUME NEW s, NEW t, Listed(s), Listed(t), NEW id
    PROVE  /\ Count(Ids(s \o t), id) = Count(Ids(s), id) + Count(Ids(t), id)
           /\ Count(Ids(s), id) \in Nat /\ Count(Ids(t), id) \in Nat
<1> DEFINE S == Range(Ids(s)) \union Range(Ids(t))
           a == Ids(s)
           b == Ids(t)
           c == Ids(s \o t)
<1>1. Listed(s \o t)
  BY ConcatListed
<1>2. /\ Listed(a) /\ Len(a) = Len(s) /\ \A k \in DOMAIN s : a[k] = IdOf(s[k])
      /\ Listed(b) /\ Len(b) = Len(t) /\ \A k \in DOMAIN t : b[k] = IdOf(t[k])
      /\ Listed(c) /\ Len(c) = Len(s \o t)
      /\ \A k \in DOMAIN (s \o t) : c[k] = IdOf((s \o t)[k])
  BY <1>1, IdsListed
<1> HIDE DEF a, b, c
<1>3. /\ DOMAIN s = 1 .. Len(s) /\ DOMAIN t = 1 .. Len(t)
      /\ Len(s) \in Nat /\ Len(t) \in Nat
      /\ \A k \in DOMAIN s : k \in DOMAIN (s \o t) /\ (s \o t)[k] = s[k]
      /\ \A k \in DOMAIN t : /\ Len(s) + k \in DOMAIN (s \o t)
                             /\ (s \o t)[Len(s) + k] = t[k]
  BY ConcatListed
<1>4. Listed(a \o b)
  BY <1>2, ConcatListed
<1>5. /\ DOMAIN a = 1 .. Len(a) /\ DOMAIN b = 1 .. Len(b)
      /\ \A k \in DOMAIN a : k \in DOMAIN (a \o b) /\ (a \o b)[k] = a[k]
      /\ \A k \in DOMAIN b : /\ Len(a) + k \in DOMAIN (a \o b)
                             /\ (a \o b)[Len(a) + k] = b[k]
  BY <1>2, ConcatListed
<1>6. Len(s \o t) = Len(s) + Len(t) /\ Len(a \o b) = Len(a) + Len(b)
  <2>1. s \in Seq(Range(s)) /\ t \in Seq(Range(t)) /\ a \in Seq(Range(a)) /\ b \in Seq(Range(b))
    BY <1>2 DEF Listed
  <2> DEFINE A == Range(s)
             B == Range(t)
             C == Range(a)
             D == Range(b)
  <2> HIDE DEF A, B, C, D
  <2>2. s \in Seq(A) /\ t \in Seq(B) /\ a \in Seq(C) /\ b \in Seq(D)
    BY <2>1 DEF A, B, C, D
  <2>3. s \in Seq(A \union B) /\ t \in Seq(A \union B)
    BY <2>2
  <2>4. a \in Seq(C \union D) /\ b \in Seq(C \union D)
    BY <2>2
  <2> QED
    BY <2>3, <2>4, ConcatElements
<1>7. c = a \o b
  <2> DEFINE n == Len(s) + Len(t)
  <2>1. ASSUME NEW k \in 1 .. n PROVE c[k] = (a \o b)[k]
    <3>1. CASE k \in 1 .. Len(s)
      <4>1. k \in DOMAIN s /\ k \in DOMAIN a
        BY <1>2, <1>3, <1>5, <3>1
      <4> QED
        BY <1>2, <1>3, <1>5, <4>1
    <3>2. CASE k \notin 1 .. Len(s)
      <4> DEFINE j == k - Len(s)
      <4>1. j \in 1 .. Len(t) /\ k = Len(s) + j
        BY <1>3, <3>2
      <4> HIDE DEF j
      <4>2. j \in DOMAIN t /\ j \in DOMAIN b
        BY <1>2, <1>3, <1>5, <4>1
      <4>3. (a \o b)[k] = b[j] /\ (s \o t)[k] = t[j] /\ k \in DOMAIN (s \o t)
        BY <1>2, <1>3, <1>5, <4>1, <4>2
      <4> QED
        BY <1>2, <4>2, <4>3
    <3> QED
      BY <3>1, <3>2
  <2>2. Len(c) = n /\ Len(a \o b) = n
    BY <1>2, <1>6
  <2>3. c \in Seq(Range(c)) /\ a \o b \in Seq(Range(a \o b))
    BY <1>2, <1>4 DEF Listed
  <2> DEFINE A == Range(c)
             B == Range(a \o b)
             d == a \o b
  <2> HIDE DEF A, B, n, d
  <2>4. c \in Seq(A) /\ d \in Seq(B) /\ Len(c) = Len(d) /\ \A k \in 1 .. Len(c) : c[k] = d[k]
    BY <2>1, <2>2, <2>3 DEF A, B, d
  <2>5. c = d
    BY <2>4
  <2> QED
    BY <2>5 DEF d
<1>8. a \in Seq(S) /\ b \in Seq(S)
  <2> DEFINE A == Range(a)
             B == Range(b)
  <2>1. S = A \union B
    BY DEF a, b
  <2>2. a \in Seq(A) /\ b \in Seq(B)
    BY <1>2 DEF Listed
  <2> HIDE DEF A, B, S
  <2> QED
    BY <2>1, <2>2
<1> HIDE DEF S
<1>9. Count(a \o b, id) = Count(a, id) + Count(b, id)
  BY <1>8, CountOfConcat
<1>10. Count(a, id) \in Nat /\ Count(b, id) \in Nat
  BY <1>8, CountType
<1> QED
  BY <1>7, <1>9, <1>10 DEF a, b, c

\* An id that occurs once at most.
LEMMA CountOnce ==
    ASSUME NEW s, Listed(s), NEW id,
           \A k, l \in DOMAIN s : IdOf(s[k]) = IdOf(s[l]) => k = l
    PROVE  Count(Ids(s), id) = IF \E k \in DOMAIN s : IdOf(s[k]) = id THEN 1 ELSE 0
<1> DEFINE P == Places(Ids(s), id)
<1>1. DOMAIN Ids(s) = DOMAIN s /\ \A k \in DOMAIN s : Ids(s)[k] = IdOf(s[k])
  BY IdsListed
<1>2. \A k : k \in P <=> k \in DOMAIN s /\ IdOf(s[k]) = id
  BY <1>1 DEF Places
<1>3. Count(Ids(s), id) = Cardinality(P)
  BY DEF Count
<1> HIDE DEF P
<1>4. CASE \E k \in DOMAIN s : IdOf(s[k]) = id
  <2>1. PICK k \in DOMAIN s : IdOf(s[k]) = id
    BY <1>4
  <2>2. P = {k}
    BY <1>2, <2>1
  <2> QED
    BY <1>3, <1>4, <2>2, FS_Singleton
<1>5. CASE ~\E k \in DOMAIN s : IdOf(s[k]) = id
  <2>1. P = {}
    BY <1>2, <1>5
  <2> QED
    BY <1>3, <1>5, <2>1, FS_EmptySet
<1> QED
  BY <1>4, <1>5

\* What is stored somewhere is a list, and the copies are counted along it.
LEMMA StoredListed ==
    ASSUME FilesInv, TopicsInv, NEW place
    PROVE  Listed(Stored(place))
<1>1. CASE place = <<Fallback>>
  BY <1>1 DEF Stored, FilesInv, FileContents, FileNames
<1>2. CASE place # <<Fallback>> /\ place \in DOMAIN topics
  BY <1>2 DEF Stored, TopicsInv
<1>3. CASE place # <<Fallback>> /\ place \notin DOMAIN topics
  <2>1. <<>> \in Seq({})
    OBVIOUS
  <2>2. Listed(<<>>)
    BY <2>1, IsListed
  <2> QED
    BY <1>3, <2>2 DEF Stored
<1> QED
  BY <1>1, <1>2, <1>3

LEMMA CopiesCounted ==
    ASSUME NEW place, NEW id
    PROVE  Copies(place, id) = Count(Ids(Stored(place)), id)
<1> DEFINE s == Stored(place)
<1>1. Copies(place, id) = Cardinality({ i \in DOMAIN s : IdOf(s[i]) = id })
  BY DEF Copies
<1> HIDE DEF s
<1>2. Places(Ids(s), id) = { i \in DOMAIN s : IdOf(s[i]) = id }
  BY DEF Places, Ids
<1> QED
  BY <1>1, <1>2 DEF Count, s

\* The runs that a record is in.
LEMMA RunsFinite ==
    ASSUME PublishedInv, NEW id, NEW place
    PROVE  /\ IsFiniteSet(RunsOf(id, place)) /\ IsFiniteSet(EndedOf(id, place))
           /\ Cardinality(RunsOf(id, place)) \in Nat /\ Cardinality(EndedOf(id, place)) \in Nat
           /\ RunsOf(id, place) \subseteq 1 .. Len(published)
           /\ EndedOf(id, place) \subseteq RunsOf(id, place)
           /\ Len(published) \in Nat /\ DOMAIN published = 1 .. Len(published)
<1>1. published \in Seq(Range(published))
  BY DEF PublishedInv, Listed
<1>2. DOMAIN published = 1 .. Len(published) /\ Len(published) \in Nat
  BY <1>1
<1>3. RunsOf(id, place) \subseteq 1 .. Len(published) /\ EndedOf(id, place) \subseteq RunsOf(id, place)
  BY <1>2 DEF RunsOf, EndedOf
<1>4. IsFiniteSet(1 .. Len(published))
  BY <1>2, FS_Interval
<1>5. IsFiniteSet(RunsOf(id, place)) /\ IsFiniteSet(EndedOf(id, place))
  BY <1>3, <1>4, FS_Subset
<1> QED
  BY <1>2, <1>3, <1>5, FS_CardinalityType

-----------------------------------------------------------------------------
(* The invariant and the steps.                                            *)

SameRuns(id, place) ==
    RunsOf(id, place)' = RunsOf(id, place) /\ EndedOf(id, place)' = EndedOf(id, place)

\* No run is added, ended or forgotten.
LEMMA RunsUnchanged ==
    ASSUME UNCHANGED published
    PROVE  /\ Inputs' = Inputs /\ \A id, place : SameRuns(id, place)
           /\ PublishedInv => PublishedInv'
<1>1. Inputs' = Inputs
  BY DEF Inputs
<1>2. \A id, place : RunsOf(id, place)' = RunsOf(id, place)
  BY DEF RunsOf
<1>3. \A id, place : EndedOf(id, place)' = EndedOf(id, place)
  BY <1>2 DEF EndedOf
<1>4. PublishedInv => PublishedInv'
  BY DEF PublishedInv
<1> QED
  BY <1>1, <1>2, <1>3, <1>4 DEF SameRuns

\* What was routed stays routed.
LEMMA RoutedStays ==
    ASSUME Inputs \subseteq Inputs', NEW place, NEW s, Routed(place, s)
    PROVE  Routed(place, s)'
BY DEF Routed

\* Nothing is written or taken away where the publisher writes.
SameStored == \A place : Stored(place)' = Stored(place)

LEMMA NumbersUnchanged ==
    ASSUME SameStored, NEW id, NEW place
    PROVE  Number(id, place)' = Number(id, place)
BY DEF SameStored, Number

\* Files and topics that stay as they are.
LEMMA FilesUnchanged ==
    ASSUME UNCHANGED files, Inputs \subseteq Inputs', FilesInv
    PROVE  FilesInv'
<1>1. \A s \in Range(files[Fallback].records) : Routed(<<Fallback>>, s)'
  BY RoutedStays DEF FilesInv
<1> QED
  BY <1>1 DEF FilesInv

LEMMA TopicsUnchanged ==
    ASSUME UNCHANGED topics, Inputs \subseteq Inputs', TopicsInv
    PROVE  TopicsInv'
<1>1. \A t \in DOMAIN topics : \A s \in Range(topics[t]) : Routed(t, s)'
  BY RoutedStays DEF TopicsInv
<1> QED
  BY <1>1 DEF TopicsInv

LEMMA StoredUnchanged ==
    ASSUME UNCHANGED <<files, topics>>
    PROVE  SameStored
BY DEF SameStored, Stored

\* Between the runs of the publisher a record is where it belongs as often
\* as runs have ended, up to as often as there were runs.
LEMMA NumbersIdle ==
    ASSUME NEW id, NEW place, NumberInv(id, place), Number(id, place)' = Number(id, place),
           SameRuns(id, place), ~Stays(id, place)'
    PROVE  NumberInv(id, place)'
BY DEF NumberInv, SameRuns

\* A command other than the publisher starts, with what it will write.
LEMMA OtherStarts ==
    ASSUME IngestionInv, NEW command \in {"create", "generate", "validate"}, NEW writes,
           Start(command, writes), UNCHANGED published, Listed(writes),
           \A m \in DOMAIN writes : Listed(writes[m].records) /\ OtherWrite(writes[m])
    PROVE  IngestionInv'
<1>1. UNCHANGED <<files, topics, published>> /\ job' = command /\ work' = writes
  BY DEF Start
<1>2. FilesInv' /\ TopicsInv' /\ PublishedInv' /\ SameStored
  BY <1>1, RunsUnchanged, FilesUnchanged, TopicsUnchanged, StoredUnchanged DEF IngestionInv
<1>3. WorkInv'
  <2>1. jobs' \in Nat
    BY DEF Start, IngestionInv, WorkInv
  <2>2. job' # "publish" /\ job' # "idle"
    BY <1>1
  <2> QED
    BY <1>1, <2>1, <2>2 DEF WorkInv
<1>4. ASSUME NEW id, NEW place PROVE NumberInv(id, place)'
  <2>1. Number(id, place)' = Number(id, place) /\ SameRuns(id, place)
    BY <1>1, <1>2, NumbersUnchanged, RunsUnchanged
  <2>2. ~Stays(id, place)'
    BY <1>1 DEF Stays
  <2> QED
    BY <2>1, <2>2, NumbersIdle DEF IngestionInv
<1> QED
  BY <1>2, <1>3, <1>4 DEF IngestionInv

LEMMA CreateTopicsStep ==
    ASSUME IngestionInv, CreateTopics
    PROVE  IngestionInv'
<1> DEFINE writes == [ i \in DOMAIN all_topics |-> Write("create", all_topics[i], <<>>) ]
<1>1. Listed(all_topics)
  <2> DEFINE T == Range(TenantIds)
             K == Range(TopicKeys)
             V == { render_topic(key, tenant) : key \in K, tenant \in T }
             rows == [ i \in DOMAIN TenantIds |->
                         [ k \in DOMAIN TopicKeys |-> render_topic(TopicKeys[k], TenantIds[i]) ] ]
  <2>1. TenantIds \in Seq(T) /\ TopicKeys \in Seq(K)
    BY ListsAssumption
  <2> HIDE DEF T, K
  <2>2. /\ DOMAIN TenantIds = 1 .. Len(TenantIds) /\ Len(TenantIds) \in Nat
        /\ DOMAIN TopicKeys = 1 .. Len(TopicKeys) /\ Len(TopicKeys) \in Nat
        /\ \A i \in DOMAIN TenantIds : TenantIds[i] \in T
        /\ \A k \in DOMAIN TopicKeys : TopicKeys[k] \in K
    BY <2>1
  <2>3. ASSUME NEW i \in DOMAIN TenantIds PROVE rows[i] \in Seq(V)
    <3> DEFINE row == rows[i]
    <3>1. row = [ k \in 1 .. Len(TopicKeys) |-> row[k] ]
      BY <2>2
    <3>2. \A k \in 1 .. Len(TopicKeys) : row[k] \in V
      BY <2>2
    <3> HIDE DEF row, V
    <3>3. row \in Seq(V)
      BY <2>2, <3>1, <3>2
    <3> QED
      BY <3>3 DEF row
  <2>4. rows = [ i \in 1 .. Len(TenantIds) |-> rows[i] ]
    BY <2>2
  <2>5. all_topics = FlattenSeq(rows)
    BY DEF all_topics
  <2> HIDE DEF rows, V
  <2>6. rows \in Seq(Seq(V))
    BY <2>2, <2>3, <2>4
  <2>7. all_topics \in Seq(V)
    BY <2>5, <2>6, FlattenProperties
  <2> QED
    BY <2>7, IsListed
<1>2. DOMAIN all_topics = 1 .. Len(all_topics) /\ Len(all_topics) \in Nat
  <2>1. all_topics \in Seq(Range(all_topics))
    BY <1>1 DEF Listed
  <2> QED
    BY <2>1
<1>3. writes = [ i \in 1 .. Len(all_topics) |-> writes[i] ]
  BY <1>2
<1>4. \A m \in DOMAIN writes : writes[m].op = "create" /\ writes[m].records = <<>>
  BY DEF Write
<1>5. Start("create", writes) /\ UNCHANGED published
  BY DEF CreateTopics
<1> HIDE DEF writes
<1>6. Listed(writes)
  BY <1>2, <1>3, FunctionListed
<1>7. Listed(<<>>)
  <2>1. <<>> \in Seq({})
    OBVIOUS
  <2> QED
    BY <2>1, IsListed
<1>8. \A m \in DOMAIN writes : Listed(writes[m].records) /\ OtherWrite(writes[m])
  BY <1>4, <1>7 DEF OtherWrite
<1> QED
  BY <1>5, <1>6, <1>8, OtherStarts

\* Two writes are a list of them.
LEMMA TwoWrites ==
    ASSUME NEW v, NEW w
    PROVE  /\ Listed(<<v, w>>) /\ DOMAIN <<v, w>> = {1, 2}
           /\ <<v, w>>[1] = v /\ <<v, w>>[2] = w
<1>1. <<v, w>> \in Seq({v, w})
  OBVIOUS
<1>2. Listed(<<v, w>>)
  BY <1>1, IsListed
<1>3. DOMAIN <<v, w>> = {1, 2} /\ <<v, w>>[1] = v /\ <<v, w>>[2] = w
  <2>1. DOMAIN <<v, w>> = 1 .. 2 /\ 1 .. 2 = {1, 2}
    OBVIOUS
  <2> QED
    BY <2>1
<1> QED
  BY <1>2, <1>3

LEMMA GenerateStep ==
    ASSUME IngestionInv, NEW seed \in Seeds, Generate(seed)
    PROVE  IngestionInv'
<1> DEFINE v == Write("write", "valid", valid_events(seed))
           w == Write("write", "invalid", invalid_events(seed))
           writes == <<v, w>>
<1>1. Start("generate", writes) /\ UNCHANGED published
  BY DEF Generate
<1>2. FileContents("valid", valid_events(seed))
  <2>1. Listed(valid_events(seed)) /\ DistinctIds(valid_events(seed))
    BY ValidFile, IdentityAssumption
  <2>2. Range(valid_events(seed)) \subseteq GivenRecords
    BY DEF GivenRecords
  <2> QED
    BY <2>1, <2>2 DEF FileContents, FileLine
<1>3. FileContents("invalid", invalid_events(seed))
  <2>1. Listed(invalid_events(seed)) /\ DistinctIds(invalid_events(seed))
    BY InvalidFile, IdentityAssumption
  <2>2. Range(invalid_events(seed)) \subseteq GivenRecords
    BY DEF GivenRecords
  <2> QED
    BY <2>1, <2>2 DEF FileContents, FileLine
<1>4. /\ v.op = "write" /\ v.to = "valid" /\ v.records = valid_events(seed)
      /\ w.op = "write" /\ w.to = "invalid" /\ w.records = invalid_events(seed)
  BY DEF Write
<1> HIDE DEF v, w
<1>5. \A x \in {v, w} : Listed(x.records) /\ OtherWrite(x)
  BY <1>2, <1>3, <1>4 DEF OtherWrite, FileContents, FileNames, Fallback
<1>6. Listed(writes) /\ DOMAIN writes = {1, 2} /\ writes[1] = v /\ writes[2] = w
  BY TwoWrites
<1> HIDE DEF writes
<1>7. \A m \in DOMAIN writes : Listed(writes[m].records) /\ OtherWrite(writes[m])
  BY <1>5, <1>6
<1> QED
  BY <1>1, <1>6, <1>7, OtherStarts

\* What is read of a file: its records, and a cut line maybe.
LEMMA LinesOf ==
    ASSUME FilesInv, NEW f \in {"valid", "invalid", "handmade"}
    PROVE  Listed(Lines(f)) /\ Range(Lines(f)) \subseteq GivenRecords \union {Cut}
<1> DEFINE a == files[f].records
           b == IF files[f].torn THEN <<Cut>> ELSE <<>>
<1>1. Listed(a) /\ Range(a) \subseteq GivenRecords
  BY DEF FilesInv, FileContents, FileLine, FileNames
<1>2. b \in Seq({Cut})
  <2>1. <<Cut>> \in Seq({Cut}) /\ <<>> \in Seq({Cut})
    OBVIOUS
  <2> QED
    BY <2>1
<1>3. Lines(f) = a \o b
  BY DEF Lines
<1> HIDE DEF a, b
<1>4. Listed(b) /\ Range(b) \subseteq {Cut}
  BY <1>2, IsListed
<1> QED
  BY <1>1, <1>3, <1>4, ConcatListed

LEMMA ValidateStep ==
    ASSUME IngestionInv, NEW fs \in InputFiles, Validate(fs)
    PROVE  IngestionInv'
<1> DEFINE lines == FlattenSeq([ i \in DOMAIN fs |-> Lines(fs[i]) ])
           good == { i \in DOMAIN lines : Accepted(lines[i]) }
           bad == { i \in DOMAIN lines : ~Accepted(lines[i]) }
           failed == Picked(lines, bad)
           passed == Picked(lines, good)
           entries == [ i \in DOMAIN failed |-> rejected_entry(failed[i]) ]
           v == Write("write", "accepted", passed)
           w == Write("write", "rejected", entries)
           writes == <<v, w>>
<1>1. Start("validate", writes) /\ UNCHANGED published
  BY DEF Validate
<1>2. Listed(lines) /\ Range(lines) \subseteq GivenRecords \union {Cut}
  <2> DEFINE V == GivenRecords \union {Cut}
             of == [ i \in DOMAIN fs |-> Lines(fs[i]) ]
  <2>1. fs \in Seq({"valid", "invalid", "handmade"})
    <3>1. fs \in {<<"valid", "invalid">>, <<"valid">>, <<"invalid">>, <<>>, <<"handmade">>}
      BY DEF InputFiles
    <3>2. /\ <<"valid", "invalid">> \in Seq({"valid", "invalid", "handmade"})
          /\ <<"valid">> \in Seq({"valid", "invalid", "handmade"})
          /\ <<"invalid">> \in Seq({"valid", "invalid", "handmade"})
          /\ <<>> \in Seq({"valid", "invalid", "handmade"})
          /\ <<"handmade">> \in Seq({"valid", "invalid", "handmade"})
      OBVIOUS
    <3> QED
      BY <3>1, <3>2, Zenon
  <2>2. DOMAIN fs = 1 .. Len(fs) /\ Len(fs) \in Nat
    BY <2>1
  <2>3. ASSUME NEW i \in DOMAIN fs PROVE of[i] \in Seq(V)
    <3>1. fs[i] \in {"valid", "invalid", "handmade"}
      BY <2>1
    <3>2. Lines(fs[i]) \in Seq(Range(Lines(fs[i]))) /\ Range(Lines(fs[i])) \subseteq V
      BY <3>1, LinesOf DEF IngestionInv, Listed
    <3> HIDE DEF V
    <3>3. Lines(fs[i]) \in Seq(V)
      BY <3>2
    <3> QED
      BY <3>3
  <2>4. of = [ i \in 1 .. Len(fs) |-> of[i] ]
    BY <2>2
  <2>5. lines = FlattenSeq(of)
    OBVIOUS
  <2> HIDE DEF of, lines, V
  <2>6. of \in Seq(Seq(V))
    BY <2>2, <2>3, <2>4
  <2>7. lines \in Seq(V)
    BY <2>5, <2>6, FlattenProperties
  <2> QED
    BY <2>7, IsListed DEF V
<1> HIDE DEF lines
<1>3. Listed(passed) /\ \A k \in DOMAIN passed : passed[k] \in Range(lines) /\ Accepted(passed[k])
  <2>1. \A i : i \in good => i \in DOMAIN lines /\ Accepted(lines[i])
    OBVIOUS
  <2> HIDE DEF good
  <2>2. Listed(passed)
    BY <1>2, PickedProperties
  <2>3. \A k \in DOMAIN passed : \E i \in DOMAIN lines : i \in good /\ lines[i] = passed[k]
    BY <1>2, PickedFrom
  <2> QED
    BY <2>1, <2>2, <2>3 DEF Range
<1>4. Listed(failed) /\ \A k \in DOMAIN failed : failed[k] \in Range(lines) /\ ~Accepted(failed[k])
  <2>1. \A i : i \in bad => i \in DOMAIN lines /\ ~Accepted(lines[i])
    OBVIOUS
  <2> HIDE DEF bad
  <2>2. Listed(failed)
    BY <1>2, PickedProperties
  <2>3. \A k \in DOMAIN failed : \E i \in DOMAIN lines : i \in bad /\ lines[i] = failed[k]
    BY <1>2, PickedFrom
  <2> QED
    BY <2>1, <2>2, <2>3 DEF Range
<1> HIDE DEF failed, passed
<1>5. FileContents("accepted", passed)
  <2>1. ASSUME NEW r \in Range(passed) PROVE FileLine("accepted", r)
    <3>1. PICK k \in DOMAIN passed : r = passed[k]
      BY DEF Range
    <3>2. r \in GivenRecords /\ schema_errors(r) = {}
      BY <1>2, <1>3, <3>1 DEF Accepted
    <3> QED
      BY <3>2 DEF FileLine
  <2> QED
    BY <1>3, <2>1 DEF FileContents
<1>6. Listed(entries) /\ DOMAIN entries = DOMAIN failed
      /\ \A k \in DOMAIN failed : entries[k] = rejected_entry(failed[k])
  <2>1. DOMAIN failed = 1 .. Len(failed) /\ Len(failed) \in Nat
    <3>1. failed \in Seq(Range(failed))
      BY <1>4 DEF Listed
    <3> QED
      BY <3>1
  <2>2. entries = [ i \in 1 .. Len(failed) |-> entries[i] ]
    BY <2>1
  <2>3. DOMAIN entries = DOMAIN failed
        /\ \A k \in DOMAIN failed : entries[k] = rejected_entry(failed[k])
    OBVIOUS
  <2> HIDE DEF entries
  <2>4. Listed(entries)
    BY <2>1, <2>2, FunctionListed
  <2> QED
    BY <2>3, <2>4
<1> HIDE DEF entries
<1>7. FileContents("rejected", entries)
  <2>1. ASSUME NEW e \in Range(entries) PROVE FileLine("rejected", e)
    <3>1. PICK k \in DOMAIN failed : e = rejected_entry(failed[k])
      BY <1>6 DEF Range
    <3>2. CASE failed[k] = Cut
      <4>1. e.original_record = None
        BY <3>1, <3>2 DEF rejected_entry, reject_entry
      <4> QED
        BY <4>1 DEF FileLine
    <3>3. CASE failed[k] # Cut
      <4>1. e.original_record = failed[k] /\ e.all_errors = schema_errors(failed[k])
        BY <3>1, <3>3 DEF rejected_entry, reject_entry
      <4>2. failed[k] \in GivenRecords
        BY <1>2, <1>4, <3>3
      <4> QED
        BY <4>1, <4>2 DEF FileLine
    <3> QED
      BY <3>2, <3>3
  <2> QED
    BY <1>6, <2>1 DEF FileContents
<1>8. /\ v.op = "write" /\ v.to = "accepted" /\ v.records = passed
      /\ w.op = "write" /\ w.to = "rejected" /\ w.records = entries
  BY DEF Write
<1> HIDE DEF v, w
<1>9. \A x \in {v, w} : Listed(x.records) /\ OtherWrite(x)
  BY <1>5, <1>7, <1>8 DEF OtherWrite, FileContents, FileNames, Fallback
<1>10. Listed(writes) /\ DOMAIN writes = {1, 2} /\ writes[1] = v /\ writes[2] = w
  BY TwoWrites
<1> HIDE DEF writes
<1>11. \A m \in DOMAIN writes : Listed(writes[m].records) /\ OtherWrite(writes[m])
  BY <1>9, <1>10
<1> QED
  BY <1>1, <1>10, <1>11, OtherStarts

\* The records of a run, as the publisher stamps them.
PublisherInput(f, mode) ==
    [ i \in DOMAIN files[f].records |->
        apply_producer_mode(files[f].records[i], mode, Now + jobs) ]

\* Each record of the file is stamped and routed once.
LEMMA PublisherRoutes ==
    ASSUME IngestionInv, NEW f \in {"valid", "invalid", "handmade"}, NEW mode \in Modes
    PROVE  LET given == files[f].records
               input == PublisherInput(f, mode)
               routes == plan_routes(input)
           IN  /\ Listed(given) /\ \A i \in DOMAIN given : given[i] \in GivenRecords
               /\ Listed(input) /\ DOMAIN input = DOMAIN given /\ DistinctIds(input)
               /\ \A i \in DOMAIN given : Stamped(input[i], mode) /\ input[i].id = given[i].id
               /\ Listed(routes) /\ DOMAIN routes = DOMAIN input
               /\ \A i \in DOMAIN input : /\ routes[i] = route(input[i])
                                          /\ IdOf(routes[i].record) = input[i].id
                                          /\ routes[i].to = RightPlace(input[i])
               /\ OneRouteEach(routes)
<1> DEFINE given == files[f].records
           input == PublisherInput(f, mode)
           routes == plan_routes(input)
<1>1. jobs \in Nat
  BY DEF IngestionInv, WorkInv
<1>2. Listed(given) /\ DistinctIds(given) /\ \A i \in DOMAIN given : given[i] \in GivenRecords
  BY DEF IngestionInv, FilesInv, FileContents, FileLine, FileNames, Range
<1>3. DOMAIN given = 1 .. Len(given) /\ Len(given) \in Nat
  <2>1. given \in Seq(Range(given))
    BY <1>2 DEF Listed
  <2> HIDE DEF given
  <2> QED
    BY <2>1
<1>4. input = [ i \in 1 .. Len(given) |-> input[i] ]
  BY <1>3 DEF PublisherInput
<1>5. \A i \in DOMAIN given : input[i] = apply_producer_mode(given[i], mode, Now + jobs)
  BY DEF PublisherInput
<1> HIDE DEF given, input
<1>6. Listed(input) /\ DOMAIN input = DOMAIN given
  BY <1>3, <1>4, FunctionListed
<1>7. ASSUME NEW i \in DOMAIN given
      PROVE  Stamped(input[i], mode) /\ input[i].id = given[i].id
  <2>1. Now + jobs \in Int /\ Now + jobs >= Now
    BY <1>1, NowAssumption
  <2> QED
    BY <1>2, <1>5, <2>1, Stamping
<1>8. DistinctIds(input)
  BY <1>2, <1>6, <1>7 DEF DistinctIds
<1>9. \A i \in DOMAIN input : DOMAIN input[i] = RecordFields
  BY <1>6, <1>7 DEF Stamped, StampOf
<1>10. DOMAIN routes = DOMAIN input /\ \A i \in DOMAIN input : routes[i] = route(input[i])
  BY DEF plan_routes
<1>11. Listed(routes)
  <2>1. routes = [ i \in 1 .. Len(given) |-> routes[i] ]
    BY <1>3, <1>6 DEF plan_routes
  <2> HIDE DEF routes
  <2> QED
    BY <1>3, <2>1, FunctionListed
<1> HIDE DEF routes
<1>12. \A i \in DOMAIN routes : /\ IdOf(routes[i].record) = input[i].id
                                /\ routes[i].to = RightPlace(input[i])
  BY <1>9, <1>10, RouteOf
<1>13. OneRouteEach(routes)
  BY <1>8, <1>10, <1>12 DEF OneRouteEach, DistinctIds
<1> QED
  BY <1>2, <1>6, <1>7, <1>8, <1>10, <1>11, <1>12, <1>13 DEF given, input, routes

\* A run of the publisher starts: its records are in no run so far, and
\* wait to be written.
LEMMA PublishStep ==
    ASSUME IngestionInv, NEW f \in {"valid", "invalid", "handmade"}, NEW mode \in Modes,
           Publish(f, mode)
    PROVE  IngestionInv'
<1> DEFINE given == files[f].records
           input == PublisherInput(f, mode)
           routes == plan_routes(input)
           run == [ input |-> input, mode |-> mode, done |-> FALSE ]
<1>1. /\ UNCHANGED <<files, topics>> /\ job = "idle" /\ job' = "publish"
      /\ work' = publish_writes(routes) /\ published' = Append(published, run)
      /\ jobs' = jobs + 1 /\ jobs \in Nat
  BY DEF Publish, Start, IngestionInv, WorkInv, PublisherInput
<1> HIDE DEF given, input, routes
<1>6. Listed(input) /\ DOMAIN input = DOMAIN given
  BY PublisherRoutes DEF given, input
<1>7. ASSUME NEW i \in DOMAIN given
      PROVE  Stamped(input[i], mode) /\ input[i].id = given[i].id
  BY PublisherRoutes DEF given, input
<1>8. DistinctIds(input)
  BY PublisherRoutes DEF input
<1>10. DOMAIN routes = DOMAIN input /\ \A i \in DOMAIN input : routes[i] = route(input[i])
  BY PublisherRoutes DEF input, routes
<1>11. Listed(routes)
  BY PublisherRoutes DEF input, routes
<1>12. \A i \in DOMAIN routes : /\ IdOf(routes[i].record) = input[i].id
                                /\ routes[i].to = RightPlace(input[i])
  BY <1>10, PublisherRoutes DEF input, routes
<1>13. OneRouteEach(routes)
  BY PublisherRoutes DEF input, routes
<1> DEFINE writes == publish_writes(routes)
<1>14. /\ Listed(writes)
       /\ \A m \in DOMAIN writes :
              /\ Listed(writes[m].records) /\ PublisherWrite(writes[m])
              /\ \A k \in DOMAIN writes[m].records :
                     FromRoute(routes, writes[m], writes[m].records[k])
       /\ \A m, n \in DOMAIN writes :
              \A i \in DOMAIN writes[m].records, j \in DOMAIN writes[n].records :
                  IdOf(writes[m].records[i]) = IdOf(writes[n].records[j]) => m = n /\ i = j
       /\ \A i \in DOMAIN routes : \E m \in DOMAIN writes :
              \E k \in DOMAIN writes[m].records : writes[m].records[k] = routes[i].record
  BY <1>11, <1>13, PublishWrites
<1>15. work' = writes
  BY <1>1
<1> HIDE DEF writes
\* The list of runs.
<1> DEFINE n == Len(published)
<1>16. /\ Listed(published) /\ Listed(published') /\ n \in Nat
       /\ DOMAIN published = 1 .. n /\ DOMAIN published' = 1 .. n + 1 /\ Len(published') = n + 1
       /\ \A k \in DOMAIN published : published'[k] = published[k]
       /\ published'[n + 1] = run
  <2>1. Listed(published)
    BY DEF IngestionInv, PublishedInv
  <2> HIDE DEF run
  <2> QED
    BY <1>1, <2>1, AppendListed
<1>17. run.input = input /\ run.mode = mode /\ run.done = FALSE
       /\ run = [ input |-> run.input, mode |-> run.mode, done |-> run.done ]
  OBVIOUS
<1> HIDE DEF run, n
<1>18. \A k \in DOMAIN published' : k \in DOMAIN published \/ k = n + 1
  BY <1>16
<1>19. PublishedInv'
  <2>1. ASSUME NEW k \in DOMAIN published'
        PROVE  /\ published'[k] = [ input |-> published'[k].input, mode |-> published'[k].mode,
                                    done |-> published'[k].done ]
               /\ published'[k].mode \in Modes
               /\ Listed(published'[k].input) /\ DistinctIds(published'[k].input)
               /\ \A r \in Range(published'[k].input) : Stamped(r, published'[k].mode)
    <3>1. CASE k \in DOMAIN published
      BY <1>16, <3>1 DEF IngestionInv, PublishedInv
    <3>2. CASE k = n + 1
      <4>1. published'[k] = run
        BY <1>16, <3>2
      <4>2. \A r \in Range(input) : Stamped(r, mode)
        BY <1>6, <1>7 DEF Range
      <4> QED
        BY <1>6, <1>8, <1>17, <4>1, <4>2
    <3> QED
      BY <1>18, <3>1, <3>2
  <2> QED
    BY <1>16, <2>1 DEF PublishedInv
<1>20. Inputs \subseteq Inputs'
  <2>1. \A k \in DOMAIN published : k \in DOMAIN published' /\ published'[k] = published[k]
    BY <1>16
  <2> QED
    BY <2>1 DEF Inputs
<1>21. FilesInv' /\ TopicsInv' /\ SameStored
  BY <1>1, <1>20, FilesUnchanged, TopicsUnchanged, StoredUnchanged DEF IngestionInv
<1>22. Current' = run /\ published' # <<>>
  <2>1. published' # <<>>
    BY <1>16
  <2> QED
    BY <1>16, <2>1 DEF Current
<1>23. WorkInv'
  <2>1. ASSUME NEW m \in DOMAIN writes, NEW s \in Range(writes[m].records)
        PROVE  \E r \in Range(input) : route(r) = [ to |-> writes[m].to, record |-> s ]
    <3>1. PICK k \in DOMAIN writes[m].records : s = writes[m].records[k]
      BY DEF Range
    <3>2. PICK i \in DOMAIN routes : routes[i].to = writes[m].to /\ routes[i].record = s
      BY <1>14, <3>1 DEF FromRoute
    <3>3. routes[i] = route(input[i]) /\ input[i] \in Range(input)
      BY <1>10 DEF Range
    <3>4. route(input[i]) = [ to |-> route(input[i]).to, record |-> route(input[i]).record ]
      BY DEF route
    <3> QED
      BY <3>2, <3>3, <3>4
  <2>2. PublisherWork'
    BY <1>14, <1>15, <1>17, <1>22, <2>1 DEF PublisherWork
  <2>3. jobs' \in Nat
    BY <1>1
  <2> QED
    BY <1>1, <1>14, <1>15, <2>2, <2>3 DEF WorkInv
<1>24. ASSUME NEW id, NEW place PROVE NumberInv(id, place)'
  <2> DEFINE In == \E q \in Range(input) : q.id = id /\ RightPlace(q) = place
  <2>1. Number(id, place)' = Number(id, place)
    BY <1>21, NumbersUnchanged
  <2>2. RunsOf(id, place)' = RunsOf(id, place) \union (IF In THEN {n + 1} ELSE {})
    <3>1. ASSUME NEW k
          PROVE  k \in RunsOf(id, place)' <=> k \in RunsOf(id, place) \/ (k = n + 1 /\ In)
      <4>1. k \in RunsOf(id, place)' <=> k \in DOMAIN published' /\ \E q \in Range(published'[k].input) :
                                       q.id = id /\ RightPlace(q) = place
        BY DEF RunsOf
      <4>2. k \in RunsOf(id, place) <=> k \in DOMAIN published /\ \E q \in Range(published[k].input) :
                                      q.id = id /\ RightPlace(q) = place
        BY DEF RunsOf
      <4>3. k \in DOMAIN published => k \in DOMAIN published' /\ published'[k] = published[k] /\ k # n + 1
        BY <1>16
      <4>4. k = n + 1 => k \in DOMAIN published' /\ published'[k].input = input
        BY <1>16, <1>17
      <4> QED
        BY <1>18, <4>1, <4>2, <4>3, <4>4
    <3> HIDE DEF In
    <3> QED
      BY <3>1
  <2>3. EndedOf(id, place)' = EndedOf(id, place)
    <3>1. ASSUME NEW k PROVE k \in EndedOf(id, place)' <=> k \in EndedOf(id, place)
      <4>1. k \in EndedOf(id, place)' <=> k \in RunsOf(id, place)' /\ published'[k].done
        BY DEF EndedOf
      <4>2. k \in EndedOf(id, place) <=> k \in RunsOf(id, place) /\ published[k].done
        BY DEF EndedOf
      <4>3. k \in RunsOf(id, place) => published'[k] = published[k]
        BY <1>16 DEF RunsOf
      <4>4. published'[n + 1].done = FALSE
        BY <1>16, <1>17
      <4> HIDE DEF In
      <4> QED
        BY <2>2, <4>1, <4>2, <4>3, <4>4
    <3> QED
      BY <3>1
  <2>4. /\ IsFiniteSet(RunsOf(id, place)) /\ Cardinality(RunsOf(id, place)) \in Nat
        /\ Cardinality(EndedOf(id, place)) \in Nat
        /\ n + 1 \notin RunsOf(id, place)
    <3>1. PublishedInv
      BY DEF IngestionInv
    <3>2. RunsOf(id, place) \subseteq 1 .. n
      BY <3>1, RunsFinite DEF n
    <3> QED
      BY <1>16, <3>1, <3>2, RunsFinite
  <2>5. Number(id, place) \in Cardinality(EndedOf(id, place)) .. Cardinality(RunsOf(id, place))
    BY DEF IngestionInv, NumberInv
  <2>6. CASE In
    <3>1. Cardinality(RunsOf(id, place)') = Cardinality(RunsOf(id, place)) + 1
      <4>1. RunsOf(id, place)' = RunsOf(id, place) \union {n + 1}
        BY <2>2, <2>6
      <4> QED
        BY <2>4, <4>1, FS_AddElement
    <3>2. Waits(id, place)'
      <4>1. PICK q \in Range(input) : q.id = id /\ RightPlace(q) = place
        BY <2>6
      <4>2. PICK i \in DOMAIN input : q = input[i]
        BY DEF Range
      <4>3. PICK m \in DOMAIN writes : \E k \in DOMAIN writes[m].records :
                writes[m].records[k] = routes[i].record
        BY <1>10, <1>14
      <4>4. PICK k \in DOMAIN writes[m].records : writes[m].records[k] = routes[i].record
        BY <4>3
      <4>5. IdOf(routes[i].record) = id /\ routes[i].to = place
        BY <1>10, <1>12, <4>1, <4>2
      <4>6. PICK j \in DOMAIN routes : /\ routes[j].to = writes[m].to
                                       /\ routes[j].record = writes[m].records[k]
        BY <1>14 DEF FromRoute
      <4>7. writes[m].to = place
        BY <1>10, <1>13, <4>4, <4>5, <4>6 DEF OneRouteEach
      <4>8. routes[i].record \in Range(writes[m].records)
        BY <4>4 DEF Range
      <4> QED
        BY <1>15, <4>5, <4>7, <4>8 DEF Waits
    <3> QED
      BY <2>1, <2>3, <2>4, <2>5, <3>1, <3>2 DEF NumberInv
  <2>7. CASE ~In
    <3>1. RunsOf(id, place)' = RunsOf(id, place)
      BY <2>2, <2>7
    <3>2. ~Stays(id, place)'
      BY <1>16, <2>4, <3>1 DEF Stays
    <3> QED
      BY <2>1, <2>3, <2>5, <3>1, <3>2 DEF NumberInv
  <2> QED
    BY <2>6, <2>7
<1> QED
  BY <1>19, <1>21, <1>23, <1>24 DEF IngestionInv

\* What is left to write after the first write.
LEMMA WorkShrinks ==
    ASSUME IngestionInv, work # <<>>, work' = Tail(work), UNCHANGED <<job, jobs, published>>
    PROVE  WorkInv'
<1>1. /\ Listed(work) /\ jobs \in Nat /\ \A m \in DOMAIN work : Listed(work[m].records)
      /\ job # "idle"
      /\ job = "publish" => PublisherWork
      /\ job # "publish" => \A m \in DOMAIN work : OtherWrite(work[m])
  BY DEF IngestionInv, WorkInv
<1> DEFINE left == Tail(work)
<1>2. /\ Listed(left)
      /\ \A k \in DOMAIN left : k + 1 \in DOMAIN work /\ left[k] = work[k + 1] /\ k \in Nat
  BY <1>1, TailListed
<1>3. work' = left
  OBVIOUS
<1> HIDE DEF left
<1>4. \A m \in DOMAIN left : Listed(left[m].records)
  BY <1>1, <1>2
<1>5. CASE job = "publish"
  <2>1. PublisherWork
    BY <1>1, <1>5
  <2>2. \A m \in DOMAIN left :
            /\ PublisherWrite(left[m])
            /\ \A s \in Range(left[m].records) :
                   \E r \in Range(Current.input) :
                       route(r) = [ to |-> left[m].to, record |-> s ]
    <3> SUFFICES ASSUME NEW m \in DOMAIN left
                 PROVE  /\ PublisherWrite(left[m])
                        /\ \A s \in Range(left[m].records) :
                               \E r \in Range(Current.input) :
                                   route(r) = [ to |-> left[m].to, record |-> s ]
      OBVIOUS
    <3> DEFINE w == work[m + 1]
    <3>1. left[m] = w /\ m + 1 \in DOMAIN work
      BY <1>2
    <3>2. /\ PublisherWrite(w)
          /\ \A s \in Range(w.records) :
                 \E r \in Range(Current.input) : route(r) = [ to |-> w.to, record |-> s ]
      BY <2>1, <3>1 DEF PublisherWork
    <3> HIDE DEF w
    <3> QED
      BY <3>1, <3>2
  <2>3. ASSUME NEW m \in DOMAIN left, NEW n \in DOMAIN left,
               NEW i \in DOMAIN left[m].records, NEW j \in DOMAIN left[n].records,
               IdOf(left[m].records[i]) = IdOf(left[n].records[j])
        PROVE  m = n /\ i = j
    <3>1. /\ m + 1 \in DOMAIN work /\ left[m] = work[m + 1] /\ m \in Nat
          /\ n + 1 \in DOMAIN work /\ left[n] = work[n + 1] /\ n \in Nat
      BY <1>2
    <3>2. m + 1 = n + 1 /\ i = j
      BY <2>1, <2>3, <3>1 DEF PublisherWork
    <3> QED
      BY <3>1, <3>2
  <2>4. Current' = Current
    BY DEF Current
  <2>5. published # <<>> /\ ~Current.done
    BY <2>1 DEF PublisherWork
  <2>6. PublisherWork'
    BY <1>3, <2>2, <2>3, <2>4, <2>5 DEF PublisherWork
  <2> QED
    BY <1>1, <1>2, <1>3, <1>4, <1>5, <2>6 DEF WorkInv
<1>6. CASE job # "publish"
  <2>1. \A m \in DOMAIN left : OtherWrite(left[m])
    BY <1>1, <1>2, <1>6
  <2> QED
    BY <1>1, <1>2, <1>3, <1>4, <1>6, <2>1 DEF WorkInv
<1> QED
  BY <1>5, <1>6

\* The next write is one of the publisher exactly if the publisher runs.
LEMMA NextWrite ==
    ASSUME IngestionInv, work # <<>>
    PROVE  /\ 1 \in DOMAIN work /\ Head(work) = work[1] /\ Listed(Head(work).records)
           /\ job = "publish" => PublisherWork /\ PublisherWrite(Head(work))
           /\ job # "publish" => OtherWrite(Head(work))
<1>1. 1 \in DOMAIN work /\ Head(work) = work[1]
  BY TailListed DEF IngestionInv, WorkInv
<1> QED
  BY <1>1 DEF IngestionInv, WorkInv, PublisherWork

\* A step of another command stores nothing where the publisher writes.
LEMMA OtherSteps ==
    ASSUME IngestionInv, SameStored, UNCHANGED published, job' # "publish",
           FilesInv', TopicsInv', WorkInv'
    PROVE  IngestionInv'
<1>1. PublishedInv' /\ \A id, place : SameRuns(id, place)
  BY RunsUnchanged DEF IngestionInv
<1>2. ASSUME NEW id, NEW place PROVE NumberInv(id, place)'
  <2>1. Number(id, place)' = Number(id, place)
    BY NumbersUnchanged
  <2>2. ~Stays(id, place)'
    BY DEF Stays
  <2> QED
    BY <1>1, <2>1, <2>2, NumbersIdle DEF IngestionInv
<1> QED
  BY <1>1, <1>2 DEF IngestionInv

LEMMA CreateTopicStep ==
    ASSUME IngestionInv, CreateTopic
    PROVE  IngestionInv'
<1> DEFINE to == Head(work).to
<1>1. /\ work # <<>> /\ Head(work).op = "create" /\ work' = Tail(work)
      /\ UNCHANGED <<files, job, published, jobs>>
      /\ topics' = [ t \in DOMAIN topics \union {to} |->
                      IF t \in DOMAIN topics THEN topics[t] ELSE <<>> ]
  BY DEF CreateTopic, Next_write
<1>2. job # "publish"
  BY <1>1, NextWrite DEF PublisherWrite
<1> HIDE DEF to
<1>3. /\ DOMAIN topics' = DOMAIN topics \union {to}
      /\ \A t \in DOMAIN topics' : topics'[t] = IF t \in DOMAIN topics THEN topics[t] ELSE <<>>
  BY <1>1
<1>4. SameStored
  <2>1. ASSUME NEW place PROVE Stored(place)' = Stored(place)
    <3>1. CASE place = <<Fallback>>
      BY <1>1, <3>1 DEF Stored
    <3>2. CASE place # <<Fallback>> /\ place \in DOMAIN topics
      BY <1>3, <3>2 DEF Stored
    <3>3. CASE place # <<Fallback>> /\ place \notin DOMAIN topics
      BY <1>3, <3>3 DEF Stored
    <3> QED
      BY <3>1, <3>2, <3>3
  <2> QED
    BY <2>1 DEF SameStored
<1>5. Inputs' = Inputs
  BY <1>1, RunsUnchanged
<1>6. FilesInv'
  BY <1>1, <1>5, FilesUnchanged DEF IngestionInv
<1>7. TopicsInv'
  <2>1. Listed(<<>>) /\ Range(<<>>) = {}
    <3>1. <<>> \in Seq({})
      OBVIOUS
    <3>2. Range(<<>>) = {}
      BY DEF Range
    <3> QED
      BY <3>1, <3>2, IsListed
  <2>2. ASSUME NEW t \in DOMAIN topics'
        PROVE  Listed(topics'[t]) /\ \A s \in Range(topics'[t]) : Routed(t, s)'
    <3>1. CASE t \in DOMAIN topics
      <4>1. topics'[t] = topics[t]
        BY <1>3, <3>1
      <4>2. Listed(topics[t]) /\ \A s \in Range(topics[t]) : Routed(t, s)
        BY <3>1 DEF IngestionInv, TopicsInv
      <4> QED
        BY <1>5, <4>1, <4>2, RoutedStays
    <3>2. CASE t \notin DOMAIN topics
      <4>1. topics'[t] = <<>>
        BY <1>3, <3>2
      <4> QED
        BY <2>1, <4>1
    <3> QED
      BY <3>1, <3>2
  <2> QED
    BY <2>2 DEF TopicsInv
<1>8. WorkInv'
  BY <1>1, WorkShrinks
<1> QED
  BY <1>1, <1>2, <1>4, <1>6, <1>7, <1>8, OtherSteps

\* A file that a command wrote, all of it or its first lines.
LEMMA FileWritten ==
    ASSUME IngestionInv, work # <<>>, Head(work).op = "write", NEW file, NEW lines,
           files' = [files EXCEPT ![Head(work).to] = file], file.records = lines,
           FileContents(Head(work).to, lines), UNCHANGED <<topics, published>>
    PROVE  FilesInv' /\ TopicsInv' /\ SameStored
<1> DEFINE to == Head(work).to
<1>1. to \in FileNames \ {Fallback}
  BY NextWrite DEF PublisherWrite, OtherWrite
<1>2. DOMAIN files = FileNames
  BY DEF IngestionInv, FilesInv
<1> HIDE DEF to
<1>3. /\ DOMAIN files' = FileNames /\ files'[to] = file
      /\ \A f \in FileNames : f # to => files'[f] = files[f]
  BY <1>1, <1>2 DEF to
<1>4. files'[Fallback] = files[Fallback]
  BY <1>1, <1>3 DEF FileNames
<1>5. Inputs' = Inputs
  BY RunsUnchanged
<1>6. FilesInv'
  <2>1. \A f \in FileNames : FileContents(f, files'[f].records)
    BY <1>1, <1>3 DEF to, IngestionInv, FilesInv
  <2>2. \A s \in Range(files'[Fallback].records) : Routed(<<Fallback>>, s)'
    BY <1>4, <1>5, RoutedStays DEF IngestionInv, FilesInv
  <2> QED
    BY <1>3, <2>1, <2>2 DEF FilesInv
<1>7. SameStored
  BY <1>4 DEF SameStored, Stored
<1>8. TopicsInv'
  BY <1>5, TopicsUnchanged DEF IngestionInv
<1> QED
  BY <1>6, <1>7, <1>8

LEMMA WriteFileStep ==
    ASSUME IngestionInv, WriteFile
    PROVE  IngestionInv'
<1>1. /\ work # <<>> /\ Head(work).op = "write" /\ work' = Tail(work)
      /\ UNCHANGED <<topics, job, published, jobs>>
      /\ files' = [files EXCEPT ![Head(work).to] = File(Head(work).records)]
  BY DEF WriteFile, Next_write
<1>2. job # "publish" /\ FileContents(Head(work).to, Head(work).records)
  BY <1>1, NextWrite DEF PublisherWrite, OtherWrite
<1>3. File(Head(work).records).records = Head(work).records
  BY DEF File
<1>4. FilesInv' /\ TopicsInv' /\ SameStored
  BY <1>1, <1>2, <1>3, FileWritten
<1>5. WorkInv'
  BY <1>1, WorkShrinks
<1> QED
  BY <1>1, <1>2, <1>4, <1>5, OtherSteps

-----------------------------------------------------------------------------
(* What the publisher writes.                                              *)

\* A record that waits is one of the run, and goes where it belongs.
LEMMA WaitingRecord ==
    ASSUME PublishedInv, PublisherWork, job = "publish",
           NEW m \in DOMAIN work, NEW s \in Range(work[m].records)
    PROVE  /\ Routed(work[m].to, s)
           /\ Stays(IdOf(s), work[m].to) /\ Waits(IdOf(s), work[m].to)
<1> DEFINE n == Len(published)
<1>1. n \in DOMAIN published /\ Current = published[n]
  <2>1. DOMAIN published = 1 .. n /\ n \in Nat
    BY RunsFinite
  <2>2. published # <<>>
    BY DEF PublisherWork
  <2>3. published \in Seq(Range(published))
    BY DEF PublishedInv, Listed
  <2>4. n # 0
    BY <2>2, <2>3
  <2> QED
    BY <2>1, <2>4 DEF Current
<1> HIDE DEF n
<1>2. PICK r \in Range(Current.input) : route(r) = [ to |-> work[m].to, record |-> s ]
  BY DEF PublisherWork
<1>3. Current.input \in Inputs
  BY <1>1 DEF Inputs
<1>4. Routed(work[m].to, s)
  BY <1>2, <1>3 DEF Routed
<1>5. DOMAIN r = RecordFields
  BY <1>1, <1>2 DEF PublishedInv, Stamped, StampOf
<1>6. route(r).to = work[m].to /\ route(r).record = s
  BY <1>2
<1>7. work[m].to = RightPlace(r) /\ IdOf(s) = r.id
  BY <1>5, <1>6, RouteOf
<1>8. n \in RunsOf(r.id, work[m].to)
  BY <1>1, <1>2, <1>7 DEF RunsOf
<1> QED
  BY <1>4, <1>7, <1>8 DEF Stays, Waits, n

\* The records of a write, or its first ones, are put at the end of what is
\* stored where they belong.
Puts(batch) ==
    /\ Listed(batch)
    /\ \A k \in DOMAIN batch : /\ k \in DOMAIN Head(work).records
                               /\ batch[k] = Head(work).records[k]
    /\ \A p : Stored(p)' = IF p = Head(work).to THEN Stored(p) \o batch ELSE Stored(p)

Holds(batch, id) == \E k \in DOMAIN batch : IdOf(batch[k]) = id

\* Only records that wait are one more where they belong.
LEMMA Delivery ==
    ASSUME IngestionInv, job = "publish", work # <<>>, NEW batch, Puts(batch),
           NEW id, NEW place
    PROVE  LET in == place = Head(work).to /\ Holds(batch, id)
           IN  /\ Number(id, place)' = IF in THEN Number(id, place) + 1 ELSE Number(id, place)
               /\ in => Stays(id, place) /\ Waits(id, place)
<1> DEFINE to == Head(work).to
           records == Head(work).records
<1>1. /\ PublisherWork /\ 1 \in DOMAIN work /\ Head(work) = work[1] /\ Listed(records)
      /\ PublishedInv /\ FilesInv /\ TopicsInv
  BY NextWrite DEF IngestionInv
<1>2. /\ Listed(batch)
      /\ \A k \in DOMAIN batch : k \in DOMAIN records /\ batch[k] = records[k]
      /\ \A p : Stored(p)' = IF p = to THEN Stored(p) \o batch ELSE Stored(p)
  BY DEF Puts
<1>3. \A k, l \in DOMAIN records : IdOf(records[k]) = IdOf(records[l]) => k = l
  BY <1>1 DEF PublisherWork
<1>4. to = work[1].to /\ records = work[1].records
  BY <1>1
<1> HIDE DEF to, records
<1>5. ASSUME NEW k \in DOMAIN batch, IdOf(batch[k]) = id, place = to
      PROVE  Stays(id, place) /\ Waits(id, place)
  <2>1. batch[k] \in Range(work[1].records)
    BY <1>2, <1>4 DEF Range
  <2> QED
    BY <1>1, <1>4, <1>5, <2>1, WaitingRecord
<1>6. CASE place = to
  <2> DEFINE s == Stored(place)
  <2>1. Listed(s)
    BY <1>1, StoredListed
  <2>2. Number(id, place) = Count(Ids(s), id)
    BY DEF Number
  <2>3. Number(id, place)' = Count(Ids(Stored(place)'), id)
    BY DEF Number
  <2>4. Stored(place)' = s \o batch
    BY <1>2, <1>6
  <2> HIDE DEF s
  <2>5. Number(id, place)' = Count(Ids(s \o batch), id)
    BY <2>3, <2>4
  <2>6. /\ Count(Ids(s \o batch), id) = Count(Ids(s), id) + Count(Ids(batch), id)
        /\ Count(Ids(s), id) \in Nat
    BY <1>2, <2>1, CountOfIds
  <2>7. Count(Ids(batch), id) = IF Holds(batch, id) THEN 1 ELSE 0
    <3>1. \A k, l \in DOMAIN batch : IdOf(batch[k]) = IdOf(batch[l]) => k = l
      BY <1>2, <1>3
    <3> QED
      BY <1>2, <3>1, CountOnce DEF Holds
  <2>8. Number(id, place) \in Nat
    BY <2>2, <2>6
  <2>9. Number(id, place)' = IF Holds(batch, id) THEN Number(id, place) + 1
                                                 ELSE Number(id, place)
    BY <2>2, <2>5, <2>6, <2>7, <2>8
  <2>10. Holds(batch, id) => Stays(id, place) /\ Waits(id, place)
    BY <1>5, <1>6 DEF Holds
  <2> QED
    BY <1>6, <2>9, <2>10 DEF to
<1>7. CASE place # to
  <2>1. Stored(place)' = Stored(place)
    BY <1>2, <1>7
  <2>2. Number(id, place)' = Number(id, place)
    BY <2>1 DEF Number
  <2> QED
    BY <1>7, <2>2 DEF to
<1> QED
  BY <1>6, <1>7

\* Its runs bound the copies of a record, and are natural numbers.
LEMMA NumberBounds ==
    ASSUME IngestionInv, NEW id, NEW place
    PROVE  /\ Cardinality(RunsOf(id, place)) \in Nat /\ Cardinality(EndedOf(id, place)) \in Nat
           /\ Number(id, place) \in Cardinality(EndedOf(id, place)) .. Cardinality(RunsOf(id, place))
           /\ Stays(id, place) => IF Waits(id, place) THEN Number(id, place) < Cardinality(RunsOf(id, place))
                             ELSE Number(id, place) > Cardinality(EndedOf(id, place))
<1>1. Cardinality(RunsOf(id, place)) \in Nat /\ Cardinality(EndedOf(id, place)) \in Nat
  BY RunsFinite DEF IngestionInv
<1> QED
  BY <1>1 DEF IngestionInv, NumberInv

\* A whole write of the publisher.
LEMMA DeliveredAll ==
    ASSUME IngestionInv, job = "publish", work # <<>>, Puts(Head(work).records),
           work' = Tail(work), UNCHANGED <<job, jobs, published>>, FilesInv', TopicsInv'
    PROVE  IngestionInv'
<1>1. PublishedInv' /\ \A id, place : SameRuns(id, place)
  BY RunsUnchanged DEF IngestionInv
<1>2. WorkInv'
  BY WorkShrinks
<1>3. /\ PublisherWork /\ 1 \in DOMAIN work /\ Head(work) = work[1] /\ Listed(work)
  BY NextWrite DEF IngestionInv, WorkInv
<1> DEFINE records == Head(work).records
           left == Tail(work)
<1>4. /\ \A k \in DOMAIN left : k + 1 \in DOMAIN work /\ left[k] = work[k + 1] /\ k \in Nat \ {0}
      /\ \A k \in DOMAIN work : k # 1 => k - 1 \in DOMAIN left /\ left[k - 1] = work[k]
  BY <1>3, TailListed
<1>5. work' = left
  OBVIOUS
<1> HIDE DEF left
<1>6. records = work[1].records
  BY <1>3
<1>7. ASSUME NEW id, NEW place PROVE NumberInv(id, place)'
  <2> DEFINE in == place = Head(work).to /\ Holds(records, id)
  <2>1. /\ Number(id, place)' = IF in THEN Number(id, place) + 1 ELSE Number(id, place)
        /\ in => Stays(id, place) /\ Waits(id, place)
    BY Delivery
  <2> HIDE DEF records, in
  <2>2. in <=> place = work[1].to /\ \E s \in Range(work[1].records) : IdOf(s) = id
    BY <1>3, <1>6 DEF in, Holds, Range
  <2>3. Waits(id, place) => in \/ Waits(id, place)'
    <3> SUFFICES ASSUME Waits(id, place), ~in PROVE Waits(id, place)'
      OBVIOUS
    <3>1. PICK m \in DOMAIN work : /\ work[m].to = place
                                   /\ \E s \in Range(work[m].records) : IdOf(s) = id
      BY DEF Waits
    <3>2. m # 1
      BY <2>2, <3>1
    <3>3. m - 1 \in DOMAIN left /\ left[m - 1] = work[m]
      BY <1>4, <3>2
    <3> QED
      BY <1>5, <3>1, <3>3 DEF Waits
  <2>4. Waits(id, place)' => Waits(id, place) /\ ~in
    <3> SUFFICES ASSUME Waits(id, place)' PROVE Waits(id, place) /\ ~in
      OBVIOUS
    <3>1. PICK m \in DOMAIN left : /\ left[m].to = place
                                   /\ \E s \in Range(left[m].records) : IdOf(s) = id
      BY <1>5 DEF Waits
    <3>2. m + 1 \in DOMAIN work /\ left[m] = work[m + 1] /\ m + 1 # 1
      BY <1>4
    <3>3. PICK j \in DOMAIN work[m + 1].records : IdOf(work[m + 1].records[j]) = id
      BY <3>1, <3>2 DEF Range
    <3>4. Waits(id, place)
      BY <3>1, <3>2 DEF Waits
    <3>5. ~in
      <4> SUFFICES ASSUME in PROVE FALSE
        OBVIOUS
      <4>1. PICK i \in DOMAIN work[1].records : IdOf(work[1].records[i]) = id
        BY <2>2 DEF Range
      <4>2. 1 = m + 1
        BY <1>3, <3>2, <3>3, <4>1 DEF PublisherWork
      <4> QED
        BY <3>2, <4>2
    <3> QED
      BY <3>4, <3>5
  <2>5. Stays(id, place)' <=> Stays(id, place)
    BY <1>1 DEF Stays, SameRuns
  <2>6. /\ Cardinality(RunsOf(id, place)) \in Nat /\ Cardinality(EndedOf(id, place)) \in Nat
        /\ Number(id, place) \in Cardinality(EndedOf(id, place)) .. Cardinality(RunsOf(id, place))
        /\ Stays(id, place) => IF Waits(id, place) THEN Number(id, place) < Cardinality(RunsOf(id, place))
                        ELSE Number(id, place) > Cardinality(EndedOf(id, place))
    BY NumberBounds
  <2>7. RunsOf(id, place)' = RunsOf(id, place) /\ EndedOf(id, place)' = EndedOf(id, place)
    BY <1>1 DEF SameRuns
  <2> QED
    BY <2>1, <2>3, <2>4, <2>5, <2>6, <2>7 DEF NumberInv
<1> QED
  BY <1>1, <1>2, <1>7 DEF IngestionInv

\* A write of the publisher cut off by its end.
LEMMA DeliveredSome ==
    ASSUME IngestionInv, job = "publish", work # <<>>, NEW batch, Puts(batch),
           Stop, UNCHANGED <<jobs, published>>, FilesInv', TopicsInv'
    PROVE  IngestionInv'
<1>1. PublishedInv' /\ \A id, place : SameRuns(id, place)
  BY RunsUnchanged DEF IngestionInv
<1>2. WorkInv'
  <2>1. Listed(<<>>) /\ DOMAIN <<>> = {}
    <3>1. <<>> \in Seq({}) /\ DOMAIN <<>> = {}
      OBVIOUS
    <3> QED
      BY <3>1, IsListed
  <2>2. work' = <<>> /\ job' = "idle" /\ jobs' \in Nat
    BY DEF Stop, IngestionInv, WorkInv
  <2> QED
    BY <2>1, <2>2 DEF WorkInv
<1>3. ASSUME NEW id, NEW place PROVE NumberInv(id, place)'
  <2> DEFINE in == place = Head(work).to /\ Holds(batch, id)
  <2>1. /\ Number(id, place)' = IF in THEN Number(id, place) + 1 ELSE Number(id, place)
        /\ in => Stays(id, place) /\ Waits(id, place)
    BY Delivery
  <2> HIDE DEF in
  <2>2. ~Stays(id, place)'
    BY DEF Stop, Stays
  <2>3. RunsOf(id, place)' = RunsOf(id, place) /\ EndedOf(id, place)' = EndedOf(id, place)
    BY <1>1 DEF SameRuns
  <2> QED
    BY <2>1, <2>2, <2>3, NumberBounds DEF NumberInv
<1> QED
  BY <1>1, <1>2, <1>3 DEF IngestionInv

\* A batch at the end of its topic.
LEMMA TopicWritten ==
    ASSUME IngestionInv, job = "publish", work # <<>>, Head(work).op = "produce",
           Head(work).to \in DOMAIN topics, NEW batch, Listed(batch),
           \A k \in DOMAIN batch : /\ k \in DOMAIN Head(work).records
                                   /\ batch[k] = Head(work).records[k],
           topics' = [topics EXCEPT ![Head(work).to] = @ \o batch],
           UNCHANGED <<files, published>>
    PROVE  Puts(batch) /\ FilesInv' /\ TopicsInv'
<1> DEFINE to == Head(work).to
<1>1. /\ PublisherWork /\ 1 \in DOMAIN work /\ Head(work) = work[1]
      /\ to # <<Fallback>> /\ PublishedInv /\ FilesInv /\ TopicsInv
  BY NextWrite DEF PublisherWrite, IngestionInv
<1>2. Inputs' = Inputs
  BY RunsUnchanged
<1>3. FilesInv'
  BY <1>1, <1>2, FilesUnchanged
<1>4. \A k \in DOMAIN batch : Routed(to, batch[k])
  <2> SUFFICES ASSUME NEW k \in DOMAIN batch PROVE Routed(to, batch[k])
    OBVIOUS
  <2>1. batch[k] \in Range(work[1].records) /\ to = work[1].to
    BY <1>1 DEF Range
  <2> QED
    BY <1>1, <2>1, WaitingRecord
<1>5. to \in DOMAIN topics /\ topics' = [topics EXCEPT ![to] = topics[to] \o batch]
  OBVIOUS
<1> HIDE DEF to
<1>6. /\ DOMAIN topics' = DOMAIN topics
      /\ \A t \in DOMAIN topics :
             topics'[t] = IF t = to THEN topics[t] \o batch ELSE topics[t]
  BY <1>5
<1>7. TopicsInv'
  <2>1. ASSUME NEW t \in DOMAIN topics
        PROVE  Listed(topics'[t]) /\ \A s \in Range(topics'[t]) : Routed(t, s)'
    <3>1. Listed(topics[t]) /\ \A s \in Range(topics[t]) : Routed(t, s)
      BY <1>1 DEF TopicsInv
    <3>2. CASE t # to
      <4>1. topics'[t] = topics[t]
        BY <1>6, <3>2
      <4> QED
        BY <1>2, <3>1, <4>1, RoutedStays
    <3>3. CASE t = to
      <4>1. topics'[t] = topics[t] \o batch
        BY <1>6, <3>3
      <4>2. /\ Listed(topics[t] \o batch)
            /\ Range(topics[t] \o batch) = Range(topics[t]) \union Range(batch)
        BY <3>1, ConcatListed
      <4>3. \A s \in Range(batch) : Routed(t, s)
        BY <1>4, <3>3 DEF Range
      <4> QED
        BY <1>2, <3>1, <4>1, <4>2, <4>3, RoutedStays
    <3> QED
      BY <3>2, <3>3
  <2> QED
    BY <1>6, <2>1 DEF TopicsInv
<1>8. \A p : Stored(p)' = IF p = to THEN Stored(p) \o batch ELSE Stored(p)
  <2>1. ASSUME NEW p PROVE Stored(p)' = IF p = to THEN Stored(p) \o batch ELSE Stored(p)
    <3>1. CASE p = <<Fallback>>
      BY <1>1, <3>1 DEF Stored
    <3>2. CASE p # <<Fallback>> /\ p \in DOMAIN topics
      <4>1. Stored(p) = topics[p] /\ Stored(p)' = topics'[p]
        BY <1>6, <3>2 DEF Stored
      <4> QED
        BY <1>6, <3>2, <4>1
    <3>3. CASE p # <<Fallback>> /\ p \notin DOMAIN topics
      BY <1>5, <1>6, <3>3 DEF Stored
    <3> QED
      BY <3>1, <3>2, <3>3
  <2> QED
    BY <2>1
<1> QED
  BY <1>3, <1>7, <1>8 DEF Puts, to

LEMMA ProduceStep ==
    ASSUME IngestionInv, Produce
    PROVE  IngestionInv'
<1>1. /\ work # <<>> /\ Head(work).op = "produce" /\ work' = Tail(work)
      /\ UNCHANGED <<files, job, published, jobs>> /\ Head(work).to \in DOMAIN topics
      /\ topics' = [topics EXCEPT ![Head(work).to] = @ \o Head(work).records]
  BY DEF Produce, Next_write
<1>2. job = "publish" /\ Listed(Head(work).records)
  BY <1>1, NextWrite DEF OtherWrite
<1>3. Puts(Head(work).records) /\ FilesInv' /\ TopicsInv'
  BY <1>1, <1>2, TopicWritten
<1> QED
  BY <1>1, <1>2, <1>3, DeliveredAll

\* Rejected records of tenants nobody knows are put in the fallback file.
LEMMA AppendFallbackStep ==
    ASSUME IngestionInv, AppendFallback
    PROVE  IngestionInv'
<1> DEFINE batch == Head(work).records
<1>1. /\ work # <<>> /\ Head(work).op = "append" /\ work' = Tail(work)
      /\ UNCHANGED <<topics, job, published, jobs>>
      /\ files' = [files EXCEPT ![Fallback] = File(files[Fallback].records \o batch)]
  BY DEF AppendFallback, Next_write
<1>2. job = "publish" /\ Listed(batch)
  BY <1>1, NextWrite DEF OtherWrite
<1>3. /\ PublisherWork /\ 1 \in DOMAIN work /\ Head(work) = work[1]
      /\ Head(work).to = <<Fallback>> /\ PublishedInv /\ FilesInv /\ TopicsInv
  BY <1>1, <1>2, NextWrite DEF PublisherWrite, IngestionInv
<1>4. Inputs' = Inputs
  BY <1>1, RunsUnchanged
<1>5. TopicsInv'
  BY <1>1, <1>3, <1>4, TopicsUnchanged
<1>6. \A s \in Range(batch) : Routed(<<Fallback>>, s)
  BY <1>2, <1>3, WaitingRecord
<1> HIDE DEF batch
<1> DEFINE old == files[Fallback].records
           new == old \o batch
<1>7. Fallback \in FileNames /\ DOMAIN files = FileNames /\ Listed(old)
  BY <1>3 DEF FilesInv, FileContents, FileNames
<1>8. /\ DOMAIN files' = FileNames /\ files'[Fallback].records = new
      /\ \A f \in FileNames : f # Fallback => files'[f] = files[f]
  BY <1>1, <1>7 DEF File
<1>9. Listed(new) /\ Range(new) = Range(old) \union Range(batch)
  BY <1>2, <1>7, ConcatListed
<1> HIDE DEF new
<1>10. FilesInv'
  <2>1. FileContents(Fallback, new)
    BY <1>9 DEF FileContents, FileLine, Fallback
  <2>2. \A f \in FileNames : FileContents(f, files'[f].records)
    BY <1>3, <1>8, <2>1 DEF FilesInv
  <2>3. \A s \in Range(new) : Routed(<<Fallback>>, s)
    BY <1>3, <1>6, <1>9 DEF FilesInv
  <2>4. \A s \in Range(new) : Routed(<<Fallback>>, s)'
    BY <1>4, <2>3, RoutedStays
  <2> QED
    BY <1>8, <2>2, <2>4 DEF FilesInv
<1>11. \A p : Stored(p)' = IF p = <<Fallback>> THEN Stored(p) \o batch ELSE Stored(p)
  <2>1. ASSUME NEW p
        PROVE  Stored(p)' = IF p = <<Fallback>> THEN Stored(p) \o batch ELSE Stored(p)
    <3>1. CASE p = <<Fallback>>
      BY <1>8, <3>1 DEF Stored, new
    <3>2. CASE p # <<Fallback>>
      BY <1>1, <3>2 DEF Stored
    <3> QED
      BY <3>1, <3>2
  <2> QED
    BY <2>1
<1>12. Puts(batch)
  BY <1>2, <1>3, <1>11 DEF Puts, batch
<1> QED
  BY <1>1, <1>2, <1>5, <1>10, <1>12, DeliveredAll DEF batch

\* A command that stops leaves nothing to write.
LEMMA StoppedWork ==
    ASSUME Stop, IngestionInv, UNCHANGED jobs
    PROVE  WorkInv'
<1>1. Listed(<<>>) /\ DOMAIN <<>> = {}
  <2>1. <<>> \in Seq({}) /\ DOMAIN <<>> = {}
    OBVIOUS
  <2> QED
    BY <2>1, IsListed
<1>2. work' = <<>> /\ job' = "idle" /\ jobs' \in Nat
  BY DEF Stop, IngestionInv, WorkInv
<1> QED
  BY <1>1, <1>2 DEF WorkInv

\* A command refused or killed between two writes.
LEMMA StopStep ==
    ASSUME IngestionInv, Stop, UNCHANGED <<files, topics, published, jobs>>
    PROVE  IngestionInv'
<1>1. FilesInv' /\ TopicsInv' /\ SameStored
  BY RunsUnchanged, FilesUnchanged, TopicsUnchanged, StoredUnchanged DEF IngestionInv
<1>2. WorkInv' /\ job' # "publish"
  BY StoppedWork DEF Stop
<1> QED
  BY <1>1, <1>2, OtherSteps

LEMMA BreakStep ==
    ASSUME IngestionInv, Break
    PROVE  IngestionInv'
<1> DEFINE w == Head(work)
           part(n) == SubSeq(w.records, 1, n)
<1>1. Stop /\ UNCHANGED <<published, jobs>> /\ work # <<>>
  BY DEF Break
<1>2. WorkInv' /\ job' # "publish"
  BY <1>1, StoppedWork DEF Stop
<1>3. PICK n \in 0 .. Len(w.records) - 1 :
          \/ /\ w.op = "write"
             /\ \E torn \in BOOLEAN :
                   files' = [files EXCEPT ![w.to] =
                     [ exists |-> TRUE, records |-> part(n), torn |-> torn ]]
             /\ UNCHANGED topics
          \/ /\ w.op = "produce" /\ w.to \in DOMAIN topics /\ n > 0
             /\ topics' = [topics EXCEPT ![w.to] = @ \o part(n)]
             /\ UNCHANGED files
  BY DEF Break
<1>4. Listed(w.records) /\ n \in 0 .. Len(w.records)
  <2>1. Listed(w.records)
    BY <1>1, NextWrite
  <2>2. Len(w.records) \in Nat
    <3>1. w.records \in Seq(Range(w.records))
      BY <2>1 DEF Listed
    <3> DEFINE R == Range(w.records)
               x == w.records
    <3> HIDE DEF R, x
    <3>2. x \in Seq(R)
      BY <3>1 DEF R, x
    <3> QED
      BY <3>2 DEF x
  <2> QED
    BY <2>1, <2>2
<1>5. /\ Listed(part(n)) /\ Range(part(n)) \subseteq Range(w.records)
      /\ DOMAIN part(n) \subseteq DOMAIN w.records
      /\ \A k \in DOMAIN part(n) : part(n)[k] = w.records[k]
  BY <1>4, PrefixListed
<1> HIDE DEF part
<1>6. CASE /\ w.op = "write" /\ UNCHANGED topics
           /\ \E torn \in BOOLEAN :
                 files' = [files EXCEPT ![w.to] =
                   [ exists |-> TRUE, records |-> part(n), torn |-> torn ]]
  <2>1. PICK torn \in BOOLEAN :
            files' = [files EXCEPT ![w.to] =
              [ exists |-> TRUE, records |-> part(n), torn |-> torn ]]
    BY <1>6
  <2> DEFINE file == [ exists |-> TRUE, records |-> part(n), torn |-> torn ]
  <2>2. FileContents(w.to, w.records)
    BY <1>1, <1>6, NextWrite DEF PublisherWrite, OtherWrite
  <2>3. FileContents(w.to, part(n))
    BY <1>5, <2>2 DEF FileContents, DistinctIds
  <2>4. file.records = part(n) /\ files' = [files EXCEPT ![w.to] = file]
    BY <2>1
  <2> HIDE DEF file
  <2>5. FilesInv' /\ TopicsInv' /\ SameStored
    BY <1>1, <1>6, <2>3, <2>4, FileWritten
  <2> QED
    BY <1>1, <1>2, <2>5, OtherSteps
<1>7. CASE /\ w.op = "produce" /\ w.to \in DOMAIN topics
           /\ topics' = [topics EXCEPT ![w.to] = @ \o part(n)]
           /\ UNCHANGED files
  <2>1. job = "publish"
    BY <1>1, <1>7, NextWrite DEF OtherWrite
  <2>2. Puts(part(n)) /\ FilesInv' /\ TopicsInv'
    BY <1>1, <1>5, <1>7, <2>1, TopicWritten
  <2> QED
    BY <1>1, <2>1, <2>2, DeliveredSome
<1> QED
  BY <1>3, <1>6, <1>7

\* A run of the publisher ends when all its records are written.
LEMMA FinishStep ==
    ASSUME IngestionInv, Finish
    PROVE  IngestionInv'
<1>1. /\ job # "idle" /\ work = <<>> /\ Stop /\ UNCHANGED <<files, topics, jobs>>
      /\ published' = IF job = "publish"
                      THEN [published EXCEPT ![Len(published)].done = TRUE] ELSE published
  BY DEF Finish
<1>2. CASE job # "publish"
  BY <1>1, <1>2, StopStep
<1>3. CASE job = "publish"
  <2> DEFINE n == Len(published)
             run == [ published[n] EXCEPT !.done = TRUE ]
  <2>1. PublishedInv /\ PublisherWork /\ Listed(published)
    BY <1>3 DEF IngestionInv, WorkInv, PublishedInv
  <2>2. DOMAIN published = 1 .. n /\ n \in Nat /\ n \in DOMAIN published
    <3>1. DOMAIN published = 1 .. n /\ n \in Nat
      BY <2>1, RunsFinite
    <3>2. published \in Seq(Range(published)) /\ published # <<>>
      BY <2>1 DEF Listed, PublisherWork
    <3>3. n # 0
      BY <3>2
    <3> QED
      BY <3>1, <3>3
  <2>3. published' = [published EXCEPT ![n] = run]
    BY <1>1, <1>3
  <2>4. published[n] = [ input |-> published[n].input, mode |-> published[n].mode,
                         done |-> published[n].done ]
    BY <2>1, <2>2 DEF PublishedInv
  <2>5. /\ run.input = published[n].input /\ run.mode = published[n].mode /\ run.done = TRUE
        /\ run = [ input |-> run.input, mode |-> run.mode, done |-> run.done ]
    <3> DEFINE old == published[n]
               i == old.input
               m == old.mode
               d == old.done
               new == [ old EXCEPT !.done = TRUE ]
    <3>1. old = [ input |-> i, mode |-> m, done |-> d ]
      BY <2>4
    <3>2. run = new
      OBVIOUS
    <3> HIDE DEF i, m, d, old
    <3>3. /\ DOMAIN old = {"input", "mode", "done"} /\ old["input"] = i /\ old["mode"] = m
          /\ new = [ old EXCEPT !["done"] = TRUE ]
      BY <3>1
    <3> HIDE DEF new, run
    <3>4. /\ DOMAIN new = {"input", "mode", "done"}
          /\ new.input = i /\ new.mode = m /\ new.done = TRUE
      BY <3>3
    <3>5. new = [ f \in {"input", "mode", "done"} |-> new[f] ]
      BY <3>3
    <3>6. new = [ input |-> new.input, mode |-> new.mode, done |-> new.done ]
      BY <3>4, <3>5
    <3> QED
      BY <3>2, <3>4, <3>6 DEF i, m, old
  <2> HIDE DEF run, n
  <2>6. /\ DOMAIN published' = DOMAIN published
        /\ \A k \in DOMAIN published :
               published'[k] = IF k = n THEN run ELSE published[k]
    BY <2>2, <2>3
  <2>7. \A k \in DOMAIN published : /\ published'[k].input = published[k].input
                                    /\ published'[k].mode = published[k].mode
    BY <2>5, <2>6
  <2>8. Inputs' = Inputs
    BY <2>6, <2>7 DEF Inputs
  <2>9. Len(published') = n /\ Listed(published')
    <3>1. n \in Nat /\ published' = [ k \in 1 .. n |-> published'[k] ]
      BY <2>2, <2>3
    <3> DEFINE after == published'
    <3> HIDE DEF after
    <3>2. after = [ k \in 1 .. n |-> after[k] ]
      BY <3>1 DEF after
    <3> QED
      BY <3>1, <3>2, FunctionListed DEF after
  <2>10. PublishedInv'
    <3>1. ASSUME NEW k \in DOMAIN published
          PROVE  published'[k] = [ input |-> published'[k].input,
                                   mode |-> published'[k].mode, done |-> published'[k].done ]
      BY <2>1, <2>5, <2>6 DEF PublishedInv
    <3>2. ASSUME NEW k \in DOMAIN published
          PROVE  /\ published'[k].mode \in Modes
                 /\ Listed(published'[k].input) /\ DistinctIds(published'[k].input)
                 /\ \A r \in Range(published'[k].input) : Stamped(r, published'[k].mode)
      <4>1. /\ published[k].mode \in Modes
            /\ Listed(published[k].input) /\ DistinctIds(published[k].input)
            /\ \A r \in Range(published[k].input) : Stamped(r, published[k].mode)
        BY <2>1 DEF PublishedInv
      <4> QED
        BY <2>7, <4>1
    <3> QED
      BY <2>6, <2>9, <3>1, <3>2 DEF PublishedInv
  <2>11. FilesInv' /\ TopicsInv' /\ SameStored
    BY <1>1, <2>8, FilesUnchanged, TopicsUnchanged, StoredUnchanged DEF IngestionInv
  <2>12. WorkInv' /\ job' = "idle"
    BY <1>1, StoppedWork DEF Stop
  <2>13. ASSUME NEW id, NEW place PROVE NumberInv(id, place)'
    <3>1. Number(id, place)' = Number(id, place)
      BY <2>11, NumbersUnchanged
    <3>2. RunsOf(id, place)' = RunsOf(id, place)
      BY <2>6, <2>7 DEF RunsOf
    <3>3. EndedOf(id, place)' = EndedOf(id, place) \union (IF n \in RunsOf(id, place) THEN {n} ELSE {})
      <4>1. ASSUME NEW k
            PROVE  k \in EndedOf(id, place)' <=> k \in EndedOf(id, place) \/ (k = n /\ n \in RunsOf(id, place))
        <5>1. k \in EndedOf(id, place)' <=> k \in RunsOf(id, place) /\ published'[k].done
          BY <3>2 DEF EndedOf
        <5>2. k \in EndedOf(id, place) <=> k \in RunsOf(id, place) /\ published[k].done
          BY DEF EndedOf
        <5>3. k \in RunsOf(id, place) => k \in DOMAIN published
          BY DEF RunsOf
        <5> QED
          BY <2>5, <2>6, <5>1, <5>2, <5>3
      <4> QED
        BY <4>1
    <3>4. ~Stays(id, place)'
      BY <2>12 DEF Stays
    <3>5. IsFiniteSet(EndedOf(id, place)) /\ n \notin EndedOf(id, place)
      <4>1. ~published[n].done
        BY <2>1 DEF PublisherWork, Current, n
      <4> QED
        BY <2>1, <4>1, RunsFinite DEF EndedOf
    <3>6. /\ Cardinality(RunsOf(id, place)) \in Nat /\ Cardinality(EndedOf(id, place)) \in Nat
          /\ Number(id, place) \in Cardinality(EndedOf(id, place)) .. Cardinality(RunsOf(id, place))
          /\ Stays(id, place) => IF Waits(id, place) THEN Number(id, place) < Cardinality(RunsOf(id, place))
                          ELSE Number(id, place) > Cardinality(EndedOf(id, place))
      BY NumberBounds
    <3>7. CASE n \in RunsOf(id, place)
      <4>1. Stays(id, place) /\ ~Waits(id, place)
        BY <1>1, <1>3, <3>7 DEF Stays, Waits, n
      <4>2. Cardinality(EndedOf(id, place)') = Cardinality(EndedOf(id, place)) + 1
        <5>1. EndedOf(id, place)' = EndedOf(id, place) \union {n}
          BY <3>3, <3>7
        <5> QED
          BY <3>5, <5>1, FS_AddElement
      <4>3. Number(id, place) \in Cardinality(EndedOf(id, place)) + 1 .. Cardinality(RunsOf(id, place))
        BY <3>6, <4>1
      <4> QED
        BY <3>1, <3>2, <3>4, <4>2, <4>3 DEF NumberInv
    <3>8. CASE n \notin RunsOf(id, place)
      <4>1. EndedOf(id, place)' = EndedOf(id, place)
        BY <3>3, <3>8
      <4> QED
        BY <3>1, <3>2, <3>4, <3>6, <4>1 DEF NumberInv
    <3> QED
      BY <3>7, <3>8
  <2> QED
    BY <2>10, <2>11, <2>12, <2>13 DEF IngestionInv
<1> QED
  BY <1>2, <1>3

\* Steps of the rules' readings.
LEMMA StutterStep ==
    ASSUME IngestionInv, UNCHANGED vars
    PROVE  IngestionInv'
<1>1. UNCHANGED <<files, topics, job, work, published, jobs>>
  BY DEF vars
<1>2. FilesInv' /\ TopicsInv' /\ PublishedInv' /\ SameStored /\ \A id, place : SameRuns(id, place)
  BY <1>1, RunsUnchanged, FilesUnchanged, TopicsUnchanged, StoredUnchanged DEF IngestionInv
<1>3. WorkInv'
  <2>1. PublisherWork => PublisherWork'
    BY <1>1 DEF PublisherWork, Current
  <2> QED
    BY <1>1, <2>1 DEF IngestionInv, WorkInv
<1>4. ASSUME NEW id, NEW place PROVE NumberInv(id, place)'
  <2>1. /\ Number(id, place)' = Number(id, place)
        /\ RunsOf(id, place)' = RunsOf(id, place) /\ EndedOf(id, place)' = EndedOf(id, place)
    BY <1>2, NumbersUnchanged DEF SameRuns
  <2>2. (Stays(id, place)' <=> Stays(id, place)) /\ (Waits(id, place)' <=> Waits(id, place))
    BY <1>1, <2>1 DEF Stays, Waits
  <2> QED
    BY <2>1, <2>2, NumberBounds DEF NumberInv
<1> QED
  BY <1>2, <1>3, <1>4 DEF IngestionInv

\* Before the first command only the file by hand is there.
LEMMA IngestionStart ==
    ASSUME IngestionInit
    PROVE  IngestionInv
<1>1. /\ files = [ f \in FileNames |-> IF f = "handmade" THEN File(Handmade) ELSE NoFile ]
      /\ topics = << >> /\ job = "idle" /\ work = <<>> /\ published = <<>> /\ jobs = 0
  BY DEF IngestionInit
<1>2. Listed(<<>>) /\ DOMAIN <<>> = {} /\ Range(<<>>) = {}
  <2>1. <<>> \in Seq({}) /\ DOMAIN <<>> = {} /\ Range(<<>>) = {}
    BY DEF Range
  <2> QED
    BY <2>1, IsListed
<1>3. \A f \in FileNames : files[f].records = IF f = "handmade" THEN Handmade ELSE <<>>
  BY <1>1 DEF File, NoFile
<1>4. FilesInv
  <2>1. Listed(Handmade) /\ DistinctIds(Handmade) /\ Range(Handmade) \subseteq GivenRecords
    BY ListsAssumption, IdentityAssumption DEF Listed, GivenRecords
  <2>2. FileContents("handmade", Handmade)
    BY <2>1 DEF FileContents, FileLine
  <2>3. \A f \in FileNames : FileContents(f, <<>>)
    BY <1>2 DEF FileContents, DistinctIds
  <2>4. files[Fallback].records = <<>>
    BY <1>3 DEF FileNames, Fallback
  <2>5. \A f \in FileNames : FileContents(f, files[f].records)
    BY <1>3, <2>2, <2>3
  <2> QED
    BY <1>1, <1>2, <2>4, <2>5 DEF FilesInv
<1>5. TopicsInv
  BY <1>1, <1>2 DEF TopicsInv
<1>6. PublishedInv
  BY <1>1, <1>2 DEF PublishedInv
<1>7. WorkInv
  BY <1>1, <1>2 DEF WorkInv
<1>8. ASSUME NEW id, NEW place PROVE NumberInv(id, place)
  <2>1. RunsOf(id, place) = {} /\ EndedOf(id, place) = {}
    BY <1>1, <1>2 DEF RunsOf, EndedOf
  <2>2. Stored(place) = <<>>
    BY <1>1, <1>2, <1>3 DEF Stored, FileNames, Fallback
  <2>3. Number(id, place) = 0
    <3>1. Places(Ids(<<>>), id) = {}
      BY <1>2 DEF Places, Ids
    <3> QED
      BY <2>2, <3>1, FS_EmptySet DEF Number, Count
  <2>4. ~Stays(id, place)
    BY <1>1 DEF Stays
  <2>5. Cardinality({}) = 0
    BY FS_EmptySet
  <2>6. 0 \in 0 .. 0
    OBVIOUS
  <2> QED
    BY <2>1, <2>3, <2>4, <2>5, <2>6 DEF NumberInv
<1> QED
  BY <1>4, <1>5, <1>6, <1>7, <1>8 DEF IngestionInv

-----------------------------------------------------------------------------
(* The theorems.                                                           *)

\* Whatever is killed and however often a command is repeated, a record is in a
\* place once for each ended run of the publisher that sends it there and at most
\* once for each other, and what waits to be written is in no other place.
THEOREM IngestionIsInductive == Spec => []IngestionInv
<1>1. Init => IngestionInv
  BY IngestionStart DEF Init
<1>2. IngestionInv /\ [Next]_<<vars, readings>> => IngestionInv'
  <2> SUFFICES ASSUME IngestionInv, [Next]_<<vars, readings>>
               PROVE  IngestionInv'
    OBVIOUS
  <2>1. CASE UNCHANGED vars
    BY <2>1, StutterStep
  <2>2. CASE IngestionNext
    <3>1. CASE CreateTopics
      BY <3>1, CreateTopicsStep
    <3>2. ASSUME NEW fs \in InputFiles, Validate(fs) PROVE IngestionInv'
      BY <3>2, ValidateStep
    <3>3. ASSUME NEW seed \in Seeds, Generate(seed) PROVE IngestionInv'
      BY <3>3, GenerateStep
    <3>4. ASSUME NEW f \in {"valid", "invalid", "handmade"}, NEW mode \in Modes,
                 Publish(f, mode)
          PROVE  IngestionInv'
      BY <3>4, PublishStep
    <3>5. CASE CreateTopic
      BY <3>5, CreateTopicStep
    <3>6. CASE WriteFile
      BY <3>6, WriteFileStep
    <3>7. CASE AppendFallback
      BY <3>7, AppendFallbackStep
    <3>8. CASE Produce
      BY <3>8, ProduceStep
    <3>9. CASE ProduceRefused
      BY <3>9, StopStep DEF ProduceRefused
    <3>10. CASE Finish
      BY <3>10, FinishStep
    <3>11. CASE Kill
      BY <3>11, StopStep DEF Kill
    <3>12. CASE Break
      BY <3>12, BreakStep
    <3> QED
      BY <2>2, <3>1, <3>2, <3>3, <3>4, <3>5, <3>6, <3>7, <3>8, <3>9, <3>10, <3>11, <3>12
         DEF IngestionNext
  <2>3. [Next]_<<vars, readings>> => IngestionNext \/ UNCHANGED vars
    BY DEF Next
  <2> QED
    BY <2>1, <2>2, <2>3
<1> QED
  BY <1>1, <1>2, PTL DEF Spec

\* A record the validator accepts is never in a DLQ topic or the fallback file,
\* and one it rejects is in a raw topic only if nothing was wrong with it but the
\* fields that the publisher sets (validate_raw_events.py, publish_raw_events.py),
\* files of killed runs and files by hand included.
THEOREM ValidatorAndPublisherAgree == Spec => []VerdictsAgree
<1>1. IngestionInv => VerdictsAgree
  BY PlacedAgrees DEF IngestionInv, Placed
<1> QED
  BY <1>1, IngestionIsInductive, PTL

\* Each run of the publisher puts a record at most once, and at least once if
\* it ends, where the record belongs, and never anywhere else.
THEOREM RecordsRouted == Spec => []EveryRecordRouted
<1>1. ASSUME IngestionInv, NEW id, NEW place
      PROVE  Copies(place, id) \in
                 Cardinality({ k \in RunsOf(id, place) : published[k].done })
                     .. Cardinality(RunsOf(id, place))
  <2>1. Number(id, place) \in Cardinality(EndedOf(id, place)) .. Cardinality(RunsOf(id, place))
    BY <1>1, NumberBounds
  <2>2. Copies(place, id) = Number(id, place)
    BY CopiesCounted DEF Number
  <2> QED
    BY <2>1, <2>2 DEF EndedOf
<1>2. IngestionInv => EveryRecordRouted
  BY <1>1 DEF EveryRecordRouted
<1> QED
  BY <1>2, IngestionIsInductive, PTL

-----------------------------------------------------------------------------
(* The order of the reference jobs.                                        *)

Earlier(a, b) == \/ time_text(a) < time_text(b)
                 \/ time_text(a) = time_text(b) /\ a.id < b.id

InOrder(s) == \A i, j \in DOMAIN s : i < j => Earlier(s[i], s[j])

\* Events whose keys are integers.
Keyed(E) == \A e \in E : e.event_time \in Int /\ e.fraction \in BOOLEAN /\ e.id \in Int

\* Of such events times can be compared.
LEMMA TimesOf ==
    ASSUME NEW E, Keyed(E), NEW e \in E
    PROVE  time_text(e) \in Int /\ exact_time(e) \in Int /\ e.id \in Int
BY DEF Keyed, time_text, exact_time

\* Sorting puts events in order; those of one time and id stay as they were.
LEMMA SortedStable ==
    ASSUME NEW E, Keyed(E), NEW s \in Seq(E)
    PROVE  /\ sorted_events(s) \in Seq(E) /\ Len(sorted_events(s)) = Len(s)
           /\ Range(sorted_events(s)) = Range(s)
           /\ \A i, j \in DOMAIN sorted_events(s) :
                  i < j => ~Earlier(sorted_events(s)[j], sorted_events(s)[i])
           /\ DistinctIds(s) => InOrder(sorted_events(s))
<1> DEFINE n == Len(s)
           ahead(i) == { j \in 1 .. n : \/ Earlier(s[j], s[i])
                                        \/ j < i /\ ~Earlier(s[i], s[j]) }
           place == [ i \in 1 .. n |-> 1 + Cardinality(ahead(i)) ]
           at(m) == CHOOSE i \in 1 .. n : place[i] = m
           o == sorted_events(s)
<1>1. /\ n \in Nat /\ DOMAIN s = 1 .. n
      /\ \A i \in 1 .. n : /\ s[i] \in E
                           /\ time_text(s[i]) \in Int /\ s[i].id \in Int
  BY TimesOf
<1>2. o = [ m \in 1 .. n |-> s[at(m)] ]
  BY <1>1 DEF sorted_events, sorted, Earlier
<1>3. \A i, j \in 1 .. n : i # j => i \in ahead(j) \/ j \in ahead(i)
  BY <1>1 DEF Earlier
<1>4. \A i \in 1 .. n : i \notin ahead(i) /\ ahead(i) \subseteq 1 .. n
  BY <1>1 DEF Earlier
<1>5. \A i, j, k \in 1 .. n : i \in ahead(j) /\ j \in ahead(k) => i \in ahead(k)
  BY <1>1 DEF Earlier
<1>6. /\ \A i, j \in 1 .. n : Earlier(s[i], s[j]) => i \in ahead(j)
      /\ DistinctIds(s) => \A i, j \in 1 .. n : i \in ahead(j) => Earlier(s[i], s[j])
  <2>1. \A i, j \in 1 .. n : Earlier(s[i], s[j]) => i \in ahead(j)
    OBVIOUS
  <2>2. ASSUME DistinctIds(s), NEW i \in 1 .. n, NEW j \in 1 .. n, i \in ahead(j)
        PROVE  Earlier(s[i], s[j])
    <3>1. i # j
      BY <1>4, <2>2
    <3>2. s[i].id # s[j].id
      BY <1>1, <2>2, <3>1 DEF DistinctIds
    <3> QED
      BY <1>1, <2>2, <3>2 DEF Earlier
  <2> QED
    BY <2>1, <2>2
<1>7. IsFiniteSet(1 .. n) /\ Cardinality(1 .. n) = n
  <2>1. n \in Int /\ 1 \in Int /\ n \in Nat
    BY <1>1
  <2> HIDE DEF n
  <2> QED
    BY <2>1, FS_Interval
<1> HIDE DEF n, ahead, o
<1>8. ASSUME NEW i \in 1 .. n
      PROVE  IsFiniteSet(ahead(i)) /\ Cardinality(ahead(i)) \in 0 .. n - 1
  <2>1. /\ IsFiniteSet((1 .. n) \ {i}) /\ Cardinality((1 .. n) \ {i}) = n - 1
    BY <1>7, FS_RemoveElement
  <2>2. IsFiniteSet(ahead(i)) /\ Cardinality(ahead(i)) <= n - 1
    <3>1. ahead(i) \subseteq (1 .. n) \ {i}
      BY <1>4
    <3> QED
      BY <2>1, <3>1, FS_Subset
  <2> QED
    BY <1>1, <2>2, FS_CardinalityType
<1>9. ASSUME NEW i \in 1 .. n, NEW j \in 1 .. n, i \in ahead(j)
      PROVE  place[i] < place[j]
  <2>1. ahead(i) \subseteq ahead(j) /\ i \in ahead(j) /\ i \notin ahead(i)
    <3>1. ASSUME NEW k \in ahead(i) PROVE k \in ahead(j)
      BY <1>4, <1>5, <1>9
    <3> QED
      BY <1>4, <1>9, <3>1
  <2>2. ahead(i) # ahead(j)
    BY <2>1
  <2>3. Cardinality(ahead(i)) < Cardinality(ahead(j))
    BY <1>8, <2>1, <2>2, FS_Subset
  <2> QED
    BY <1>1, <1>8, <2>3
<1>10. place \in Bijection(1 .. n, 1 .. n)
  <2>1. place \in [1 .. n -> 1 .. n]
    <3>1. \A i \in 1 .. n : 1 + Cardinality(ahead(i)) \in 1 .. n
      BY <1>1, <1>8
    <3> QED
      BY <3>1
  <2>2. \A i, j \in 1 .. n : place[i] = place[j] => i = j
    <3> HIDE DEF place
    <3>1. \A i \in 1 .. n : place[i] \in Int
      BY <2>1
    <3> QED
      BY <1>3, <1>9, <3>1
  <2> HIDE DEF place
  <2>3. place \in Injection(1 .. n, 1 .. n)
    BY <2>1, <2>2 DEF Injection, IsInjective
  <2>4. place \in Surjection(1 .. n, 1 .. n)
    BY <1>7, <2>3, FS_Injection
  <2> QED
    BY <2>3, <2>4 DEF Bijection
<1> HIDE DEF place
<1>11. \A m \in 1 .. n : at(m) \in 1 .. n /\ place[at(m)] = m
  BY <1>10 DEF Bijection, Surjection
<1>12. \A i \in 1 .. n : place[i] \in 1 .. n /\ at(place[i]) = i
  BY <1>10, <1>11 DEF Bijection, Injection, IsInjective
<1> HIDE DEF at
<1>13. o \in Seq(E) /\ Len(o) = n /\ DOMAIN o = 1 .. n
  BY <1>1, <1>2, <1>11
<1>14. Range(o) = Range(s)
  <2>1. \A x \in Range(o) : x \in Range(s)
    BY <1>1, <1>2, <1>11, <1>13 DEF Range
  <2>2. \A x \in Range(s) : x \in Range(o)
    <3> SUFFICES ASSUME NEW i \in 1 .. n PROVE s[i] \in Range(o)
      BY <1>1 DEF Range
    <3>1. o[place[i]] = s[i] /\ place[i] \in DOMAIN o
      BY <1>2, <1>12, <1>13
    <3> QED
      BY <3>1 DEF Range
  <2> QED
    BY <2>1, <2>2
<1>15. ASSUME NEW i \in 1 .. n, NEW j \in 1 .. n, i < j
       PROVE  /\ ~Earlier(o[j], o[i])
              /\ DistinctIds(s) => Earlier(o[i], o[j])
  <2>1. at(i) # at(j) /\ at(i) \in 1 .. n /\ at(j) \in 1 .. n
    BY <1>11, <1>15
  <2>2. at(j) \notin ahead(at(i))
    BY <1>9, <1>11, <1>15
  <2>3. at(i) \in ahead(at(j))
    BY <1>3, <2>1, <2>2
  <2> QED
    BY <1>2, <1>6, <2>1, <2>2, <2>3
<1>16. DistinctIds(s) => InOrder(o)
  BY <1>13, <1>15 DEF InOrder
<1> QED
  BY <1>13, <1>14, <1>15, <1>16 DEF o, n

\* Sorting events of different ids puts them in order.
LEMMA SortedEvents ==
    ASSUME NEW E, Keyed(E), NEW s \in Seq(E), DistinctIds(s)
    PROVE  /\ sorted_events(s) \in Seq(E) /\ Len(sorted_events(s)) = Len(s)
           /\ Range(sorted_events(s)) = Range(s)
           /\ InOrder(sorted_events(s))
BY SortedStable

\* The events in order before one of them.
LEMMA PlaceInOrder ==
    ASSUME NEW E, Keyed(E), NEW s \in Seq(E), InOrder(s), NEW k \in 1 .. Len(s)
    PROVE  Cardinality({ x \in Range(s) : Earlier(x, s[k]) }) = k - 1
<1> DEFINE before == { x \in Range(s) : Earlier(x, s[k]) }
           f == [ i \in 1 .. k - 1 |-> s[i] ]
<1>1. /\ Len(s) \in Nat /\ DOMAIN s = 1 .. Len(s)
      /\ \A i \in 1 .. Len(s) : time_text(s[i]) \in Int /\ s[i].id \in Int
  BY TimesOf
<1>2. \A i, j \in 1 .. Len(s) : Earlier(s[i], s[j]) <=> i < j
  BY <1>1 DEF InOrder, Earlier
<1>3. f \in Bijection(1 .. k - 1, before)
  <2>1. f \in [1 .. k - 1 -> before]
    BY <1>1, <1>2 DEF Range
  <2>2. \A i, j \in 1 .. k - 1 : f[i] = f[j] => i = j
    BY <1>1, <1>2 DEF Earlier
  <2>3. \A x \in before : \E i \in 1 .. k - 1 : f[i] = x
    BY <1>1, <1>2 DEF Range
  <2> QED
    BY <2>1, <2>2, <2>3 DEF Bijection, Injection, Surjection, IsInjective
<1> HIDE DEF before, f
<1>4. ExistsBijection(1 .. k - 1, before)
  BY <1>3 DEF ExistsBijection
<1>5. IsFiniteSet(1 .. k - 1) /\ Cardinality(1 .. k - 1) = k - 1
  <2> DEFINE m == k - 1
  <2>1. m \in Int /\ 1 \in Int /\ m >= 0
    BY <1>1
  <2> HIDE DEF m
  <2>2. IsFiniteSet(1 .. m) /\ Cardinality(1 .. m) = m
    BY <2>1, FS_Interval
  <2> QED
    BY <2>2 DEF m
<1> QED
  BY <1>4, <1>5, FS_Bijection DEF before

\* The same events are in order in one way.
LEMMA OneOrder ==
    ASSUME NEW E, Keyed(E), NEW s \in Seq(E), NEW t \in Seq(E),
           InOrder(s), InOrder(t), Range(s) = Range(t)
    PROVE  s = t
<1>1. /\ Len(s) \in Nat /\ DOMAIN s = 1 .. Len(s)
      /\ Len(t) \in Nat /\ DOMAIN t = 1 .. Len(t)
  OBVIOUS
<1>2. \A k \in 1 .. Len(s) : k \in 1 .. Len(t) /\ t[k] = s[k]
  <2> SUFFICES ASSUME NEW k \in 1 .. Len(s) PROVE k \in 1 .. Len(t) /\ t[k] = s[k]
    OBVIOUS
  <2>1. PICK j \in 1 .. Len(t) : t[j] = s[k]
    BY <1>1 DEF Range
  <2>2. Cardinality({ x \in Range(s) : Earlier(x, s[k]) }) = k - 1
    BY PlaceInOrder
  <2>3. Cardinality({ x \in Range(t) : Earlier(x, t[j]) }) = j - 1
    BY PlaceInOrder
  <2>4. j = k
    BY <1>1, <2>1, <2>2, <2>3
  <2> QED
    BY <2>1, <2>4
<1>3. \A k \in 1 .. Len(t) : k \in 1 .. Len(s)
  <2> SUFFICES ASSUME NEW k \in 1 .. Len(t) PROVE k \in 1 .. Len(s)
    OBVIOUS
  <2>1. PICK j \in 1 .. Len(s) : s[j] = t[k]
    BY <1>1 DEF Range
  <2>2. Cardinality({ x \in Range(s) : Earlier(x, s[j]) }) = j - 1
    BY PlaceInOrder
  <2>3. Cardinality({ x \in Range(t) : Earlier(x, t[k]) }) = k - 1
    BY PlaceInOrder
  <2> QED
    BY <1>1, <2>1, <2>2, <2>3
<1>4. Len(s) = Len(t)
  <2>1. Len(s) # 0 => Len(s) \in 1 .. Len(s) /\ Len(s) \in 1 .. Len(t)
    BY <1>1, <1>2
  <2>2. Len(t) # 0 => Len(t) \in 1 .. Len(t) /\ Len(t) \in 1 .. Len(s)
    BY <1>1, <1>3
  <2> DEFINE m == Len(s)
             n == Len(t)
  <2>3. m \in Nat /\ n \in Nat
    BY <1>1
  <2> HIDE DEF m, n
  <2>4. (m # 0 => m <= n) /\ (n # 0 => n <= m)
    BY <2>1, <2>2, <2>3 DEF m, n
  <2>5. m = n
    BY <2>3, <2>4
  <2> QED
    BY <2>5 DEF m, n
<1> QED
  BY <1>2, <1>4, SameElements

\* What is detected is a matter of the events in order.
LEMMA DetectedInOrder ==
    ASSUME NEW a, NEW b, sorted_events(a) = sorted_events(b)
    PROVE  detect_all(a) = detect_all(b)
<1>1. detect_missing_heartbeat(a) = detect_missing_heartbeat(b)
  BY DEF detect_missing_heartbeat
<1>2. detect_flatline(a) = detect_flatline(b)
  BY DEF detect_flatline
<1>3. detect_threshold_spike(a, None, None) = detect_threshold_spike(b, None, None)
  BY DEF detect_threshold_spike
<1>4. detect_rolling_zscore(a) = detect_rolling_zscore(b)
  BY DEF detect_rolling_zscore
<1>5. detect_drift_rate_of_change(a) = detect_drift_rate_of_change(b)
  BY DEF detect_drift_rate_of_change
<1> QED
  BY <1>1, <1>2, <1>3, <1>4, <1>5 DEF detect_all

\* A sequence of the same length and elements as one of distinct ids.
LEMMA RearrangedIds ==
    ASSUME NEW E, NEW s \in Seq(E), NEW t \in Seq(E), DistinctIds(s),
           Len(t) = Len(s), Range(t) = Range(s)
    PROVE  DistinctIds(t)
<1> DEFINE n == Len(s)
           R == Range(s)
<1>1. n \in Nat /\ DOMAIN s = 1 .. n /\ DOMAIN t = 1 .. n
  OBVIOUS
<1>2. s \in [1 .. n -> R] /\ t \in [1 .. n -> R]
  <2>1. \A i \in 1 .. n : s[i] \in Range(s) /\ t[i] \in Range(t)
    BY <1>1 DEF Range
  <2>2. s = [i \in 1 .. n |-> s[i]] /\ t = [i \in 1 .. n |-> t[i]]
    BY <1>1
  <2> QED
    BY <2>1, <2>2
<1>3. s \in Bijection(1 .. n, R) /\ t \in Surjection(1 .. n, R)
  <2>1. \A i, j \in 1 .. n : s[i] = s[j] => i = j
    BY <1>1 DEF DistinctIds
  <2>2. \A x \in R : /\ \E i \in 1 .. n : s[i] = x
                     /\ \E i \in 1 .. n : t[i] = x
    <3>1. \A x \in Range(s) : \E i \in 1 .. n : s[i] = x
      BY <1>1 DEF Range
    <3>2. \A x \in Range(t) : \E i \in 1 .. n : t[i] = x
      BY <1>1 DEF Range
    <3> QED
      BY <3>1, <3>2
  <2> HIDE DEF n, R
  <2> QED
    BY <1>2, <2>1, <2>2 DEF Bijection, Injection, Surjection, IsInjective
<1> HIDE DEF n, R
<1>4. IsFiniteSet(1 .. n) /\ Cardinality(1 .. n) = n
  <2>1. 1 \in Int /\ n \in Int
    BY <1>1
  <2> QED
    BY <1>1, <2>1, FS_Interval
<1>5. Cardinality(R) = Cardinality(1 .. n)
  <2>1. ExistsBijection(1 .. n, R)
    BY <1>3 DEF ExistsBijection
  <2> QED
    BY <1>4, <2>1, FS_Bijection
<1>6. t \in Injection(1 .. n, R)
  BY <1>3, <1>4, <1>5, FS_Surjection
<1> SUFFICES ASSUME NEW i \in 1 .. n, NEW j \in 1 .. n, t[i].id = t[j].id
             PROVE  i = j
  BY <1>1 DEF DistinctIds
<1>7. PICK k \in 1 .. n : s[k] = t[i]
  BY <1>2, <1>3 DEF Bijection, Surjection
<1>8. PICK l \in 1 .. n : s[l] = t[j]
  BY <1>2, <1>3 DEF Bijection, Surjection
<1>9. k = l
  BY <1>1, <1>7, <1>8 DEF DistinctIds
<1> QED
  BY <1>6, <1>7, <1>8, <1>9 DEF Injection, IsInjective

\* Events that arrive in another order are put in the same one.
LEMMA SameOrder ==
    ASSUME NEW E, Keyed(E), NEW s \in Seq(E), NEW t \in Seq(E), DistinctIds(s),
           Len(t) = Len(s), Range(t) = Range(s)
    PROVE  sorted_events(t) = sorted_events(s)
<1>1. DistinctIds(t)
  BY RearrangedIds
<1>2. /\ sorted_events(s) \in Seq(E) /\ InOrder(sorted_events(s))
      /\ Range(sorted_events(s)) = Range(s)
  BY SortedEvents
<1>3. /\ sorted_events(t) \in Seq(E) /\ InOrder(sorted_events(t))
      /\ Range(sorted_events(t)) = Range(t)
  BY <1>1, SortedEvents
<1> QED
  BY <1>2, <1>3, OneOrder

\* Events in order stay as they are.
LEMMA AlreadyInOrder ==
    ASSUME NEW E, Keyed(E), NEW s \in Seq(E), InOrder(s), DistinctIds(s)
    PROVE  sorted_events(s) = s
BY SortedEvents, OneOrder

-----------------------------------------------------------------------------
(* Totals and squares.                                                     *)

Summed(values, h, total) ==
    \E g : SumOver(h, g, 1 .. Len(values)) /\ total = g[1 .. Len(values)]

\* A total is such a sum, and so are the squares.
LEMMA TotalsAreSums ==
    ASSUME NEW values \in Seq(Int)
    PROVE  /\ Summed(values, values, Total(values))
           /\ Summed(values, [ i \in 1 .. Len(values) |-> values[i] * values[i] ],
                     Squares(values))
<1> DEFINE n == Len(values)
           D == 1 .. n
           total[s \in SUBSET D] ==
               IF s = {} THEN 0
               ELSE LET x == CHOOSE y \in s : TRUE IN values[x] + total[s \ {x}]
           squares[s \in SUBSET D] ==
               IF s = {} THEN 0
               ELSE LET x == CHOOSE y \in s : TRUE
                    IN  values[x] * values[x] + squares[s \ {x}]
           h == [ i \in D |-> values[i] * values[i] ]
<1>1. DOMAIN values = D /\ n \in Nat /\ IsFiniteSet(D)
  <2>1. n \in Nat /\ n \in Int /\ 1 \in Int
    OBVIOUS
  <2> HIDE DEF n
  <2> QED
    BY <2>1, FS_Interval DEF n
<1>2. Total(values) = total[D]
  BY <1>1, Zenon DEF Total, FoldSeq, FoldFunction, FoldFunctionOnSet, MapThenFoldSet
<1>3. Squares(values) = squares[D]
  BY <1>1, Zenon DEF Squares, FoldSeq, FoldFunction, FoldFunctionOnSet, MapThenFoldSet
<1>4. SumOver(values, total, D)
  <2>1. \E g : SumOver(values, g, D)
    BY <1>1, SumExists
  <2> QED
    BY <2>1 DEF SumOver
<1>5. SumOver(h, squares, D)
  <2>1. PICK g : SumOver(h, g, D)
    BY <1>1, SumExists
  <2>2. \A s \in SUBSET D : s # {} => (CHOOSE y \in s : TRUE) \in s
    OBVIOUS
  <2>3. \A s \in SUBSET D : s # {} =>
            h[CHOOSE y \in s : TRUE] = values[CHOOSE y \in s : TRUE] * values[CHOOSE y \in s : TRUE]
    BY <2>2
  <2> HIDE DEF h
  <2>4. g = [ s \in SUBSET D |->
               IF s = {} THEN 0
               ELSE LET x == CHOOSE y \in s : TRUE
                    IN  values[x] * values[x] + g[s \ {x}] ]
    BY <2>1, <2>3 DEF SumOver
  <2>5. squares = [ s \in SUBSET D |->
               IF s = {} THEN 0
               ELSE LET x == CHOOSE y \in s : TRUE
                    IN  values[x] * values[x] + squares[s \ {x}] ]
    BY <2>4
  <2> HIDE DEF squares
  <2> QED
    BY <2>3, <2>5 DEF SumOver
<1> HIDE DEF total, squares
<1> QED
  BY <1>2, <1>3, <1>4, <1>5 DEF Summed

\* The moments of equal values have no spread.
LEMMA EqualMoments ==
    ASSUME NEW values \in Seq(Int), NEW c \in Int,
           \A i \in 1 .. Len(values) : values[i] = c
    PROVE  LET n == Len(values)
               m == Moments(values)
           IN  m.n = n /\ m.sum = n * c /\ m.squares = n * (c * c) /\ Spread(m) = 0
<1> DEFINE n == Len(values)
           D == 1 .. n
           h == [ i \in D |-> values[i] * values[i] ]
<1>0. n \in Nat /\ n \in Int /\ 1 \in Int
  OBVIOUS
<1>1. IsFiniteSet(D) /\ Cardinality(D) = n
  <2> HIDE DEF n
  <2> QED
    BY <1>0, FS_Interval
<1>2. c * c \in Int
  OBVIOUS
<1>3. PICK f : SumOver(values, f, D) /\ Total(values) = f[D]
  BY TotalsAreSums DEF Summed
<1>4. PICK g : SumOver(h, g, D) /\ Squares(values) = g[D]
  BY TotalsAreSums DEF Summed
<1>5. Total(values) = n * c
  <2> HIDE DEF D
  <2>1. \A i \in D : values[i] = c
    BY DEF D
  <2>2. f[D] = Cardinality(D) * c
    BY <1>1, <1>3, <2>1, SumOfEqual
  <2> QED
    BY <1>1, <1>3, <2>2, Zenon
<1>6. Squares(values) = n * (c * c)
  <2>1. \A i \in D : h[i] = c * c
    OBVIOUS
  <2> HIDE DEF D, h
  <2> DEFINE e == c * c
  <2>2. e \in Int /\ \A i \in D : h[i] = e
    BY <1>2, <2>1
  <2> HIDE DEF e
  <2>3. Squares(values) = n * e
    BY <1>1, <1>4, <2>2, SumOfEqual
  <2> QED
    BY <2>3 DEF e
<1>7. \A k, d \in Int : k * (k * (d * d)) - (k * d) * (k * d) = 0
  OBVIOUS
<1>8. Moments(values) = [ n |-> n, sum |-> n * c, squares |-> n * (c * c) ]
  BY <1>5, <1>6 DEF Moments
<1>9. n * (n * (c * c)) - (n * c) * (n * c) = 0
  <2> HIDE DEF n
  <2> QED
    BY <1>0, <1>7
<1> HIDE DEF n
<1> QED
  BY <1>8, <1>9 DEF Spread, n

\* Six values without a spread are equal.
LEMMA SixMoments ==
    ASSUME NEW values \in Seq(Int), Len(values) = 6, Spread(Moments(values)) = 0
    PROVE  \A i \in 1 .. 6 : values[i] = values[1]
<1> DEFINE a == values[1]
           b == values[2]
           c == values[3]
           d == values[4]
           e == values[5]
           f == values[6]
           h == [ i \in 1 .. 6 |-> values[i] * values[i] ]
<1>0. \A i \in 1 .. 6 : values[i] \in Int
  <2>1. \A i \in 1 .. Len(values) : values[i] \in Int
    BY ElementsIn
  <2> QED
    BY <2>1
<1>1. a \in Int /\ b \in Int /\ c \in Int /\ d \in Int /\ e \in Int /\ f \in Int
  BY <1>0
<1>2. Total(values) = a + b + c + d + e + f
  <2>1. PICK g : SumOver(values, g, 1 .. 6) /\ Total(values) = g[1 .. 6]
    BY TotalsAreSums DEF Summed
  <2>2. \A i \in 1 .. 6 : values[i] \in Int
    BY <1>0
  <2> QED
    BY <2>1, <2>2, SumOfSix
<1>3. Squares(values) = a * a + b * b + c * c + d * d + e * e + f * f
  <2>1. PICK g : SumOver(h, g, 1 .. 6) /\ Squares(values) = g[1 .. 6]
    BY TotalsAreSums DEF Summed
  <2>2. \A i \in 1 .. 6 : h[i] = values[i] * values[i] /\ h[i] \in Int
    <3>1. \A x \in Int : x * x \in Int
      OBVIOUS
    <3> QED
      BY <1>0, <3>1
  <2> HIDE DEF h
  <2>3. Squares(values) = h[1] + h[2] + h[3] + h[4] + h[5] + h[6]
    BY <2>1, <2>2, SumOfSix
  <2> QED
    BY <2>2, <2>3
<1>4. 6 * (a * a + b * b + c * c + d * d + e * e + f * f)
        - (a + b + c + d + e + f) * (a + b + c + d + e + f) = 0
  BY <1>2, <1>3 DEF Moments, Spread
<1> HIDE DEF a, b, c, d, e, f
<1>5. \A x \in Int : x * x \in Nat /\ (x * x = 0 => x = 0)
  OBVIOUS
<1>6. 6 * (a * a + b * b + c * c + d * d + e * e + f * f)
        - (a + b + c + d + e + f) * (a + b + c + d + e + f)
      = (a - b) * (a - b) + (a - c) * (a - c) + (a - d) * (a - d)
          + (a - e) * (a - e) + (a - f) * (a - f)
          + (b - c) * (b - c) + (b - d) * (b - d) + (b - e) * (b - e) + (b - f) * (b - f)
          + (c - d) * (c - d) + (c - e) * (c - e) + (c - f) * (c - f)
          + (d - e) * (d - e) + (d - f) * (d - f) + (e - f) * (e - f)
  BY <1>1
<1> DEFINE square(x) == x * x
           row_b == square(b - c) + square(b - d) + square(b - e) + square(b - f)
           row_c == square(c - d) + square(c - e) + square(c - f)
           row_d == square(d - e) + square(d - f) + square(e - f)
           others == row_b + row_c + row_d
<1>7. others \in Int /\ others >= 0
  <2>1. row_b \in Nat
    <3>1. /\ square(b - c) \in Nat /\ square(b - d) \in Nat
          /\ square(b - e) \in Nat /\ square(b - f) \in Nat
      BY <1>1, <1>5
    <3> HIDE DEF square
    <3> QED
      BY <3>1
  <2>2. row_c \in Nat
    <3>1. square(c - d) \in Nat /\ square(c - e) \in Nat /\ square(c - f) \in Nat
      BY <1>1, <1>5
    <3> HIDE DEF square
    <3> QED
      BY <3>1
  <2>3. row_d \in Nat
    <3>1. square(d - e) \in Nat /\ square(d - f) \in Nat /\ square(e - f) \in Nat
      BY <1>1, <1>5
    <3> HIDE DEF square
    <3> QED
      BY <3>1
  <2> HIDE DEF row_b, row_c, row_d
  <2> QED
    BY <2>1, <2>2, <2>3
<1>8. /\ square(a - b) \in Nat /\ square(a - c) \in Nat /\ square(a - d) \in Nat
      /\ square(a - e) \in Nat /\ square(a - f) \in Nat
  BY <1>1, <1>5
<1>9. square(a - b) + square(a - c) + square(a - d) + square(a - e) + square(a - f)
        + others = 0
  BY <1>1, <1>4, <1>6
<1> HIDE DEF others
<1>10. /\ square(a - b) = 0 /\ square(a - c) = 0 /\ square(a - d) = 0
       /\ square(a - e) = 0 /\ square(a - f) = 0
  <2> HIDE DEF square
  <2> QED
    BY <1>7, <1>8, <1>9
<1>11. b = a /\ c = a /\ d = a /\ e = a /\ f = a
  <2>1. a - b = 0 /\ a - c = 0 /\ a - d = 0 /\ a - e = 0 /\ a - f = 0
    BY <1>1, <1>5, <1>10
  <2> QED
    BY <1>1, <2>1
<1> QED
  <2>1. \A i \in 1 .. 6 : i \in {1, 2, 3, 4, 5, 6}
    OBVIOUS
  <2> QED
    BY <1>11, <2>1 DEF a, b, c, d, e, f

-----------------------------------------------------------------------------
(* The rules.                                                              *)

\* Moments are numbers.
LEMMA MomentsType ==
    ASSUME NEW values \in Seq(Int)
    PROVE  /\ Moments(values) \in [ n: Int, sum: Int, squares: Int ]
           /\ Moments(values) # None
           /\ Moments(values).n = Len(values) /\ Moments(values).sum \in Int
<1> DEFINE D == 1 .. Len(values)
           h == [ i \in D |-> values[i] * values[i] ]
<1>1. Len(values) \in Int /\ \A i \in D : values[i] \in Int
  OBVIOUS
<1>2. \A x \in Int : x * x \in Int
  OBVIOUS
<1>3. \A i \in D : h[i] \in Int
  BY <1>1, <1>2
<1>4. IsFiniteSet(D)
  <2>1. 1 \in Int
    OBVIOUS
  <2> QED
    BY <1>1, <2>1, FS_Interval
<1>5. PICK f : SumOver(values, f, D) /\ Total(values) = f[D]
  BY TotalsAreSums DEF Summed
<1>6. PICK g : SumOver(h, g, D) /\ Squares(values) = g[D]
  BY TotalsAreSums DEF Summed
<1> HIDE DEF D, h
<1>7. Total(values) \in Int /\ Squares(values) \in Int
  BY <1>1, <1>3, <1>4, <1>5, <1>6, SumTakes
<1> QED
  BY <1>1, <1>7, NoneAssumption DEF Moments

\* The readings of a tag.
Reading == [ id: Int, tag: {"tag"}, value: Int, event_time: Int, fraction: BOOLEAN,
             quality_flags: SUBSET sensor_flags ]

ReadingsInv ==
    /\ readings \in Seq(Reading) /\ Len(readings) <= MaxReadings
    /\ \A i \in DOMAIN readings : readings[i].id = MaxReadings + 1 - i

\* Readings have keys.
LEMMA ReadingsKeyed == Keyed(Reading)
BY DEF Keyed, Reading

\* The readings in order, which sorting again leaves alone.
LEMMA ReadingsInOrder ==
    ASSUME ReadingsInv
    PROVE  LET s == sorted_events(readings)
           IN  /\ DistinctIds(readings)
               /\ s \in Seq(Reading) /\ Len(s) = Len(readings) /\ Range(s) = Range(readings)
               /\ InOrder(s) /\ DistinctIds(s) /\ sorted_events(s) = s
<1> DEFINE s == sorted_events(readings)
<1>1. readings \in Seq(Reading) /\ DistinctIds(readings)
  BY ArrivalsAssumption DEF ReadingsInv, DistinctIds
<1>2. /\ s \in Seq(Reading) /\ Len(s) = Len(readings)
      /\ Range(s) = Range(readings) /\ InOrder(s)
  BY <1>1, ReadingsKeyed, SortedEvents
<1> HIDE DEF s
<1>3. DistinctIds(s)
  BY <1>1, <1>2, RearrangedIds
<1>4. sorted_events(s) = s
  BY <1>2, <1>3, ReadingsKeyed, AlreadyInOrder
<1> QED
  BY <1>1, <1>2, <1>3, <1>4 DEF s

\* Values of readings.
LEMMA ValuesOf ==
    ASSUME NEW s \in Seq(Reading)
    PROVE  /\ Values(s) \in Seq(Int) /\ Len(Values(s)) = Len(s)
           /\ \A i \in 1 .. Len(s) : Values(s)[i] = s[i].value
<1>1. /\ DOMAIN s = 1 .. Len(s) /\ Len(s) \in Nat
      /\ \A i \in 1 .. Len(s) : s[i].value \in Int
  <2>1. \A i \in 1 .. Len(s) : s[i] \in Reading
    BY ElementsIn
  <2> QED
    BY <2>1 DEF Reading
<1>2. Values(s) = [ i \in 1 .. Len(s) |-> s[i].value ]
  BY <1>1 DEF Values
<1> QED
  BY <1>1, <1>2

\* What a window has of its readings.
LEMMA WindowFields ==
    ASSUME NEW s \in Seq(Reading), s # <<>>, NEW method, NEW form \in Forms
    PROVE  LET w == WindowOf(s, method, form)
               n == Len(s)
               before == IF n = 1 THEN None ELSE Moments(Front(Values(s)))
           IN  /\ w.method = method /\ w.event_count = n
               /\ w.observed_value = s[n].value
               /\ w.rolling_baseline = IF form.rolling THEN before ELSE None
               /\ w.baseline_value = IF form.rolling THEN None ELSE before
               /\ w.window_moments = Moments(Values(s))
               /\ w.prev_window_value = s[1].value
               /\ w.gap_minutes = IF n = 1 THEN None
                                  ELSE exact_time(s[n]) - exact_time(s[n - 1])
               /\ w.profile_critical_max = None /\ w.profile_critical_min = None
<1>1. Values(s)[Len(s)] = s[Len(s)].value /\ Values(s)[1] = s[1].value
  <2>1. Len(s) \in 1 .. Len(s) /\ 1 \in 1 .. Len(s)
    OBVIOUS
  <2> QED
    BY <2>1, ValuesOf
<1> QED
  BY <1>1 DEF WindowOf

\* What a window tells of an anomaly.
Told(a, s, form) ==
    IF form.nested
    THEN [ a EXCEPT !.fault_type = resolve_fault_type(s[1].quality_flags) ]
    ELSE a

\* An anomaly of a window is what it tells of the one of its readings.
LEMMA WindowAnomaly ==
    ASSUME NEW s \in Seq(Reading), s # <<>>, NEW form \in Forms,
           NEW method, NEW rule, NEW severity
    PROVE  base_window_anomaly(rule, WindowOf(s, method, form), severity)
             = Told(base_anomaly(rule, s, severity), s, form)
<1> DEFINE w == WindowOf(s, method, form)
           all == UNION { e.quality_flags : e \in Range(s) }
           flags == IF form.nested THEN s[1].quality_flags ELSE all
<1>1. /\ w.quality_flags = IF form.nested
                           THEN [ i \in DOMAIN s |-> s[i].quality_flags ] ELSE << all >>
      /\ w.tag = s[1].tag /\ w.window_start = time_text(s[1])
      /\ w.window_end = time_text(s[Len(s)])
  BY DEF WindowOf
<1>2. w.quality_flags # <<>> /\ Head(w.quality_flags) = flags
  <2>1. CASE form.nested
    <3> DEFINE q == [ i \in 1 .. Len(s) |-> s[i].quality_flags ]
    <3>1. Len(s) \in Nat /\ Len(s) >= 1 /\ DOMAIN s = 1 .. Len(s)
      OBVIOUS
    <3>2. \A i \in 1 .. Len(s) : s[i].quality_flags \in SUBSET sensor_flags
      <4>1. \A i \in 1 .. Len(s) : s[i] \in Reading
        BY ElementsIn
      <4> QED
        BY <4>1 DEF Reading
    <3>3. w.quality_flags = q
      BY <1>1, <2>1, <3>1
    <3>4. q \in Seq(SUBSET sensor_flags) /\ Len(q) = Len(s) /\ q[1] = s[1].quality_flags
      <4> HIDE DEF w
      <4>1. q \in Seq(SUBSET sensor_flags)
        BY <3>1, <3>2
      <4>2. DOMAIN q = 1 .. Len(s)
        OBVIOUS
      <4> QED
        BY <3>1, <4>1, <4>2
    <3> HIDE DEF q
    <3>5. q # <<>> /\ Head(q) = q[1]
      BY <3>1, <3>4
    <3> QED
      BY <2>1, <3>3, <3>4, <3>5
  <2>2. CASE ~form.nested
    <3>1. w.quality_flags = << all >>
      BY <1>1, <2>2
    <3> HIDE DEF all, w
    <3> QED
      BY <2>2, <3>1
  <2>3. form.nested \in BOOLEAN
    BY DEF Forms
  <2> QED
    BY <2>1, <2>2, <2>3
<1>3. base_window_anomaly(rule, w, severity)
        = [ rule |-> rule, tag |-> s[1].tag, window_start |-> time_text(s[1]),
            window_end |-> time_text(s[Len(s)]), severity |-> severity,
            fault_type |-> resolve_fault_type(flags) ]
  <2> HIDE DEF w, flags
  <2> QED
    BY <1>1, <1>2 DEF base_window_anomaly
<1>4. base_anomaly(rule, s, severity)
        = [ rule |-> rule, tag |-> s[1].tag, window_start |-> time_text(s[1]),
            window_end |-> time_text(s[Len(s)]), severity |-> severity,
            fault_type |-> resolve_fault_type(all) ]
  BY DEF base_anomaly
<1> HIDE DEF w, all
<1> QED
  BY <1>3, <1>4 DEF Told, w

\* What is told of no anomaly, or of one.
LEMMA ToldOf ==
    ASSUME NEW s, NEW form, NEW a, NEW condition \in BOOLEAN
    PROVE  AsTold(IF condition THEN <<a>> ELSE <<>>, s, form)
             = IF condition THEN << Told(a, s, form) >> ELSE <<>>
<1>1. CASE condition
  <2>1. DOMAIN <<a>> = {1} /\ <<a>>[1] = a
    OBVIOUS
  <2> DEFINE b == [ a EXCEPT !.fault_type = resolve_fault_type(s[1].quality_flags) ]
             told == [ k \in {1} |->
                         [ <<a>>[k] EXCEPT !.fault_type =
                             resolve_fault_type(s[1].quality_flags) ] ]
  <2>2. told = << b >>
    <3>1. told = [ k \in {1} |-> b ]
      BY <2>1
    <3> HIDE DEF told, b
    <3>2. [ k \in {1} |-> b ] \in Seq({b}) /\ Len([ k \in {1} |-> b ]) = 1
      <4> DEFINE q == [ k \in 1 .. 1 |-> b ]
      <4>1. q \in Seq({b}) /\ Len(q) = 1
        OBVIOUS
      <4>2. {1} = 1 .. 1
        OBVIOUS
      <4> QED
        BY <4>1, <4>2
    <3>3. <<b>> \in Seq({b}) /\ Len(<<b>>) = 1
      OBVIOUS
    <3> QED
      BY <3>1, <3>2, <3>3
  <2> QED
    BY <1>1, <2>1, <2>2 DEF AsTold, Told
<1>2. CASE ~condition
  <2>1. DOMAIN <<>> = {}
    OBVIOUS
  <2>2. [ k \in DOMAIN <<>> |->
             [ <<>>[k] EXCEPT !.fault_type = resolve_fault_type(s[1].quality_flags) ] ] = <<>>
    BY <2>1
  <2> QED
    BY <1>2, <2>2 DEF AsTold
<1> QED
  BY <1>1, <1>2

\* What a rule finds in the window of readings in order.
LEMMA SpikeWindow ==
    ASSUME NEW s \in Seq(Reading), Len(s) >= 2, sorted_events(s) = s, NEW form \in Forms
    PROVE  detect_all_from_window(WindowOf(s, "static_threshold", form))
             = AsTold(detect_threshold_spike(s, None, None), s, form)
<1> DEFINE w == WindowOf(s, "static_threshold", form)
           m == Moments(Front(Values(s)))
           v == s[Len(s)].value
           a == base_anomaly("threshold_spike", s, "critical")
<1>1. s # <<>> /\ form.rolling \in BOOLEAN /\ Len(s) # 1
  <2>1. s # <<>>
    OBVIOUS
  <2>2. Len(s) \in Nat /\ Len(s) >= 2
    OBVIOUS
  <2>3. form.rolling \in BOOLEAN
    BY DEF Forms
  <2>4. Len(s) # 1
    BY <2>2
  <2> QED
    BY <2>1, <2>3, <2>4, Zenon
<1>2. /\ w.method = "static_threshold" /\ w.observed_value = v
      /\ w.rolling_baseline = IF form.rolling THEN m ELSE None
      /\ w.baseline_value = IF form.rolling THEN None ELSE m
      /\ w.profile_critical_max = None /\ w.profile_critical_min = None
  BY <1>1, WindowFields
<1>3. base_window_anomaly("threshold_spike", w, "critical") = Told(a, s, form)
  BY <1>1, WindowAnomaly
<1>4. /\ Values(s) \in Seq(Int) /\ Len(Values(s)) = Len(s) /\ Values(s) # <<>>
      /\ Values(s)[Len(s)] = v
  <2>1. Len(s) \in 1 .. Len(s)
    OBVIOUS
  <2>2. Values(s) \in Seq(Int) /\ Len(Values(s)) = Len(s)
    BY ValuesOf
  <2>3. Values(s) # <<>>
    <3> DEFINE u == Values(s)
    <3>1. u \in Seq(Int) /\ Len(u) = Len(s)
      BY <2>2
    <3> HIDE DEF u
    <3>2. u # <<>>
      BY <3>1
    <3> QED
      BY <3>2 DEF u
  <2> QED
    BY <2>1, <2>2, <2>3, ValuesOf
<1>5. /\ Front(Values(s)) \in Seq(Int) /\ Last(Values(s)) = v
      /\ Len(Front(Values(s))) = Len(s) - 1 /\ v \in Int
  <2> DEFINE u == Values(s)
  <2>1. u \in Seq(Int) /\ u # <<>> /\ Len(u) = Len(s) /\ u[Len(u)] = v
    BY <1>4
  <2> HIDE DEF u
  <2>2. /\ Front(u) \in Seq(Int) /\ Last(u) = u[Len(u)] /\ Last(u) \in Int
        /\ Len(Front(u)) = Len(u) - 1
    BY <2>1, FrontOf
  <2> QED
    BY <2>1, <2>2 DEF u
<1>6. m # None /\ m.sum \in Int /\ m.n \in Nat /\ m.n >= 1
  <2>1. m # None /\ m.n = Len(s) - 1 /\ m.sum \in Int
    BY <1>5, MomentsType
  <2>2. Len(s) - 1 \in Nat /\ Len(s) - 1 >= 1
    OBVIOUS
  <2> QED
    BY <2>1, <2>2
<1> HIDE DEF w, m, v, a
<1>7. Spikes(v, spike_baseline(w), None, None) <=> Spikes(v, m, None, None)
  <2>1. CASE spike_baseline(w) = m
    BY <2>1
  <2>2. CASE spike_baseline(w) # m
    <3>1. m.sum = 0 /\ spike_baseline(w) = No_baseline
      BY <1>1, <1>2, <1>6, <2>2 DEF spike_baseline
    <3>2. Spikes(v, No_baseline, None, None) <=> v >= 0
      BY <1>5 DEF Spikes, No_baseline
    <3>3. Spikes(v, m, None, None) <=> v >= 0
      <4>1. Spikes(v, m, None, None) <=> 2 * m.n * v >= 5 * 0
        BY <3>1 DEF Spikes
      <4> DEFINE k == m.n
      <4>2. k \in Nat /\ k >= 1
        BY <1>6
      <4> HIDE DEF k
      <4>3. 2 * k * v >= 5 * 0 <=> v >= 0
        <5>1. k * v \in Int /\ 2 * k * v = 2 * (k * v)
          BY <1>5, <4>2
        <5>2. k * v >= 0 <=> v >= 0
          BY <1>5, <4>2
        <5> QED
          BY <5>1, <5>2
      <4> QED
        BY <4>1, <4>3 DEF k
    <3> QED
      BY <3>1, <3>2, <3>3
  <2> QED
    BY <2>1, <2>2
<1>8. detect_all_from_window(w) = detect_threshold_spike_from_window(w)
  BY <1>2 DEF detect_all_from_window
<1>9. detect_threshold_spike_from_window(w)
        = IF Spikes(v, m, None, None) THEN << Told(a, s, form) >> ELSE <<>>
  BY <1>2, <1>3, <1>7 DEF detect_threshold_spike_from_window
<1>10. detect_threshold_spike(s, None, None)
        = IF Spikes(v, m, None, None) THEN << a >> ELSE <<>>
  BY <1>5 DEF detect_threshold_spike, m, a
<1>11. Spikes(v, m, None, None) \in BOOLEAN
  BY DEF Spikes
<1>12. AsTold(detect_threshold_spike(s, None, None), s, form)
         = IF Spikes(v, m, None, None) THEN << Told(a, s, form) >> ELSE <<>>
  BY <1>10, <1>11, ToldOf
<1> QED
  BY <1>8, <1>9, <1>12 DEF w

\* Without a baseline, a reading of zero or more is a spike.
LEMMA SpikeWindowOfOne ==
    ASSUME NEW s \in Seq(Reading), Len(s) = 1, NEW form \in Forms
    PROVE  (detect_all_from_window(WindowOf(s, "static_threshold", form)) # <<>>)
             = (s[1].value >= 0)
<1> DEFINE w == WindowOf(s, "static_threshold", form)
           v == s[1].value
<1>1. s # <<>> /\ s[1] \in Reading
  OBVIOUS
<1>2. /\ w.method = "static_threshold" /\ w.observed_value = v
      /\ w.rolling_baseline = None /\ w.baseline_value = None
      /\ w.profile_critical_max = None /\ w.profile_critical_min = None
  BY <1>1, WindowFields
<1>3. v \in Int
  BY <1>1 DEF Reading
<1> HIDE DEF w, v
<1>4. detect_all_from_window(w)
        = IF Spikes(v, No_baseline, None, None)
          THEN << base_window_anomaly("threshold_spike", w, "critical") >> ELSE <<>>
  BY <1>2 DEF detect_all_from_window, detect_threshold_spike_from_window, spike_baseline
<1>5. Spikes(v, No_baseline, None, None) <=> v >= 0
  BY <1>3 DEF Spikes, No_baseline
<1> QED
  BY <1>4, <1>5 DEF w, v

\* The z-score asks for four readings in the list form, and for a rolling
\* baseline in the window form.
LEMMA ZscoreWindow ==
    ASSUME NEW s \in Seq(Reading), Len(s) >= 1, sorted_events(s) = s, NEW form \in Forms
    PROVE  LET found == detect_all_from_window(WindowOf(s, "rolling_baseline_zscore", form))
           IN  /\ form.rolling => AsTold(detect_rolling_zscore(s), s, form)
                                    = IF Len(s) >= 4 THEN found ELSE <<>>
               /\ ~form.rolling => found = <<>>
<1> DEFINE w == WindowOf(s, "rolling_baseline_zscore", form)
           m == Moments(Front(Values(s)))
           v == s[Len(s)].value
           a == base_anomaly("rolling_zscore", s, "warning")
<1>1. s # <<>>
  OBVIOUS
<1>2. /\ w.method = "rolling_baseline_zscore" /\ w.observed_value = v
      /\ Len(s) >= 4 /\ form.rolling => w.rolling_baseline = m
      /\ ~form.rolling => w.rolling_baseline = None
  BY <1>1, WindowFields
<1>3. base_window_anomaly("rolling_zscore", w, "warning") = Told(a, s, form)
  BY <1>1, WindowAnomaly
<1>4. /\ Values(s) \in Seq(Int) /\ Len(Values(s)) = Len(s) /\ Values(s) # <<>>
      /\ Values(s)[Len(s)] = v
  <2>1. Len(s) \in 1 .. Len(s)
    OBVIOUS
  <2>2. Values(s) \in Seq(Int) /\ Len(Values(s)) = Len(s)
    BY ValuesOf
  <2>3. Values(s) # <<>>
    <3> DEFINE u == Values(s)
    <3>1. u \in Seq(Int) /\ Len(u) = Len(s)
      BY <2>2
    <3> HIDE DEF u
    <3>2. u # <<>>
      BY <3>1
    <3> QED
      BY <3>2 DEF u
  <2> QED
    BY <2>1, <2>2, <2>3, ValuesOf
<1>5. Front(Values(s)) \in Seq(Int) /\ Last(Values(s)) = v
  BY <1>4, FrontOf
<1>6. m # None
  BY <1>5, MomentsType
<1> HIDE DEF w, m, v, a
<1>7. detect_all_from_window(w) = detect_rolling_zscore_from_window(w)
  BY <1>2 DEF detect_all_from_window
<1>8. ~form.rolling => detect_rolling_zscore_from_window(w) = <<>>
  BY <1>2 DEF detect_rolling_zscore_from_window
<1>9. Len(s) >= 4 /\ form.rolling => detect_rolling_zscore_from_window(w)
        = IF Outlies(v, m) THEN << Told(a, s, form) >> ELSE <<>>
  BY <1>2, <1>3, <1>6 DEF detect_rolling_zscore_from_window
<1>10. detect_rolling_zscore(s) = IF Len(s) >= 4 /\ Outlies(v, m) THEN << a >> ELSE <<>>
  BY <1>5 DEF detect_rolling_zscore, m, a
<1>11. (Len(s) >= 4 /\ Outlies(v, m)) \in BOOLEAN
  BY DEF Outlies
<1>12. AsTold(detect_rolling_zscore(s), s, form)
         = IF Len(s) >= 4 /\ Outlies(v, m) THEN << Told(a, s, form) >> ELSE <<>>
  BY <1>10, <1>11, ToldOf
<1> QED
  BY <1>7, <1>8, <1>9, <1>12 DEF w

\* A change of 400 is one of 80 for each of up to five steps, and one of 80 for
\* each of five steps or more is one of 400.
LEMMA DriftWindow ==
    ASSUME NEW s \in Seq(Reading), Len(s) >= 3, sorted_events(s) = s, NEW form \in Forms
    PROVE  LET found == detect_all_from_window(WindowOf(s, "slope_over_window", form))
               told == AsTold(detect_drift_rate_of_change(s), s, form)
           IN  /\ Len(s) <= 6 /\ found # <<>> => told = found
               /\ Len(s) >= 6 /\ detect_drift_rate_of_change(s) # <<>> => told = found
<1> DEFINE w == WindowOf(s, "slope_over_window", form)
           v == s[Len(s)].value
           u == s[1].value
           change == Magnitude(v - u)
           n == Len(s)
           a == base_anomaly("drift_rate_of_change", s, "warning")
<1>1. s # <<>> /\ n \in Nat /\ n >= 3 /\ 1 \in 1 .. n /\ n \in 1 .. n
  OBVIOUS
<1>2. /\ w.method = "slope_over_window" /\ w.observed_value = v
      /\ w.prev_window_value = u
  BY <1>1, WindowFields
<1>3. base_window_anomaly("drift_rate_of_change", w, "warning") = Told(a, s, form)
  BY <1>1, WindowAnomaly
<1>4. v \in Int /\ u \in Int
  <2>1. s[1] \in Reading /\ s[Len(s)] \in Reading
    BY <1>1, ElementsIn
  <2> QED
    BY <2>1 DEF Reading
<1>5. Len(Values(s)) = n /\ Last(Values(s)) = v /\ Head(Values(s)) = u
  <2> DEFINE vs == Values(s)
  <2>1. vs \in Seq(Int) /\ Len(vs) = n /\ vs[1] = u /\ vs[n] = v
    BY <1>1, ValuesOf
  <2> HIDE DEF vs
  <2>2. vs # <<>>
    <3>1. vs = <<>> <=> Len(vs) = 0
      BY <2>1, ElementsIn
    <3> HIDE DEF n
    <3> QED
      BY <1>1, <2>1, <3>1
  <2>3. Last(vs) = vs[Len(vs)]
    BY <2>1, <2>2, FrontOf
  <2>4. Head(vs) = vs[1]
    BY <2>1, <2>2
  <2> QED
    BY <2>1, <2>3, <2>4 DEF vs
<1>6. change \in Int
  <2> HIDE DEF u, v
  <2> QED
    BY <1>4 DEF Magnitude
<1>7. u # None
  BY <1>4, NoneAssumption
<1> HIDE DEF w, u, v, a
<1>8. detect_all_from_window(w) = IF change >= 5 * 80 THEN << Told(a, s, form) >> ELSE <<>>
  BY <1>2, <1>3, <1>7 DEF detect_all_from_window, detect_drift_rate_of_change_from_window
<1>9. detect_drift_rate_of_change(s) = IF change >= 80 * (n - 1) THEN << a >> ELSE <<>>
  BY <1>1, <1>5 DEF detect_drift_rate_of_change, a
<1> HIDE DEF change
<1>10. AsTold(detect_drift_rate_of_change(s), s, form)
         = IF change >= 80 * (n - 1) THEN << Told(a, s, form) >> ELSE <<>>
  <2>1. (change >= 80 * (n - 1)) \in BOOLEAN
    BY <1>1, <1>6
  <2> QED
    BY <1>9, <2>1, ToldOf
<1>11. /\ n <= 6 /\ change >= 5 * 80 => change >= 80 * (n - 1)
       /\ n >= 6 /\ change >= 80 * (n - 1) => change >= 5 * 80
  <2> HIDE DEF n
  <2> QED
    BY <1>1, <1>6
<1> QED
  BY <1>8, <1>9, <1>10, <1>11 DEF w

\* A gap is one that some window, of the first readings, ends with.
LEMMA HeartbeatWindow ==
    ASSUME NEW s \in Seq(Reading), sorted_events(s) = s, NEW form \in Forms
    PROVE  (detect_missing_heartbeat(s) # <<>>)
             = \E i \in 2 .. Len(s) : detect_all_from_window(
                   WindowOf(SubSeq(s, 1, i), "heartbeat_gap", form)) # <<>>
<1> DEFINE n == Len(s)
           gap(i) == exact_time(s[i + 1]) - exact_time(s[i])
           found(i) == detect_all_from_window(WindowOf(SubSeq(s, 1, i), "heartbeat_gap", form))
<1>1. n \in Nat /\ \A i \in 1 .. n : exact_time(s[i]) \in Int
  <2>1. \A i \in 1 .. n : s[i] \in Reading
    BY ElementsIn
  <2> QED
    BY <2>1 DEF Reading, exact_time
<1>2. (detect_missing_heartbeat(s) # <<>>)
        = \E i \in 1 .. n - 1 : gap(i) >= 2 * max_gap_minutes
  BY DEF detect_missing_heartbeat
<1>3. ASSUME NEW i \in 2 .. n
      PROVE  (found(i) # <<>>) = (gap(i - 1) >= 2 * max_gap_minutes)
  <2> DEFINE t == SubSeq(s, 1, i)
             w == WindowOf(t, "heartbeat_gap", form)
  <2>1. t \in Seq(Reading) /\ Len(t) = i /\ \A k \in 1 .. i : t[k] = s[k]
    BY <1>1
  <2> HIDE DEF t
  <2>2. /\ t # <<>> /\ i # 1 /\ t[i] = s[i] /\ t[i - 1] = s[i - 1]
        /\ (i - 1) + 1 = i /\ i - 1 \in 1 .. n
    BY <1>1, <2>1
  <2>3. w.method = "heartbeat_gap" /\ w.gap_minutes = gap(i - 1)
    BY <2>1, <2>2, WindowFields
  <2>4. gap(i - 1) \in Int /\ gap(i - 1) # None
    BY <1>1, <2>2, NoneAssumption
  <2> HIDE DEF w, gap
  <2>5. detect_all_from_window(w)
          = IF gap(i - 1) >= 2 * max_gap_minutes
            THEN << base_window_anomaly("missing_heartbeat", w, "critical") >> ELSE <<>>
    BY <2>3, <2>4 DEF detect_all_from_window, detect_missing_heartbeat_from_window
  <2>6. (detect_all_from_window(w) # <<>>) = (gap(i - 1) >= 2 * max_gap_minutes)
    BY <2>5
  <2> QED
    BY <2>6 DEF w, t
<1> HIDE DEF gap, found, n
<1>4. (\E i \in 1 .. n - 1 : gap(i) >= 2 * max_gap_minutes) = \E i \in 2 .. n : found(i) # <<>>
  <2>1. ASSUME NEW i \in 1 .. n - 1, gap(i) >= 2 * max_gap_minutes
        PROVE  \E k \in 2 .. n : found(k) # <<>>
    <3>1. i + 1 \in 2 .. n /\ (i + 1) - 1 = i
      BY <1>1
    <3>2. found(i + 1) # <<>>
      BY <1>3, <2>1, <3>1
    <3> QED
      BY <3>1, <3>2
  <2>2. ASSUME NEW i \in 2 .. n, found(i) # <<>>
        PROVE  \E k \in 1 .. n - 1 : gap(k) >= 2 * max_gap_minutes
    <3>1. i - 1 \in 1 .. n - 1
      BY <1>1
    <3> QED
      BY <1>3, <2>2, <3>1
  <2> QED
    BY <2>1, <2>2
<1> QED
  BY <1>2, <1>4 DEF n, found

\* Six equal readings are those without a deviation.
LEMMA FlatlineWindow ==
    ASSUME NEW s \in Seq(Reading), Len(s) >= min_repeated_points, sorted_events(s) = s, NEW form \in Forms
    PROVE  LET tail == SubSeq(s, Len(s) - min_repeated_points + 1, Len(s))
           IN  detect_flatline(s)
                 = detect_all_from_window(WindowOf(tail, "repeated_value_window", form))
<1> DEFINE n == Len(s)
           t == SubSeq(s, n - min_repeated_points + 1, n)
           w == WindowOf(t, "repeated_value_window", form)
           steady == \A e \in Range(t) : e.value = t[1].value
<1>1. t \in Seq(Reading) /\ Len(t) = 6
  <2>1. n \in Nat /\ n >= 6 /\ n - 6 + 1 \in 1 .. n /\ n \in n - 6 + 1 .. n
    BY DEF min_repeated_points
  <2> QED
    BY <2>1, PartOf DEF min_repeated_points
<1> HIDE DEF t
<1>2. t # <<>> /\ DOMAIN t = 1 .. 6
  <2>1. DOMAIN t = 1 .. Len(t) /\ (t = <<>> <=> Len(t) = 0)
    BY <1>1, ElementsIn
  <2> QED
    BY <1>1, <2>1
<1>3. /\ w.method = "repeated_value_window" /\ w.event_count = 6
      /\ w.window_moments = Moments(Values(t))
  <2>1. /\ w.method = "repeated_value_window" /\ w.event_count = Len(t)
        /\ w.window_moments = Moments(Values(t))
    <3>1. t \in Seq(Reading) /\ t # <<>>
      BY <1>1, <1>2
    <3> QED
      BY <3>1, WindowFields
  <2> QED
    BY <1>1, <2>1
<1>4. Values(t) \in Seq(Int) /\ Len(Values(t)) = 6
      /\ \A i \in 1 .. 6 : Values(t)[i] = t[i].value
  BY <1>1, ValuesOf
<1>5. Moments(Values(t)) # None
  BY <1>4, MomentsType
<1>6. steady <=> \A i \in 1 .. 6 : Values(t)[i] = Values(t)[1]
  BY <1>2, <1>4 DEF Range
<1>7. Spread(Moments(Values(t))) = 0 <=> steady
  <2> DEFINE v == Values(t)
  <2>1. v \in Seq(Int) /\ Len(v) = 6
    BY <1>4
  <2> HIDE DEF v, steady
  <2>2. Spread(Moments(v)) = 0 => \A i \in 1 .. 6 : v[i] = v[1]
    BY <2>1, SixMoments
  <2>3. (\A i \in 1 .. 6 : v[i] = v[1]) => Spread(Moments(v)) = 0
    <3>1. v[1] \in Int
      <4>1. 1 \in 1 .. Len(v)
        BY <2>1
      <4> QED
        BY <2>1, <4>1, ElementsIn
    <3> QED
      BY <2>1, <3>1, EqualMoments
  <2> QED
    BY <1>6, <2>2, <2>3 DEF v
<1>8. [ base_window_anomaly("flatline", w, "warning") EXCEPT !.fault_type = "sensor_fault" ]
        = [ base_anomaly("flatline", t, "warning") EXCEPT !.fault_type = "sensor_fault" ]
  <2>1. base_window_anomaly("flatline", w, "warning")
          = Told(base_anomaly("flatline", t, "warning"), t, form)
    BY <1>1, <1>2, WindowAnomaly
  <2> HIDE DEF w
  <2> QED
    BY <2>1 DEF Told, base_anomaly
<1> HIDE DEF w, steady
<1>9. detect_all_from_window(w)
        = IF steady
          THEN << [ base_anomaly("flatline", t, "warning")
                      EXCEPT !.fault_type = "sensor_fault" ] >>
          ELSE <<>>
  <2>1. detect_all_from_window(w) = detect_flatline_from_window(w)
    BY <1>3 DEF detect_all_from_window
  <2> QED
    BY <1>3, <1>5, <1>7, <1>8, <2>1 DEF detect_flatline_from_window
<1>10. detect_flatline(s)
        = IF steady
          THEN << [ base_anomaly("flatline", t, "warning")
                      EXCEPT !.fault_type = "sensor_fault" ] >>
          ELSE <<>>
  BY DEF detect_flatline, steady, t
<1> QED
  BY <1>9, <1>10 DEF w, t

\* One or two readings are no repeated value.
LEMMA ShortWindow ==
    ASSUME NEW s \in Seq(Reading), Len(s) \in {1, 2}, NEW form \in Forms
    PROVE  detect_all_from_window(WindowOf(s, "repeated_value_window", form)) = <<>>
<1> DEFINE w == WindowOf(s, "repeated_value_window", form)
<1>1. s # <<>>
  OBVIOUS
<1>2. w.method = "repeated_value_window" /\ w.event_count = Len(s)
  BY <1>1, WindowFields
<1> HIDE DEF w
<1>3. detect_all_from_window(w) = detect_flatline_from_window(w)
  BY <1>2 DEF detect_all_from_window
<1>4. ~(w.event_count >= 3)
  <2>1. \A k \in {1, 2} : ~(k >= 3)
    OBVIOUS
  <2>2. w.event_count \in {1, 2}
    BY <1>2
  <2> QED
    BY <2>1, <2>2
<1>5. detect_flatline_from_window(w) = <<>>
  BY <1>4 DEF detect_flatline_from_window
<1> QED
  BY <1>3, <1>5 DEF w

\* The two forms of all rules.
LEMMA WindowsAgree ==
    ASSUME ReadingsInv
    PROVE  WindowAgreesWithList
<1> DEFINE s == sorted_events(readings)
           n == Len(s)
           tail == SubSeq(s, n - min_repeated_points + 1, n)
<1>1. s \in Seq(Reading) /\ sorted_events(s) = s
  BY ReadingsInOrder
<1> HIDE DEF s
<1>2. n \in Nat
  BY <1>1
<1> SUFFICES ASSUME NEW form \in Forms
    PROVE  LET window(method) == detect_all_from_window(WindowOf(s, method, form))
               told(anomalies) == AsTold(anomalies, s, form)
           IN  /\ n >= 2 => window("static_threshold") = told(detect_threshold_spike(s, None, None))
               /\ n = 1 => (window("static_threshold") # <<>>) = (s[1].value >= 0)
               /\ n >= 1 /\ form.rolling =>
                    told(detect_rolling_zscore(s)) =
                        IF n >= 4 THEN window("rolling_baseline_zscore") ELSE <<>>
               /\ n >= 1 /\ ~form.rolling => window("rolling_baseline_zscore") = <<>>
               /\ n \in 3 .. 6 /\ window("slope_over_window") # <<>> =>
                    told(detect_drift_rate_of_change(s)) = window("slope_over_window")
               /\ n >= 6 /\ detect_drift_rate_of_change(s) # <<>> =>
                    told(detect_drift_rate_of_change(s)) = window("slope_over_window")
               /\ (detect_missing_heartbeat(s) # <<>>) =
                    \E i \in 2 .. n : detect_all_from_window(
                           WindowOf(SubSeq(s, 1, i), "heartbeat_gap", form)) # <<>>
               /\ n >= min_repeated_points =>
                    detect_flatline(s)
                      = detect_all_from_window(WindowOf(tail, "repeated_value_window", form))
               /\ n \in {1, 2} => window("repeated_value_window") = <<>>
  BY Zenon DEF WindowAgreesWithList, s
<1>3. n >= 2 => detect_all_from_window(WindowOf(s, "static_threshold", form))
                  = AsTold(detect_threshold_spike(s, None, None), s, form)
  BY <1>1, SpikeWindow
<1>4. n = 1 => (detect_all_from_window(WindowOf(s, "static_threshold", form)) # <<>>)
                  = (s[1].value >= 0)
  BY <1>1, SpikeWindowOfOne
<1>5. n >= 1 =>
          LET found == detect_all_from_window(WindowOf(s, "rolling_baseline_zscore", form))
          IN  /\ form.rolling => AsTold(detect_rolling_zscore(s), s, form)
                                   = IF n >= 4 THEN found ELSE <<>>
              /\ ~form.rolling => found = <<>>
  BY <1>1, ZscoreWindow
<1>6. n >= 3 =>
          LET found == detect_all_from_window(WindowOf(s, "slope_over_window", form))
              told == AsTold(detect_drift_rate_of_change(s), s, form)
          IN  /\ n <= 6 /\ found # <<>> => told = found
              /\ n >= 6 /\ detect_drift_rate_of_change(s) # <<>> => told = found
  BY <1>1, DriftWindow
<1>7. (detect_missing_heartbeat(s) # <<>>)
             = \E i \in 2 .. n : detect_all_from_window(
                   WindowOf(SubSeq(s, 1, i), "heartbeat_gap", form)) # <<>>
  BY <1>1, HeartbeatWindow
<1>8. n >= min_repeated_points =>
          detect_flatline(s)
             = detect_all_from_window(WindowOf(tail, "repeated_value_window", form))
  BY <1>1, FlatlineWindow
<1>9. n \in {1, 2} =>
          detect_all_from_window(WindowOf(s, "repeated_value_window", form)) = <<>>
  BY <1>1, ShortWindow
<1> HIDE DEF n, tail
<1>10. (n \in 3 .. 6 => n >= 3 /\ n <= 6) /\ (n >= 6 => n >= 3)
  BY <1>2
<1> QED
  BY <1>3, <1>4, <1>5, <1>6, <1>7, <1>8, <1>9, <1>10, Zenon

-----------------------------------------------------------------------------
(* Readings that do not change.                                            *)

\* An anomaly of a rule, or none.
Finds(found, rule, condition) ==
    /\ Listed(found)
    /\ { a.rule : a \in Range(found) } = IF condition THEN {rule} ELSE {}

\* What is found under a condition.
LEMMA FindsOne ==
    ASSUME NEW a, NEW condition \in BOOLEAN, NEW rule, a.rule = rule
    PROVE  Finds(IF condition THEN <<a>> ELSE <<>>, rule, condition)
<1>1. CASE condition
  <2>1. Listed(<<a>>) /\ Range(<<a>>) = {a}
    <3>1. <<a>> \in Seq({a})
      OBVIOUS
    <3>2. DOMAIN <<a>> = {1} /\ <<a>>[1] = a
      OBVIOUS
    <3>3. Listed(<<a>>)
      BY <3>1, IsListed
    <3>4. Range(<<a>>) = {a}
      BY <3>2 DEF Range
    <3> QED
      BY <3>3, <3>4
  <2> QED
    BY <1>1, <2>1 DEF Finds
<1>2. CASE ~condition
  <2>1. Listed(<<>>) /\ Range(<<>>) = {}
    <3>1. <<>> \in Seq({})
      OBVIOUS
    <3>2. Listed(<<>>)
      BY <3>1, IsListed
    <3>3. DOMAIN <<>> = {}
      OBVIOUS
    <3>4. Range(<<>>) = {}
      BY <3>3 DEF Range
    <3> QED
      BY <3>2, <3>4
  <2> QED
    BY <1>2, <2>1 DEF Finds
<1> QED
  BY <1>1, <1>2

\* Rules of a list of anomalies joined from two.
LEMMA RulesOfConcat ==
    ASSUME NEW f, NEW g, Listed(f), Listed(g)
    PROVE  /\ Listed(f \o g)
           /\ { a.rule : a \in Range(f \o g) }
                = { a.rule : a \in Range(f) } \union { a.rule : a \in Range(g) }
<1>1. Listed(f \o g) /\ Range(f \o g) = Range(f) \union Range(g)
  BY ConcatListed
<1> QED
  BY <1>1

\* Readings of one value: no deviation, no slope, and at least 2.5 times their
\* mean at zero or below.
LEMMA SteadyRules ==
    ASSUME NEW s \in Seq(Reading), sorted_events(s) = s, Len(s) >= 2,
           NEW c \in Int, \A i \in 1 .. Len(s) : s[i].value = c
    PROVE  /\ Finds(detect_flatline(s), "flatline", Len(s) >= min_repeated_points)
           /\ Finds(detect_threshold_spike(s, None, None), "threshold_spike", c <= 0)
           /\ Finds(detect_rolling_zscore(s), "rolling_zscore", FALSE)
           /\ Finds(detect_drift_rate_of_change(s), "drift_rate_of_change", FALSE)
           /\ \E b \in BOOLEAN : Finds(detect_missing_heartbeat(s), "missing_heartbeat", b)
<1> DEFINE n == Len(s)
           v == Values(s)
           front == Front(v)
           m == Moments(front)
<1>1. /\ n \in Nat /\ n >= 2 /\ v \in Seq(Int) /\ Len(v) = n /\ v # <<>>
      /\ \A i \in 1 .. n : v[i] = c
  <2>1. v \in Seq(Int) /\ Len(v) = n /\ n \in Nat /\ \A i \in 1 .. n : v[i] = c
    BY ValuesOf
  <2>2. v # <<>>
    <3> HIDE DEF v
    <3> QED
      BY <2>1
  <2> QED
    BY <2>1, <2>2
<1> HIDE DEF v
<1>2. /\ front \in Seq(Int) /\ Len(front) = n - 1
      /\ \A i \in 1 .. n - 1 : front[i] = c
      /\ Last(v) = c /\ Head(v) = c
  <2>1. /\ front \in Seq(Int) /\ Len(front) = n - 1
        /\ \A i \in 1 .. n - 1 : front[i] = v[i]
        /\ Last(v) = v[n]
    BY <1>1, FrontOf
  <2>2. Head(v) = v[1] /\ 1 \in 1 .. n /\ n \in 1 .. n /\ \A i \in 1 .. n - 1 : i \in 1 .. n
    BY <1>1
  <2> QED
    BY <1>1, <2>1, <2>2
<1> HIDE DEF front
<1>3. m.n = n - 1 /\ m.sum = (n - 1) * c /\ Spread(m) = 0
  BY <1>2, EqualMoments
<1> HIDE DEF m
<1>4. Spikes(c, m, None, None) <=> c <= 0
  <2>1. Spikes(c, m, None, None) <=> 2 * (n - 1) * c >= 5 * ((n - 1) * c)
    BY <1>3 DEF Spikes
  <2> DEFINE k == n - 1
  <2>2. k \in Nat /\ k >= 1
    BY <1>1
  <2> HIDE DEF k
  <2>3. 2 * k * c >= 5 * (k * c) <=> c <= 0
    <3>1. k * c \in Int /\ 2 * k * c = 2 * (k * c)
      BY <2>2
    <3>2. k * c <= 0 <=> c <= 0
      BY <2>2
    <3> QED
      BY <3>1, <3>2
  <2> QED
    BY <2>1, <2>3 DEF k
<1>5. ~Outlies(c, m)
  BY <1>3 DEF Outlies
<1>6. ~(Magnitude(c - c) >= 80 * (Len(v) - 1))
  BY <1>1 DEF Magnitude
<1>7. \A rule, ordered, severity : base_anomaly(rule, ordered, severity).rule = rule
  BY DEF base_anomaly
<1>8. Finds(detect_threshold_spike(s, None, None), "threshold_spike", c <= 0)
  <2>1. detect_threshold_spike(s, None, None)
          = IF c <= 0 THEN << base_anomaly("threshold_spike", s, "critical") >> ELSE <<>>
    BY <1>1, <1>2, <1>4 DEF detect_threshold_spike, v, front, m
  <2>2. (c <= 0) \in BOOLEAN
    OBVIOUS
  <2> QED
    BY <1>7, <2>1, <2>2, FindsOne
<1>9. Finds(detect_rolling_zscore(s), "rolling_zscore", FALSE)
  <2>1. detect_rolling_zscore(s)
          = IF FALSE THEN << base_anomaly("rolling_zscore", s, "warning") >> ELSE <<>>
    BY <1>2, <1>5 DEF detect_rolling_zscore, v, front, m
  <2> QED
    BY <1>7, <2>1, FindsOne
<1>10. Finds(detect_drift_rate_of_change(s), "drift_rate_of_change", FALSE)
  <2>1. detect_drift_rate_of_change(s)
          = IF FALSE THEN << base_anomaly("drift_rate_of_change", s, "warning") >> ELSE <<>>
    BY <1>2, <1>6 DEF detect_drift_rate_of_change, v
  <2> QED
    BY <1>7, <2>1, FindsOne
<1>11. Finds(detect_flatline(s), "flatline", n >= min_repeated_points)
  <2> DEFINE t == SubSeq(s, n - min_repeated_points + 1, n)
             a == [ base_anomaly("flatline", t, "warning") EXCEPT !.fault_type = "sensor_fault" ]
  <2>1. n >= min_repeated_points => \A e \in Range(t) : e.value = t[1].value
    <3> SUFFICES ASSUME n >= 6 PROVE \A e \in Range(t) : e.value = t[1].value
      BY DEF min_repeated_points
    <3>1. n - 6 + 1 \in 1 .. n /\ n \in n - 6 + 1 .. n
      BY <1>1
    <3>2. t \in Seq(Reading) /\ Len(t) = 6
          /\ \A i \in 1 .. 6 : t[i] = s[n - 6 + 1 + i - 1]
      BY <1>1, <3>1, PartOf DEF min_repeated_points
    <3> HIDE DEF t
    <3>3. DOMAIN t = 1 .. 6 /\ \A i \in 1 .. 6 : n - 6 + 1 + i - 1 \in 1 .. n
      <4>1. DOMAIN t = 1 .. Len(t)
        BY <3>2, ElementsIn
      <4>2. DOMAIN t = 1 .. 6
        BY <3>2, <4>1
      <4>3. n \in Nat /\ n >= 6
        BY <1>1
      <4> HIDE DEF n
      <4>4. \A i \in 1 .. 6 : n - 6 + 1 + i - 1 \in 1 .. n
        BY <4>3
      <4> QED
        BY <4>2, <4>4
    <3>4. \A i \in 1 .. 6 : t[i].value = c
      BY <3>2, <3>3
    <3> QED
      BY <3>3, <3>4 DEF Range
  <2>2. detect_flatline(s) = IF n >= min_repeated_points THEN <<a>> ELSE <<>>
    BY <2>1 DEF detect_flatline
  <2>3. a.rule = "flatline"
    BY DEF base_anomaly
  <2>4. (n >= min_repeated_points) \in BOOLEAN
    BY <1>1 DEF min_repeated_points
  <2> HIDE DEF a
  <2> QED
    BY <2>2, <2>3, <2>4, FindsOne
<1>12. \E b \in BOOLEAN : Finds(detect_missing_heartbeat(s), "missing_heartbeat", b)
  <2> DEFINE o == sorted_events(s)
             at == { i \in 1 .. Len(o) - 1 :
                       exact_time(o[i + 1]) - exact_time(o[i]) >= 2 * max_gap_minutes }
             i == CHOOSE j \in at : \A k \in at : j <= k
             a == base_anomaly("missing_heartbeat", <<o[i], o[i + 1]>>, "critical")
  <2>1. detect_missing_heartbeat(s) = IF at # {} THEN <<a>> ELSE <<>>
    <3>1. detect_missing_heartbeat(s) = IF at = {} THEN <<>> ELSE <<a>>
      BY DEF detect_missing_heartbeat
    <3> HIDE DEF at, a
    <3> QED
      BY <3>1
  <2>2. a.rule = "missing_heartbeat"
    BY <1>7
  <2>3. (at # {}) \in BOOLEAN
    OBVIOUS
  <2> HIDE DEF a, at
  <2> QED
    BY <2>1, <2>2, <2>3, FindsOne
<1> QED
  BY <1>8, <1>9, <1>10, <1>11, <1>12

\* The rules that find something in readings of one value.
LEMMA SteadyFinds ==
    ASSUME ReadingsInv
    PROVE  SteadySeriesOnlyFlatlines
<1> DEFINE s == sorted_events(readings)
           n == Len(readings)
           c == readings[1].value
           of(found) == { a.rule : a \in Range(found) }
<1> SUFFICES ASSUME n >= 2, \A e \in Range(readings) : e.value = c
             PROVE  of(detect_all(readings)) \ {"missing_heartbeat"} =
                        (IF n >= min_repeated_points THEN {"flatline"} ELSE {})
                          \union (IF c <= 0 THEN {"threshold_spike"} ELSE {})
  BY DEF SteadySeriesOnlyFlatlines
<1>1. /\ s \in Seq(Reading) /\ Len(s) = n /\ Range(s) = Range(readings)
      /\ sorted_events(s) = s
  BY ReadingsInOrder
<1>2. c \in Int
  <2>1. readings \in Seq(Reading) /\ 1 \in 1 .. n
    BY DEF ReadingsInv
  <2>2. readings[1] \in Reading
    BY <2>1, ElementsIn
  <2> QED
    BY <2>2 DEF Reading
<1>3. detect_all(readings) = detect_all(s)
  BY <1>1, DetectedInOrder
<1> HIDE DEF s, n, c
<1>4. \A i \in 1 .. Len(s) : s[i].value = c
  <2>1. \A i \in 1 .. Len(s) : s[i] \in Range(s)
    <3>1. DOMAIN s = 1 .. Len(s)
      BY <1>1, ElementsIn
    <3> QED
      BY <3>1 DEF Range
  <2> QED
    BY <1>1, <2>1
<1> DEFINE hb == detect_missing_heartbeat(s)
           fl == detect_flatline(s)
           ts == detect_threshold_spike(s, None, None)
           rz == detect_rolling_zscore(s)
           dr == detect_drift_rate_of_change(s)
<1>5. /\ Finds(fl, "flatline", n >= min_repeated_points)
      /\ Finds(ts, "threshold_spike", c <= 0)
      /\ Finds(rz, "rolling_zscore", FALSE)
      /\ Finds(dr, "drift_rate_of_change", FALSE)
      /\ \E b \in BOOLEAN : Finds(hb, "missing_heartbeat", b)
  BY <1>1, <1>2, <1>4, SteadyRules
<1>6. detect_all(s) = hb \o fl \o ts \o rz \o dr
  BY DEF detect_all
<1> HIDE DEF hb, fl, ts, rz, dr, of
<1>7. /\ Listed(fl) /\ of(fl) = IF n >= min_repeated_points THEN {"flatline"} ELSE {}
      /\ Listed(ts) /\ of(ts) = IF c <= 0 THEN {"threshold_spike"} ELSE {}
      /\ Listed(rz) /\ of(rz) = {}
      /\ Listed(dr) /\ of(dr) = {}
      /\ Listed(hb) /\ of(hb) \subseteq {"missing_heartbeat"}
  BY <1>5 DEF Finds, of
<1>8. \A f, g : Listed(f) /\ Listed(g) =>
          Listed(f \o g) /\ of(f \o g) = of(f) \union of(g)
  BY RulesOfConcat DEF of
<1>9. Listed(hb \o fl) /\ of(hb \o fl) = of(hb) \union of(fl)
  BY <1>7, <1>8
<1>10. /\ Listed(hb \o fl \o ts)
       /\ of(hb \o fl \o ts) = of(hb \o fl) \union of(ts)
  BY <1>7, <1>8, <1>9
<1>11. /\ Listed(hb \o fl \o ts \o rz)
       /\ of(hb \o fl \o ts \o rz) = of(hb \o fl \o ts) \union of(rz)
  BY <1>7, <1>8, <1>10
<1>12. of(hb \o fl \o ts \o rz \o dr) = of(hb \o fl \o ts \o rz) \union of(dr)
  BY <1>7, <1>8, <1>11
<1>13. of(detect_all(readings)) = of(hb) \union of(fl) \union of(ts)
  BY <1>3, <1>6, <1>7, <1>9, <1>10, <1>11, <1>12
<1>14. of(fl) \subseteq {"flatline"} /\ of(ts) \subseteq {"threshold_spike"}
  BY <1>7
<1>15. of(detect_all(readings)) \ {"missing_heartbeat"} = of(fl) \union of(ts)
  BY <1>7, <1>13, <1>14
<1> QED
  BY <1>7, <1>15 DEF of

\* Rotated or reversed, the readings are put in the same order.
LEMMA OrderIgnored ==
    ASSUME ReadingsInv
    PROVE  DetectionIgnoresOrder
<1> DEFINE n == Len(readings)
           rotated(k) == SubSeq(readings, k + 1, n) \o SubSeq(readings, 1, k)
<1> SUFFICES ASSUME NEW k \in 0 .. n - 1
             PROVE  /\ detect_all(rotated(k)) = detect_all(readings)
                    /\ detect_all(Reverse(rotated(k))) = detect_all(readings)
  BY DEF DetectionIgnoresOrder
<1> DEFINE t == rotated(k)
           r == Reverse(t)
<1>1. readings \in Seq(Reading) /\ DistinctIds(readings)
  BY ReadingsInOrder DEF ReadingsInv
<1>2. t \in Seq(Reading) /\ Len(t) = n /\ Range(t) = Range(readings)
  BY <1>1, RotationProperties
<1> HIDE DEF t
<1>3. r \in Seq(Reading) /\ Len(r) = Len(t) /\ Range(r) = Range(t)
  BY <1>2, ReverseProperties
<1> HIDE DEF r
<1>4. sorted_events(t) = sorted_events(readings)
  BY <1>1, <1>2, ReadingsKeyed, SameOrder
<1>5. sorted_events(r) = sorted_events(readings)
  BY <1>1, <1>2, <1>3, ReadingsKeyed, SameOrder
<1>6. detect_all(t) = detect_all(readings) /\ detect_all(r) = detect_all(readings)
  BY <1>4, <1>5, DetectedInOrder
<1> QED
  BY <1>6 DEF t, r

\* A reading that arrives.
LEMMA ArriveStep ==
    ASSUME ReadingsInv, NEW a \in Arrivals, Arrive(a)
    PROVE  ReadingsInv'
<1> DEFINE n == Len(readings)
           r == [ id |-> MaxReadings - n, tag |-> "tag", value |-> a.value,
                  event_time |-> a.after + (IF readings = <<>> THEN 0
                                            ELSE Last(readings).event_time),
                  fraction |-> a.fraction,
                  quality_flags |-> IF a.value = 0 THEN {"dead_sensor"} ELSE {} ]
<1>1. readings \in Seq(Reading) /\ n < MaxReadings /\ readings' = Append(readings, r)
  BY DEF ReadingsInv, Arrive
<1>2. n \in Nat /\ MaxReadings \in Nat /\ a.after \in Nat /\ a.fraction \in BOOLEAN /\ a.value \in Int
  BY <1>1, ArrivalsAssumption
<1>3. readings # <<>> => Last(readings).event_time \in Int
  <2> SUFFICES ASSUME readings # <<>> PROVE Last(readings).event_time \in Int
    OBVIOUS
  <2>1. Last(readings) \in Reading
    BY <1>1, FrontOf
  <2> QED
    BY <2>1 DEF Reading
<1>4. r \in Reading
  BY <1>2, <1>3 DEF Reading, sensor_flags
<1>5. r.id = MaxReadings + 1 - (n + 1)
  BY <1>2
<1> HIDE DEF r
<1>6. /\ readings' \in Seq(Reading) /\ Len(readings') = n + 1
      /\ DOMAIN readings' = 1 .. n + 1 /\ DOMAIN readings = 1 .. n
      /\ \A i \in 1 .. n : readings'[i] = readings[i]
      /\ readings'[n + 1] = r
  BY <1>1, <1>4
<1>7. \A i \in 1 .. n + 1 : i \in 1 .. n \/ i = n + 1
  BY <1>2
<1>8. \A i \in DOMAIN readings' : readings'[i].id = MaxReadings + 1 - i
  BY <1>5, <1>6, <1>7 DEF ReadingsInv
<1> QED
  BY <1>1, <1>2, <1>6, <1>8 DEF ReadingsInv

\* The readings of a tag arrive with different ids.
THEOREM ReadingsInvariance == Spec => []ReadingsInv
<1>1. Init => ReadingsInv
  <2>1. <<>> \in Seq(Reading) /\ Len(<<>>) = 0 /\ DOMAIN <<>> = {}
    OBVIOUS
  <2> QED
    BY <2>1, ArrivalsAssumption DEF Init, ReadingsInit, ReadingsInv
<1>2. ReadingsInv /\ [Next]_<<vars, readings>> => ReadingsInv'
  <2> SUFFICES ASSUME ReadingsInv, [Next]_<<vars, readings>> PROVE ReadingsInv'
    OBVIOUS
  <2>1. CASE UNCHANGED readings
    BY <2>1 DEF ReadingsInv
  <2>2. ASSUME NEW a \in Arrivals, Arrive(a) PROVE ReadingsInv'
    BY <2>2, ArriveStep
  <2> QED
    BY <2>1, <2>2 DEF Next
<1> QED
  BY <1>1, <1>2, PTL DEF Spec

\* The two forms of each rule find the same, whichever way the window holds
\* what the list does: spike, outlier, flatline and gap where the list form has
\* enough readings, drift in the direction of the longer of the two distances.
THEOREM WindowsAgreeWithLists == Spec => []WindowAgreesWithList
BY WindowsAgree, ReadingsInvariance, PTL

\* What is detected does not depend on the order of arrival.
THEOREM OrderOfArrivalIgnored == Spec => []DetectionIgnoresOrder
BY OrderIgnored, ReadingsInvariance, PTL

\* Readings that never change are a flatline from the sixth on.
THEOREM SteadySeries == Spec => []SteadySeriesOnlyFlatlines
BY SteadyFinds, ReadingsInvariance, PTL

-----------------------------------------------------------------------------
(* The order of a generated file.                                          *)

SourceFiles == {"valid", "invalid", "handmade"}

\* What a file that may be published has of the generator's valid events are
\* the first of a seed, in their order.
InFileOrder(records) ==
    \A i \in DOMAIN records :
        schema_errors(records[i]) = {} /\ records[i].id \notin HandIds =>
            \E seed \in Seeds : \A m \in 1 .. i :
                m \in DOMAIN valid_events(seed) /\ valid_events(seed)[m] = records[m]

Raw(topic) == topic[1] = "raw_sensor_events"

\* Before the record of the place come those the file has before it.
Behind(topic, s, j, seed, n) ==
    \A m \in 1 .. n - 1 :
        RightPlace(valid_events(seed)[m]) = topic =>
            \E k \in 1 .. j - 1 : s[k].id = valid_events(seed)[m].id

Closed(topic, s) ==
    \A j \in DOMAIN s : s[j].id \notin HandIds =>
        \E seed \in Seeds : \E n \in DOMAIN valid_events(seed) :
            valid_events(seed)[n].id = s[j].id /\ Behind(topic, s, j, seed, n)

OrderedWrite(w) ==
    /\ w.op = "write" /\ w.to \in SourceFiles => InFileOrder(w.records)
    /\ w.op = "produce" /\ Raw(w.to) => Closed(w.to, w.records)

\* A topic of raw events has no event of the generator without those before it.
OrderInv ==
    /\ \A f \in SourceFiles : InFileOrder(files[f].records)
    /\ \A m \in DOMAIN work : OrderedWrite(work[m])
    /\ \A t \in DOMAIN topics : Raw(t) => Closed(t, topics[t])

\* A list put behind another keeps the order.
LEMMA ClosedConcat ==
    ASSUME NEW topic, NEW s, NEW t, Listed(s), Listed(t), Closed(topic, s), Closed(topic, t)
    PROVE  Closed(topic, s \o t)
<1> DEFINE u == s \o t
           len == Len(s)
<1>1. /\ DOMAIN s = 1 .. len /\ len \in Nat /\ DOMAIN t = 1 .. Len(t) /\ Len(t) \in Nat
      /\ \A k \in DOMAIN s : u[k] = s[k]
      /\ \A k \in DOMAIN t : u[len + k] = t[k]
      /\ \A k \in DOMAIN u : \/ k \in DOMAIN s
                             \/ k - len \in DOMAIN t /\ k \in Int
  BY ConcatListed
<1> HIDE DEF u, len
<1> SUFFICES ASSUME NEW j \in DOMAIN u, u[j].id \notin HandIds
             PROVE  \E seed \in Seeds : \E n \in DOMAIN valid_events(seed) :
                        valid_events(seed)[n].id = u[j].id /\ Behind(topic, u, j, seed, n)
  BY DEF Closed, u
<1>2. CASE j \in DOMAIN s
  <2>1. u[j] = s[j]
    BY <1>1, <1>2
  <2>2. PICK seed \in Seeds : \E n \in DOMAIN valid_events(seed) :
            valid_events(seed)[n].id = s[j].id /\ Behind(topic, s, j, seed, n)
    BY <1>2, <2>1 DEF Closed
  <2>3. PICK n \in DOMAIN valid_events(seed) :
            valid_events(seed)[n].id = s[j].id /\ Behind(topic, s, j, seed, n)
    BY <2>2
  <2>4. \A k \in 1 .. j - 1 : u[k] = s[k]
    BY <1>1, <1>2
  <2>5. Behind(topic, u, j, seed, n)
    BY <2>3, <2>4 DEF Behind
  <2> QED
    BY <2>1, <2>3, <2>5
<1>3. CASE j - len \in DOMAIN t /\ j \in Int
  <2> DEFINE i == j - len
  <2>1. i \in DOMAIN t /\ i \in Int /\ len + i = j
    BY <1>1, <1>3
  <2> HIDE DEF i
  <2>2. u[j] = t[i]
    BY <1>1, <2>1
  <2>3. PICK seed \in Seeds : \E n \in DOMAIN valid_events(seed) :
            valid_events(seed)[n].id = t[i].id /\ Behind(topic, t, i, seed, n)
    BY <2>1, <2>2 DEF Closed
  <2>4. PICK n \in DOMAIN valid_events(seed) :
            valid_events(seed)[n].id = t[i].id /\ Behind(topic, t, i, seed, n)
    BY <2>3
  <2>5. \A k \in 1 .. i - 1 : len + k \in 1 .. j - 1 /\ u[len + k] = t[k]
    BY <1>1, <2>1
  <2>6. Behind(topic, u, j, seed, n)
    BY <2>4, <2>5 DEF Behind
  <2> QED
    BY <2>2, <2>4, <2>6
<1> QED
  BY <1>1, <1>2, <1>3

\* So do the first of a list.
LEMMA ClosedPrefix ==
    ASSUME NEW topic, NEW s, Listed(s), Closed(topic, s), NEW n \in 0 .. Len(s)
    PROVE  Closed(topic, SubSeq(s, 1, n))
<1> DEFINE t == SubSeq(s, 1, n)
<1>1. Listed(t) /\ DOMAIN t \subseteq DOMAIN s /\ \A k \in DOMAIN t : t[k] = s[k]
  BY PrefixListed
<1>2. DOMAIN t = 1 .. Len(t) /\ Len(t) \in Nat
  <2>1. t \in Seq(Range(t))
    BY <1>1 DEF Listed
  <2> HIDE DEF t
  <2> QED
    BY <2>1
<1> HIDE DEF t
<1> SUFFICES ASSUME NEW j \in DOMAIN t, t[j].id \notin HandIds
             PROVE  \E seed \in Seeds : \E m \in DOMAIN valid_events(seed) :
                        valid_events(seed)[m].id = t[j].id /\ Behind(topic, t, j, seed, m)
  BY DEF Closed, t
<1>3. t[j] = s[j] /\ \A k \in 1 .. j - 1 : t[k] = s[k]
  BY <1>1, <1>2
<1>4. PICK seed \in Seeds : \E m \in DOMAIN valid_events(seed) :
          valid_events(seed)[m].id = s[j].id /\ Behind(topic, s, j, seed, m)
  BY <1>1, <1>3 DEF Closed
<1>5. PICK m \in DOMAIN valid_events(seed) :
          valid_events(seed)[m].id = s[j].id /\ Behind(topic, s, j, seed, m)
  BY <1>4
<1>6. Behind(topic, t, j, seed, m)
  BY <1>3, <1>5 DEF Behind
<1> QED
  BY <1>3, <1>5, <1>6

\* The first lines of a file are in its order.
LEMMA FileOrderPrefix ==
    ASSUME NEW s, Listed(s), InFileOrder(s), NEW n \in 0 .. Len(s)
    PROVE  InFileOrder(SubSeq(s, 1, n))
<1> DEFINE t == SubSeq(s, 1, n)
<1>1. Listed(t) /\ DOMAIN t \subseteq DOMAIN s /\ \A k \in DOMAIN t : t[k] = s[k]
  BY PrefixListed
<1>2. DOMAIN t = 1 .. Len(t) /\ Len(t) \in Nat
  <2>1. t \in Seq(Range(t))
    BY <1>1 DEF Listed
  <2> HIDE DEF t
  <2> QED
    BY <2>1
<1> HIDE DEF t
<1> SUFFICES ASSUME NEW i \in DOMAIN t, schema_errors(t[i]) = {}, t[i].id \notin HandIds
             PROVE  \E seed \in Seeds : \A m \in 1 .. i :
                        m \in DOMAIN valid_events(seed) /\ valid_events(seed)[m] = t[m]
  BY DEF InFileOrder, t
<1>3. i \in DOMAIN s /\ \A m \in 1 .. i : t[m] = s[m]
  BY <1>1, <1>2
<1>4. t[i] = s[i]
  BY <1>1
<1>5. PICK seed \in Seeds : \A m \in 1 .. i :
          m \in DOMAIN valid_events(seed) /\ valid_events(seed)[m] = s[m]
  BY <1>3, <1>4 DEF InFileOrder
<1> QED
  BY <1>3, <1>5

\* The files of the generator, and one written by hand.
LEMMA SourceOrder ==
    /\ InFileOrder(Handmade) /\ InFileOrder(<<>>)
    /\ \A seed \in Seeds : InFileOrder(valid_events(seed)) /\ InFileOrder(invalid_events(seed))
<1>1. InFileOrder(Handmade)
  BY DEF InFileOrder, HandIds, Range
<1>2. InFileOrder(<<>>)
  BY DEF InFileOrder
<1>3. ASSUME NEW seed \in Seeds PROVE InFileOrder(valid_events(seed))
  <2> DEFINE s == valid_events(seed)
  <2>1. s \in Seq(Range(s))
    BY ValidFile DEF Listed
  <2> HIDE DEF s
  <2>2. DOMAIN s = 1 .. Len(s) /\ Len(s) \in Nat
    BY <2>1
  <2>3. \A i \in DOMAIN s : \A m \in 1 .. i : m \in DOMAIN s
    BY <2>2
  <2> QED
    BY <2>3 DEF InFileOrder, s
<1>4. ASSUME NEW seed \in Seeds PROVE InFileOrder(invalid_events(seed))
  BY InvalidFile DEF InFileOrder, Range
<1> QED
  BY <1>1, <1>2, <1>3, <1>4


\* A line of the generator is routed to its place, and to a raw topic as it is.
LEMMA LineRouted ==
    ASSUME IngestionInv, NEW f \in SourceFiles, NEW mode \in Modes,
           NEW i \in DOMAIN files[f].records
    PROVE  LET line == files[f].records[i]
               r == plan_routes(PublisherInput(f, mode))[i]
           IN  /\ WellFormed(line) => r.to = RightPlace(line)
               /\ Raw(r.to) => /\ r.record.id = line.id
                               /\ line.id \notin HandIds => schema_errors(line) = {}
<1> DEFINE given == files[f].records
           input == PublisherInput(f, mode)
           r == plan_routes(input)[i]
<1>1. /\ DOMAIN input = DOMAIN given /\ given[i] \in GivenRecords
      /\ Stamped(input[i], mode) /\ input[i].id = given[i].id
      /\ r = route(input[i])
  BY PublisherRoutes DEF SourceFiles
<1> HIDE DEF given, input, r
<1>2. PICK g \in GivenRecords : StampOf(g, input[i], mode)
  BY <1>1 DEF Stamped
<1>3. g = given[i]
  BY <1>1, <1>2, StampedErrors, OneRecord
<1>4. /\ r.to = RightPlace(input[i])
      /\ schema_errors(input[i]) = {} => r.record = input[i]
  BY <1>1, <1>2, RouteOf DEF StampOf
<1>5. Raw(RightPlace(input[i])) <=> schema_errors(input[i]) = {}
  BY RawPlace DEF Raw
<1>6. /\ WellFormed(given[i]) => /\ schema_errors(input[i]) = schema_errors(given[i])
                                 /\ RightPlace(input[i]) = RightPlace(given[i])
      /\ given[i].id \notin HandIds => WellFormed(given[i])
  BY <1>1, <1>2, <1>3, StampedErrors, StampedPlace, GivenRecord
<1> QED
  BY <1>1, <1>4, <1>5, <1>6 DEF given, input, r

\* The publisher writes the events of a file to a topic in the file's order.
LEMMA BatchClosed ==
    ASSUME IngestionInv, OrderInv, NEW f \in SourceFiles, NEW mode \in Modes,
           NEW topic, Raw(topic), NEW records,
           LET own == RoutesTo(plan_routes(PublisherInput(f, mode)), topic)
           IN  /\ DOMAIN records = DOMAIN own
               /\ \A k \in DOMAIN own : records[k] = own[k].record
    PROVE  Closed(topic, records)
<1> DEFINE given == files[f].records
           routes == plan_routes(PublisherInput(f, mode))
           places == { i \in DOMAIN routes : routes[i].to = topic }
           own == Picked(routes, places)
<1>1. Listed(routes) /\ DOMAIN routes = DOMAIN given
  BY PublisherRoutes DEF SourceFiles
<1>2. DOMAIN records = DOMAIN own /\ \A k \in DOMAIN own : records[k] = own[k].record
  BY DEF RoutesTo
<1>3. \A i : i \in places <=> i \in DOMAIN routes /\ routes[i].to = topic
  OBVIOUS
<1>4. InFileOrder(given)
  BY DEF OrderInv
<1>5. \A i \in DOMAIN given :
          /\ WellFormed(given[i]) => routes[i].to = RightPlace(given[i])
          /\ Raw(routes[i].to) => /\ routes[i].record.id = given[i].id
                                  /\ given[i].id \notin HandIds => schema_errors(given[i]) = {}
  BY LineRouted
<1> HIDE DEF given, routes, places
<1>6. Listed(own)
  BY <1>1, PickedProperties
<1>7. DOMAIN own = 1 .. Len(own) /\ Len(own) \in Nat
  <2>1. own \in Seq(Range(own))
    BY <1>6 DEF Listed
  <2> HIDE DEF own
  <2> QED
    BY <2>1
<1> SUFFICES ASSUME NEW j \in DOMAIN own, records[j].id \notin HandIds
             PROVE  \E seed \in Seeds : \E n \in DOMAIN valid_events(seed) :
                        /\ valid_events(seed)[n].id = records[j].id
                        /\ Behind(topic, records, j, seed, n)
  BY <1>2 DEF Closed
<1>8. PICK i \in DOMAIN routes :
          /\ i \in places /\ routes[i] = own[j]
          /\ \A m \in 1 .. i - 1 : m \in places => \E l \in 1 .. j - 1 : own[l] = routes[m]
  BY <1>1, PickedInOrder
<1> HIDE DEF own
<1>9. records[j].id = given[i].id /\ schema_errors(given[i]) = {} /\ i \in DOMAIN given
  BY <1>1, <1>2, <1>3, <1>5, <1>8
<1>10. PICK seed \in Seeds : \A m \in 1 .. i :
           m \in DOMAIN valid_events(seed) /\ valid_events(seed)[m] = given[m]
  BY <1>4, <1>9 DEF InFileOrder
<1>11. i \in 1 .. i /\ \A m \in 1 .. i - 1 : m \in 1 .. i /\ m \in DOMAIN given
  <2>1. given \in Seq(Range(given))
    BY PublisherRoutes DEF SourceFiles, given, Listed
  <2>2. DOMAIN given = 1 .. Len(given) /\ Len(given) \in Nat
    BY <2>1
  <2> QED
    BY <1>9, <2>2
<1>12. ASSUME NEW m \in 1 .. i - 1, RightPlace(valid_events(seed)[m]) = topic
       PROVE  \E k \in 1 .. j - 1 : records[k].id = valid_events(seed)[m].id
  <2>1. valid_events(seed)[m] = given[m] /\ m \in DOMAIN given /\ WellFormed(given[m])
    <3>1. m \in DOMAIN valid_events(seed) /\ valid_events(seed)[m] = given[m]
      BY <1>10, <1>11
    <3>2. valid_events(seed)[m] \in Range(valid_events(seed))
      BY <3>1 DEF Range
    <3> QED
      BY <1>11, <3>1, <3>2, ValidFile
  <2>2. routes[m].to = topic /\ routes[m].record.id = given[m].id /\ m \in places
    BY <1>1, <1>3, <1>5, <1>12, <2>1
  <2>3. PICK k \in 1 .. j - 1 : own[k] = routes[m]
    BY <1>8, <2>2
  <2>4. k \in DOMAIN own
    BY <1>7
  <2> QED
    BY <1>2, <2>1, <2>2, <2>3, <2>4
<1>13. i \in DOMAIN valid_events(seed) /\ valid_events(seed)[i].id = records[j].id
  BY <1>9, <1>10, <1>11
<1> QED
  BY <1>12, <1>13 DEF Behind

\* What a run of the publisher is going to write.
LEMMA PublishOrdered ==
    ASSUME IngestionInv, OrderInv, NEW f \in SourceFiles, NEW mode \in Modes, Publish(f, mode)
    PROVE  \A m \in DOMAIN work' : OrderedWrite(work'[m])
<1> DEFINE routes == plan_routes(PublisherInput(f, mode))
           writes == publish_writes(routes)
<1>1. work' = writes
  BY DEF Publish, Start, PublisherInput
<1>2. Listed(routes) /\ OneRouteEach(routes)
  BY PublisherRoutes DEF SourceFiles
<1> HIDE DEF routes
<1> SUFFICES ASSUME NEW m \in DOMAIN writes PROVE OrderedWrite(writes[m])
  BY <1>1
<1> DEFINE w == writes[m]
<1>3. /\ w.op \in {"append", "produce"}
      /\ w.op = "produce" =>
             LET own == RoutesTo(routes, w.to)
             IN  /\ DOMAIN w.records = DOMAIN own
                 /\ \A k \in DOMAIN own : w.records[k] = own[k].record
  BY <1>2, PublishWrites DEF PublisherWrite
<1> HIDE DEF writes
<1>4. ASSUME w.op = "produce", Raw(w.to) PROVE Closed(w.to, w.records)
  <2> DEFINE topic == w.to
             records == w.records
  <2>1. /\ DOMAIN records = DOMAIN RoutesTo(routes, topic)
        /\ \A k \in DOMAIN RoutesTo(routes, topic) :
               records[k] = RoutesTo(routes, topic)[k].record
    BY <1>3, <1>4
  <2>2. Raw(topic)
    BY <1>4
  <2> HIDE DEF topic, records
  <2>3. Closed(topic, records)
    BY <2>1, <2>2, BatchClosed DEF routes
  <2> QED
    BY <2>3 DEF topic, records
<1> QED
  BY <1>3, <1>4 DEF OrderedWrite

\* The other commands write no batch, and only the generator a source file.
LEMMA OthersOrdered ==
    ASSUME \/ CreateTopics
           \/ \E fs \in InputFiles : Validate(fs)
           \/ \E seed \in Seeds : Generate(seed)
    PROVE  \A m \in DOMAIN work' : OrderedWrite(work'[m])
<1>1. CASE CreateTopics
  BY <1>1 DEF CreateTopics, Start, Write, OrderedWrite
<1>2. ASSUME NEW fs \in InputFiles, Validate(fs)
      PROVE  \A m \in DOMAIN work' : OrderedWrite(work'[m])
  <2> DEFINE lines == FlattenSeq([ i \in DOMAIN fs |-> Lines(fs[i]) ])
             failed == Picked(lines, { i \in DOMAIN lines : ~Accepted(lines[i]) })
             v == Write("write", "accepted",
                        Picked(lines, { i \in DOMAIN lines : Accepted(lines[i]) }))
             w == Write("write", "rejected", [ i \in DOMAIN failed |-> rejected_entry(failed[i]) ])
  <2>1. work' = <<v, w>>
    BY <1>2 DEF Validate, Start
  <2>2. OrderedWrite(v) /\ OrderedWrite(w)
    BY DEF Write, OrderedWrite, SourceFiles
  <2> HIDE DEF v, w
  <2> QED
    BY <2>1, <2>2, TwoWrites
<1>3. ASSUME NEW seed \in Seeds, Generate(seed)
      PROVE  \A m \in DOMAIN work' : OrderedWrite(work'[m])
  <2> DEFINE v == Write("write", "valid", valid_events(seed))
             w == Write("write", "invalid", invalid_events(seed))
  <2>1. work' = <<v, w>>
    BY <1>3 DEF Generate, Start
  <2>2. OrderedWrite(v) /\ OrderedWrite(w)
    BY SourceOrder DEF Write, OrderedWrite
  <2> HIDE DEF v, w
  <2> QED
    BY <2>1, <2>2, TwoWrites
<1> QED
  BY <1>1, <1>2, <1>3

\* A command that starts.
LEMMA OrderAtStart ==
    ASSUME OrderInv, UNCHANGED <<files, topics>>, \A m \in DOMAIN work' : OrderedWrite(work'[m])
    PROVE  OrderInv'
BY DEF OrderInv

\* What is left to write, or given up.
LEMMA OrderOfRest ==
    ASSUME IngestionInv, OrderInv, work # <<>>, work' = Tail(work) \/ Stop
    PROVE  \A m \in DOMAIN work' : OrderedWrite(work'[m])
<1>1. CASE work' = Tail(work)
  <2>1. \A m \in DOMAIN Tail(work) : m + 1 \in DOMAIN work /\ Tail(work)[m] = work[m + 1]
    BY TailListed DEF IngestionInv, WorkInv
  <2> QED
    BY <1>1, <2>1 DEF OrderInv
<1>2. CASE Stop
  <2>1. work' = <<>> /\ DOMAIN <<>> = {}
    BY <1>2 DEF Stop
  <2> QED
    BY <2>1
<1> QED
  BY <1>1, <1>2

\* A file that is written, all of it or its first lines.
LEMMA OrderInFile ==
    ASSUME IngestionInv, OrderInv, NEW to \in FileNames, NEW file,
           to \in SourceFiles => InFileOrder(file.records),
           files' = [files EXCEPT ![to] = file], UNCHANGED topics,
           \A m \in DOMAIN work' : OrderedWrite(work'[m])
    PROVE  OrderInv'
<1>1. DOMAIN files = FileNames
  BY DEF IngestionInv, FilesInv
<1>2. \A f \in SourceFiles : f \in FileNames
  BY DEF SourceFiles, FileNames
<1>3. \A f \in SourceFiles : files'[f] = IF f = to THEN file ELSE files[f]
  BY <1>1, <1>2
<1>4. \A f \in SourceFiles : InFileOrder(files'[f].records)
  BY <1>3 DEF OrderInv
<1> QED
  BY <1>4 DEF OrderInv

\* A topic that a batch is put to, all of it or its first records.
LEMMA OrderInTopic ==
    ASSUME IngestionInv, OrderInv, NEW to \in DOMAIN topics, NEW batch, Listed(batch),
           Raw(to) => Closed(to, batch),
           topics' = [topics EXCEPT ![to] = @ \o batch], UNCHANGED files,
           \A m \in DOMAIN work' : OrderedWrite(work'[m])
    PROVE  OrderInv'
<1>1. /\ DOMAIN topics' = DOMAIN topics
      /\ \A t \in DOMAIN topics : topics'[t] = IF t = to THEN topics[to] \o batch ELSE topics[t]
  OBVIOUS
<1>2. Listed(topics[to])
  BY DEF IngestionInv, TopicsInv
<1>3. Raw(to) => Closed(to, topics[to] \o batch)
  BY <1>2, ClosedConcat DEF OrderInv
<1>4. \A t \in DOMAIN topics' : Raw(t) => Closed(t, topics'[t])
  BY <1>1, <1>3 DEF OrderInv
<1> QED
  BY <1>4 DEF OrderInv


\* Nor does a killed write leave an event of the generator without those
\* before it.
LEMMA OrderAtBreak ==
    ASSUME IngestionInv, OrderInv, Break
    PROVE  OrderInv'
<1> DEFINE w == Head(work)
           part(n) == SubSeq(w.records, 1, n)
<1>1. Stop /\ work # <<>>
  BY DEF Break
<1>2. \A m \in DOMAIN work' : OrderedWrite(work'[m])
  BY <1>1, OrderOfRest
<1>3. Listed(w.records) /\ OrderedWrite(w)
  BY <1>1, NextWrite DEF OrderInv
<1>4. PICK n \in 0 .. Len(w.records) - 1 :
          \/ /\ w.op = "write"
             /\ \E torn \in BOOLEAN :
                   files' = [files EXCEPT ![w.to] =
                     [ exists |-> TRUE, records |-> part(n), torn |-> torn ]]
             /\ UNCHANGED topics
          \/ /\ w.op = "produce" /\ w.to \in DOMAIN topics /\ n > 0
             /\ topics' = [topics EXCEPT ![w.to] = @ \o part(n)]
             /\ UNCHANGED files
  BY DEF Break
<1>5. n \in 0 .. Len(w.records)
  <2> DEFINE R == Range(w.records)
             x == w.records
  <2>1. x \in Seq(R)
    BY <1>3 DEF Listed
  <2>2. n \in 0 .. Len(x) - 1
    OBVIOUS
  <2> HIDE DEF R, x
  <2>3. n \in 0 .. Len(x)
    BY <2>1, <2>2
  <2> QED
    BY <2>3 DEF x
<1>6. Listed(part(n))
  BY <1>3, <1>5, PrefixListed
<1>7. InFileOrder(w.records) => InFileOrder(part(n))
  BY <1>3, <1>5, FileOrderPrefix
<1>8. \A topic : Closed(topic, w.records) => Closed(topic, part(n))
  BY <1>3, <1>5, ClosedPrefix
<1> HIDE DEF part
<1>9. ASSUME NEW torn \in BOOLEAN, w.op = "write", UNCHANGED topics,
             files' = [files EXCEPT ![w.to] =
               [ exists |-> TRUE, records |-> part(n), torn |-> torn ]]
      PROVE  OrderInv'
  <2> DEFINE to == w.to
             file == [ exists |-> TRUE, records |-> part(n), torn |-> torn ]
  <2>1. to \in FileNames
    BY <1>1, <1>9, NextWrite DEF PublisherWrite, OtherWrite
  <2>2. to \in SourceFiles => InFileOrder(file.records)
    BY <1>3, <1>7, <1>9 DEF OrderedWrite
  <2>3. files' = [files EXCEPT ![to] = file]
    BY <1>9
  <2> HIDE DEF to, file
  <2> QED
    BY <1>2, <1>9, <2>1, <2>2, <2>3, OrderInFile
<1>10. ASSUME w.op = "produce", w.to \in DOMAIN topics, UNCHANGED files,
              topics' = [topics EXCEPT ![w.to] = @ \o part(n)]
       PROVE  OrderInv'
  <2> DEFINE to == w.to
             batch == part(n)
  <2>1. to \in DOMAIN topics /\ topics' = [topics EXCEPT ![to] = @ \o batch]
    BY <1>10
  <2>2. Raw(to) => Closed(to, batch)
    BY <1>3, <1>8, <1>10 DEF OrderedWrite
  <2>3. Listed(batch)
    BY <1>6
  <2> HIDE DEF to, batch
  <2> QED
    BY <1>2, <1>10, <2>1, <2>2, <2>3, OrderInTopic
<1> QED
  BY <1>4, <1>9, <1>10

LEMMA OrderStep ==
    ASSUME IngestionInv, OrderInv, IngestionNext
    PROVE  OrderInv'
<1>1. CASE \/ CreateTopics
           \/ \E fs \in InputFiles : Validate(fs)
           \/ \E seed \in Seeds : Generate(seed)
  <2>1. UNCHANGED <<files, topics>>
    BY <1>1 DEF CreateTopics, Validate, Generate, Start
  <2> QED
    BY <1>1, <2>1, OthersOrdered, OrderAtStart
<1>2. ASSUME NEW f \in SourceFiles, NEW mode \in Modes, Publish(f, mode)
      PROVE  OrderInv'
  <2>1. UNCHANGED <<files, topics>>
    BY <1>2 DEF Publish, Start
  <2> QED
    BY <1>2, <2>1, PublishOrdered, OrderAtStart
<1>3. CASE CreateTopic
  <2>1. /\ work # <<>> /\ work' = Tail(work) /\ UNCHANGED files
        /\ \A t \in DOMAIN topics' : topics'[t] = IF t \in DOMAIN topics THEN topics[t] ELSE <<>>
    BY <1>3 DEF CreateTopic, Next_write
  <2>2. \A t : Closed(t, <<>>)
    BY DEF Closed
  <2>3. \A m \in DOMAIN work' : OrderedWrite(work'[m])
    BY <2>1, OrderOfRest
  <2>4. \A t \in DOMAIN topics' : Raw(t) => Closed(t, topics'[t])
    BY <2>1, <2>2 DEF OrderInv
  <2> QED
    BY <2>1, <2>3, <2>4 DEF OrderInv
<1>4. CASE WriteFile
  <2> DEFINE to == Head(work).to
             file == File(Head(work).records)
  <2>1. /\ work # <<>> /\ Head(work).op = "write" /\ work' = Tail(work)
        /\ UNCHANGED topics /\ files' = [files EXCEPT ![to] = file]
    BY <1>4 DEF WriteFile, Next_write
  <2>2. to \in FileNames
    BY <2>1, NextWrite DEF PublisherWrite, OtherWrite
  <2>3. to \in SourceFiles => InFileOrder(file.records)
    BY <2>1, NextWrite DEF OrderInv, OrderedWrite, File
  <2>4. \A m \in DOMAIN work' : OrderedWrite(work'[m])
    BY <2>1, OrderOfRest
  <2> HIDE DEF to, file
  <2> QED
    BY <2>1, <2>2, <2>3, <2>4, OrderInFile
<1>5. CASE AppendFallback
  <2> DEFINE file == File(files[Fallback].records \o Head(work).records)
  <2>1. /\ work # <<>> /\ work' = Tail(work)
        /\ UNCHANGED topics /\ files' = [files EXCEPT ![Fallback] = file]
    BY <1>5 DEF AppendFallback, Next_write
  <2>2. Fallback \in FileNames /\ Fallback \notin SourceFiles
    BY DEF FileNames, SourceFiles, Fallback
  <2>3. \A m \in DOMAIN work' : OrderedWrite(work'[m])
    BY <2>1, OrderOfRest
  <2> HIDE DEF file
  <2> QED
    BY <2>1, <2>2, <2>3, OrderInFile
<1>6. CASE Produce
  <2> DEFINE to == Head(work).to
             batch == Head(work).records
  <2>1. /\ work # <<>> /\ Head(work).op = "produce" /\ work' = Tail(work)
        /\ UNCHANGED files /\ to \in DOMAIN topics
        /\ topics' = [topics EXCEPT ![to] = @ \o batch]
    BY <1>6 DEF Produce, Next_write
  <2>2. Listed(batch)
    BY <2>1, NextWrite
  <2>3. Raw(to) => Closed(to, batch)
    BY <2>1, NextWrite DEF OrderInv, OrderedWrite
  <2>4. \A m \in DOMAIN work' : OrderedWrite(work'[m])
    BY <2>1, OrderOfRest
  <2> HIDE DEF to, batch
  <2> QED
    BY <2>1, <2>2, <2>3, <2>4, OrderInTopic
<1>7. CASE ProduceRefused \/ Kill
  <2>1. Stop /\ work # <<>> /\ UNCHANGED <<files, topics>>
    BY <1>7 DEF ProduceRefused, Kill, Next_write
  <2> QED
    BY <2>1, OrderOfRest, OrderAtStart
<1>8. CASE Finish
  <2>1. work' = <<>> /\ DOMAIN <<>> = {} /\ UNCHANGED <<files, topics>>
    BY <1>8 DEF Finish, Stop
  <2> QED
    BY <2>1, OrderAtStart
<1>9. CASE Break
  BY <1>9, OrderAtBreak
<1> QED
  BY <1>1, <1>2, <1>3, <1>4, <1>5, <1>6, <1>7, <1>8, <1>9 DEF IngestionNext, SourceFiles

\* However often a file is published and wherever a run is killed, a raw topic
\* has no event of the generator that is not preceded by a copy of each event
\* its file has before it (for the same topic).
THEOREM OrderIsInductive == Spec => []OrderInv
<1>1. Init => OrderInv
  <2> SUFFICES ASSUME Init PROVE OrderInv
    OBVIOUS
  <2>1. /\ files = [ f \in FileNames |-> IF f = "handmade" THEN File(Handmade) ELSE NoFile ]
        /\ topics = << >> /\ work = <<>>
    BY DEF Init, IngestionInit
  <2>2. \A f \in SourceFiles : files[f].records \in {Handmade, <<>>}
    BY <2>1 DEF SourceFiles, FileNames, File, NoFile
  <2>3. DOMAIN topics = {} /\ DOMAIN work = {}
    BY <2>1
  <2> QED
    BY <2>2, <2>3, SourceOrder DEF OrderInv
<1>2. IngestionInv /\ OrderInv /\ [Next]_<<vars, readings>> => OrderInv'
  <2> SUFFICES ASSUME IngestionInv, OrderInv, [Next]_<<vars, readings>> PROVE OrderInv'
    OBVIOUS
  <2>1. CASE UNCHANGED vars
    BY <2>1 DEF vars, OrderInv
  <2>2. CASE IngestionNext
    BY <2>2, OrderStep
  <2> QED
    BY <2>1, <2>2 DEF Next
<1> QED
  BY <1>1, <1>2, IngestionIsInductive, PTL DEF Spec


-----------------------------------------------------------------------------
(* The events of the generator, and their copies in a topic.               *)

\* Each event has its place in the file, and each place its event.
LEMMA EventPlaces ==
    ASSUME NEW seed
    PROVE  /\ \A a \in DOMAIN asset_tags, p \in 1 .. Profile.periods :
                  /\ (a - 1) * Profile.periods + p \in DOMAIN valid_events(seed)
                  /\ valid_events(seed)[(a - 1) * Profile.periods + p] = valid_event(a, seed, p - 1)
           /\ \A n \in DOMAIN valid_events(seed) :
                  \E a \in DOMAIN asset_tags, p \in 1 .. Profile.periods :
                      n = (a - 1) * Profile.periods + p
<1> DEFINE V == EventsOf(seed)
           rows == EventRows(seed)
           file == valid_events(seed)
           m == Profile.periods
<1>1. /\ file = FlattenSeq(rows) /\ rows \in Seq(Seq(V)) /\ m \in Nat
      /\ DOMAIN asset_tags = 1 .. Len(rows)
      /\ \A i \in 1 .. Len(rows) : Len(rows[i]) = m
  BY ValidRows, AssetTags, ListsAssumption
<1>2. \A i \in DOMAIN asset_tags : \A p \in 1 .. m : rows[i][p] = valid_event(i, seed, p - 1)
  BY ValidRows
<1> HIDE DEF V, rows, file, m
<1>3. Blocks(rows, m, FlattenSeq(rows))
  BY <1>1, FlattenBlocks
<1>4. /\ \A a \in DOMAIN asset_tags, p \in 1 .. m :
             (a - 1) * m + p \in DOMAIN file /\ file[(a - 1) * m + p] = valid_event(a, seed, p - 1)
      /\ \A n \in DOMAIN file :
             \E a \in DOMAIN asset_tags, p \in 1 .. m : n = (a - 1) * m + p
  BY <1>1, <1>2, <1>3 DEF Blocks
<1> QED
  BY <1>4 DEF file, m

\* The times of a scenario: in step with the file, a quarter of an hour late,
\* or ten minutes further apart.
LEMMA EventTimes ==
    ASSUME NEW a \in DOMAIN asset_tags, NEW seed \in Seeds, NEW p \in 1 .. Profile.periods
    PROVE  LET g == valid_event(a, seed, p - 1)
               first == (a - 1) * Profile.periods
           IN  /\ first \in Int /\ g.id \in Int /\ g.period = p - 1 /\ g.tag = asset_tags[a].tag
               /\ g.event_time = CASE g.scenario = "late" -> first + p - 16
                                   [] g.scenario = "missing_heartbeat" -> first + 11 * (p - 1)
                                   [] OTHER -> first + p - 1
               /\ g.quality_flags = IF g.scenario = "normal" THEN {} ELSE {g.scenario}
<1> DEFINE g == valid_event(a, seed, p - 1)
           first == (a - 1) * Profile.periods
           ordinal == first + (p - 1)
           times == event_times(ordinal, scenario_name(a, seed), p - 1)
<1>1. first \in Int /\ ordinal \in Int /\ p \in Int /\ seed \in Int
  BY AssetTags, ListsAssumption
<1>2. /\ g.id = stable_event_id(seed, ordinal) /\ g.event_time = times[1]
      /\ g.period = p - 1 /\ g.tag = asset_tags[a].tag
      /\ g.scenario = scenario_name(a, seed)
      /\ g.quality_flags = IF scenario_name(a, seed) = "normal" THEN {}
                           ELSE {scenario_name(a, seed)}
  BY DEF valid_event
<1> HIDE DEF g
<1>3. times[1] = CASE g.scenario = "late" -> ordinal - 15
                   [] g.scenario = "missing_heartbeat" -> ordinal + (p - 1) * 10
                   [] OTHER -> ordinal
  BY <1>2 DEF event_times
<1>4. /\ ordinal = first + (p - 1) /\ ordinal - 15 = first + p - 16
      /\ ordinal + (p - 1) * 10 = first + 11 * (p - 1) /\ ordinal = first + p - 1
  <2> HIDE DEF first
  <2> QED
    BY <1>1
<1>5. stable_event_id(seed, ordinal) \in Int
  BY <1>1 DEF stable_event_id
<1> HIDE DEF first, ordinal, times
<1> QED
  BY <1>1, <1>2, <1>3, <1>4, <1>5 DEF g, first

\* A copy of a file's record: only what is stamped may differ, and a time in the
\* past is the file's.
CopyOf(s, g) ==
    /\ DOMAIN s = RecordFields
    /\ \A f \in KeptFields : s[f] = g[f]
    /\ s.event_time < Now => s.event_time = g.event_time /\ s.fraction = g.fraction

\* What a raw topic holds are copies of records of the files; those of the
\* generator are accepted by the contract.
LEMMA StoredCopy ==
    ASSUME IngestionInv, NEW topic \in DOMAIN topics, Raw(topic),
           NEW j \in DOMAIN topics[topic]
    PROVE  \E g \in GivenRecords : /\ CopyOf(topics[topic][j], g)
                                   /\ WellFormed(g) => RightPlace(g) = topic
<1> DEFINE s == topics[topic][j]
<1>1. Routed(topic, s)
  BY DEF IngestionInv, TopicsInv, Range
<1> HIDE DEF s
<1>2. PICK k \in DOMAIN published : \E r \in Range(published[k].input) :
                                        route(r) = [ to |-> topic, record |-> s ]
  BY <1>1 DEF Routed, Inputs
<1>3. PICK r \in Range(published[k].input) : route(r) = [ to |-> topic, record |-> s ]
  BY <1>2
<1>4. route(r).to = topic /\ route(r).record = s
  BY <1>3
<1>5. PICK g \in GivenRecords : StampOf(g, r, published[k].mode)
  BY DEF IngestionInv, PublishedInv, Stamped
<1>6. r = s /\ topic = RightPlace(r)
  BY <1>4, <1>5, RouteOf, RawPlace DEF Raw, StampOf
<1>7. r.event_time < Now => r.event_time = g.event_time /\ r.fraction = g.fraction
  BY <1>5, NowAssumption DEF StampOf
<1>8. CopyOf(s, g)
  BY <1>5, <1>6, <1>7 DEF CopyOf, StampOf
<1> QED
  BY <1>5, <1>6, <1>8, StampedPlace DEF s

\* Those of the generator come after those their file has before them.
LEMMA GeneratedCopy ==
    ASSUME IngestionInv, OrderInv, NEW topic \in DOMAIN topics, Raw(topic),
           NEW j \in DOMAIN topics[topic], topics[topic][j].id \notin HandIds
    PROVE  \E seed \in Seeds : \E n \in DOMAIN valid_events(seed) :
               /\ CopyOf(topics[topic][j], valid_events(seed)[n])
               /\ RightPlace(valid_events(seed)[n]) = topic
               /\ Behind(topic, topics[topic], j, seed, n)
<1> DEFINE s == topics[topic]
<1>1. PICK seed \in Seeds : \E n \in DOMAIN valid_events(seed) :
          valid_events(seed)[n].id = s[j].id /\ Behind(topic, s, j, seed, n)
  BY DEF OrderInv, Closed
<1>2. PICK n \in DOMAIN valid_events(seed) :
          valid_events(seed)[n].id = s[j].id /\ Behind(topic, s, j, seed, n)
  BY <1>1
<1>3. PICK g \in GivenRecords : CopyOf(s[j], g) /\ (WellFormed(g) => RightPlace(g) = topic)
  BY StoredCopy
<1> HIDE DEF s
<1>4. s[j].id = g.id
  BY <1>3 DEF CopyOf, KeptFields, RecordFields
<1>5. valid_events(seed)[n] \in GivenRecords /\ WellFormed(valid_events(seed)[n])
  BY ValidFile DEF GivenRecords, Range
<1>6. g = valid_events(seed)[n]
  BY <1>2, <1>4, <1>5, OneRecord
<1> QED
  BY <1>2, <1>3, <1>5, <1>6 DEF s

\* The raw topic of a tenant, if it exists.
LEMMA RawTopic ==
    ASSUME NEW tenant
    PROVE  LET topic == render_topic("raw_sensor_events", tenant)
           IN  /\ Raw(topic)
               /\ Stored(topic) = IF topic \in DOMAIN topics THEN topics[topic] ELSE <<>>
<1>1. <<"raw_sensor_events", tenant>> # <<Fallback>>
  BY DEF Fallback
<1> QED
  BY <1>1 DEF render_topic, Raw, Stored

\* An event of a generated file that is late behind another of a scenario
\* without gaps has a lower number; its first copy is before the other.
LEMMA LateBehindNone ==
    ASSUME IngestionInv, OrderInv, NEW topic \in DOMAIN topics, Raw(topic),
           NEW stream, stream = topics[topic],
           Backfilled(stream), DistinctIds(stream),
           NEW seed \in Seeds,
           \A r \in Range(stream) : \E g \in Range(valid_events(seed)) : g.id = r.id,
           NEW i \in DOMAIN stream, NEW j \in DOMAIN stream, j \in 1 .. i - 1,
           is_beyond_allowed_lateness(stream[i].event_time,
                                      watermark_for(stream[j].event_time))
    PROVE  stream[j].scenario = "missing_heartbeat"
<1> SUFFICES ASSUME stream[j].scenario # "missing_heartbeat" PROVE FALSE
  OBVIOUS
<1>1. ASSUME NEW k \in DOMAIN stream
      PROVE  \E n \in DOMAIN valid_events(seed) :
                 /\ CopyOf(stream[k], valid_events(seed)[n])
                 /\ RightPlace(valid_events(seed)[n]) = topic
                 /\ Behind(topic, stream, k, seed, n)
                 /\ stream[k].event_time = valid_events(seed)[n].event_time
  <2>1. stream[k] \in Range(stream)
    BY DEF Range
  <2>2. stream[k].id \notin HandIds /\ stream[k].event_time < Now
    BY <2>1 DEF Backfilled
  <2>3. PICK s \in Seeds : \E n \in DOMAIN valid_events(s) :
            /\ CopyOf(stream[k], valid_events(s)[n])
            /\ RightPlace(valid_events(s)[n]) = topic
            /\ Behind(topic, stream, k, s, n)
    BY <2>2, GeneratedCopy
  <2>4. PICK n \in DOMAIN valid_events(s) :
            /\ CopyOf(stream[k], valid_events(s)[n])
            /\ RightPlace(valid_events(s)[n]) = topic
            /\ Behind(topic, stream, k, s, n)
    BY <2>3
  <2>5. PICK g \in Range(valid_events(seed)) : g.id = stream[k].id
    BY <2>1
  <2>6. stream[k].id = valid_events(s)[n].id
    BY <2>4 DEF CopyOf, KeptFields, RecordFields
  <2>7. valid_events(s)[n] \in Range(valid_events(s))
    BY DEF Range
  <2>8. s = seed
    BY <2>5, <2>6, <2>7, IdentityAssumption
  <2> QED
    BY <2>2, <2>4, <2>8 DEF CopyOf
<1>2. PICK n \in DOMAIN valid_events(seed) :
          /\ CopyOf(stream[i], valid_events(seed)[n])
          /\ RightPlace(valid_events(seed)[n]) = topic
          /\ stream[i].event_time = valid_events(seed)[n].event_time
  BY <1>1
<1>3. PICK m \in DOMAIN valid_events(seed) :
          /\ CopyOf(stream[j], valid_events(seed)[m])
          /\ Behind(topic, stream, j, seed, m)
          /\ stream[j].event_time = valid_events(seed)[m].event_time
  BY <1>1
<1>4. \A l \in DOMAIN valid_events(seed) :
          /\ l \in Nat \ {0}
          /\ valid_events(seed)[l].event_time \in Int
          /\ valid_events(seed)[l].event_time >= l - 16
          /\ valid_events(seed)[l].scenario # "missing_heartbeat" =>
                 valid_events(seed)[l].event_time <= l - 1
  <2> SUFFICES ASSUME NEW l \in DOMAIN valid_events(seed)
               PROVE  /\ l \in Nat \ {0}
                      /\ valid_events(seed)[l].event_time \in Int
                      /\ valid_events(seed)[l].event_time >= l - 16
                      /\ valid_events(seed)[l].scenario # "missing_heartbeat" =>
                             valid_events(seed)[l].event_time <= l - 1
    OBVIOUS
  <2>1. PICK a \in DOMAIN asset_tags, p \in 1 .. Profile.periods :
            l = (a - 1) * Profile.periods + p
    BY EventPlaces
  <2> DEFINE g == valid_event(a, seed, p - 1)
             first == (a - 1) * Profile.periods
  <2>2. valid_events(seed)[l] = g
    BY <2>1, EventPlaces
  <2>3. /\ first \in Int
        /\ g.event_time = CASE g.scenario = "late" -> first + p - 16
                            [] g.scenario = "missing_heartbeat" -> first + 11 * (p - 1)
                            [] OTHER -> first + p - 1
    BY EventTimes
  <2>4. l = first + p
    BY <2>1
  <2> HIDE DEF g, first
  <2>5. p \in Nat /\ p >= 1
    BY ListsAssumption
  <2>6. /\ g.event_time \in Int /\ g.event_time >= l - 16
        /\ g.scenario # "missing_heartbeat" => g.event_time <= l - 1
    BY <2>3, <2>4, <2>5
  <2>7. l \in Nat \ {0}
    <3>1. valid_events(seed) \in Seq(Range(valid_events(seed)))
      BY ValidFile DEF Listed
    <3> QED
      BY <3>1
  <2> QED
    BY <2>2, <2>6, <2>7
<1>5. stream[j].scenario = valid_events(seed)[m].scenario
  BY <1>3 DEF CopyOf, KeptFields, RecordFields
<1>6. n < m
  <2> DEFINE x == stream[i].event_time
             y == stream[j].event_time
  <2>1. x < (y - WatermarkDelay) - AllowedLateness
    BY DEF is_beyond_allowed_lateness, watermark_for
  <2>2. x \in Int /\ y \in Int /\ x >= n - 16 /\ y <= m - 1 /\ n \in Nat /\ m \in Nat
    BY <1>2, <1>3, <1>4, <1>5
  <2> HIDE DEF x, y
  <2> QED
    BY <2>1, <2>2, LatenessAssumption, LateScenarioAssumption
<1>7. n \in 1 .. m - 1
  BY <1>4, <1>6
<1>8. PICK k \in 1 .. j - 1 : stream[k].id = valid_events(seed)[n].id
  BY <1>2, <1>3, <1>7 DEF Behind
<1>9. stream[k].id = stream[i].id
  BY <1>2, <1>8 DEF CopyOf, KeptFields, RecordFields
<1>10. k \in DOMAIN stream /\ k < i
  <2>1. stream \in Seq(Range(stream))
    BY DEF IngestionInv, TopicsInv, Listed
  <2>2. DOMAIN stream = 1 .. Len(stream) /\ Len(stream) \in Nat
    BY <2>1
  <2> QED
    BY <2>2
<1>11. k = i
  BY <1>9, <1>10 DEF DistinctIds
<1>12. i \in Int
  <2>1. stream \in Seq(Range(stream))
    BY DEF IngestionInv, TopicsInv, Listed
  <2> QED
    BY <2>1
<1> QED
  BY <1>10, <1>11, <1>12

\* In one backfill of one generated file only a missing_heartbeat series makes
\* other events late, wherever the run was killed.
THEOREM LateBehindHeartbeats == Spec => []LateOnlyBehindHeartbeat
<1>1. IngestionInv /\ OrderInv => LateOnlyBehindHeartbeat
  <2> SUFFICES ASSUME IngestionInv, OrderInv, NEW tenant \in Range(TenantIds),
                      NEW stream, stream = Stored(render_topic("raw_sensor_events", tenant)),
                      Backfilled(stream), DistinctIds(stream),
                      NEW seed \in Seeds,
                      \A r \in Range(stream) :
                          \E g \in Range(valid_events(seed)) : g.id = r.id,
                      NEW i \in LateEvents(stream)
               PROVE  \E j \in 1 .. i - 1 : stream[j].scenario = "missing_heartbeat"
    BY DEF LateOnlyBehindHeartbeat
  <2> DEFINE topic == render_topic("raw_sensor_events", tenant)
  <2>1. Raw(topic) /\ stream = IF topic \in DOMAIN topics THEN topics[topic] ELSE <<>>
    BY RawTopic
  <2> HIDE DEF topic
  <2>2. PICK j \in 1 .. i - 1 :
            is_beyond_allowed_lateness(stream[i].event_time,
                                       watermark_for(stream[j].event_time))
    BY DEF LateEvents
  <2>3. i \in 2 .. Len(stream)
    BY DEF LateEvents
  <2>4. topic \in DOMAIN topics /\ stream = topics[topic]
    <3>1. CASE topic \notin DOMAIN topics
      <4>1. stream = <<>>
        BY <2>1, <3>1
      <4>2. i \in 2 .. 0
        BY <2>3, <4>1
      <4> QED
        BY <4>2
    <3> QED
      BY <2>1, <3>1
  <2>5. i \in DOMAIN stream /\ j \in DOMAIN stream
    <3>1. stream \in Seq(Range(stream))
      BY <2>4 DEF IngestionInv, TopicsInv, Listed
    <3> DEFINE R == Range(stream)
    <3> HIDE DEF R
    <3>2. stream \in Seq(R)
      BY <3>1 DEF R
    <3> QED
      BY <2>3, <3>2
  <2>6. stream[j].scenario = "missing_heartbeat"
    BY <2>1, <2>2, <2>4, <2>5, LateBehindNone
  <2> QED
    BY <2>6
<1> QED
  BY <1>1, IngestionIsInductive, OrderIsInductive, PTL


-----------------------------------------------------------------------------
(* The gaps of a series.                                                   *)

\* Events a fixed time apart, of whole seconds, none of them without those before
\* it.
Series(E, first, far) ==
    /\ Keyed(E)
    /\ \A e \in E : /\ e.period \in Nat /\ e.fraction = FALSE
                    /\ e.event_time = first + (IF far THEN 11 * e.period ELSE e.period)
                    /\ \A p \in 0 .. e.period - 1 : \E x \in E : x.period = p

\* Sorted, a series has its periods in order.
LEMMA SeriesSorted ==
    ASSUME NEW s, Listed(s), NEW first \in Int, NEW far \in BOOLEAN,
           Series(Range(s), first, far)
    PROVE  LET o == sorted_events(s)
           IN  /\ Len(o) \in Nat /\ DOMAIN o = 1 .. Len(o) /\ Range(o) = Range(s)
               /\ \A i \in 1 .. Len(o) :
                      /\ o[i] \in Range(s) /\ o[i].period \in Nat /\ o[i].fraction = FALSE
                      /\ o[i].event_time
                           = first + (IF far THEN 11 * o[i].period ELSE o[i].period)
               /\ \A i, j \in 1 .. Len(o) : i <= j => o[i].period <= o[j].period
<1> DEFINE E == Range(s)
           o == sorted_events(s)
<1>1. Keyed(E) /\ s \in Seq(E)
  BY DEF Series, Listed
<1>2. \A e \in E : /\ e.period \in Nat /\ e.event_time \in Int /\ e.fraction = FALSE
                   /\ e.event_time = first + (IF far THEN 11 * e.period ELSE e.period)
  BY DEF Series, Keyed
<1> HIDE DEF E, o
<1>3. /\ o \in Seq(E) /\ Range(o) = Range(s)
      /\ \A i, j \in DOMAIN o : i < j => ~Earlier(o[j], o[i])
  BY <1>1, SortedStable DEF o
<1>4. Len(o) \in Nat /\ DOMAIN o = 1 .. Len(o) /\ \A i \in 1 .. Len(o) : o[i] \in E
  BY <1>3
<1>5. \A i, j \in 1 .. Len(o) : i <= j => o[i].period <= o[j].period
  <2> SUFFICES ASSUME NEW i \in 1 .. Len(o), NEW j \in 1 .. Len(o), i <= j
               PROVE  o[i].period <= o[j].period
    OBVIOUS
  <2>1. CASE i = j
    BY <1>2, <1>4, <2>1
  <2>2. CASE i < j
    <3>1. ~(o[j].event_time < o[i].event_time)
      <4>1. ~(time_text(o[j]) < time_text(o[i]))
        BY <1>3, <1>4, <2>2 DEF Earlier
      <4>2. /\ o[i].event_time \in Int /\ o[i].fraction = FALSE
            /\ o[j].event_time \in Int /\ o[j].fraction = FALSE
        BY <1>2, <1>4
      <4> QED
        BY <4>1, <4>2 DEF time_text
    <3>2. /\ o[i].period \in Nat /\ o[j].period \in Nat
          /\ o[i].event_time = first + (IF far THEN 11 * o[i].period ELSE o[i].period)
          /\ o[j].event_time = first + (IF far THEN 11 * o[j].period ELSE o[j].period)
      BY <1>2, <1>4
    <3> DEFINE p == o[i].period
               q == o[j].period
    <3>3. /\ p \in Nat /\ q \in Nat
          /\ ~(first + (IF far THEN 11 * q ELSE q) < first + (IF far THEN 11 * p ELSE p))
      BY <3>1, <3>2
    <3> HIDE DEF p, q
    <3>4. p <= q
      BY <3>3
    <3> QED
      BY <3>4 DEF p, q
  <2> QED
    BY <2>1, <2>2, <1>4
<1> QED
  BY <1>2, <1>3, <1>4, <1>5 DEF E, o

\* Events a minute apart have no gap: between two that are further apart come
\* those of the periods between.
LEMMA NoGap ==
    ASSUME NEW s, Listed(s), NEW first \in Int, Series(Range(s), first, FALSE)
    PROVE  detect_missing_heartbeat(s) = <<>>
<1> DEFINE o == sorted_events(s)
           n == Len(o)
<1>1. /\ n \in Nat /\ DOMAIN o = 1 .. n /\ Range(o) = Range(s)
      /\ \A i \in 1 .. n : /\ o[i] \in Range(s) /\ o[i].period \in Nat
                           /\ o[i].fraction = FALSE /\ o[i].event_time = first + o[i].period
      /\ \A i, j \in 1 .. n : i <= j => o[i].period <= o[j].period
  BY SeriesSorted
<1> HIDE DEF o, n
<1>2. ASSUME NEW i \in 1 .. n - 1,
             exact_time(o[i + 1]) - exact_time(o[i]) >= 2 * max_gap_minutes
      PROVE  FALSE
  <2> DEFINE p == o[i].period
             q == o[i + 1].period
  <2>1. i \in 1 .. n /\ i + 1 \in 1 .. n
    BY <1>1
  <2>2. p \in Nat /\ q \in Nat /\ q >= p + 10
    <3>1. /\ p \in Nat /\ q \in Nat
          /\ exact_time(o[i]) = 2 * (first + p) /\ exact_time(o[i + 1]) = 2 * (first + q)
      <4>1. /\ o[i].event_time = first + p /\ o[i + 1].event_time = first + q
            /\ o[i].fraction = FALSE /\ o[i + 1].fraction = FALSE
            /\ p \in Nat /\ q \in Nat
        BY <1>1, <2>1
      <4> HIDE DEF p, q
      <4> QED
        BY <4>1 DEF exact_time
    <3> HIDE DEF p, q
    <3> QED
      BY <1>2, <3>1 DEF max_gap_minutes
  <2>3. p + 1 \in 0 .. q - 1
    <3> HIDE DEF p, q
    <3> QED
      BY <2>2
  <2>4. PICK x \in Range(s) : x.period = p + 1
    BY <1>1, <2>1, <2>3 DEF Series
  <2>5. PICK k \in 1 .. n : o[k] = x
    BY <1>1 DEF Range
  <2>6. k <= i \/ i + 1 <= k
    BY <2>1
  <2>7. p + 1 <= p \/ q <= p + 1
    BY <1>1, <2>1, <2>4, <2>5, <2>6
  <2> HIDE DEF p, q
  <2> QED
    BY <2>2, <2>7
<1>3. { i \in 1 .. n - 1 : exact_time(o[i + 1]) - exact_time(o[i]) >= 2 * max_gap_minutes } = {}
  BY <1>2
<1> QED
  BY <1>3 DEF detect_missing_heartbeat, o, n

\* The anomaly of a series with gaps.
GapAnomaly(tag, first, flags) ==
    [ rule |-> "missing_heartbeat", tag |-> tag, window_start |-> 2 * first + 1,
      window_end |-> 2 * (first + 11) + 1, severity |-> "critical",
      fault_type |-> resolve_fault_type(flags) ]

\* Events of a tag and a scenario, of two periods at least.
SomePeriods(E, tag, flags) ==
    /\ \A e \in E : e.tag = tag /\ e.quality_flags = flags
    /\ \E q, r \in E : q.period # r.period

\* Of events eleven minutes apart the gap between the first and the second is
\* found, wherever the others are and however many copies there are.
LEMMA GapFound ==
    ASSUME NEW s, Listed(s), NEW first \in Int, Series(Range(s), first, TRUE),
           NEW tag, NEW flags, SomePeriods(Range(s), tag, flags)
    PROVE  detect_missing_heartbeat(s) = << GapAnomaly(tag, first, flags) >>
<1> DEFINE o == sorted_events(s)
           n == Len(o)
           gap(i) == exact_time(o[i + 1]) - exact_time(o[i])
           at == { i \in 1 .. n - 1 : gap(i) >= 2 * max_gap_minutes }
<1>1. /\ n \in Nat /\ DOMAIN o = 1 .. n /\ Range(o) = Range(s)
      /\ \A i \in 1 .. n : /\ o[i] \in Range(s) /\ o[i].period \in Nat
                           /\ o[i].fraction = FALSE
                           /\ o[i].event_time = first + 11 * o[i].period
      /\ \A i, j \in 1 .. n : i <= j => o[i].period <= o[j].period
  BY SeriesSorted
<1> HIDE DEF o, n
<1>2. \A p \in {0, 1} : \E k \in 1 .. n : o[k].period = p
  <2> SUFFICES ASSUME NEW p \in {0, 1} PROVE \E k \in 1 .. n : o[k].period = p
    OBVIOUS
  <2>1. PICK e0 \in Range(s), e1 \in Range(s) :
            e0.period # e1.period /\ e0.period \in Nat /\ e1.period \in Nat
    BY DEF SomePeriods, Series
  <2>2. PICK e \in Range(s) : e.period \in Nat /\ e.period >= 1
    BY <2>1
  <2>3. \E x \in Range(s) : x.period = p
    <3>1. CASE e.period = p
      BY <3>1
    <3>2. CASE e.period # p
      <4>1. p \in 0 .. e.period - 1
        BY <2>2, <3>2
      <4> QED
        BY <4>1 DEF Series
    <3> QED
      BY <3>1, <3>2
  <2>4. PICK x \in Range(s) : x.period = p
    BY <2>3
  <2>5. Range(o) = Range(s) /\ DOMAIN o = 1 .. n
    BY <1>1
  <2>6. PICK k \in 1 .. n : o[k] = x
    BY <2>5 DEF Range
  <2> QED
    BY <2>4, <2>6
<1>3. PICK k0 \in 1 .. n : o[k0].period = 0
  BY <1>2
<1>4. PICK k1 \in 1 .. n : o[k1].period = 1
  BY <1>2
<1>5. PICK m \in 1 .. n : /\ o[m].period >= 1
                          /\ \A k \in 1 .. n : o[k].period >= 1 => m <= k
  <2> DEFINE S == { k \in 1 .. n : o[k].period >= 1 }
  <2>1. S \in SUBSET Nat /\ S # {}
    <3>1. S \in SUBSET Nat
      BY <1>1
    <3>2. k1 \in S
      BY <1>4
    <3> QED
      BY <3>1, <3>2
  <2>2. PICK m \in S : \A k \in S : m <= k
    BY <2>1, LeastNatural
  <2> QED
    BY <2>2
<1>6. \A k \in 1 .. n : k < m => o[k].period = 0
  BY <1>1, <1>5
<1>7. o[m].period = 1
  <2>1. m <= k1
    BY <1>4, <1>5
  <2> QED
    BY <1>1, <1>4, <1>5, <2>1
<1>8. m - 1 \in 1 .. n - 1 /\ (m - 1) + 1 = m /\ m - 1 \in 1 .. n /\ m - 1 < m
  <2>1. k0 < m
    <3>1. ~(m <= k0)
      BY <1>1, <1>3, <1>5
    <3> QED
      BY <1>1, <3>1
  <2> QED
    BY <1>1, <2>1
<1>9. /\ o[m - 1].event_time = first /\ o[m].event_time = first + 11
  <2>1. o[m - 1].period = 0 /\ m - 1 \in 1 .. n
    BY <1>6, <1>8
  <2>2. \A k \in 1 .. n : o[k].event_time = first + 11 * o[k].period
    BY <1>1
  <2>3. o[m - 1].event_time = first + 11 * 0 /\ o[m].event_time = first + 11 * 1
    BY <1>7, <2>1, <2>2
  <2> QED
    BY <2>3
<1>10. m - 1 \in at
  <2>1. gap(m - 1) = 22
    <3>1. o[m - 1].fraction = FALSE /\ o[m].fraction = FALSE
      BY <1>1, <1>8
    <3>2. exact_time(o[m - 1]) = 2 * first /\ exact_time(o[m]) = 2 * (first + 11)
      BY <1>9, <3>1 DEF exact_time
    <3> QED
      BY <1>8, <3>2
  <2> QED
    BY <1>8, <2>1 DEF max_gap_minutes
<1>11. \A k \in at : m - 1 <= k
  <2> SUFFICES ASSUME NEW k \in at, k < m - 1 PROVE FALSE
    BY <1>1
  <2>1. k \in 1 .. n /\ k + 1 \in 1 .. n /\ k < m /\ k + 1 < m
    BY <1>1
  <2>2. o[k].period = 0 /\ o[k + 1].period = 0
    BY <1>6, <2>1
  <2>3. \A l \in 1 .. n : o[l].event_time = first + 11 * o[l].period
    BY <1>1
  <2>4. o[k].event_time = first + 11 * 0 /\ o[k + 1].event_time = first + 11 * 0
    BY <2>1, <2>2, <2>3
  <2>5. gap(k) = 0 /\ gap(k) >= 2 * max_gap_minutes
    <3>1. o[k].fraction = FALSE /\ o[k + 1].fraction = FALSE
      BY <1>1, <2>1
    <3>2. exact_time(o[k]) = exact_time(o[k + 1]) /\ exact_time(o[k]) \in Int
      BY <2>4, <3>1 DEF exact_time
    <3> QED
      BY <3>2
  <2> QED
    BY <2>5 DEF max_gap_minutes
<1>12. at \subseteq Int
  BY <1>1
<1> DEFINE i == CHOOSE j \in at : \A k \in at : j <= k
<1>13. i = m - 1
  <2>1. i \in at /\ \A k \in at : i <= k
    BY <1>10, <1>11
  <2> HIDE DEF i, at
  <2> QED
    BY <1>10, <1>11, <1>12, <2>1
<1>14. detect_missing_heartbeat(s)
         = << base_anomaly("missing_heartbeat", <<o[i], o[i + 1]>>, "critical") >>
  BY <1>10 DEF detect_missing_heartbeat, o, n
<1> DEFINE a == o[m - 1]
           b == o[m]
<1>15. detect_missing_heartbeat(s) = << base_anomaly("missing_heartbeat", <<a, b>>, "critical") >>
  BY <1>8, <1>13, <1>14
<1>16. /\ time_text(a) = 2 * first + 1 /\ time_text(b) = 2 * (first + 11) + 1
       /\ a.tag = tag /\ a.quality_flags = flags /\ b.quality_flags = flags
  <2>1. /\ a.event_time = first /\ b.event_time = first + 11 /\ a.tag = tag
        /\ a.quality_flags = flags /\ b.quality_flags = flags
        /\ a.fraction = FALSE /\ b.fraction = FALSE
    BY <1>1, <1>8, <1>9 DEF SomePeriods
  <2> HIDE DEF a, b
  <2> QED
    BY <2>1 DEF time_text
<1> HIDE DEF a, b
<1>17. base_anomaly("missing_heartbeat", <<a, b>>, "critical") = GapAnomaly(tag, first, flags)
  <2> DEFINE s2 == <<a, b>>
  <2>1. Range(s2) = {a, b} /\ Len(s2) = 2 /\ s2[1] = a /\ s2[2] = b
    <3>1. Len(s2) = 2 /\ s2[1] = a /\ s2[2] = b
      OBVIOUS
    <3>2. DOMAIN s2 = {1, 2}
      BY TwoWrites
    <3> HIDE DEF s2
    <3> QED
      BY <3>1, <3>2 DEF Range
  <2>2. UNION { e.quality_flags : e \in {a, b} } = flags
    BY <1>16
  <2> HIDE DEF s2
  <2>3. UNION { e.quality_flags : e \in Range(s2) } = flags
    BY <2>1, <2>2
  <2>4. base_anomaly("missing_heartbeat", s2, "critical") = GapAnomaly(tag, first, flags)
    BY <1>16, <2>1, <2>3 DEF base_anomaly, GapAnomaly
  <2> QED
    BY <2>4 DEF s2
<1> QED
  BY <1>15, <1>17


\* A tag is among those of a profile once.
LEMMA TagOnce ==
    ASSUME NEW a \in DOMAIN asset_tags, NEW b \in DOMAIN asset_tags,
           asset_tags[a].tag = asset_tags[b].tag
    PROVE  a = b
<1> DEFINE places == { i \in DOMAIN Tags :
                         /\ TenantIndex(Tags[i].tenant) <= Profile.tenants
                         /\ Tags[i].plant_index <= Profile.plants
                         /\ Tags[i].asset_index <= Profile.assets
                         /\ Tags[i].metric \in Profile.metrics }
<1>1. asset_tags = Picked(Tags, places) /\ Listed(Tags)
  BY ListsAssumption DEF asset_tags, Listed
<1> HIDE DEF places
<1>2. \A i, j \in DOMAIN Tags : Tags[i].tag = Tags[j].tag => i = j
  BY TagsAssumption
<1>3. \A i, j \in DOMAIN Tags : i \in places /\ j \in places /\ Tags[i] = Tags[j] => i = j
  BY <1>2
<1>4. PICK i \in DOMAIN Tags : Tags[i] = asset_tags[a]
  BY <1>1, PickedFrom
<1>5. PICK j \in DOMAIN Tags : Tags[j] = asset_tags[b]
  BY <1>1, PickedFrom
<1>6. asset_tags[a] = asset_tags[b]
  BY <1>2, <1>4, <1>5
<1> QED
  BY <1>1, <1>3, <1>6, PickedOnce

\* An event of the generator has a number for its value.
LEMMA EventValue ==
    ASSUME NEW a \in DOMAIN asset_tags, NEW seed \in Seeds, NEW p \in 1 .. Profile.periods
    PROVE  valid_event(a, seed, p - 1).value # None
<1> DEFINE ordinal == (a - 1) * Profile.periods + (p - 1)
           base == base_value(a)
           jitter == Jitter[seed][ordinal]
           scenario == scenario_name(a, seed)
<1>1. valid_event(a, seed, p - 1).value = scenario_value(scenario, base, jitter, p - 1)
  BY DEF valid_event
<1>2. jitter \in Int
  BY TagsAssumption
<1>3. base \in Int
  <2>1. asset_tags[a].base \in Int /\ asset_tags[a].asset_index \in Int
    <3>1. Range(asset_tags) \subseteq Range(Tags)
      BY PickedProperties, ListsAssumption DEF asset_tags, Listed
    <3>2. asset_tags[a] \in Range(Tags)
      BY <3>1 DEF Range
    <3> QED
      BY <3>2, TagsAssumption
  <2>2. metric_index(a) \in Nat
    <3> DEFINE S == { j \in 1 .. a - 1 : asset_tags[j].asset = asset_tags[a].asset }
    <3>1. a - 1 \in Int /\ 1 \in Int
      BY AssetTags
    <3>2. IsFiniteSet(1 .. a - 1)
      BY <3>1, FS_Interval
    <3>3. S \subseteq 1 .. a - 1
      OBVIOUS
    <3> HIDE DEF S
    <3>4. Cardinality(S) \in Nat
      BY <3>2, <3>3, FS_Subset, FS_CardinalityType
    <3> QED
      BY <3>4 DEF metric_index, S
  <2> DEFINE x == asset_tags[a].base
             y == asset_tags[a].asset_index
             z == metric_index(a)
  <2>3. base = x + 100 * ((y % 7) + z)
    BY DEF base_value
  <2>4. x \in Int /\ y \in Int /\ z \in Int
    BY <2>1, <2>2
  <2> HIDE DEF x, y, z, base
  <2>5. y % 7 \in Int
    BY <2>4
  <2> QED
    BY <2>3, <2>4, <2>5
<1>4. p - 1 \in Int
  BY ListsAssumption
<1> HIDE DEF ordinal, base, jitter, scenario
<1>5. /\ base \in Int /\ (27 * base) \div 10 + jitter \in Int
      /\ base + 125 * (p - 1) + jitter \in Int
      /\ base + jitter \div 2 \in Int /\ base + jitter \in Int
  BY <1>2, <1>3, <1>4
<1>6. scenario_value(scenario, base, jitter, p - 1) \in Int
  BY <1>5 DEF scenario_value
<1> QED
  BY <1>1, <1>6, NoneAssumption

\* What the periods of a tag have in common.
LEMMA EventsAlike ==
    ASSUME NEW a \in DOMAIN asset_tags, NEW seed \in Seeds,
           NEW p \in 1 .. Profile.periods, NEW q \in 1 .. Profile.periods
    PROVE  LET g == valid_event(a, seed, p - 1)
               h == valid_event(a, seed, q - 1)
           IN  /\ RightPlace(g) = RightPlace(h)
               /\ g.tag = h.tag /\ g.tenant = h.tenant /\ g.unit = h.unit
<1> DEFINE g == valid_event(a, seed, p - 1)
           h == valid_event(a, seed, q - 1)
<1>1. /\ g.tag = h.tag /\ g.tenant = h.tenant /\ g.unit = h.unit
      /\ g.extra = h.extra /\ g.schema_version = h.schema_version
  BY DEF valid_event
<1>2. g.value # None /\ h.value # None
  BY EventValue
<1>4. WellFormed(g) /\ WellFormed(h)
  <2>1. a \in Nat /\ p - 1 \in Int /\ q - 1 \in Int
    BY AssetTags, ListsAssumption
  <2> QED
    BY <2>1, ValidEvent
<1> HIDE DEF g, h
<1>3. schema_errors(g) = {} <=> schema_errors(h) = {}
  BY <1>1, <1>2, <1>4, NoErrors DEF WellFormed
<1> QED
  BY <1>1, <1>3 DEF RightPlace, g, h

\* What the reference jobs read of a tag is a series of its scenario: a copy of
\* each event up to some period.
LEMMA TagSeries ==
    ASSUME IngestionInv, OrderInv, NEW t, NEW stored, stored = TagReadings(t),
           Backfilled(stored), NEW r0 \in Range(stored),
           \A q \in Range(stored) : q.scenario = r0.scenario
    PROVE  /\ Listed(stored)
           /\ \E first \in Int :
                  Series(Range(stored), first, r0.scenario = "missing_heartbeat")
           /\ \A q \in Range(stored) :
                  /\ q.tag = t.tag
                  /\ q.quality_flags = IF r0.scenario = "normal" THEN {} ELSE {r0.scenario}
           /\ \A q, r \in Range(stored) : q.id = r.id => q.period = r.period
<1> DEFINE topic == render_topic("raw_sensor_events", t.tenant)
           s == Stored(topic)
           Kept(r) == r.tag = t.tag /\ enrich_raw_event(r, mappings) = "enriched"
           places == { i \in DOMAIN s : Kept(s[i]) }
           R == Range(stored)
           P == Profile.periods
<1>1. stored = Picked(s, places)
  BY DEF TagReadings
<1>2. Raw(topic) /\ s = IF topic \in DOMAIN topics THEN topics[topic] ELSE <<>>
  BY RawTopic
<1>3. Listed(s)
  <2>1. Listed(<<>>)
    <3>1. <<>> \in Seq({})
      OBVIOUS
    <3> QED
      BY <3>1, IsListed
  <2> QED
    BY <1>2, <2>1 DEF IngestionInv, TopicsInv
<1>4. \A i : i \in places <=> i \in DOMAIN s /\ Kept(s[i])
  OBVIOUS
<1> HIDE DEF topic, s, places
<1>5. Listed(stored) /\ \A q \in R : \E i \in DOMAIN s : s[i] = q /\ Kept(q)
  <2>1. Listed(stored)
    BY <1>1, <1>3, PickedProperties
  <2>2. ASSUME NEW k \in DOMAIN stored PROVE \E i \in DOMAIN s : s[i] = stored[k] /\ Kept(s[i])
    <3> HIDE DEF Kept
    <3> QED
      BY <1>1, <1>3, <1>4, PickedFrom
  <2> QED
    BY <2>1, <2>2 DEF Range
<1>6. \A i \in DOMAIN s : Kept(s[i]) => s[i] \in R
  <2> HIDE DEF Kept
  <2> QED
    BY <1>1, <1>3, <1>4, PickedItems
<1>7. topic \in DOMAIN topics /\ s = topics[topic]
  <2>1. DOMAIN s # {}
    BY <1>5
  <2> QED
    BY <1>2, <2>1
\* Each is a copy of an event, after those before it.
<1> DEFINE From(i, seed, a, p) ==
               /\ CopyOf(s[i], valid_event(a, seed, p - 1))
               /\ s[i].event_time = valid_event(a, seed, p - 1).event_time
               /\ s[i].fraction = FALSE
               /\ valid_event(a, seed, p - 1) \in GivenRecords
               /\ RightPlace(valid_event(a, seed, p - 1)) = topic
               /\ Behind(topic, s, i, seed, (a - 1) * P + p)
<1>8. ASSUME NEW i \in DOMAIN s, s[i] \in R
      PROVE  \E seed \in Seeds : \E a \in DOMAIN asset_tags, p \in 1 .. P : From(i, seed, a, p)
  <2>1. s[i].id \notin HandIds /\ s[i].event_time < Now
    BY <1>8 DEF Backfilled
  <2>2. PICK seed \in Seeds : \E n \in DOMAIN valid_events(seed) :
            /\ CopyOf(s[i], valid_events(seed)[n])
            /\ RightPlace(valid_events(seed)[n]) = topic
            /\ Behind(topic, s, i, seed, n)
    BY <1>2, <1>7, <2>1, GeneratedCopy
  <2>3. PICK n \in DOMAIN valid_events(seed) :
            /\ CopyOf(s[i], valid_events(seed)[n])
            /\ RightPlace(valid_events(seed)[n]) = topic
            /\ Behind(topic, s, i, seed, n)
    BY <2>2
  <2>4. PICK a \in DOMAIN asset_tags, p \in 1 .. P : n = (a - 1) * P + p
    BY EventPlaces
  <2>5. valid_events(seed)[n] = valid_event(a, seed, p - 1)
    BY <2>4, EventPlaces
  <2>6. valid_events(seed)[n] \in GivenRecords
    BY DEF GivenRecords, Range
  <2>7. s[i].event_time = valid_events(seed)[n].event_time /\ s[i].fraction = FALSE
    <3>1. valid_events(seed)[n].fraction = FALSE
      BY <2>5 DEF valid_event
    <3> QED
      BY <2>1, <2>3, <3>1 DEF CopyOf
  <2> QED
    BY <2>3, <2>4, <2>5, <2>6, <2>7
<1> DEFINE g(seed, a, p) == valid_event(a, seed, p - 1)
<1>9. \A i, seed, a, p : From(i, seed, a, p) =>
          /\ s[i].id = g(seed, a, p).id /\ s[i].tag = g(seed, a, p).tag
          /\ s[i].tenant = g(seed, a, p).tenant /\ s[i].unit = g(seed, a, p).unit
          /\ s[i].period = g(seed, a, p).period /\ s[i].scenario = g(seed, a, p).scenario
          /\ s[i].quality_flags = g(seed, a, p).quality_flags
  BY DEF CopyOf, KeptFields, RecordFields
\* All of one place among the tags.
<1>10. PICK i0 \in DOMAIN s : s[i0] = r0 /\ Kept(r0)
  BY <1>5
<1>11. PICK seed0 \in Seeds, a \in DOMAIN asset_tags, p0 \in 1 .. P : From(i0, seed0, a, p0)
  BY <1>8, <1>10
<1> HIDE DEF From, g
<1>12. \A i, seed, b, p : From(i, seed, b, p) =>
          /\ s[i].event_time = g(seed, b, p).event_time /\ s[i].fraction = FALSE
          /\ g(seed, b, p) \in GivenRecords /\ RightPlace(g(seed, b, p)) = topic
          /\ Behind(topic, s, i, seed, (b - 1) * P + p)
  BY DEF From, g
<1>13. \A seed \in Seeds, b \in DOMAIN asset_tags, p \in 1 .. P :
           g(seed, b, p).tag = asset_tags[b].tag
  BY EventTimes DEF g
<1>14. asset_tags[a].tag = t.tag
  BY <1>9, <1>10, <1>11, <1>13
<1>15. ASSUME NEW i \in DOMAIN s, s[i] \in R
       PROVE  \E seed \in Seeds, p \in 1 .. P : From(i, seed, a, p)
  <2>1. PICK seed \in Seeds, b \in DOMAIN asset_tags, p \in 1 .. P : From(i, seed, b, p)
    BY <1>8, <1>15 DEF From, g
  <2>2. s[i].tag = t.tag
    BY <1>5, <1>15
  <2>3. asset_tags[b].tag = t.tag
    BY <1>9, <1>13, <2>1, <2>2
  <2>4. b = a
    BY <1>14, <2>3, TagOnce
  <2> QED
    BY <2>1, <2>4
\* Its times.
<1> DEFINE scenario == r0.scenario
           far == scenario = "missing_heartbeat"
           start == (a - 1) * P
           first == IF scenario = "late" THEN start - 15 ELSE start
<1>16. start \in Int /\ first \in Int
  <2>1. start \in Int
    BY <1>11, EventTimes
  <2> HIDE DEF start
  <2> QED
    BY <2>1
<1>17. ASSUME NEW q \in R
       PROVE  /\ q.id \in Int /\ q.event_time \in Int /\ q.period \in Nat
              /\ q.fraction = FALSE
              /\ q.event_time = first + (IF far THEN 11 * q.period ELSE q.period)
              /\ q.quality_flags = IF scenario = "normal" THEN {} ELSE {scenario}
  <2>1. PICK i \in DOMAIN s : s[i] = q
    BY <1>5
  <2>2. PICK seed \in Seeds, p \in 1 .. P : From(i, seed, a, p)
    BY <1>15, <2>1
  <2> DEFINE e == g(seed, a, p)
  <2>3. /\ q.id = e.id /\ q.event_time = e.event_time /\ q.period = e.period
        /\ q.fraction = FALSE
        /\ q.scenario = e.scenario /\ q.quality_flags = e.quality_flags
    BY <1>9, <1>12, <2>1, <2>2
  <2>4. e.scenario = scenario
    BY <2>3
  <2>5. /\ start \in Int /\ e.id \in Int /\ e.period = p - 1
        /\ e.event_time = CASE e.scenario = "late" -> start + p - 16
                            [] e.scenario = "missing_heartbeat" -> start + 11 * (p - 1)
                            [] OTHER -> start + p - 1
        /\ e.quality_flags = IF e.scenario = "normal" THEN {} ELSE {e.scenario}
    BY EventTimes DEF g
  <2>6. p \in Nat /\ p >= 1
    BY ListsAssumption
  <2> HIDE DEF e, start, scenario
  <2>7. e.event_time = first + (IF far THEN 11 * (p - 1) ELSE p - 1)
    BY <2>4, <2>5, <2>6
  <2>8. e.event_time \in Int
    BY <2>5, <2>6, <2>7
  <2> QED
    BY <2>3, <2>4, <2>5, <2>6, <2>7, <2>8
\* Those before it.
<1>18. ASSUME NEW q \in R, NEW before \in 0 .. q.period - 1
       PROVE  \E x \in R : x.period = before
  <2>1. PICK i \in DOMAIN s : s[i] = q /\ Kept(q)
    BY <1>5
  <2>2. PICK seed \in Seeds, p \in 1 .. P : From(i, seed, a, p)
    BY <1>15, <2>1
  <2> DEFINE e == g(seed, a, p)
             d == before + 1
             f == g(seed, a, d)
             n == (a - 1) * P + p
             m == (a - 1) * P + d
  <2>3. p \in Nat /\ P \in Nat /\ p <= P
    BY ListsAssumption
  <2>4. q.period = p - 1
    <3>1. e.period = p - 1
      BY EventTimes DEF g
    <3> QED
      BY <1>9, <2>1, <2>2, <3>1
  <2>5. d \in 1 .. P /\ d < p /\ d - 1 = before
    BY <2>3, <2>4
  <2>6. m \in 1 .. n - 1 /\ m \in DOMAIN valid_events(seed) /\ valid_events(seed)[m] = f
    <3>1. m \in DOMAIN valid_events(seed) /\ valid_events(seed)[m] = f
      <4> HIDE DEF d
      <4> QED
        BY <2>5, EventPlaces DEF g
    <3>2. m >= 1 /\ n \in Int /\ m \in Int
      <4>1. valid_events(seed) \in Seq(Range(valid_events(seed)))
        BY ValidFile DEF Listed
      <4> DEFINE v == valid_events(seed)
                 V == Range(v)
      <4>2. v \in Seq(V)
        BY <4>1
      <4> HIDE DEF v, V, m
      <4>3. m >= 1 /\ m \in Int
        BY <3>1, <4>2 DEF v
      <4>4. n \in Int
        BY <2>3, AssetTags
      <4> QED
        BY <4>3, <4>4
    <3>3. m < n
      <4> DEFINE c == (a - 1) * P
      <4>1. c \in Int
        BY <1>16
      <4> HIDE DEF c
      <4>2. c + d < c + p
        BY <2>3, <2>5, <4>1
      <4> QED
        BY <4>2 DEF c
    <3> HIDE DEF m, n
    <3> QED
      BY <3>1, <3>2, <3>3
  <2>7. RightPlace(f) = RightPlace(e) /\ f.tag = e.tag /\ f.tenant = e.tenant /\ f.unit = e.unit
    BY <2>5, EventsAlike DEF g
  <2>8. RightPlace(e) = topic /\ Behind(topic, s, i, seed, n)
    BY <1>12, <2>2
  <2> HIDE DEF e, f, m, n, d
  <2>9. PICK k \in 1 .. i - 1 : s[k].id = f.id
    BY <2>6, <2>7, <2>8 DEF Behind
  <2>10. k \in DOMAIN s
    <3>1. s \in Seq(Range(s))
      BY <1>3 DEF Listed
    <3>2. DOMAIN s = 1 .. Len(s) /\ Len(s) \in Nat
      BY <3>1
    <3> QED
      BY <3>2
  <2>11. PICK h \in GivenRecords : CopyOf(s[k], h)
    BY <1>2, <1>7, <2>10, StoredCopy
  <2>12. /\ s[k].id = h.id /\ s[k].tag = h.tag /\ s[k].tenant = h.tenant
         /\ s[k].unit = h.unit /\ s[k].period = h.period
    BY <2>11 DEF CopyOf, KeptFields, RecordFields
  <2>13. f \in GivenRecords
    BY <2>6 DEF GivenRecords, Range
  <2>14. h = f
    BY <2>9, <2>12, <2>13, OneRecord
  <2>15. s[i].tag = e.tag /\ s[i].tenant = e.tenant /\ s[i].unit = e.unit
    BY <1>9, <2>2 DEF e
  <2>16. s[k].tag = q.tag /\ s[k].tenant = q.tenant /\ s[k].unit = q.unit
    BY <2>1, <2>7, <2>12, <2>14, <2>15
  <2>17. Kept(s[k])
    BY <2>1, <2>16 DEF enrich_raw_event
  <2>18. f.period = before
    <3>1. g(seed, a, d).period = d - 1
      BY <2>5, EventTimes DEF g
    <3> QED
      BY <2>5, <3>1 DEF f
  <2> HIDE DEF Kept
  <2> QED
    BY <1>6, <2>10, <2>12, <2>14, <2>17, <2>18
<1>19. ASSUME NEW q \in R, NEW r \in R, q.id = r.id PROVE q.period = r.period
  <2>1. \A x \in R : \E h \in GivenRecords : x.id = h.id /\ x.period = h.period
    <3> SUFFICES ASSUME NEW x \in R
                 PROVE  \E h \in GivenRecords : x.id = h.id /\ x.period = h.period
      OBVIOUS
    <3>1. PICK i \in DOMAIN s : s[i] = x
      BY <1>5
    <3>2. PICK seed \in Seeds, p \in 1 .. P : From(i, seed, a, p)
      BY <1>15, <3>1
    <3> QED
      BY <1>9, <1>12, <3>1, <3>2
  <2> QED
    BY <1>19, <2>1, OneRecord
<1>20. Series(R, first, far)
  <2> HIDE DEF first, far
  <2> QED
    BY <1>17, <1>18 DEF Series, Keyed
<1>21. \A q \in R : q.tag = t.tag
  BY <1>5
<1> QED
  BY <1>5, <1>16, <1>17, <1>19, <1>20, <1>21


\* The first copies of what a list holds: one for each id.
LEMMA FirstCopiesHold ==
    ASSUME NEW s, Listed(s)
    PROVE  /\ Listed(FirstCopies(s)) /\ Range(FirstCopies(s)) \subseteq Range(s)
           /\ \A x \in Range(s) : \E y \in Range(FirstCopies(s)) : y.id = x.id
<1> DEFINE places == { i \in DOMAIN s : \A j \in 1 .. i - 1 : s[j].id # s[i].id }
           firsts == Picked(s, places)
<1>1. firsts = FirstCopies(s)
  BY DEF FirstCopies
<1>2. DOMAIN s = 1 .. Len(s) /\ Len(s) \in Nat
  <2>1. s \in Seq(Range(s))
    BY DEF Listed
  <2> QED
    BY <2>1
<1>3. Listed(firsts) /\ Range(firsts) \subseteq Range(s)
  <2> HIDE DEF places
  <2> QED
    BY PickedProperties
<1>4. ASSUME NEW x \in Range(s) PROVE \E y \in Range(firsts) : y.id = x.id
  <2>1. PICK k \in DOMAIN s : s[k] = x
    BY DEF Range
  <2> DEFINE S == { i \in DOMAIN s : s[i].id = x.id }
  <2>2. S \in SUBSET Nat /\ S # {}
    BY <1>2, <2>1
  <2>3. PICK i \in S : \A j \in S : i <= j
    BY <2>2, LeastNatural
  <2>4. i \in DOMAIN s /\ s[i].id = x.id
    BY <2>3
  <2>5. \A j \in 1 .. i - 1 : s[j].id # s[i].id
    <3> SUFFICES ASSUME NEW j \in 1 .. i - 1, s[j].id = s[i].id PROVE FALSE
      OBVIOUS
    <3>1. j \in DOMAIN s /\ j < i /\ j \in Nat
      BY <1>2, <2>4
    <3>2. i <= j
      BY <2>3, <2>4, <3>1
    <3> QED
      BY <1>2, <2>4, <3>1, <3>2
  <2>6. i \in places
    BY <2>4, <2>5
  <2> HIDE DEF places
  <2>7. s[i] \in Range(firsts)
    BY <2>4, <2>6, PickedItems
  <2> QED
    BY <2>4, <2>7
<1> QED
  BY <1>1, <1>3, <1>4

\* What is left of a series without its repetitions is that series.
LEMMA SeriesOfFirsts ==
    ASSUME NEW s, Listed(s), NEW first, NEW far, Series(Range(s), first, far),
           \A q, r \in Range(s) : q.id = r.id => q.period = r.period
    PROVE  /\ Series(Range(FirstCopies(s)), first, far)
           /\ \A x \in Range(s) : \E y \in Range(FirstCopies(s)) : y.period = x.period
<1> DEFINE R == Range(s)
           F == Range(FirstCopies(s))
<1>1. F \subseteq R /\ \A x \in R : \E y \in F : y.id = x.id
  BY FirstCopiesHold
<1>2. Series(R, first, far) /\ \A q, r \in R : q.id = r.id => q.period = r.period
  OBVIOUS
<1> HIDE DEF R, F
<1>3. \A x \in R : \E y \in F : y.period = x.period
  BY <1>1, <1>2
<1>4. Keyed(F)
  BY <1>1, <1>2 DEF Series, Keyed
<1>5. ASSUME NEW e \in F, NEW p \in 0 .. e.period - 1 PROVE \E y \in F : y.period = p
  <2>1. PICK x \in R : x.period = p
    BY <1>1, <1>2 DEF Series
  <2> QED
    BY <1>3, <2>1
<1>6. Series(F, first, far)
  BY <1>1, <1>2, <1>4, <1>5 DEF Series
<1> QED
  BY <1>3, <1>6 DEF R, F

\* The gap of a missing_heartbeat series is found in a backfill of it, and no
\* gap in another scenario's, whatever was repeated or killed; a repetition
\* does not change the anomaly.
THEOREM HeartbeatFound == Spec => []HeartbeatSurvivesReplay
<1>1. ASSUME IngestionInv, OrderInv, NEW t \in Range(Tags),
             NEW stored, stored = TagReadings(t), Backfilled(stored),
             \A q, r \in Range(stored) : q.scenario = r.scenario,
             NEW e0 \in Range(stored), NEW e1 \in Range(stored), e0.period # e1.period
      PROVE  /\ detect_missing_heartbeat(stored) # <<>>
                    <=> \E r \in Range(stored) : r.scenario = "missing_heartbeat"
             /\ detect_missing_heartbeat(stored)
                    = detect_missing_heartbeat(FirstCopies(stored))
  <2> DEFINE scenario == e0.scenario
             far == scenario = "missing_heartbeat"
             flags == IF scenario = "normal" THEN {} ELSE {scenario}
             firsts == FirstCopies(stored)
             tag == t.tag
  <2>1. /\ Listed(stored)
        /\ \E first \in Int : Series(Range(stored), first, far)
        /\ \A q \in Range(stored) : q.tag = tag /\ q.quality_flags = flags
        /\ \A q, r \in Range(stored) : q.id = r.id => q.period = r.period
    BY <1>1, TagSeries
  <2>2. (\E r \in Range(stored) : r.scenario = "missing_heartbeat") <=> far
    BY <1>1
  <2> HIDE DEF scenario, far, flags, firsts, tag
  <2>3. PICK first \in Int : Series(Range(stored), first, far)
    BY <2>1
  <2>4. /\ Listed(firsts) /\ Range(firsts) \subseteq Range(stored)
        /\ Series(Range(firsts), first, far)
        /\ \A x \in Range(stored) : \E y \in Range(firsts) : y.period = x.period
    BY <2>1, <2>3, FirstCopiesHold, SeriesOfFirsts DEF firsts
  <2>5. CASE far = TRUE
    <3>1. SomePeriods(Range(stored), tag, flags)
      BY <1>1, <2>1 DEF SomePeriods
    <3>2. SomePeriods(Range(firsts), tag, flags)
      <4>1. PICK y0 \in Range(firsts) : y0.period = e0.period
        BY <2>4
      <4>2. PICK y1 \in Range(firsts) : y1.period = e1.period
        BY <2>4
      <4>3. \A e \in Range(firsts) : e.tag = tag /\ e.quality_flags = flags
        BY <2>1, <2>4
      <4>4. y0.period # y1.period
        BY <1>1, <4>1, <4>2
      <4> QED
        BY <4>3, <4>4 DEF SomePeriods
    <3>3. Series(Range(stored), first, TRUE) /\ Series(Range(firsts), first, TRUE)
      BY <2>3, <2>4, <2>5
    <3>4. detect_missing_heartbeat(stored) = << GapAnomaly(tag, first, flags) >>
      BY <2>1, <3>1, <3>3, GapFound
    <3>5. detect_missing_heartbeat(firsts) = << GapAnomaly(tag, first, flags) >>
      BY <2>4, <3>2, <3>3, GapFound
    <3> QED
      BY <2>2, <2>5, <3>4, <3>5 DEF firsts
  <2>6. CASE far = FALSE
    <3>1. detect_missing_heartbeat(stored) = <<>>
      BY <2>1, <2>3, <2>6, NoGap
    <3>2. detect_missing_heartbeat(firsts) = <<>>
      BY <2>4, <2>6, NoGap
    <3> QED
      BY <2>2, <2>6, <3>1, <3>2 DEF firsts
  <2>7. far \in BOOLEAN
    BY DEF far
  <2> QED
    BY <2>5, <2>6, <2>7
<1>2. IngestionInv /\ OrderInv => HeartbeatSurvivesReplay
  BY <1>1 DEF HeartbeatSurvivesReplay
<1> QED
  BY <1>2, IngestionIsInductive, OrderIsInductive, PTL

=============================================================================
