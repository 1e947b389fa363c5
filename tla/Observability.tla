---------------------------- MODULE Observability ----------------------------
(***************************************************************************)
(* Bootstrap runs reported to the Worker: the emitter of a client          *)
(* (adapters/claude/lib/bootstrap-run-emitter.mjs), the handlers, and      *)
(* worker/src/observability: a record in R2, then a summary, the pointer   *)
(* to the latest run and the index in KV, four writes of which each may    *)
(* fail, and an index that is read before it is written.  R2 and KV are    *)
(* taken to be read as they were last written.                             *)
(***************************************************************************)
EXTENDS Integers, Sequences, SequencesExt, FiniteSets, Selections

CONSTANTS
    Reports,        \* reports: one invocation of the emitter each
    RunOf,          \* the run_id of each, the same when a run is reported twice
    ContentOf,      \* what each report says of its run: records
    MAX_INDEX_SIZE, \* 100 in the code
    Bounds,         \* SETTINGS_BOUNDS with the defaults: records [min, max, default]
    Defects,        \* what may be wrong with a report, "none" among them
    StoredSettings  \* what may lie in KV under observability:settings

ASSUME ObservabilityAssumption ==
    /\ MAX_INDEX_SIZE \in Nat \ {0}
    /\ \A r \in Reports : ContentOf[r].status \in {"success", "failure", "partial"}
    /\ \A f \in DOMAIN Bounds : Bounds[f].default \in Bounds[f].min .. Bounds[f].max

VARIABLES
    report,    \* each report's progress through handler and storage
    record,    \* R2: observability/runs/<id>/summary.json
    meta,      \* KV: observability:run:<id>:meta
    latest,    \* KV: observability:latest-run, <<>> when there is none
    index,     \* KV: observability:runs:index
    settings,  \* KV: observability:settings
    puts,      \* history: the runs put into the index, latest first, each once
    shared     \* history: who met another writer, of the index or of the same run

observabilityVars == <<report, record, meta, latest, index, settings, puts, shared>>

RunIds == {RunOf[r] : r \in Reports}
Unwritten == [status |-> "none"]

ObservabilityInit ==
    /\ report = [r \in Reports |-> [stage |-> "idle"]]
    /\ record = [i \in RunIds |-> Unwritten]
    /\ meta = [i \in RunIds |-> Unwritten]
    /\ latest = <<>>
    /\ index = <<>>
    /\ settings \in StoredSettings
    /\ puts = <<>>
    /\ shared = [index |-> FALSE, run |-> {}]

----------------------------------------------------------------------------
(* Pure parts: validation, summaries, signals and settings.                *)

(* validateRun of the emitter is narrower than validateBootstrapRun of the *)
(* Worker: lengths, optional fields and phases are left to the latter.     *)
EmitterRefuses == {"shape", "forbidden_field", "no_run_id", "started_at", "status", "phases"}
WorkerRefuses ==
    {"json", "shape", "forbidden_field", "no_run_id", "started_at", "status", "phases",
     "long_run_id", "finished_at", "optional_field", "phase", "evidence"}

(* buildRunSummary: the fields the list and the signals need.              *)
BuildRunSummary(run) ==
    [status |-> run.status, failed |-> run.failed, code |-> run.code,
     expected |-> run.expected, observed |-> run.observed]

Mismatch(run) == run.expected # "" /\ run.observed # "" /\ run.expected # run.observed

SummarizeFailureReason(run) ==
    CASE run.status = "success"  -> "completed"
      [] Mismatch(run)           -> "version_mismatch"
      [] run.failed # ""         -> "stopped_in_phase"
      [] run.code # ""           -> "internal_error"
      [] run.status = "partial"  -> "partial_success"
      [] OTHER                   -> "needs_investigation"

InferNextActions(run) ==
    LET found == (IF run.failed # "" THEN {"inspect_phase"} ELSE {})
                   \cup (IF run.code # "" THEN {"verify_prerequisites"} ELSE {})
                   \cup (IF Mismatch(run) THEN {"verify_version", "retry"} ELSE {})
    IN CASE run.status = "success" -> {"none"}
         [] found = {}             -> {"inspect_run"}
         [] OTHER                  -> found

DeriveRunSignals(run) ==
    [attention |-> run.status # "success",
     reason    |-> SummarizeFailureReason(run),
     actions   |-> InferNextActions(run),
     locality  |-> run.failed]

(* validateObservabilitySettings; a field that is absent is given its      *)
(* default.                                                                *)
WithDefaults(input) ==
    [f \in DOMAIN Bounds |-> IF f \in DOMAIN input THEN input[f] ELSE Bounds[f].default]

SettingsAreValid(input) ==
    \A f \in DOMAIN Bounds : WithDefaults(input)[f] \in Bounds[f].min .. Bounds[f].max

DefaultSettings == [f \in DOMAIN Bounds |-> Bounds[f].default]

(* readObservabilitySettings; what is not JSON, or not an object, is the   *)
(* empty sequence here.                                                    *)
ReadObservabilitySettings ==
    IF SettingsAreValid(settings) THEN WithDefaults(settings) ELSE DefaultSettings

----------------------------------------------------------------------------
(* Storage.                                                                *)

ReportAt(r, stage) == report[r].stage = stage
Writing(r) == report[r].stage \in {"record", "meta", "latest", "read_index", "put_index"}
Run(r) == RunOf[r]

(* The runs that a report starting now would write beside another report; *)
(* history, like the index read while another writer is between its read   *)
(* and its write.                                                          *)
SharedRuns(r) == {Run(s) : s \in {t \in Reports \ {r} : Writing(t) /\ Run(t) = Run(r)}}

(* The emitter checks and posts the run; the Worker validates it and looks *)
(* at its bindings: exit 2, 400, 503, or the writes begin.                 *)
Emit(r, defect, bound) ==
    LET refused == defect \in EmitterRefuses \cup WorkerRefuses \/ ~bound
    IN /\ ReportAt(r, "idle")
       /\ report' = [report EXCEPT ![r] =
             IF refused THEN [stage |-> "answered", answer |-> "not_recorded"]
             ELSE [stage |-> "record"]]
       /\ shared' = IF refused THEN shared
                    ELSE [shared EXCEPT !.run = @ \cup SharedRuns(r)]
       /\ UNCHANGED <<record, meta, latest, index, settings, puts>>

Step(r, stage) == report' = [report EXCEPT ![r] = [@ EXCEPT !.stage = stage]]

PutRecord(r) ==
    /\ ReportAt(r, "record")
    /\ record' = [record EXCEPT ![Run(r)] = ContentOf[r]]
    /\ Step(r, "meta")
    /\ UNCHANGED <<meta, latest, index, settings, puts, shared>>

PutMeta(r) ==
    /\ ReportAt(r, "meta")
    /\ meta' = [meta EXCEPT ![Run(r)] = BuildRunSummary(ContentOf[r])]
    /\ Step(r, "latest")
    /\ UNCHANGED <<record, latest, index, settings, puts, shared>>

PutLatest(r) ==
    /\ ReportAt(r, "latest")
    /\ latest' = <<Run(r)>>
    /\ Step(r, "read_index")
    /\ UNCHANGED <<record, meta, index, settings, puts, shared>>

(* updateRunsIndex: the index is read, and written with this run in front. *)
ReadIndex(r) ==
    /\ ReportAt(r, "read_index")
    /\ report' = [report EXCEPT ![r] =
          [stage |-> "put_index", read |-> index]]
    /\ shared' = [shared EXCEPT !.index = @ \/ \E s \in Reports \ {r} : ReportAt(s, "put_index")]
    /\ UNCHANGED <<record, meta, latest, index, settings, puts>>

Others(id, ids) == SelectAt(ids, {n \in DOMAIN ids : ids[n] # id})
InFront(id, ids) == <<id>> \o Others(id, ids)
UpTo(n, ids) == SubSeq(ids, 1, IF Len(ids) < n THEN Len(ids) ELSE n)

(* A mistake: the oldest runs are kept. *)
NewIndexOfTheOldest(id, ids) == UpTo(MAX_INDEX_SIZE, Others(id, ids) \o <<id>>)

NewIndex(id, ids) == UpTo(MAX_INDEX_SIZE, InFront(id, ids))

PutIndex(r) ==
    /\ ReportAt(r, "put_index")
    /\ index' = NewIndex(Run(r), report[r].read)
    /\ puts' = InFront(Run(r), puts)
    /\ report' = [report EXCEPT ![r] =
          [stage |-> "answered", answer |-> "201"]]
    /\ UNCHANGED <<record, meta, latest, settings, shared>>

(* A read or a write fails: the handler answers 500, the emitter exits 3   *)
(* and nobody tries again; or the emitter's five seconds are over, which   *)
(* stops nothing here.                                                     *)
StorageFails(r) ==
    /\ Writing(r)
    /\ report' = [report EXCEPT ![r] = [stage |-> "answered", answer |-> "not_recorded"]]
    /\ shared' = [shared EXCEPT !.run = @ \cup (IF ReportAt(r, "meta") THEN {Run(r)} ELSE {})]
    /\ UNCHANGED <<record, meta, latest, index, settings, puts>>

(* handleObservabilitySettingsPut *)
PutSettings(input) ==
    /\ SettingsAreValid(input)
    /\ settings' = WithDefaults(input)
    /\ UNCHANGED <<report, record, meta, latest, index, puts, shared>>

ObservabilityNext ==
    \/ \E r \in Reports :
          \/ \E d \in Defects, b \in BOOLEAN : Emit(r, d, b)
          \/ PutRecord(r) \/ PutMeta(r) \/ PutLatest(r) \/ ReadIndex(r) \/ PutIndex(r)
          \/ StorageFails(r)
    \/ \E s \in StoredSettings : PutSettings(s)

----------------------------------------------------------------------------
(* What the read handlers answer.                                          *)

(* listBootstrapRuns: a run whose meta is missing is skipped.              *)
ListBootstrapRuns(limit) ==
    LET listed == UpTo(limit, index)
        ids    == SelectAt(listed, {n \in DOMAIN listed : meta[listed[n]] # Unwritten})
    IN [k \in DOMAIN ids |-> [id |-> ids[k], signals |-> DeriveRunSignals(meta[ids[k]])]]

GetLatestRunSummary ==
    IF latest # <<>> /\ meta[latest[1]] # Unwritten THEN <<DeriveRunSignals(meta[latest[1]])>> ELSE <<>>

GetBootstrapRun(id) ==
    IF record[id] = Unwritten THEN <<>> ELSE <<DeriveRunSignals(record[id])>>

----------------------------------------------------------------------------

(* Whatever write failed and whoever wrote beside: the latest run can be   *)
(* shown, every run of the index is listed, and each that is listed can be *)
(* fetched.                                                                *)
WhatIsListedIsThere ==
    /\ latest # <<>> => GetLatestRunSummary # <<>>
    /\ Len(ListBootstrapRuns(MAX_INDEX_SIZE)) = Len(index)
    /\ \A i \in ToSet(index) : GetBootstrapRun(i) # <<>>

(* As long as no two reports wrote the index at once, it holds the last    *)
(* MAX_INDEX_SIZE runs that were put into it, the last one first, none     *)
(* twice, so that a run answered 201 is listed unless as many came after.  *)
IndexHoldsTheLastRuns ==
    ~shared.index =>
        /\ index = UpTo(MAX_INDEX_SIZE, puts)
        /\ \A r \in Reports : ReportAt(r, "answered") /\ report[r].answer = "201" =>
              Run(r) \in ToSet(index) \/ Len(puts) > MAX_INDEX_SIZE

(* When nobody is writing a run that no two reports wrote at once and that *)
(* no write failed halfway, its entry in the list says what its own page   *)
(* says.                                                                   *)
ListAndPageAgree ==
    \A i \in RunIds \ shared.run :
        (\A r \in Reports : Writing(r) => Run(r) # i) /\ meta[i] # Unwritten =>
            <<DeriveRunSignals(meta[i])>> = GetBootstrapRun(i)

(* The settings that are read are within their bounds, whatever is stored. *)
SettingsReadAreValid == SettingsAreValid(ReadObservabilitySettings)

(* What the Worker tells of the bootstrap runs reported to it. *)
RunsAreToldRight ==
    WhatIsListedIsThere /\ IndexHoldsTheLastRuns /\ ListAndPageAgree /\ SettingsReadAreValid
=============================================================================
