# Specifications of the Industrial Reliability Platform

TLA+ models of the platform, the TLC runs that check them on small instances and
the TLAPS proofs that hold for every instance. Paths are relative to the
repository; `ir/` stands for `src/industrial_reliability/`.

## 1. The system

| Part | State it keeps | Operations | Talks to |
|---|---|---|---|
| Replay service (`ir/replay.py`, `ir/replay_service.py`) | state machine per session, checkpoints in PostgreSQL | START, PAUSE, RESUME, STOP, resume at start-up, run to completion | commands in, telemetry and status out (Kafka) |
| Streaming worker (`ir/worker.py`, `ir/online_features.py`, `ir/scoring_client.py`) | feature builders, failed sessions, offsets per session, all in memory | telemetry record, status record, score a window, complete or fail a session | telemetry and status in; features, scores, quarantine, status out; scoring API |
| Scoring and console API (`ir/api.py`) | the loaded model package | score, start and control replays, RCA, readiness, snapshot and event stream | Kafka, PostgreSQL, browser |
| Alert state machine (`ir/alert_state.py`) | `AlertState` of one session | `transition` | called by the alert service and by the reconstruction |
| Alert store (`ir/persistence.py`) | sessions, decisions, alerts, events, evidence, outbox, runtime states | load, record a decision, fail a session, take and mark an outbox row | PostgreSQL |
| Alert service (`ir/alert_service.py`, `ir/alert_consumer.py`) | fetch position, failed sessions, in memory | consume scores, commit offsets, dispatch the outbox | scores in; alerts, quarantine, status out |
| Alert policy calibration (`ir/alert_policy.py`) | locals of a simulation | simulate the grid on the calibration scores, lock one policy | writes the policy file |
| Console stream (`ir/console_stream.py`, `useReplayStream.ts`) | subscribers with bounded queues, console events | feed, broadcast, connect, resume | API, browser |
| Root-cause analysis (`ir/rca_*.py`) | reports of an alert | gather evidence, generate, save, get | PostgreSQL, language model |
| Migrations (`ir/migrations.py`) | ledger of applied files | apply in order in one transaction | PostgreSQL |
| Virtual lab (`ir/lab/`) | labs and revisions, runs, commands, checkpoints, outbox | save, validate, compile, start, command, step, dispatch, analyse | PostgreSQL, Kafka, browser |
| Model packages (`ir/package_*.py`, `ir/champion.py`) | a package directory | build, publish, verify, load | files |
| ML lifecycle (`ir/ml_lifecycle.py`, `ir/phase7_gate.py`) | MLflow runs, registered versions, alias, receipts | import, reproduce, attest, promote, verify | MLflow, files, API |
| Offline evaluation (`ir/evaluation.py`, `ir/phase1b_features.py`) | none | windows, threshold, episodes, feasibility | files |
| Release evidence (`ir/phase8_live_gate.py`, `ir/phase9_live_gate.py`, `ir/release_certification.py`) | report files, the deployed stack | inject faults, check, certify | Docker, files, Git |

The hard behaviours are those between the parts: Kafka delivers at least once and
in order per partition, PostgreSQL transactions are atomic, but nothing spans the
two. A record is fetched, handled in a transaction and committed in three steps;
every `await` is a place where another task runs, a call fails or the process dies;
and each service keeps something in memory that a restart loses. The command line
tools (packaging, promotion, gates) have the same problem with files: what was
verified by one read is used by another.

What makes the parts correct, in a line each:

* replay: the rows of a session appear in order, each under its number, and its end
  is announced once, across restarts;
* worker: every complete window is scored under one content, offsets never pass
  unscored telemetry unless a session is stopped, decisions appear in window order;
* alerts: every decision is either stored or refused for a reason, the alert rows are
  the lifecycle the state machine went through, and each event is announced;
* calibration: the counts a policy is chosen on are the counts the runtime produces;
* console: a subscriber sees every event after its snapshot or is told to start over;
* lab: edits and commands are serial, an observation is stored once, a valid lab
  compiles to the network that was drawn;
* packages and releases: what is served, promoted or certified is what was checked.

`PROJECT.json` lists the hazards, each at its line.

## 2. Plan

The modelling steps are done; they were taken in the order of the damage a mistake
does at run time.

1. **Alert lifecycle**: `AlertState`, `AlertStore`, `AlertService`, `AlertPolicy`,
   `AlertStream`, `AlertUpgrade`.
2. **Replay**: `ReplayController`, `ReplayService`, and `ReplaySession`, the
   abstract specification it implements.
3. **Streaming worker**: `FeatureBuilder`, `OnlineFeatures`, `StreamingWorker`, and
   `ScoreProducer`, the interface between worker and alert service, which the worker
   implements.
4. **Console and storage protocols**: `ConsoleStream`, `RcaReports`, `Migrations`.
5. **Virtual lab**: `LabTopology`, `LabControls`, `LabAnalysis`, `LabStore`,
   `LabEngine`.
6. **Offline decisions and evidence**: `OfflineEvaluation`, `PolicyCalibration`,
   `ModelPackage`, `ModelLifecycle`, `ReleaseCertification`.

The proofs (section 6) cover every safety property of the passing runs but three, both
refinements, and no liveness property; the section says what keeps those with TLC.

## 3. Modules

Common conventions: identifiers derived by UUIDv5 or SHA-256 are the thing they are
derived from; times are counted in the strides of the code; `None` is 0 or the empty
set; a step ends at an `await`, a statement another process can come between, or a
read or write of a shared file. Definitions under a comment that begins with "Mutant"
are wrong on purpose: each replaces the definition after it to show that a property
notices.

### Alerts

**`AlertState`** is `alert_state.py` as operators. Windows end on a 300-second grid and
all identifiers are UUIDv5 of a window within a session, so a timestamp, a decision and
an alert are window numbers, `None` is 0, and durations are strides. The streak, the
decision references, `resolved_at` and `previous_alert_id` are kept as the code keeps
them, on every path. `OrderingViolation` and `ValidEvent` say when `transition` raises.

**`AlertStore`** is one session's rows and the transactions on them. Unique keys and
`ON CONFLICT` clauses are modelled by what they do: an upserted alert keeps its
`first_detection`; an event that exists is not inserted again, and the outbox row that
would refer to the new one violates its foreign key (`ForeignKeyFails`).

**`AlertService`** is the process: a consumer task, a dispatcher task, one partition of
`irp.scores.v1` (nothing in the deployment asks for more), and the environment. The
store calls are synchronous and so block the event loop: each is one step. A step ends
at each `await`: `getmany` (`Poll`), `send_and_wait` (`Quarantine`, `PublishFailure`,
`Send`) and `commit` (`Commit`). A call that raises may have taken effect or not
(`...Fails`), after which the loop abandons the batch and keeps its position; a death
(`Restart`) loses memory and returns to the committed offset. The streaming worker
appears as the producer: decisions of a session in window order, repeated from the
start after `WorkerRestart`. Records of another contract and undecodable records come
from other producers and are marked external.

**`AlertPolicy`** is one iteration of `_simulate_alert_stream`; **`AlertStream`** feeds
one stream of decisions, with redelivery of the last one, to it and to state machine
and store together; **`AlertUpgrade`** adds the loss of the runtime state that
migration 004 causes on a database written by the release before it.
**`PolicyCalibration`** runs one `AlertPolicy` per candidate of the grid on one stream
and locks the first that meets the gates, with the research fallback. The gates (one
episode per day, 5 % in alert) are constants, scaled so that short streams fall on
both sides of them.

### Replay and streaming

**`ReplayController`** is `replay.py`: the allowed transitions and the range of rows
after a cursor. **`ReplayService`** is the process: the command loop and the task of
the active session, which share `pause_event`, `stop_event` and the controller the loop
keeps; checkpoints; shutdown, death and raising calls. A command record is one of the
four actions, one with another contract's identity or one that does not decode.
**`ReplaySession`** is what a consumer of the topics is promised; `StreamIsLossless`
says the service implements it, with `completed` mapped to the sessions announced
COMPLETED.

**`FeatureBuilder`** is `online_features.py` and the offline windows of
`phase1b_features.py`; a window is the samples it is computed from, bin by bin, because
the coverage and the statistics, which both paths share, are functions of these. **`OnlineFeatures`** feeds it one stream with faults.
**`StreamingWorker`** puts a builder per session behind two topics and a scoring API
that fails, refuses and is retried. **`ScoreProducer`** states what `AlertService`
assumes of it (the actions `PublishScore` and `WorkerRestart` there), and
`ScoresInOrder` that the worker implements it: so the guarantees proved of the alert
service hold behind this worker. (`AlertService` restarts the sessions one at a time,
the worker all at once, which is the same steps in a row.)

### Console and root-cause analysis

**`ConsoleStream`** has the feed, the downsampler, the broker with its queues, the
event table, the stream route and the reducer of the browser. Two things it takes from
the code that one might not expect: a client whose `Last-Event-ID` is up to date also
gets `resync_required`, and the console's `EventSource` never sends a cursor of its
own, so a resume is the browser's automatic one. A live alert event is not the
snapshot's alert: it has the detection times but no state, and the reducer puts it in
the summary's place, so a view records the form of what it shows. **`RcaReports`** is
one alert's analysis, whose report may have observations or none: threads of the API read the alert in four statements while the alert service
changes it, ask a provider that comes and goes, and store. The champion manifest among
the evidence is constant there: it is a file of the deployment.

### Virtual lab

**`LabTopology`** enumerates small definitions, valid and not, and compares
`validate_lab`, `compile_lab`, the sensors' lookup and `clone_lab_definition`.
**`LabControls`** folds commands into the control state of a lab as it was drawn and
reads it back the way the solver and the sensors do: the drawn opening of a valve is in
its conductance, by which the solver scales again with the opening commanded, the other
drawn values are defaults, and the solver keeps the last fault of each kind while a
sensor shows the last of any kind. **`LabAnalysis`** is the rule engine of one sensor.
**`LabStore`** interleaves the statements of several API processes over the tables,
with the isolation level each pooled connection has at that time. **`LabEngine`** is a
run's checkpoint, its outbox and the processes on it: the outbox is a set of rows, read
in the order of tick and sensor, at most `BatchLimit` at a time; its engines call
`run_once` as the tests do, since the deployed worker does not (section 5). An accepted
command ends with its receipt: `run_once` never reads one.

### Packages, promotion, evidence

**`OfflineEvaluation`** is the calibration and the evaluation that make a package
feasible, with the contract's choice whether a score at the threshold is anomalous. **`ModelPackage`** is the two builders over one destination.
**`ModelLifecycle`** is import, reproduction, Phase 7 gate, promotion, registry and the
API's use of the result. MLflow is external: `create_registered_model` refuses a model
that exists, tags and aliases are set one call at a time; nobody but this code changes
tags. Each read of the manifest, for its content or its SHA-256, is a step, and the
operator may replace the package between any two; `disturbed` remembers that somebody
did so under a call that was reading. The content of a manifest names data, contract and
feature schema (`Identity`, shared by `Siblings`), its threshold and golden scores may
be those of another (`Twins`), and they may not come out again (`Drifted`). The API is
the deployed one, without a verifier. `get_current_git_sha` may answer zeros.
In `ModelPackage`, `shared` remembers that two builders at work had one directory. **`Migrations`** is `apply_migrations` over a directory that changes; PostgreSQL
is external: a second creator of an object waits for the first transaction to end and
fails if it committed. A call keeps the set of files it has still to look at and takes
the least (`First`), which is the sorted list of `discover_migrations`. **`ReleaseCertification`** is the two live gates and the
certification over one evidence directory and one stack. What one drill or check
observes is a verdict chosen freely; stopping and starting services, reports and
commits are explicit. The commit in a report and in the log of runs is the caller's, not the
tree's.

### Model-checking modules and proofs

**`Console`** puts `RcaReports` beside `ConsoleStream`, **`LabRuntime`** puts `LabStore`
beside `LabEngine`, **`LabDesign`** has `LabAnalysis` and `LabTopology`,
**`Calibration`** puts `PolicyCalibration` and `OfflineEvaluation` beside
`AlertUpgrade`, and **`Release`** puts `ModelPackage`, `Migrations` and
`ReleaseCertification` beside `ModelLifecycle`. The parts do not interact: these modules
declare the constants and variables of all of them, instantiate the ones that are not
extended (`Rca`, `Store`, `Rules`, `Topology`, `Grid`, `Offline`, `Package`,
`Migration`, `Certification`) and name the properties that are both checked and proved.

**`MCAlertService`** gives sessions and record kinds small values. **`MCConsole`**,
**`MCLabRuntime`**, **`MCLabDesign`**, **`MCCalibration`** and **`MCRelease`** extend the
five modules above, `MCLabDesign` adds `LabControls` and `MCCalibration` adds
`OnlineFeatures`, and each checks several components in one run: a behaviour is a
behaviour of one of them, chosen by `part` in the initial state, and the variables of
the others keep their first values. Each property names the part it is about, or is one
that the untouched initial state of the others satisfies. Where one component needs two
sets of constants it is instantiated twice (`Offline` and `Threshold`, `Faulty` and
`Sparse`). `ModelLifecycle` is explored within three scopes: `GateScope`, one promotion
and an operator who swaps packages, `PromotionScope`, two promotions at once of one
package at two commits, and `ApiScope`, the API alone; the builders until two of them
share a directory, where the claim of `PublishedIsWhole` ends. In `CertificationScope`
each gate runs at most twice, a report and its replacement, one service at most is broken,
and a certification takes its steps while the Phase 8 gate is idle or about to write: in
its drills the gate touches no file, so the order between them and the certification's
steps changes nothing that is read.

The modules whose names end in **`Proofs`** hold the proofs (section 6), each extending
the component's module or the composition it is checked in; `AlertStoreProofs` holds
lemmas about the rows of a session for `AlertServiceProofs` and `CalibrationProofs`.

## 4. Runs

| Run | Checks | Shows |
|---|---|---|
| `alert_lifecycle` | `OpenAlertIsActive`, `OnlyOrderingRejects`, `RuntimeIsReconstruction`, `OutboxProtocol` | with a failing call, a death and a restarted worker, what is stored stays consistent: whatever is lost is lost whole |
| `alert_crash` | `TypeOK`, `HandledUnlessDisturbed`, `FailedSessionStaysClosed`, `EverythingCommitted`, `OutboxDrained` | two sessions, records of every kind, a failing call and a death. As long as no call has failed no offset passes an unhandled record, a failed session stays closed although the set of failed sessions is only in memory, and the log is committed unless a mismatch halted the loop. The outbox drains whatever fails |
| `calibration` | `SimulationAgrees`, `AlertRowsAgree`, `LockedIsMostSensitive`, `ThresholdDescribesSplit`, `EvaluationIsExact`, `WindowsMatchOffline` | what is computed offline and again at run time agrees, on all small inputs: alert episodes (with redelivery and the upgrade at any point), policy selection, threshold, evaluation, feature windows |
| `replay` | `OneIncomplete`, `EndedByCommandOnly`, `StreamIsLossless`, `RunningSessionEnds` | every kind of command, a failing call and a death or shutdown anywhere: the service implements `ReplaySession`, and without the failures each property names a session is alone, is stopped or refused only on command, and ends as long as the service is up |
| `worker` | `CommittedIsScored`, `RetriesAgree`, `ScoresInOrder` | two sessions, either order of the topics, redelivered, undecodable and foreign records, failing scoring calls and a death: what is committed is scored, unless a session from it on was stopped; a window has one content; and the worker implements `ScoreProducer` |
| `worker_liveness` | `CompletedIsCommitted` | a session that completes is scored and committed in the end, through a death, a redelivered row and a retried scoring call |
| `console` | `EveryGapMarked`, `FeedIsDurable`, `ViewIsCurrent`, `ReportsAreGrounded` | the live stream through overflow, feed restarts and reconnection: a console that missed nothing shows the detection times of the latest change, in whatever form; two racing requests for one alert's root-cause report: what observations there are cite the bundle |
| `lab_design` | `RulesObeyed`, `EligibleLabRuns`, `CommandsObeyed` | all sequences of eight observations, all drawings of two assets, two pipes and a sensor, all sequences of four commands on two drawn labs |
| `lab_runtime` | `ObservedOnce`, `DeliveredInOrder`, `RequestsAreSerial`, `DrainedOnceConnected` | two engines and two workers with an outage and a death; two API processes whose statements interleave |
| `release` | `ServedIsReproduced`, `ReceiptNamesChampion`, `PublishedIsWhole`, `MigrationsAreSerial`, `CertifiedIsBacked`, `StackRestored` | concurrent builders, promotions and migrations, a gate and the API over files that change meanwhile, each killed between any two steps; the live gates and the certification, overlapping, killed, given any commit, with stops and starts that fail |

Violated, each by what the code does (the first two rows of section 5):

| Run | Property | Counterexample |
|---|---|---|
| `alert_outage` | `CommittedRecordsHandled` | one failing call loses decisions |
| `worker_stop` | `TerminalBarrier` | a STOPPED status passes the barrier at once, and the worker exits |

Properties that are conjunctions name their parts in the component's module, each with
its own comment. The violated properties state what a line of the repository says, quoted
in `findings` of `PROJECT.json`. They are the two disagreements that lose decisions or
stop a service for good in an ordinary incident; the others of section 5 have no run.

**Conditional properties.** Where the code does not keep a promise in some situation,
the property says in which situations it does (`HandledUnlessDisturbed`,
`CommittedIsScored`, `StreamIsLossless`, `OneIncomplete`, `EndedByCommandOnly`, `RunningSessionEnds`,
`ViewIsCurrent`, `AppliedInOrder`, `MatchesOffline`, `ServedIsReproduced`,
`PublishedIsWhole`). The excluded situations are listed in section 5, and they do
not hide the rest: every run also reaches the states in which the condition holds through
deaths and restarts. `MatchesOffline`, for one, is equality with the offline windows for a
dataset without an empty bin; of one with an empty bin the repository claims the same, the
code does not keep it, and nothing is checked. `ServedIsReproduced` is in part
unconditional: whatever happens to the package directory, what is promoted has a
reproduction run with the same tags and what loads through the alias is an intact
champion package with one.

**Bounds.** `MaxLog`, `MaxCommands`, `MaxRecords`, `MaxRequests` bound what is sent to a
process, `MaxFaults`, `MaxFailures`, `MaxOutages` the calls that fail, `MaxRestarts`,
`MaxCrashes`, `MaxDeaths` the deaths, `MaxRewinds` the worker's restarts,
`MaxChanges`, `MaxEdits`, `MaxCommits` what an operator does to files, `Horizon`,
`MaxTicks`, `Rows` the length of a stream. One fault and one death already meet at
every pair of steps. Persistence, cooldown and merge gap of 1 or 2 distinguish "below",
"at" and "above" the limit; seven windows hold two episodes, a merge and a separate
alert. Two sessions are enough for one to be failed, stopped or committed around the
other; three telemetry rows make a full window, an open bin and a boundary. A queue of
two and a page of two overflow with four records. Two processes and two command
identifiers give the same command twice and different ones at once. In `lab_runtime`
every tick is sampled and there are three, so that an outbox holds more than the two
rows of a batch; `AlwaysObservedOnce` is about every sampling interval. Three changes and
two MLflow runs are what it takes to upload another package than the one tagged and
put the first one back. Three champion, twin and research
packages of one data set tell apart every check of the promotion. Two champion builders
of different runs and a research builder, over two seconds, share, inherit or avoid each
other's directory.

**Deadlock** checking is off in all runs: inputs are bounded, so when they are used up
and handled the bounded system has nothing left to do, and a killed command line tool is
not restarted by anybody.

**Fairness.**

* `alert_crash`: `WF` of the consumer and of the dispatcher, each as a whole. Both are
  `while` loops on one event loop, and every step ends in an `await` or a sleep.
* `replay`: `WF` of the command loop, of the session task (same event loop) and of the
  rest of a shutdown once begun. Nothing starts the service again: `compose.yaml` gives
  it no restart policy, so `RunningSessionEnds` ends where the service is down.
* `worker_liveness`: `WF` of the worker as a whole, which includes its restart as long
  as `MaxRestarts` allows.
* `lab_runtime`: `WF` of each engine's and each worker's steps and of the broker's
  return.

Nothing is assumed of producers, of failing calls or of deaths, which only happen
finitely often because their number is bounded: a service whose every call fails for
ever makes no progress, and none is claimed.

**Symmetry** is used where identifiers are only compared (`Requests` in `console`,
assets and pipes in `lab_design`), in runs without temporal properties.

## 5. What the code does not promise

Found while modelling; paths in the first column are under `ir/` unless they begin with
`apps/`. The first two have a run that shows them. The others are why a property
is conditional, or why one that a reader might expect is absent.

| Where | The code | The repository says |
|---|---|---|
| `alert_service.py:188` | after an exception the loop polls on without seeking back, and the next commit passes the records it dropped (`alert_outage`) | docs/superpowers/plans/2026-08-24-phase-5-alert-lifecycle-persistence.md:21, "A database outage leaves the Kafka offset uncommitted" |
| `worker.py:452` | a STOPPED status carries sequence 0 and passes the barrier; completing the builder raises (`worker_stop`) | docs/superpowers/plans/2026-08-24-phase-4-online-feature-scoring-worker.md:301, "cannot finalize until the worker has processed exactly `status.last_sequence`" |
| `alert_state.py:315` | only the decision handled last is recognised as a duplicate; an older one raises and takes new decisions of its batch with it | docs/superpowers/specs/2026-08-24-post-phase-1-evidence-gated-roadmap-design.md:147, "Duplicate delivery is idempotent" |
| `alert_consumer.py:89` | if announcing a failure raises, the failed record is committed past | alert_service.py:158, "must not commit the failed offset" |
| `alert_state.py:178` | the merge gap is measured from `resolved_at` to the triggering decision; the calibration does the same | docs/superpowers/plans/2026-08-24-phase-5-alert-lifecycle-persistence.md:312, "first detection is within `merge_gap_seconds` of the previous `last_detection`" |
| `replay_service.py:363` | a PAUSE or STOP during the publication of COMPLETED is applied to the finished session, which may leave two incomplete ones, or announce two terminal states | docs/superpowers/plans/2026-08-29-data-pipeline-audit-remediation.md:781, "the service already permits one active session" |
| `replay_service.py:226` | a graceful stop checkpoints the running session as STOPPED, so it is not resumed | docs/superpowers/plans/2026-08-30-replay-recovery-audit-remediation.md:5, "Make replay recovery lossless" |
| `replay_service.py:308` | a redelivered START of the running session is announced FAILED | docs/superpowers/plans/2026-08-24-phase-3-telemetry-contract-kafka-replay.md:369, "a different `START` publishes `FAILED`" |
| `replay.py:70` | a refused PAUSE or RESUME stops the service before it is committed, and again after each restart | same file:369, "so the command consumer remains available for controls" |
| `replay_service.py:454` | a failed publication leaves a cursor on a row that was not sent; a PAUSE then makes it resumable | docs/superpowers/plans/2026-08-30-replay-recovery-audit-remediation.md:7, "after every acknowledged telemetry event" |
| `online_features.py:250` | the window completed by the last bin before an empty one is dropped | docs/superpowers/plans/2026-08-24-phase-4-online-feature-scoring-worker.md:16, "must match Phase 1B offline output exactly" |
| `worker.py:338` | the commit of a later session passes the telemetry of a failed one on the same partition | same file:19, "leaves its telemetry offsets uncommitted" |
| `worker.py:338` | a STOPPED of a session nothing was read of commits the status offset past an earlier session's COMPLETED that waits for its telemetry; after a death that COMPLETED is not read again, the next session's commit passes the telemetry, and the last window is never scored. It takes three sessions, so `CommittedIsScored` excludes it and the proof showed it | docs/results/phase-4-online-parity.md:60, "committed to Kafka only after the replay session reaches `COMPLETED` and all downstream" |
| `worker.py:435` | a bad status record blocks its partition in name only | same file:305, "mark that input partition blocked, and do not commit" |
| `lab/analysis.py:126` | violations are counted across samples in the hysteresis band and bad ones | lab/analysis.py:138, "3 consecutive samples" |
| `lab/analysis.py:47` | bad samples any number of good ones apart open a quality alert | lab/analysis.py:66, "2 samples window" |
| `lab/simulation/sensors.py:46` | of several faults on a sensor only the one injected last is seen | sensors.py:42, "according to sensor definitions and active faults" |
| `lab/store.py:378` | the second of two identical commands made at once is answered 409 | lab/store.py:372, "with idempotency and revision gating" |
| `lab/store.py:480` | the isolation level of a snapshot stays with the pooled connection; a later conflicting save fails with an error that is not caught | docs/virtual-lab-execution-plan.md:56, "409 on conflict" |
| `lab/outbox.py:46` | a worker that starts while the broker is down never publishes | docs/virtual-lab-execution-plan.md:50, "Readiness probe verifying DB, worker heartbeat, and Kafka" |
| `lab/engine.py:90` | accepted commands are never executed | lab/engine.py:35, "executes queued commands" |
| `lab/worker.py:74` | the deployed worker never runs the engine | docs/virtual-lab-execution-plan.md:27, "managing backward Euler numerical solving" |
| `persistence.py:774` | the report shown is the latest of any status | docs/superpowers/plans/2026-08-24-phase-9-grounded-rca.md:353, "latest persisted complete `rca` value" |
| `api.py:517` | an UNAVAILABLE report is stored, and answered ever after | same file:353, "`UNAVAILABLE` responses are not persisted" |
| `persistence.py:839` | the second of two first requests for a report is answered 503 | README.md:169, "so operator triage is never blocked" |
| `persistence.py:737` | the evidence bundle is read in four statements and may mix two states of the alert | docs/ARCHITECTURE_DIAGRAMS.md:55, "deterministic 4-tool evidence bundle" |
| `api.py:569` | what is published between snapshot and subscription reaches a console neither way | docs/results/phase-6-operator-console.md:46, "to guarantee zero missed alerts" |
| `api.py:575` | after an overflow no snapshot follows `resync_required` | same file:46, "followed by fresh snapshot" |
| `apps/operator-console/src/useReplayStream.ts:157` | nor does the console fetch anything | docs/superpowers/plans/2026-08-24-phase-6-operator-console.md:300, "`resync_required` fetches replay and alerts" |
| `apps/operator-console/src/useReplayStream.ts:116` | an alert event takes the place of an alert summary | same line, "alert events trigger `listAlerts`" |
| `persistence.py:918` | a resume sends the 100 oldest missed events and goes live | docs/superpowers/plans/2026-08-24-phase-6-operator-console.md:187, "emit later durable events in sequence" |
| `console_stream.py:138` | the id of a status repeats, so a resume may go back | same line |
| `persistence.py:376` | the session row stays RUNNING until a failure | same line, "always emits a current durable snapshot first" |
| `console_stream.py:37` | the downsampler keeps one time for all sessions and drops telemetry of an earlier source time | docs/results/phase-6-operator-console.md:69, "All telemetry streams downsample correctly" |
| `api.py:628` | the deployed API is given neither a broker nor a provenance verifier | docs/superpowers/plans/2026-08-24-phase-7-reproducible-ml-lifecycle.md:7, "API readiness verifies its local package" |
| `phase7_gate.py:215` | the gate compares what was recomputed with what it read before the import | same file:567, "the gate proves a train/calibration refit matches the immutable candidate" |
| `ml_lifecycle.py:511` | a promotion checks the manifest of one read and the hash of another | docs/superpowers/plans/2026-08-30-code-audit-remediation.md:21, "`RESEARCH_ONLY` never become a champion alias" |
| `ml_lifecycle.py:550` | only the first promotion into a registry can finish | docs/superpowers/plans/2026-08-24-phase-7-reproducible-ml-lifecycle.md:7, "moves the `champion` alias" |
| `ml_lifecycle.py:384` | a candidate imported with a policy file never passes the gate | same file:18, "records exact ... alert-policy hashes" |
| `api.py:308` | `/v1/score` does not ask the verifier | same file:463, "never permits `/v1/score`" |
| `api.py:234` | `/readyz` checks the package directory, not the package loaded | same file:5, "Make every online champion traceable" |
| `package_champion.py:341` | two champion builders in one second share a temporary directory | docs/superpowers/plans/2026-08-24-phase-2-model-package-scoring-api.md:138, `atomic_copy_package` |
| `migrations.py:58` | a file is hashed by one read and executed by another | docs/RUNBOOK.md:42, "checksum-verified SQL migrations" |
| `migrations.py:48` | a file added late is applied after higher numbers | same line, "Apply ordered" |
| `report_hashes.py:50` | the commit of a report is the caller's word, compared with neither tree nor stack | release_certification.py:95, "evidence produced for a different commit is rejected" |
| `release_certification.py:470` | a report is verified by one read and hashed by another | README.md:49, "`RELEASE` requires passing exact-SHA evidence" |

Everything else that is stated holds; in particular what survives these losses is
consistent.

## 6. Proofs

Every theorem holds for every value of the constants: any number of sessions, clients,
processes, rows and commands, any queue or batch size, any number of failing calls and
deaths, any grid of policies, any lab. The named assumptions are those of the modules;
hypotheses beyond them are in the table.

| Assumption | Says | Because |
|---|---|---|
| `HorizonAssumption`, `BoundsAssumption`, `RowsAssumption`, `ServiceAssumption`, `LabEngineAssumption`, `ConsoleStreamAssumption` | the bounds are natural numbers, sizes are not zero, what may be sent is of the known kinds | they count; the kinds are those of the code |
| `PolicyAssumption`, `GridAssumption` | persistence and cooldown are at least 1, merge gaps at least 0 | the values of the grid (`ir/alert_policy.py:192`) |
| `BuilderAssumption` | stride, lookback and minimum of observations are at least 1 | the contract's constants |
| `WorkerAssumption` | rows and scoring attempts are at least 1 | a dataset has rows; the client tries at least once |
| `EvaluationAssumption` | the stride is at least 1 | the contract's constant |
| `SensorAssumption` | the alarm limits lie further apart than twice the hysteresis, which is not negative | `Sensor.validate_sensor_rules` |
| `TopologyAssumption` | assets are of the five types | `AssetType` |
| `NoStateAssumption` | the marker of a missing row is no state | a modelling convention |

| Module | Theorem | States | Hypotheses |
|---|---|---|---|
| `AlertServiceProofs` | `TypeCorrect` | `[]TypeOK` | |
| | `OpenAlertAlwaysActive` | `[]OpenAlertIsActive` | |
| | `OnlyOrderingEverRejects` | `[]OnlyOrderingRejects` | |
| | `OutboxProtocolHolds` | `[]OutboxProtocol` | |
| | `AlwaysHandledUnlessDisturbed` | `[]HandledUnlessDisturbed` | |
| | `FailedSessionsStayClosed` | `FailedSessionStaysClosed`, an action property | |
| | `RuntimeAlwaysReconstruction` | `[]RuntimeIsReconstruction` | |
| `CalibrationProofs` | `SimulationAlwaysAgrees` | `UpgradeSpec => []SimulationAgrees` | |
| | `AlertRowsAlwaysAgree` | `UpgradeSpec => []AlertRowsAgree` | |
| | `LockedAlwaysMostSensitive` | `Grid!Spec => []LockedIsMostSensitive` | |
| | `EvaluationAlwaysExact` | `Offline!Spec => []EvaluationIsExact` | |
| `StreamingWorkerProofs` | `WorkerInvariant` | `[]IInv`, the inductive invariant | |
| | `CommittedScored` | `[]CommittedIsScored` | |
| | `RetriesAgreeAlways` | `[]RetriesAgree` | |
| | `WorkerIsProducer` | `ScoresInOrder`: the worker implements `ScoreProducer` | |
| `ReplayServiceProofs` | `StreamAlwaysLossless` | `StreamIsLossless`: the service implements `ReplaySession` | |
| | `AlwaysOneIncomplete` | `[]OneIncomplete` | |
| | `AlwaysEndedByCommand` | `[]EndedByCommandOnly` | |
| `ConsoleProofs` | `FeedAlwaysDurable` | `[]FeedIsDurable` | |
| | `GapsAlwaysMarked` | `[]EveryGapMarked` | |
| | `ViewsAlwaysCurrent` | `[]ViewIsCurrent` | |
| | `ReportsAlwaysGrounded` | `[]ReportsAreGrounded` | |
| `LabProofs` | `RequestsAlwaysSerial` | `[]RequestsAreSerial` | |
| | `AlwaysObservedOnce` | `[]ObservedOnce` | |
| | `AlwaysDeliveredInOrder` | `[]DeliveredInOrder` | |
| | `RulesAlwaysObeyed` | `Rules!Spec => []RulesObeyed` | |
| | `EligibleAlwaysRuns` | `Topology!Spec => []EligibleLabRuns` | |
| `ReleaseProofs` | `ReceiptAlwaysNamesChampion` | `[]ReceiptNamesChampion` | |
| | `ServedAlwaysReproduced` | `[]ServedIsReproduced` | |
| | `PublishedAlwaysWhole` | `[]PublishedIsWhole` | the clock can tick; no run has the empty name |
| | `MigrationsAlwaysSerial` | `[]MigrationsAreSerial` | names are numbers |
| | `CertifiedAlwaysBacked` | `[]CertifiedIsBacked` | |
| | `StackAlwaysRestored` | `[]StackRestored` | |

No hypothesis is about the system: the empty name is how the model writes a file that
is not there.

None of the properties is inductive. What each invariant adds, and why:

**Alert service.** `TypeOK /\ RowsSound /\ OutboxInv`. `RowsSound` says of each session
that its rows are `Sound`: the state machine's first, last detection and last timestamp
are ordered, so no event is invalid; while no alert is active every alert row is older
than every decision of the streak being counted, so the id of a new alert, taken from
the first decision of the streak, is fresh; no event is later than the last decision, so
an event key is fresh and the foreign key holds; and the row of the active alert, or of
the last one, carries the detections of the state, so a reopened alert keeps its
`first_detection`. `AlertStoreProofs` proves that each of the six outcomes of
`transition` keeps rows sound (`InOrderSound`), that a redelivered decision does
(`RecordSound`), and that the other transactions do. `OutboxInv` adds that outbox rows
are events, that the dispatcher's row is one, and that it has been sent when it is about
to be marked. The step to the service is one lemma per task. `CalmInv`, for behaviours
without a failing call or a redelivery, adds where the consumer stands: its position is
the committed offset when it polls, the record in hand is the next one, it is handled
when it is about to be committed, and a session has failed only if the next record is
the mismatch that failed it, so a restart meets that record first.

**The stored state.** `RuntimeIsReconstruction` compares the state kept row by row with
a fold over all decisions (`reconstruct_alert_state`). The fold is a recursive function
over the sorted windows. What is needed of it is that a window without a decision changes
nothing and that the last decision is applied last; both are shown for a least
counterexample among the windows (`LeastNumber`, `WindowInduction`), which is induction
stated about a set and so within the provers' reach. `Replayed` is the invariant of a
session: its decisions are one per window, none is later than the state, and their
replay is the state. The same invariant carries the upgrade: the state row that
`AlertUpgrade` drops is the one the next load replays, so `StreamInv` is about the rows
as the next load leaves them.

**Calibration.** `StreamInv` relates the simulation's locals to the state of the online
machine, field by field (`Agrees`), and counts: the episodes so far are as many as the
alerts and as the OPENED events. `last_resolution` agrees only while no alert is active,
which is when the code reads it. `GridInv` compares candidates: on one stream all of them
count the same streaks (`InStep`), so the one that opens sooner and resolves later is in
alert whenever the other is and resolved no earlier (`Dominates`); `FirstOrdered` says
that the first alert of a lower persistence came first, which makes the first passing
candidate of the grid the most sensitive one. `EvalInv` says of the loop of
`build_episodes` that episodes and open episode are the groups of what has been taken so
far, apart by more than a stride (`Merging`), and that this covers it.

**Streaming worker.** The committed offsets say nothing of what the worker held when it
died, so `IInv` describes a session in two ways. Either this process has read it from its
first row (`Attached`): its builder is the one those rows give, and the windows of the
closed bins are scored but for the one under way. Or its end was committed by an earlier
process (`Detached`), and what can still arrive of it is its last row, from which no full
window comes, because it is alone in its bin or the bins before it are missing. A restart
puts every session back in one of the two, because the committed telemetry offset is
always the last row of a session whose end is committed too (`CommitInv`). A COMPLETED
that has been read is remembered or done with (`DoneInv`). `WorkerIsProducer` then shows
each step to be one of `ScoreProducer` or a stutter; its restart is a step of that
specification because scores below a scored window are scored (`ScoreInv`). The windows
are stated bin by bin, so nothing is said of `SelectSeq` or `FlattenSeq`. It was the
proof of `CommitInv` that showed the exception of section 5: the property had been
checked with two sessions and was false with three.

**Replay service.** `Inv` has the types, what is not there before a PAUSE or a failing
call (`SideInv`), and that every cursor a restart can come back to is good: the rows up
to it are out, under their numbers (`StreamInv`). `StreamAlwaysLossless` then shows for
each action that it is a step of `ReplaySession` or a stutter. `IncompleteInv` says that
the incomplete checkpoint, if there is one, is the active session's; `EndInv` that a
STOP in the log stands behind every session on the way to STOPPED, and that no session
is both answered RUNNING and refused as a second one.

**Console.** `FeedInv` relates the offset, the record in hand and the event table.
`StreamInv` says of each queue that its numbers rise one by one but where a marker
stands, across the overflow that drops the oldest. `ViewInv` is about the future of a
view: the last alert among what it shows and what its queue still holds is the latest of
its session, or the feed has still to broadcast that one (`Pending`); an older alert that
a restarted feed repeats is followed by all later ones (`AlertOrder`). `RcaInv` says of a
request in mid-course that what it is about to save cites its own bundle.

**Virtual lab.** The store's `Inv` adds that a snapshot in progress still sees exactly
the commands of the moment it read the run (`SnapshotsHeld`), which is what the
isolation level is for. The engine's `StoredInv` has one outbox row for each sampled tick
up to the checkpoint; `BatchInv` says that a worker's batch contains, with each row, the
rows before it that are not in the topic, though another worker may have marked them.
`RulesInv` says of each counter of a sensor's state that some stretch of the samples seen
last has that many samples of its kind and none that would have reset it (`SafeSince`,
`AboveSince`, `BelowSince`, `GoodSince`), and of each alert that such a stretch ended
where it was emitted. `EligibleAlwaysRuns` needs only the types of what is drawn:
`validate_lab`'s codes are restated as uniqueness and resolution of identifiers
(`Eligible`), every reference then has one node (`NodeResolved`), nodes and edges are
counted through bijections, and the clone is shown to be the definition renamed.

**Releases.** `LifecycleInv` follows a promotion: the run it was given is a candidate,
uploaded and attested, and stays so (`RunsKept`); of all promotions at most one is past
the creation of the registered model, so nobody else moves the alias between its steps.
What a call has seen in several looks is one package only as long as nobody changed it
meanwhile: `GateSaw` and `Reads` say so under `~disturbed`, where the attestation makes
a run reproduced and of a champion, and `disturbed` once set never goes back. `AnswerInv`
adds what the API has loaded and what a load through the alias found: it needs only the
upload's own anchor, so it holds after any disturbance. `PackInv` says of each builder
which files of its temporary directory are already its own and, until `shared`, that no
other builder at work has that directory (`Apart`); a directory taken over from a dead
builder holds files that are written again before they are hashed.
`MigInv` says that the rows of an open call are uncommitted, rise, lie below
what it has still to apply, and are held by no other call (`HeldOnce`): so a committed
name is new, and two calls cannot wait for each other. While the directory is unchanged
the first call that commits anything commits all of it (`OrderInv`), which is why the
order holds although calls overlap.

**Certification.** The invariant follows the evidence back: what the certification has
read, what the files say, what a gate is about to write; each is about a run that is
logged, and a logged run that passed is never changed (`LogKept`).

TLC checked the invariants on the bounds of the runs before they were proved, the
worker's also with three sessions. Some models were restated so that they could be
reasoned about, with the same behaviours: `LabEngine`, whose outbox is a set instead of a
sequence, `Migrations`, whose plan is, and `FeatureBuilder`, whose windows are sequences
of bins.

Only model-checked:

* the liveness properties (`EverythingCommitted`, `OutboxDrained`, `RunningSessionEnds`,
  `CompletedIsCommitted`, `DrainedOnceConnected`): fairness is out of the prover's reach;
* `ThresholdDescribesSplit`: a quantile is a position in a sorted list, and `SortSeq` has
  no definition the provers can use;
* `CommandsObeyed` and `WindowsMatchOffline`: what was commanded, and the segments a
  stream has been cut into, are taken from whole histories with `SelectSeq` and a fold
  over the segments, with the same difficulty. What the worker needs of the windows, for
  a stream without faults but redelivery, is proved as part of `IInv` (`BuilderAt`).

## 7. Not modelled

* Metrics (`ir/metrics.py`) and the drift indicator: nothing reads them back.
* The numerical code: feature statistics, detectors and autoencoder, drift statistics,
  benchmark reports, the lab's network solution and baseline. It is sequential
  floating-point code; what surrounds it is modelled with its result as a free choice.
* Gates and report generators that evaluate one record without state (Phases 5, 6 and
  10, contracts, portfolio claims), and schemas that are checks of one record.
* The read-only routes of the API, its error formatting, the lab's event stream, which
  nothing feeds, and the rendering of the console.
* Inside the models: message contents other than identity, time and kind; several
  partitions or several instances of one service; durations of sleeps and timeouts (a
  timeout is a call that fails).
