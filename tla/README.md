# A verification project for Xing Shu (星枢)

Xing Shu is a routing and governance control plane for large language models,
written in Go. It keeps a catalogue of the models that several
OpenAI-compatible providers offer, lets an administrator approve models in two
layers, ranks the approved ones for each request, fails over between them and
takes failing routes out of rotation until a probe brings them back. It hands
out client keys, integrates an external FreeLLMAPI instance, and lets a teacher
model review what was served to learn which models to prefer.

This directory holds TLA+ models of the parts where that is hard, the TLC
configurations that check them and the theorems TLAPS proves about them. Every
definition is taken from the Go source; `PROJECT.json` names the lines for each.

## 1. Inventory

| Component | State | Operations | What makes it correct |
|---|---|---|---|
| **Model catalogue** `internal/catalog` | `Manager.Current` (entries: status, `AutoRoutable`, `Admitted`, `Orphaned`, evidence), `Allow`, `Admitted`, the state file | `SyncRaw`, `SetAdmitted`, `SetAllow`, `ReconcileProviders`, `UpdateProviderModel`, `ApplyDefaultApprovalPolicy`, `RestoreReviewerCapability`, `MarkSynced`, load | only approved models are in Auto, whatever interleaves and after any restart |
| **Governance rules** `api/governance_rules.go` | `rules`, its file, audits | validate, apply, undo, replay at start | agrees with `Manager.Allow`; a withdrawn rule stays withdrawn |
| **Model admissions** `api/model_admission.go` | audits | validate, apply, undo | the first layer guards the second |
| **Capability probes** `api/native_probe*.go` | batches in memory, history in a file | probe, start a batch, count, close | evidence belongs to the entry it is stored on; the progress of a batch adds up |
| **Provider registry** `internal/provider` | dynamic providers with encrypted keys, environment providers, file | create, update, enable, disable, delete, snapshot | memory, file and catalogue agree; a key goes only to the address it was checked with |
| **Reliable routing** `internal/routing` | `Health.items` and its file; per request: candidates, attempts, skipped providers | rank, attempt, classify, fail over, probe | a request ends, never repeats a failed provider; a failing route rests and comes back |
| **Chat gateway** `api/chat.go`, sessions, cache | pins of sessions, cached answers, two files | serve, forward, pin, cache | a model that is no longer approved is forgotten |
| **FreeLLMAPI integration** `internal/integration`, `api/integration.go` | authorised, route, connected, fresh, usable, local report, file | authorise, revoke, switch, probe, synchronise, read the local database, background loop | nothing is read or routed without consent; an authorised integration serves |
| **Client keys** `internal/clientkey` | keys, mode, file | create, rotate, revoke, enable, mode, authenticate | a revoked key does not authenticate; the mode change does not lock everyone out |
| **Reviews, knowledge, shadow** `internal/runtime` | review records, the teacher, knowledge items, replays, batches, their files | claim, decide, promote, validate, expire, start, stop, retry, recover | each task is decided once; evidence counts once; trust is earned; batches end |
| **Quota** `internal/quota` | snapshots, reservations, alerts | set, reserve, release, alert | not modelled, see section 10 |
| Snapshots, capability matrix, auth, audit, views, console, scripts | none or append-only | | not modelled, see section 10 |

How they interact. All of it runs in one process, as goroutines over shared
state behind one mutex per object. The synchronisation loop, the FreeLLMAPI
loop, the administration handlers, probes and start-up write the catalogue;
routing reads a copy of it for every request. The registry calls back into the
catalogue when a provider changes. Requests, the recovery loop and the
administrator's reset write the health records. The gateway authenticates a
request, asks its memories, then routing, and records what it served for the
reviews; the verdicts of the reviews become knowledge, which replays test.
Every store writes its whole state to a JSON file, some under their lock, some
after it; start-up reads the files in a fixed order (`cmd/router/main.go:47-107`).

What is hard: callers read under one lock and write under the next (`SyncRaw`,
`ReconcileProviders`, `FailUntil`, `Registry.Update`, `KnowledgeDecision`,
`ShadowBatchRetry`, rule requests); two stores hold the same decision (`rules`
and `Manager.Allow`); answers arrive after the state they belong to has changed
(synchronisations, probes, requests, replays, teachers); writes fail and the
memory goes on; the process may stop between any two of these steps.
`PROJECT.json` lists each of them at its line under `hazards`, with the property
that watches it or the reason why none does.

## 2. Plan, and what is left of it

| | Modules | Proofs | |
|---|---|---|---|
| 1 | `Catalog`, `MCCatalog` | `CatalogProofs` | done: the approval layers, the heart of the product's promise |
| 2 | `Routing`, `MCRouting` | `RoutingProofs` | done: failover and health |
| 3 | `KeyLedger` (abstract), `ClientKeys`, `Gateway`, `MCAccess` | `GatewayProofs` | done: keys implement the ledger; what the gateway remembers |
| 4 | `Registry`, in `MCAccess` | `RegistryProofs` | done: providers, failing writes, overlapping updates |
| 5 | `Integration` on top of `Catalog`, `MCIntegration` | `IntegrationProofs` | done: consent, local report, gate, background loop |
| 6 | `Evaluation` (vocabulary), `Verdicts` (abstract), `Reviews`, `Shadow`, `MCEvaluation` | `ReviewsProofs`, `ShadowProofs` | done: reviews implement `Verdicts`; knowledge and replays build on it |
| 7 | `ProbeBatch`, in `MCEvaluation` | `ProbeBatchProofs` | done: batches of probes |

`Shadow` extends the abstract `Verdicts`, not `Reviews`: that `Reviews` keeps
what `Verdicts` says is a refinement, checked and proved, so that knowledge can
be studied without the batches that judge. `Gateway` extends `ClientKeys`, which
implements `KeyLedger`. `Integration` extends `Catalog` and composes the two:
its steps write the catalogue's variables. `Routing` sees the catalogue as a set
of approved models; `AutoIsRoutable`, proved of `Catalog`, is what makes the
Auto flag stand for the three fields that `RankedCandidates` tests.

Left: entries that an upstream lists twice and failing writes in `Catalog`; two
administrators who both decide on the consent of `Integration` (its theorems hold
for any number); the composition of `Reviews` and `Shadow` in one run, which their
refinement stands for.

## 3. The catalogue and what writes to it

### Catalog

One action per critical section of `Manager` and per step of its callers.

- **Entries.** `cat[m]` is the entry of the key `<provider>/<id>`; `allow` and
  `admit` are the two maps (`allow` has three values: a key that was never
  decided is not the same as a denied one when rules are replayed). The three
  protocol checks are always stored together, so one value of `evidence` stands
  for them.
- **Synchronisation** is four steps: the call starts, the list arrives and
  `Allow` is copied, `Admitted` is copied, the commit installs the entries (or
  is refused by the drop protection). The copies travel in the job. `raw` is
  any subset of the provider's models, so models disappear and come back.
- **Rules** are four steps (validate, record, apply to the manager, save) with a
  crash possible between any two. **Admissions** are two. Undo applies the
  earlier value and is the same request with that value.
- **Registry.** A toggle changes the snapshot and starts two rounds of "take the
  snapshot, then reconcile", as the callback and the handler do.
- **Restart** loses everything in flight and runs the start-up order of `main`;
  `LoadRules` follows as a step of its own since the synchronisation loop is
  already running by then. It replays the file of rules; without one it takes
  over `Manager.Allow` and writes nothing.
- `outdated` is a history variable: the entries a commit installed from maps
  that had changed. The code has no such thing; `ApprovalHolds` names with it
  the one exception, and `RevocationTakesEffect` says that it heals.

`persistLocked` is part of every action that calls it. Decisions that the code
leaves only in memory (`SetAdmitted` of an entry that has vanished) stay only in
memory. In the runs about `Catalog` alone nothing is auto-approved.

### Integration

FreeLLMAPI on top of the catalogue. A handler is a short program, a sequence
`todo` of steps; each step is one critical section of `integration.Manager` or
of the catalogue, or one call to the instance, and any other handler may run in
between: `Authorize` is followed by check, read, commit, state, apply; `Revoke`
by forget, state, apply; the background loop by probe, read, commit, sync, mark,
read, commit. `free` is the instance with its five flags and the fingerprint of
the configuration it was opened with; `report` says whether local accounting is
kept. A restart may come with another configuration or none (`Reconfigure`).
`consent` and `cutoff` are history: which configuration was authorised last, and
whether a restart came between the two halves of `Revoke`.

Only these programs synchronise FreeLLMAPI. The 60-second catalogue loop and the
manual synchronisation go over `Registry.Snapshot()`, which overlays the external
configurations, and both pass over those (`catalog/loop.go:25`,
`api/native_admin.go:100`): `integration.Manager.Config()` leaves `Source` empty
(`freellmapi.go:293-300`), and `provider.ExternalConfigs` then sets it to
`external` (`provider/config.go:37-38`). The gates for FreeLLMAPI in
`cmd/router/main.go:96-101` and `:143-146` are therefore never asked.

### ProbeBatch

A batch of probes is one goroutine per target, which waits for a slot, probes,
gives the slot back and counts; one more goroutine closes the batch and writes
the history. `probes[b]` records where each target is. What a probe stores in
the catalogue is `ProbeStart`, `ProbeConclusive`, `ProbeUnavailable` of
`Catalog`.

## 4. Module Routing

- **Health.** One record per model and one per provider (`"p/*"`). The operators
  `Failed`, `Extended`, `ProbeFailed` are the critical sections of `Health`;
  time is what is left of a cooldown and counts down. The failure count
  saturates at `FailureCap`, beyond which no operation tells two counts apart:
  `Fail` multiplies by at most four, `ProbeFailed` clips to eight.
- **Requests.** `Ask` takes the snapshot of candidates; `Send`, the answers and
  `GiveUp` are the loop of `CompleteReliable`. Scores give some order; the model
  tries any. An attempt ends in one of the six failure kinds or well, the record
  it is written to follows `ScopeOf`. HTTP 429 is two steps, because `FailUntil`
  takes the lock twice. `Forwarded` is the end of the answer in
  `Chat.forward`, which may still fail.
- **Recovery.** One pass of `ProbeRecovery` collects what is due, then probes one
  after the other, while requests go on.
- **Outside.** Approvals, quota, gates and the registry are toggles. A provider
  that left the registry is called with an empty address and fails at once
  (`SendNowhere`).
- `gaps` is a history variable for the records whose cooldown was written by the
  second critical section of `FailUntil` after a reset or a success had cleared
  them in between. Such a cooldown expires without a probe.

## 5. Keys, providers and the gateway

### KeyLedger and ClientKeys

`KeyLedger` is what a store of keys promises, without files: how a key lives,
that a rotation happens in one piece, that keys become compulsory only while one
is active, that what was answered without an error is settled and that a restart
takes back at most what is in doubt. `ClientKeys` is `clientkey.Store`: every
operation with its write, which may fail, and what each operation leaves in
memory then (only `Rotate` puts it back). A key is in doubt while memory and
file differ about it: that is the refinement mapping of `KeepsLedger`.

### Gateway

`POST /v1/chat/completions` behind the keys: `Enter` reads pin, cache and
catalogue in the order of the handler; `Rank` looks for candidates once, and
`Attempt`, `AttemptFails`, `NoRoute` go through them, approved still or not, as
module `Routing` does in detail; `Answered`, `KeepPins`, `Forward`, `CachePut`,
`KeepCache` are the two memories with their files, written outside the lock.
Dates are counted in ticks that are left, in the files as well. `gone` is
history: how long ago a model lost its approval.

### Registry

`provider.Registry` and its handlers. An update is three critical sections
(merge and check, merge again, commit). Each record carries two history fields:
the switch that was asked for last, and what an overlapping request has
`crossed`. `checked` is history too: which address passed the check with which
key. A failed write takes a creation back and nothing else.

## 6. Reviews, knowledge and replays

### Verdicts and Reviews

`Verdicts` is what the evaluation may expect of the store of reviews: recorded
tasks are judged, pruned ones are gone, a restart finds an image that was saved.
`Reviews` is the code: `Claim`, the teacher's answer with valid, invalid and
missing decisions, one critical section per decision, the failures of the
teacher, retention, restart. What changes the teacher and what saves it are two
steps (`Failure`, `Success`, `Drop`, `Select`, then `SaveTeacher`), for
`ReviewerSelection.persist` reads the teacher again after the lock was released.
A write that fails and one that an older image overtakes leave the same file
behind, so both are "a change that is not saved" (`SaveReviews`, `SaveTeacher`;
the stores where it may happen are listed in `Unreliable`). `stranded` and
`overtaken` are history: tasks no batch will report on, and that the failure
that dooms a teacher was counted while a job still had to save an earlier change
of it.

### Shadow

Knowledge, replays and batches of replays, on top of `Verdicts`. A replay is one
call between critical sections. Decisions on knowledge and retries look at a
copy first and act later, as the handlers do. `vouched`, `cut` and `crossed` are
history: knowledge an administrator called validated or trusted, replays a
restart cut off, batches that were stopped before they began or retried out of
turn (while a goroutine was running, or by a second request that had looked at
the batch before the first one restarted it).

## 7. Runs

| Run | Question | Bounds |
|---|---|---|
| `catalog` | do the approval layers hold; does a restart revive anything | two models of one provider, one of them administered, one synchronisation and two requests in flight, one restart; 1.2 million states |
| `catalog_free` | are consent, report and gate consistent; does an authorised integration repair itself | part *requests*: one handler, the loop and two restarts under two configurations or none; part *rules*: one rule for a model of an integration that is on, one restart; part *handlers*: two handlers and the loop, on such an integration; 0.26 million |
| `catalog_live` | does a withdrawal take effect in the end | one model, two synchronisations, one request, one restart; 0.2 million |
| `access` | do keys keep the ledger; how long is a withdrawn model remembered; do addresses and keys stay together | part *keys*: two keys, failing writes, restarts; part *gateway*: one key, model, conversation and request; part *providers*: one provider, one update at a time; part *updates*: two updates at a time; 0.11 million |
| `evaluation` | are tasks decided once, is trust earned, do batches add up and end | part *reviews*: the worker's batch and an administrator's; part *teacher*: two administrators whose batches count and who select; part *knowledge*: verdicts, validations, single replays; part *batches*: one batch of two replays, two goroutines, two administrators and two retries; part *probes*: two batches of up to two targets and one slot; 0.24 million |
| `routing_failover` | does a request avoid what it has tried | three models of two providers, one of which can be disabled, one client, two attempts, up to three failing records; 0.9 million |
| `routing_recovery` | do requests end, do routes come back, by a probe | one model that may be withdrawn, two clients, two attempts, Retry-After 2 ticks, failure count up to 2; 29 thousand |
| `catalog_overtaken`, `catalog_restart`, `catalog_relisted`, `catalog_disabled`, `routing_return` | statements of the repository's README that the code does not keep | as above |

Three MC modules (`MCAccess`, `MCEvaluation`, `MCIntegration`) put components
that share no state, or two questions about one component, side by side: a
behaviour is about one part from its first state on, so that the graphs of the
parts are added and not multiplied. `Focus` says in each of them what a part is
about. Keys, editors, addresses and secrets in `MCAccess`, and the two models of
the first provider in `RoutingFailover`, differ in nothing and are symmetric; no
run with a symmetry has a liveness property.

Why the bounds are enough. Every conflict in the catalogue is between one job
that carries an old copy and one or two requests, on one key; a second model is
there for the drop protection (threshold 2, or 1 with a single model, instead of
10) and for the reviewer. Two requests meet on one key, so `catalog` explores
two at a time only while the second model is away and no probe is under way;
with one request everything is combined. Two synchronisations matter only for
liveness, where one may overtake the other. In the integration the loop and one
handler overlap step by step, and in part *handlers* the loop and two: one that
switches the route, probes or synchronises and one that probes or synchronises,
which is what can leave a closed gate and a partial list behind at once. The
last start returns to the first configuration, for what a consent survives shows
on the way from one configuration to another and back. In routing, a conflict
needs two writers of one record: two requests, or a request and the recovery
loop. Three models of two providers are the least in which a provider is skipped
while another candidate is left; with two attempts the limit is reached too; a
request reaches two records, and a third may be left from before it
(`FewFailing`). Two keys are needed for a rotation and for a requirement whose
last key is withdrawn; the gateway only asks whether a key is good, and has one
that is. Two updates are needed for a crossed record. Two goroutines are what a
retry leaves running on one batch, two administrators are needed for two retries
of what both saw stopped; a batch of two replays has one that is done and one
that is not. One task suffices for reviews, whose batches meet on single tasks;
two jobs that count failures (the worker does not) are what one of them needs to
save the count of the other. The theorems hold for any number. One slot and two
targets make a goroutine wait, a history of one makes it trim. `MaxAttempts`,
cooldowns, times to live, limits and caps are constants, and the theorems hold
for all their values.

Each property is paired in `PROJECT.json` with a mutant of the code's behaviour
that breaks it; the mutated operators stand next to the originals, marked
`Mutant:`. Deadlock is checked in every run.

**Fairness.** Safety needs none.

- `catalog_live`: rules are loaded after a start; each configured provider is
  asked again and again by the 60-second loop (`catalog/loop.go:37-47`) and
  answers with its list again and again; a synchronisation that has its list
  ends, for it only waits for a mutex.
- `catalog_free`: rules are loaded after a start, the background loop wakes and
  its steps are taken (its calls carry a deadline of 30 s); the handlers have no
  fairness at all. What `ServesAgain` is conditional on is no fairness but part
  of the property: from some time on the instance answers every probe with all it
  has (`InstanceWell`), and nobody authorises, sets a rule or restarts
  (`LeftAlone`). Without any one of these conditions TLC finds a counterexample:
  a handler whose probe fails, or one that commits a partial list, just after
  each repair is enough.
- `evaluation`: a goroutine of `runShadowBatch` runs until it ends; its calls
  carry a deadline.
- `routing_recovery`: time passes; every attempt and every probe ends, for both
  carry a timeout (45 s and 10 s); the 30-second recovery loop comes round and is
  not interrupted by restarts for ever; an upstream that is probed again and
  again answers well again and again. The last one again is the condition.

**What is left when nothing is violated.** Several properties name an exception.
They are the places where a reader should look twice:

- `CheckedTogether`, `OffStaysOff`: an update keeps the key (or the switch) it
  read while another request replaces it; the address of one and the key of the
  other were never checked together, although `README.md:117` says the service
  validates a provider before it stores it.
- `StaleIsBounded`: until the time to live is over, the cache answers for a model
  whose approval is gone (`README.md:124`: withdrawing "立即退出 Auto") and a pin
  makes every request of its conversation fail.
- `NothingElseStranded`: a task with an invalid decision counts as found
  (`reviewer.go:130-141`) and stays `processing` until a restart finds it old
  enough; a claim too young at a restart does too. An answer that names a task
  twice judges it twice.
- `FailedTeacherLeaves`: a batch that has counted a failure below the limit saves
  the teacher after it has released the lock, and may save the count another batch
  has added (`reviewer_config.go:75-87`, `:35-47`); a stop before the drop is saved
  brings that teacher back, until its next failure. Between counting the last
  failure and `Clear` another teacher may be selected, and is dropped.
- `BatchAddsUp`: a batch stopped before its goroutine begins is run all the same;
  a retry starts a second goroutine while the first is still running; and of two
  retries at once the second starts a goroutine for a batch the first has
  restarted, for the handler ignores what `Retry` found
  (`shadow_batch_retry.go:30-45`, `shadow_batch.go:148-156`).
- `RunningIsRun`: a replay that a restart cut off stays `running`, and the
  nightly worker never repeats it (`shadow_worker.go:35`).
- `ReportNeedsConsent`: a restart between the two halves of `Revoke` leaves the
  local report in the file until the next revocation or refresh.
- `UsableMeansGate`: only the gate protects, which routing asks for every
  candidate (`main.go:114`); a synchronisation that was under way puts the models
  of a revoked integration back into Auto, where they stay, and no property says
  otherwise. Switching the route
  on after a failed probe opens the gate again as long as the earlier flags stand.
- `KeepsLedger`: a failed write answers with an error and still holds until the
  restart; a key whose creation failed counts for the requirement; rotating a
  revoked or disabled key gives an active one.
- `EnvironmentIsReadOnly`: an environment that names a provider the file holds is
  hidden by the file's record, which can no longer be edited.
- A batch of probes that a restart interrupts is forgotten; every batch has four
  slots of its own.

## 8. What the violated statements show

1. **A withdrawal may be overtaken** (`catalog_overtaken`): `SyncRaw` copies the
   approval maps before it takes the lock. A withdrawal in between is undone in
   the entry until the provider is synchronised again.
2. **A restart may give an approval back** (`catalog_restart`): withdrawing the
   admission clears `Manager.Allow` but not the rule store; once the model is
   admitted again, the next start replays the old rule. The run restarts only
   when no request is in progress, so no crash is needed.
3. **A relisted model is in Auto without evidence** (`catalog_relisted`): the
   approvals outlive the entry, the evidence does not.
4. **A disabled provider's models return** (`catalog_disabled`): a list that is
   being fetched when the provider is disabled is committed after both rounds of
   reconciliation.
5. **A late success ends a cooldown** (`routing_return`): `Success` clears the
   record of a route whoever calls it, also a request sent before the failure.

Each is quoted in `PROJECT.json` with the sentence of the repository it is about.

## 9. Proofs

Eight modules, one per component, hold for every value of the constants that
satisfies the component's named assumption (types, positive durations and
limits, `MultCap <= FailureCap`, finite `Targets`; that the goroutines of batches
are none of the other callers; for `Integration`, that FreeLLMAPI is the one
provider): any numbers of models, providers, clients, requests, keys, tasks,
batches, updates and restarts.

- **`CatalogProofs`.** `TypeCorrect`: each operation on an entry maps
  well-formed values to well-formed ones (`EntryTypes`). `AutoRoutable` is not
  inductive by itself, for a restart reads the file and an admission request may
  have been validated long before: `RoutableInv` adds the same condition for the
  entries on disk, and that requests in flight name only models that need
  approval. `ApprovalLayers`: the layers must hold in memory and in the file, for
  each entry outside `outdated`; the file is the harder half, for `Manager.Allow`
  may be ahead of it, and `LayersWrite` reduces every step that writes the file to
  what it does in memory. `RestartSafe`: the entries on disk equal those in memory
  (`EntriesOnDisk`, unlike the maps), so the start-up order, applied to an entry
  that satisfies `RoutableInv`, decides the theorem.
  The types, `RoutableInv` and `EntriesOnDisk` are proved for more than `Next`:
  `CatalogStep` adds restarts under any view of the registry and synchronisations
  whose list is there already, so that the integration can use them.
- **`RoutingProofs`.** `DifferentAttempts` speaks about past attempts; what makes
  it inductive is `Walk`: tried models have left the candidates, providers that
  failed as a whole are skipped, and a request that awaits an answer has an
  attempt it belongs to. `CoolingRoutesProbed` is inductive with type correctness,
  thanks to `gaps`; without that exception it is false. `RequestsWearOut`: a
  request has at most three steps for each attempt and one to give up
  (`StepsLeft`); each step of its own takes from it and nobody else adds to it.
  The deepest part is that the recovery loop, a reset or another client cannot
  give an attempt back. `CooldownsBounded`: for any bound on the configured
  cooldowns and on Retry-After, no record is kept out longer (`Within` adds the
  deadline a request carries between the critical sections of `FailUntil`).
- **`GatewayProofs`.** `KeysInv` (types, the file is a past of the memory, the
  requirement has keys, what was handed out is in the file) is inductive: the
  write decides each step, and `Persist` succeeds with the whole image or not at
  all. From it every operation is a step of `KeyLedger` or a stutter
  (`GatewayKeepsLedger`). `StaleMemoriesEnd` needs `GatewayInv`: a request in
  flight has aged at most one tick, and so has the ranking its candidates come
  from (`Recent`), so what it is about to remember has at most
  its time to live plus that tick since the model left; an approved model is not
  counted as gone. `WithdrawnForGood`: a key that is revoked in memory and in the
  file stays so and lets nobody in; a file that failed to be written is the
  exception, which is why both are asked for (`Withdrawn`).
- **`IntegrationProofs`.** Only a revocation has the report to drop, and does so
  first (`JobsOK`); the fingerprint of the instance is that of the process. With
  these, consent, report and gate are inductive together: a report that arrives
  late is kept only under a consent that still stands. `StepOfCatalog`: whatever
  the integration does to the catalogue is a `CatalogStep`, so the catalogue's
  invariants hold within the composition too (`Together`), and with them
  `IntegrationTypes`, `IntegrationRoutable` and `IntegrationRestartSafe`, under
  restarts that change the configuration. `NothingConfiguredNothingInAuto`: a
  process without a configuration has no model of FreeLLMAPI in use, although
  consent, switch and rules can still be set; its invariant (`AwayInv`) says that
  every program that commits a list still has the probe before it.
- **`RegistryProofs`.** What holds of a record (`Sound`) must hold of the memory
  and the file, and an update in flight must promise it: by itself for what it was
  given (`Stands`), relative to the record it will meet for what it kept
  (`Leans`). Whatever touches the record in between marks the update as crossed.
  `EnvironmentStands` is an action property; `EnvironmentOK` says that memory and
  file agree on a provider of the environment and that no update of it gets as far
  as the lock.
- **`ProbeBatchProofs`.** `Fits`: the places of a target are disjoint and finite,
  and the counters are their cardinalities, so that moving one target changes two
  of them by one. A closing batch has empty places, so its entry is whole.
- **`ReviewsProofs`.** `ReviewsInv`: what a batch still holds depends on where
  it is (`JobOK`), and `ClaimedOnce` ties it to the statuses. The teacher and
  the tasks are proved apart (`SameTasks`, `SameTeacher`), for most steps touch
  one of them. For the teacher (`TeacherInv`) what counts is whether a job still
  has to save when a failure too many is counted: if none has, the doomed count
  cannot reach the file, and if one has, `overtaken` says so.
  `ReviewsKeepVerdicts` is the refinement: `JudgedInv` (only a reviewed task
  supports knowledge, in memory and in the file) makes claims, failures and
  recoveries invisible to `Verdicts`, and `SavedSeen` reduces what a write may
  leave behind to `Save`.
- **`ShadowProofs`.** `WellFormed` links the parts: a goroutine has a call only
  while it replays, within a batch that is there in memory. `EvidenceInv` makes
  `ReplaysEarnNoTrust` inductive: evidence for what is not yet trusted, and
  which nobody vouched for, is administrators' alone (`Earned`), because a
  replay under way is one of something that was trusted when it began
  (`Settled`), and such a thing can only be rejected, expire or be vouched for
  meanwhile. `BatchInv`: at most one goroutine works on a batch that is not
  `crossed`, its place is what the batch has counted (`RunFits`), and the
  counters add up in the file as well (`Fits`), from which a restart goes on.
  `BatchesAreAttended`: every batch that is shown as waiting or running has a
  goroutine (`Attended`), because a goroutine that ends leaves its batch ended;
  `GoroutinesWearOut`: each goroutine has at most four steps for each replay and
  two of its own (`Left`), which only its own steps take away and nothing adds
  to. Steps are grouped by what they touch (`Moves`, `Replays`, `CallStep`), so
  that each invariant meets each step once. `NothingElseRevives` names the three
  steps that bring a rejected or expired item back (`Revival`), and goes through
  all others.

Three pairs of theorem and liveness property belong together. That every request
is answered (`EveryRequestAnswered`) is `RequestsWearOut` plus fairness: what is
left of a request only falls, so it ends when its steps are taken. That every
batch ends (`EveryBatchEnds`) is `BatchesAreAttended` and `GoroutinesWearOut` plus
fairness. That a route comes back (`RouteComesBack`) needs `CooldownsBounded`,
among other things. The theorems hold for all constants; that the steps are
enabled, and taken, is what TLC adds.

Only model-checked: the liveness properties themselves (`RevocationTakesEffect`,
`ServesAgain`, `EveryBatchEnds`, `EveryRequestAnswered`, `RouteComesBack`), for
TLAPS has no support for fairness and ENABLED here; and of course the violated
statements. Every other property of a run is stated by a theorem.

## 10. Not modelled, and why

- **Quota and alerts.** That a provider is out of quota is a toggle of `Routing`.
  The rest is not reached by the program: nothing calls `Ledger.Reserve`, and
  nothing sets `Manager.Remote`, `Files`, `AlertPath` or calls `StartPeriodic`.
- Two entries of one key, when an upstream lists an id twice. The code keeps both
  and `SetAllow` stops at the first. The drop protection is modelled as it is; no
  document says what it must guarantee over several synchronisations, in which a
  catalogue can shrink by halves.
- The upgrade of a state file from before admissions (`manager.go:28-36`).
- Failing writes in `Catalog` and `Integration`: they are logged or ignored, and
  memory goes on.
- Temporary files that are torn by two writers of one store outside its lock; the
  model leaves the older or the newer image.
- Requests with several changes: they are applied one by one, like requests with
  one change each.
- `ApplyStateToCatalog` updates its models one by one from a copy; FreeLLMAPI
  models differ in no field it looks at, so it is one step here.
- Data races in the Go sense (evidence maps shared by snapshots, `Sessions` and
  `Cache` ranging over their maps outside the lock): they may end the process,
  which is the restart of the models.
- Message text, compaction and the conversation with the teacher; scores,
  learning, knowledge bonuses and capability matching: they select and order
  candidates, and the models allow any selection and order. The reviewer and the
  replays call `provider.LoadConfigs`, which knows only the environment and
  external providers; availability of a candidate is left open.
- Names, masks, hashes and encryption of keys; what a page shows.
- Snapshots (the restore is a dry run), authentication, audit, views, the
  console and the scripts keep no state that the others depend on.

## 11. Running

    tlc -workers 2 -config Catalog.cfg MCCatalog
    tlapm CatalogProofs.tla

and likewise for the other configurations. A run marked "violation" in
`PROJECT.json` ends with a counterexample.
