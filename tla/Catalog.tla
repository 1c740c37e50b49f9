------------------------------ MODULE Catalog ------------------------------
(***************************************************************************)
(* The model catalogue of Xing Shu (internal/catalog) with everything that *)
(* writes to it: provider synchronisation, the two approval layers         *)
(* (admission, Auto approval), capability probes, the reconciliation with  *)
(* the provider registry, the FreeLLMAPI switch and the start-up sequence  *)
(* of cmd/router/main.go.                                                  *)
(*                                                                         *)
(* Every write happens under Manager.mu, but the callers read first and    *)
(* write later: SyncRaw copies the approval maps before it takes the lock, *)
(* a governance request is validated, recorded, applied and saved in four  *)
(* steps.  Each critical section is an action here, and what a caller read *)
(* earlier travels in its job or request record.                           *)
(*                                                                         *)
(* A job or a request is an element of a set: two that are identical in    *)
(* every field count as one.  Timestamps, versions, scores, context sizes  *)
(* and audit texts are left out.  No write to disk fails, and no upstream  *)
(* lists an id twice (the code would keep two entries for one key).        *)
(***************************************************************************)
EXTENDS Naturals, FiniteSets

CONSTANTS
    Models,      \* "<provider>/<id>" keys; meta ids never enter the catalogue
    Providers,   \* provider ids
    ProviderOf,  \* the provider part of each key
    Free,        \* the auto-approved providers (FreeLLMAPI)
    Governed,    \* bound: the models administrators and probes act on
    Reviewer,    \* bound: the model of the persisted reviewer selection
    DropFloor,   \* size from which a shrinking catalogue is protected (10)
    MaxSyncs,    \* bound: provider synchronisations in flight
    MaxRequests, \* bound: administration requests in flight
    MaxBoots,    \* bound: restarts
    GracefulOnly \* restarts wait until no request is being served

ASSUME ConstantsAssumption ==
    /\ ProviderOf \in [Models -> Providers]
    /\ Free \subseteq Providers
    /\ Governed \subseteq Models
    /\ DropFloor \in Nat /\ MaxSyncs \in Nat /\ MaxRequests \in Nat /\ MaxBoots \in Nat
    /\ GracefulOnly \in BOOLEAN

VARIABLES
    cat,       \* Manager.Current.Models, "absent" where the key has no entry
    allow,     \* Manager.Allow
    admit,     \* Manager.Admitted (an unset key reads as FALSE)
    disk,      \* catalog-xing-shu.json
    rules,     \* GovernanceRulesRuntime.rules
    rulesFile, \* governance-rules-xing-shu.json
    configs,   \* providers in Registry.Snapshot()
    syncs,     \* synchronisations in flight
    gov,       \* governance rule requests in flight
    adm,       \* admission requests in flight
    reg,       \* enable/disable requests in flight
    probing,   \* capability probes in flight
    phase,     \* "boot" until the governance rules are loaded, then "up"
    boots,     \* restarts so far
    outdated   \* history: entries installed from approval maps that had changed

manager == <<cat, allow, admit, disk>>
requests == <<gov, adm, reg>>
vars == <<cat, allow, admit, disk, rules, rulesFile, configs, syncs, gov, adm, reg,
          probing, phase, boots, outdated>>

-----------------------------------------------------------------------------
Status == {"absent", "active", "unknown", "stale"}
Rule == {"none", "allow", "deny"}
Evidence == {"none", "probe", "selection"}

Model == [status: Status, auto: BOOLEAN, admitted: BOOLEAN, orphaned: BOOLEAN,
          evidence: Evidence]

NoModel == [status |-> "absent", auto |-> FALSE, admitted |-> FALSE,
            orphaned |-> FALSE, evidence |-> "none"]

State == [cat: [Models -> Model], allow: [Models -> Rule], admit: [Models -> BOOLEAN]]

RulesFile == [exists: BOOLEAN, rules: [Models -> Rule]]

SyncJob == [pc: {"fetch", "allow", "admit"}, provider: Providers,
            raw: SUBSET Models, allow: SUBSET Models, admit: SUBSET Models]

RuleRequest == [pc: {"validated", "ruled", "applied"}, model: Models, allow: BOOLEAN]

AdmissionRequest == [model: Models, admitted: BOOLEAN]

RegistryRequest == [pc: {"read", "commit"}, round: 1..2, view: SUBSET Providers]

TypeOK ==
    /\ cat \in [Models -> Model]
    /\ allow \in [Models -> Rule]
    /\ admit \in [Models -> BOOLEAN]
    /\ disk \in State
    /\ rules \in [Models -> Rule]
    /\ rulesFile \in RulesFile
    /\ configs \in SUBSET Providers
    /\ syncs \in SUBSET SyncJob
    /\ gov \in SUBSET RuleRequest
    /\ adm \in SUBSET AdmissionRequest
    /\ reg \in SUBSET RegistryRequest
    /\ probing \in SUBSET Models
    /\ phase \in {"boot", "up"}
    /\ boots \in Nat
    /\ outdated \in SUBSET Models

-----------------------------------------------------------------------------
(* What the operations of Manager do to one entry.                         *)

IsAutoApproved(m) == ProviderOf[m] \in Free

ModelsOf(p) == {m \in Models : ProviderOf[m] = p}

Present(m) == cat[m].status # "absent"

RuleOf(b) == IF b THEN "allow" ELSE "deny"

\* The three protocol checks are recorded together, so one value stands for
\* the three pieces of evidence; a reviewer selection overwrites one of them.
AutoApprovalReady(m, e) ==
    \/ IsAutoApproved(m)
    \/ e.admitted /\ e.status = "active" /\ e.evidence = "probe"

\* SetAllow on an entry that passed the readiness check.
Allowed(e, allowed) == [e EXCEPT !.auto = allowed /\ e.status = "active"]

\* Mutant: withdrawing an admission leaves the Auto flag alone.
AdmissionKeepsAuto(e, admitted) ==
    [e EXCEPT !.admitted = admitted,
              !.status = IF admitted THEN "active" ELSE "unknown"]

\* SetAdmitted on the entry of a provider that needs approval.
Admission(e, admitted) ==
    [e EXCEPT !.admitted = admitted,
              !.auto = FALSE,
              !.status = CASE admitted /\ e.status = "unknown" -> "active"
                           [] ~admitted /\ e.status = "active" -> "unknown"
                           [] OTHER -> e.status]

\* Mutant: a synchronisation keeps the Auto flag of a model it already knew.
SyncedKeepsAuto(m, e, allows, admits) ==
    [status   |-> IF m \in admits \/ IsAutoApproved(m) THEN "active" ELSE "unknown",
     auto     |-> IsAutoApproved(m) \/ (m \in admits /\ (m \in allows \/ e.auto)),
     admitted |-> m \in admits \/ IsAutoApproved(m),
     orphaned |-> FALSE,
     evidence |-> e.evidence]

\* Mutant: a synchronisation asks for approval even where none is needed.
SyncedNeedsRule(m, e, allows, admits) ==
    LET admitted == m \in admits \/ IsAutoApproved(m) IN
    [status   |-> IF admitted THEN "active" ELSE "unknown",
     auto     |-> admitted /\ m \in allows,
     admitted |-> admitted,
     orphaned |-> FALSE,
     evidence |-> e.evidence]

\* SyncService.Apply for one listed model, and what SyncRaw keeps of its old entry.
Synced(m, e, allows, admits) ==
    LET admitted == m \in admits \/ IsAutoApproved(m) IN
    [status   |-> IF admitted THEN "active" ELSE "unknown",
     auto     |-> IsAutoApproved(m) \/ (admitted /\ m \in allows),
     admitted |-> admitted,
     orphaned |-> FALSE,
     evidence |-> e.evidence]

\* Mutant: the Auto flag of an orphaned model is not reset.
ReconciledKeepsAuto(m, e, view) ==
    IF e.status # "absent" /\ ProviderOf[m] \notin view
    THEN [e EXCEPT !.status = "stale", !.orphaned = TRUE] ELSE e

\* Mutant: an orphaned model gets a status nothing else knows.
ReconciledRetires(m, e, view) ==
    IF e.status # "absent" /\ ProviderOf[m] \notin view
    THEN [e EXCEPT !.status = "retired", !.auto = FALSE, !.orphaned = TRUE] ELSE e

Reconciled(m, e, view) ==
    CASE e.status = "absent" -> e
      [] e.status # "absent" /\ ProviderOf[m] \notin view ->
            [e EXCEPT !.status = "stale", !.auto = FALSE, !.orphaned = TRUE]
      [] e.status = "stale" /\ e.orphaned /\ ProviderOf[m] \in view ->
            [e EXCEPT !.status = "unknown", !.auto = FALSE, !.orphaned = FALSE]
      [] OTHER -> e

\* ApplyDefaultApprovalPolicy, with admitted the value of Manager.Admitted.
DefaultPolicy(m, e, admitted) ==
    LET activated(ok) == IF ok /\ e.status = "unknown" THEN "active" ELSE e.status
        keeps == admitted \/ e.admitted
    IN  IF e.status \in {"absent", "stale"} \/ e.orphaned THEN e
        ELSE IF IsAutoApproved(m)
             THEN [e EXCEPT !.status = activated(TRUE), !.admitted = TRUE,
                            !.auto = e.auto \/ activated(TRUE) = "active"]
             ELSE [e EXCEPT !.status = activated(keeps), !.admitted = keeps,
                            !.auto = FALSE]

\* RestoreReviewerCapability for the selected reviewer.
ReviewerRestored(m, e) ==
    IF m = Reviewer /\ e.status = "active" /\ e.auto
    THEN [e EXCEPT !.evidence = "selection"] ELSE e

-----------------------------------------------------------------------------
(* Initial state: first start on an empty data directory.                  *)

Init ==
    /\ cat = [m \in Models |-> NoModel]
    /\ allow = [m \in Models |-> "none"]
    /\ admit = [m \in Models |-> FALSE]
    /\ disk = [cat |-> cat, allow |-> allow, admit |-> admit]
    /\ rules = [m \in Models |-> "none"]
    /\ rulesFile = [exists |-> FALSE, rules |-> rules]
    /\ configs = Providers
    /\ syncs = {} /\ gov = {} /\ adm = {} /\ reg = {} /\ probing = {}
    /\ phase = "boot"
    /\ boots = 0
    /\ outdated = {}

\* persistLocked: the whole state goes to the file.
Persist == disk' = [cat |-> cat', allow |-> allow', admit |-> admit']

-----------------------------------------------------------------------------
(* Synchronisation.  The periodic loop, the manual sync, the sync after a  *)
(* registry change and the FreeLLMAPI probes all end in SyncRaw.           *)

SyncStart(p) ==
    /\ p \in configs
    /\ Cardinality(syncs) < MaxSyncs
    /\ syncs' = syncs \cup {[pc |-> "fetch", provider |-> p, raw |-> {},
                             allow |-> {}, admit |-> {}]}
    /\ UNCHANGED <<manager, rules, rulesFile, configs, requests, probing, phase, boots, outdated>>

SyncFails(job) ==
    /\ job.pc = "fetch"
    /\ syncs' = syncs \ {job}
    /\ UNCHANGED <<manager, rules, rulesFile, configs, requests, probing, phase, boots, outdated>>

\* The upstream list has arrived and SyncRaw copies Manager.Allow.
SyncFetched(job, raw) ==
    /\ job.pc = "fetch"
    /\ syncs' = (syncs \ {job}) \cup
                {[job EXCEPT !.pc = "allow", !.raw = raw,
                             !.allow = {m \in raw : allow[m] = "allow"}]}
    /\ UNCHANGED <<manager, rules, rulesFile, configs, requests, probing, phase, boots, outdated>>

\* SyncRaw copies Manager.Admitted under a lock of its own.
SyncAdmissions(job) ==
    /\ job.pc = "allow"
    /\ syncs' = (syncs \ {job}) \cup
                {[job EXCEPT !.pc = "admit", !.admit = {m \in job.raw : admit[m]}]}
    /\ UNCHANGED <<manager, rules, rulesFile, configs, requests, probing, phase, boots, outdated>>

DropProtected(job) ==
    LET old == Cardinality({m \in ModelsOf(job.provider) : Present(m)}) IN
    old >= DropFloor /\ 2 * Cardinality(job.raw) < old

SyncDropped(job) ==
    /\ job.pc = "admit"
    /\ DropProtected(job)
    /\ syncs' = syncs \ {job}
    /\ UNCHANGED <<manager, rules, rulesFile, configs, requests, probing, phase, boots, outdated>>

\* Entries the commit installs with an approval that has been withdrawn since
\* the maps were copied.
Overtaken(job) ==
    {m \in job.raw : ~IsAutoApproved(m) /\ m \in job.admit
                     /\ (~admit[m] \/ (m \in job.allow /\ allow[m] # "allow"))}

SyncCommit(job) ==
    /\ job.pc = "admit"
    /\ ~DropProtected(job)
    /\ cat' = [m \in Models |->
                 IF ProviderOf[m] # job.provider THEN cat[m]
                 ELSE IF m \in job.raw THEN Synced(m, cat[m], job.allow, job.admit)
                 ELSE NoModel]
    /\ UNCHANGED <<allow, admit>>
    /\ Persist
    /\ syncs' = syncs \ {job}
    /\ outdated' = outdated \cup Overtaken(job)
    /\ UNCHANGED <<rules, rulesFile, configs, requests, probing, phase, boots>>

\* MarkSynced only stamps a time, but it writes the whole state out.
MarkSynced ==
    /\ phase = "up"
    /\ disk # [cat |-> cat, allow |-> allow, admit |-> admit]
    /\ UNCHANGED <<cat, allow, admit>>
    /\ Persist
    /\ UNCHANGED <<rules, rulesFile, configs, syncs, requests, probing, phase, boots, outdated>>

-----------------------------------------------------------------------------
(* Governance rules: POST apply, and undo, which applies the value an      *)
(* earlier apply replaced.                                                 *)

RoomForRequest == phase = "up" /\ Cardinality(gov) + Cardinality(adm) + Cardinality(reg) < MaxRequests

\* SetAllow succeeds on an entry that exists and, to be allowed, is ready.
Allowable(m, e, allowed) == e.status # "absent" /\ (allowed => AutoApprovalReady(m, e))

RuleValidate(m, allowed) ==
    /\ RoomForRequest
    /\ Allowable(m, cat[m], allowed)
    /\ gov' = gov \cup {[pc |-> "validated", model |-> m, allow |-> allowed]}
    /\ UNCHANGED <<manager, rules, rulesFile, configs, syncs, adm, reg, probing, phase, boots, outdated>>

RuleRecord(r) ==
    /\ r.pc = "validated"
    /\ rules' = [rules EXCEPT ![r.model] = RuleOf(r.allow)]
    /\ gov' = (gov \ {r}) \cup {[r EXCEPT !.pc = "ruled"]}
    /\ UNCHANGED <<manager, rulesFile, configs, syncs, adm, reg, probing, phase, boots, outdated>>

\* applyManager ignores the result of SetAllow.
RuleApply(r) ==
    /\ r.pc = "ruled"
    /\ IF Allowable(r.model, cat[r.model], r.allow)
       THEN /\ cat' = [cat EXCEPT ![r.model] = Allowed(@, r.allow)]
            /\ allow' = [allow EXCEPT ![r.model] = RuleOf(r.allow)]
            /\ UNCHANGED admit
            /\ Persist
       ELSE UNCHANGED manager
    /\ gov' = (gov \ {r}) \cup {[r EXCEPT !.pc = "applied"]}
    /\ UNCHANGED <<rules, rulesFile, configs, syncs, adm, reg, probing, phase, boots, outdated>>

RuleSave(r) ==
    /\ r.pc = "applied"
    /\ rulesFile' = [exists |-> TRUE, rules |-> rules]
    /\ gov' = gov \ {r}
    /\ UNCHANGED <<manager, rules, configs, syncs, adm, reg, probing, phase, boots, outdated>>

-----------------------------------------------------------------------------
(* Model admissions (POST apply and undo).                                 *)

AdmissionValidate(m, admitted) ==
    /\ RoomForRequest
    /\ Present(m) /\ ~IsAutoApproved(m)
    /\ cat[m].status # "stale" /\ ~cat[m].orphaned
    /\ adm' = adm \cup {[model |-> m, admitted |-> admitted]}
    /\ UNCHANGED <<manager, rules, rulesFile, configs, syncs, gov, reg, probing, phase, boots, outdated>>

\* The maps always change, but they are written out only if the entry is
\* still there.
SetAdmitted(r) ==
    /\ admit' = [admit EXCEPT ![r.model] = r.admitted]
    /\ allow' = IF r.admitted THEN allow ELSE [allow EXCEPT ![r.model] = "deny"]
    /\ IF Present(r.model)
       THEN /\ cat' = [cat EXCEPT ![r.model] = Admission(@, r.admitted)]
            /\ Persist
            /\ outdated' = outdated \ {r.model}
       ELSE UNCHANGED <<cat, disk, outdated>>
    /\ adm' = adm \ {r}
    /\ UNCHANGED <<rules, rulesFile, configs, syncs, gov, reg, probing, phase, boots>>

-----------------------------------------------------------------------------
(* Enabling and disabling a provider.  The registry notifies, then the     *)
(* handler reconciles again: two rounds, each of which first takes         *)
(* Registry.Snapshot() and then calls ReconcileProviders.                  *)

RegistryToggle(p) ==
    /\ RoomForRequest
    /\ p \notin Free
    /\ configs' = IF p \in configs THEN configs \ {p} ELSE configs \cup {p}
    /\ reg' = reg \cup {[pc |-> "read", round |-> 1, view |-> {}]}
    /\ UNCHANGED <<manager, rules, rulesFile, syncs, gov, adm, probing, phase, boots, outdated>>

RegistryRead(r) ==
    /\ r.pc = "read"
    /\ reg' = (reg \ {r}) \cup {[r EXCEPT !.pc = "commit", !.view = configs]}
    /\ UNCHANGED <<manager, rules, rulesFile, configs, syncs, gov, adm, probing, phase, boots, outdated>>

\* ReconcileProviders writes the state out when an entry changed.
ReconcileProviders(r) ==
    /\ r.pc = "commit"
    /\ cat' = [m \in Models |-> Reconciled(m, cat[m], r.view)]
    /\ UNCHANGED <<allow, admit>>
    /\ IF cat' # cat THEN Persist ELSE UNCHANGED disk
    /\ reg' = (reg \ {r}) \cup
              IF r.round = 1 THEN {[pc |-> "read", round |-> 2, view |-> {}]} ELSE {}
    /\ UNCHANGED <<rules, rulesFile, configs, syncs, gov, adm, probing, phase, boots, outdated>>

-----------------------------------------------------------------------------
(* Capability probes: the checks run against the provider, and evidence is *)
(* stored only when all three were conclusive.                             *)

ProbeStart(m) ==
    /\ phase = "up"
    /\ ProviderOf[m] \in configs
    /\ probing' = probing \cup {m}
    /\ UNCHANGED <<manager, rules, rulesFile, configs, syncs, requests, phase, boots, outdated>>

ProbeConclusive(m) ==
    /\ m \in probing
    /\ probing' = probing \ {m}
    /\ IF Present(m)
       THEN cat' = [cat EXCEPT ![m].evidence = "probe"] /\ UNCHANGED <<allow, admit>> /\ Persist
       ELSE UNCHANGED manager
    /\ UNCHANGED <<rules, rulesFile, configs, syncs, requests, phase, boots, outdated>>

ProbeUnavailable(m) ==
    /\ m \in probing
    /\ probing' = probing \ {m}
    /\ UNCHANGED <<manager, rules, rulesFile, configs, syncs, requests, phase, boots, outdated>>

\* ApplyStateToCatalog: authorising, revoking or re-routing FreeLLMAPI sets
\* the Auto flag of all its active models.
ApplyStateToCatalog(enabled) ==
    /\ phase = "up"
    /\ cat' = [m \in Models |->
                 IF IsAutoApproved(m) /\ Present(m)
                 THEN [cat[m] EXCEPT !.auto = enabled /\ cat[m].status = "active"]
                 ELSE cat[m]]
    /\ UNCHANGED <<allow, admit>>
    /\ IF cat' # cat THEN Persist ELSE UNCHANGED disk
    /\ UNCHANGED <<rules, rulesFile, configs, syncs, requests, probing, phase, boots, outdated>>

-----------------------------------------------------------------------------
(* The process stops at any point and main() runs again: LoadState, the    *)
(* default approval policy, ReconcileProviders with the registry and       *)
(* RestoreReviewerCapability, before any goroutine starts.                 *)

\* Mutant: the registry is reconciled before the approval policy is applied.
BootedInOtherOrder(m, view) ==
    ReviewerRestored(m,
        DefaultPolicy(m, Reconciled(m, disk.cat[m], view), disk.admit[m]))

Booted(m, view) ==
    ReviewerRestored(m,
        Reconciled(m, DefaultPolicy(m, disk.cat[m], disk.admit[m]), view))

\* view: what the registry offers in the new process.
Restart(view) ==
    /\ boots < MaxBoots
    /\ GracefulOnly => gov = {} /\ adm = {} /\ reg = {}
    /\ boots' = boots + 1
    /\ phase' = "boot"
    /\ cat' = [m \in Models |-> Booted(m, view)]
    /\ allow' = disk.allow
    /\ admit' = disk.admit
    /\ Persist
    /\ configs' = view
    /\ rules' = [m \in Models |-> "none"]
    /\ syncs' = {} /\ gov' = {} /\ adm' = {} /\ reg' = {} /\ probing' = {}
    /\ UNCHANGED <<rulesFile, outdated>>

\* NewGovernanceRulesRuntime runs while the first synchronisation may already
\* be under way.  It replays the file; without one the rules are Manager.Allow.
LoadedRules == IF rulesFile.exists THEN rulesFile.rules ELSE [m \in Models |-> "none"]

Replayed(m) ==
    LoadedRules[m] # "none" /\ Allowable(m, cat[m], LoadedRules[m] = "allow")

LoadRules ==
    /\ phase = "boot"
    /\ phase' = "up"
    /\ cat' = [m \in Models |->
                 IF Replayed(m) THEN Allowed(cat[m], LoadedRules[m] = "allow") ELSE cat[m]]
    /\ allow' = [m \in Models |-> IF Replayed(m) THEN LoadedRules[m] ELSE allow[m]]
    /\ UNCHANGED admit
    /\ IF \E m \in Models : Replayed(m) THEN Persist ELSE UNCHANGED disk
    /\ rules' = [m \in Models |->
                   CASE LoadedRules[m] = "none" -> allow[m]
                     [] LoadedRules[m] = "allow" /\ ~Replayed(m) -> "deny"
                     [] OTHER -> LoadedRules[m]]
    /\ UNCHANGED <<rulesFile, configs, syncs, requests, probing, boots, outdated>>

-----------------------------------------------------------------------------
SyncStep ==
    \/ \E p \in Providers : SyncStart(p)
    \/ \E job \in syncs :
          \/ SyncFails(job)
          \/ \E raw \in SUBSET ModelsOf(job.provider) : SyncFetched(job, raw)
          \/ SyncAdmissions(job) \/ SyncDropped(job) \/ SyncCommit(job)
    \/ MarkSynced

GovernanceStep ==
    \/ \E m \in Governed, b \in BOOLEAN : RuleValidate(m, b) \/ AdmissionValidate(m, b)
    \/ \E r \in gov : RuleRecord(r) \/ RuleApply(r) \/ RuleSave(r)
    \/ \E r \in adm : SetAdmitted(r)
    \/ \E p \in Providers : RegistryToggle(p)
    \/ \E r \in reg : RegistryRead(r) \/ ReconcileProviders(r)
    \/ \E m \in Governed : ProbeStart(m) \/ ProbeConclusive(m) \/ ProbeUnavailable(m)

Next ==
    \/ SyncStep
    \/ GovernanceStep
    \/ \E enabled \in BOOLEAN : ApplyStateToCatalog(enabled)
    \/ Restart(configs)
    \/ LoadRules

Spec == Init /\ [][Next]_vars

-----------------------------------------------------------------------------
(* Properties.                                                             *)

NeedsApproval(m) == ~IsAutoApproved(m)

\* What the candidate filter of internal/routing takes for granted of a model
\* with the Auto flag: it is active, admitted, not orphaned.  The three fields
\* are written by eight operations, none of which writes all of them.
AutoIsRoutable ==
    \A m \in Models : cat[m].auto =>
        cat[m].status = "active" /\ cat[m].admitted /\ ~cat[m].orphaned

\* The two approval layers hold for every entry, whatever interleaves and
\* whenever the process restarts, except for the entries a synchronisation
\* installed from approval maps that had changed since it copied them.
ApprovalHolds ==
    \A m \in Models \ outdated : NeedsApproval(m) =>
        /\ cat[m].auto => allow[m] = "allow"
        /\ cat[m].admitted => admit[m]
        /\ allow[m] = "allow" => admit[m]

\* A restart alone (before the governance rules are replayed) brings no
\* model that needs approval into Auto, and a stale model comes back at most
\* as unknown, so it has to be approved or synchronised again.
RestartRevivesNothing ==
    [][boots' # boots =>
         \A m \in Models :
           /\ NeedsApproval(m) => ~cat'[m].auto
           /\ cat[m].status = "stale" => cat'[m].status \in {"stale", "unknown"}]_vars

\* What the README says of the second layer: withdrawing the approval takes a
\* model out of Auto at once, and a synchronisation does not bypass it.
NoUnapprovedAuto ==
    \A m \in Models : NeedsApproval(m) /\ cat[m].auto => allow[m] = "allow"

\* ... and a restart does not bypass it either: an approval that has been
\* withdrawn is not given again by replaying the governance rules.
RestartKeepsRevocations ==
    [][phase = "boot" /\ phase' = "up" =>
         \A m \in Models : allow[m] = "deny" => allow'[m] # "allow"]_vars

\* What the README says of model=auto: its candidates completed the
\* capability checks.
AutoHasEvidence ==
    \A m \in Models : NeedsApproval(m) /\ cat[m].auto => cat[m].evidence = "probe"

\* ... and that the models of a provider which was disabled or deleted are out
\* of Auto, once the requests that changed the registry have been answered.
DisabledLeavesAuto ==
    reg = {} => \A m \in Models : cat[m].auto => ProviderOf[m] \in configs

-----------------------------------------------------------------------------
(* The periodic loop keeps synchronising every configured provider; a      *)
(* provider that is asked again and again eventually lists its catalogue.  *)

Finishes(job) ==
    job \in syncs /\ (SyncAdmissions(job) \/ SyncDropped(job) \/ SyncCommit(job))

Lists(p) ==
    \E job \in syncs : job.provider = p /\ SyncFetched(job, ModelsOf(p))

Fairness ==
    /\ WF_vars(LoadRules)
    /\ \A p \in Providers : SF_vars(SyncStart(p)) /\ SF_vars(Lists(p))
    /\ \A job \in SyncJob : WF_vars(Finishes(job))

LiveSpec == Spec /\ Fairness

\* A withdrawn approval that is not given again ends the model's time in Auto
\* for good, even when a synchronisation overtook the withdrawal, as long as
\* the provider stays configured.
RevocationTakesEffect ==
    \A m \in Models : NeedsApproval(m) =>
        (<>[](allow[m] # "allow" /\ ProviderOf[m] \in configs) => <>[](~cat[m].auto))

=============================================================================
