---------------------------- MODULE Integration ----------------------------
(***************************************************************************)
(* The FreeLLMAPI integration: the administrator's consent and what is     *)
(* known of the external instance (integration.Manager), the reading of    *)
(* its local database (freellmapi_local_quota.go), and the handlers and    *)
(* the background loop that call both (api.IntegrationRuntime), together   *)
(* with the catalogue they write to.                                       *)
(*                                                                         *)
(* A handler is a short program: each of its steps is one critical section *)
(* of the manager or of the catalogue, or a call to the instance, and any  *)
(* other handler may run in between.  What it still has to do is a         *)
(* sequence.  Every change of the manager is written to its file under the *)
(* lock, so the file is not a variable of its own; no write fails.  The    *)
(* summary of quota pools, and the fields that are only displayed, are     *)
(* left out.                                                               *)
(*                                                                         *)
(* Nothing else synchronises the provider: its configuration is registered *)
(* as an external one, which the 60-second catalogue loop and the manual   *)
(* synchronisation of providers pass over.                                 *)
(***************************************************************************)
EXTENDS Catalog, Sequences

CONSTANTS
    Configurations, \* pairs of address and key the process can be started with
    Background,     \* the goroutine of the background loop
    Handlers        \* bound: requests served at a time

\* The other providers touch nothing that is modelled here.
ASSUME IntegrationAssumption == \E p \in Providers : Free = {p} /\ Providers = {p}

VARIABLES
    config,    \* the configuration of this process, or "none"
    free,      \* Manager.instance
    report,    \* Manager.localQuota is there
    jobs,      \* the handlers and the background loop
    consent,   \* history: the configuration authorised last, or "revoked"
    cutoff     \* history: a restart came between the two parts of Revoke

freeVars == <<config, free, report, jobs, consent, cutoff>>
allVars == <<vars, freeVars>>

Jobs == Handlers \cup {Background}
FreeProvider == CHOOSE p \in Free : TRUE

Config == Configurations \cup {"none"}
Instance == [authorized : BOOLEAN, route : BOOLEAN, connected : BOOLEAN, fresh : BOOLEAN,
             usable : BOOLEAN, print : Config]
Step == {"check", "probe", "read", "commit", "sync", "mark", "forget", "state", "apply"}
Job == [todo : Seq(Step), enabled : BOOLEAN, \* the switch as it was read
        got : BOOLEAN]                       \* a report was read
Idle == [todo |-> <<>>, enabled |-> FALSE, got |-> FALSE]

\* main applies the state to the catalogue before it starts the loop and serves.
Starting == [Idle EXCEPT !.todo = <<"state", "apply">>]

IntegrationTypeOK ==
    /\ TypeOK
    /\ config \in Config /\ free \in Instance
    /\ report \in BOOLEAN /\ cutoff \in BOOLEAN
    /\ jobs \in [Jobs -> Job]
    /\ consent \in Config \cup {"revoked"}

\* Mutant: the configuration an instance was opened with is not recorded.
NewUnmarked(c) == [authorized |-> FALSE, route |-> FALSE, connected |-> FALSE,
                   fresh |-> FALSE, usable |-> FALSE, print |-> "unset"]

NewInstance(c) == [authorized |-> FALSE, route |-> FALSE, connected |-> FALSE,
                   fresh |-> FALSE, usable |-> FALSE, print |-> c]

IntegrationInit ==
    /\ Init
    /\ config \in Configurations /\ free = NewInstance(config)
    /\ report = FALSE /\ consent = "revoked" /\ cutoff = FALSE
    /\ jobs = [j \in Jobs |-> IF j = Background THEN Starting ELSE Idle]

\* The gate of routing.
RouteEnabled ==
    free.authorized /\ free.route /\ free.connected /\ free.fresh /\ free.usable

Up == phase = "up" /\ jobs[Background].todo \notin {<<"state", "apply">>, <<"apply">>}

------------------------------------------------------------------------------
(* Requests, and the background loop, as they begin.                       *)

Start(j, todo) ==
    /\ Up /\ jobs[j] = Idle
    /\ jobs' = [jobs EXCEPT ![j].todo = todo]

Authorize(j, route) ==
    /\ Start(j, <<"check", "read", "commit", "state", "apply">>)
    /\ free' = [free EXCEPT !.authorized = TRUE, !.route = route, !.usable = FALSE]
    /\ consent' = config
    /\ UNCHANGED <<vars, config, report, cutoff>>

Revoke(j) ==
    /\ Start(j, <<"forget", "state", "apply">>)
    /\ free' = [free EXCEPT !.authorized = FALSE, !.route = FALSE, !.usable = FALSE]
    /\ consent' = "revoked"
    /\ UNCHANGED <<vars, config, report, cutoff>>

\* Only switching off is applied to the catalogue.
SetRoute(j, enabled) ==
    /\ Start(j, IF enabled THEN <<>> ELSE <<"state", "apply">>)
    /\ free' = [free EXCEPT !.route = enabled,
                   !.usable = enabled /\ (@ \/ (free.authorized /\ free.connected /\ free.fresh))]
    /\ UNCHANGED <<vars, config, report, consent, cutoff>>

\* Probe asks for no consent; LocalQuotaRefresh, Sync and QuotaRefresh (a probe
\* whose summary is kept) do.
Ask(j) ==
    /\ \/ Start(j, <<"probe">>)
       \/ free.authorized /\ Start(j, <<"read", "commit">>)
       \/ free.authorized /\ Start(j, <<"probe", "sync", "mark", "read", "commit">>)
    /\ UNCHANGED <<vars, config, free, report, consent, cutoff>>

\* Every five minutes.
Awake ==
    /\ free.authorized
    /\ Start(Background, <<"probe", "read", "commit", "sync", "mark", "read", "commit">>)
    /\ UNCHANGED <<vars, config, free, report, consent, cutoff>>

------------------------------------------------------------------------------
(* Their steps.                                                            *)

Does(j, step) == jobs[j].todo # <<>> /\ Head(jobs[j].todo) = step

Goes(j, job) == jobs' = [jobs EXCEPT ![j] = IF job.todo = <<>> THEN Idle ELSE job]
Moves(j) == Goes(j, [jobs[j] EXCEPT !.todo = Tail(@)])
Ends(j) == jobs' = [jobs EXCEPT ![j] = Idle]

\* The instance is away, is not ready (or refuses the key, or talks nonsense),
\* lists nothing to route, or is not configured.
ProbeFails(j) ==
    /\ Does(j, "probe")
    /\ IF config = "none" THEN free' = free
       ELSE \/ free' = [free EXCEPT !.connected = FALSE, !.usable = FALSE]
            \/ free' = [free EXCEPT !.connected = TRUE, !.usable = FALSE]
            \/ free' = [free EXCEPT !.fresh = FALSE, !.usable = FALSE]
    /\ Ends(j)
    /\ UNCHANGED <<vars, config, report, consent, cutoff>>

ProbeSucceeds(j) ==
    /\ Does(j, "probe") /\ config # "none"
    /\ free' = [free EXCEPT !.connected = TRUE, !.fresh = TRUE,
                            !.usable = free.authorized /\ free.route]
    /\ Moves(j)
    /\ UNCHANGED <<vars, config, report, consent, cutoff>>

\* SyncRaw with what the probe has listed.  The approvals it copies first make
\* no difference to an auto-approved provider.
Listed(raw) == [pc |-> "admit", provider |-> FreeProvider, raw |-> raw, allow |-> {}, admit |-> {}]

SyncRaw(j) ==
    /\ Does(j, "sync")
    /\ \E raw \in SUBSET ModelsOf(FreeProvider) \ {{}} :
          \/ SyncCommit(Listed(raw)) /\ Moves(j)
          \/ SyncDropped(Listed(raw)) /\ Ends(j)
    /\ UNCHANGED <<config, free, report, consent, cutoff>>

\* Mutant: what has been synchronised counts as usable, authorised or not.
MarkUsable(j) ==
    /\ Does(j, "mark")
    /\ free' = [free EXCEPT !.fresh = TRUE, !.usable = free.connected \/ @]
    /\ Moves(j)
    /\ UNCHANGED <<vars, config, report, consent, cutoff>>

\* integration.Manager.MarkSynced
MarkFresh(j) ==
    /\ Does(j, "mark")
    /\ free' = [free EXCEPT !.fresh = TRUE,
                   !.usable = IF free.connected THEN free.authorized /\ free.route ELSE @]
    /\ Moves(j)
    /\ UNCHANGED <<vars, config, report, consent, cutoff>>

\* ApplyLocalQuota does nothing without consent; ReadLocalQuota reads nothing.
Check(j) ==
    /\ Does(j, "check")
    /\ IF free.authorized THEN Moves(j)
       ELSE Goes(j, [jobs[j] EXCEPT !.todo = <<"state", "apply">>])
    /\ UNCHANGED <<vars, config, free, report, consent, cutoff>>

ReadLocalQuota(j) ==
    /\ Does(j, "read")
    /\ \E got \in IF free.authorized THEN BOOLEAN ELSE {FALSE} :
          Goes(j, [todo |-> Tail(jobs[j].todo), enabled |-> FALSE, got |-> got])
    /\ UNCHANGED <<vars, config, free, report, consent, cutoff>>

\* Mutant: the consent is not checked again once the database has been read.
KeptUnasked(j) == report \/ jobs[j].got

\* RefreshLocalQuota checks the consent again; a failed read keeps the report.
Kept(j) == free.authorized /\ (report \/ jobs[j].got)

CommitLocalQuota(j) ==
    /\ Does(j, "commit")
    /\ report' = Kept(j)
    /\ Moves(j)
    /\ UNCHANGED <<vars, config, free, consent, cutoff>>

\* The second critical section of Revoke.
Forget(j) ==
    /\ Does(j, "forget")
    /\ report' = FALSE
    /\ Moves(j)
    /\ UNCHANGED <<vars, config, free, consent, cutoff>>

\* ApplyStateToCatalog reads the switch, and then sets the flags.
ReadState(j) ==
    /\ Does(j, "state")
    /\ Goes(j, [todo |-> Tail(jobs[j].todo), enabled |-> free.authorized /\ free.route, got |-> FALSE])
    /\ UNCHANGED <<vars, config, free, report, consent, cutoff>>

Apply(j) ==
    /\ Does(j, "apply")
    /\ ApplyStateToCatalog(jobs[j].enabled)
    /\ Moves(j)
    /\ UNCHANGED <<config, free, report, consent, cutoff>>

JobStep(j) ==
    \/ ProbeFails(j) \/ ProbeSucceeds(j) \/ SyncRaw(j) \/ MarkFresh(j) \/ Check(j)
    \/ ReadLocalQuota(j) \/ CommitLocalQuota(j) \/ Forget(j) \/ ReadState(j) \/ Apply(j)

------------------------------------------------------------------------------
\* Mutant: the consent is kept for the new configuration.
OpenedAsBefore(c) ==
    IF c = "none" THEN NewInstance("none") ELSE [free EXCEPT !.print = c]

\* New: consent was given to another address or key than those of this process,
\* or there is nothing configured and the file is not read.
Opened(c) ==
    IF c = "none" THEN NewInstance("none")
    ELSE IF free.print = c THEN free
    ELSE [free EXCEPT !.authorized = FALSE, !.route = FALSE, !.usable = FALSE, !.print = c]

\* The process starts again, maybe with another configuration or path of the
\* database (for which SetLocalQuotaPath drops the report).
Reconfigure(c) ==
    /\ Restart(IF c = "none" THEN {} ELSE Free)
    /\ config' = c
    /\ free' = Opened(c)
    /\ report' \in {FALSE, report /\ c # "none" /\ free.print = c}
    /\ cutoff' = (report' /\ ~free'.authorized)
    /\ jobs' = [j \in Jobs |-> IF j = Background THEN Starting ELSE Idle]
    /\ consent' = consent

IntegrationNext ==
    \/ GovernanceStep /\ UNCHANGED freeVars
    \/ LoadRules /\ UNCHANGED freeVars
    \/ \E h \in Handlers :
          \/ \E enabled \in BOOLEAN : Authorize(h, enabled) \/ SetRoute(h, enabled)
          \/ Revoke(h) \/ Ask(h)
    \/ Awake
    \/ \E j \in Jobs : JobStep(j)
    \/ \E c \in Config : Reconfigure(c)

IntegrationSpec == IntegrationInit /\ [][IntegrationNext]_allVars

------------------------------------------------------------------------------
\* Consent is for the address and the key it was given for, and until it is
\* revoked: through restarts, other configurations, a start without one and a
\* return to the first (ConfigFingerprint), nothing counts as authorised that
\* the administrator did not authorise under the present configuration.
ConsentIsForThisConfig == free.authorized => consent = config

\* No local accounting is kept without consent, however slowly it was read,
\* except while Revoke is about to drop it or after a restart in that moment.
ReportNeedsConsent ==
    report /\ ~free.authorized =>
        cutoff \/ \E j \in Jobs : "forget" \in {jobs[j].todo[i] : i \in DOMAIN jobs[j].todo}

\* What the flag says and what the gate of routing asks for are the same,
\* although eight operations write the five flags in different combinations
\* and a probe, a synchronisation and a decision overlap: in particular the
\* flag never survives the consent or the switch.
UsableMeansGate == free.usable => RouteEnabled

------------------------------------------------------------------------------
\* The programs run to their end: calls to the instance have deadlines, and a
\* job that waits for nothing is not suspended for ever.
IntegrationFairness ==
    /\ WF_allVars(LoadRules /\ UNCHANGED freeVars)
    /\ WF_allVars(Awake)
    /\ WF_allVars(JobStep(Background))

LiveIntegrationSpec == IntegrationSpec /\ IntegrationFairness

\* The instance answers every probe, with all it has, ...
InstanceWell ==
    \A j \in Jobs : jobs'[j] # jobs[j] =>
        /\ ~ProbeFails(j)
        /\ Does(j, "sync") => SyncCommit(Listed(ModelsOf(FreeProvider)))

\* ... and nobody decides anything: no restart, no consent, no new rule.  The
\* administrators may still ask, and what was under way may still come late.
LeftAlone ==
    /\ boots' = boots /\ Cardinality(gov') <= Cardinality(gov)
    /\ \A h \in Handlers : jobs'[h] # jobs[h] =>
          ~\E route \in BOOLEAN : Authorize(h, route)

\* An integration that is authorised and switched on repairs itself: once the
\* instance is well and the administrators leave it alone, it serves for good,
\* with all its models in Auto.  Whatever a failed probe, a partial list, a
\* switch or a rule applied late, or a restart has left behind, and whatever
\* two handlers still do to it, the background loop puts right.
ServesAgain ==
    /\ <>[](free.authorized /\ free.route /\ config # "none")
    /\ <>[][InstanceWell /\ LeftAlone]_allVars
    => <>[](RouteEnabled /\ \A m \in ModelsOf(FreeProvider) : cat[m].auto)

=============================================================================
