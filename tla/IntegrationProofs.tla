------------------------- MODULE IntegrationProofs -------------------------
(***************************************************************************)
(* Theorems about Integration: consent, the local report and the gate of   *)
(* routing, for any catalogue, any configurations and any number of        *)
(* requests at a time; and what the catalogue keeps of its invariants as a *)
(* part of it.                                                             *)
(***************************************************************************)
EXTENDS Integration, CatalogProofs

Has(todo, step) == \E i \in DOMAIN todo : todo[i] = step

\* Only Revoke has to drop the report, and does so first.
Forgetting == <<"forget", "state", "apply">>

JobOK(job) ==
    /\ job \in [todo : Seq(Step), enabled : BOOLEAN, got : BOOLEAN]
    /\ Has(job.todo, "forget") => job.todo = Forgetting

JobsOK ==
    /\ jobs \in [Jobs -> Job]
    /\ \A j \in Jobs : JobOK(jobs[j])

\* Consent is bound to the print of the configuration, which is that of this
\* process; what the report depends on is bound to the programs of the jobs.
IntegrationInv ==
    /\ JobsOK
    /\ free \in Instance /\ report \in BOOLEAN /\ config \in Config
    /\ free.print = config
    /\ ConsentIsForThisConfig
    /\ ReportNeedsConsent
    /\ UsableMeansGate

Dropping == \E j \in Jobs : Has(jobs[j].todo, "forget")

-----------------------------------------------------------------------------
(* The programs of the jobs.                                               *)

LEMMA ProgramOK ==
    ASSUME NEW todo \in Seq(Step), todo = Forgetting \/ ~Has(todo, "forget")
    PROVE  JobOK([Idle EXCEPT !.todo = todo])
  BY DEF JobOK, Idle

LEMMA ProgramsOK ==
    /\ JobOK(Idle) /\ JobOK(Starting)
    /\ JobOK([Idle EXCEPT !.todo = <<"check", "read", "commit", "state", "apply">>])
    /\ JobOK([Idle EXCEPT !.todo = Forgetting])
    /\ JobOK([Idle EXCEPT !.todo = <<>>])
    /\ JobOK([Idle EXCEPT !.todo = <<"state", "apply">>])
    /\ JobOK([Idle EXCEPT !.todo = <<"probe">>])
    /\ JobOK([Idle EXCEPT !.todo = <<"read", "commit">>])
    /\ JobOK([Idle EXCEPT !.todo = <<"probe", "sync", "mark", "read", "commit">>])
    /\ JobOK([Idle EXCEPT !.todo = <<"probe", "read", "commit", "sync", "mark", "read", "commit">>])
  <1>1. JobOK([Idle EXCEPT !.todo = <<>>])
    <2>1. <<>> \in Seq(Step) /\ ~Has(<<>>, "forget")
      BY DEF Has
    <2> QED
      BY <2>1, ProgramOK
  <1>2. JobOK(Idle)
    BY <1>1 DEF Idle
  <1>3. JobOK([Idle EXCEPT !.todo = <<"state", "apply">>])
    <2>1. <<"state", "apply">> \in Seq(Step) /\ ~Has(<<"state", "apply">>, "forget")
      BY DEF Has, Step
    <2> QED
      BY <2>1, ProgramOK
  <1>4. JobOK(Starting)
    BY <1>3 DEF Starting
  <1>5. JobOK([Idle EXCEPT !.todo = <<"check", "read", "commit", "state", "apply">>])
    <2>1. /\ <<"check", "read", "commit", "state", "apply">> \in Seq(Step)
          /\ ~Has(<<"check", "read", "commit", "state", "apply">>, "forget")
      BY DEF Has, Step
    <2> QED
      BY <2>1, ProgramOK
  <1>6. JobOK([Idle EXCEPT !.todo = Forgetting])
    <2>1. Forgetting \in Seq(Step)
      BY DEF Forgetting, Step
    <2> QED
      BY <2>1, ProgramOK
  <1>7. JobOK([Idle EXCEPT !.todo = <<"probe">>])
    <2>1. <<"probe">> \in Seq(Step) /\ ~Has(<<"probe">>, "forget")
      BY DEF Has, Step
    <2> QED
      BY <2>1, ProgramOK
  <1>8. JobOK([Idle EXCEPT !.todo = <<"read", "commit">>])
    <2>1. <<"read", "commit">> \in Seq(Step) /\ ~Has(<<"read", "commit">>, "forget")
      BY DEF Has, Step
    <2> QED
      BY <2>1, ProgramOK
  <1>9. JobOK([Idle EXCEPT !.todo = <<"probe", "sync", "mark", "read", "commit">>])
    <2>1. /\ <<"probe", "sync", "mark", "read", "commit">> \in Seq(Step)
          /\ ~Has(<<"probe", "sync", "mark", "read", "commit">>, "forget")
      BY DEF Has, Step
    <2> QED
      BY <2>1, ProgramOK
  <1>10. JobOK([Idle EXCEPT !.todo = <<"probe", "read", "commit", "sync", "mark", "read", "commit">>])
    <2>1. /\ <<"probe", "read", "commit", "sync", "mark", "read", "commit">> \in Seq(Step)
          /\ ~Has(<<"probe", "read", "commit", "sync", "mark", "read", "commit">>, "forget")
      BY DEF Has, Step
    <2> QED
      BY <2>1, ProgramOK
  <1> QED
    BY <1>1, <1>2, <1>3, <1>4, <1>5, <1>6, <1>7, <1>8, <1>9, <1>10

\* What is left of a program.
LEMMA TailOK ==
    ASSUME NEW job, JobOK(job), job.todo # <<>>,
           NEW b \in BOOLEAN, NEW c \in BOOLEAN
    PROVE  JobOK([todo |-> Tail(job.todo), enabled |-> b, got |-> c])
  <1> DEFINE s == job.todo
  <1>1. s \in Seq(Step) /\ Tail(s) \in Seq(Step)
    BY DEF JobOK
  <1>2. CASE s = Forgetting
    BY <1>1, <1>2 DEF JobOK, Has, Forgetting
  <1>3. CASE s # Forgetting
    <2>1. ~Has(s, "forget")
      BY <1>3 DEF JobOK
    <2>2. \A i \in DOMAIN Tail(s) : i + 1 \in DOMAIN s /\ Tail(s)[i] = s[i + 1]
      BY <1>1
    <2>3. ~Has(Tail(s), "forget")
      BY <2>1, <2>2 DEF Has
    <2> QED
      BY <1>1, <2>3 DEF JobOK
  <1> QED
    BY <1>2, <1>3

LEMMA OneJob ==
    ASSUME JobsOK, NEW j \in Jobs, NEW job, JobOK(job),
           jobs' = [jobs EXCEPT ![j] = job]
    PROVE  JobsOK'
  <1>1. job \in Job
    BY DEF JobOK, Job
  <1>2. jobs' \in [Jobs -> Job]
    BY <1>1 DEF JobsOK
  <1>3. \A i \in Jobs : jobs'[i] = job \/ jobs'[i] = jobs[i]
    BY DEF JobsOK
  <1> QED
    BY <1>2, <1>3 DEF JobsOK

LEMMA HeadIsForget ==
    ASSUME JobsOK, NEW j \in Jobs, Has(jobs[j].todo, "forget")
    PROVE  jobs[j].todo # <<>> /\ Head(jobs[j].todo) = "forget"
  <1>1. jobs[j].todo = Forgetting
    BY DEF JobsOK, JobOK
  <1>2. Forgetting # <<>> /\ Head(Forgetting) = "forget"
    BY DEF Forgetting
  <1> QED
    BY <1>1, <1>2

\* A job that does not begin with dropping the report does not drop it later.
LEMMA StillDropping ==
    ASSUME JobsOK, NEW j \in Jobs, NEW job, jobs' = [jobs EXCEPT ![j] = job],
           jobs[j].todo = <<>> \/ Head(jobs[j].todo) # "forget", Dropping
    PROVE  Dropping'
  <1>1. PICK i \in Jobs : Has(jobs[i].todo, "forget")
    BY DEF Dropping
  <1>2. i # j
    BY <1>1, HeadIsForget
  <1>3. jobs'[i] = jobs[i]
    BY <1>2 DEF JobsOK
  <1> QED
    BY <1>1, <1>3 DEF Dropping

-----------------------------------------------------------------------------
(* The steps that begin or continue a job.                                 *)

\* What the report and the consent make of a step that leaves them alone.
LEMMA SameConsent ==
    ASSUME IntegrationInv, JobsOK', Dropping => Dropping',
           config' = config, consent' = consent, cutoff' = cutoff,
           free'.authorized = free.authorized, free'.print = free.print,
           free' \in Instance, UsableMeansGate',
           report' = report \/ (report' \in BOOLEAN /\ (report' => free.authorized))
    PROVE  IntegrationInv'
  <1>1. ConsentIsForThisConfig'
    BY DEF IntegrationInv, ConsentIsForThisConfig
  <1>2. (report /\ ~free.authorized => cutoff \/ Dropping)'
    BY DEF IntegrationInv, ReportNeedsConsent, Dropping, Has
  <1>3. ReportNeedsConsent'
    BY <1>2 DEF ReportNeedsConsent, Dropping, Has
  <1> QED
    BY <1>1, <1>3 DEF IntegrationInv

LEMMA Started ==
    ASSUME JobsOK, NEW j \in Jobs, NEW todo, Start(j, todo), JobOK([Idle EXCEPT !.todo = todo])
    PROVE  JobsOK' /\ (Dropping => Dropping')
  <1>1. jobs[j] = Idle
    BY DEF Start
  <1>2. jobs' = [jobs EXCEPT ![j] = [Idle EXCEPT !.todo = todo]]
    BY <1>1 DEF Start, JobsOK
  <1>3. jobs[j].todo = <<>>
    BY <1>1 DEF Idle
  <1> QED
    BY <1>2, <1>3, OneJob, StillDropping

LEMMA Continued ==
    ASSUME JobsOK, NEW j \in Jobs, NEW step, Does(j, step), NEW job, JobOK(job), Goes(j, job)
    PROVE  JobsOK' /\ (step # "forget" /\ Dropping => Dropping')
  <1>1. PICK next : JobOK(next) /\ jobs' = [jobs EXCEPT ![j] = next]
    BY ProgramsOK DEF Goes
  <1> QED
    BY <1>1, OneJob, StillDropping DEF Does

LEMMA OneField ==
    ASSUME NEW job \in Job, NEW todo
    PROVE  [job EXCEPT !.todo = todo] = [todo |-> todo, enabled |-> job.enabled, got |-> job.got]
  BY DEF Job

LEMMA Moved ==
    ASSUME JobsOK, NEW j \in Jobs, NEW step, Does(j, step), Moves(j)
    PROVE  JobsOK' /\ (step # "forget" /\ Dropping => Dropping')
  <1> DEFINE next == [jobs[j] EXCEPT !.todo = Tail(@)]
  <1>1. JobOK(jobs[j]) /\ jobs[j].todo # <<>>
    BY DEF JobsOK, Does
  <1>2. next = [todo |-> Tail(jobs[j].todo), enabled |-> jobs[j].enabled, got |-> jobs[j].got]
    BY OneField DEF JobsOK
  <1>3. jobs[j].enabled \in BOOLEAN /\ jobs[j].got \in BOOLEAN
    BY <1>1 DEF JobOK
  <1>4. JobOK([todo |-> Tail(jobs[j].todo), enabled |-> jobs[j].enabled, got |-> jobs[j].got])
    BY <1>1, <1>3, TailOK
  <1>5. JobOK(next)
    BY <1>2, <1>4
  <1>6. Goes(j, next)
    BY DEF Moves
  <1> QED
    BY <1>5, <1>6, Continued

LEMMA Ended ==
    ASSUME JobsOK, NEW j \in Jobs, NEW step, Does(j, step), Ends(j)
    PROVE  JobsOK' /\ (step # "forget" /\ Dropping => Dropping')
  BY ProgramsOK, OneJob, StillDropping DEF Does, Ends

-----------------------------------------------------------------------------
(* One lemma for the requests as they begin, and one for the steps.        *)

LEMMA RequestsKeepInv ==
    ASSUME IntegrationInv, NEW j \in Jobs
    PROVE  /\ \A route \in BOOLEAN : Authorize(j, route) \/ SetRoute(j, route) => IntegrationInv'
           /\ Revoke(j) \/ Ask(j) => IntegrationInv'
  <1> USE DEF IntegrationInv
  <1>1. ASSUME NEW route \in BOOLEAN, Authorize(j, route)
        PROVE  IntegrationInv'
    <2>1. JobsOK'
      BY <1>1, ProgramsOK, Started DEF Authorize
    <2>2. free' \in Instance /\ UsableMeansGate' /\ free'.print = free.print /\ free'.authorized
      BY <1>1 DEF Authorize, UsableMeansGate, RouteEnabled, Instance
    <2>3. ConsentIsForThisConfig' /\ ReportNeedsConsent'
      BY <1>1, <2>2 DEF Authorize, ConsentIsForThisConfig, ReportNeedsConsent
    <2> QED
      BY <1>1, <2>1, <2>2, <2>3 DEF Authorize
  <1>2. ASSUME NEW route \in BOOLEAN, SetRoute(j, route)
        PROVE  IntegrationInv'
    <2>1. JobsOK' /\ (Dropping => Dropping')
      BY <1>2, ProgramsOK, Started DEF SetRoute
    <2>2. /\ free' \in Instance /\ UsableMeansGate'
          /\ free'.print = free.print /\ free'.authorized = free.authorized
      BY <1>2 DEF SetRoute, UsableMeansGate, RouteEnabled, Instance
    <2> QED
      BY <1>2, <2>1, <2>2, SameConsent DEF SetRoute
  <1>3. ASSUME Revoke(j)
        PROVE  IntegrationInv'
    <2>1. JobsOK'
      BY <1>3, ProgramsOK, Started DEF Revoke, Forgetting
    <2>2. free' \in Instance /\ UsableMeansGate' /\ free'.print = free.print /\ ~free'.authorized
      BY <1>3 DEF Revoke, UsableMeansGate, RouteEnabled, Instance
    <2>3. jobs'[j].todo = Forgetting
      BY <1>3 DEF Revoke, Start, JobsOK, Job, Forgetting
    <2>4. "forget" \in {jobs'[j].todo[i] : i \in DOMAIN jobs'[j].todo}
      BY <2>3 DEF Forgetting
    <2>5. ConsentIsForThisConfig' /\ ReportNeedsConsent'
      BY <2>2, <2>4 DEF ConsentIsForThisConfig, ReportNeedsConsent
    <2> QED
      BY <1>3, <2>1, <2>2, <2>5 DEF Revoke
  <1>4. ASSUME Ask(j)
        PROVE  IntegrationInv'
    <2>1. JobsOK' /\ (Dropping => Dropping')
      BY <1>4, ProgramsOK, Started DEF Ask
    <2>2. UsableMeansGate'
      BY <1>4 DEF Ask, UsableMeansGate, RouteEnabled
    <2> QED
      BY <1>4, <2>1, <2>2, SameConsent DEF Ask
  <1> QED
    BY <1>1, <1>2, <1>3, <1>4

LEMMA AwakeKeepsInv ==
    ASSUME IntegrationInv, Awake
    PROVE  IntegrationInv'
  <1>1. JobsOK' /\ (Dropping => Dropping')
    BY ProgramsOK, Started DEF Awake, Jobs, IntegrationInv
  <1>2. UsableMeansGate'
    BY DEF Awake, UsableMeansGate, RouteEnabled, IntegrationInv
  <1> QED
    BY <1>1, <1>2, SameConsent DEF Awake, IntegrationInv

LEMMA StepsKeepInv ==
    ASSUME IntegrationInv, NEW j \in Jobs, JobStep(j)
    PROVE  IntegrationInv'
  <1> USE DEF IntegrationInv
  <1>1. CASE ProbeFails(j)
    <2>1. JobsOK' /\ (Dropping => Dropping')
      BY <1>1, Ended DEF ProbeFails
    <2>2. /\ free' \in Instance /\ UsableMeansGate'
          /\ free'.print = free.print /\ free'.authorized = free.authorized
      BY <1>1 DEF ProbeFails, UsableMeansGate, RouteEnabled, Instance
    <2> QED
      BY <1>1, <2>1, <2>2, SameConsent DEF ProbeFails
  <1>2. CASE ProbeSucceeds(j)
    <2>1. JobsOK' /\ (Dropping => Dropping')
      BY <1>2, Moved DEF ProbeSucceeds
    <2>2. /\ free' \in Instance /\ UsableMeansGate'
          /\ free'.print = free.print /\ free'.authorized = free.authorized
      BY <1>2 DEF ProbeSucceeds, UsableMeansGate, RouteEnabled, Instance
    <2> QED
      BY <1>2, <2>1, <2>2, SameConsent DEF ProbeSucceeds
  <1>3. CASE MarkFresh(j)
    <2>1. JobsOK' /\ (Dropping => Dropping')
      BY <1>3, Moved DEF MarkFresh
    <2>2. /\ free' \in Instance /\ UsableMeansGate'
          /\ free'.print = free.print /\ free'.authorized = free.authorized
      BY <1>3 DEF MarkFresh, UsableMeansGate, RouteEnabled, Instance
    <2> QED
      BY <1>3, <2>1, <2>2, SameConsent DEF MarkFresh
  <1>4. CASE SyncRaw(j)
    <2>1. JobsOK' /\ (Dropping => Dropping')
      BY <1>4, Moved, Ended DEF SyncRaw
    <2>2. UsableMeansGate'
      BY <1>4 DEF SyncRaw, UsableMeansGate, RouteEnabled
    <2> QED
      BY <1>4, <2>1, <2>2, SameConsent DEF SyncRaw
  <1>5. CASE Apply(j)
    <2>1. JobsOK' /\ (Dropping => Dropping')
      BY <1>5, Moved DEF Apply
    <2>2. UsableMeansGate'
      BY <1>5 DEF Apply, UsableMeansGate, RouteEnabled
    <2> QED
      BY <1>5, <2>1, <2>2, SameConsent DEF Apply
  <1>6. CASE Check(j)
    <2>1. JobOK(jobs[j]) /\ jobs[j].todo # <<>>
      BY <1>6 DEF JobsOK, Check, Does
    <2>2. JobOK([jobs[j] EXCEPT !.todo = <<"state", "apply">>])
      <3>1. <<"state", "apply">> \in Seq(Step) /\ ~Has(<<"state", "apply">>, "forget")
        BY DEF Has, Step
      <3> QED
        BY <2>1, <3>1 DEF JobOK
    <2>3. JobsOK' /\ (Dropping => Dropping')
      BY <1>6, <2>2, Moved, Continued DEF Check
    <2>4. UsableMeansGate'
      BY <1>6 DEF Check, UsableMeansGate, RouteEnabled
    <2> QED
      BY <1>6, <2>3, <2>4, SameConsent DEF Check
  <1>7. CASE ReadLocalQuota(j)
    <2>1. JobOK(jobs[j]) /\ jobs[j].todo # <<>>
      BY <1>7 DEF JobsOK, ReadLocalQuota, Does
    <2>2. \A got \in BOOLEAN : JobOK([todo |-> Tail(jobs[j].todo), enabled |-> FALSE, got |-> got])
      BY <2>1, TailOK
    <2>3. PICK got \in BOOLEAN : Goes(j, [todo |-> Tail(jobs[j].todo), enabled |-> FALSE, got |-> got])
      BY <1>7 DEF ReadLocalQuota
    <2>4. JobsOK' /\ (Dropping => Dropping')
      BY <1>7, <2>2, <2>3, Continued DEF ReadLocalQuota
    <2>5. UsableMeansGate'
      BY <1>7 DEF ReadLocalQuota, UsableMeansGate, RouteEnabled
    <2> QED
      BY <1>7, <2>4, <2>5, SameConsent DEF ReadLocalQuota
  <1>8. CASE ReadState(j)
    <2>1. JobOK(jobs[j]) /\ jobs[j].todo # <<>>
      BY <1>8 DEF JobsOK, ReadState, Does
    <2> DEFINE next == [todo |-> Tail(jobs[j].todo), enabled |-> free.authorized /\ free.route, got |-> FALSE]
    <2>2. (free.authorized /\ free.route) \in BOOLEAN
      OBVIOUS
    <2>4. JobOK(next)
      BY <2>1, <2>2, TailOK
    <2>5. JobsOK' /\ (Dropping => Dropping')
      BY <1>8, <2>4, Continued DEF ReadState
    <2>6. UsableMeansGate'
      BY <1>8 DEF ReadState, UsableMeansGate, RouteEnabled
    <2> QED
      BY <1>8, <2>5, <2>6, SameConsent DEF ReadState
  <1>9. CASE CommitLocalQuota(j)
    <2>1. JobsOK' /\ (Dropping => Dropping')
      BY <1>9, Moved DEF CommitLocalQuota
    <2>2. UsableMeansGate'
      BY <1>9 DEF CommitLocalQuota, UsableMeansGate, RouteEnabled
    <2>3. report' \in BOOLEAN /\ (report' => free.authorized)
      BY <1>9 DEF CommitLocalQuota, Kept
    <2> QED
      BY <1>9, <2>1, <2>2, <2>3, SameConsent DEF CommitLocalQuota
  <1>10. CASE Forget(j)
    <2>1. JobsOK'
      BY <1>10, Moved DEF Forget
    <2>2. UsableMeansGate' /\ ConsentIsForThisConfig'
      BY <1>10 DEF Forget, UsableMeansGate, RouteEnabled, ConsentIsForThisConfig
    <2>3. ReportNeedsConsent'
      BY <1>10 DEF Forget, ReportNeedsConsent
    <2> QED
      BY <1>10, <2>1, <2>2, <2>3 DEF Forget
  <1> QED
    BY <1>1, <1>2, <1>3, <1>4, <1>5, <1>6, <1>7, <1>8, <1>9, <1>10 DEF JobStep

LEMMA ReconfigureKeepsInv ==
    ASSUME IntegrationInv, NEW c \in Config, Reconfigure(c)
    PROVE  IntegrationInv'
  <1> USE DEF IntegrationInv
  <1>1. JobsOK'
    <2>1. jobs' \in [Jobs -> Job]
      <3>1. Idle \in Job /\ Starting \in Job
        BY ProgramsOK DEF JobOK, Job
      <3> QED
        BY <3>1 DEF Reconfigure
    <2>2. \A j \in Jobs : jobs'[j] = Starting \/ jobs'[j] = Idle
      BY DEF Reconfigure
    <2> QED
      BY <2>1, <2>2, ProgramsOK DEF JobsOK
  <1>2. free' = Opened(c) /\ config' = c /\ consent' = consent
    BY DEF Reconfigure
  <1>3. c = "none" => NewInstance("none") \in Instance
    BY DEF NewInstance, Instance
  <1>4. free' \in Instance /\ free'.print = c
    BY <1>2, <1>3 DEF Opened, NewInstance, Instance
  <1>5. free'.authorized => free.authorized /\ free.print = c
    BY <1>2 DEF Opened, NewInstance, Instance
  <1>6. free'.usable => free' = free
    BY <1>2 DEF Opened, NewInstance, Instance
  <1>7. UsableMeansGate'
    BY <1>6 DEF UsableMeansGate, RouteEnabled
  <1>8. ConsentIsForThisConfig'
    BY <1>2, <1>5 DEF ConsentIsForThisConfig
  <1>9. report' \in BOOLEAN /\ ReportNeedsConsent'
    <2>1. report' \in BOOLEAN /\ cutoff' = (report' /\ ~free'.authorized)
      BY DEF Reconfigure
    <2> QED
      BY <2>1 DEF ReportNeedsConsent
  <1> QED
    BY <1>1, <1>2, <1>4, <1>7, <1>8, <1>9

\* The invariant holds of the integration under any interleaving of handlers, the
\* background loop, the catalogue and restarts (integration.go, freellmapi.go).
THEOREM IntegrationInvariant == IntegrationSpec => []IntegrationInv
  <1>1. IntegrationInit => IntegrationInv
    <2> SUFFICES ASSUME IntegrationInit
                 PROVE  IntegrationInv
      OBVIOUS
    <2> USE DEF IntegrationInit
    <2>1. JobsOK
      <3>1. Idle \in Job /\ Starting \in Job
        BY ProgramsOK DEF JobOK, Job
      <3>2. jobs \in [Jobs -> Job] /\ \A j \in Jobs : jobs[j] = Starting \/ jobs[j] = Idle
        BY <3>1
      <3> QED
        BY <3>2, ProgramsOK DEF JobsOK
    <2>2. free \in Instance /\ free.print = config /\ ~free.authorized /\ ~free.usable
      BY DEF NewInstance, Instance, Config
    <2>3. ConsentIsForThisConfig /\ ReportNeedsConsent /\ UsableMeansGate
      BY <2>2 DEF ConsentIsForThisConfig, ReportNeedsConsent, UsableMeansGate
    <2> QED
      BY <2>1, <2>2, <2>3 DEF IntegrationInv, Config
  <1>2. IntegrationInv /\ [IntegrationNext]_allVars => IntegrationInv'
    <2> SUFFICES ASSUME IntegrationInv, [IntegrationNext]_allVars
                 PROVE  IntegrationInv'
      OBVIOUS
    <2>1. CASE UNCHANGED freeVars
      BY <2>1 DEF freeVars, IntegrationInv, JobsOK, ConsentIsForThisConfig, ReportNeedsConsent,
                  UsableMeansGate, RouteEnabled
    <2>2. CASE \E h \in Handlers :
                 \/ \E enabled \in BOOLEAN : Authorize(h, enabled) \/ SetRoute(h, enabled)
                 \/ Revoke(h) \/ Ask(h)
      BY <2>2, RequestsKeepInv DEF Jobs
    <2>3. CASE Awake
      BY <2>3, AwakeKeepsInv
    <2>4. CASE \E j \in Jobs : JobStep(j)
      BY <2>4, StepsKeepInv
    <2>5. CASE \E c \in Config : Reconfigure(c)
      BY <2>5, ReconfigureKeepsInv
    <2> QED
      BY <2>1, <2>2, <2>3, <2>4, <2>5 DEF IntegrationNext, allVars, freeVars
  <1> QED
    BY <1>1, <1>2, PTL DEF IntegrationSpec

\* Consent is bound to the address and the key it was given for
\* (freellmapi.go, New and Authorize).
THEOREM ConsentBound == IntegrationSpec => []ConsentIsForThisConfig
  BY IntegrationInvariant, PTL DEF IntegrationInv

\* No local accounting is kept without consent (RefreshLocalQuota, Revoke).
THEOREM ReportBound == IntegrationSpec => []ReportNeedsConsent
  BY IntegrationInvariant, PTL DEF IntegrationInv

\* The flag that is shown and the gate of routing agree (Probe, MarkSynced,
\* SetRoute, Authorize, Revoke, New).
THEOREM UsableBound == IntegrationSpec => []UsableMeansGate
  BY IntegrationInvariant, PTL DEF IntegrationInv

-----------------------------------------------------------------------------
(* The catalogue within the integration.                                   *)

\* The variables that the invariant above leaves out.
HistoryOK == cutoff \in BOOLEAN /\ consent \in Config \cup {"revoked"}

LEMMA FreeIsAProvider == FreeProvider \in Providers /\ Free \subseteq Providers
  <1>1. PICK p \in Providers : Free = {p}
    BY IntegrationAssumption
  <1>2. FreeProvider \in Free
    BY <1>1 DEF FreeProvider
  <1> QED
    BY <1>1, <1>2

\* The list of a probe is committed like that of a synchronisation.
LEMMA ListedIsAJob ==
    ASSUME NEW raw \in SUBSET ModelsOf(FreeProvider)
    PROVE  Listed(raw) \in SyncJob
  BY FreeIsAProvider DEF Listed, SyncJob, ModelsOf

\* Whatever the integration does to the catalogue, the catalogue could do.
LEMMA StepOfCatalog ==
    ASSUME IntegrationInv, [IntegrationNext]_allVars
    PROVE  CatalogStep
  <1>1. CASE GovernanceStep \/ LoadRules
    BY <1>1 DEF CatalogStep, Next
  <1>2. ASSUME NEW j \in Jobs, SyncRaw(j)
        PROVE  CatalogStep
    <2>1. PICK raw \in SUBSET ModelsOf(FreeProvider) :
                SyncCommit(Listed(raw)) \/ SyncDropped(Listed(raw))
      BY <1>2 DEF SyncRaw
    <2> QED
      BY <2>1, ListedIsAJob DEF CatalogStep
  <1>3. ASSUME NEW j \in Jobs, Apply(j)
        PROVE  CatalogStep
    <2>1. jobs[j].enabled \in BOOLEAN
      BY DEF IntegrationInv, JobsOK, JobOK
    <2> QED
      BY <1>3, <2>1 DEF Apply, CatalogStep, Next
  <1>4. ASSUME NEW c \in Config, Reconfigure(c)
        PROVE  CatalogStep
    <2>1. (IF c = "none" THEN {} ELSE Free) \in SUBSET Providers
      BY FreeIsAProvider
    <2> QED
      BY <1>4, <2>1 DEF Reconfigure, CatalogStep
  <1>5. CASE UNCHANGED vars
    BY <1>5 DEF CatalogStep
  <1>6. ASSUME NEW j \in Jobs, JobStep(j)
        PROVE  UNCHANGED vars \/ SyncRaw(j) \/ Apply(j)
    BY <1>6 DEF JobStep, ProbeFails, ProbeSucceeds, MarkFresh, Check, ReadLocalQuota,
                CommitLocalQuota, Forget, ReadState
  <1>7. ASSUME NEW h \in Handlers, NEW enabled \in BOOLEAN,
               Authorize(h, enabled) \/ SetRoute(h, enabled) \/ Revoke(h) \/ Ask(h)
        PROVE  UNCHANGED vars
    BY <1>7 DEF Authorize, SetRoute, Revoke, Ask
  <1> QED
    BY <1>1, <1>2, <1>3, <1>4, <1>5, <1>6, <1>7 DEF IntegrationNext, Awake, allVars

LEMMA HistoryStep ==
    ASSUME IntegrationInv, HistoryOK, [IntegrationNext]_allVars
    PROVE  HistoryOK'
  <1> USE DEF HistoryOK, IntegrationInv
  <1>1. CASE UNCHANGED <<cutoff, consent>>
    BY <1>1
  <1>2. ASSUME NEW h \in Handlers, NEW enabled \in BOOLEAN,
               Authorize(h, enabled) \/ SetRoute(h, enabled) \/ Revoke(h) \/ Ask(h)
        PROVE  HistoryOK'
    BY <1>2 DEF Authorize, SetRoute, Revoke, Ask
  <1>3. ASSUME NEW j \in Jobs, JobStep(j)
        PROVE  UNCHANGED <<cutoff, consent>>
    BY <1>3 DEF JobStep, ProbeFails, ProbeSucceeds, SyncRaw, MarkFresh, Check, ReadLocalQuota,
                CommitLocalQuota, Forget, ReadState, Apply
  <1>4. ASSUME NEW c \in Config, Reconfigure(c)
        PROVE  HistoryOK'
    <2>1. report' \in BOOLEAN /\ cutoff' = (report' /\ ~free'.authorized) /\ consent' = consent
      BY <1>4 DEF Reconfigure
    <2> QED
      BY <2>1
  <1> QED
    BY <1>1, <1>2, <1>3, <1>4 DEF IntegrationNext, Awake, allVars, freeVars

\* What holds of the catalogue and of the integration together.
Together == IntegrationInv /\ HistoryOK /\ TypeOK /\ RoutableInv

LEMMA TogetherInvariant == IntegrationSpec => []Together
  <1>1. IntegrationInit => HistoryOK /\ TypeOK /\ RoutableInv
    BY InitType, RoutableInit DEF IntegrationInit, HistoryOK
  <1>2. IntegrationInv /\ HistoryOK /\ TypeOK /\ RoutableInv /\ [IntegrationNext]_allVars
          => HistoryOK' /\ TypeOK' /\ RoutableInv'
    BY StepOfCatalog, HistoryStep, NextType, RoutableNext
  <1> QED
    BY <1>1, <1>2, IntegrationInvariant, PTL DEF IntegrationSpec, Together

\* Every reachable state of the integration, its jobs and the catalogue it
\* writes to is well formed.
THEOREM IntegrationTypes == IntegrationSpec => []IntegrationTypeOK
  <1>1. Together => IntegrationTypeOK
    BY DEF Together, IntegrationInv, HistoryOK, JobsOK, IntegrationTypeOK
  <1> QED
    BY <1>1, TogetherInvariant, PTL

\* What routing takes for granted of a model in Auto stays true when the
\* integration commits its lists, applies its switch and starts with another
\* configuration (ApplyStateToCatalog, SyncRaw, New).
THEOREM IntegrationRoutable == IntegrationSpec => []AutoIsRoutable
  <1>1. Together => AutoIsRoutable
    BY DEF Together, RoutableInv, EntriesOK, EntryOK, AutoIsRoutable
  <1> QED
    BY <1>1, TogetherInvariant, PTL

\* No start revives what was stale, under the same configuration, another or
\* none (New, LoadState, ReconcileProviders).
THEOREM IntegrationRestartSafe == IntegrationSpec => RestartRevivesNothing
  <1>1. IntegrationInit => EntriesOnDisk
    BY DEF IntegrationInit, Init, EntriesOnDisk
  <1>2. Together /\ EntriesOnDisk /\ [IntegrationNext]_allVars => EntriesOnDisk'
    BY StepOfCatalog, EntriesOnDiskNext DEF Together
  <1>3. Together /\ EntriesOnDisk /\ [IntegrationNext]_allVars
          => [boots' # boots =>
               \A m \in Models :
                 /\ NeedsApproval(m) => ~cat'[m].auto
                 /\ cat[m].status = "stale" => cat'[m].status \in {"stale", "unknown"}]_vars
    BY StepOfCatalog, RestartStep DEF Together
  <1> QED
    BY <1>1, <1>2, <1>3, TogetherInvariant, PTL DEF IntegrationSpec, RestartRevivesNothing

-----------------------------------------------------------------------------
(* A process without a configuration.  Administrators may still authorise, *)
(* switch and set rules, and what they do is applied to the catalogue.     *)

\* Whoever will commit a list has to ask the instance first.
Unlisted == \A j \in Jobs : Has(jobs[j].todo, "sync") => Head(jobs[j].todo) = "probe"

EntriesAway == \A m \in Models : cat[m].status \in {"absent", "stale"}

\* The registry has nothing to reconcile: FreeLLMAPI is not one of its records.
AwayInv == reg = {} /\ (config = "none" => Unlisted /\ EntriesAway)

\* A job that goes on without an answer of the instance has no list to commit.
LEMMA StillUnlisted ==
    ASSUME JobsOK, Unlisted, NEW j \in Jobs, NEW job, jobs' = [jobs EXCEPT ![j] = job],
           Has(job.todo, "sync") => Head(job.todo) = "probe"
    PROVE  Unlisted'
  <1>1. \A i \in Jobs : jobs'[i] = job \/ jobs'[i] = jobs[i]
    BY DEF JobsOK
  <1> QED
    BY <1>1 DEF Unlisted

\* What is left of a program that has no list to commit.
LEMMA TailUnlisted ==
    ASSUME JobsOK, Unlisted, NEW j \in Jobs, jobs[j].todo # <<>>, Head(jobs[j].todo) # "probe"
    PROVE  ~Has(Tail(jobs[j].todo), "sync")
  <1> DEFINE s == jobs[j].todo
  <1>1. s \in Seq(Step)
    BY DEF JobsOK, JobOK
  <1>2. ~Has(s, "sync")
    BY DEF Unlisted
  <1>3. \A i \in DOMAIN Tail(s) : i + 1 \in DOMAIN s /\ Tail(s)[i] = s[i + 1]
    BY <1>1
  <1> QED
    BY <1>2, <1>3 DEF Has

\* The first step of a program is one it has.
LEMMA HasHead ==
    ASSUME JobsOK, NEW j \in Jobs, NEW step, Does(j, step)
    PROVE  Has(jobs[j].todo, step)
  <1>1. jobs[j].todo \in Seq(Step) /\ jobs[j].todo # <<>>
    BY DEF JobsOK, JobOK, Does
  <1>2. 1 \in DOMAIN jobs[j].todo /\ jobs[j].todo[1] = step
    BY <1>1 DEF Does
  <1> QED
    BY <1>2 DEF Has

\* The programs that requests and the loop begin with.
LEMMA StartsUnlisted ==
    /\ ~Has(<<>>, "sync") /\ ~Has(<<"state", "apply">>, "sync") /\ ~Has(Forgetting, "sync")
    /\ ~Has(<<"check", "read", "commit", "state", "apply">>, "sync")
    /\ ~Has(<<"probe">>, "sync") /\ ~Has(<<"read", "commit">>, "sync")
    /\ Head(<<"probe", "sync", "mark", "read", "commit">>) = "probe"
    /\ Head(<<"probe", "read", "commit", "sync", "mark", "read", "commit">>) = "probe"
  BY DEF Has, Forgetting

LEMMA ReopenedUnlisted ==
    ASSUME NEW c \in Config, Reconfigure(c)
    PROVE  Unlisted'
  <1>1. ~Has(Idle.todo, "sync") /\ ~Has(Starting.todo, "sync")
    BY StartsUnlisted DEF Idle, Starting
  <1>2. \A j \in Jobs : jobs'[j] \in {Idle, Starting}
    BY DEF Reconfigure
  <1> QED
    BY <1>1, <1>2 DEF Unlisted

LEMMA JobsUnlisted ==
    ASSUME IntegrationInv, config = "none", Unlisted, [IntegrationNext]_allVars, config' = config
    PROVE  Unlisted'
  <1>0. JobsOK
    BY DEF IntegrationInv
  <1>1. ASSUME NEW j \in Jobs, NEW todo, Start(j, todo), Has(todo, "sync") => Head(todo) = "probe"
        PROVE  Unlisted'
    <2> DEFINE job == [jobs[j] EXCEPT !.todo = todo]
    <2>1. jobs' = [jobs EXCEPT ![j] = job]
      BY <1>0, <1>1 DEF Start, JobsOK
    <2>2. job.todo = todo
      BY <1>0 DEF JobsOK, Job
    <2> HIDE DEF job
    <2> QED
      BY <1>0, <1>1, <2>1, <2>2, StillUnlisted
  <1>2. ASSUME NEW j \in Jobs, NEW job, Goes(j, job), ~Has(job.todo, "sync")
        PROVE  Unlisted'
    <2>1. ~Has(Idle.todo, "sync")
      BY StartsUnlisted DEF Idle
    <2> QED
      BY <1>0, <1>2, <2>1, StillUnlisted DEF Goes
  <1>3. ASSUME NEW j \in Jobs, Moves(j), jobs[j].todo # <<>>, Head(jobs[j].todo) # "probe"
        PROVE  Unlisted'
    <2>1. [jobs[j] EXCEPT !.todo = Tail(@)].todo = Tail(jobs[j].todo)
      BY <1>0 DEF JobsOK, Job
    <2> QED
      BY <1>0, <1>2, <1>3, <2>1, TailUnlisted DEF Moves
  <1>4. ASSUME NEW j \in Jobs, Ends(j)
        PROVE  Unlisted'
    <2>1. ~Has(Idle.todo, "sync")
      BY StartsUnlisted DEF Idle
    <2> QED
      BY <1>0, <1>4, <2>1, StillUnlisted DEF Ends
  <1>5. ASSUME NEW j \in Jobs, JobStep(j)
        PROVE  Unlisted'
    <2>1. ~Does(j, "sync")
      BY <1>0, HasHead DEF Unlisted, Does
    <2>2. CASE ProbeFails(j)
      BY <1>4, <2>2 DEF ProbeFails
    <2>3. CASE MarkFresh(j) \/ CommitLocalQuota(j) \/ Forget(j) \/ Apply(j)
      BY <1>3, <2>3 DEF MarkFresh, CommitLocalQuota, Forget, Apply, Does
    <2>4. CASE Check(j)
      <3>1. [jobs[j] EXCEPT !.todo = <<"state", "apply">>].todo = <<"state", "apply">>
        BY <1>0 DEF JobsOK, Job
      <3> QED
        BY <1>2, <1>3, <2>4, <3>1, StartsUnlisted DEF Check, Does
    <2>5. CASE ReadLocalQuota(j) \/ ReadState(j)
      <3>1. ~Has(Tail(jobs[j].todo), "sync")
        BY <1>0, <2>5, TailUnlisted DEF ReadLocalQuota, ReadState, Does
      <3>2. PICK b \in BOOLEAN, c \in BOOLEAN :
                    Goes(j, [todo |-> Tail(jobs[j].todo), enabled |-> b, got |-> c])
        BY <2>5 DEF ReadLocalQuota, ReadState, IntegrationInv, Instance
      <3> QED
        BY <1>2, <3>1, <3>2
    <2> QED
      BY <1>5, <2>1, <2>2, <2>3, <2>4, <2>5 DEF JobStep, ProbeSucceeds, SyncRaw
  <1>6. ASSUME NEW h \in Handlers, NEW enabled \in BOOLEAN,
               Authorize(h, enabled) \/ SetRoute(h, enabled) \/ Revoke(h) \/ Ask(h)
        PROVE  Unlisted'
    <2>1. h \in Jobs
      BY DEF Jobs
    <2> QED
      BY <1>1, <1>6, <2>1, StartsUnlisted DEF Authorize, SetRoute, Revoke, Ask, Forgetting
  <1>7. CASE Awake
    <2>1. Background \in Jobs
      BY DEF Jobs
    <2> QED
      BY <1>1, <1>7, <2>1, StartsUnlisted DEF Awake
  <1>8. ASSUME NEW c \in Config, Reconfigure(c)
        PROVE  Unlisted'
    BY <1>8, ReopenedUnlisted
  <1>9. CASE UNCHANGED jobs
    BY <1>9 DEF Unlisted
  <1> QED
    BY <1>5, <1>6, <1>7, <1>8, <1>9 DEF IntegrationNext, allVars, freeVars

\* A start without configuration withdraws every entry.
LEMMA StartsAway ==
    ASSUME TypeOK, RoutableInv, Reconfigure("none")
    PROVE  EntriesAway'
  <1>1. Restart({})
    BY DEF Reconfigure
  <1>2. \A m \in Models : cat'[m] = Booted(m, {})
    BY <1>1 DEF Restart
  <1> QED
    BY <1>2, BootedRevivesNothing DEF EntriesAway

\* No request brings an entry back that a start without configuration withdrew.
LEMMA EntriesStayAway ==
    ASSUME Together, reg = {}, config = "none", Unlisted, EntriesAway,
           [IntegrationNext]_allVars, config' = config
    PROVE  EntriesAway'
  <1> USE DEF EntriesAway, Together
  <1>0. cat \in [Models -> Model]
    BY DEF TypeOK
  <1>1. ASSUME \A m \in Models : cat'[m].status = cat[m].status
        PROVE  EntriesAway'
    BY <1>1
  <1>2. CASE GovernanceStep
    <2>1. ASSUME NEW r \in gov, RuleApply(r)
          PROVE  EntriesAway'
      <3>1. r.model \in Models
        BY DEF TypeOK, RuleRequest
      <3>2. \A b \in BOOLEAN : Allowed(cat[r.model], b).status = cat[r.model].status
        BY <1>0, <3>1 DEF Allowed, Model
      <3>3. r.allow \in BOOLEAN
        BY DEF TypeOK, RuleRequest
      <3>4. cat' = cat \/ cat' = [cat EXCEPT ![r.model] = Allowed(cat[r.model], r.allow)]
        BY <2>1 DEF RuleApply, manager
      <3> QED
        BY <1>0, <3>1, <3>2, <3>3, <3>4
    <2>2. ASSUME NEW r \in adm, SetAdmitted(r)
          PROVE  EntriesAway'
      <3>1. r.model \in Models /\ r.admitted \in BOOLEAN
        BY DEF TypeOK, AdmissionRequest
      <3>2. Admission(cat[r.model], r.admitted).status = cat[r.model].status
        BY <1>0, <3>1 DEF Admission, Model
      <3>3. cat' = cat \/ cat' = [cat EXCEPT ![r.model] = Admission(cat[r.model], r.admitted)]
        BY <2>2 DEF SetAdmitted
      <3> QED
        BY <1>0, <3>1, <3>2, <3>3
    <2>3. ASSUME NEW m \in Governed, ProbeConclusive(m)
          PROVE  EntriesAway'
      <3>1. cat' = cat \/ cat' = [cat EXCEPT ![m].evidence = "probe"]
        BY <2>3 DEF ProbeConclusive, manager
      <3> QED
        BY <1>0, <1>1, <3>1 DEF Model
    <2>4. cat' = cat \/ (\E r \in gov : RuleApply(r)) \/ (\E r \in adm : SetAdmitted(r))
                     \/ \E m \in Governed : ProbeConclusive(m)
      BY <1>2 DEF GovernanceStep, RuleValidate, AdmissionValidate, RuleRecord, RuleSave,
                  RegistryToggle, ProbeStart, ProbeUnavailable, manager
    <2> QED
      BY <2>1, <2>2, <2>3, <2>4
  <1>3. CASE LoadRules
    <2>1. \A m \in Models, b \in BOOLEAN : Allowed(cat[m], b).status = cat[m].status
      BY <1>0 DEF Allowed, Model
    <2>2. \A m \in Models : \E b \in BOOLEAN : cat'[m] \in {cat[m], Allowed(cat[m], b)}
      BY <1>3 DEF LoadRules
    <2> QED
      BY <2>1, <2>2
  <1>4. ASSUME NEW j \in Jobs, JobStep(j)
        PROVE  EntriesAway'
    <2>1. ~Does(j, "sync")
      BY HasHead DEF Unlisted, Does, IntegrationInv
    <2>2. CASE Apply(j)
      BY <1>0, <2>2 DEF Apply, ApplyStateToCatalog, Model
    <2> QED
      BY <1>4, <2>1, <2>2 DEF JobStep, ProbeFails, ProbeSucceeds, SyncRaw, MarkFresh, Check,
         ReadLocalQuota, CommitLocalQuota, Forget, ReadState, vars, manager
  <1>5. ASSUME NEW h \in Handlers, NEW enabled \in BOOLEAN,
               Authorize(h, enabled) \/ SetRoute(h, enabled) \/ Revoke(h) \/ Ask(h)
        PROVE  cat' = cat
    BY <1>5 DEF Authorize, SetRoute, Revoke, Ask, vars
  <1>6. ASSUME NEW c \in Config, Reconfigure(c)
        PROVE  EntriesAway'
    <2>1. c = "none"
      BY <1>6 DEF Reconfigure
    <2> QED
      BY <1>6, <2>1, StartsAway
  <1> QED
    BY <1>2, <1>3, <1>4, <1>5, <1>6 DEF IntegrationNext, Awake, allVars, vars

LEMMA AwayStep ==
    ASSUME Together, AwayInv, [IntegrationNext]_allVars
    PROVE  AwayInv'
  <1>1. reg' = {}
    <2>1. ASSUME NEW p \in Providers PROVE ~RegistryToggle(p)
      BY IntegrationAssumption DEF RegistryToggle
    <2>2. CASE GovernanceStep
      BY <2>1, <2>2 DEF AwayInv, GovernanceStep, RuleValidate, AdmissionValidate, RuleRecord, RuleApply,
         RuleSave, SetAdmitted, ProbeStart, ProbeConclusive, ProbeUnavailable, requests
    <2>3. CASE LoadRules
      BY <2>3 DEF AwayInv, LoadRules, requests
    <2>4. ASSUME NEW j \in Jobs, JobStep(j) PROVE reg' = reg
      BY <2>4 DEF JobStep, ProbeFails, ProbeSucceeds, SyncRaw, SyncCommit, SyncDropped, MarkFresh, Check,
         ReadLocalQuota, CommitLocalQuota, Forget, ReadState, Apply, ApplyStateToCatalog, vars, requests
    <2>5. ASSUME NEW h \in Handlers, NEW enabled \in BOOLEAN,
                 Authorize(h, enabled) \/ SetRoute(h, enabled) \/ Revoke(h) \/ Ask(h)
          PROVE  reg' = reg
      BY <2>5 DEF Authorize, SetRoute, Revoke, Ask, vars
    <2>6. ASSUME NEW c \in Config, Reconfigure(c) PROVE reg' = {}
      BY <2>6 DEF Reconfigure, Restart
    <2> QED
      BY <2>2, <2>3, <2>4, <2>5, <2>6 DEF AwayInv, IntegrationNext, Awake, allVars, vars
  <1>2. CASE config' = config
    BY <1>1, <1>2, JobsUnlisted, EntriesStayAway DEF AwayInv, Together
  <1>3. CASE config' # config
    <2>1. PICK c \in Config : Reconfigure(c)
      <3>1. ASSUME NEW j \in Jobs, JobStep(j) PROVE config' = config
        BY <3>1 DEF JobStep, ProbeFails, ProbeSucceeds, SyncRaw, MarkFresh, Check,
           ReadLocalQuota, CommitLocalQuota, Forget, ReadState, Apply
      <3>2. ASSUME NEW h \in Handlers, NEW enabled \in BOOLEAN,
                   Authorize(h, enabled) \/ SetRoute(h, enabled) \/ Revoke(h) \/ Ask(h)
            PROVE  config' = config
        BY <3>2 DEF Authorize, SetRoute, Revoke, Ask
      <3> QED
        BY <1>3, <3>1, <3>2 DEF IntegrationNext, Awake, allVars, freeVars
    <2>2. Unlisted'
      BY <2>1, ReopenedUnlisted
    <2>3. config' = "none" => EntriesAway'
      BY <2>1, StartsAway DEF Together, Reconfigure
    <2> QED
      BY <1>1, <2>2, <2>3 DEF AwayInv
  <1> QED
    BY <1>2, <1>3

\* A process without a configuration has no model of FreeLLMAPI in use: not after
\* a consent or a switch that administrators may still give, nor a rule that is
\* replayed, nor a probe that was under way (New, ReconcileProviders).
THEOREM NothingConfiguredNothingInAuto ==
    IntegrationSpec =>
        [](config = "none" => \A m \in Models : ~cat[m].auto /\ cat[m].status \in {"absent", "stale"})
  <1>1. IntegrationInit => AwayInv
    <2>1. ~Has(Idle.todo, "sync") /\ ~Has(Starting.todo, "sync")
      BY StartsUnlisted DEF Idle, Starting
    <2> QED
      BY <2>1 DEF IntegrationInit, Init, NoModel, AwayInv, Unlisted, EntriesAway
  <1>2. Together /\ AwayInv /\ [IntegrationNext]_allVars => AwayInv'
    BY AwayStep
  <1>3. Together /\ AwayInv
          => (config = "none" => \A m \in Models : ~cat[m].auto /\ cat[m].status \in {"absent", "stale"})
    <2>1. ASSUME Together, NEW m \in Models, cat[m].auto PROVE cat[m].status = "active"
      BY <2>1 DEF Together, RoutableInv, EntriesOK, EntryOK
    <2> QED
      BY <2>1 DEF AwayInv, EntriesAway
  <1> QED
    BY <1>1, <1>2, <1>3, TogetherInvariant, PTL DEF IntegrationSpec

=============================================================================
