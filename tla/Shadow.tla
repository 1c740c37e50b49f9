------------------------------- MODULE Shadow -------------------------------
(***************************************************************************)
(* What becomes of the teacher's verdicts: routing knowledge               *)
(* (internal/runtime/knowledge.go, internal/api/knowledge.go), replays of  *)
(* recorded tasks on a candidate model that count as its validations       *)
(* (runtime/shadow.go, api/shadow.go, api/shadow_worker.go), and batches   *)
(* of replays that run in the background and can be stopped and retried    *)
(* (runtime/shadow_batch.go, api/shadow_batch.go, shadow_batch_retry.go).  *)
(*                                                                         *)
(* A replay is one call upstream between critical sections of the stores;  *)
(* an administrator's decision on knowledge and the retry of a batch first *)
(* look at a copy and act in a later critical section.  The candidate is   *)
(* one model; whether it is available, and whether a task package can be   *)
(* decrypted, are left open.                                               *)
(***************************************************************************)
EXTENDS Verdicts, Naturals, FiniteSets

CONSTANTS
    Batches,     \* batches of replays
    Total,       \* replays in a batch
    Runners,     \* bound: goroutines of runShadowBatch
    Callers,     \* bound: other replays at a time, the worker's among them
    Admins,      \* bound: administrators who decide or retry at a time
    MaxRetries,  \* bound: retries of batches
    Manual,      \* ids of validations that administrators report
    ValidatedAt, \* validations, 80 % good, before an item counts as validated (3)
    TrustedAt    \* validations, 90 % good, before it counts as trusted (10)

ASSUME ShadowAssumption ==
    /\ Total \in Nat \ {0} /\ MaxRetries \in Nat /\ ValidatedAt \in Nat \ {0} /\ TrustedAt \in Nat \ {0}
    /\ Runners \cap Callers = {}

VARIABLES
    know,     \* KnowledgeStore.items
    shadow,   \* ShadowStore.items
    batches,  \* ShadowBatches.items
    kept,     \* their three files
    calls,    \* the replays under way
    runners,  \* the goroutines that run batches
    admins,   \* what administrators looked at and have yet to do
    vouched,  \* history: items an administrator called validated or trusted
    cut,      \* history: replays a restart found unfinished
    crossed,  \* history: batches stopped before they began, or retried out of turn
    retries   \* bound: how many retries there were

shadowVars == <<know, shadow, batches, kept, calls, runners, admins, vouched, cut, crossed, retries>>
vars == <<source, saved, shadowVars>>

KnowledgeStatus == {"none", "proposed", "validated", "trusted", "rejected", "expired"}
BatchStatus == {"none", "pending", "running", "completed", "stopped", "failed"}

\* A replay is known by the batch it belongs to, its item and its task.
Replay == [batch : Batches \cup {"none"}, item : Items, task : Tasks]
Knowledge == [status : KnowledgeStatus, sources : SUBSET Tasks, ids : SUBSET (Manual \cup Replay),
              samples : Nat, good : Nat, expires : BOOLEAN]
Batch == [status : BatchStatus, item : Items \cup {"none"}, work : [1..Total -> Tasks \cup {"none"}],
          completed : Nat, failed : Nat, stopped : Nat]
NoBatch == [status |-> "none", item |-> "none", work |-> [i \in 1..Total |-> "none"],
            completed |-> 0, failed |-> 0, stopped |-> 0]

NoCall == [pc |-> "idle"]
Call == [pc : {"calling"}, id : Replay] \cup [pc : {"answered"}, id : Replay, good : BOOLEAN]
NoRun == [pc |-> "idle"]
Run == [pc : {"spawned", "next", "replaying", "failed", "done"}, batch : Batches, at : 1..Total + 1]
NoTask == [does |-> "nothing"]
Task == [does : {"decide"}, item : Items, to : KnowledgeStatus] \cup [does : {"retry"}, batch : Batches]

ShadowTypeOK ==
    /\ know \in [Items -> Knowledge]
    /\ shadow \in [Replay -> {"none", "running", "completed", "failed"}]
    /\ batches \in [Batches -> Batch]
    /\ kept \in [know : [Items -> Knowledge], batches : [Batches -> Batch],
                 shadow : [Replay -> {"none", "running", "completed", "failed"}]]
    /\ calls \in [Runners \cup Callers -> Call \cup {NoCall}]
    /\ runners \in [Runners -> Run \cup {NoRun}]
    /\ admins \in [Admins -> Task \cup {NoTask}]
    /\ vouched \subseteq Items /\ cut \subseteq Replay /\ crossed \subseteq Batches /\ retries \in 0..MaxRetries

TypeOK ==
    /\ source \in [Tasks -> Source] /\ saved \in [Tasks -> Source]
    /\ ShadowTypeOK

ShadowInit ==
    /\ know = [k \in Items |-> [status |-> "none", sources |-> {}, ids |-> {}, samples |-> 0,
                                good |-> 0, expires |-> FALSE]]
    /\ shadow = [id \in Replay |-> "none"]
    /\ batches = [b \in Batches |-> NoBatch]
    /\ kept = [know |-> know, batches |-> batches, shadow |-> shadow]
    /\ calls = [c \in Runners \cup Callers |-> NoCall]
    /\ runners = [r \in Runners |-> NoRun]
    /\ admins = [a \in Admins |-> NoTask]
    /\ vouched = {} /\ cut = {} /\ crossed = {} /\ retries = 0

Init == VerdictsInit /\ ShadowInit

SaveKnowledge ==
    \/ kept' = [kept EXCEPT !.know = know']
    \/ "know" \in Unreliable /\ kept' = kept
SaveShadow ==
    \/ kept' = [kept EXCEPT !.shadow = shadow']
    \/ "shadow" \in Unreliable /\ kept' = kept
SaveBatches ==
    \/ kept' = [kept EXCEPT !.batches = batches']
    \/ "batches" \in Unreliable /\ kept' = kept

------------------------------------------------------------------------------
(* Knowledge.                                                              *)

\* Mutant: a verdict proposes what it supports afresh.
BuildAfresh(t) ==
    /\ source[t].item # "none"
    /\ know' = [know EXCEPT ![source[t].item].sources = {t},
                            ![source[t].item].status = "proposed"]
    /\ SaveKnowledge
    /\ UNCHANGED <<shadow, batches, calls, runners, admins, vouched, cut, crossed, retries>>

\* BuildKnowledge proposes what a verdict supports; Upsert leaves the status,
\* the validations and the expiry of known knowledge alone, but keeps of its
\* sources only the one it is given.
Build(t) ==
    /\ source[t].item # "none"
    /\ know' = [know EXCEPT ![source[t].item].sources = {t},
                            ![source[t].item].status = IF @ = "none" THEN "proposed" ELSE @]
    /\ SaveKnowledge
    /\ UNCHANGED <<shadow, batches, calls, runners, admins, vouched, cut, crossed, retries>>

\* Mutant: an id counts as often as it comes.
WithValidationAgain(k, id, good) ==
    IF k.status = "none" THEN k
    ELSE [k EXCEPT !.ids = @ \cup {id}, !.samples = @ + 1, !.good = IF good THEN @ + 1 ELSE @,
                   !.expires = TRUE]

\* RecordValidation: an id counts once; the first validation sets the expiry.
WithValidation(k, id, good) ==
    LET n == k.samples + 1
        g == IF good THEN k.good + 1 ELSE k.good
        validated == IF k.status = "proposed" /\ n >= ValidatedAt /\ g * 100 >= n * 80
                     THEN "validated" ELSE k.status
        trusted == IF validated = "validated" /\ n >= TrustedAt /\ g * 100 >= n * 90
                   THEN "trusted" ELSE validated
    IN IF k.status = "none" \/ id \in k.ids THEN k
       ELSE [k EXCEPT !.status = trusted, !.ids = @ \cup {id}, !.samples = n, !.good = g,
                      !.expires = TRUE]

RecordValidation(k, id, good) ==
    /\ know' = [know EXCEPT ![k] = WithValidation(know[k], id, good)]
    /\ IF know' = know THEN kept' = kept ELSE SaveKnowledge

Validate(k, id, good) ==
    /\ id \notin know[k].ids /\ know[k].status # "none"
    /\ RecordValidation(k, id, good)
    /\ UNCHANGED <<shadow, batches, calls, runners, admins, vouched, cut, crossed, retries>>

\* knowledgeTransitionAllowed
Allowed(from, to) ==
    \/ from = "proposed" /\ to \in {"validated", "rejected"}
    \/ from = "validated" /\ to \in {"trusted", "rejected"}
    \/ from = "trusted" /\ to = "rejected"

\* KnowledgeDecision reads a copy of the item ...
Consider(a, k, to) ==
    /\ admins[a] = NoTask
    /\ Allowed(know[k].status, to)
    /\ admins' = [admins EXCEPT ![a] = [does |-> "decide", item |-> k, to |-> to]]
    /\ UNCHANGED <<know, shadow, batches, kept, calls, runners, vouched, cut, crossed, retries>>

\* ... and ChangeStatus does not ask again where the item comes from.
ChangeStatus(a) ==
    /\ admins[a].does = "decide"
    /\ LET k == admins[a].item
           to == admins[a].to
       IN IF know[k].status = to
          THEN UNCHANGED <<know, kept, vouched>>
          ELSE /\ know' = [know EXCEPT ![k].status = to]
               /\ vouched' = IF to = "rejected" THEN vouched ELSE vouched \cup {k}
               /\ SaveKnowledge
    /\ admins' = [admins EXCEPT ![a] = NoTask]
    /\ UNCHANGED <<shadow, batches, calls, runners, cut, crossed, retries>>

Restore(k, to) ==
    /\ know[k].status \in {"expired", "rejected"}
    /\ know' = [know EXCEPT ![k].status = to, ![k].expires = TRUE]
    /\ vouched' = vouched \cup {k}
    /\ SaveKnowledge
    /\ UNCHANGED <<shadow, batches, calls, runners, admins, cut, crossed, retries>>

\* Mutant: what expires gets a status nothing else knows.
ExpiredUnknown(items, K) ==
    [k \in Items |-> IF k \in K /\ items[k].expires /\ items[k].status \in {"validated", "trusted"}
                     THEN [items[k] EXCEPT !.status = "old"] ELSE items[k]]

\* Thirty days have passed, for the items of K; noticed daily, and whenever the
\* knowledge is viewed.
Expired(items, K) ==
    [k \in Items |-> IF k \in K /\ items[k].expires /\ items[k].status \in {"validated", "trusted"}
                     THEN [items[k] EXCEPT !.status = "expired"] ELSE items[k]]

Expire(K) ==
    /\ know' = Expired(know, K) /\ know' # know
    /\ SaveKnowledge
    /\ UNCHANGED <<shadow, batches, calls, runners, admins, vouched, cut, crossed, retries>>

------------------------------------------------------------------------------
(* Replays.                                                                *)

\* Mutant: any knowledge is replayed.
ReplayableAny(k, t) == source[t].kept

\* ShadowRun replays tasks that are still there, for trusted knowledge.
Replayable(k, t) == know[k].status = "trusted" /\ source[t].kept

Begin(c, id) ==
    /\ calls[c] = NoCall
    /\ Replayable(id.item, id.task)
    /\ shadow' = [shadow EXCEPT ![id] = "running"]
    /\ cut' = cut \ {id}
    /\ SaveShadow
    /\ calls' = [calls EXCEPT ![c] = [pc |-> "calling", id |-> id]]

Result(id, status) == shadow' = [shadow EXCEPT ![id] = status] /\ SaveShadow

\* Mutant: no answer leaves no trace.
FailsQuietly(c) ==
    /\ calls[c].pc = "calling"
    /\ calls' = [calls EXCEPT ![c] = NoCall]
    /\ UNCHANGED <<know, shadow, batches, kept, admins, vouched, cut, crossed, retries>>

\* No answer: the replay has failed, and says nothing about the knowledge.
Fails(c) ==
    /\ calls[c].pc = "calling"
    /\ Result(calls[c].id, "failed")
    /\ calls' = [calls EXCEPT ![c] = NoCall]
    /\ UNCHANGED <<know, batches, admins, vouched, cut, crossed, retries>>

Answers(c, good) ==
    /\ calls[c].pc = "calling"
    /\ Result(calls[c].id, "completed")
    /\ calls' = [calls EXCEPT ![c] = [pc |-> "answered", id |-> calls[c].id, good |-> good]]
    /\ UNCHANGED <<know, batches, runners, admins, vouched, cut, crossed, retries>>

Records(c) ==
    /\ calls[c].pc = "answered"
    /\ RecordValidation(calls[c].id.item, calls[c].id, calls[c].good)
    /\ calls' = [calls EXCEPT ![c] = NoCall]
    /\ UNCHANGED <<shadow, batches, admins, vouched, cut, crossed, retries>>

\* The nightly worker replays each source of trusted knowledge unless it finds
\* any result of that replay; an administrator replays any task.
Single(c, k, t) ==
    LET id == [batch |-> "none", item |-> k, task |-> t] IN
    /\ \/ shadow[id] = "none" /\ source[t].item # "none" /\ t \in know[k].sources
       \/ c # Worker
    /\ Begin(c, id)
    /\ UNCHANGED <<know, batches, runners, admins, vouched, crossed, retries>>

CallerStep(c) ==
    \/ \E k \in Items, t \in Tasks : Single(c, k, t)
    \/ (Fails(c) \/ Records(c)) /\ UNCHANGED runners
    \/ \E good \in BOOLEAN : Answers(c, good)

\* Replays are pruned after days, and end after minutes.
PruneShadow(S) ==
    /\ \E id \in S : shadow[id] # "none"
    /\ \A c \in Runners \cup Callers : calls[c] # NoCall => calls[c].id \notin S
    /\ shadow' = [id \in Replay |-> IF id \in S THEN "none" ELSE shadow[id]]
    /\ cut' = cut \ S
    /\ SaveShadow
    /\ UNCHANGED <<know, batches, calls, runners, admins, vouched, crossed, retries>>

------------------------------------------------------------------------------
(* Batches of replays.                                                     *)

\* A goroutine is started for the batch.
Spawn(b) ==
    \E r \in Runners :
        /\ runners[r] = NoRun
        /\ runners' = [runners EXCEPT ![r] = [pc |-> "spawned", batch |-> b, at |-> 1]]

\* The tasks are named by the administrator, the same one twice if so wished.
StartBatch(b, k, work) ==
    /\ batches[b].status = "none"
    /\ know[k].status = "trusted" /\ \A i \in 1..Total : Replayable(k, work[i])
    /\ batches' = [batches EXCEPT ![b] = [NoBatch EXCEPT !.status = "pending", !.item = k, !.work = work]]
    /\ SaveBatches
    /\ Spawn(b)
    /\ UNCHANGED <<know, shadow, calls, admins, vouched, cut, crossed, retries>>

Unfinished(b) == batches[b].status \in {"pending", "running"}

\* A batch whose goroutine has not begun is stopped as well, and then begins.
Stop(b) ==
    /\ batches[b].status # "none"
    /\ batches' = IF ~Unfinished(b) THEN batches
                  ELSE [batches EXCEPT ![b].status = "stopped",
                            ![b].stopped = IF Total > batches[b].completed
                                           THEN @ + Total - batches[b].completed ELSE @]
    /\ SaveBatches
    /\ crossed' = IF \E r \in Runners : runners[r].pc = "spawned" /\ runners[r].batch = b
                  THEN crossed \cup {b} ELSE crossed
    /\ UNCHANGED <<know, shadow, calls, runners, admins, vouched, cut, retries>>

\* ShadowBatchRetry looks at a copy of the batch ...
ConsiderRetry(a, b) ==
    /\ admins[a] = NoTask
    /\ batches[b].status \in {"failed", "stopped"} /\ retries < MaxRetries
    /\ admins' = [admins EXCEPT ![a] = [does |-> "retry", batch |-> b]]
    /\ UNCHANGED <<know, shadow, batches, kept, calls, runners, vouched, cut, crossed, retries>>

\* ... and starts a goroutine whether or not Retry has found the batch still
\* failed or stopped, and whether or not an earlier goroutine has ended.
Retry(a) ==
    /\ admins[a].does = "retry" /\ retries < MaxRetries
    /\ retries' = retries + 1
    /\ LET b == admins[a].batch IN
       /\ batches' = IF batches[b].status \notin {"failed", "stopped"} THEN batches
                     ELSE [batches EXCEPT ![b] = [NoBatch EXCEPT !.status = "pending",
                               !.item = batches[b].item, !.work = batches[b].work]]
       /\ Spawn(b)
       /\ crossed' = IF \/ batches[b].status \notin {"failed", "stopped"}
                         \/ \E r \in Runners : runners[r] # NoRun /\ runners[r].batch = b
                     THEN crossed \cup {b} ELSE crossed
    /\ SaveBatches
    /\ admins' = [admins EXCEPT ![a] = NoTask]
    /\ UNCHANGED <<know, shadow, calls, vouched, cut>>

\* runShadowBatch marks the batch as running, whatever it was.
RunnerBegins(r) ==
    /\ runners[r].pc = "spawned"
    /\ batches' = [batches EXCEPT ![runners[r].batch].status = "running"]
    /\ SaveBatches
    /\ runners' = [runners EXCEPT ![r].pc = "next"]
    /\ UNCHANGED <<know, shadow, calls, admins, vouched, cut, crossed, retries>>

\* Before each replay: the half hour of a batch is over, or the batch has been
\* stopped, and the goroutine ends.
RunnerQuits(r) ==
    /\ runners[r].pc = "next" /\ runners[r].at <= Total
    /\ LET b == runners[r].batch IN
       \/ batches[b].status = "stopped" /\ UNCHANGED <<batches, kept>>
       \/ /\ batches' = IF batches[b].status = "running"
                        THEN [batches EXCEPT ![b].status = "stopped"] ELSE batches
          /\ SaveBatches
    /\ runners' = [runners EXCEPT ![r] = NoRun]
    /\ UNCHANGED <<know, shadow, calls, admins, vouched, cut, crossed, retries>>

\* The next replay begins, or is refused (its candidate may be unavailable).
RunnerReplays(r) ==
    /\ runners[r].pc = "next" /\ runners[r].at <= Total
    /\ LET b == runners[r].batch
           id == [batch |-> b, item |-> batches[b].item, task |-> batches[b].work[runners[r].at]]
       IN /\ batches[b].status # "stopped"
          /\ \/ Begin(r, id) /\ runners' = [runners EXCEPT ![r].pc = "replaying"]
             \/ /\ runners' = [runners EXCEPT ![r].pc = "failed"]
                /\ UNCHANGED <<shadow, cut, kept, calls>>
    /\ UNCHANGED <<know, batches, admins, vouched, crossed, retries>>

\* A replay that was answered is a success of the batch, good or not.
RunnerReturns(r) ==
    \/ Fails(r) /\ runners' = [runners EXCEPT ![r].pc = "failed"]
    \/ \E good \in BOOLEAN : Answers(r, good)
    \/ Records(r) /\ runners' = [runners EXCEPT ![r].pc = "done"]

\* Mutant: a late replay is counted in a batch that has been stopped.
RunnerCountsLate(r) ==
    /\ runners[r].pc \in {"failed", "done"}
    /\ LET b == runners[r].batch IN
       batches' = [batches EXCEPT ![b].completed = @ + 1,
                                  ![b].failed = IF runners[r].pc = "failed" THEN @ + 1 ELSE @]
    /\ SaveBatches
    /\ runners' = [runners EXCEPT ![r].pc = "next", ![r].at = @ + 1]
    /\ UNCHANGED <<know, shadow, calls, admins, vouched, cut, crossed, retries>>

RunnerCounts(r) ==
    /\ runners[r].pc \in {"failed", "done"}
    /\ LET b == runners[r].batch IN
       batches' = IF batches[b].status = "stopped" THEN batches
                  ELSE [batches EXCEPT ![b].completed = @ + 1,
                                       ![b].failed = IF runners[r].pc = "failed" THEN @ + 1 ELSE @]
    /\ SaveBatches
    /\ runners' = [runners EXCEPT ![r].pc = "next", ![r].at = @ + 1]
    /\ UNCHANGED <<know, shadow, calls, admins, vouched, cut, crossed, retries>>

\* Mutant: a batch with a failed replay is not marked as ended.
RunnerEndsOnSuccess(r) ==
    /\ runners[r].pc = "next" /\ runners[r].at > Total
    /\ LET b == runners[r].batch IN
       batches' = IF batches[b].status # "running" \/ batches[b].failed > 0 THEN batches
                  ELSE [batches EXCEPT ![b].status = "completed"]
    /\ SaveBatches
    /\ runners' = [runners EXCEPT ![r] = NoRun]
    /\ UNCHANGED <<know, shadow, calls, admins, vouched, cut, crossed, retries>>

RunnerEnds(r) ==
    /\ runners[r].pc = "next" /\ runners[r].at > Total
    /\ LET b == runners[r].batch IN
       batches' = IF batches[b].status # "running" THEN batches
                  ELSE [batches EXCEPT ![b].status = IF batches[b].failed > 0 THEN "failed" ELSE "completed"]
    /\ SaveBatches
    /\ runners' = [runners EXCEPT ![r] = NoRun]
    /\ UNCHANGED <<know, shadow, calls, admins, vouched, cut, crossed, retries>>

RunnerStep(r) ==
    \/ RunnerBegins(r) \/ RunnerQuits(r) \/ RunnerReplays(r)
    \/ RunnerReturns(r) \/ RunnerCounts(r) \/ RunnerEnds(r)

------------------------------------------------------------------------------
\* NewRuntimeAt: Load expires knowledge and stops unfinished batches.
ReopenShadow ==
    /\ \E K \in SUBSET Items : know' = Expired(kept.know, K)
    /\ shadow' = kept.shadow
    /\ batches' = [b \in Batches |-> IF kept.batches[b].status \in {"pending", "running"}
                                     THEN [kept.batches[b] EXCEPT !.status = "stopped"]
                                     ELSE kept.batches[b]]
    /\ SaveBatches
    /\ calls' = [c \in Runners \cup Callers |-> NoCall]
    /\ runners' = [r \in Runners |-> NoRun]
    /\ admins' = [a \in Admins |-> NoTask]
    /\ cut' = {id \in Replay : shadow'[id] = "running"}
    /\ UNCHANGED <<vouched, crossed, retries>>

ShadowStep ==
    \/ \E t \in Tasks : Build(t)
    \/ \E k \in Items :
          \/ \E id \in Manual, good \in BOOLEAN : Validate(k, id, good)
          \/ \E to \in {"validated", "trusted"} : Restore(k, to)
          \/ \E a \in Admins, to \in {"validated", "trusted", "rejected"} : Consider(a, k, to)
          \/ \E b \in Batches, work \in [1..Total -> Tasks] : StartBatch(b, k, work)
    \/ \E K \in SUBSET Items : Expire(K)
    \/ \E a \in Admins : ChangeStatus(a) \/ Retry(a) \/ \E b \in Batches : ConsiderRetry(a, b)
    \/ \E b \in Batches : Stop(b)
    \/ \E c \in Callers : CallerStep(c)
    \/ \E r \in Runners : RunnerStep(r)
    \/ \E S \in SUBSET Replay : PruneShadow(S)

Next ==
    \/ VerdictsStep /\ UNCHANGED shadowVars
    \/ ShadowStep /\ UNCHANGED <<source, saved>>
    \/ Reload /\ ReopenShadow

Spec == Init /\ [][Next]_vars

\* A goroutine runs until it ends; its calls have a deadline.
Fairness == \A r \in Runners : WF_vars(RunnerStep(r) /\ UNCHANGED <<source, saved>>)
LiveSpec == Spec /\ Fairness

------------------------------------------------------------------------------
\* Trust that no administrator gave was earned by what administrators
\* reported: replays need trusted knowledge, and neither their late results
\* nor a retry that repeats them makes anything trusted.
ReplaysEarnNoTrust ==
    \A k \in Items : know[k].status = "trusted" /\ k \notin vouched =>
        Cardinality(know[k].ids \cap Manual) >= TrustedAt

\* However often a replay is repeated, by a retried batch, by two goroutines of
\* one batch or after a restart, it counts once, in memory and in the file.
EvidenceCountsOnce ==
    \A image \in {know, kept.know} : \A k \in Items :
        /\ image[k].samples = Cardinality(image[k].ids)
        /\ image[k].good <= image[k].samples

Gone(k) == know[k].status \in {"rejected", "expired"}

\* What was rejected or has expired is not revived by the next verdict of the
\* same kind, a late replay or a validation: the step that revives it is a
\* Restore, a decision on this item whose caller looked at it earlier, or a
\* restart that finds the change unsaved.
OnlyRestoreRevives ==
    [][\A k \in Items : Gone(k) /\ ~Gone(k)' =>
          \/ \E to \in {"validated", "trusted"} : Restore(k, to)
          \/ \E a \in Admins : ChangeStatus(a) /\ admins[a].item = k
          \/ Reload /\ ReopenShadow /\ kept.know[k].status \notin {"rejected", "expired"}]_vars

\* A result says "running" only while somebody is waiting for its call, except
\* for those a restart cut off (which no nightly run takes up again).
RunningIsRun ==
    \A id \in Replay : shadow[id] = "running" =>
        id \in cut \/ \E c \in Runners \cup Callers : calls[c].pc # "idle" /\ calls[c].id = id

\* The counters of a batch add up: no replay is counted twice, or counted as
\* stopped and as completed, unless the batch was stopped before its goroutine
\* began, or retried before an earlier one had ended or by two requests at once.
BatchAddsUp ==
    \A b \in Batches \ crossed :
        /\ batches[b].completed + batches[b].stopped <= Total
        /\ batches[b].status = "completed" => batches[b].completed = Total

\* Every batch ends, however it is stopped and retried and whatever fails.
EveryBatchEnds == \A b \in Batches : Unfinished(b) ~> ~Unfinished(b)

=============================================================================
