------------------------------ MODULE Reviews ------------------------------
(***************************************************************************)
(* Reviews of served requests (internal/runtime/review.go) and the teacher *)
(* model that gives them (reviewer.go, reviewer_config.go; the handlers    *)
(* and the nightly worker of internal/api/reviews.go).                     *)
(*                                                                         *)
(* A batch claims tasks, asks the teacher about all of them in one call    *)
(* and then writes down its decisions one by one; the nightly worker and   *)
(* administrators may each have a batch under way.  Every change of a      *)
(* store is one critical section; the store then marshals itself and       *)
(* replaces its file outside the lock and without looking at errors.  A    *)
(* write that fails and a write that an older image overtakes leave the    *)
(* same file behind, one that misses the change, and only a restart looks: *)
(* both are a change that is not saved.  Saving the teacher is a step of   *)
(* its own, since it saves what others have counted since, too.            *)
(*                                                                         *)
(* Left out: what the tasks and the conversation with the teacher say (and *)
(* so the conversation's compaction, which only repeats the call), and     *)
(* what a decision says beside its verdict and the knowledge it supports.  *)
(***************************************************************************)
EXTENDS Evaluation, Naturals, FiniteSets

CONSTANTS
    Teachers,    \* models an administrator may select as the teacher
    Jobs,        \* bound: the worker and the administrators at work at a time
    FailureLimit \* failures in a row before the teacher is dropped (3)

ASSUME ReviewsAssumption == FailureLimit \in Nat \ {0}

VARIABLES
    reviews,  \* Reviews.items
    settled,  \* tasks recorded before today and more than two hours ago
    locked,   \* Reviews.locked
    jobs,     \* the batches under way
    teacher,  \* ReviewerSelection.Config
    file,     \* reviews-xing-shu.json and reviewer-selection-xing-shu.json
    stranded, \* history: tasks no batch will report on
    overtaken \* history: too many failures were counted while another job was
              \* saving the teacher, and memory or file still say so

reviewVars == <<reviews, settled, locked, jobs, teacher, file, stranded, overtaken>>

ReviewStatus == {"none", "pending", "processing", "reviewed", "skipped", "failed", "pruned"}
Review == [status : ReviewStatus, item : Items \cup {"none"}]
Verdicts == [status : {"reviewed"}, item : Items \cup {"none"}]
                \cup {[status |-> "skipped", item |-> "none"]}
Teacher == [model : Teachers \cup {"none"}, failures : Nat]

NoJob == [pc |-> "idle", batch |-> {}, valid |-> {}, failed |-> FALSE]
Job == [pc : {"idle", "asking", "deciding", "saving", "dropping"},
        batch : SUBSET Tasks, \* claimed, and not yet decided
        valid : SUBSET Tasks, \* named by a valid decision not yet written down
        failed : BOOLEAN]     \* the call failed

ReviewsTypeOK ==
    /\ reviews \in [Tasks -> Review]
    /\ settled \subseteq Tasks
    /\ locked \in BOOLEAN
    /\ jobs \in [Jobs -> Job]
    /\ teacher \in Teacher
    /\ file \in [reviews : [Tasks -> Review], teacher : Teacher]
    /\ stranded \subseteq Tasks
    /\ overtaken \in BOOLEAN

ReviewsInit ==
    /\ reviews = [t \in Tasks |-> [status |-> "none", item |-> "none"]]
    /\ settled = {} /\ locked = FALSE /\ stranded = {} /\ overtaken = FALSE
    /\ jobs = [j \in Jobs |-> NoJob]
    /\ teacher = [model |-> "none", failures |-> 0]
    /\ file = [reviews |-> reviews, teacher |-> teacher]

\* persist: what a store holds reaches its file, or is lost.
Saved(store, image, old) == {image} \cup IF store \in Unreliable THEN {old} ELSE {}

SaveReviews == \E image \in Saved("reviews", reviews', file.reviews) :
    file' = [file EXCEPT !.reviews = image]

------------------------------------------------------------------------------
\* The gateway records an answered request.
Add(t) ==
    /\ reviews[t].status = "none"
    /\ reviews' = [reviews EXCEPT ![t].status = "pending"]
    /\ SaveReviews
    /\ UNCHANGED <<settled, locked, jobs, teacher, stranded>>

\* Midnight, or two hours, pass.
Settle(t) ==
    /\ reviews[t].status # "none" /\ t \notin settled
    /\ settled' = settled \cup {t}
    /\ UNCHANGED <<reviews, locked, jobs, teacher, file, stranded>>

\* Prune (an administrator's, or the daily one) deletes old tasks, those a
\* batch has claimed among them.
PruneReviews(S) ==
    /\ S \subseteq settled /\ \E t \in S : reviews[t].status # "pruned"
    /\ reviews' = [t \in Tasks |-> IF t \in S THEN [status |-> "pruned", item |-> "none"]
                                             ELSE reviews[t]]
    /\ SaveReviews
    /\ UNCHANGED <<settled, locked, jobs, teacher, stranded>>

------------------------------------------------------------------------------
\* Mutant: the count is saved before the teacher is dropped.
FailureSaved(j, limit) ==
    /\ teacher' = [teacher EXCEPT !.failures = @ + 1]
    /\ jobs' = [jobs EXCEPT ![j] =
                  [NoJob EXCEPT !.pc = IF teacher'.failures >= limit THEN "dropping" ELSE "saving"]]
    /\ file' = [file EXCEPT !.teacher = teacher']

\* ReviewRun counts a failure of the teacher; at the limit it goes on to drop
\* the teacher, and saves only then.
Failure(j, limit) ==
    /\ teacher' = [teacher EXCEPT !.failures = @ + 1]
    /\ jobs' = [jobs EXCEPT ![j] =
                  [NoJob EXCEPT !.pc = IF teacher'.failures >= limit THEN "dropping" ELSE "saving"]]
    /\ file' = file

Success(j) ==
    /\ teacher' = [teacher EXCEPT !.failures = 0]
    /\ jobs' = [jobs EXCEPT ![j] = [NoJob EXCEPT !.pc = "saving"]]
    /\ file' = file

\* The end of a batch.  The nightly worker does not count.
Report(j, failed) ==
    IF j = Worker THEN jobs' = [jobs EXCEPT ![j] = NoJob] /\ UNCHANGED <<teacher, file>>
    ELSE IF failed THEN Failure(j, FailureLimit) ELSE Success(j)

\* No teacher is selected, it lost its approval, or its provider is gone or
\* disabled (for which one failure is enough).
Refused(j) ==
    /\ jobs[j] = NoJob
    /\ IF j = Worker THEN UNCHANGED <<jobs, teacher, file>>
       ELSE \E limit \in {1, FailureLimit} : Failure(j, limit)
    /\ UNCHANGED <<reviews, settled, locked, stranded>>

\* Mutant: what is being reviewed is claimed again.
ClaimableAgain(T) == {t \in T : reviews[t].status \in {"pending", "failed", "processing"}}

Claimable(T) == {t \in T : reviews[t].status \in {"pending", "failed"}}

\* Reviewer.Run up to the call.  A batch takes up to a hundred tasks, today's
\* only if an administrator includes them.  While an earlier claim is being
\* saved it takes nothing, and a batch without tasks is a success.
Claim(j) ==
    /\ jobs[j] = NoJob /\ teacher.model # "none"
    /\ IF locked
       THEN Report(j, FALSE) /\ UNCHANGED <<reviews, locked, stranded>>
       ELSE \E S \in SUBSET Claimable(IF j = Worker THEN settled ELSE Tasks) :
              /\ S = {} => Claimable(settled) = {}
              /\ reviews' = [t \in Tasks |-> IF t \in S THEN [reviews[t] EXCEPT !.status = "processing"]
                                                       ELSE reviews[t]]
              /\ locked' = TRUE
              /\ stranded' = stranded \ S
              /\ IF S = {} THEN Report(j, FALSE)
                 ELSE /\ jobs' = [jobs EXCEPT ![j] = [NoJob EXCEPT !.pc = "asking", !.batch = S]]
                      /\ UNCHANGED <<teacher, file>>
    /\ UNCHANGED settled

\* The goroutine of Claim has saved the claim and opens the store to the next.
Unlock ==
    /\ locked
    /\ locked' = FALSE
    /\ reviews' = reviews /\ SaveReviews
    /\ UNCHANGED <<settled, jobs, teacher, stranded>>

Answered(job, valid, invalid) ==
    [job EXCEPT !.pc = "deciding", !.valid = valid, !.batch = @ \ invalid]

\* The teacher answers: tasks with a valid decision, with an invalid one, and
\* with none at all.  An invalid decision is passed over and yet counts as
\* found, so that its task is not marked as failed either.
Answer(j) ==
    /\ jobs[j].pc = "asking"
    /\ \E valid \in SUBSET jobs[j].batch : \E invalid \in SUBSET (jobs[j].batch \ valid) :
          /\ jobs' = [jobs EXCEPT ![j] = Answered(@, valid, invalid)]
          /\ stranded' = stranded \cup {t \in invalid : reviews[t].status = "processing"}
    /\ UNCHANGED <<reviews, settled, locked, teacher, file>>

\* Mutant: a failed call ends the batch and leaves its tasks alone.
NoAnswerGivesUp(j) ==
    /\ jobs[j].pc = "asking"
    /\ jobs' = [jobs EXCEPT ![j] = NoJob]
    /\ UNCHANGED <<reviews, settled, locked, teacher, file, stranded>>

\* The call fails, or its answer is not strict JSON.
NoAnswer(j) ==
    /\ jobs[j].pc = "asking"
    /\ jobs' = [jobs EXCEPT ![j] = [@ EXCEPT !.pc = "deciding", !.failed = TRUE]]
    /\ UNCHANGED <<reviews, settled, locked, teacher, file, stranded>>

\* Mutant: a verdict brings a pruned task back.
AppliedAnyway(t, review) ==
    /\ reviews' = [reviews EXCEPT ![t] = review]
    /\ SaveReviews

\* Apply leaves a task alone that has been pruned in the meantime.
Applied(t, review) ==
    /\ reviews' = IF reviews[t].status = "pruned" THEN reviews ELSE [reviews EXCEPT ![t] = review]
    /\ SaveReviews

\* The answer may name the task once more.
Decided(job, t, again) ==
    [job EXCEPT !.batch = @ \ {t}, !.valid = IF again THEN @ ELSE @ \ {t}]

\* One more decision is written down: the verdicts first, then the failures of
\* the tasks without one.
Decide(j, t) ==
    /\ jobs[j].pc = "deciding"
    /\ IF jobs[j].valid # {}
       THEN /\ t \in jobs[j].valid
            /\ \E verdict \in Verdicts : Applied(t, verdict)
            /\ \E again \in BOOLEAN : jobs' = [jobs EXCEPT ![j] = Decided(@, t, again)]
       ELSE /\ t \in jobs[j].batch
            /\ Applied(t, [status |-> "failed", item |-> "none"])
            /\ jobs' = [jobs EXCEPT ![j] = Decided(@, t, FALSE)]
    /\ UNCHANGED <<settled, locked, teacher, stranded>>

EndJob(j) ==
    /\ jobs[j].pc = "deciding" /\ jobs[j].batch = {} /\ jobs[j].valid = {}
    /\ Report(j, jobs[j].failed)
    /\ UNCHANGED <<reviews, settled, locked, stranded>>

\* Clear, whichever teacher has been selected since the failure was counted.
Drop(j) ==
    /\ jobs[j].pc = "dropping"
    /\ teacher' = [model |-> "none", failures |-> 0]
    /\ jobs' = [jobs EXCEPT ![j] = [NoJob EXCEPT !.pc = "saving"]]
    /\ UNCHANGED <<reviews, settled, locked, file, stranded>>

\* An administrator selects a teacher that is approved, or none.
Select(j, model) ==
    /\ jobs[j] = NoJob /\ j # Worker
    /\ teacher' = [model |-> model, failures |-> 0]
    /\ jobs' = [jobs EXCEPT ![j] = [NoJob EXCEPT !.pc = "saving"]]
    /\ UNCHANGED <<reviews, settled, locked, file, stranded>>

\* persist looks at the teacher again, and finds what has been counted or
\* selected since the job let go of the lock.
SaveTeacher(j) ==
    /\ jobs[j].pc = "saving"
    /\ \E image \in Saved("teacher", teacher, file.teacher) : file' = [file EXCEPT !.teacher = image]
    /\ jobs' = [jobs EXCEPT ![j] = NoJob]
    /\ UNCHANGED <<reviews, settled, locked, teacher, stranded>>

------------------------------------------------------------------------------
\* Mutant: what was being reviewed gets a status nothing else knows.
RecoveredLost(image) ==
    [t \in Tasks |-> IF image[t].status = "processing" /\ t \in settled
                     THEN [image[t] EXCEPT !.status = "lost"] ELSE image[t]]

\* RecoverProcessing looks at what was recorded more than two hours ago.
Recovered(image) ==
    [t \in Tasks |-> IF image[t].status = "processing" /\ t \in settled
                     THEN [image[t] EXCEPT !.status = "failed"] ELSE image[t]]

\* A start loads both files.  A teacher whose entry in the catalogue still fits
\* (RestoreReviewerCapability) starts without failures.
ReopenReviews ==
    /\ reviews' = Recovered(file.reviews)
    /\ \/ teacher' = file.teacher
       \/ file.teacher.model # "none" /\ teacher' = [file.teacher EXCEPT !.failures = 0]
    /\ \E image \in Saved("reviews", reviews', file.reviews),
          config \in Saved("teacher", teacher', file.teacher) :
          file' = [reviews |-> image, teacher |-> config]
    /\ locked' = FALSE
    /\ jobs' = [j \in Jobs |-> NoJob]
    /\ stranded' = {t \in Tasks : reviews'[t].status = "processing"}
    /\ settled' = settled

JobStep(j) ==
    \/ Refused(j) \/ Claim(j) \/ Answer(j) \/ NoAnswer(j)
    \/ (\E t \in Tasks : Decide(j, t)) \/ EndJob(j) \/ Drop(j) \/ SaveTeacher(j)
    \/ \E model \in Teachers \cup {"none"} : Select(j, model)

ReviewsStep ==
    \/ \E t \in Tasks : Add(t) \/ Settle(t)
    \/ \E S \in SUBSET Tasks : PruneReviews(S)
    \/ \E j \in Jobs : JobStep(j)
    \/ Unlock

Failed(config) == config.failures >= FailureLimit
Saving == {j \in Jobs : jobs[j].pc = "saving"}

\* What the history keeps: a failure too many is counted while a job that has
\* changed the teacher before still has to save it.
Watch ==
    LET now == teacher' # teacher /\ Failed(teacher') /\ Saving \cap Saving' # {}
    IN  overtaken' = ((Failed(teacher') \/ Failed(file'.teacher)) /\ (overtaken \/ now))

ReviewsNext == (ReviewsStep \/ ReopenReviews) /\ Watch

ReviewsSpec == ReviewsInit /\ [][ReviewsNext]_reviewVars

------------------------------------------------------------------------------
\* What a batch has still to decide is claimed, and by no other batch, and a
\* verdict is overwritten by nothing but the answer it came in: neither the lock
\* that opens before the batch ends, nor a failure that is written down and
\* claimed anew by the other batch, nor a restart lets two batches decide the
\* same task (Claim, Apply).
Held(j) == jobs[j].batch \cup jobs[j].valid

ClaimedOnce ==
    \A j \in Jobs : \A t \in Held(j) :
        /\ reviews[t].status \in {"pruned"} \cup IF t \in jobs[j].batch THEN {"processing"}
                                                                      ELSE {"reviewed", "skipped"}
        /\ \A i \in Jobs \ {j} : t \notin Held(i)

\* A claim ends with its batch, whatever becomes of the call, except for tasks
\* whose decision was invalid and those found claimed, and too young, by a
\* restart: these stay "processing" until a restart finds them old enough.
NothingElseStranded ==
    \A t \in Tasks : reviews[t].status = "processing" =>
        t \in stranded \/ \E j \in Jobs : t \in jobs[j].batch

\* A teacher with too many failures in a row is about to be dropped, and the
\* count that dooms it is not in the file, where a restart would find it.  The
\* exception is the count that a job still saving an earlier change takes along
\* (persist looks again, outside the lock): after a crash before the drop is
\* saved, that teacher is back, and stays until its next failure.
FailedTeacherLeaves ==
    /\ Failed(teacher) => overtaken \/ \E j \in Jobs : jobs[j].pc = "dropping"
    /\ Failed(file.teacher) => overtaken

\* The store keeps what Verdicts expects: only a recorded task is judged, a
\* pruned one is gone whatever the batches still write down about it
\* (markFailed, a claim, a verdict), and a restart finds an image that was saved.
Seen(image) ==
    [t \in Tasks |-> [kept |-> image[t].status \notin {"none", "pruned"}, item |-> image[t].item]]

Store == INSTANCE Verdicts WITH source <- Seen(reviews), saved <- Seen(file.reviews)

KeepsVerdicts == Store!VerdictsSpec

=============================================================================
