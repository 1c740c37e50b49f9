--------------------------- MODULE ReviewsProofs ---------------------------
(***************************************************************************)
(* Theorems about Reviews, for any tasks, teachers and batches at a time,  *)
(* any limit of failures and any stores whose writes may be lost.          *)
(***************************************************************************)
EXTENDS Reviews, TLAPS

\* A batch holds tasks only between its call and its last decision.
JobOK(job) ==
    /\ job.pc \in {"idle", "saving", "dropping"} => job.batch = {} /\ job.valid = {}
    /\ job.pc = "asking" => job.valid = {}

\* Beside what the property says: no job may save a count too many unless the
\* history knows of it.
TeacherInv ==
    /\ FailedTeacherLeaves
    /\ Failed(teacher) /\ Saving # {} => overtaken

ReviewsInv ==
    /\ ReviewsTypeOK
    /\ \A j \in Jobs : JobOK(jobs[j])
    /\ ClaimedOnce /\ NothingElseStranded /\ TeacherInv

-----------------------------------------------------------------------------
(* What a step leaves alone.                                               *)

\* The tasks and what the batches hold of them are the same.
SameTasks ==
    /\ reviews' = reviews /\ stranded' = stranded
    /\ \A j \in Jobs : jobs'[j].batch = jobs[j].batch /\ jobs'[j].valid = jobs[j].valid

LEMMA TasksAlone ==
    ASSUME ClaimedOnce, NothingElseStranded, SameTasks
    PROVE  ClaimedOnce' /\ NothingElseStranded'
  BY DEF SameTasks, ClaimedOnce, NothingElseStranded, Held

Files == [reviews : [Tasks -> Review], teacher : Teacher]

\* A change of the tasks reaches the file or not.
LEMMA SavedReviews ==
    ASSUME file \in Files, reviews' \in [Tasks -> Review], SaveReviews
    PROVE  file' \in Files /\ file'.teacher = file.teacher
  BY DEF SaveReviews, Saved, Files

LEMMA NoJobOK == NoJob \in Job /\ JobOK(NoJob) /\ NoJob.batch = {} /\ NoJob.valid = {} /\ NoJob.pc = "idle"
  BY DEF NoJob, Job, JobOK

\* A job that is done with its tasks.
LEMMA PastTasksOK ==
    ASSUME NEW pc \in {"saving", "dropping"}
    PROVE  LET job == [NoJob EXCEPT !.pc = pc] IN
           job \in Job /\ JobOK(job) /\ job.batch = {} /\ job.valid = {} /\ job.pc = pc
  BY DEF NoJob, Job, JobOK

-----------------------------------------------------------------------------
(* The teacher.                                                            *)

\* Nobody begins to save the teacher.
NoNewSave == \A j \in Jobs : jobs'[j].pc = "saving" => jobs[j].pc = "saving"

\* The teacher has no failure too many, and at most this is saved.
Reset ==
    ~Failed(teacher') /\ file'.teacher \in {file.teacher, teacher'}

\* The teacher is the same and at most saved by a job that has to, and whoever
\* drops it still does.
Unchanged ==
    /\ teacher' = teacher /\ NoNewSave
    /\ file'.teacher = file.teacher \/ (file'.teacher = teacher /\ Saving # {})
    /\ \A j \in Jobs : jobs[j].pc = "dropping" => jobs'[j].pc = "dropping"

\* A failure too many is counted by a job that goes on to drop the teacher.
Doomed ==
    /\ teacher' # teacher /\ NoNewSave /\ file'.teacher = file.teacher
    /\ \E j \in Jobs : jobs'[j].pc = "dropping"

\* A restart finds what is in the file.
Found ==
    teacher' = file.teacher /\ file'.teacher = file.teacher /\ Saving' = {}

LEMMA TeacherMoves ==
    ASSUME TeacherInv, Watch, Reset \/ Unchanged \/ Doomed \/ Found
    PROVE  TeacherInv'
  <1>1. CASE Reset
    BY <1>1 DEF Reset, TeacherInv, FailedTeacherLeaves, Watch, Failed
  <1>2. CASE Unchanged
    <2>1. Saving' \subseteq Saving
      BY <1>2 DEF Unchanged, NoNewSave, Saving
    <2>2. Failed(teacher)' = Failed(teacher)
      BY <1>2 DEF Unchanged, Failed
    <2>3. Failed(file.teacher)' => Failed(file.teacher) \/ (Failed(teacher) /\ Saving # {})
      BY <1>2 DEF Unchanged, Failed
    <2> QED
      BY <1>2, <2>1, <2>2, <2>3 DEF Unchanged, TeacherInv, FailedTeacherLeaves, Watch, Failed
  <1>3. CASE Doomed
    <2>1. Saving' \subseteq Saving
      BY <1>3 DEF Doomed, NoNewSave, Saving
    <2> QED
      BY <1>3, <2>1 DEF Doomed, TeacherInv, FailedTeacherLeaves, Watch, Failed
  <1>4. CASE Found
    BY <1>4 DEF Found, TeacherInv, FailedTeacherLeaves, Watch, Failed
  <1> QED
    BY <1>1, <1>2, <1>3, <1>4

\* What the end of a batch that holds nothing any more makes of the teacher.
Ending(j) ==
    /\ jobs' \in [Jobs -> Job] /\ \A i \in Jobs : JobOK(jobs'[i])
    /\ \A i \in Jobs : jobs'[i].batch = jobs[i].batch /\ jobs'[i].valid = jobs[i].valid
    /\ teacher' \in Teacher /\ file' \in Files
    /\ Reset \/ Unchanged \/ Doomed

LEMMA SetJob ==
    ASSUME ReviewsInv, NEW j \in Jobs, NEW job \in Job, JobOK(job),
           jobs' = [jobs EXCEPT ![j] = job]
    PROVE  /\ jobs' \in [Jobs -> Job] /\ \A i \in Jobs : JobOK(jobs'[i])
           /\ \A i \in Jobs : jobs'[i] = IF i = j THEN job ELSE jobs[i]
  BY DEF ReviewsInv, ReviewsTypeOK

LEMMA FailureEnds ==
    ASSUME ReviewsInv, NEW j \in Jobs, NEW limit \in {1, FailureLimit}, Failure(j, limit),
           jobs[j].batch = {}, jobs[j].valid = {}
    PROVE  Ending(j)
  <1>1. teacher \in Teacher /\ file \in Files /\ file' = file
    BY DEF ReviewsInv, ReviewsTypeOK, Files, Failure
  <1>2. teacher' \in Teacher /\ teacher'.failures = teacher.failures + 1 /\ teacher' # teacher
    BY <1>1 DEF Failure, Teacher
  <1>3. CASE teacher'.failures >= limit
    <2>1. jobs' = [jobs EXCEPT ![j] = [NoJob EXCEPT !.pc = "dropping"]]
      BY <1>3 DEF Failure
    <2>2. /\ jobs' \in [Jobs -> Job] /\ \A i \in Jobs : JobOK(jobs'[i])
          /\ \A i \in Jobs : jobs'[i] = IF i = j THEN [NoJob EXCEPT !.pc = "dropping"] ELSE jobs[i]
      BY <2>1, PastTasksOK, SetJob
    <2>3. Doomed
      BY <1>1, <1>2, <2>2, PastTasksOK DEF Doomed, NoNewSave
    <2> QED
      BY <1>1, <1>2, <2>2, <2>3, PastTasksOK DEF Ending
  <1>4. CASE ~(teacher'.failures >= limit)
    <2>1. jobs' = [jobs EXCEPT ![j] = [NoJob EXCEPT !.pc = "saving"]]
      BY <1>4 DEF Failure
    <2>2. /\ jobs' \in [Jobs -> Job] /\ \A i \in Jobs : JobOK(jobs'[i])
          /\ \A i \in Jobs : jobs'[i] = IF i = j THEN [NoJob EXCEPT !.pc = "saving"] ELSE jobs[i]
      BY <2>1, PastTasksOK, SetJob
    <2>3. ~Failed(teacher')
      BY <1>1, <1>2, <1>4, ReviewsAssumption DEF Teacher, Failed
    <2> QED
      BY <1>1, <1>2, <2>2, <2>3, PastTasksOK DEF Ending, Reset
  <1> QED
    BY <1>3, <1>4

\* A job that holds no tasks gives the teacher no failures, and has to save it.
LEMMA ResetEnds ==
    ASSUME ReviewsInv, NEW j \in Jobs, jobs[j].batch = {}, jobs[j].valid = {},
           teacher' \in Teacher, teacher'.failures = 0, file' = file,
           jobs' = [jobs EXCEPT ![j] = [NoJob EXCEPT !.pc = "saving"]]
    PROVE  Ending(j)
  <1>1. /\ jobs' \in [Jobs -> Job] /\ \A i \in Jobs : JobOK(jobs'[i])
        /\ \A i \in Jobs : jobs'[i] = IF i = j THEN [NoJob EXCEPT !.pc = "saving"] ELSE jobs[i]
    BY PastTasksOK, SetJob
  <1>2. Reset
    BY ReviewsAssumption DEF Reset, Failed
  <1> QED
    BY <1>1, <1>2, PastTasksOK DEF Ending, ReviewsInv, ReviewsTypeOK, Files

LEMMA SuccessEnds ==
    ASSUME ReviewsInv, NEW j \in Jobs, Success(j), jobs[j].batch = {}, jobs[j].valid = {}
    PROVE  Ending(j)
  <1>1. teacher' \in Teacher /\ teacher'.failures = 0
    BY DEF Success, Teacher, ReviewsInv, ReviewsTypeOK
  <1> QED
    BY <1>1, ResetEnds DEF Success

\* A batch that ends was not the one that drops the teacher.
LEMMA ReportEnds ==
    ASSUME ReviewsInv, NEW j \in Jobs, NEW failed \in BOOLEAN, Report(j, failed),
           jobs[j].batch = {}, jobs[j].valid = {}, jobs[j].pc # "dropping"
    PROVE  Ending(j)
  <1>1. CASE j = Worker
    <2>1. jobs' = [jobs EXCEPT ![j] = NoJob] /\ teacher' = teacher /\ file' = file
      BY <1>1 DEF Report
    <2>2. /\ jobs' \in [Jobs -> Job] /\ \A i \in Jobs : JobOK(jobs'[i])
          /\ \A i \in Jobs : jobs'[i] = IF i = j THEN NoJob ELSE jobs[i]
      BY <2>1, NoJobOK, SetJob
    <2>3. Unchanged
      BY <2>1, <2>2, NoJobOK DEF Unchanged, NoNewSave
    <2>4. teacher' \in Teacher /\ file' \in Files
      BY <2>1 DEF ReviewsInv, ReviewsTypeOK, Files
    <2> QED
      BY <2>2, <2>3, <2>4, NoJobOK DEF Ending
  <1>2. CASE j # Worker
    BY <1>2, FailureEnds, SuccessEnds DEF Report
  <1> QED
    BY <1>1, <1>2

\* Such an end keeps the invariant when the tasks are left alone.
LEMMA EndKeepsInv ==
    ASSUME ReviewsInv, Watch, NEW j \in Jobs, Ending(j), UNCHANGED <<reviews, settled, stranded>>,
           locked' \in BOOLEAN
    PROVE  ReviewsInv'
  <1>1. SameTasks
    BY DEF Ending, SameTasks
  <1>2. overtaken' \in BOOLEAN /\ TeacherInv'
    BY TeacherMoves DEF Ending, ReviewsInv, ReviewsTypeOK, Watch
  <1>3. ReviewsTypeOK'
    BY <1>2 DEF Ending, Files, ReviewsInv, ReviewsTypeOK
  <1> QED
    BY <1>1, <1>2, <1>3, TasksAlone DEF Ending, ReviewsInv

LEMMA TeacherKeepsInv ==
    ASSUME ReviewsInv, Watch, NEW j \in Jobs, NEW model \in Teachers \cup {"none"},
           Refused(j) \/ EndJob(j) \/ Drop(j) \/ Select(j, model) \/ SaveTeacher(j)
    PROVE  ReviewsInv'
  <1>1. CASE Refused(j)
    <2>1. jobs[j].batch = {} /\ jobs[j].valid = {}
      BY <1>1, NoJobOK DEF Refused
    <2>2. Ending(j)
      <3>1. CASE j = Worker
        BY <1>1, <3>1 DEF Refused, Ending, Unchanged, NoNewSave, Files, ReviewsInv, ReviewsTypeOK
      <3>2. CASE j # Worker
        BY <1>1, <2>1, <3>2, FailureEnds DEF Refused
      <3> QED
        BY <3>1, <3>2
    <2> QED
      BY <1>1, <2>2, EndKeepsInv DEF Refused, ReviewsInv, ReviewsTypeOK
  <1>2. CASE EndJob(j)
    <2>1. jobs[j].failed \in BOOLEAN /\ jobs[j].pc # "dropping"
      BY <1>2 DEF EndJob, ReviewsInv, ReviewsTypeOK, Job
    <2>2. Ending(j)
      BY <1>2, <2>1, ReportEnds DEF EndJob
    <2> QED
      BY <1>2, <2>2, EndKeepsInv DEF EndJob, ReviewsInv, ReviewsTypeOK
  <1>3. CASE Drop(j) \/ Select(j, model)
    <2>1. jobs[j].batch = {} /\ jobs[j].valid = {}
      BY <1>3, NoJobOK DEF Drop, Select, ReviewsInv, JobOK
    <2>2. teacher' \in Teacher /\ teacher'.failures = 0
      BY <1>3 DEF Drop, Select, Teacher
    <2>3. Ending(j)
      BY <1>3, <2>1, <2>2, ResetEnds DEF Drop, Select
    <2> QED
      BY <1>3, <2>3, EndKeepsInv DEF Drop, Select, ReviewsInv, ReviewsTypeOK
  <1>4. CASE SaveTeacher(j)
    <2>1. teacher' = teacher /\ jobs' = [jobs EXCEPT ![j] = NoJob] /\ jobs[j].pc = "saving"
      BY <1>4 DEF SaveTeacher
    <2>2. /\ jobs' \in [Jobs -> Job] /\ \A i \in Jobs : JobOK(jobs'[i])
          /\ \A i \in Jobs : jobs'[i] = IF i = j THEN NoJob ELSE jobs[i]
      BY <2>1, NoJobOK, SetJob
    <2>3. jobs[j].batch = {} /\ jobs[j].valid = {} /\ Saving # {}
      BY <2>1 DEF ReviewsInv, JobOK, Saving
    <2>4. teacher' \in Teacher /\ file' \in Files /\ file'.teacher \in {teacher, file.teacher}
      BY <1>4, <2>1 DEF SaveTeacher, Saved, ReviewsInv, ReviewsTypeOK, Files
    <2>5. Unchanged
      BY <2>1, <2>2, <2>3, <2>4, NoJobOK DEF Unchanged, NoNewSave
    <2>6. Ending(j)
      BY <2>2, <2>3, <2>4, <2>5, NoJobOK DEF Ending
    <2> QED
      BY <1>4, <2>6, EndKeepsInv DEF SaveTeacher, ReviewsInv, ReviewsTypeOK
  <1> QED
    BY <1>1, <1>2, <1>3, <1>4

-----------------------------------------------------------------------------
(* The tasks.                                                              *)

\* A step that changes what becomes of tasks, not what becomes of the teacher.
LEMMA TaskStep ==
    ASSUME ReviewsInv, Watch, reviews' \in [Tasks -> Review], settled' \subseteq Tasks,
           locked' \in BOOLEAN, stranded' \subseteq Tasks, jobs' \in [Jobs -> Job],
           \A j \in Jobs : JobOK(jobs'[j]) /\ (jobs[j].pc = "dropping" => jobs'[j].pc = "dropping"),
           NoNewSave,
           teacher' = teacher, file' = file \/ SaveReviews, ClaimedOnce', NothingElseStranded'
    PROVE  ReviewsInv'
  <1>1. file' \in Files /\ file'.teacher = file.teacher
    BY SavedReviews DEF ReviewsInv, ReviewsTypeOK, Files
  <1>2. overtaken' \in BOOLEAN /\ TeacherInv'
    BY <1>1, TeacherMoves DEF Unchanged, ReviewsInv, ReviewsTypeOK, Watch
  <1>3. ReviewsTypeOK'
    BY <1>1, <1>2 DEF Files, ReviewsInv, ReviewsTypeOK
  <1> QED
    BY <1>2, <1>3 DEF ReviewsInv

\* Tasks that no batch holds may be recorded, and any task may be pruned.
LEMMA RecordsKeepInv ==
    ASSUME ReviewsInv, Watch,
           \/ \E t \in Tasks : Add(t) \/ Settle(t)
           \/ \E S \in SUBSET Tasks : PruneReviews(S)
           \/ Unlock
    PROVE  ReviewsInv'
  <1>1. ASSUME NEW t \in Tasks, Add(t)
        PROVE  ReviewsInv'
    <2>1. \A x \in Tasks : reviews'[x] = IF x = t THEN [reviews[t] EXCEPT !.status = "pending"]
                                                  ELSE reviews[x]
      BY <1>1 DEF Add, ReviewsInv, ReviewsTypeOK
    <2>2. reviews[t] \in Review /\ [reviews[t] EXCEPT !.status = "pending"] \in Review
      BY DEF ReviewsInv, ReviewsTypeOK, Review, ReviewStatus
    <2>3. reviews' \in [Tasks -> Review]
      BY <1>1, <2>2 DEF Add, ReviewsInv, ReviewsTypeOK
    <2>4. reviews'[t].status = "pending" /\ reviews[t].status = "none"
      BY <1>1, <2>1, <2>2 DEF Add, Review
    <2>5. ClaimedOnce'
      BY <1>1, <2>1, <2>4 DEF Add, ReviewsInv, ClaimedOnce, Held, ReviewsTypeOK, Job
    <2>6. NothingElseStranded'
      BY <1>1, <2>1, <2>4 DEF Add, ReviewsInv, NothingElseStranded
    <2> QED
      BY <1>1, <2>3, <2>5, <2>6, TaskStep DEF Add, NoNewSave, ReviewsInv, ReviewsTypeOK
  <1>2. ASSUME NEW t \in Tasks, Settle(t)
        PROVE  ReviewsInv'
    <2>1. ClaimedOnce' /\ NothingElseStranded'
      BY <1>2, TasksAlone DEF Settle, SameTasks, ReviewsInv
    <2> QED
      BY <1>2, <2>1, TaskStep DEF Settle, NoNewSave, ReviewsInv, ReviewsTypeOK
  <1>3. ASSUME NEW S \in SUBSET Tasks, PruneReviews(S)
        PROVE  ReviewsInv'
    <2>1. \A x \in Tasks : reviews'[x] = IF x \in S THEN [status |-> "pruned", item |-> "none"]
                                                    ELSE reviews[x]
      BY <1>3 DEF PruneReviews
    <2>2. reviews' \in [Tasks -> Review]
      BY <1>3 DEF PruneReviews, ReviewsInv, ReviewsTypeOK, Review, ReviewStatus
    <2>3. ClaimedOnce'
      BY <1>3, <2>1 DEF PruneReviews, ReviewsInv, ClaimedOnce, Held, ReviewsTypeOK, Job
    <2>4. NothingElseStranded'
      BY <1>3, <2>1 DEF PruneReviews, ReviewsInv, NothingElseStranded
    <2> QED
      BY <1>3, <2>2, <2>3, <2>4, TaskStep DEF PruneReviews, NoNewSave, ReviewsInv, ReviewsTypeOK
  <1>4. CASE Unlock
    <2>1. ClaimedOnce' /\ NothingElseStranded'
      BY <1>4, TasksAlone DEF Unlock, SameTasks, ReviewsInv
    <2> QED
      BY <1>4, <2>1, TaskStep DEF Unlock, NoNewSave, ReviewsInv, ReviewsTypeOK
  <1> QED
    BY <1>1, <1>2, <1>3, <1>4

\* What can be claimed is held by no batch.
LEMMA ClaimableFree ==
    ASSUME ReviewsInv, NEW S \in SUBSET Claimable(Tasks), NEW j \in Jobs
    PROVE  S \cap Held(j) = {}
  BY DEF ReviewsInv, ReviewsTypeOK, ClaimedOnce, Claimable

LEMMA ClaimKeepsInv ==
    ASSUME ReviewsInv, Watch, NEW j \in Jobs, Claim(j)
    PROVE  ReviewsInv'
  <1>1. jobs[j] = NoJob /\ settled' = settled
    BY DEF Claim
  <1>2. CASE locked
    <2>1. Report(j, FALSE) /\ UNCHANGED <<reviews, locked, stranded>>
      BY <1>2 DEF Claim
    <2>2. Ending(j)
      BY <1>1, <2>1, NoJobOK, ReportEnds
    <2> QED
      BY <1>1, <2>1, <2>2, EndKeepsInv DEF ReviewsInv, ReviewsTypeOK
  <1>3. CASE ~locked
    <2>1. PICK S \in SUBSET Claimable(Tasks) :
             /\ reviews' = [t \in Tasks |-> IF t \in S THEN [reviews[t] EXCEPT !.status = "processing"]
                                                      ELSE reviews[t]]
             /\ locked' = TRUE /\ stranded' = stranded \ S
             /\ IF S = {} THEN Report(j, FALSE)
                ELSE /\ jobs' = [jobs EXCEPT ![j] = [NoJob EXCEPT !.pc = "asking", !.batch = S]]
                     /\ UNCHANGED <<teacher, file>>
      <3>1. \A T \in SUBSET Tasks : Claimable(T) \subseteq Claimable(Tasks)
        BY DEF Claimable
      <3>2. settled \in SUBSET Tasks
        BY DEF ReviewsInv, ReviewsTypeOK
      <3> QED
        BY <1>3, <3>1, <3>2 DEF Claim
    <2>2. CASE S = {}
      <3>1. Ending(j)
        BY <1>1, <2>1, <2>2, NoJobOK, ReportEnds
      <3>2. reviews' = reviews /\ stranded' = stranded
        BY <2>1, <2>2 DEF ReviewsInv, ReviewsTypeOK
      <3> QED
        BY <1>1, <2>1, <3>1, <3>2, EndKeepsInv
    <2>3. CASE S # {}
      <3> DEFINE job == [NoJob EXCEPT !.pc = "asking", !.batch = S]
      <3>1. S \subseteq Tasks
        BY DEF Claimable
      <3>2. job \in Job /\ JobOK(job) /\ job.batch = S /\ job.valid = {}
        BY <3>1 DEF NoJob, Job, JobOK
      <3>13. job.pc = "asking"
        BY DEF NoJob
      <3> HIDE DEF job
      <3>3. jobs' = [jobs EXCEPT ![j] = job] /\ UNCHANGED <<teacher, file>>
        BY <2>1, <2>3 DEF job
      <3>4. /\ jobs' \in [Jobs -> Job] /\ \A i \in Jobs : JobOK(jobs'[i])
            /\ \A i \in Jobs : jobs'[i] = IF i = j THEN job ELSE jobs[i]
        BY <3>2, <3>3, SetJob
      <3>5. \A t \in Tasks : reviews[t] \in Review
        BY DEF ReviewsInv, ReviewsTypeOK
      <3>6. \A t \in Tasks : /\ t \in S => reviews'[t].status = "processing"
                             /\ t \notin S => reviews'[t] = reviews[t]
        BY <2>1, <3>5 DEF Review
      <3>7. reviews' \in [Tasks -> Review]
        BY <2>1, <3>5 DEF Review, ReviewStatus
      <3>8. \A i \in Jobs : S \cap Held(i) = {} /\ Held(i) \subseteq Tasks
        BY ClaimableFree DEF Held, ReviewsInv, ReviewsTypeOK, Job
      <3>9. ClaimedOnce'
        <4> SUFFICES ASSUME NEW i \in Jobs, NEW t \in Held(i)'
                     PROVE  /\ reviews'[t].status \in {"pruned"} \cup
                                  IF t \in jobs'[i].batch THEN {"processing"} ELSE {"reviewed", "skipped"}
                            /\ \A k \in Jobs \ {i} : t \notin Held(k)'
          BY DEF ClaimedOnce
        <4>1. \A k \in Jobs : Held(k)' = IF k = j THEN S ELSE Held(k)
          BY <3>2, <3>4 DEF Held
        <4>2. CASE i = j
          BY <3>1, <3>2, <3>4, <3>6, <3>8, <4>1, <4>2
        <4>3. CASE i # j
          <5>1. t \in Held(i) /\ t \notin S /\ t \in Tasks /\ jobs'[i] = jobs[i]
            BY <3>4, <3>8, <4>1, <4>3
          <5> QED
            BY <3>6, <4>1, <5>1 DEF ReviewsInv, ClaimedOnce
        <4> QED
          BY <4>2, <4>3
      <3>10. NothingElseStranded'
        <4>1. jobs[j].batch = {}
          BY <1>1, NoJobOK
        <4> QED
          BY <2>1, <3>2, <3>4, <3>6, <4>1 DEF ReviewsInv, NothingElseStranded
      <3>11. \A i \in Jobs : jobs[i].pc = "dropping" => jobs'[i].pc = "dropping"
        BY <1>1, <3>4, NoJobOK
      <3>12. NoNewSave
        BY <3>13, <3>4 DEF NoNewSave
      <3> QED
        BY <1>1, <2>1, <3>3, <3>4, <3>7, <3>9, <3>10, <3>11, <3>12, TaskStep DEF ReviewsInv, ReviewsTypeOK
    <2> QED
      BY <2>2, <2>3
  <1> QED
    BY <1>2, <1>3

-----------------------------------------------------------------------------
(* The decisions.                                                          *)

\* A step of one batch that gives up tasks it held.
LEMMA BatchStep ==
    ASSUME ReviewsInv, Watch, NEW j \in Jobs, NEW job \in Job, JobOK(job),
           jobs[j].pc # "dropping", job.pc # "saving",
           jobs' = [jobs EXCEPT ![j] = job], reviews' \in [Tasks -> Review],
           job.batch \cup job.valid \subseteq Held(j),
           \A t \in Tasks \ Held(j) : reviews'[t] = reviews[t],
           \A t \in job.batch \cup job.valid : reviews'[t].status \in
               {"pruned"} \cup IF t \in job.batch THEN {"processing"} ELSE {"reviewed", "skipped"},
           stranded \subseteq stranded', stranded' \subseteq Tasks,
           \A t \in jobs[j].batch \ job.batch : reviews'[t].status = "processing" => t \in stranded',
           \A t \in Tasks : reviews'[t].status = "processing" => reviews[t].status = "processing",
           UNCHANGED <<settled, locked, teacher>>, file' = file \/ SaveReviews
    PROVE  ReviewsInv'
  <1>1. /\ jobs' \in [Jobs -> Job] /\ \A i \in Jobs : JobOK(jobs'[i])
        /\ \A i \in Jobs : jobs'[i] = IF i = j THEN job ELSE jobs[i]
    BY SetJob
  <1>2. \A i \in Jobs : Held(i) \subseteq Tasks
    BY DEF Held, ReviewsInv, ReviewsTypeOK, Job
  <1>3. \A k \in Jobs : Held(k)' = IF k = j THEN job.batch \cup job.valid ELSE Held(k)
    BY <1>1 DEF Held
  <1>4. ClaimedOnce'
    <2> SUFFICES ASSUME NEW i \in Jobs, NEW t \in Held(i)'
                 PROVE  /\ reviews'[t].status \in {"pruned"} \cup
                              IF t \in jobs'[i].batch THEN {"processing"} ELSE {"reviewed", "skipped"}
                        /\ \A k \in Jobs \ {i} : t \notin Held(k)'
      BY DEF ClaimedOnce
    <2>1. t \in Held(i) /\ t \in Tasks
      BY <1>2, <1>3
    <2>2. \A k \in Jobs \ {i} : t \notin Held(k)
      BY <2>1 DEF ReviewsInv, ClaimedOnce
    <2>3. \A k \in Jobs \ {i} : t \notin Held(k)'
      BY <1>3, <2>2
    <2>4. CASE i = j
      BY <1>1, <1>3, <2>3, <2>4
    <2>5. CASE i # j
      <3>1. jobs'[i] = jobs[i] /\ reviews'[t] = reviews[t]
        BY <1>1, <2>1, <2>2, <2>5
      <3> QED
        BY <2>1, <2>3, <3>1 DEF ReviewsInv, ClaimedOnce
    <2> QED
      BY <2>4, <2>5
  <1>5. NothingElseStranded'
    <2> SUFFICES ASSUME NEW t \in Tasks, reviews'[t].status = "processing"
                 PROVE  t \in stranded' \/ \E i \in Jobs : t \in jobs'[i].batch
      BY DEF NothingElseStranded
    <2>1. t \in stranded \/ \E i \in Jobs : t \in jobs[i].batch
      BY DEF ReviewsInv, NothingElseStranded
    <2>2. CASE t \in jobs[j].batch \ job.batch
      BY <2>2
    <2>3. CASE t \notin jobs[j].batch \ job.batch
      BY <1>1, <2>1, <2>3
    <2> QED
      BY <2>2, <2>3
  <1>6. NoNewSave /\ \A i \in Jobs : jobs[i].pc = "dropping" => jobs'[i].pc = "dropping"
    BY <1>1 DEF NoNewSave
  <1> QED
    BY <1>1, <1>4, <1>5, <1>6, TaskStep DEF ReviewsInv, ReviewsTypeOK

LEMMA AnswerKeepsInv ==
    ASSUME ReviewsInv, Watch, NEW j \in Jobs, Answer(j) \/ NoAnswer(j)
    PROVE  ReviewsInv'
  <1>1. jobs[j] \in Job /\ jobs[j].pc = "asking" /\ jobs[j].valid = {} /\ jobs[j].batch \subseteq Tasks
    BY DEF Answer, NoAnswer, ReviewsInv, ReviewsTypeOK, JobOK, Job
  <1>2. \A t \in jobs[j].batch : reviews[t].status \in {"pruned", "processing"}
    BY <1>1 DEF ReviewsInv, ClaimedOnce, Held
  <1>3. reviews' = reviews /\ reviews \in [Tasks -> Review] /\ stranded \subseteq Tasks
    BY DEF Answer, NoAnswer, ReviewsInv, ReviewsTypeOK
  <1>4. CASE Answer(j)
    <2>1. PICK valid \in SUBSET jobs[j].batch, invalid \in SUBSET jobs[j].batch :
             /\ valid \cap invalid = {}
             /\ jobs' = [jobs EXCEPT ![j] = Answered(jobs[j], valid, invalid)]
             /\ stranded' = stranded \cup {t \in invalid : reviews[t].status = "processing"}
      BY <1>4 DEF Answer, ReviewsInv, ReviewsTypeOK
    <2> DEFINE job == Answered(jobs[j], valid, invalid)
    <2>2. job \in Job /\ job.pc = "deciding" /\ job.valid = valid /\ job.batch = jobs[j].batch \ invalid
      BY <1>1 DEF Answered, Job
    <2>3. JobOK(job) /\ valid \subseteq job.batch
      BY <2>1, <2>2 DEF JobOK
    <2> HIDE DEF job
    <2>4. jobs' = [jobs EXCEPT ![j] = job] /\ job.batch \cup job.valid \subseteq Held(j)
      BY <2>1, <2>2 DEF job, Held
    <2>5. /\ \A t \in job.batch \cup job.valid : t \in job.batch /\ t \in jobs[j].batch
          /\ \A t \in jobs[j].batch \ job.batch : t \in invalid
      BY <2>2, <2>3
    <2>6. /\ stranded \subseteq stranded' /\ stranded' \subseteq Tasks
          /\ \A t \in jobs[j].batch \ job.batch : reviews'[t].status = "processing" => t \in stranded'
      BY <1>1, <1>3, <2>1, <2>5
    <2> QED
      BY <1>1, <1>2, <1>3, <1>4, <2>2, <2>3, <2>4, <2>5, <2>6, BatchStep DEF Answer
  <1>5. CASE NoAnswer(j)
    <2> DEFINE job == [jobs[j] EXCEPT !.pc = "deciding", !.failed = TRUE]
    <2>1. job \in Job /\ job.pc = "deciding" /\ job.valid = {} /\ job.batch = jobs[j].batch
      BY <1>1 DEF Job
    <2>2. JobOK(job)
      BY <2>1 DEF JobOK
    <2>3. jobs' = [jobs EXCEPT ![j] = job] /\ job.batch \cup job.valid \subseteq Held(j)
      BY <1>5, <2>1 DEF NoAnswer, Held
    <2> HIDE DEF job
    <2> QED
      BY <1>1, <1>2, <1>3, <1>5, <2>1, <2>2, <2>3, BatchStep DEF NoAnswer
  <1> QED
    BY <1>4, <1>5

\* What a decision makes of a task that its batch holds.
LEMMA AppliedOK ==
    ASSUME ReviewsInv, NEW t \in Tasks, NEW review \in Review, Applied(t, review)
    PROVE  /\ reviews' \in [Tasks -> Review] /\ SaveReviews
           /\ \A x \in Tasks \ {t} : reviews'[x] = reviews[x]
           /\ reviews'[t] = IF reviews[t].status = "pruned" THEN reviews[t] ELSE review
  BY DEF Applied, ReviewsInv, ReviewsTypeOK

LEMMA DecideKeepsInv ==
    ASSUME ReviewsInv, Watch, NEW j \in Jobs, NEW t \in Tasks, Decide(j, t)
    PROVE  ReviewsInv'
  <1>1. jobs[j] \in Job /\ jobs[j].pc = "deciding" /\ t \in Held(j)
    BY DEF Decide, Held, ReviewsInv, ReviewsTypeOK
  <1>2. PICK review \in Review, again \in BOOLEAN :
           /\ Applied(t, review) /\ jobs' = [jobs EXCEPT ![j] = Decided(jobs[j], t, again)]
           /\ review.status # "processing"
           /\ again => review.status \in {"reviewed", "skipped"} /\ t \in jobs[j].valid
    <2>1. \A verdict \in Verdicts : verdict \in Review /\ verdict.status \in {"reviewed", "skipped"}
      BY DEF Verdicts, Review, ReviewStatus
    <2>2. [status |-> "failed", item |-> "none"] \in Review
      BY DEF Review, ReviewStatus
    <2>3. CASE jobs[j].valid # {}
      BY <2>1, <2>3 DEF Decide, ReviewsInv, ReviewsTypeOK
    <2>4. CASE jobs[j].valid = {}
      BY <2>2, <2>4 DEF Decide, ReviewsInv, ReviewsTypeOK
    <2> QED
      BY <2>3, <2>4
  <1> DEFINE job == Decided(jobs[j], t, again)
  <1>3. /\ job \in Job /\ job.pc = "deciding" /\ job.batch = jobs[j].batch \ {t}
        /\ job.valid = IF again THEN jobs[j].valid ELSE jobs[j].valid \ {t}
    BY <1>1 DEF Decided, Job
  <1>4. JobOK(job)
    BY <1>3 DEF JobOK
  <1> HIDE DEF job
  <1>5. /\ reviews' \in [Tasks -> Review] /\ SaveReviews
        /\ \A x \in Tasks \ {t} : reviews'[x] = reviews[x]
        /\ reviews'[t] = IF reviews[t].status = "pruned" THEN reviews[t] ELSE review
    BY <1>2, AppliedOK
  <1>6. jobs' = [jobs EXCEPT ![j] = job] /\ job.batch \cup job.valid \subseteq Held(j)
    BY <1>2, <1>3 DEF job, Held
  <1>7. ASSUME NEW x \in job.batch \cup job.valid
        PROVE  reviews'[x].status \in
                 {"pruned"} \cup IF x \in job.batch THEN {"processing"} ELSE {"reviewed", "skipped"}
    <2>1. x \in Held(j) /\ x \in Tasks
      BY <1>1, <1>6 DEF Held, Job
    <2>2. CASE x = t
      BY <1>2, <1>3, <1>5, <2>2
    <2>3. CASE x # t
      <3>1. x \in jobs[j].batch <=> x \in job.batch
        BY <1>3, <2>3
      <3> QED
        BY <1>5, <2>1, <2>3, <3>1 DEF ReviewsInv, ClaimedOnce
    <2> QED
      BY <2>2, <2>3
  <1>8. /\ \A x \in Tasks : reviews'[x].status = "processing" => reviews[x].status = "processing"
        /\ \A x \in jobs[j].batch \ job.batch : reviews'[x].status # "processing"
    BY <1>2, <1>3, <1>5
  <1>9. stranded' = stranded /\ stranded \subseteq Tasks /\ UNCHANGED <<settled, locked, teacher>>
    BY DEF Decide, ReviewsInv, ReviewsTypeOK
  <1>10. \A x \in Tasks \ Held(j) : reviews'[x] = reviews[x]
    BY <1>1, <1>5
  <1> QED
    BY <1>1, <1>3, <1>4, <1>5, <1>6, <1>7, <1>8, <1>9, <1>10, BatchStep

-----------------------------------------------------------------------------
LEMMA ReopenKeepsInv == ASSUME ReviewsInv, Watch, ReopenReviews PROVE ReviewsInv'
  <1>1. file \in Files /\ file.reviews \in [Tasks -> Review] /\ file.teacher \in Teacher
    BY DEF ReviewsInv, ReviewsTypeOK, Files
  <1>2. reviews' \in [Tasks -> Review]
    BY <1>1 DEF ReopenReviews, Recovered, Review, ReviewStatus
  <1>3. \A j \in Jobs : jobs'[j] = NoJob
    BY DEF ReopenReviews
  <1>4. /\ teacher' \in Teacher /\ file' \in Files /\ file'.teacher \in {file.teacher, teacher'}
        /\ teacher' = file.teacher \/ teacher'.failures = 0
    BY <1>1, <1>2 DEF ReopenReviews, Saved, Files, Teacher
  <1>5. Saving' = {}
    BY <1>3, NoJobOK DEF Saving
  <1>6. Reset \/ Found
    BY <1>4, <1>5, ReviewsAssumption DEF Reset, Found, Failed
  <1>7. overtaken' \in BOOLEAN /\ TeacherInv'
    BY <1>6, TeacherMoves DEF ReviewsInv, ReviewsTypeOK, Watch
  <1>8. ReviewsTypeOK'
    BY <1>2, <1>4, <1>7, NoJobOK DEF ReopenReviews, Files, ReviewsInv, ReviewsTypeOK
  <1>9. ClaimedOnce' /\ NothingElseStranded'
    BY <1>3, NoJobOK DEF ReopenReviews, ClaimedOnce, Held, NothingElseStranded
  <1> QED
    BY <1>3, <1>7, <1>8, <1>9, NoJobOK DEF ReviewsInv

LEMMA StepOK == ReviewsInv /\ [ReviewsNext]_reviewVars => ReviewsInv'
  <1> SUFFICES ASSUME ReviewsInv, [ReviewsNext]_reviewVars
               PROVE  ReviewsInv'
    OBVIOUS
  <1>1. CASE UNCHANGED reviewVars
    BY <1>1 DEF reviewVars, ReviewsInv, ReviewsTypeOK, ClaimedOnce, Held, NothingElseStranded,
                TeacherInv, FailedTeacherLeaves, Failed, Saving
  <1>2. CASE ReopenReviews /\ Watch
    BY <1>2, ReopenKeepsInv
  <1>3. CASE Watch /\ \/ \E t \in Tasks : Add(t) \/ Settle(t)
                      \/ \E S \in SUBSET Tasks : PruneReviews(S)
                      \/ Unlock
    BY <1>3, RecordsKeepInv
  <1>4. ASSUME NEW j \in Jobs, JobStep(j), Watch
        PROVE  ReviewsInv'
    BY <1>4, TeacherKeepsInv, ClaimKeepsInv, AnswerKeepsInv, DecideKeepsInv DEF JobStep
  <1> QED
    BY <1>1, <1>2, <1>3, <1>4 DEF ReviewsNext, ReviewsStep

\* The invariant holds of the reviews under any interleaving of batches, prunes,
\* lost writes and restarts (review.go, reviewer.go, reviewer_config.go).
THEOREM ReviewsInvariant == ReviewsSpec => []ReviewsInv
  <1>1. ReviewsInit => ReviewsInv
    <2> SUFFICES ASSUME ReviewsInit
                 PROVE  ReviewsInv
      OBVIOUS
    <2>1. ReviewsTypeOK
      BY NoJobOK DEF ReviewsInit, ReviewsTypeOK, Review, ReviewStatus, Teacher
    <2>2. ClaimedOnce /\ NothingElseStranded /\ \A j \in Jobs : JobOK(jobs[j])
      BY NoJobOK DEF ReviewsInit, ClaimedOnce, Held, NothingElseStranded
    <2>3. TeacherInv
      BY ReviewsAssumption DEF ReviewsInit, TeacherInv, FailedTeacherLeaves, Failed
    <2> QED
      BY <2>1, <2>2, <2>3 DEF ReviewsInv
  <1> QED
    BY <1>1, StepOK, PTL DEF ReviewsSpec

\* Tasks, batches, the teacher and the files are well formed; no task ever has
\* a status that the code does not know.
THEOREM ReviewsTypes == ReviewsSpec => []ReviewsTypeOK
  <1>1. ReviewsInv => ReviewsTypeOK
    BY DEF ReviewsInv
  <1> QED
    BY <1>1, ReviewsInvariant, PTL

\* No two batches decide the same task, and no verdict is overwritten by another
\* batch (Claim, Apply, markFailed).
THEOREM DecidedOnce == ReviewsSpec => []ClaimedOnce
  <1>1. ReviewsInv => ClaimedOnce
    BY DEF ReviewsInv
  <1> QED
    BY <1>1, ReviewsInvariant, PTL

\* A task whose claim has no batch any more is one of the known exceptions
\* (invalid decisions, claims too young for RecoverProcessing).
THEOREM ClaimsEnd == ReviewsSpec => []NothingElseStranded
  <1>1. ReviewsInv => NothingElseStranded
    BY DEF ReviewsInv
  <1> QED
    BY <1>1, ReviewsInvariant, PTL

\* A teacher that failed too often is being dropped, and its count is in the
\* file only when a job that was saving an earlier change has taken it along
\* (Failure, Clear, persist).
THEOREM TeacherLeaves == ReviewsSpec => []FailedTeacherLeaves
  <1>1. ReviewsInv => FailedTeacherLeaves
    BY DEF ReviewsInv, TeacherInv
  <1> QED
    BY <1>1, ReviewsInvariant, PTL

-----------------------------------------------------------------------------
(* The store implements Verdicts.                                          *)

\* Only a reviewed task supports knowledge, in memory and in the file.
Judged(image) == \A t \in Tasks : image[t].item # "none" => image[t].status = "reviewed"
JudgedInv == Judged(reviews) /\ Judged(file.reviews)

\* What Verdicts sees of the memory and of the file.
seen == Seen(reviews)
filed == Seen(file.reviews)

Follows == Store!VerdictsStep \/ Store!Reload \/ UNCHANGED <<seen, filed>>

LEMMA SavedSeen ==
    ASSUME ReviewsInv, JudgedInv, reviews' \in [Tasks -> Review], Judged(reviews'),
           file'.reviews = file.reviews \/ SaveReviews
    PROVE  JudgedInv' /\ filed' \in {filed, seen'}
  <1>1. file'.reviews \in {file.reviews, reviews'}
    BY DEF SaveReviews, Saved, ReviewsInv, ReviewsTypeOK
  <1> QED
    BY <1>1 DEF JudgedInv, seen, filed

\* A step after which the same is seen, saved or not.
LEMMA SameSeen ==
    ASSUME ReviewsInv, JudgedInv, reviews' \in [Tasks -> Review], Judged(reviews'), seen' = seen,
           file'.reviews = file.reviews \/ SaveReviews
    PROVE  JudgedInv' /\ Follows
  <1>1. JudgedInv' /\ filed' \in {filed, seen'}
    BY SavedSeen
  <1>2. seen' = [t \in Tasks |-> IF t \in {} THEN Store!NoSource ELSE seen[t]]
    BY DEF seen, Seen
  <1>3. Store!Prune({})
    BY <1>1, <1>2 DEF Store!Prune, Store!Save, seen, filed
  <1> QED
    BY <1>1, <1>3 DEF Follows, Store!VerdictsStep

LEMMA RecordsFollow ==
    ASSUME ReviewsInv, JudgedInv,
           \/ \E t \in Tasks : Add(t) \/ Settle(t)
           \/ \E S \in SUBSET Tasks : PruneReviews(S)
           \/ Unlock
    PROVE  JudgedInv' /\ Follows
  <1> USE DEF ReviewsInv, ReviewsTypeOK
  <1>1. ASSUME NEW t \in Tasks, Add(t)
        PROVE  JudgedInv' /\ Follows
    <2>1. /\ reviews[t] \in Review /\ reviews[t].status = "none" /\ reviews[t].item = "none"
          /\ reviews' = [reviews EXCEPT ![t] = [status |-> "pending", item |-> "none"]]
      <3>1. reviews[t] \in Review /\ reviews[t].status = "none" /\ reviews[t].item = "none"
        BY <1>1 DEF Add, JudgedInv, Judged
      <3>2. [reviews[t] EXCEPT !.status = "pending"] = [status |-> "pending", item |-> "none"]
        BY <3>1 DEF Review
      <3> QED
        BY <1>1, <3>1, <3>2 DEF Add
    <2>2. reviews' \in [Tasks -> Review] /\ Judged(reviews')
      BY <2>1 DEF Review, ReviewStatus, JudgedInv, Judged
    <2>3. seen' = [seen EXCEPT ![t] = [kept |-> TRUE, item |-> "none"]] /\ seen[t] = Store!NoSource
      BY <2>1 DEF seen, Seen, Store!NoSource
    <2>4. JudgedInv' /\ filed' \in {filed, seen'}
      BY <1>1, <2>2, SavedSeen DEF Add
    <2>5. Store!Record(t)
      BY <2>3, <2>4 DEF Store!Record, Store!Save, seen, filed
    <2> QED
      BY <2>4, <2>5 DEF Follows, Store!VerdictsStep
  <1>2. ASSUME NEW t \in Tasks, Settle(t)
        PROVE  JudgedInv' /\ Follows
    BY <1>2 DEF Settle, JudgedInv, Follows, seen, filed
  <1>3. ASSUME NEW S \in SUBSET Tasks, PruneReviews(S)
        PROVE  JudgedInv' /\ Follows
    <2>1. reviews' = [t \in Tasks |-> IF t \in S THEN [status |-> "pruned", item |-> "none"]
                                                 ELSE reviews[t]]
      BY <1>3 DEF PruneReviews
    <2>2. reviews' \in [Tasks -> Review] /\ Judged(reviews')
      BY <2>1 DEF Review, ReviewStatus, JudgedInv, Judged
    <2>3. seen' = [t \in Tasks |-> IF t \in S THEN Store!NoSource ELSE seen[t]]
      BY <2>1 DEF seen, Seen, Store!NoSource
    <2>4. JudgedInv' /\ filed' \in {filed, seen'}
      BY <1>3, <2>2, SavedSeen DEF PruneReviews
    <2>5. Store!Prune(S)
      BY <2>3, <2>4 DEF Store!Prune, Store!Save, seen, filed
    <2> QED
      BY <2>4, <2>5 DEF Follows, Store!VerdictsStep
  <1>4. CASE Unlock
    BY <1>4, SameSeen DEF Unlock, JudgedInv, seen
  <1> QED
    BY <1>1, <1>2, <1>3, <1>4

\* Whatever a batch or an administrator does about the teacher is not seen.
LEMMA ReportUnseen ==
    ASSUME ReviewsInv, NEW j \in Jobs,
           \/ Report(j, FALSE) \/ Report(j, TRUE) \/ (\E limit \in {1, FailureLimit} : Failure(j, limit))
           \/ SaveTeacher(j)
    PROVE  file'.reviews = file.reviews
  <1>1. SaveTeacher(j) => file'.reviews = file.reviews
    BY DEF SaveTeacher, Saved, ReviewsInv, ReviewsTypeOK
  <1> QED
    BY <1>1 DEF Report, Failure, Success

LEMMA JobsFollow ==
    ASSUME ReviewsInv, JudgedInv, NEW j \in Jobs, JobStep(j)
    PROVE  JudgedInv' /\ Follows
  <1> USE DEF ReviewsInv, ReviewsTypeOK
  <1>1. CASE \/ Refused(j) \/ EndJob(j) \/ Drop(j) \/ SaveTeacher(j)
             \/ \E model \in Teachers \cup {"none"} : Select(j, model)
    <2>1. reviews' = reviews
      BY <1>1 DEF Refused, EndJob, Drop, SaveTeacher, Select
    <2>2. file'.reviews = file.reviews
      <3>1. jobs[j].failed \in BOOLEAN
        BY DEF Job
      <3> QED
        BY <1>1, <3>1, ReportUnseen DEF Refused, EndJob, Drop, Select
    <2> QED
      BY <2>1, <2>2 DEF JudgedInv, Follows, seen, filed
  <1>2. CASE Answer(j) \/ NoAnswer(j)
    BY <1>2 DEF Answer, NoAnswer, JudgedInv, Follows, seen, filed
  <1>3. CASE Claim(j)
    <2>1. file'.reviews = file.reviews
      BY <1>3, ReportUnseen DEF Claim
    <2>2. PICK S \in SUBSET Claimable(Tasks) :
             reviews' = [t \in Tasks |-> IF t \in S THEN [reviews[t] EXCEPT !.status = "processing"]
                                                    ELSE reviews[t]]
      <3>1. CASE locked
        <4>1. reviews' = [t \in Tasks |-> IF t \in {} THEN [reviews[t] EXCEPT !.status = "processing"]
                                                      ELSE reviews[t]]
          BY <1>3, <3>1 DEF Claim
        <4>2. {} \in SUBSET Claimable(Tasks)
          OBVIOUS
        <4> WITNESS {} \in SUBSET Claimable(Tasks)
        <4> QED
          BY <4>1
      <3>2. CASE ~locked
        <4>1. \A T \in SUBSET Tasks : Claimable(T) \subseteq Claimable(Tasks)
          BY DEF Claimable
        <4> QED
          BY <1>3, <3>2, <4>1 DEF Claim
      <3> QED
        BY <3>1, <3>2
    <2>3. \A t \in S : reviews[t].status \in {"pending", "failed"}
      BY DEF Claimable
    <2>4. \A t \in Tasks : /\ reviews[t] \in Review /\ reviews'[t] \in Review
                           /\ reviews'[t].item = reviews[t].item
                           /\ reviews'[t].status = IF t \in S THEN "processing" ELSE reviews[t].status
      BY <2>2 DEF Review, ReviewStatus
    <2>5. reviews' \in [Tasks -> Review]
      BY <2>2, <2>4
    <2>6. Judged(reviews') /\ seen' = seen
      BY <2>3, <2>4 DEF JudgedInv, Judged, seen, Seen
    <2> QED
      BY <2>1, <2>5, <2>6, SameSeen
  <1>4. ASSUME NEW t \in Tasks, Decide(j, t)
        PROVE  JudgedInv' /\ Follows
    <2>1. PICK review \in Verdicts \cup {[status |-> "failed", item |-> "none"]} : Applied(t, review)
      BY <1>4 DEF Decide
    <2>2. /\ review \in Review /\ review.status \notin {"none", "pruned"}
          /\ review.item # "none" => review.status = "reviewed"
          /\ review.item \in Items \cup {"none"}
      BY DEF Verdicts, Review, ReviewStatus
    <2>3. reviews' \in [Tasks -> Review] /\ SaveReviews
      BY <2>1, <2>2 DEF Applied
    <2>4. t \in Held(j)
      BY <1>4 DEF Decide, Held
    <2>5. reviews[t].status \in {"processing", "reviewed", "skipped", "pruned"}
      BY <2>4 DEF ClaimedOnce
    <2>6. CASE reviews[t].status = "pruned"
      BY <2>1, <2>3, <2>6, SameSeen DEF Applied, JudgedInv, seen
    <2>7. CASE reviews[t].status # "pruned"
      <3>1. reviews' = [reviews EXCEPT ![t] = review]
        BY <2>1, <2>7 DEF Applied
      <3>2. Judged(reviews')
        BY <2>2, <3>1 DEF JudgedInv, Judged
      <3>3. seen[t].kept /\ seen' = [seen EXCEPT ![t] = [kept |-> TRUE, item |-> review.item]]
        BY <2>2, <2>5, <2>7, <3>1 DEF seen, Seen
      <3>4. JudgedInv' /\ filed' \in {filed, seen'}
        BY <2>3, <3>2, SavedSeen
      <3>5. Store!Judge(t, review.item)
        BY <3>3, <3>4 DEF Store!Judge, Store!Save, seen, filed
      <3> QED
        BY <2>2, <3>4, <3>5 DEF Follows, Store!VerdictsStep
    <2> QED
      BY <2>6, <2>7
  <1> QED
    BY <1>1, <1>2, <1>3, <1>4 DEF JobStep

LEMMA ReopenFollows ==
    ASSUME ReviewsInv, JudgedInv, ReopenReviews
    PROVE  JudgedInv' /\ Follows
  <1>1. file.reviews \in [Tasks -> Review]
    BY DEF ReviewsInv, ReviewsTypeOK
  <1>2. \A t \in Tasks : /\ reviews'[t] \in Review /\ reviews'[t].item = file.reviews[t].item
                         /\ \/ reviews'[t].status = file.reviews[t].status
                            \/ file.reviews[t].status = "processing" /\ reviews'[t].status = "failed"
    BY <1>1 DEF ReopenReviews, Recovered, Review, ReviewStatus
  <1>3. reviews' \in [Tasks -> Review]
    BY <1>2 DEF ReopenReviews, Recovered
  <1>4. Judged(reviews') /\ seen' = filed
    BY <1>2 DEF JudgedInv, Judged, seen, filed, Seen
  <1>5. file'.reviews \in {file.reviews, reviews'}
    BY DEF ReopenReviews, Saved
  <1>6. JudgedInv' /\ filed' \in {filed, seen'}
    BY <1>4, <1>5 DEF JudgedInv, seen, filed
  <1>7. Store!Reload
    BY <1>4, <1>6 DEF Store!Reload, seen, filed
  <1> QED
    BY <1>6, <1>7 DEF Follows

LEMMA StepFollows ==
    ReviewsInv /\ JudgedInv /\ [ReviewsNext]_reviewVars => JudgedInv' /\ Follows
  <1> SUFFICES ASSUME ReviewsInv, JudgedInv, [ReviewsNext]_reviewVars
               PROVE  JudgedInv' /\ Follows
    OBVIOUS
  <1>1. CASE UNCHANGED reviewVars
    BY <1>1 DEF reviewVars, JudgedInv, Judged, Follows, seen, filed, Seen
  <1> QED
    BY <1>1, RecordsFollow, JobsFollow, ReopenFollows DEF ReviewsNext, ReviewsStep

\* The store of reviews implements what the evaluation expects of it: only
\* recorded tasks are judged, pruned ones are gone, and a restart finds an image
\* that was saved, whatever batches, prunes and lost writes do in between.
THEOREM ReviewsKeepVerdicts == ReviewsSpec => KeepsVerdicts
  <1>1. ReviewsInit => JudgedInv /\ Store!VerdictsInit
    <2> SUFFICES ASSUME ReviewsInit
                 PROVE  JudgedInv /\ Store!VerdictsInit
      OBVIOUS
    <2>1. file.reviews = reviews /\ \A t \in Tasks : reviews[t] = [status |-> "none", item |-> "none"]
      BY DEF ReviewsInit
    <2>2. JudgedInv
      BY <2>1 DEF JudgedInv, Judged
    <2>3. Seen(reviews) = [t \in Tasks |-> Store!NoSource]
      <3>1. ASSUME NEW t \in Tasks
            PROVE  reviews[t].item = "none" /\ (reviews[t].status \notin {"none", "pruned"}) = FALSE
        <4>1. reviews[t].item = "none" /\ reviews[t].status = "none"
          BY <2>1
        <4> QED
          BY <4>1, Zenon
      <3> QED
        BY <3>1, Zenon DEF Seen, Store!NoSource
    <2> QED
      BY <2>1, <2>2, <2>3 DEF Store!VerdictsInit
  <1>2. ReviewsInv /\ JudgedInv /\ [ReviewsNext]_reviewVars =>
           JudgedInv' /\ [Store!VerdictsStep \/ Store!Reload]_<<seen, filed>>
    BY StepFollows DEF Follows
  <1> QED
    BY <1>1, <1>2, ReviewsInvariant, PTL DEF ReviewsSpec, KeepsVerdicts, Store!VerdictsSpec, seen, filed

=============================================================================
