---------------------------- MODULE MCEvaluation ----------------------------
(***************************************************************************)
(* Reviews, what becomes of their verdicts, and batches of probes, side by *)
(* side.  A behaviour is about one part, so that the state graphs of the   *)
(* parts are added and not multiplied: the reviews, by the worker and one  *)
(* administrator; their teacher, in the hands of two administrators; the   *)
(* knowledge and single replays; batches of replays for knowledge that an  *)
(* administrator has come to trust, and that stays trusted (a replay may   *)
(* be refused all the same), and whose results are not pruned; or the      *)
(* probes.                                                                 *)
(***************************************************************************)
EXTENDS Reviews, Shadow, ProbeBatch

VARIABLE part

mcVars == <<reviewVars, vars, probeVars, part>>

Trusted(k) == [k EXCEPT !.status = "trusted"]

MCShadowInit ==
    IF part # "batches" THEN Init
    ELSE /\ source = [t \in Tasks |-> [kept |-> TRUE, item |-> CHOOSE k \in Items : TRUE]]
         /\ saved = source
         /\ know = [k \in Items |-> [status |-> "trusted", sources |-> Tasks, ids |-> {},
                                     samples |-> 0, good |-> 0, expires |-> FALSE]]
         /\ shadow = [id \in Replay |-> "none"]
         /\ batches = [b \in Batches |-> NoBatch]
         /\ kept = [know |-> know, batches |-> batches, shadow |-> shadow]
         /\ calls = [c \in Runners \cup Callers |-> NoCall]
         /\ runners = [r \in Runners |-> NoRun]
         /\ admins = [a \in Admins |-> NoTask]
         /\ vouched = Items /\ cut = {} /\ crossed = {} /\ retries = 0

MCInit ==
    /\ part \in {"reviews", "teacher", "knowledge", "batches", "probes"}
    /\ ReviewsInit /\ MCShadowInit /\ ProbesInit

\* Two administrators may be about to retry a batch, and both look at it before
\* either does; one decides on knowledge.
Lead == CHOOSE a \in Admins : TRUE

Focus ==
    \/ part = "knowledge" /\ UNCHANGED batches /\ \A a \in Admins \ {Lead} : admins'[a] = NoTask
    \/ /\ part = "batches" /\ source' = source
       /\ kept'.know = know'
       /\ \A k \in Items : know'[k].status = know[k].status /\ know'[k].ids \cap Manual = {}
       /\ \A id \in Replay : shadow[id] # "none" => shadow'[id] # "none"
       /\ \A a \in Admins : admins'[a] \in {admins[a], NoTask} \/ (admins'[a].does = "retry" /\ retries = 0)
       /\ \A c \in Callers : calls'[c] = NoCall
       /\ \A r \in Runners : calls'[r].pc = "answered" => calls'[r].good

\* The administrator who works on the reviews, beside the worker.
Reviewer == CHOOSE j \in Jobs \ {Worker} : TRUE

ReviewsFocus ==
    \/ part = "reviews" /\ \A j \in Jobs \ {Worker, Reviewer} : jobs'[j] = NoJob
    \/ part = "teacher" /\ jobs'[Worker] = NoJob /\ UNCHANGED <<reviews, settled>>

MCNext ==
    \/ ReviewsNext /\ ReviewsFocus /\ UNCHANGED <<vars, probeVars, part>>
    \/ Next /\ Focus /\ UNCHANGED <<reviewVars, probeVars, part>>
    \/ part = "probes" /\ ProbesNext /\ UNCHANGED <<reviewVars, vars, part>>

MCFairness ==
    \A r \in Runners :
        WF_mcVars(RunnerStep(r) /\ UNCHANGED <<source, saved, reviewVars, probeVars, part>>)

MCSpec == MCInit /\ [][MCNext]_mcVars /\ MCFairness

=============================================================================
