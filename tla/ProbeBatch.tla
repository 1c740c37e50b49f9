----------------------------- MODULE ProbeBatch -----------------------------
(***************************************************************************)
(* Batches of capability probes (internal/api/native_probe_batch.go).      *)
(*                                                                         *)
(* A batch is a goroutine per target.  Each waits for one of the slots of  *)
(* its batch, probes its target, gives the slot back and counts under the  *)
(* lock; one more goroutine waits for all of them, closes the batch and    *)
(* adds it to the history, the only part that is kept in a file.  Batches  *)
(* run side by side, each with slots of its own, and none can be stopped.  *)
(*                                                                         *)
(* A probe is its outcome, good or bad, and ends with its timeout of 45    *)
(* seconds; what it stores in the catalogue is modelled in Catalog.  Which *)
(* targets validate accepts depends on the catalogue and on the registry   *)
(* and is left open.                                                       *)
(***************************************************************************)
EXTENDS Naturals, FiniteSets, Sequences

CONSTANTS
    Targets,     \* models that can be probed
    ProbeJobs,   \* bound: batches in the life of a process
    Slots,       \* capacity of run's semaphore (4)
    HistoryLimit \* batches the history keeps (100)

ASSUME ProbeBatchAssumption ==
    IsFiniteSet(Targets) /\ Slots \in Nat \ {0} /\ HistoryLimit \in Nat \ {0}

VARIABLES
    probes,  \* ProbeBatchRuntime.jobs
    history, \* ProbeBatchRuntime.history
    written  \* probe-history-xing-shu.json

probeVars == <<probes, history, written>>

Outcome == [target : Targets, ok : BOOLEAN]
NoProbes == [status |-> "none"]
Probes == [status : {"running", "completed"}, total : Nat,
           waiting : SUBSET Targets,  \* goroutines without a slot
           asking : SUBSET Targets,   \* ... that probe
           answered : SUBSET Outcome, \* ... that have yet to count
           results : SUBSET Outcome, completed : Nat, failed : Nat,
           free : Nat]                \* free slots
Entry == [total : Nat, completed : Nat, failed : Nat]

ProbesTypeOK ==
    /\ probes \in [ProbeJobs -> Probes \cup {NoProbes}]
    /\ history \in Seq(Entry) /\ Len(history) <= HistoryLimit
    /\ written \in Seq(Entry) /\ Len(written) <= HistoryLimit

ProbesInit ==
    /\ probes = [b \in ProbeJobs |-> NoProbes]
    /\ history = <<>> /\ written = <<>>

Running(b) == probes[b].status = "running"

\* A batch of the targets T.
Started(T) ==
    [status |-> "running", total |-> Cardinality(T), waiting |-> T, asking |-> {}, answered |-> {},
     results |-> {}, completed |-> 0, failed |-> 0, free |-> Slots]

\* Start, once validate has accepted the targets.
StartProbes(b, T) ==
    /\ probes[b] = NoProbes /\ T # {}
    /\ probes' = [probes EXCEPT ![b] = Started(T)]
    /\ UNCHANGED <<history, written>>

Asked(job, t) == [job EXCEPT !.waiting = @ \ {t}, !.asking = @ \cup {t}, !.free = @ - 1]

TakeSlot(b, t) ==
    /\ Running(b) /\ t \in probes[b].waiting /\ probes[b].free > 0
    /\ probes' = [probes EXCEPT ![b] = Asked(@, t)]
    /\ UNCHANGED <<history, written>>

\* Mutant: only a probe that ends well gives its slot back.
EndedKeepingSlot(job, o) ==
    [job EXCEPT !.asking = @ \ {o.target}, !.answered = @ \cup {o}, !.free = IF o.ok THEN @ + 1 ELSE @]

Ended(job, o) == [job EXCEPT !.asking = @ \ {o.target}, !.answered = @ \cup {o}, !.free = @ + 1]

\* probeOne returns, well or not.
EndProbe(b, o) ==
    /\ Running(b) /\ o.target \in probes[b].asking
    /\ probes' = [probes EXCEPT ![b] = Ended(@, o)]
    /\ UNCHANGED <<history, written>>

Counted(job, o) ==
    [job EXCEPT !.answered = @ \ {o}, !.results = @ \cup {o}, !.completed = @ + 1,
                !.failed = IF o.ok THEN @ ELSE @ + 1]

CountProbe(b, o) ==
    /\ Running(b) /\ o \in probes[b].answered
    /\ probes' = [probes EXCEPT ![b] = Counted(@, o)]
    /\ UNCHANGED <<history, written>>

\* Mutant: a history that is full grows by one more.
KeptOneMore(items) == SubSeq(items, IF Len(items) > HistoryLimit + 1 THEN 2 ELSE 1, Len(items))

Kept(items) == SubSeq(items, IF Len(items) > HistoryLimit THEN Len(items) - HistoryLimit + 1 ELSE 1, Len(items))

EntryOf(job) == [total |-> job.total, completed |-> job.completed, failed |-> job.failed]

Close(b, saved) ==
    /\ probes' = [probes EXCEPT ![b].status = "completed"]
    /\ history' = Kept(Append(history, EntryOf(probes[b])))
    /\ written' = IF saved THEN history' ELSE written

\* Mutant: a goroutine is done before it has counted.
CloseEarly(b, saved) ==
    /\ Running(b) /\ probes[b].waiting \cup probes[b].asking = {}
    /\ Close(b, saved)

\* run, when all goroutines are done; saveLocked may fail.
CloseProbes(b, saved) ==
    /\ Running(b) /\ probes[b].waiting \cup probes[b].asking = {} /\ probes[b].answered = {}
    /\ Close(b, saved)

\* NewProbeBatchRuntime: a batch that ran is forgotten.
ReopenProbes ==
    /\ probes' = [b \in ProbeJobs |-> NoProbes]
    /\ history' = written /\ written' = written

ProbesNext ==
    \/ \E b \in ProbeJobs :
          \/ \E T \in SUBSET Targets : StartProbes(b, T)
          \/ \E t \in Targets : TakeSlot(b, t)
          \/ \E o \in Outcome : EndProbe(b, o) \/ CountProbe(b, o)
          \/ \E saved \in BOOLEAN : CloseProbes(b, saved)
    \/ ReopenProbes

ProbesSpec == ProbesInit /\ [][ProbesNext]_probeVars

------------------------------------------------------------------------------
\* Progress adds up whatever order the probes end in: every target of a batch is
\* waiting, probed, about to be counted or counted, once; no slot is lost or used
\* twice, so that nobody waits for a slot that nobody gives back; and what the
\* history and its file say of a batch is about all of its targets, although the
\* goroutine that writes it is not one of those that count.
ProbesAddUp ==
    /\ \A b \in ProbeJobs : probes[b] # NoProbes =>
          LET job == probes[b] IN
          /\ job.completed = Cardinality(job.results)
          /\ job.failed = Cardinality({o \in job.results : ~o.ok})
          /\ Cardinality(job.waiting) + Cardinality(job.asking) + Cardinality(job.answered)
                + job.completed = job.total
          /\ job.free + Cardinality(job.asking) = Slots
    /\ \A items \in {history, written} : \A i \in 1..Len(items) :
          items[i].completed = items[i].total /\ items[i].failed <= items[i].total

=============================================================================
