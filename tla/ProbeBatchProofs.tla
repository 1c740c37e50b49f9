-------------------------- MODULE ProbeBatchProofs --------------------------
(***************************************************************************)
(* Theorems about ProbeBatch, for any finite set of targets, any number of *)
(* batches at a time, any number of slots and any length of the history.   *)
(***************************************************************************)
EXTENDS ProbeBatch, FiniteSetTheorems, SequenceTheorems, TLAPS

Bad(outcomes) == {o \in outcomes : ~o.ok}

\* A target is in one place at a time, and the counters count the places.
Fits(job) ==
    /\ IsFiniteSet(job.waiting) /\ IsFiniteSet(job.asking)
    /\ IsFiniteSet(job.answered) /\ IsFiniteSet(job.results)
    /\ job.waiting \cap job.asking = {} /\ job.answered \cap job.results = {}
    /\ \A o \in job.answered \cup job.results : o.target \notin job.waiting \cup job.asking
    /\ job.completed = Cardinality(job.results)
    /\ job.failed = Cardinality(Bad(job.results))
    /\ Cardinality(job.waiting) + Cardinality(job.asking) + Cardinality(job.answered)
          + job.completed = job.total
    /\ job.free + Cardinality(job.asking) = Slots

Whole(entry) == entry.completed = entry.total /\ entry.failed <= entry.total

ProbesInv ==
    /\ ProbesTypeOK
    /\ \A b \in ProbeJobs : probes[b] # NoProbes => Fits(probes[b])
    /\ \A items \in {history, written} : \A i \in 1..Len(items) : Whole(items[i])

-----------------------------------------------------------------------------
(* One batch.                                                              *)

\* A batch begins with all of its targets waiting and all of its slots free.
LEMMA StartedFits ==
    ASSUME NEW T \in SUBSET Targets
    PROVE  Started(T) \in Probes /\ Fits(Started(T))
  <1>1. IsFiniteSet(T) /\ Cardinality(T) \in Nat
    BY ProbeBatchAssumption, FS_Subset, FS_CardinalityType
  <1>2. IsFiniteSet({}) /\ Cardinality({}) = 0 /\ Bad({}) = {}
    BY FS_EmptySet DEF Bad
  <1>3. Started(T) \in Probes
    BY <1>1, ProbeBatchAssumption DEF Started, Probes
  <1> QED
    BY <1>1, <1>2, <1>3, ProbeBatchAssumption DEF Started, Fits

\* What the sizes of the places are, as numbers.
LEMMA Sizes ==
    ASSUME NEW job \in Probes, Fits(job)
    PROVE  /\ Cardinality(job.waiting) \in Nat /\ Cardinality(job.asking) \in Nat
           /\ Cardinality(job.answered) \in Nat /\ Cardinality(job.results) \in Nat
           /\ IsFiniteSet(Bad(job.results)) /\ Cardinality(Bad(job.results)) \in Nat
           /\ Cardinality(Bad(job.results)) <= Cardinality(job.results)
  <1>1. Bad(job.results) \in SUBSET job.results
    BY DEF Bad
  <1> QED
    BY <1>1, FS_CardinalityType, FS_Subset DEF Fits

\* One more, one less.
LEMMA OneLess ==
    ASSUME NEW S, IsFiniteSet(S), NEW x \in S
    PROVE  IsFiniteSet(S \ {x}) /\ Cardinality(S \ {x}) = Cardinality(S) - 1
  BY FS_RemoveElement

LEMMA OneMore ==
    ASSUME NEW S, IsFiniteSet(S), NEW x, x \notin S
    PROVE  IsFiniteSet(S \cup {x}) /\ Cardinality(S \cup {x}) = Cardinality(S) + 1
  BY FS_AddElement

\* The fields of a batch.
LEMMA Fields ==
    ASSUME NEW job \in Probes
    PROVE  /\ job.status \in {"running", "completed"} /\ job.total \in Nat
           /\ job.waiting \in SUBSET Targets /\ job.asking \in SUBSET Targets
           /\ job.answered \in SUBSET Outcome /\ job.results \in SUBSET Outcome
           /\ job.completed \in Nat /\ job.failed \in Nat /\ job.free \in Nat
  BY DEF Probes

\* A goroutine moves from the queue to a slot.
LEMMA AskedFits ==
    ASSUME NEW job \in Probes, Fits(job), NEW t \in job.waiting, job.free > 0
    PROVE  Asked(job, t) \in Probes /\ Fits(Asked(job, t))
  <1> DEFINE new == Asked(job, t)
  <1>1. /\ new.waiting = job.waiting \ {t} /\ new.asking = job.asking \cup {t}
        /\ new.free = job.free - 1 /\ new.answered = job.answered /\ new.results = job.results
        /\ new.completed = job.completed /\ new.failed = job.failed /\ new.total = job.total
    BY DEF Asked, Probes
  <1>2. new \in Probes
    <2>1. /\ job.waiting \ {t} \in SUBSET Targets /\ job.asking \cup {t} \in SUBSET Targets
          /\ job.free - 1 \in Nat
      BY Fields
    <2>2. \A w, a \in SUBSET Targets, n \in Nat :
             [job EXCEPT !.waiting = w, !.asking = a, !.free = n] \in Probes
      BY DEF Probes
    <2> QED
      BY <2>1, <2>2 DEF Asked
  <1> HIDE DEF new
  <1>3. t \notin job.asking /\ IsFiniteSet(job.waiting) /\ IsFiniteSet(job.asking)
    BY DEF Fits
  <1>4. /\ IsFiniteSet(new.waiting) /\ Cardinality(new.waiting) = Cardinality(job.waiting) - 1
        /\ IsFiniteSet(new.asking) /\ Cardinality(new.asking) = Cardinality(job.asking) + 1
    BY <1>1, <1>3, OneMore, OneLess
  <1>5. new.waiting \cap new.asking = {} /\ new.waiting \cup new.asking = job.waiting \cup job.asking
    BY <1>1 DEF Fits
  <1>6. /\ Cardinality(new.waiting) + Cardinality(new.asking) + Cardinality(new.answered)
              + new.completed = new.total
        /\ new.free + Cardinality(new.asking) = Slots
    BY <1>1, <1>4, Sizes, Fields, ProbeBatchAssumption DEF Fits
  <1>7. /\ new.answered \cap new.results = {}
        /\ \A o \in new.answered \cup new.results : o.target \notin new.waiting \cup new.asking
    BY <1>1, <1>5 DEF Fits
  <1>8. /\ IsFiniteSet(new.answered) /\ IsFiniteSet(new.results)
        /\ new.completed = Cardinality(new.results) /\ new.failed = Cardinality(Bad(new.results))
    BY <1>1 DEF Fits
  <1>9. Fits(new)
    BY <1>4, <1>5, <1>6, <1>7, <1>8 DEF Fits
  <1> QED
    BY <1>2, <1>9 DEF new

\* ... from its slot to the lock.
LEMMA EndedFits ==
    ASSUME NEW job \in Probes, Fits(job), NEW o \in Outcome, o.target \in job.asking
    PROVE  Ended(job, o) \in Probes /\ Fits(Ended(job, o))
  <1> DEFINE new == Ended(job, o)
  <1>1. /\ new.asking = job.asking \ {o.target} /\ new.answered = job.answered \cup {o}
        /\ new.free = job.free + 1 /\ new.waiting = job.waiting /\ new.results = job.results
        /\ new.completed = job.completed /\ new.failed = job.failed /\ new.total = job.total
    BY DEF Ended, Probes
  <1>2. new \in Probes
    <2>1. /\ job.asking \ {o.target} \in SUBSET Targets
          /\ job.answered \cup {o} \in SUBSET Outcome /\ job.free + 1 \in Nat
      BY Fields
    <2>2. \A a \in SUBSET Targets, r \in SUBSET Outcome, n \in Nat :
             [job EXCEPT !.asking = a, !.answered = r, !.free = n] \in Probes
      BY DEF Probes
    <2> QED
      BY <2>1, <2>2 DEF Ended
  <1> HIDE DEF new
  <1>3. /\ o \notin job.answered /\ o \notin job.results /\ o.target \notin job.waiting
        /\ IsFiniteSet(job.asking) /\ IsFiniteSet(job.answered)
    BY DEF Fits
  <1>4. /\ IsFiniteSet(new.asking) /\ Cardinality(new.asking) = Cardinality(job.asking) - 1
        /\ IsFiniteSet(new.answered) /\ Cardinality(new.answered) = Cardinality(job.answered) + 1
    BY <1>1, <1>3, OneMore, OneLess
  <1>5. /\ new.waiting \cap new.asking = {} /\ new.answered \cap new.results = {}
        /\ \A x \in new.answered \cup new.results : x.target \notin new.waiting \cup new.asking
    BY <1>1, <1>3 DEF Fits
  <1>6. /\ Cardinality(new.waiting) + Cardinality(new.asking) + Cardinality(new.answered)
              + new.completed = new.total
        /\ new.free + Cardinality(new.asking) = Slots
    BY <1>1, <1>4, Sizes, Fields, ProbeBatchAssumption DEF Fits
  <1>7. /\ IsFiniteSet(new.waiting) /\ IsFiniteSet(new.results)
        /\ new.completed = Cardinality(new.results) /\ new.failed = Cardinality(Bad(new.results))
    BY <1>1 DEF Fits
  <1>8. Fits(new)
    BY <1>4, <1>5, <1>6, <1>7 DEF Fits
  <1> QED
    BY <1>2, <1>8 DEF new

\* ... and is counted.
LEMMA CountedFits ==
    ASSUME NEW job \in Probes, Fits(job), NEW o \in job.answered
    PROVE  Counted(job, o) \in Probes /\ Fits(Counted(job, o))
  <1> DEFINE new == Counted(job, o)
  <1>1. /\ new.answered = job.answered \ {o} /\ new.results = job.results \cup {o}
        /\ new.completed = job.completed + 1
        /\ new.failed = IF o.ok THEN job.failed ELSE job.failed + 1
        /\ new.free = job.free /\ new.waiting = job.waiting /\ new.asking = job.asking
        /\ new.total = job.total
    BY DEF Counted, Probes
  <1>2. new \in Probes
    <2>1. /\ job.answered \ {o} \in SUBSET Outcome /\ job.results \cup {o} \in SUBSET Outcome
          /\ job.completed + 1 \in Nat /\ (IF o.ok THEN job.failed ELSE job.failed + 1) \in Nat
      BY Fields
    <2>2. \A a, r \in SUBSET Outcome, c, f \in Nat :
             [job EXCEPT !.answered = a, !.results = r, !.completed = c, !.failed = f] \in Probes
      BY DEF Probes
    <2> QED
      BY <2>1, <2>2 DEF Counted
  <1> HIDE DEF new
  <1>3. o \notin job.results /\ IsFiniteSet(job.answered) /\ IsFiniteSet(job.results)
    BY DEF Fits
  <1>4. /\ IsFiniteSet(new.answered) /\ Cardinality(new.answered) = Cardinality(job.answered) - 1
        /\ IsFiniteSet(new.results) /\ Cardinality(new.results) = Cardinality(job.results) + 1
    BY <1>1, <1>3, OneMore, OneLess
  <1>5. Cardinality(Bad(new.results)) = new.failed
    <2>1. CASE o.ok
      <3>1. Bad(new.results) = Bad(job.results)
        BY <1>1, <2>1 DEF Bad
      <3> QED
        BY <1>1, <2>1, <3>1 DEF Fits
    <2>2. CASE ~o.ok
      <3>1. Bad(new.results) = Bad(job.results) \cup {o} /\ o \notin Bad(job.results)
        BY <1>1, <1>3, <2>2 DEF Bad
      <3>2. Cardinality(Bad(job.results) \cup {o}) = Cardinality(Bad(job.results)) + 1
        BY <3>1, Sizes, OneMore
      <3> QED
        BY <1>1, <2>2, <3>1, <3>2 DEF Fits
    <2> QED
      BY <2>1, <2>2
  <1>6. /\ new.answered \cap new.results = {}
        /\ new.answered \cup new.results = job.answered \cup job.results
    BY <1>1 DEF Fits
  <1>7. /\ new.completed = Cardinality(new.results)
        /\ Cardinality(new.waiting) + Cardinality(new.asking) + Cardinality(new.answered)
              + new.completed = new.total
        /\ new.free + Cardinality(new.asking) = Slots
    BY <1>1, <1>4, Sizes, Fields, ProbeBatchAssumption DEF Fits
  <1>8. /\ IsFiniteSet(new.waiting) /\ IsFiniteSet(new.asking) /\ new.waiting \cap new.asking = {}
        /\ \A x \in new.answered \cup new.results : x.target \notin new.waiting \cup new.asking
    BY <1>1, <1>6 DEF Fits
  <1>9. Fits(new)
    BY <1>4, <1>5, <1>6, <1>7, <1>8 DEF Fits
  <1> QED
    BY <1>2, <1>9 DEF new

-----------------------------------------------------------------------------
(* The history.                                                            *)

\* What is kept is the end of what there was, and no more than the limit.
LEMMA KeptOK ==
    ASSUME NEW items \in Seq(Entry), \A i \in 1..Len(items) : Whole(items[i])
    PROVE  /\ Kept(items) \in Seq(Entry) /\ Len(Kept(items)) <= HistoryLimit
           /\ \A i \in 1..Len(Kept(items)) : Whole(Kept(items)[i])
  <1> DEFINE n == Len(items)
             first == IF n > HistoryLimit THEN n - HistoryLimit + 1 ELSE 1
  <1>1. n \in Nat /\ first \in Nat \ {0} /\ n - first + 1 <= HistoryLimit
    BY ProbeBatchAssumption
  <1>2. \A i \in first..n : items[i] \in Entry /\ Whole(items[i])
    BY <1>1
  <1>3. /\ Kept(items) \in Seq(Entry)
        /\ Len(Kept(items)) = IF first <= n THEN n - first + 1 ELSE 0
        /\ \A i \in 1..(n - first + 1) : Kept(items)[i] = items[first + i - 1]
    BY <1>1, <1>2, SubSeqProperties DEF Kept
  <1>4. Len(Kept(items)) <= HistoryLimit
    BY <1>1, <1>3, ProbeBatchAssumption
  <1>5. ASSUME NEW i \in 1..Len(Kept(items))
        PROVE  Whole(Kept(items)[i])
    <2>1. i \in 1..(n - first + 1) /\ first + i - 1 \in first..n
      BY <1>1, <1>3
    <2> QED
      BY <1>2, <1>3, <2>1
  <1> QED
    BY <1>3, <1>4, <1>5

\* What a batch that is over leaves in the history is about all of its targets.
LEMMA EntryWhole ==
    ASSUME NEW job \in Probes, Fits(job), job.waiting \cup job.asking = {}, job.answered = {}
    PROVE  EntryOf(job) \in Entry /\ Whole(EntryOf(job))
  <1>1. EntryOf(job) \in Entry
    BY DEF EntryOf, Entry, Probes
  <1>2. job.waiting = {} /\ job.asking = {} /\ Cardinality({}) = 0
    BY FS_EmptySet
  <1>3. job.completed = job.total /\ job.failed <= job.total
    BY <1>2, Sizes DEF Fits, Probes
  <1> QED
    BY <1>1, <1>3 DEF Whole, EntryOf

-----------------------------------------------------------------------------
\* A step of one batch that writes nothing.
LEMMA JobStepOK ==
    ASSUME ProbesInv, NEW b \in ProbeJobs, NEW new \in Probes, Fits(new),
           probes' = [probes EXCEPT ![b] = new], UNCHANGED <<history, written>>
    PROVE  ProbesInv'
  <1>1. ProbesTypeOK'
    BY DEF ProbesInv, ProbesTypeOK
  <1>2. \A c \in ProbeJobs : probes'[c] = IF c = b THEN new ELSE probes[c]
    BY DEF ProbesInv, ProbesTypeOK
  <1> QED
    BY <1>1, <1>2 DEF ProbesInv

LEMMA CloseOK ==
    ASSUME ProbesInv, NEW b \in ProbeJobs, NEW saved \in BOOLEAN, CloseProbes(b, saved)
    PROVE  ProbesInv'
  <1> DEFINE job == probes[b]
             new == [job EXCEPT !.status = "completed"]
             items == Append(history, EntryOf(job))
  <1>1. job \in Probes /\ Fits(job)
    BY DEF CloseProbes, Running, NoProbes, ProbesInv, ProbesTypeOK
  <1>2. EntryOf(job) \in Entry /\ Whole(EntryOf(job))
    BY <1>1, EntryWhole DEF CloseProbes
  <1>3. new \in Probes /\ Fits(new)
    BY <1>1 DEF Probes, Fits
  <1>4. probes' = [probes EXCEPT ![b] = new] /\ history' = Kept(items)
        /\ written' \in {history', written}
    BY DEF CloseProbes, Close
  <1>5. items \in Seq(Entry) /\ \A i \in 1..Len(items) : Whole(items[i])
    BY <1>2 DEF ProbesInv, ProbesTypeOK
  <1>6. /\ history' \in Seq(Entry) /\ Len(history') <= HistoryLimit
        /\ \A i \in 1..Len(history') : Whole(history'[i])
    BY <1>4, <1>5, KeptOK
  <1>7. /\ written' \in Seq(Entry) /\ Len(written') <= HistoryLimit
        /\ \A i \in 1..Len(written') : Whole(written'[i])
    BY <1>4, <1>6 DEF ProbesInv, ProbesTypeOK
  <1>8. \A c \in ProbeJobs : probes'[c] = IF c = b THEN new ELSE probes[c]
    BY <1>4 DEF ProbesInv, ProbesTypeOK
  <1>9. probes' \in [ProbeJobs -> Probes \cup {NoProbes}]
    BY <1>3, <1>4 DEF ProbesInv, ProbesTypeOK
  <1>10. \A c \in ProbeJobs : probes'[c] # NoProbes => Fits(probes'[c])
    BY <1>3, <1>8 DEF ProbesInv
  <1> QED
    BY <1>6, <1>7, <1>9, <1>10 DEF ProbesInv, ProbesTypeOK

LEMMA StepOK == ProbesInv /\ [ProbesNext]_probeVars => ProbesInv'
  <1> SUFFICES ASSUME ProbesInv, [ProbesNext]_probeVars
               PROVE  ProbesInv'
    OBVIOUS
  <1>1. \A b \in ProbeJobs : Running(b) => probes[b] \in Probes /\ Fits(probes[b])
    BY DEF Running, NoProbes, ProbesInv, ProbesTypeOK
  <1>2. CASE UNCHANGED probeVars
    BY <1>2 DEF probeVars, ProbesInv, ProbesTypeOK
  <1>3. ASSUME NEW b \in ProbeJobs, NEW T \in SUBSET Targets, StartProbes(b, T)
        PROVE  ProbesInv'
    BY <1>3, StartedFits, JobStepOK DEF StartProbes
  <1>4. ASSUME NEW b \in ProbeJobs, NEW t \in Targets, TakeSlot(b, t)
        PROVE  ProbesInv'
    BY <1>1, <1>4, AskedFits, JobStepOK DEF TakeSlot
  <1>5. ASSUME NEW b \in ProbeJobs, NEW o \in Outcome, EndProbe(b, o)
        PROVE  ProbesInv'
    BY <1>1, <1>5, EndedFits, JobStepOK DEF EndProbe
  <1>6. ASSUME NEW b \in ProbeJobs, NEW o \in Outcome, CountProbe(b, o)
        PROVE  ProbesInv'
    BY <1>1, <1>6, CountedFits, JobStepOK DEF CountProbe
  <1>7. ASSUME NEW b \in ProbeJobs, NEW saved \in BOOLEAN, CloseProbes(b, saved)
        PROVE  ProbesInv'
    BY <1>7, CloseOK
  <1>8. CASE ReopenProbes
    BY <1>8 DEF ReopenProbes, ProbesInv, ProbesTypeOK
  <1> QED
    BY <1>2, <1>3, <1>4, <1>5, <1>6, <1>7, <1>8 DEF ProbesNext

\* The invariant holds of any batches of probes, whatever order their probes end
\* in, whichever writes fail and whenever the process restarts (run, saveLocked).
THEOREM ProbesInvariant == ProbesSpec => []ProbesInv
  <1>1. ProbesInit => ProbesInv
    BY ProbeBatchAssumption DEF ProbesInit, ProbesInv, ProbesTypeOK
  <1> QED
    BY <1>1, StepOK, PTL DEF ProbesSpec

\* Batches and their history are well formed, and the history is never longer
\* than its limit, in memory and in the file (the trim in run).
THEOREM ProbesTypes == ProbesSpec => []ProbesTypeOK
  <1>1. ProbesInv => ProbesTypeOK
    BY DEF ProbesInv
  <1> QED
    BY <1>1, ProbesInvariant, PTL

\* The progress of a batch and its slots add up, and the history is about whole
\* batches (the goroutines of run).
THEOREM ProbesCount == ProbesSpec => []ProbesAddUp
  <1>1. ProbesInv => ProbesAddUp
    BY DEF ProbesInv, ProbesAddUp, Fits, Bad, Whole
  <1> QED
    BY <1>1, ProbesInvariant, PTL

=============================================================================
