---------------------------- MODULE ShadowProofs ----------------------------
(***************************************************************************)
(* Theorems about Shadow, for any knowledge, tasks, batches, goroutines,   *)
(* administrators, thresholds and any stores whose writes may be lost.     *)
(***************************************************************************)
EXTENDS Shadow, FiniteSetTheorems, TLAPS

KnowMap == [Items -> Knowledge]
ShadowMap == [Replay -> {"none", "running", "completed", "failed"}]
BatchMap == [Batches -> Batch]
Kept == [know : KnowMap, batches : BatchMap, shadow : ShadowMap]

-----------------------------------------------------------------------------
(* A change reaches its own file or not, and no other.                     *)

LEMMA SavedKnowledge ==
    ASSUME kept \in Kept, know' \in KnowMap, SaveKnowledge
    PROVE  /\ kept' \in Kept /\ kept'.know \in {know', kept.know}
           /\ kept'.batches = kept.batches /\ kept'.shadow = kept.shadow
  BY DEF SaveKnowledge, Kept

LEMMA SavedShadow ==
    ASSUME kept \in Kept, shadow' \in ShadowMap, SaveShadow
    PROVE  /\ kept' \in Kept /\ kept'.shadow \in {shadow', kept.shadow}
           /\ kept'.batches = kept.batches /\ kept'.know = kept.know
  BY DEF SaveShadow, Kept

LEMMA SavedBatches ==
    ASSUME kept \in Kept, batches' \in BatchMap, SaveBatches
    PROVE  /\ kept' \in Kept /\ kept'.batches \in {batches', kept.batches}
           /\ kept'.know = kept.know /\ kept'.shadow = kept.shadow
  BY DEF SaveBatches, Kept

-----------------------------------------------------------------------------
(* Knowledge: what its evidence says, whatever becomes of it.              *)

\* Evidence counts once.
Counted(k) ==
    IsFiniteSet(k.ids) /\ k.samples = Cardinality(k.ids) /\ k.good <= k.samples

\* What no administrator has vouched for: until it is trusted only reports of
\* administrators are evidence, and then there are enough of them.
Earned(k) ==
    /\ k.status \in {"none", "proposed", "validated"} => k.ids \subseteq Manual
    /\ k.status = "trusted" => Cardinality(k.ids \cap Manual) >= TrustedAt

Settled == {"trusted", "rejected", "expired"}

\* The cases a validation goes through, without the computation.
LEMMA ValidationCases ==
    ASSUME NEW k \in Knowledge, NEW id \in Manual \cup Replay, NEW good \in BOOLEAN
    PROVE  LET n == WithValidation(k, id, good) IN
           \/ n = k
           \/ /\ k.status # "none" /\ id \notin k.ids
              /\ n \in Knowledge
              /\ n.ids = k.ids \cup {id} /\ n.samples = k.samples + 1
              /\ n.good \in {k.good, k.good + 1}
              /\ n.status = k.status
                 \/ /\ k.status \in {"proposed", "validated"}
                    /\ \/ n.status = "validated"
                       \/ n.status = "trusted" /\ n.samples >= TrustedAt
  <1> DEFINE n == k.samples + 1
             g == IF good THEN k.good + 1 ELSE k.good
             validated == IF k.status = "proposed" /\ n >= ValidatedAt /\ g * 100 >= n * 80
                          THEN "validated" ELSE k.status
             trusted == IF validated = "validated" /\ n >= TrustedAt /\ g * 100 >= n * 90
                        THEN "trusted" ELSE validated
             new == [k EXCEPT !.status = trusted, !.ids = @ \cup {id}, !.samples = n, !.good = g,
                              !.expires = TRUE]
  <1>1. WithValidation(k, id, good) = IF k.status = "none" \/ id \in k.ids THEN k ELSE new
    BY DEF WithValidation
  <1>2. /\ k.status \in KnowledgeStatus /\ k.sources \in SUBSET Tasks
        /\ k.ids \in SUBSET (Manual \cup Replay) /\ k.samples \in Nat /\ k.good \in Nat
    BY DEF Knowledge
  <1>3. n \in Nat /\ g \in Nat /\ g \in {k.good, k.good + 1}
    BY <1>2
  <1>4. /\ trusted \in KnowledgeStatus
        /\ \/ trusted = k.status
           \/ /\ k.status \in {"proposed", "validated"}
              /\ trusted = "validated" \/ (trusted = "trusted" /\ n >= TrustedAt)
    <2> HIDE DEF n, g
    <2> QED
      BY <1>2 DEF KnowledgeStatus
  <1>5. /\ new \in Knowledge /\ new.ids = k.ids \cup {id}
        /\ new.samples = n /\ new.good = g /\ new.status = trusted
    <2> HIDE DEF n, g, trusted
    <2> QED
      BY <1>2, <1>3, <1>4 DEF Knowledge
  <1> HIDE DEF g, trusted, new
  <1> QED
    BY <1>1, <1>3, <1>4, <1>5

LEMMA ValidationCounts ==
    ASSUME NEW k \in Knowledge, Counted(k), NEW id \in Manual \cup Replay, NEW good \in BOOLEAN
    PROVE  Counted(WithValidation(k, id, good))
  <1> DEFINE n == WithValidation(k, id, good)
  <1>1. CASE n = k
    BY <1>1
  <1>2. CASE n # k
    <2>1. /\ id \notin k.ids /\ n.ids = k.ids \cup {id} /\ n.samples = k.samples + 1
          /\ n.good \in {k.good, k.good + 1}
      BY <1>2, ValidationCases
    <2> HIDE DEF n
    <2>2. IsFiniteSet(n.ids) /\ Cardinality(n.ids) = Cardinality(k.ids) + 1
      <3>1. IsFiniteSet(k.ids)
        BY DEF Counted
      <3>2. IsFiniteSet(k.ids \cup {id}) /\ Cardinality(k.ids \cup {id}) = Cardinality(k.ids) + 1
        BY <2>1, <3>1, FS_AddElement
      <3> QED
        BY <2>1, <3>2
    <2>3. k.good \in Nat /\ k.samples \in Nat
      BY DEF Knowledge
    <2>4. Counted(n)
      BY <2>1, <2>2, <2>3 DEF Counted
    <2> QED
      BY <2>4 DEF n
  <1> QED
    BY <1>1, <1>2

\* A report of an administrator, or a replay of what is no longer
\* to be trusted, keeps trust earned.
LEMMA ValidationEarns ==
    ASSUME NEW k \in Knowledge, Counted(k), Earned(k), NEW good \in BOOLEAN,
           NEW id \in Manual \cup Replay, id \in Manual \/ k.status \in Settled
    PROVE  LET n == WithValidation(k, id, good) IN
           Earned(n) /\ (k.status \in Settled => n.status = k.status)
  <1> DEFINE n == WithValidation(k, id, good)
  <1>1. CASE n = k
    BY <1>1
  <1>2. CASE n # k
    <2>1. /\ k.status # "none" /\ n.ids = k.ids \cup {id}
          /\ n.status = k.status
             \/ /\ k.status \in {"proposed", "validated"}
                /\ \/ n.status = "validated"
                   \/ n.status = "trusted" /\ n.samples >= TrustedAt
      BY <1>2, ValidationCases
    <2>2. Counted(n)
      BY ValidationCounts
    <2> HIDE DEF n
    <2>3. n.status \in {"none", "proposed", "validated"} => n.ids \subseteq Manual
      BY <2>1 DEF Earned, Settled
    <2>4. ASSUME n.status = "trusted" PROVE Cardinality(n.ids \cap Manual) >= TrustedAt
      <3>1. CASE k.status = "trusted"
        <4>1. k.ids \cap Manual \subseteq n.ids \cap Manual /\ IsFiniteSet(n.ids \cap Manual)
          BY <2>1, <2>2, FS_Subset DEF Counted
        <4>2. Cardinality(k.ids \cap Manual) <= Cardinality(n.ids \cap Manual)
          BY <4>1, FS_Subset
        <4>3. Cardinality(n.ids \cap Manual) \in Nat /\ IsFiniteSet(k.ids \cap Manual)
          BY <4>1, FS_CardinalityType, FS_Subset
        <4>4. Cardinality(k.ids \cap Manual) \in Nat
          BY <4>3, FS_CardinalityType
        <4> QED
          BY <3>1, <4>2, <4>3, <4>4, ShadowAssumption DEF Earned
      <3>2. CASE k.status # "trusted"
        <4>1. k.status \in {"proposed", "validated"} /\ n.samples >= TrustedAt
          BY <2>1, <2>4, <3>2
        <4>2. n.ids \cap Manual = n.ids
          BY <2>1, <4>1 DEF Earned, Settled
        <4> QED
          BY <2>2, <4>1, <4>2 DEF Counted
      <3> QED
        BY <3>1, <3>2
    <2>5. Earned(n) /\ (k.status \in Settled => n.status = k.status)
      BY <2>1, <2>3, <2>4 DEF Earned, Settled
    <2> QED
      BY <2>5 DEF n
  <1> QED
    BY <1>1, <1>2

LEMMA ExpiryKeeps ==
    ASSUME NEW items \in KnowMap, NEW K
    PROVE  /\ Expired(items, K) \in KnowMap
           /\ \A k \in Items :
                /\ Counted(items[k]) => Counted(Expired(items, K)[k])
                /\ Earned(items[k]) => Earned(Expired(items, K)[k])
                /\ items[k].status \in Settled => Expired(items, K)[k].status \in Settled
                /\ Expired(items, K)[k].status \in {items[k].status, "expired"}
  <1> DEFINE new(k) == [items[k] EXCEPT !.status = "expired"]
  <1>1. ASSUME NEW k \in Items
        PROVE  /\ Expired(items, K)[k] \in {items[k], new(k)}
               /\ items[k] \in Knowledge
    BY <1>1 DEF Expired, KnowMap
  <1>2. ASSUME NEW k \in Items
        PROVE  /\ new(k) \in Knowledge /\ new(k).status = "expired"
               /\ new(k).ids = items[k].ids /\ new(k).samples = items[k].samples
               /\ new(k).good = items[k].good
    BY <1>1 DEF Knowledge, KnowledgeStatus
  <1>3. Expired(items, K) \in KnowMap
    BY <1>1, <1>2 DEF Expired, KnowMap
  <1> HIDE DEF new
  <1> QED
    BY <1>1, <1>2, <1>3 DEF Counted, Earned, Settled

-----------------------------------------------------------------------------
(* The values of the state.                                                *)

LEMMA CallKinds ==
    /\ \A id \in Replay, good \in BOOLEAN :
         /\ [pc |-> "calling", id |-> id] \in Call
         /\ [pc |-> "answered", id |-> id, good |-> good] \in Call
    /\ \A c \in Call \cup {NoCall} :
         /\ c.pc \in {"idle", "calling", "answered"} /\ (c.pc = "idle" <=> c = NoCall)
         /\ c # NoCall => c.id \in Replay /\ c.id.item \in Items
         /\ c.pc = "answered" => c.good \in BOOLEAN
  BY DEF Call, NoCall, Replay

LEMMA RunKinds ==
    /\ \A b \in Batches : [pc |-> "spawned", batch |-> b, at |-> 1] \in Run
    /\ \A x \in Run \cup {NoRun} :
         /\ x.pc = "idle" <=> x = NoRun
         /\ x # NoRun => /\ x \in Run /\ x.batch \in Batches /\ x.at \in 1..Total + 1
                         /\ x.pc \in {"spawned", "next", "replaying", "failed", "done"}
  <1>1. \A b \in Batches : [pc |-> "spawned", batch |-> b, at |-> 1] \in Run
    BY ShadowAssumption DEF Run
  <1> QED
    BY <1>1 DEF Run, NoRun

LEMMA RunMoves ==
    ASSUME NEW x \in Run, NEW to \in {"spawned", "next", "replaying", "failed", "done"}
    PROVE  /\ LET y == [x EXCEPT !.pc = to] IN
              y \in Run /\ y.pc = to /\ y.batch = x.batch /\ y.at = x.at
           /\ LET y == [x EXCEPT !.pc = to, !.at = @ + 1] IN
              /\ y.pc = to /\ y.batch = x.batch /\ y.at = x.at + 1
              /\ x.at <= Total => y \in Run
  <1> DEFINE y == [x EXCEPT !.pc = to]
             z == [x EXCEPT !.pc = to, !.at = @ + 1]
  <1>1. x.at \in 1..Total + 1 /\ x.batch \in Batches /\ Total \in Nat
    BY ShadowAssumption DEF Run
  <1>2. x.at <= Total => x.at + 1 \in 1..Total + 1
    BY <1>1
  <1>3. y \in Run /\ y.pc = to /\ y.batch = x.batch /\ y.at = x.at
    BY DEF Run
  <1>4. z.pc = to /\ z.batch = x.batch /\ z.at = x.at + 1
    BY DEF Run
  <1>5. x.at + 1 \in 1..Total + 1 => z \in Run
    BY DEF Run
  <1> QED
    BY <1>2, <1>3, <1>4, <1>5

LEMMA TaskKinds ==
    /\ \A k \in Items, to \in KnowledgeStatus : [does |-> "decide", item |-> k, to |-> to] \in Task
    /\ \A b \in Batches : [does |-> "retry", batch |-> b] \in Task
    /\ \A x \in Task \cup {NoTask} :
         /\ x.does = "decide" => x.item \in Items /\ x.to \in KnowledgeStatus
         /\ x.does = "retry" => x.batch \in Batches
    /\ NoTask.does = "nothing"
  BY DEF Task, NoTask

\* The work of a batch is known once there is one.
Known(bs) ==
    \A b \in Batches : bs[b].status # "none" => /\ bs[b].item \in Items
                                                /\ bs[b].work \in [1..Total -> Tasks]

\* What the steps rely on: a goroutine replays or counts within its batch, has
\* a call only while it replays, and a batch someone works on is there.
WellFormed ==
    /\ TypeOK
    /\ \A r \in Runners : runners[r].pc \in {"replaying", "failed", "done"} => runners[r].at <= Total
    /\ \A r \in Runners : calls[r] # NoCall => runners[r].pc = "replaying"
    /\ Known(batches) /\ Known(kept.batches)
    /\ \A r \in Runners : runners[r] # NoRun => batches[runners[r].batch].status # "none"
    /\ \A a \in Admins : admins[a].does = "retry" => batches[admins[a].batch].status # "none"

Typed ==
    /\ know \in KnowMap /\ shadow \in ShadowMap /\ batches \in BatchMap /\ kept \in Kept
    /\ calls \in [Runners \cup Callers -> Call \cup {NoCall}]
    /\ runners \in [Runners -> Run \cup {NoRun}]
    /\ admins \in [Admins -> Task \cup {NoTask}]
    /\ vouched \subseteq Items /\ cut \subseteq Replay /\ crossed \subseteq Batches /\ retries \in 0..MaxRetries

LEMMA TypedIs == ShadowTypeOK <=> Typed
  BY DEF ShadowTypeOK, Typed, KnowMap, ShadowMap, BatchMap, Kept

\* Values of known batches.
LEMMA BatchMoves ==
    ASSUME NEW x \in Batch
    PROVE  /\ \A to \in BatchStatus :
                /\ [x EXCEPT !.status = to] \in Batch
                /\ [x EXCEPT !.status = to].status = to
                /\ \A n \in Nat : [x EXCEPT !.status = to, !.stopped = n] \in Batch
           /\ \A c, f \in Nat : [x EXCEPT !.completed = c, !.failed = f] \in Batch
           /\ x.status \in BatchStatus /\ x.completed \in Nat /\ x.failed \in Nat /\ x.stopped \in Nat
  BY DEF Batch

LEMMA FreshBatch ==
    ASSUME NEW k \in Items, NEW work \in [1..Total -> Tasks]
    PROVE  LET x == [NoBatch EXCEPT !.status = "pending", !.item = k, !.work = work] IN
           /\ x \in Batch /\ x.status = "pending" /\ x.item = k /\ x.work = work
           /\ x.completed = 0 /\ x.stopped = 0 /\ x.failed = 0
  BY DEF NoBatch, Batch, BatchStatus

-----------------------------------------------------------------------------
(* What a step makes of the values.                                        *)

AllCalls == [Runners \cup Callers -> Call \cup {NoCall}]

\* A step of the call of c, and of nobody else's.
CallStep(c) ==
    /\ know' \in KnowMap /\ shadow' \in ShadowMap /\ kept' \in Kept /\ kept'.batches = kept.batches
    /\ calls' \in AllCalls /\ \A d \in (Runners \cup Callers) \ {c} : calls'[d] = calls[d]
    /\ cut' \subseteq Replay

LEMMA SetCall ==
    ASSUME Typed, NEW c \in Runners \cup Callers, NEW x \in Call \cup {NoCall},
           calls' = [calls EXCEPT ![c] = x]
    PROVE  /\ calls' \in AllCalls /\ calls'[c] = x
           /\ \A d \in (Runners \cup Callers) \ {c} : calls'[d] = calls[d]
  BY DEF Typed, AllCalls

LEMMA ResultSaved ==
    ASSUME Typed, NEW id \in Replay, NEW status \in {"completed", "failed"}, Result(id, status)
    PROVE  /\ shadow' \in ShadowMap /\ kept' \in Kept
           /\ shadow' = [shadow EXCEPT ![id] = status]
           /\ kept'.batches = kept.batches /\ kept'.know = kept.know
  <1>1. shadow' \in ShadowMap /\ shadow' = [shadow EXCEPT ![id] = status] /\ SaveShadow /\ kept \in Kept
    BY DEF Result, Typed, ShadowMap
  <1> QED
    BY <1>1, SavedShadow

LEMMA BeginSteps ==
    ASSUME Typed, NEW c \in Runners \cup Callers, NEW id \in Replay, Begin(c, id), know' = know
    PROVE  CallStep(c) /\ calls'[c] = [pc |-> "calling", id |-> id] /\ kept'.know = kept.know
  <1>1. /\ shadow' \in ShadowMap /\ SaveShadow /\ kept \in Kept /\ know' \in KnowMap
        /\ cut' \subseteq Replay /\ calls' = [calls EXCEPT ![c] = [pc |-> "calling", id |-> id]]
    BY DEF Begin, Typed, ShadowMap
  <1>2. /\ calls' \in AllCalls /\ calls'[c] = [pc |-> "calling", id |-> id]
        /\ \A d \in (Runners \cup Callers) \ {c} : calls'[d] = calls[d]
    BY <1>1, SetCall, CallKinds
  <1> QED
    BY <1>1, <1>2, SavedShadow DEF CallStep

LEMMA CallIs ==
    ASSUME Typed, NEW c \in Runners \cup Callers
    PROVE  /\ calls[c] \in Call \cup {NoCall}
           /\ calls[c].pc = "idle" <=> calls[c] = NoCall
           /\ calls[c].pc # "idle" => calls[c].id \in Replay /\ calls[c].id.item \in Items
           /\ calls[c].pc = "answered" => calls[c].good \in BOOLEAN
  BY CallKinds DEF Typed

LEMMA FailsSteps ==
    ASSUME Typed, NEW c \in Runners \cup Callers, Fails(c)
    PROVE  CallStep(c) /\ calls'[c] = NoCall /\ kept'.know = kept.know
  <1>1. calls[c].id \in Replay
    BY CallIs DEF Fails
  <1>2. shadow' \in ShadowMap /\ kept' \in Kept /\ kept'.batches = kept.batches /\ kept'.know = kept.know
    BY <1>1, ResultSaved DEF Fails
  <1>3. /\ calls' \in AllCalls /\ calls'[c] = NoCall
        /\ \A d \in (Runners \cup Callers) \ {c} : calls'[d] = calls[d]
    BY SetCall DEF Fails
  <1> QED
    BY <1>2, <1>3 DEF Fails, CallStep, Typed

LEMMA AnswersSteps ==
    ASSUME Typed, NEW c \in Runners \cup Callers, NEW good \in BOOLEAN, Answers(c, good)
    PROVE  /\ CallStep(c) /\ kept'.know = kept.know
           /\ calls'[c] = [pc |-> "answered", id |-> calls[c].id, good |-> good]
  <1>1. calls[c].id \in Replay
    BY CallIs DEF Answers
  <1>2. shadow' \in ShadowMap /\ kept' \in Kept /\ kept'.batches = kept.batches /\ kept'.know = kept.know
    BY <1>1, ResultSaved DEF Answers
  <1> DEFINE x == [pc |-> "answered", id |-> calls[c].id, good |-> good]
  <1>3. x \in Call /\ calls' = [calls EXCEPT ![c] = x]
    BY <1>1, CallKinds DEF Answers
  <1> HIDE DEF x
  <1>4. calls' \in AllCalls /\ calls'[c] = x /\ \A d \in (Runners \cup Callers) \ {c} : calls'[d] = calls[d]
    BY <1>3, SetCall
  <1> QED
    BY <1>2, <1>4 DEF Answers, CallStep, Typed, x

\* A validation changes one item, and the file keeps the same or what it was.
LEMMA ValidationSaved ==
    ASSUME Typed, NEW k \in Items, NEW id \in Manual \cup Replay, NEW good \in BOOLEAN,
           RecordValidation(k, id, good)
    PROVE  /\ know' \in KnowMap /\ kept' \in Kept /\ kept'.know \in {know', kept.know}
           /\ kept'.batches = kept.batches /\ kept'.shadow = kept.shadow
           /\ know[k] \in Knowledge
           /\ know' = [know EXCEPT ![k] = WithValidation(know[k], id, good)]
  <1>1. know[k] \in Knowledge /\ kept \in Kept
    BY DEF Typed, KnowMap
  <1>2. WithValidation(know[k], id, good) \in Knowledge
    BY <1>1, ValidationCases
  <1>3. know' \in KnowMap /\ know' = [know EXCEPT ![k] = WithValidation(know[k], id, good)]
    BY <1>2 DEF RecordValidation, Typed, KnowMap
  <1>4. SaveKnowledge \/ kept' = kept
    BY DEF RecordValidation
  <1> QED
    BY <1>1, <1>3, <1>4, SavedKnowledge

LEMMA RecordsSteps ==
    ASSUME Typed, NEW c \in Runners \cup Callers, Records(c)
    PROVE  /\ CallStep(c) /\ calls'[c] = NoCall /\ shadow' = shadow
           /\ kept'.know \in {know', kept.know}
  <1>1. calls[c].id \in Replay /\ calls[c].id.item \in Items /\ calls[c].good \in BOOLEAN
    BY CallIs DEF Records
  <1>2. /\ know' \in KnowMap /\ kept' \in Kept /\ kept'.know \in {know', kept.know}
        /\ kept'.batches = kept.batches
    BY <1>1, ValidationSaved DEF Records
  <1>3. /\ calls' \in AllCalls /\ calls'[c] = NoCall
        /\ \A d \in (Runners \cup Callers) \ {c} : calls'[d] = calls[d]
    BY SetCall DEF Records
  <1> QED
    BY <1>2, <1>3 DEF Records, CallStep, Typed

-----------------------------------------------------------------------------
(* Well-formed states.                                                     *)

\* The rest of WellFormed, apart from the types.
Linked ==
    /\ \A r \in Runners : runners[r].pc \in {"replaying", "failed", "done"} => runners[r].at <= Total
    /\ \A r \in Runners : calls[r] # NoCall => runners[r].pc = "replaying"
    /\ Known(batches) /\ Known(kept.batches)
    /\ \A r \in Runners : runners[r] # NoRun => batches[runners[r].batch].status # "none"
    /\ \A a \in Admins : admins[a].does = "retry" => batches[admins[a].batch].status # "none"

Sources == source \in [Tasks -> Source] /\ saved \in [Tasks -> Source]

LEMMA WellFormedIs == WellFormed <=> Sources /\ Typed /\ Linked
  BY TypedIs DEF WellFormed, Linked, Sources, TypeOK

SameBatches == batches' = batches /\ kept'.batches = kept.batches

\* Steps on knowledge, and on what administrators make of it.
LEMMA KnowledgeLinks ==
    ASSUME Typed, Linked, know' \in KnowMap, SaveKnowledge \/ kept' = kept, vouched' \subseteq Items,
           admins' \in [Admins -> Task \cup {NoTask}],
           \A a \in Admins : admins'[a].does = "retry" => admins'[a] = admins[a],
           UNCHANGED <<shadow, batches, calls, runners, cut, crossed, retries>>
    PROVE  Typed' /\ Linked'
  <1>1. kept \in Kept
    BY DEF Typed
  <1>2. kept' \in Kept /\ SameBatches
    BY <1>1, SavedKnowledge DEF SameBatches
  <1>3. Typed'
    BY <1>2 DEF Typed
  <1> QED
    BY <1>2, <1>3 DEF Linked, SameBatches, Known

LEMMA KnownItem ==
    ASSUME Typed, NEW k \in Items, NEW to \in KnowledgeStatus
    PROVE  /\ [know[k] EXCEPT !.status = to] \in Knowledge
           /\ [know[k] EXCEPT !.status = to, !.expires = TRUE] \in Knowledge
           /\ \A t \in Tasks : [know[k] EXCEPT !.sources = {t}, !.status = to] \in Knowledge
  BY DEF Typed, KnowMap, Knowledge

LEMMA BuildSteps ==
    ASSUME Typed, Sources, NEW t \in Tasks, Build(t)
    PROVE  LET k == source[t].item IN
           /\ k \in Items /\ know' \in KnowMap
           /\ \E to \in KnowledgeStatus :
                /\ to = IF know[k].status = "none" THEN "proposed" ELSE know[k].status
                /\ know' = [know EXCEPT ![k] = [know[k] EXCEPT !.sources = {t}, !.status = to]]
  <1> DEFINE k == source[t].item
             to == IF know[k].status = "none" THEN "proposed" ELSE know[k].status
  <1>1. k \in Items
    BY DEF Build, Sources, Source
  <1>2. to \in KnowledgeStatus
    BY <1>1 DEF Typed, KnowMap, Knowledge, KnowledgeStatus
  <1>3. know' = [know EXCEPT ![k] = [know[k] EXCEPT !.sources = {t}, !.status = to]]
    BY <1>1 DEF Build, Typed, KnowMap, Knowledge
  <1>4. [know[k] EXCEPT !.sources = {t}, !.status = to] \in Knowledge
    BY <1>1, <1>2, KnownItem
  <1> HIDE DEF to
  <1>5. know' \in KnowMap
    BY <1>1, <1>3, <1>4 DEF Typed, KnowMap
  <1> QED
    BY <1>1, <1>2, <1>3, <1>5 DEF to

KnowledgeStep ==
    \/ \E t \in Tasks : Build(t)
    \/ \E k \in Items :
          \/ \E id \in Manual, good \in BOOLEAN : Validate(k, id, good)
          \/ \E to \in {"validated", "trusted"} : Restore(k, to)
          \/ \E a \in Admins, to \in {"validated", "trusted", "rejected"} : Consider(a, k, to)
    \/ \E K \in SUBSET Items : Expire(K)
    \/ \E a \in Admins : ChangeStatus(a)

LEMMA KnowledgeStays ==
    ASSUME Typed, Linked, Sources, KnowledgeStep
    PROVE  Typed' /\ Linked'
  <1> USE DEF KnowledgeStep
  <1>1. /\ kept \in Kept /\ know \in KnowMap /\ vouched \subseteq Items
        /\ admins \in [Admins -> Task \cup {NoTask}]
    BY DEF Typed
  <1>2. CASE \E t \in Tasks : Build(t)
    <2>1. know' \in KnowMap /\ SaveKnowledge
          /\ UNCHANGED <<shadow, batches, calls, runners, admins, vouched, cut, crossed, retries>>
      BY <1>2, BuildSteps DEF Build
    <2> QED
      BY <1>1, <2>1, KnowledgeLinks
  <1>3. ASSUME NEW k \in Items, NEW id \in Manual, NEW good \in BOOLEAN, Validate(k, id, good)
        PROVE  Typed' /\ Linked'
    <2>1. know' \in KnowMap /\ (SaveKnowledge \/ kept' = kept)
          /\ UNCHANGED <<shadow, batches, calls, runners, admins, vouched, cut, crossed, retries>>
      BY <1>3, ValidationSaved DEF Validate, RecordValidation
    <2> QED
      BY <1>1, <2>1, KnowledgeLinks
  <1>4. ASSUME NEW k \in Items, NEW to \in {"validated", "trusted"}, Restore(k, to)
        PROVE  Typed' /\ Linked'
    <2>1. [know[k] EXCEPT !.status = to, !.expires = TRUE] \in Knowledge
      BY KnownItem DEF KnowledgeStatus
    <2>2. know' = [know EXCEPT ![k] = [know[k] EXCEPT !.status = to, !.expires = TRUE]]
      BY <1>1, <1>4 DEF Restore, KnowMap, Knowledge
    <2>3. know' \in KnowMap
      BY <1>1, <2>1, <2>2 DEF KnowMap
    <2>4. SaveKnowledge /\ vouched' \subseteq Items
          /\ UNCHANGED <<shadow, batches, calls, runners, admins, cut, crossed, retries>>
      BY <1>1, <1>4 DEF Restore
    <2> QED
      BY <1>1, <2>3, <2>4, KnowledgeLinks
  <1>5. ASSUME NEW a \in Admins, NEW k \in Items, NEW to \in {"validated", "trusted", "rejected"},
               Consider(a, k, to)
        PROVE  Typed' /\ Linked'
    <2>1. [does |-> "decide", item |-> k, to |-> to] \in Task
      BY TaskKinds DEF KnowledgeStatus
    <2>2. /\ admins' \in [Admins -> Task \cup {NoTask}]
          /\ \A b \in Admins : admins'[b].does = "retry" => admins'[b] = admins[b]
      BY <1>1, <1>5, <2>1 DEF Consider
    <2> QED
      BY <1>1, <1>5, <2>2, KnowledgeLinks DEF Consider
  <1>6. ASSUME NEW K \in SUBSET Items, Expire(K)
        PROVE  Typed' /\ Linked'
    <2>1. know' \in KnowMap /\ SaveKnowledge
          /\ UNCHANGED <<shadow, batches, calls, runners, admins, vouched, cut, crossed, retries>>
      BY <1>1, <1>6, ExpiryKeeps DEF Expire
    <2> QED
      BY <1>1, <2>1, KnowledgeLinks
  <1>7. ASSUME NEW a \in Admins, ChangeStatus(a)
        PROVE  Typed' /\ Linked'
    <2> DEFINE k == admins[a].item
               to == admins[a].to
    <2>1. k \in Items /\ to \in KnowledgeStatus
      BY <1>1, <1>7, TaskKinds DEF ChangeStatus
    <2>2. [know[k] EXCEPT !.status = to] \in Knowledge
      BY <2>1, KnownItem
    <2>3. know' = know \/ know' = [know EXCEPT ![k] = [know[k] EXCEPT !.status = to]]
      BY <1>1, <1>7, <2>1 DEF ChangeStatus, KnowMap, Knowledge
    <2>4. know' \in KnowMap
      BY <1>1, <2>1, <2>2, <2>3 DEF KnowMap
    <2>5. (SaveKnowledge \/ kept' = kept) /\ vouched' \subseteq Items
          /\ UNCHANGED <<shadow, batches, calls, runners, cut, crossed, retries>>
      BY <1>1, <1>7, <2>1 DEF ChangeStatus
    <2>6. /\ admins' \in [Admins -> Task \cup {NoTask}]
          /\ \A b \in Admins : admins'[b].does = "retry" => admins'[b] = admins[b]
      BY <1>1, <1>7, TaskKinds DEF ChangeStatus
    <2> QED
      BY <2>4, <2>5, <2>6, KnowledgeLinks
  <1> QED
    BY <1>2, <1>3, <1>4, <1>5, <1>6, <1>7

\* Steps on replays that are no part of a batch.
LEMMA CallerStays ==
    ASSUME Typed, Linked, NEW c \in Callers, CallerStep(c)
    PROVE  Typed' /\ Linked'
  <1>1. c \in Runners \cup Callers /\ c \notin Runners
    BY ShadowAssumption
  <1>2. /\ CallStep(c)
        /\ UNCHANGED <<batches, runners, admins, vouched, crossed, retries>>
    <2>1. ASSUME NEW k \in Items, NEW t \in Tasks, Single(c, k, t)
          PROVE  /\ CallStep(c)
                 /\ UNCHANGED <<batches, runners, admins, vouched, crossed, retries>>
      <3> DEFINE id == [batch |-> "none", item |-> k, task |-> t]
      <3>1. id \in Replay
        BY DEF Replay
      <3>2. Begin(c, id) /\ UNCHANGED <<know, batches, runners, admins, vouched, crossed, retries>>
        BY <2>1 DEF Single
      <3> HIDE DEF id
      <3> QED
        BY <1>1, <3>1, <3>2, BeginSteps
    <2>2. CASE Fails(c) /\ UNCHANGED runners
      BY <1>1, <2>2, FailsSteps DEF Fails
    <2>3. CASE Records(c) /\ UNCHANGED runners
      BY <1>1, <2>3, RecordsSteps DEF Records
    <2>4. CASE \E good \in BOOLEAN : Answers(c, good)
      BY <1>1, <2>4, AnswersSteps DEF Answers
    <2> QED
      BY <2>1, <2>2, <2>3, <2>4 DEF CallerStep
  <1>3. Typed'
    BY <1>2 DEF Typed, CallStep, AllCalls
  <1>4. \A r \in Runners : calls'[r] = calls[r]
    BY <1>1, <1>2 DEF CallStep
  <1>5. Linked'
    BY <1>2, <1>4 DEF Linked, CallStep, Known
  <1> QED
    BY <1>3, <1>5

LEMMA PruneStays ==
    ASSUME Typed, Linked, NEW S \in SUBSET Replay, PruneShadow(S)
    PROVE  Typed' /\ Linked'
  <1>1. /\ shadow' \in ShadowMap /\ cut' \subseteq Replay /\ kept \in Kept /\ SaveShadow
        /\ UNCHANGED <<know, batches, calls, runners, admins, vouched, crossed, retries>>
    BY DEF PruneShadow, Typed, ShadowMap
  <1>2. kept' \in Kept /\ kept'.batches = kept.batches
    BY <1>1, SavedShadow
  <1>3. Typed'
    BY <1>1, <1>2 DEF Typed
  <1> QED
    BY <1>1, <1>2, <1>3 DEF Linked, Known

\* Steps on batches: those known stay known, and so do their goroutines.
LEMMA BatchLinks ==
    ASSUME Typed, Linked, SaveBatches \/ kept' = kept, batches' \in BatchMap, Known(batches)',
           \A b \in Batches : batches[b].status # "none" => batches'[b].status # "none",
           runners' \in [Runners -> Run \cup {NoRun}],
           \A r \in Runners :
              /\ runners'[r].pc \in {"replaying", "failed", "done"} => runners'[r].at <= Total
              /\ calls[r] # NoCall => runners'[r].pc = "replaying"
              /\ runners'[r] # NoRun => batches'[runners'[r].batch].status # "none",
           admins' \in [Admins -> Task \cup {NoTask}],
           \A a \in Admins : admins'[a].does = "retry" => admins'[a] = admins[a],
           crossed' \subseteq Batches, retries' \in 0..MaxRetries,
           UNCHANGED <<know, shadow, calls, vouched, cut>>
    PROVE  Typed' /\ Linked'
  <1>1. /\ kept' \in Kept /\ kept'.batches \in {batches', kept.batches}
        /\ admins \in [Admins -> Task \cup {NoTask}]
    BY SavedBatches DEF Typed, Kept
  <1>2. Typed'
    BY <1>1 DEF Typed
  <1>3. Known(kept.batches)'
    BY <1>1 DEF Linked, Known
  <1>4. \A a \in Admins : admins'[a].does = "retry" => batches'[admins'[a].batch].status # "none"
    BY <1>1, TaskKinds DEF Linked
  <1> QED
    BY <1>2, <1>3, <1>4 DEF Linked

\* What a step may make of the goroutines.
RunsLinked ==
    /\ runners' \in [Runners -> Run \cup {NoRun}]
    /\ \A r \in Runners :
          /\ runners'[r].pc \in {"replaying", "failed", "done"} => runners'[r].at <= Total
          /\ runners'[r] # NoRun => batches'[runners'[r].batch].status # "none"

StillKnown == \A b \in Batches : batches[b].status # "none" => batches'[b].status # "none"

LEMMA SpawnLinks ==
    ASSUME Typed, Linked, NEW b \in Batches, Spawn(b), batches'[b].status # "none", StillKnown
    PROVE  RunsLinked /\ \A r \in Runners : calls[r] # NoCall => runners'[r].pc = "replaying"
  <1>1. PICK r \in Runners :
          /\ runners[r] = NoRun
          /\ runners' = [runners EXCEPT ![r] = [pc |-> "spawned", batch |-> b, at |-> 1]]
    BY DEF Spawn
  <1> DEFINE x == [pc |-> "spawned", batch |-> b, at |-> 1]
  <1>2. x \in Run /\ x.pc = "spawned" /\ x.batch = b
    BY RunKinds
  <1> HIDE DEF x
  <1>3. /\ runners' \in [Runners -> Run \cup {NoRun}]
        /\ \A q \in Runners : runners'[q] = IF q = r THEN x ELSE runners[q]
    BY <1>1, <1>2 DEF Typed, x
  <1>4. \A q \in Runners : runners[q] # NoRun => runners[q].batch \in Batches
    BY RunKinds DEF Typed
  <1>5. NoRun.pc # "replaying"
    BY DEF NoRun
  <1> QED
    BY <1>1, <1>2, <1>3, <1>4, <1>5 DEF RunsLinked, Linked, StillKnown

LEMMA SameRuns ==
    ASSUME Typed, Linked, runners' = runners, StillKnown
    PROVE  RunsLinked /\ \A r \in Runners : calls[r] # NoCall => runners'[r].pc = "replaying"
  <1>1. \A q \in Runners : runners[q] # NoRun => runners[q].batch \in Batches
    BY RunKinds DEF Typed
  <1> QED
    BY <1>1 DEF RunsLinked, Linked, StillKnown, Typed

LEMMA StartStays ==
    ASSUME Typed, Linked, NEW b \in Batches, NEW k \in Items, NEW work \in [1..Total -> Tasks],
           StartBatch(b, k, work)
    PROVE  Typed' /\ Linked'
  <1> DEFINE x == [NoBatch EXCEPT !.status = "pending", !.item = k, !.work = work]
  <1>1. x \in Batch /\ x.status = "pending" /\ x.item = k /\ x.work = work
    BY FreshBatch
  <1>2. batches' = [batches EXCEPT ![b] = x] /\ SaveBatches /\ Spawn(b)
        /\ UNCHANGED <<know, shadow, calls, admins, vouched, cut, crossed, retries>>
    BY DEF StartBatch
  <1> HIDE DEF x
  <1>3. /\ batches' \in BatchMap
        /\ \A d \in Batches : batches'[d] = IF d = b THEN x ELSE batches[d]
    BY <1>1, <1>2 DEF Typed, BatchMap
  <1>4. Known(batches)' /\ StillKnown
    BY <1>1, <1>3 DEF Linked, Known, StillKnown
  <1>5. RunsLinked /\ \A r \in Runners : calls[r] # NoCall => runners'[r].pc = "replaying"
    BY <1>1, <1>2, <1>3, <1>4, SpawnLinks
  <1> QED
    BY <1>2, <1>3, <1>4, <1>5, BatchLinks DEF RunsLinked, StillKnown, Typed

\* What is made of a batch that is there.
LEMMA BatchChanges ==
    ASSUME Typed, Linked, NEW b \in Batches, NEW x \in Batch, batches[b].status # "none",
           x.status # "none", x.item = batches[b].item, x.work = batches[b].work,
           batches' = [batches EXCEPT ![b] = x]
    PROVE  /\ batches' \in BatchMap /\ Known(batches)' /\ StillKnown
           /\ batches'[b] = x /\ \A d \in Batches \ {b} : batches'[d] = batches[d]
  BY DEF Typed, Linked, BatchMap, Known, StillKnown

LEMMA StopBatch ==
    ASSUME Typed, NEW b \in Batches, Stop(b)
    PROVE  \/ batches' = batches
           \/ /\ Unfinished(b)
              /\ \E n \in Nat :
                    /\ n = IF Total > batches[b].completed
                           THEN batches[b].stopped + Total - batches[b].completed
                           ELSE batches[b].stopped
                    /\ batches' = [batches EXCEPT ![b] =
                                      [batches[b] EXCEPT !.status = "stopped", !.stopped = n]]
  <1> DEFINE n == IF Total > batches[b].completed
                  THEN batches[b].stopped + Total - batches[b].completed ELSE batches[b].stopped
  <1>1. /\ batches[b] \in Batch /\ batches[b].completed \in Nat /\ batches[b].stopped \in Nat
        /\ batches \in [Batches -> Batch]
    BY BatchMoves DEF Typed, BatchMap
  <1>2. n \in Nat
    BY <1>1, ShadowAssumption
  <1>3. CASE Unfinished(b)
    <2>1. batches' = [batches EXCEPT ![b] = [batches[b] EXCEPT !.status = "stopped", !.stopped = n]]
      BY <1>1, <1>3 DEF Stop, Batch
    <2> HIDE DEF n
    <2> QED
      BY <1>2, <1>3, <2>1 DEF n
  <1>4. CASE ~Unfinished(b)
    BY <1>4 DEF Stop
  <1> QED
    BY <1>3, <1>4

LEMMA StopStays ==
    ASSUME Typed, Linked, NEW b \in Batches, Stop(b)
    PROVE  Typed' /\ Linked'
  <1>1. batches[b].status # "none" /\ SaveBatches /\ batches[b] \in Batch /\ batches \in BatchMap
        /\ UNCHANGED <<know, shadow, calls, runners, admins, vouched, cut, retries>>
        /\ crossed' \subseteq Batches
    BY DEF Stop, Typed, BatchMap
  <1>2. batches' \in BatchMap /\ Known(batches)' /\ StillKnown
    <2>1. CASE batches' = batches
      BY <1>1, <2>1 DEF Linked, Known, StillKnown
    <2>2. ASSUME NEW n \in Nat,
                 batches' = [batches EXCEPT ![b] =
                                [batches[b] EXCEPT !.status = "stopped", !.stopped = n]]
          PROVE  batches' \in BatchMap /\ Known(batches)' /\ StillKnown
      <3> DEFINE x == [batches[b] EXCEPT !.status = "stopped", !.stopped = n]
      <3>1. /\ x \in Batch /\ x.status = "stopped"
            /\ x.item = batches[b].item /\ x.work = batches[b].work
        BY <1>1 DEF Batch, BatchStatus
      <3> HIDE DEF x
      <3> QED
        BY <1>1, <2>2, <3>1, BatchChanges DEF x
    <2> QED
      BY <2>1, <2>2, StopBatch
  <1>3. RunsLinked /\ \A r \in Runners : calls[r] # NoCall => runners'[r].pc = "replaying"
    BY <1>1, <1>2, SameRuns
  <1> QED
    BY <1>1, <1>2, <1>3, BatchLinks DEF RunsLinked, StillKnown, Typed

LEMMA ConsiderRetryStays ==
    ASSUME Typed, Linked, NEW a \in Admins, NEW b \in Batches, ConsiderRetry(a, b)
    PROVE  Typed' /\ Linked'
  <1> DEFINE x == [does |-> "retry", batch |-> b]
  <1>1. x \in Task /\ x.does = "retry" /\ x.batch = b
    BY TaskKinds
  <1>2. /\ batches[b].status # "none" /\ admins' = [admins EXCEPT ![a] = x]
        /\ UNCHANGED <<know, shadow, batches, kept, calls, runners, vouched, cut, crossed, retries>>
    BY DEF ConsiderRetry
  <1> HIDE DEF x
  <1>3. /\ admins' \in [Admins -> Task \cup {NoTask}]
        /\ \A d \in Admins : admins'[d] = IF d = a THEN x ELSE admins[d]
    BY <1>1, <1>2 DEF Typed
  <1> QED
    BY <1>1, <1>2, <1>3 DEF Typed, Linked, Known

LEMMA RetryBatch ==
    ASSUME Typed, Linked, NEW a \in Admins, Retry(a)
    PROVE  LET b == admins[a].batch
               x == [NoBatch EXCEPT !.status = "pending", !.item = batches[b].item,
                                    !.work = batches[b].work]
           IN /\ b \in Batches /\ batches[b].status # "none" /\ Spawn(b) /\ SaveBatches
              /\ x \in Batch /\ x.status = "pending" /\ x.completed = 0 /\ x.stopped = 0
              /\ x.item = batches[b].item /\ x.work = batches[b].work
              /\ \/ batches[b].status \notin {"failed", "stopped"} /\ batches' = batches
                 \/ batches[b].status \in {"failed", "stopped"} /\ batches' = [batches EXCEPT ![b] = x]
  <1> DEFINE b == admins[a].batch
  <1>1. b \in Batches /\ batches[b].status # "none"
    BY TaskKinds DEF Retry, Typed, Linked
  <1>2. batches[b].item \in Items /\ batches[b].work \in [1..Total -> Tasks]
    BY <1>1 DEF Linked, Known
  <1> DEFINE x == [NoBatch EXCEPT !.status = "pending", !.item = batches[b].item,
                                  !.work = batches[b].work]
  <1>3. /\ x \in Batch /\ x.status = "pending" /\ x.completed = 0 /\ x.stopped = 0
        /\ x.item = batches[b].item /\ x.work = batches[b].work
    BY <1>2 DEF NoBatch, Batch, BatchStatus
  <1>4. /\ Spawn(b) /\ SaveBatches
        /\ batches' = IF batches[b].status \notin {"failed", "stopped"} THEN batches
                      ELSE [batches EXCEPT ![b] = x]
    BY DEF Retry
  <1> HIDE DEF x
  <1>5. \/ batches[b].status \notin {"failed", "stopped"} /\ batches' = batches
        \/ batches[b].status \in {"failed", "stopped"} /\ batches' = [batches EXCEPT ![b] = x]
    BY <1>4
  <1> QED
    BY <1>1, <1>3, <1>4, <1>5 DEF x

LEMMA RetryStays ==
    ASSUME Typed, Linked, NEW a \in Admins, Retry(a)
    PROVE  Typed' /\ Linked'
  <1> DEFINE b == admins[a].batch
             x == [NoBatch EXCEPT !.status = "pending", !.item = batches[b].item,
                                  !.work = batches[b].work]
  <1>1. /\ b \in Batches /\ batches[b].status # "none" /\ Spawn(b) /\ SaveBatches
        /\ x \in Batch /\ x.status = "pending"
        /\ x.item = batches[b].item /\ x.work = batches[b].work
        /\ batches' = batches \/ batches' = [batches EXCEPT ![b] = x]
    BY RetryBatch
  <1>2. /\ UNCHANGED <<know, shadow, calls, vouched, cut>>
        /\ retries' \in 0..MaxRetries
    BY ShadowAssumption DEF Retry, Typed
  <1>3. /\ admins' \in [Admins -> Task \cup {NoTask}]
        /\ \A d \in Admins : admins'[d].does = "retry" => admins'[d] = admins[d]
    BY TaskKinds DEF Retry, Typed
  <1>4. crossed' \subseteq Batches
    BY <1>1 DEF Retry, Typed
  <1> HIDE DEF x, b
  <1>5. batches' \in BatchMap /\ Known(batches)' /\ StillKnown
    <2>1. CASE batches' = batches
      BY <1>1, <2>1 DEF Linked, Known, StillKnown, Typed
    <2>2. CASE batches' = [batches EXCEPT ![b] = x]
      BY <1>1, <2>2, BatchChanges
    <2> QED
      BY <1>1, <2>1, <2>2
  <1>6. batches'[b].status # "none"
    BY <1>1, <1>5 DEF StillKnown
  <1>7. RunsLinked /\ \A r \in Runners : calls[r] # NoCall => runners'[r].pc = "replaying"
    BY <1>1, <1>5, <1>6, SpawnLinks
  <1> QED
    BY <1>1, <1>2, <1>3, <1>4, <1>5, <1>7, BatchLinks DEF RunsLinked, StillKnown

LEMMA RunIs ==
    ASSUME Typed, Linked, NEW r \in Runners, runners[r].pc # "idle"
    PROVE  /\ runners[r] \in Run /\ runners[r] # NoRun
           /\ runners[r].batch \in Batches /\ batches[runners[r].batch] \in Batch
           /\ batches[runners[r].batch].status # "none"
           /\ runners[r].at \in 1..Total + 1
           /\ runners[r].pc # "replaying" => calls[r] = NoCall
  BY RunKinds DEF Typed, Linked, BatchMap

LEMMA SetRun ==
    ASSUME Typed, Linked, NEW r \in Runners, NEW x \in Run \cup {NoRun}, StillKnown,
           runners' = [runners EXCEPT ![r] = x],
           x.pc \in {"replaying", "failed", "done"} => x.at <= Total,
           x # NoRun => batches'[x.batch].status # "none"
    PROVE  RunsLinked /\ runners'[r] = x /\ \A q \in Runners \ {r} : runners'[q] = runners[q]
  <1>1. \A q \in Runners : runners[q] # NoRun => runners[q].batch \in Batches
    BY RunKinds DEF Typed
  <1> QED
    BY <1>1 DEF RunsLinked, Linked, StillKnown, Typed

\* A goroutine makes x of itself and y of its batch.
Moves(r, x, y) ==
    LET b == runners[r].batch IN
    /\ runners[r].pc \notin {"idle", "replaying"}
    /\ x \in Run \cup {NoRun} /\ y \in Batch
    /\ x.pc # "replaying" /\ (x.pc \in {"failed", "done"} => x.at <= Total)
    /\ x # NoRun => x.batch = b
    /\ y.status # "none" /\ y.item = batches[b].item /\ y.work = batches[b].work
    /\ runners' = [runners EXCEPT ![r] = x] /\ batches' = [batches EXCEPT ![b] = y]
    /\ SaveBatches \/ kept' = kept
    /\ UNCHANGED <<know, shadow, calls, admins, vouched, cut, crossed, retries>>

\* A goroutine makes x of itself and does something to its replay.
Replays(r, x) ==
    /\ runners[r].pc # "idle" /\ x \in Run
    /\ x.batch = runners[r].batch /\ x.at = runners[r].at /\ x.at <= Total
    /\ runners' = [runners EXCEPT ![r] = x]
    /\ CallStep(r) /\ (calls'[r] # NoCall => x.pc = "replaying")
    /\ UNCHANGED <<batches, admins, vouched, crossed, retries>>

LEMMA MovesStay ==
    ASSUME Typed, Linked, NEW r \in Runners, NEW x, NEW y, Moves(r, x, y)
    PROVE  Typed' /\ Linked'
  <1>1. batches' \in BatchMap /\ Known(batches)' /\ StillKnown
    BY RunIs, BatchChanges DEF Moves
  <1>2. batches'[runners[r].batch].status # "none"
    BY RunIs, <1>1 DEF StillKnown, Moves
  <1>3. RunsLinked /\ runners'[r] = x /\ \A q \in Runners \ {r} : runners'[q] = runners[q]
    BY <1>1, <1>2, SetRun DEF Moves
  <1>4. \A q \in Runners : calls[q] # NoCall => runners'[q].pc = "replaying"
    BY <1>3, RunIs DEF Linked, Moves
  <1> QED
    BY <1>1, <1>3, <1>4, BatchLinks DEF RunsLinked, StillKnown, Typed, Moves

LEMMA ReplaysStay ==
    ASSUME Typed, Linked, NEW r \in Runners, NEW x, Replays(r, x)
    PROVE  Typed' /\ Linked'
  <1>1. StillKnown
    BY DEF StillKnown, Replays
  <1>2. RunsLinked /\ runners'[r] = x /\ \A q \in Runners \ {r} : runners'[q] = runners[q]
    BY <1>1, RunIs, SetRun DEF Replays
  <1>3. \A q \in Runners : calls'[q] # NoCall => runners'[q].pc = "replaying"
    BY <1>2 DEF Linked, CallStep, Replays
  <1>4. Typed'
    BY <1>2 DEF Typed, CallStep, AllCalls, RunsLinked, Replays
  <1> QED
    BY <1>2, <1>3, <1>4 DEF Linked, CallStep, RunsLinked, Known, Replays

\* What each step of a goroutine makes of itself and of its batch.
LEMMA BeginsMoves ==
    ASSUME Typed, Linked, NEW r \in Runners, RunnerBegins(r)
    PROVE  LET old == batches[runners[r].batch] IN
           \E x \in Run, y \in Batch :
              /\ Moves(r, x, y) /\ x # NoRun
              /\ runners[r].pc = "spawned" /\ x.pc = "next" /\ x.at = runners[r].at
              /\ y.status = "running" /\ y.completed = old.completed /\ y.stopped = old.stopped
  <1> DEFINE old == batches[runners[r].batch]
             x == [runners[r] EXCEPT !.pc = "next"]
             y == [old EXCEPT !.status = "running"]
  <1>1. /\ runners[r].pc = "spawned" /\ runners[r] \in Run /\ old \in Batch
        /\ runners[r].batch \in Batches
    BY RunIs DEF RunnerBegins
  <1>2. x \in Run /\ x.pc = "next" /\ x.batch = runners[r].batch /\ x.at = runners[r].at
    BY <1>1, RunMoves
  <1>3. /\ y \in Batch /\ y.status = "running" /\ y.item = old.item /\ y.work = old.work
        /\ y.completed = old.completed /\ y.stopped = old.stopped
    BY <1>1 DEF Batch, BatchStatus
  <1>4. runners' = [runners EXCEPT ![r] = x] /\ batches' = [batches EXCEPT ![runners[r].batch] = y]
    BY <1>1 DEF RunnerBegins, Typed, BatchMap, Batch
  <1> HIDE DEF x, y
  <1>5. Moves(r, x, y)
    BY <1>1, <1>2, <1>3, <1>4 DEF Moves, RunnerBegins
  <1>6. x # NoRun
    BY <1>2 DEF NoRun
  <1> QED
    BY <1>1, <1>2, <1>3, <1>5, <1>6

LEMMA SameBatch ==
    ASSUME Typed, NEW b \in Batches, batches' = batches
    PROVE  batches' = [batches EXCEPT ![b] = batches[b]]
  BY DEF Typed, BatchMap

LEMMA QuitsMoves ==
    ASSUME Typed, Linked, NEW r \in Runners, RunnerQuits(r)
    PROVE  LET old == batches[runners[r].batch] IN
           \E y \in Batch :
              /\ Moves(r, NoRun, y) /\ runners[r].pc = "next"
              /\ \/ y = old /\ old.status # "running"
                 \/ /\ old.status = "running" /\ y.status = "stopped"
                    /\ y.completed = old.completed /\ y.stopped = old.stopped
  <1> DEFINE b == runners[r].batch
             old == batches[b]
             y == [old EXCEPT !.status = "stopped"]
  <1>1. /\ runners[r].pc = "next" /\ b \in Batches /\ old \in Batch /\ old.status # "none"
    BY RunIs DEF RunnerQuits
  <1>2. NoRun.pc = "idle"
    BY DEF NoRun
  <1>3. /\ y \in Batch /\ y.status = "stopped" /\ y.item = old.item /\ y.work = old.work
        /\ y.completed = old.completed /\ y.stopped = old.stopped
    BY <1>1 DEF Batch, BatchStatus
  <1>4. /\ runners' = [runners EXCEPT ![r] = NoRun] /\ (SaveBatches \/ kept' = kept)
        /\ UNCHANGED <<know, shadow, calls, admins, vouched, cut, crossed, retries>>
    BY DEF RunnerQuits
  <1>5. CASE old.status # "running" /\ batches' = batches
    <2>1. batches' = [batches EXCEPT ![b] = old]
      BY <1>1, <1>5, SameBatch
    <2>2. Moves(r, NoRun, old)
      BY <1>1, <1>2, <1>4, <2>1 DEF Moves
    <2> QED
      BY <1>1, <1>5, <2>2
  <1>6. CASE old.status = "running" /\ batches' = [batches EXCEPT ![b] = y]
    <2> HIDE DEF y
    <2>1. Moves(r, NoRun, y)
      BY <1>1, <1>2, <1>3, <1>4, <1>6 DEF Moves
    <2> QED
      BY <1>1, <1>3, <1>6, <2>1
  <1>7. \/ old.status # "running" /\ batches' = batches
        \/ old.status = "running" /\ batches' = [batches EXCEPT ![b] = y]
    BY <1>1 DEF RunnerQuits, Typed, BatchMap, Batch
  <1> QED
    BY <1>5, <1>6, <1>7

LEMMA CountsMoves ==
    ASSUME Typed, Linked, NEW r \in Runners, RunnerCounts(r)
    PROVE  LET old == batches[runners[r].batch] IN
           \E x \in Run, y \in Batch :
              /\ Moves(r, x, y) /\ x # NoRun /\ runners[r].at <= Total
              /\ runners[r].pc # "spawned" /\ x.pc = "next" /\ x.at = runners[r].at + 1
              /\ \/ old.status = "stopped" /\ y = old
                 \/ /\ y.status = old.status /\ old.status # "stopped"
                    /\ y.completed = old.completed + 1 /\ y.stopped = old.stopped
  <1> DEFINE b == runners[r].batch
             old == batches[b]
             x == [runners[r] EXCEPT !.pc = "next", !.at = @ + 1]
             f == IF runners[r].pc = "failed" THEN old.failed + 1 ELSE old.failed
             y == [old EXCEPT !.completed = old.completed + 1, !.failed = f]
  <1>1. /\ runners[r].pc \in {"failed", "done"} /\ runners[r] \in Run /\ b \in Batches
        /\ old \in Batch /\ old.status # "none" /\ runners[r].at <= Total
    BY RunIs DEF RunnerCounts, Linked
  <1>2. x \in Run /\ x.pc = "next" /\ x.batch = b /\ x.at = runners[r].at + 1
    BY <1>1, RunMoves
  <1>3. old.completed + 1 \in Nat /\ f \in Nat
    BY <1>1 DEF Batch
  <1>4. /\ runners' = [runners EXCEPT ![r] = x] /\ SaveBatches
        /\ UNCHANGED <<know, shadow, calls, admins, vouched, cut, crossed, retries>>
    BY DEF RunnerCounts
  <1>5. batches' = IF old.status = "stopped" THEN batches ELSE [batches EXCEPT ![b] = y]
    BY <1>1 DEF RunnerCounts, Typed, BatchMap, Batch
  <1>6. /\ y \in Batch /\ y.status = old.status /\ y.item = old.item /\ y.work = old.work
        /\ y.completed = old.completed + 1 /\ y.stopped = old.stopped
    <2> HIDE DEF f
    <2> QED
      BY <1>1, <1>3 DEF Batch
  <1> HIDE DEF x, y
  <1>7. x # NoRun
    BY <1>2 DEF NoRun
  <1>8. CASE old.status = "stopped"
    <2>1. batches' = [batches EXCEPT ![b] = old]
      BY <1>1, <1>5, <1>8, SameBatch
    <2>2. Moves(r, x, old)
      BY <1>1, <1>2, <1>4, <2>1 DEF Moves
    <2> QED
      BY <1>1, <1>2, <1>7, <1>8, <2>2
  <1>9. CASE old.status # "stopped"
    <2>1. Moves(r, x, y)
      BY <1>1, <1>2, <1>4, <1>5, <1>6, <1>9 DEF Moves
    <2> QED
      BY <1>1, <1>2, <1>6, <1>7, <1>9, <2>1
  <1> QED
    BY <1>8, <1>9

LEMMA EndsMoves ==
    ASSUME Typed, Linked, NEW r \in Runners, RunnerEnds(r)
    PROVE  LET old == batches[runners[r].batch] IN
           \E y \in Batch :
              /\ Moves(r, NoRun, y) /\ runners[r].pc = "next" /\ runners[r].at = Total + 1
              /\ \/ y = old /\ old.status # "running"
                 \/ /\ old.status = "running" /\ y.status \in {"failed", "completed"}
                    /\ y.completed = old.completed /\ y.stopped = old.stopped
  <1> DEFINE b == runners[r].batch
             old == batches[b]
             to == IF old.failed > 0 THEN "failed" ELSE "completed"
             y == [old EXCEPT !.status = to]
  <1>1. /\ runners[r].pc = "next" /\ b \in Batches /\ old \in Batch /\ old.status # "none"
        /\ runners[r].at \in 1..Total + 1 /\ runners[r].at > Total
    BY RunIs DEF RunnerEnds
  <1>2. runners[r].at = Total + 1 /\ NoRun.pc = "idle"
    BY <1>1, ShadowAssumption DEF NoRun
  <1>3. to \in {"failed", "completed"}
    OBVIOUS
  <1>4. /\ runners' = [runners EXCEPT ![r] = NoRun] /\ SaveBatches
        /\ UNCHANGED <<know, shadow, calls, admins, vouched, cut, crossed, retries>>
    BY DEF RunnerEnds
  <1>5. batches' = IF old.status # "running" THEN batches ELSE [batches EXCEPT ![b] = y]
    BY <1>1 DEF RunnerEnds, Typed, BatchMap, Batch
  <1> HIDE DEF to
  <1>6. /\ y \in Batch /\ y.status = to /\ y.item = old.item /\ y.work = old.work
        /\ y.completed = old.completed /\ y.stopped = old.stopped
    BY <1>1, <1>3 DEF Batch, BatchStatus
  <1> HIDE DEF y
  <1>7. CASE old.status # "running"
    <2>1. batches' = [batches EXCEPT ![b] = old]
      BY <1>1, <1>5, <1>7, SameBatch
    <2>2. Moves(r, NoRun, old)
      BY <1>1, <1>2, <1>4, <2>1 DEF Moves
    <2> QED
      BY <1>1, <1>2, <1>7, <2>2
  <1>8. CASE old.status = "running"
    <2>1. Moves(r, NoRun, y)
      BY <1>1, <1>2, <1>3, <1>4, <1>5, <1>6, <1>8 DEF Moves
    <2> QED
      BY <1>1, <1>2, <1>3, <1>6, <1>8, <2>1
  <1> QED
    BY <1>7, <1>8

LEMMA ReplaysMoves ==
    ASSUME Typed, Linked, NEW r \in Runners, RunnerReplays(r)
    PROVE  LET b == runners[r].batch IN
           \E x \in Run :
              /\ runners[r].pc = "next" /\ x.at = runners[r].at /\ x # NoRun
              /\ \/ Moves(r, x, batches[b]) /\ x.pc = "failed"
                 \/ /\ Replays(r, x) /\ x.pc = "replaying" /\ know' = know /\ kept'.know = kept.know
                    /\ kept'.batches = kept.batches /\ \E id \in Replay : Begin(r, id)
  <1> DEFINE b == runners[r].batch
             id == [batch |-> b, item |-> batches[b].item, task |-> batches[b].work[runners[r].at]]
  <1>1. /\ runners[r].pc = "next" /\ b \in Batches /\ batches[b] \in Batch
        /\ batches[b].status # "none" /\ runners[r] \in Run
        /\ runners[r].at \in 1..Total /\ runners[r].at <= Total
    BY RunIs, ShadowAssumption DEF RunnerReplays
  <1>2. id \in Replay
    BY <1>1 DEF Replay, Linked, Known
  <1>3. UNCHANGED <<know, batches, admins, vouched, crossed, retries>>
    BY DEF RunnerReplays
  <1>4. \/ Begin(r, id) /\ runners' = [runners EXCEPT ![r].pc = "replaying"]
        \/ runners' = [runners EXCEPT ![r].pc = "failed"] /\ UNCHANGED <<shadow, cut, kept, calls>>
    BY DEF RunnerReplays
  <1> HIDE DEF id
  <1>5. CASE Begin(r, id) /\ runners' = [runners EXCEPT ![r].pc = "replaying"]
    <2> DEFINE x == [runners[r] EXCEPT !.pc = "replaying"]
    <2>1. x \in Run /\ x.pc = "replaying" /\ x.batch = b /\ x.at = runners[r].at
      BY <1>1, RunMoves
    <2>2. runners' = [runners EXCEPT ![r] = x]
      BY <1>1, <1>5 DEF Typed, Run
    <2> HIDE DEF x
    <2>3. CallStep(r) /\ kept'.know = kept.know
      BY <1>2, <1>3, <1>5, BeginSteps
    <2>4. Replays(r, x) /\ x # NoRun
      BY <1>1, <1>3, <2>1, <2>2, <2>3 DEF Replays, NoRun
    <2> QED
      BY <1>1, <1>2, <1>3, <1>5, <2>1, <2>3, <2>4 DEF CallStep
  <1>6. CASE runners' = [runners EXCEPT ![r].pc = "failed"] /\ UNCHANGED <<shadow, cut, kept, calls>>
    <2> DEFINE x == [runners[r] EXCEPT !.pc = "failed"]
    <2>1. x \in Run /\ x.pc = "failed" /\ x.batch = b /\ x.at = runners[r].at
      BY <1>1, RunMoves
    <2>2. runners' = [runners EXCEPT ![r] = x]
      BY <1>1, <1>6 DEF Typed, Run
    <2> HIDE DEF x
    <2>3. batches' = [batches EXCEPT ![b] = batches[b]]
      BY <1>1, <1>3, SameBatch
    <2>4. Moves(r, x, batches[b])
      BY <1>1, <1>3, <1>6, <2>1, <2>2, <2>3 DEF Moves
    <2>5. x # NoRun
      BY <2>1 DEF NoRun
    <2> QED
      BY <1>1, <2>1, <2>4, <2>5
  <1> QED
    BY <1>4, <1>5, <1>6

LEMMA ReturnsMoves ==
    ASSUME Typed, Linked, NEW r \in Runners, RunnerReturns(r)
    PROVE  /\ \/ Fails(r) \/ Records(r) \/ \E good \in BOOLEAN : Answers(r, good)
           /\ \E x \in Run :
                /\ Replays(r, x) /\ runners[r].pc = "replaying" /\ x # NoRun
                /\ x.pc \in {"failed", "replaying", "done"}
  <1>1. calls[r] # NoCall
    BY DEF RunnerReturns, Fails, Answers, Records, NoCall
  <1>2. /\ runners[r].pc = "replaying" /\ runners[r] \in Run /\ runners[r].at <= Total
        /\ runners[r] # NoRun
    BY <1>1, RunIs DEF Linked
  <1>3. ASSUME NEW to \in {"failed", "done"}, runners' = [runners EXCEPT ![r].pc = to],
               CallStep(r), calls'[r] = NoCall,
               UNCHANGED <<batches, admins, vouched, crossed, retries>>
        PROVE  \E x \in Run : Replays(r, x) /\ x # NoRun /\ x.pc = to
    <2> DEFINE x == [runners[r] EXCEPT !.pc = to]
    <2>1. x \in Run /\ x.pc = to /\ x.batch = runners[r].batch /\ x.at = runners[r].at
      BY <1>2 DEF Run
    <2>2. runners' = [runners EXCEPT ![r] = x]
      BY <1>2, <1>3 DEF Typed, Run
    <2> HIDE DEF x
    <2>3. Replays(r, x)
      BY <1>2, <1>3, <2>1, <2>2 DEF Replays
    <2>4. x # NoRun
      BY <2>1 DEF NoRun
    <2> QED
      BY <2>1, <2>3, <2>4
  <1>4. CASE Fails(r) /\ runners' = [runners EXCEPT ![r].pc = "failed"]
    <2>1. CallStep(r) /\ calls'[r] = NoCall /\ UNCHANGED <<batches, admins, vouched, crossed, retries>>
      BY <1>4, FailsSteps DEF Fails
    <2> QED
      BY <1>2, <1>3, <1>4, <2>1
  <1>5. CASE Records(r) /\ runners' = [runners EXCEPT ![r].pc = "done"]
    <2>1. CallStep(r) /\ calls'[r] = NoCall /\ UNCHANGED <<batches, admins, vouched, crossed, retries>>
      BY <1>5, RecordsSteps DEF Records
    <2> QED
      BY <1>2, <1>3, <1>5, <2>1
  <1>6. ASSUME NEW good \in BOOLEAN, Answers(r, good)
        PROVE  Replays(r, runners[r])
    <2>1. runners' = [runners EXCEPT ![r] = runners[r]]
      BY <1>6 DEF Answers, Typed
    <2>2. CallStep(r) /\ UNCHANGED <<batches, admins, vouched, crossed, retries>>
      BY <1>6, AnswersSteps DEF Answers
    <2> QED
      BY <1>2, <2>1, <2>2 DEF Replays
  <1> QED
    BY <1>2, <1>4, <1>5, <1>6 DEF RunnerReturns

LEMMA RunnerStays ==
    ASSUME Typed, Linked, NEW r \in Runners, RunnerStep(r)
    PROVE  Typed' /\ Linked'
  <1>1. CASE RunnerBegins(r)
    BY <1>1, BeginsMoves, MovesStay
  <1>2. CASE RunnerQuits(r)
    BY <1>2, QuitsMoves, MovesStay
  <1>3. CASE RunnerReplays(r)
    BY <1>3, ReplaysMoves, MovesStay, ReplaysStay
  <1>4. CASE RunnerReturns(r)
    BY <1>4, ReturnsMoves, ReplaysStay
  <1>5. CASE RunnerCounts(r)
    BY <1>5, CountsMoves, MovesStay
  <1>6. CASE RunnerEnds(r)
    BY <1>6, EndsMoves, MovesStay
  <1> QED
    BY <1>1, <1>2, <1>3, <1>4, <1>5, <1>6 DEF RunnerStep

LEMMA ReopenMoves ==
    ASSUME Typed, Linked, ReopenShadow
    PROVE  /\ know' \in KnowMap /\ kept' \in Kept
           /\ kept'.know = kept.know /\ kept'.shadow = kept.shadow
           /\ kept'.batches \in {batches', kept.batches}
           /\ batches' \in BatchMap
           /\ \A b \in Batches :
                 \/ /\ batches'[b] = kept.batches[b]
                    /\ kept.batches[b].status \notin {"pending", "running"}
                 \/ /\ batches'[b] = [kept.batches[b] EXCEPT !.status = "stopped"]
                    /\ kept.batches[b].status \in {"pending", "running"}
  <1>1. kept \in Kept /\ kept.know \in KnowMap /\ kept.batches \in BatchMap
    BY DEF Typed, Kept
  <1>2. know' \in KnowMap
    BY <1>1, ExpiryKeeps DEF ReopenShadow
  <1>3. \A b \in Batches :
           \/ /\ batches'[b] = kept.batches[b]
              /\ kept.batches[b].status \notin {"pending", "running"}
           \/ /\ batches'[b] = [kept.batches[b] EXCEPT !.status = "stopped"]
              /\ kept.batches[b].status \in {"pending", "running"}
    BY DEF ReopenShadow
  <1>4. \A b \in Batches : batches'[b] \in Batch
    <2>1. ASSUME NEW b \in Batches
          PROVE  batches'[b] \in Batch
      <3>1. kept.batches[b] \in Batch
        BY <1>1 DEF BatchMap
      <3>2. [kept.batches[b] EXCEPT !.status = "stopped"] \in Batch
        BY <3>1 DEF Batch, BatchStatus
      <3> QED
        BY <1>3, <3>1, <3>2
    <2> QED
      BY <2>1
  <1>5. batches' \in BatchMap
    BY <1>4 DEF ReopenShadow, BatchMap
  <1>6. SaveBatches
    BY DEF ReopenShadow
  <1> QED
    BY <1>1, <1>2, <1>3, <1>5, <1>6, SavedBatches

LEMMA ReopenStays ==
    ASSUME Typed, Linked, ReopenShadow
    PROVE  Typed' /\ Linked'
  <1>1. /\ know' \in KnowMap /\ kept' \in Kept /\ batches' \in BatchMap
        /\ kept'.batches \in {batches', kept.batches}
    BY ReopenMoves
  <1>2. /\ shadow' \in ShadowMap /\ calls' \in AllCalls
        /\ runners' \in [Runners -> Run \cup {NoRun}] /\ admins' \in [Admins -> Task \cup {NoTask}]
        /\ cut' \subseteq Replay
        /\ UNCHANGED <<vouched, crossed, retries>>
    BY DEF ReopenShadow, Typed, Kept, AllCalls
  <1>3. Typed'
    BY <1>1, <1>2 DEF Typed, AllCalls
  <1>4. Known(batches)'
    <2>1. ASSUME NEW b \in Batches, batches'[b].status # "none"
          PROVE  batches'[b].item \in Items /\ batches'[b].work \in [1..Total -> Tasks]
      <3>1. /\ kept.batches[b] \in Batch /\ kept.batches[b].status # "none"
            /\ batches'[b] \in {kept.batches[b], [kept.batches[b] EXCEPT !.status = "stopped"]}
        BY <2>1, ReopenMoves DEF Typed, Kept, BatchMap
      <3>2. batches'[b].item = kept.batches[b].item /\ batches'[b].work = kept.batches[b].work
        BY <3>1 DEF Batch
      <3> QED
        BY <3>1, <3>2 DEF Linked, Known
    <2> QED
      BY <2>1 DEF Known
  <1>5. Known(kept.batches)'
    BY <1>1, <1>4 DEF Linked, Known
  <1>6. /\ \A r \in Runners : runners'[r] = NoRun /\ calls'[r] = NoCall
        /\ \A a \in Admins : admins'[a] = NoTask
    BY DEF ReopenShadow
  <1> QED
    BY <1>3, <1>4, <1>5, <1>6 DEF Linked, NoRun, NoTask

LEMMA SourcesStay ==
    ASSUME Sources, VerdictsStep \/ Reload
    PROVE  Sources'
  <1>1. CASE Reload
    BY <1>1 DEF Reload, Sources
  <1>2. ASSUME source' \in [Tasks -> Source], Save
        PROVE  Sources'
    BY <1>2 DEF Save, Sources
  <1>3. NoSource \in Source /\ \A k \in Items \cup {"none"} : [kept |-> TRUE, item |-> k] \in Source
    BY DEF NoSource, Source
  <1>4. ASSUME NEW t \in Tasks, Record(t)
        PROVE  Sources'
    BY <1>2, <1>3, <1>4 DEF Record, Sources
  <1>5. ASSUME NEW t \in Tasks, NEW k \in Items \cup {"none"}, Judge(t, k)
        PROVE  Sources'
    BY <1>2, <1>3, <1>5 DEF Judge, Sources
  <1>6. ASSUME NEW S \in SUBSET Tasks, Prune(S)
        PROVE  Sources'
    BY <1>2, <1>3, <1>6 DEF Prune, Sources
  <1> QED
    BY <1>1, <1>4, <1>5, <1>6 DEF VerdictsStep

\* The steps by what they are about.
LEMMA Steps ==
    ASSUME ShadowStep
    PROVE  \/ KnowledgeStep
           \/ \E b \in Batches, k \in Items, work \in [1..Total -> Tasks] : StartBatch(b, k, work)
           \/ \E b \in Batches : Stop(b)
           \/ \E a \in Admins, b \in Batches : ConsiderRetry(a, b)
           \/ \E a \in Admins : Retry(a)
           \/ \E c \in Callers : CallerStep(c)
           \/ \E r \in Runners : RunnerStep(r)
           \/ \E S \in SUBSET Replay : PruneShadow(S)
  BY DEF ShadowStep, KnowledgeStep

LEMMA InitIsWellFormed == Init => WellFormed
  <1> SUFFICES ASSUME Init PROVE Sources /\ Typed /\ Linked
    BY WellFormedIs
  <1>1. Sources
    BY DEF Init, VerdictsInit, Sources, NoSource, Source
  <1>2. know \in KnowMap
    BY DEF Init, ShadowInit, KnowMap, Knowledge, KnowledgeStatus
  <1>3. NoBatch \in Batch /\ NoBatch.status = "none"
    BY DEF NoBatch, Batch, BatchStatus
  <1>4. /\ batches \in BatchMap /\ \A b \in Batches : batches[b].status = "none"
        /\ shadow \in ShadowMap
    BY <1>3 DEF Init, ShadowInit, BatchMap, ShadowMap
  <1>5. kept \in Kept /\ kept.batches = batches
    BY <1>2, <1>4 DEF Init, ShadowInit, Kept
  <1>6. Typed
    BY <1>2, <1>4, <1>5, ShadowAssumption DEF Init, ShadowInit, Typed
  <1>7. Linked
    BY <1>4, <1>5 DEF Init, ShadowInit, Linked, Known, NoRun, NoCall, NoTask
  <1> QED
    BY <1>1, <1>6, <1>7

LEMMA StaysWellFormed == WellFormed /\ [Next]_vars => WellFormed'
  <1> SUFFICES ASSUME Sources, Typed, Linked, [Next]_vars
               PROVE  Sources' /\ Typed' /\ Linked'
    <2>1. WellFormed' <=> Sources' /\ Typed' /\ Linked'
      BY WellFormedIs, PTL
    <2> QED
      BY <2>1, WellFormedIs
  <1>1. CASE VerdictsStep /\ UNCHANGED shadowVars
    BY <1>1, SourcesStay DEF shadowVars, Typed, Linked, Known
  <1>2. CASE ShadowStep /\ UNCHANGED <<source, saved>>
    <2>1. Sources'
      BY <1>2 DEF Sources
    <2>2. Typed' /\ Linked'
      BY <1>2, Steps, KnowledgeStays, StartStays, StopStays, ConsiderRetryStays, RetryStays,
         CallerStays, RunnerStays, PruneStays
    <2> QED
      BY <2>1, <2>2
  <1>3. CASE Reload /\ ReopenShadow
    BY <1>3, SourcesStay, ReopenStays
  <1>4. CASE UNCHANGED vars
    BY <1>4 DEF vars, shadowVars, Sources, Typed, Linked, Known
  <1> QED
    BY <1>1, <1>2, <1>3, <1>4 DEF Next

\* Every reachable state is well formed, and so has its types.
THEOREM ShadowIsWellFormed == Spec => []WellFormed
  BY InitIsWellFormed, StaysWellFormed, PTL DEF Spec

THEOREM ShadowTypes == Spec => []TypeOK
  <1>1. WellFormed => TypeOK
    BY DEF WellFormed
  <1> QED
    BY <1>1, ShadowIsWellFormed, PTL

-----------------------------------------------------------------------------
(* Evidence.                                                               *)

\* Evidence counts once, in memory and in the file; what nobody has vouched for
\* is trusted for what administrators report; and a replay under way is one of
\* something that was trusted when it began.
EvidenceInv ==
    /\ \A k \in Items : Counted(know[k]) /\ Counted(kept.know[k])
    /\ \A k \in Items \ vouched : Earned(know[k]) /\ Earned(kept.know[k])
    /\ \A c \in Runners \cup Callers :
          calls[c] # NoCall /\ calls[c].id.item \notin vouched =>
              know[calls[c].id.item].status \in Settled

SoundKnowledge ==
    /\ vouched \subseteq vouched' /\ kept'.know \in {know', kept.know}
    /\ \A k \in Items :
          /\ Counted(know'[k])
          /\ k \notin vouched' => /\ Earned(know'[k])
                                  /\ know[k].status \in Settled => know'[k].status \in Settled

CallsFollow ==
    \A c \in Runners \cup Callers : calls'[c] # NoCall =>
        \/ know[calls'[c].id.item].status = "trusted"
        \/ calls[c] # NoCall /\ calls[c].id = calls'[c].id

LEMMA EvidenceStays ==
    ASSUME Typed', EvidenceInv, SoundKnowledge, CallsFollow
    PROVE  EvidenceInv'
  <1>1. \A c \in Runners \cup Callers : calls'[c] # NoCall => calls'[c].id.item \in Items
    BY CallKinds DEF Typed
  <1>2. \A k \in Items : Counted(kept'.know[k])
    BY DEF EvidenceInv, SoundKnowledge
  <1>3. \A k \in Items \ vouched' : Earned(kept'.know[k])
    BY DEF EvidenceInv, SoundKnowledge
  <1>4. ASSUME NEW c \in Runners \cup Callers, calls'[c] # NoCall, calls'[c].id.item \notin vouched'
        PROVE  know'[calls'[c].id.item].status \in Settled
    <2>1. know[calls'[c].id.item].status \in Settled
      BY <1>4 DEF CallsFollow, EvidenceInv, SoundKnowledge, Settled
    <2> QED
      BY <1>1, <1>4, <2>1 DEF SoundKnowledge
  <1> QED
    BY <1>2, <1>3, <1>4 DEF EvidenceInv, SoundKnowledge

LEMMA SameKnowledge ==
    ASSUME EvidenceInv, UNCHANGED <<know, vouched>>, kept'.know = kept.know
    PROVE  SoundKnowledge
  BY DEF EvidenceInv, SoundKnowledge

LEMMA SameCalls ==
    ASSUME calls' = calls
    PROVE  CallsFollow
  BY DEF CallsFollow

\* A validation keeps the evidence sound.
LEMMA ValidationSound ==
    ASSUME Typed, EvidenceInv, NEW k \in Items, NEW id \in Manual \cup Replay, NEW good \in BOOLEAN,
           RecordValidation(k, id, good), vouched' = vouched,
           id \in Manual \/ k \in vouched \/ know[k].status \in Settled
    PROVE  SoundKnowledge
  <1> DEFINE n == WithValidation(know[k], id, good)
  <1>1. /\ kept'.know \in {know', kept.know} /\ know[k] \in Knowledge
        /\ know' = [know EXCEPT ![k] = n]
    BY ValidationSaved
  <1>2. Counted(n)
    BY <1>1, ValidationCounts DEF EvidenceInv
  <1>3. k \notin vouched => Earned(n) /\ (know[k].status \in Settled => n.status = know[k].status)
    BY <1>1, ValidationEarns DEF EvidenceInv
  <1> HIDE DEF n
  <1>4. \A i \in Items : know'[i] = IF i = k THEN n ELSE know[i]
    BY <1>1 DEF Typed, KnowMap
  <1> QED
    BY <1>1, <1>2, <1>3, <1>4 DEF EvidenceInv, SoundKnowledge

\* One item changes, but not its evidence.
LEMMA StatusSound ==
    ASSUME Typed, EvidenceInv, NEW k \in Items, NEW x \in Knowledge,
           know' = [know EXCEPT ![k] = x], kept'.know \in {know', kept.know}, vouched \subseteq vouched',
           x.ids = know[k].ids, x.samples = know[k].samples, x.good = know[k].good,
           \/ k \in vouched'
           \/ x.status = know[k].status
           \/ know[k].status = "none" /\ x.status = "proposed"
           \/ x.status = "rejected"
    PROVE  SoundKnowledge
  <1>1. \A i \in Items : know'[i] = IF i = k THEN x ELSE know[i]
    BY DEF Typed, KnowMap
  <1>2. Counted(x)
    BY DEF EvidenceInv, Counted
  <1>3. k \notin vouched' => Earned(x) /\ (know[k].status \in Settled => x.status \in Settled)
    BY DEF EvidenceInv, Earned, Settled
  <1> QED
    BY <1>1, <1>2, <1>3 DEF EvidenceInv, SoundKnowledge

LEMMA KnowledgeSound ==
    ASSUME Typed, Linked, Sources, EvidenceInv, KnowledgeStep
    PROVE  SoundKnowledge /\ CallsFollow
  <1>1. know \in KnowMap /\ kept \in Kept
    BY DEF Typed
  <1>2. CallsFollow
    BY SameCalls DEF KnowledgeStep, Build, Validate, Restore, Consider, Expire, ChangeStatus
  <1>3. ASSUME NEW t \in Tasks, Build(t)
        PROVE  SoundKnowledge
    <2> DEFINE k == source[t].item
    <2>1. PICK to \in KnowledgeStatus :
             /\ to = IF know[k].status = "none" THEN "proposed" ELSE know[k].status
             /\ know' = [know EXCEPT ![k] = [know[k] EXCEPT !.sources = {t}, !.status = to]]
      BY <1>3, BuildSteps
    <2>2. k \in Items /\ know' \in KnowMap /\ SaveKnowledge /\ vouched' = vouched /\ know[k] \in Knowledge
      BY <1>1, <1>3, BuildSteps DEF Build, KnowMap
    <2> DEFINE x == [know[k] EXCEPT !.sources = {t}, !.status = to]
    <2>3. /\ x \in Knowledge /\ x.ids = know[k].ids /\ x.samples = know[k].samples
          /\ x.good = know[k].good /\ x.status = to
      BY <2>2 DEF Knowledge
    <2> HIDE DEF x, k
    <2>4. kept'.know \in {know', kept.know}
      BY <1>1, <2>2, SavedKnowledge
    <2> QED
      BY <2>1, <2>2, <2>3, <2>4, StatusSound DEF x
  <1>4. ASSUME NEW k \in Items, NEW id \in Manual, NEW good \in BOOLEAN, Validate(k, id, good)
        PROVE  SoundKnowledge
    BY <1>4, ValidationSound DEF Validate
  <1>5. ASSUME NEW k \in Items, NEW to \in {"validated", "trusted"}, Restore(k, to)
        PROVE  SoundKnowledge
    <2> DEFINE x == [know[k] EXCEPT !.status = to, !.expires = TRUE]
    <2>1. /\ know[k] \in Knowledge /\ know' = [know EXCEPT ![k] = x] /\ SaveKnowledge
          /\ vouched' = vouched \cup {k}
      BY <1>1, <1>5 DEF Restore, KnowMap, Knowledge
    <2>2. x \in Knowledge /\ x.ids = know[k].ids /\ x.samples = know[k].samples /\ x.good = know[k].good
      BY <2>1 DEF Knowledge, KnowledgeStatus
    <2> HIDE DEF x
    <2>3. kept'.know \in {know', kept.know}
      BY <1>1, <2>1, <2>2, SavedKnowledge DEF KnowMap
    <2> QED
      BY <2>1, <2>2, <2>3, StatusSound
  <1>6. ASSUME NEW a \in Admins, NEW k \in Items, NEW to \in {"validated", "trusted", "rejected"},
               Consider(a, k, to)
        PROVE  SoundKnowledge
    BY <1>6, SameKnowledge DEF Consider
  <1>7. ASSUME NEW K \in SUBSET Items, Expire(K)
        PROVE  SoundKnowledge
    <2>1. know' = Expired(know, K) /\ SaveKnowledge /\ vouched' = vouched
      BY <1>7 DEF Expire
    <2>2. know' \in KnowMap /\ kept'.know \in {know', kept.know}
      BY <1>1, <2>1, ExpiryKeeps, SavedKnowledge
    <2> QED
      BY <1>1, <2>1, <2>2, ExpiryKeeps DEF EvidenceInv, SoundKnowledge
  <1>8. ASSUME NEW a \in Admins, ChangeStatus(a)
        PROVE  SoundKnowledge
    <2> DEFINE k == admins[a].item
               to == admins[a].to
               x == [know[k] EXCEPT !.status = to]
    <2>1. k \in Items /\ to \in KnowledgeStatus
      BY <1>8, TaskKinds DEF ChangeStatus, Typed
    <2>2. /\ x \in Knowledge /\ x.ids = know[k].ids /\ x.samples = know[k].samples
          /\ x.good = know[k].good /\ x.status = to
      BY <1>1, <2>1 DEF Knowledge, KnowMap
    <2>3. CASE know[k].status = to
      BY <1>8, <2>3, SameKnowledge DEF ChangeStatus
    <2>4. CASE know[k].status # to
      <3>1. /\ know' = [know EXCEPT ![k] = x] /\ SaveKnowledge
            /\ vouched' = IF to = "rejected" THEN vouched ELSE vouched \cup {k}
        BY <1>1, <1>8, <2>1, <2>4 DEF ChangeStatus, KnowMap, Knowledge
      <3> HIDE DEF x, k, to
      <3>2. kept'.know \in {know', kept.know}
        BY <1>1, <2>1, <2>2, <3>1, SavedKnowledge DEF KnowMap
      <3>3. vouched \subseteq vouched' /\ (k \in vouched' \/ x.status = "rejected")
        BY <2>2, <3>1
      <3> QED
        BY <2>1, <2>2, <3>1, <3>2, <3>3, StatusSound
    <2> QED
      BY <2>3, <2>4
  <1> QED
    BY <1>2, <1>3, <1>4, <1>5, <1>6, <1>7, <1>8 DEF KnowledgeStep

\* A step of a call keeps the evidence sound: what it records is no longer to
\* be trusted, and what it begins with is trusted.
LEMMA CallSound ==
    ASSUME Typed, EvidenceInv, NEW c \in Runners \cup Callers, vouched' = vouched,
           \/ \E id \in Replay : Begin(c, id) /\ know' = know
           \/ Fails(c) \/ Records(c) \/ \E good \in BOOLEAN : Answers(c, good)
    PROVE  SoundKnowledge /\ CallsFollow
  <1>1. ASSUME NEW id \in Replay, Begin(c, id), know' = know
        PROVE  SoundKnowledge /\ CallsFollow
    <2>1. CallStep(c) /\ calls'[c] = [pc |-> "calling", id |-> id] /\ kept'.know = kept.know
      BY <1>1, BeginSteps
    <2>2. know[id.item].status = "trusted"
      BY <1>1 DEF Begin, Replayable
    <2> QED
      BY <1>1, <2>1, <2>2, SameKnowledge DEF CallsFollow, CallStep
  <1>2. CASE Fails(c)
    BY <1>2, FailsSteps, SameKnowledge DEF CallsFollow, CallStep, Fails
  <1>3. ASSUME NEW good \in BOOLEAN, Answers(c, good)
        PROVE  SoundKnowledge /\ CallsFollow
    <2>1. /\ CallStep(c) /\ kept'.know = kept.know
          /\ calls'[c] = [pc |-> "answered", id |-> calls[c].id, good |-> good]
      BY <1>3, AnswersSteps
    <2>2. know' = know /\ calls[c].pc = "calling"
      BY <1>3 DEF Answers
    <2>3. calls'[c].id = calls[c].id
      BY <2>1
    <2>4. calls[c] # NoCall
      BY <2>2 DEF NoCall
    <2> QED
      BY <2>1, <2>2, <2>3, <2>4, SameKnowledge DEF CallsFollow, CallStep
  <1>4. CASE Records(c)
    <2>1. CallStep(c) /\ calls'[c] = NoCall
      BY <1>4, RecordsSteps
    <2>2. /\ calls[c].id \in Replay /\ calls[c].id.item \in Items /\ calls[c].good \in BOOLEAN
          /\ calls[c] # NoCall
      BY <1>4, CallIs DEF Records, NoCall
    <2>3. RecordValidation(calls[c].id.item, calls[c].id, calls[c].good)
      BY <1>4 DEF Records
    <2>4. calls[c].id.item \in vouched \/ know[calls[c].id.item].status \in Settled
      BY <2>2 DEF EvidenceInv
    <2>5. SoundKnowledge
      BY <2>2, <2>3, <2>4, ValidationSound
    <2> QED
      BY <2>1, <2>5 DEF CallsFollow, CallStep
  <1> QED
    BY <1>1, <1>2, <1>3, <1>4

\* What a replay of its own does is a step of its call.
LEMMA CallerCalls ==
    ASSUME NEW c \in Callers, CallerStep(c)
    PROVE  /\ \/ \E id \in Replay : Begin(c, id) /\ know' = know
              \/ Fails(c) \/ Records(c) \/ \E good \in BOOLEAN : Answers(c, good)
           /\ UNCHANGED <<vouched, batches, runners, admins, crossed>>
  <1>1. ASSUME NEW k \in Items, NEW t \in Tasks, Single(c, k, t)
        PROVE  /\ \E id \in Replay : Begin(c, id) /\ know' = know
               /\ UNCHANGED <<vouched, batches, runners, admins, crossed>>
    <2> DEFINE id == [batch |-> "none", item |-> k, task |-> t]
    <2>1. id \in Replay
      BY DEF Replay
    <2>2. Begin(c, id) /\ UNCHANGED <<know, vouched, batches, runners, admins, crossed>>
      BY <1>1 DEF Single
    <2> HIDE DEF id
    <2> QED
      BY <2>1, <2>2
  <1>2. CASE Fails(c) /\ UNCHANGED runners
    BY <1>2 DEF Fails
  <1>3. CASE Records(c) /\ UNCHANGED runners
    BY <1>3 DEF Records
  <1>4. CASE \E good \in BOOLEAN : Answers(c, good)
    BY <1>4 DEF Answers
  <1> QED
    BY <1>1, <1>2, <1>3, <1>4 DEF CallerStep

\* The steps that only concern batches and who works on them.
LEMMA BatchSteps ==
    ASSUME Typed, Typed',
           \/ \E b \in Batches, k \in Items, work \in [1..Total -> Tasks] : StartBatch(b, k, work)
           \/ \E b \in Batches : Stop(b)
           \/ \E a \in Admins, b \in Batches : ConsiderRetry(a, b)
           \/ \E a \in Admins : Retry(a)
    PROVE  /\ UNCHANGED <<know, vouched, shadow, calls, cut>>
           /\ kept'.know = kept.know /\ kept'.batches \in {batches', kept.batches}
  <1>1. kept \in Kept /\ batches' \in BatchMap
    BY DEF Typed
  <1>2. UNCHANGED <<know, vouched, shadow, calls, cut>> /\ (SaveBatches \/ kept' = kept)
    BY DEF StartBatch, Stop, ConsiderRetry, Retry
  <1> QED
    BY <1>1, <1>2, SavedBatches

LEMMA MovesSaved ==
    ASSUME Typed, Typed', NEW r \in Runners, NEW x, NEW y, Moves(r, x, y)
    PROVE  /\ UNCHANGED <<know, vouched, shadow, calls, cut>>
           /\ kept'.know = kept.know /\ kept'.batches \in {batches', kept.batches}
  <1>1. kept \in Kept /\ batches' \in BatchMap
    BY DEF Typed
  <1> QED
    BY <1>1, SavedBatches DEF Moves

\* What a goroutine does is a step on its batch, or a step of its call.
LEMMA RunnerKinds ==
    ASSUME Typed, Linked, NEW r \in Runners, RunnerStep(r)
    PROVE  \/ \E x, y : Moves(r, x, y)
           \/ /\ \/ \E id \in Replay : Begin(r, id) /\ know' = know
                 \/ Fails(r) \/ Records(r) \/ \E good \in BOOLEAN : Answers(r, good)
              /\ \E x : Replays(r, x)
  BY BeginsMoves, QuitsMoves, ReplaysMoves, ReturnsMoves, CountsMoves, EndsMoves DEF RunnerStep

LEMMA EvidenceStep ==
    ASSUME WellFormed, EvidenceInv, [Next]_vars
    PROVE  EvidenceInv'
  <1>1. Sources /\ Typed /\ Linked
    BY WellFormedIs
  <1>2. Typed'
    <2>1. WellFormed' => Typed'
      BY WellFormedIs, PTL
    <2> QED
      BY <2>1, StaysWellFormed
  <1>3. CASE ShadowStep /\ UNCHANGED <<source, saved>>
    <2>1. CASE KnowledgeStep
      BY <1>1, <1>2, <2>1, KnowledgeSound, EvidenceStays
    <2>2. ASSUME UNCHANGED <<know, vouched, calls>>, kept'.know = kept.know
          PROVE  EvidenceInv'
      BY <1>2, <2>2, SameKnowledge, SameCalls, EvidenceStays
    <2>3. CASE \/ \E b \in Batches, k \in Items, work \in [1..Total -> Tasks] : StartBatch(b, k, work)
               \/ \E b \in Batches : Stop(b)
               \/ \E a \in Admins, b \in Batches : ConsiderRetry(a, b)
               \/ \E a \in Admins : Retry(a)
      BY <1>1, <1>2, <2>2, <2>3, BatchSteps
    <2>4. CASE \E c \in Callers : CallerStep(c)
      <3>1. PICK c \in Callers : CallerStep(c)
        BY <2>4
      <3>2. c \in Runners \cup Callers
        OBVIOUS
      <3>3. SoundKnowledge /\ CallsFollow
        BY <1>1, <3>1, <3>2, CallerCalls, CallSound
      <3> QED
        BY <1>2, <3>3, EvidenceStays
    <2>5. CASE \E r \in Runners : RunnerStep(r)
      <3>1. PICK r \in Runners : RunnerStep(r)
        BY <2>5
      <3>2. CASE \E x, y : Moves(r, x, y)
        BY <1>1, <1>2, <2>2, <3>2, MovesSaved
      <3>3. CASE /\ \/ \E id \in Replay : Begin(r, id) /\ know' = know
                    \/ Fails(r) \/ Records(r) \/ \E good \in BOOLEAN : Answers(r, good)
                 /\ \E x : Replays(r, x)
        <4>1. r \in Runners \cup Callers /\ vouched' = vouched
          BY <3>3 DEF Replays
        <4>2. SoundKnowledge /\ CallsFollow
          BY <1>1, <3>3, <4>1, CallSound
        <4> QED
          BY <1>2, <4>2, EvidenceStays
      <3> QED
        BY <1>1, <3>1, <3>2, <3>3, RunnerKinds
    <2>6. ASSUME NEW S \in SUBSET Replay, PruneShadow(S)
          PROVE  EvidenceInv'
      <3>1. UNCHANGED <<know, vouched, calls>> /\ SaveShadow
        BY <2>6 DEF PruneShadow
      <3>2. kept'.know = kept.know
        BY <1>1, <1>2, <3>1, SavedShadow DEF Typed
      <3> QED
        BY <2>2, <3>1, <3>2
    <2> QED
      BY <1>3, <2>1, <2>3, <2>4, <2>5, <2>6, Steps
  <1>4. CASE Reload /\ ReopenShadow
    <2>1. PICK K \in SUBSET Items : know' = Expired(kept.know, K)
      BY <1>4 DEF ReopenShadow
    <2>2. kept.know \in KnowMap /\ kept'.know = kept.know
      BY <1>1, <1>4, ReopenMoves DEF Typed, Kept
    <2>3. vouched' = vouched /\ \A c \in Runners \cup Callers : calls'[c] = NoCall
      BY <1>4 DEF ReopenShadow
    <2>4. \A k \in Items : Counted(know'[k]) /\ (k \notin vouched => Earned(know'[k]))
      BY <2>1, <2>2, ExpiryKeeps DEF EvidenceInv
    <2> QED
      BY <2>2, <2>3, <2>4 DEF EvidenceInv
  <1>5. CASE UNCHANGED <<know, kept, vouched, calls>>
    BY <1>5 DEF EvidenceInv
  <1> QED
    BY <1>3, <1>4, <1>5 DEF Next, vars, shadowVars

LEMMA EvidenceStarts == Init => EvidenceInv
  <1> SUFFICES ASSUME Init PROVE EvidenceInv
    OBVIOUS
  <1>1. \A k \in Items : /\ know[k].ids = {} /\ know[k].samples = 0 /\ know[k].good = 0
                         /\ know[k].status = "none" /\ kept.know[k] = know[k]
    BY DEF Init, ShadowInit
  <1>2. \A c \in Runners \cup Callers : calls[c] = NoCall
    BY DEF Init, ShadowInit
  <1>3. IsFiniteSet({}) /\ Cardinality({}) = 0
    BY FS_EmptySet
  <1>4. ASSUME NEW k \in Items
        PROVE  Counted(know[k]) /\ Earned(know[k])
    <2>1. IsFiniteSet(know[k].ids) /\ Cardinality(know[k].ids) = 0
      BY <1>1, <1>3
    <2> QED
      BY <1>1, <2>1 DEF Counted, Earned
  <1> QED
    BY <1>1, <1>2, <1>4 DEF EvidenceInv

THEOREM EvidenceIsSound == Spec => []EvidenceInv
  BY EvidenceStarts, EvidenceStep, ShadowIsWellFormed, PTL DEF Spec

\* A replay that is repeated by a retried batch, by a second goroutine or after
\* a restart counts once.
THEOREM ReplaysCountOnce == Spec => []EvidenceCountsOnce
  <1>1. EvidenceInv => EvidenceCountsOnce
    BY DEF EvidenceInv, EvidenceCountsOnce, Counted
  <1> QED
    BY <1>1, EvidenceIsSound, PTL

\* Only what administrators report makes anything trusted.
THEOREM TrustIsEarned == Spec => []ReplaysEarnNoTrust
  <1>1. EvidenceInv => ReplaysEarnNoTrust
    BY DEF EvidenceInv, ReplaysEarnNoTrust, Earned
  <1> QED
    BY <1>1, EvidenceIsSound, PTL

-----------------------------------------------------------------------------
(* Results.                                                                *)

\* Somebody is waiting for the answer of a replay that runs, or was.
Awaited(id) == \E c \in Runners \cup Callers : calls[c].pc = "calling" /\ calls[c].id = id
ResultsInv == \A id \in Replay : shadow[id] = "running" => id \in cut \/ Awaited(id)

LEMMA CallResults ==
    ASSUME Typed, ResultsInv, NEW c \in Runners \cup Callers,
           \/ \E id \in Replay : Begin(c, id) /\ know' = know
           \/ Fails(c) \/ Records(c) \/ \E good \in BOOLEAN : Answers(c, good)
    PROVE  ResultsInv'
  <1>1. ASSUME NEW id \in Replay, Begin(c, id), know' = know
        PROVE  ResultsInv'
    <2>1. /\ calls'[c] = [pc |-> "calling", id |-> id]
          /\ \A d \in (Runners \cup Callers) \ {c} : calls'[d] = calls[d]
      BY <1>1, BeginSteps DEF CallStep
    <2>2. calls'[c].pc = "calling" /\ calls'[c].id = id
      BY <2>1
    <2>3. /\ \A i \in Replay : shadow'[i] = IF i = id THEN "running" ELSE shadow[i]
          /\ cut' = cut \ {id} /\ calls[c].pc = "idle"
      BY <1>1 DEF Begin, Typed, ShadowMap, NoCall
    <2>4. \A i \in Replay \ {id} : Awaited(i) => Awaited(i)'
      BY <2>1, <2>3 DEF Awaited
    <2>5. Awaited(id)'
      BY <2>2 DEF Awaited
    <2> QED
      BY <2>3, <2>4, <2>5 DEF ResultsInv
  <1>2. ASSUME NEW status \in {"completed", "failed"}, Result(calls[c].id, status), cut' = cut,
               calls[c].id \in Replay,
               \A d \in (Runners \cup Callers) \ {c} : calls'[d] = calls[d]
        PROVE  ResultsInv'
    <2>1. \A i \in Replay : shadow'[i] = IF i = calls[c].id THEN status ELSE shadow[i]
      BY <1>2, ResultSaved DEF Typed, ShadowMap
    <2>2. \A i \in Replay \ {calls[c].id} : Awaited(i) => Awaited(i)'
      BY <1>2 DEF Awaited
    <2> QED
      BY <1>2, <2>1, <2>2 DEF ResultsInv
  <1>3. CASE Fails(c)
    BY <1>2, <1>3, FailsSteps, CallIs DEF Fails, CallStep
  <1>4. ASSUME NEW good \in BOOLEAN, Answers(c, good)
        PROVE  ResultsInv'
    BY <1>2, <1>4, AnswersSteps, CallIs DEF Answers, CallStep
  <1>5. CASE Records(c)
    <2>1. /\ shadow' = shadow /\ cut' = cut /\ calls[c].pc # "calling"
          /\ \A d \in (Runners \cup Callers) \ {c} : calls'[d] = calls[d]
      BY <1>5, RecordsSteps DEF Records, CallStep
    <2> QED
      BY <2>1 DEF ResultsInv, Awaited
  <1> QED
    BY <1>1, <1>3, <1>4, <1>5

LEMMA ResultsStep ==
    ASSUME WellFormed, ResultsInv, [Next]_vars
    PROVE  ResultsInv'
  <1>1. Sources /\ Typed /\ Linked
    BY WellFormedIs
  <1>2. Typed'
    <2>1. WellFormed' => Typed'
      BY WellFormedIs, PTL
    <2> QED
      BY <2>1, StaysWellFormed
  <1>3. ASSUME UNCHANGED <<shadow, calls, cut>>
        PROVE  ResultsInv'
    BY <1>3 DEF ResultsInv, Awaited
  <1>4. CASE ShadowStep
    <2>1. CASE KnowledgeStep
      <3>1. UNCHANGED <<shadow, calls, cut>>
        BY <2>1 DEF KnowledgeStep, Build, Validate, Restore, Consider, Expire, ChangeStatus
      <3> QED
        BY <1>3, <3>1
    <2>2. CASE \/ \E b \in Batches, k \in Items, work \in [1..Total -> Tasks] : StartBatch(b, k, work)
               \/ \E b \in Batches : Stop(b)
               \/ \E a \in Admins, b \in Batches : ConsiderRetry(a, b)
               \/ \E a \in Admins : Retry(a)
      BY <1>1, <1>2, <1>3, <2>2, BatchSteps
    <2>3. CASE \E c \in Callers : CallerStep(c)
      <3>1. PICK c \in Runners \cup Callers :
               \/ \E id \in Replay : Begin(c, id) /\ know' = know
               \/ Fails(c) \/ Records(c) \/ \E good \in BOOLEAN : Answers(c, good)
        BY <2>3, CallerCalls
      <3> QED
        BY <1>1, <3>1, CallResults
    <2>4. CASE \E r \in Runners : RunnerStep(r)
      <3>1. PICK r \in Runners : RunnerStep(r)
        BY <2>4
      <3>2. CASE \E x, y : Moves(r, x, y)
        BY <1>1, <1>2, <1>3, <3>2, MovesSaved
      <3>3. CASE \/ \E id \in Replay : Begin(r, id) /\ know' = know
                 \/ Fails(r) \/ Records(r) \/ \E good \in BOOLEAN : Answers(r, good)
        <4>1. r \in Runners \cup Callers
          OBVIOUS
        <4> QED
          BY <1>1, <3>3, <4>1, CallResults
      <3> QED
        BY <1>1, <3>1, <3>2, <3>3, RunnerKinds
    <2>5. ASSUME NEW S \in SUBSET Replay, PruneShadow(S)
          PROVE  ResultsInv'
      BY <2>5 DEF PruneShadow, ResultsInv, Awaited
    <2> QED
      BY <1>4, <2>1, <2>2, <2>3, <2>4, <2>5, Steps
  <1>5. CASE ReopenShadow
    BY <1>5 DEF ReopenShadow, ResultsInv
  <1> QED
    BY <1>3, <1>4, <1>5 DEF Next, vars, shadowVars

LEMMA ResultsStart == Init => ResultsInv
  BY DEF Init, ShadowInit, ResultsInv

\* A result that says "running" has its call, unless a restart cut it off.
THEOREM RunningHasItsCall == Spec => []RunningIsRun
  <1>1. ResultsInv => RunningIsRun
    BY DEF ResultsInv, Awaited, RunningIsRun
  <1> QED
    BY <1>1, ResultsStart, ResultsStep, ShadowIsWellFormed, PTL DEF Spec

-----------------------------------------------------------------------------
(* What was rejected or has expired.                                       *)

\* What may bring it back.
Revival(k) ==
    \/ \E to \in {"validated", "trusted"} : Restore(k, to)
    \/ \E a \in Admins : ChangeStatus(a) /\ admins[a].item = k
    \/ Reload /\ ReopenShadow /\ kept.know[k].status \notin {"rejected", "expired"}

LEMMA ValidationRevives ==
    ASSUME Typed, NEW k \in Items, Gone(k), NEW j \in Items, NEW id \in Manual \cup Replay,
           NEW good \in BOOLEAN, RecordValidation(j, id, good)
    PROVE  Gone(k)'
  <1>1. /\ know[j] \in Knowledge /\ know' = [know EXCEPT ![j] = WithValidation(know[j], id, good)]
    BY ValidationSaved
  <1>2. CASE j = k
    <2>1. WithValidation(know[k], id, good).status = know[k].status
      BY <1>1, <1>2, ValidationCases DEF Gone
    <2> QED
      BY <1>1, <1>2, <2>1 DEF Gone, Typed, KnowMap
  <1>3. CASE j # k
    BY <1>1, <1>3 DEF Gone, Typed, KnowMap
  <1> QED
    BY <1>2, <1>3

LEMMA CallRevives ==
    ASSUME Typed, NEW k \in Items, Gone(k), NEW c \in Runners \cup Callers,
           \/ \E id \in Replay : Begin(c, id) /\ know' = know
           \/ Fails(c) \/ Records(c) \/ \E good \in BOOLEAN : Answers(c, good)
    PROVE  Gone(k)'
  <1>1. CASE know' = know
    BY <1>1 DEF Gone
  <1>2. CASE Records(c)
    BY <1>2, CallIs, ValidationRevives DEF Records
  <1> QED
    BY <1>1, <1>2 DEF Fails, Answers

LEMMA KnowledgeRevives ==
    ASSUME Typed, Sources, NEW k \in Items, Gone(k), KnowledgeStep
    PROVE  Gone(k)' \/ Revival(k)
  <1>1. know \in KnowMap /\ know[k] \in Knowledge
    BY DEF Typed, KnowMap
  <1>2. ASSUME NEW t \in Tasks, Build(t)
        PROVE  Gone(k)'
    <2> DEFINE j == source[t].item
    <2>1. PICK to \in KnowledgeStatus :
             /\ to = IF know[j].status = "none" THEN "proposed" ELSE know[j].status
             /\ know' = [know EXCEPT ![j] = [know[j] EXCEPT !.sources = {t}, !.status = to]]
      BY <1>2, BuildSteps
    <2>2. j \in Items
      BY <1>2, BuildSteps
    <2> HIDE DEF j
    <2>3. CASE j = k
      BY <1>1, <2>1, <2>3 DEF Gone, KnowMap, Knowledge
    <2>4. CASE j # k
      BY <1>1, <2>1, <2>4 DEF Gone, KnowMap
    <2> QED
      BY <2>3, <2>4
  <1>3. ASSUME NEW j \in Items, NEW id \in Manual, NEW good \in BOOLEAN, Validate(j, id, good)
        PROVE  Gone(k)'
    BY <1>3, ValidationRevives DEF Validate
  <1>4. ASSUME NEW j \in Items, NEW to \in {"validated", "trusted"}, Restore(j, to)
        PROVE  Gone(k)' \/ Revival(k)
    <2>1. CASE j = k
      BY <1>4, <2>1 DEF Revival
    <2>2. CASE j # k
      BY <1>1, <1>4, <2>2 DEF Restore, Gone, KnowMap
    <2> QED
      BY <2>1, <2>2
  <1>5. ASSUME NEW a \in Admins, NEW j \in Items, NEW to \in {"validated", "trusted", "rejected"},
               Consider(a, j, to)
        PROVE  Gone(k)'
    BY <1>5 DEF Consider, Gone
  <1>6. ASSUME NEW K \in SUBSET Items, Expire(K)
        PROVE  Gone(k)'
    BY <1>1, <1>6, ExpiryKeeps DEF Expire, Gone
  <1>7. ASSUME NEW a \in Admins, ChangeStatus(a)
        PROVE  Gone(k)' \/ Revival(k)
    <2>1. CASE admins[a].item = k
      BY <1>7, <2>1 DEF Revival
    <2>2. CASE admins[a].item # k
      BY <1>1, <1>7, <2>2 DEF ChangeStatus, Gone, KnowMap
    <2> QED
      BY <2>1, <2>2
  <1> QED
    BY <1>2, <1>3, <1>4, <1>5, <1>6, <1>7 DEF KnowledgeStep

\* What was rejected or has expired comes back by a Restore, by a decision on
\* this item, or by a restart whose file still had it, and by no other step: no
\* verdict, no late replay, no report.
THEOREM NothingElseRevives == Spec => OnlyRestoreRevives
  <1>1. ASSUME WellFormed, Next, NEW k \in Items, Gone(k)
        PROVE  Gone(k)' \/ Revival(k)
    <2>1. Sources /\ Typed /\ Linked
      BY <1>1, WellFormedIs
    <2>2. ASSUME know' = know
          PROVE  Gone(k)'
      BY <1>1, <2>2 DEF Gone
    <2>3. CASE ShadowStep
      <3>1. CASE KnowledgeStep
        BY <1>1, <2>1, <3>1, KnowledgeRevives
      <3>2. CASE \/ \E b \in Batches, j \in Items, work \in [1..Total -> Tasks] : StartBatch(b, j, work)
                 \/ \E b \in Batches : Stop(b)
                 \/ \E a \in Admins, b \in Batches : ConsiderRetry(a, b)
                 \/ \E a \in Admins : Retry(a)
                 \/ \E S \in SUBSET Replay : PruneShadow(S)
        BY <2>2, <3>2 DEF StartBatch, Stop, ConsiderRetry, Retry, PruneShadow
      <3>3. CASE \E c \in Callers : CallerStep(c)
        <4>1. PICK c \in Runners \cup Callers :
                 \/ \E id \in Replay : Begin(c, id) /\ know' = know
                 \/ Fails(c) \/ Records(c) \/ \E good \in BOOLEAN : Answers(c, good)
          BY <3>3, CallerCalls
        <4> QED
          BY <1>1, <2>1, <4>1, CallRevives
      <3>4. ASSUME NEW r \in Runners, RunnerStep(r)
            PROVE  Gone(k)'
        <4>1. CASE \E x, y : Moves(r, x, y)
          BY <2>2, <4>1 DEF Moves
        <4>2. CASE \/ \E id \in Replay : Begin(r, id) /\ know' = know
                   \/ Fails(r) \/ Records(r) \/ \E good \in BOOLEAN : Answers(r, good)
          <5>1. r \in Runners \cup Callers
            OBVIOUS
          <5> QED
            BY <1>1, <2>1, <4>2, <5>1, CallRevives
        <4> QED
          BY <2>1, <3>4, <4>1, <4>2, RunnerKinds
      <3> QED
        BY <2>3, <3>1, <3>2, <3>3, <3>4, Steps
    <2>4. CASE Reload /\ ReopenShadow
      <3>1. PICK K \in SUBSET Items : know' = Expired(kept.know, K)
        BY <2>4 DEF ReopenShadow
      <3>2. kept.know \in KnowMap
        BY <2>1 DEF Typed, Kept
      <3>3. know'[k].status \in {kept.know[k].status, "expired"}
        BY <3>1, <3>2, ExpiryKeeps
      <3> QED
        BY <2>4, <3>3 DEF Gone, Revival
    <2>5. CASE VerdictsStep /\ UNCHANGED shadowVars
      BY <2>2, <2>5 DEF shadowVars
    <2> QED
      BY <1>1, <2>3, <2>4, <2>5 DEF Next
  <1>2. WellFormed /\ [Next]_vars =>
          [\A k \in Items : Gone(k) /\ ~Gone(k)' =>
              \/ \E to \in {"validated", "trusted"} : Restore(k, to)
              \/ \E a \in Admins : ChangeStatus(a) /\ admins[a].item = k
              \/ Reload /\ ReopenShadow /\ kept.know[k].status \notin {"rejected", "expired"}]_vars
    BY <1>1 DEF Revival
  <1> QED
    BY <1>2, ShadowIsWellFormed, PTL DEF Spec, OnlyRestoreRevives

-----------------------------------------------------------------------------
(* The counters of batches.                                                *)

\* The counters add up; nothing is stopped before the batch is.
Fits(y) ==
    /\ y.completed + y.stopped <= Total
    /\ y.status \in {"pending", "running"} => y.stopped = 0
    /\ y.status = "completed" => y.completed = Total

\* A goroutine that has not begun has a fresh batch, and one that has begun has
\* counted what it has replayed, unless the batch was stopped.
RunFits(x, y) ==
    /\ x.pc = "spawned" => y.status = "pending" /\ y.completed = 0 /\ y.stopped = 0 /\ x.at = 1
    /\ x.pc # "spawned" => /\ y.status \in {"running", "stopped"}
                           /\ y.status = "running" => y.completed = x.at - 1

\* Works(r, b): the goroutine r works on b.
Works(r, b) == runners[r] # NoRun /\ runners[r].batch = b

BatchInv ==
    \A b \in Batches \ crossed :
        /\ Fits(batches[b]) /\ Fits(kept.batches[b])
        /\ \A r \in Runners : Works(r, b) => RunFits(runners[r], batches[b])
        /\ \A r, q \in Runners : Works(r, b) /\ Works(q, b) => r = q

LEMMA BatchesAlone ==
    ASSUME BatchInv, UNCHANGED <<batches, runners, crossed>>, kept'.batches = kept.batches
    PROVE  BatchInv'
  BY DEF BatchInv, Works

\* What a goroutine makes of its batch fits, if its batch is one of those.
LEMMA MovesFit ==
    ASSUME Typed, Typed', Linked, BatchInv, NEW r \in Runners, NEW x, NEW y, Moves(r, x, y),
           runners[r].batch \notin crossed => Fits(y) /\ (x # NoRun => RunFits(x, y))
    PROVE  BatchInv'
  <1> DEFINE b == runners[r].batch
  <1>1. b \in Batches /\ runners[r] # NoRun /\ (x # NoRun => x.batch = b)
    BY RunIs DEF Moves
  <1>2. /\ \A q \in Runners : runners'[q] = IF q = r THEN x ELSE runners[q]
        /\ \A d \in Batches : batches'[d] = IF d = b THEN y ELSE batches[d]
        /\ crossed' = crossed
    BY DEF Moves, Typed, BatchMap
  <1>3. kept'.batches \in {batches', kept.batches}
    BY MovesSaved
  <1>4. ASSUME NEW d \in Batches \ crossed
        PROVE  /\ Fits(batches'[d]) /\ Fits(kept'.batches[d])
               /\ \A q \in Runners : Works(q, d)' => RunFits(runners'[q], batches'[d])
               /\ \A p, q \in Runners : Works(p, d)' /\ Works(q, d)' => p = q
    <2>1. Fits(batches'[d]) /\ Fits(kept'.batches[d])
      BY <1>2, <1>3, <1>4 DEF BatchInv
    <2>2. \A q \in Runners : Works(q, d)' => Works(q, d)
      BY <1>1, <1>2 DEF Works
    <2>3. ASSUME NEW q \in Runners, Works(q, d)'
          PROVE  RunFits(runners'[q], batches'[d])
      <3>1. CASE q = r
        BY <1>1, <1>2, <1>4, <2>3, <3>1 DEF Works
      <3>2. CASE q # r
        <4>1. d # b
          BY <1>1, <1>4, <2>2, <2>3, <3>2 DEF BatchInv, Works
        <4> QED
          BY <1>2, <1>4, <2>2, <2>3, <3>2, <4>1 DEF BatchInv
      <3> QED
        BY <3>1, <3>2
    <2> QED
      BY <1>4, <2>1, <2>2, <2>3 DEF BatchInv
  <1> QED
    BY <1>2, <1>4 DEF BatchInv

\* A goroutine for a batch that nobody works on, or that is none of those.
LEMMA SpawnFits ==
    ASSUME Typed, BatchInv, NEW b \in Batches, Spawn(b), NEW y,
           batches' = [batches EXCEPT ![b] = y], kept'.batches \in {batches', kept.batches},
           crossed \subseteq crossed',
           b \notin crossed' =>
              /\ y.status = "pending" /\ y.completed = 0 /\ y.stopped = 0
              /\ \A r \in Runners : ~Works(r, b)
    PROVE  BatchInv'
  <1>1. PICK r \in Runners :
          /\ runners[r] = NoRun
          /\ runners' = [runners EXCEPT ![r] = [pc |-> "spawned", batch |-> b, at |-> 1]]
    BY DEF Spawn
  <1> DEFINE x == [pc |-> "spawned", batch |-> b, at |-> 1]
  <1>2. x.pc = "spawned" /\ x.batch = b /\ x.at = 1
    OBVIOUS
  <1> HIDE DEF x
  <1>3. /\ \A q \in Runners : runners'[q] = IF q = r THEN x ELSE runners[q]
        /\ \A d \in Batches : batches'[d] = IF d = b THEN y ELSE batches[d]
    BY <1>1 DEF Typed, BatchMap, x
  <1>4. ASSUME NEW d \in Batches \ crossed'
        PROVE  /\ Fits(batches'[d]) /\ Fits(kept'.batches[d])
               /\ \A q \in Runners : Works(q, d)' => RunFits(runners'[q], batches'[d])
               /\ \A p, q \in Runners : Works(p, d)' /\ Works(q, d)' => p = q
    <2>1. CASE d = b
      <3>1. Fits(y) /\ RunFits(x, y)
        BY <1>2, <1>4, <2>1, ShadowAssumption DEF Fits, RunFits
      <3>2. Fits(batches'[d]) /\ Fits(kept'.batches[d])
        <4>1. d \in Batches \ crossed /\ batches'[d] = y
          BY <1>3, <1>4, <2>1
        <4>2. Fits(kept.batches[d])
          BY <4>1 DEF BatchInv
        <4> QED
          BY <3>1, <4>1, <4>2
      <3>3. \A q \in Runners : Works(q, d)' => q = r
        BY <1>3, <1>4, <2>1 DEF Works
      <3> QED
        BY <1>3, <2>1, <3>1, <3>2, <3>3
    <2>2. CASE d # b
      <3>1. d \notin crossed /\ batches'[d] = batches[d] /\ Fits(kept'.batches[d])
        BY <1>3, <1>4, <2>2 DEF BatchInv
      <3>2. \A q \in Runners : Works(q, d)' => q # r /\ Works(q, d) /\ runners'[q] = runners[q]
        BY <1>2, <1>3, <2>2 DEF Works
      <3> QED
        BY <3>1, <3>2 DEF BatchInv
    <2> QED
      BY <2>1, <2>2
  <1> QED
    BY <1>4 DEF BatchInv

LEMMA StartFits ==
    ASSUME Typed, Typed', Linked, BatchInv, NEW b \in Batches, NEW k \in Items,
           NEW work \in [1..Total -> Tasks], StartBatch(b, k, work)
    PROVE  BatchInv'
  <1> DEFINE x == [NoBatch EXCEPT !.status = "pending", !.item = k, !.work = work]
  <1>1. x.status = "pending" /\ x.completed = 0 /\ x.stopped = 0
    BY DEF NoBatch
  <1>2. batches' = [batches EXCEPT ![b] = x] /\ Spawn(b) /\ crossed' = crossed
        /\ batches[b].status = "none"
    BY DEF StartBatch
  <1> HIDE DEF x
  <1>3. kept'.batches \in {batches', kept.batches}
    BY BatchSteps
  <1>4. \A r \in Runners : ~Works(r, b)
    BY <1>2 DEF Works, Linked
  <1> QED
    BY <1>1, <1>2, <1>3, <1>4, SpawnFits

LEMMA RetryFits ==
    ASSUME Typed, Typed', Linked, BatchInv, NEW a \in Admins, Retry(a)
    PROVE  BatchInv'
  <1> DEFINE b == admins[a].batch
             x == [NoBatch EXCEPT !.status = "pending", !.item = batches[b].item,
                                  !.work = batches[b].work]
  <1>1. /\ b \in Batches /\ Spawn(b)
        /\ x.status = "pending" /\ x.completed = 0 /\ x.stopped = 0
        /\ \/ batches[b].status \notin {"failed", "stopped"} /\ batches' = batches
           \/ batches[b].status \in {"failed", "stopped"} /\ batches' = [batches EXCEPT ![b] = x]
    BY RetryBatch
  <1>2. crossed' = IF \/ batches[b].status \notin {"failed", "stopped"}
                      \/ \E r \in Runners : runners[r] # NoRun /\ runners[r].batch = b
                  THEN crossed \cup {b} ELSE crossed
    BY DEF Retry
  <1> HIDE DEF x, b
  <1>3. /\ crossed \subseteq crossed'
        /\ b \notin crossed' => /\ batches[b].status \in {"failed", "stopped"}
                               /\ \A r \in Runners : ~Works(r, b)
    BY <1>2 DEF Works
  <1>4. kept'.batches \in {batches', kept.batches}
    BY BatchSteps
  <1>5. CASE batches[b].status \in {"failed", "stopped"}
    BY <1>1, <1>3, <1>4, <1>5, SpawnFits
  <1>6. CASE batches[b].status \notin {"failed", "stopped"}
    <2>1. batches' = [batches EXCEPT ![b] = batches[b]]
      BY <1>1, <1>6, SameBatch
    <2> QED
      BY <1>1, <1>3, <1>4, <1>6, <2>1, SpawnFits
  <1> QED
    BY <1>5, <1>6

LEMMA StopFits ==
    ASSUME Typed, Typed', Linked, BatchInv, NEW b \in Batches, Stop(b)
    PROVE  BatchInv'
  <1>1. /\ runners' = runners /\ crossed \subseteq crossed' /\ batches \in BatchMap
        /\ b \notin crossed' => \A r \in Runners : Works(r, b) => runners[r].pc # "spawned"
    BY DEF Stop, Works, Typed
  <1>2. kept'.batches \in {batches', kept.batches}
    BY BatchSteps
  <1>3. CASE batches' = batches
    BY <1>1, <1>2, <1>3 DEF BatchInv, Works
  <1>4. ASSUME NEW n \in Nat, Unfinished(b),
               n = IF Total > batches[b].completed
                   THEN batches[b].stopped + Total - batches[b].completed ELSE batches[b].stopped,
               batches' = [batches EXCEPT ![b] = [batches[b] EXCEPT !.status = "stopped", !.stopped = n]]
        PROVE  BatchInv'
    <2> DEFINE y == [batches[b] EXCEPT !.status = "stopped", !.stopped = n]
    <2>1. /\ batches[b] \in Batch
          /\ batches[b].completed \in Nat /\ batches[b].stopped \in Nat /\ Total \in Nat
      BY <1>1, BatchMoves, ShadowAssumption DEF BatchMap
    <2>2. y.status = "stopped" /\ y.completed = batches[b].completed /\ y.stopped = n
      BY <2>1 DEF Batch
    <2>3. \A d \in Batches : batches'[d] = IF d = b THEN y ELSE batches[d]
      BY <1>1, <1>4 DEF BatchMap
    <2> HIDE DEF y
    <2>4. ASSUME b \notin crossed'
          PROVE  Fits(y) /\ \A r \in Runners : Works(r, b) => RunFits(runners[r], y)
      <3>1. Fits(batches[b]) /\ batches[b].stopped = 0
        BY <1>1, <1>4, <2>4 DEF BatchInv, Fits, Unfinished
      <3>2. y.completed + y.stopped <= Total
        BY <1>4, <2>1, <2>2, <3>1 DEF Fits
      <3> QED
        BY <1>1, <2>2, <2>4, <3>2 DEF Fits, RunFits
    <2>5. ASSUME NEW d \in Batches \ crossed'
          PROVE  /\ Fits(batches'[d]) /\ Fits(kept'.batches[d])
                 /\ \A r \in Runners : Works(r, d) => RunFits(runners[r], batches'[d])
                 /\ \A r, q \in Runners : Works(r, d) /\ Works(q, d) => r = q
      <3>1. d \in Batches \ crossed
        BY <1>1, <2>5
      <3>2. /\ Fits(batches[d]) /\ Fits(kept.batches[d])
            /\ \A r \in Runners : Works(r, d) => RunFits(runners[r], batches[d])
            /\ \A r, q \in Runners : Works(r, d) /\ Works(q, d) => r = q
        BY <3>1 DEF BatchInv
      <3>3. Fits(batches'[d]) /\ \A r \in Runners : Works(r, d) => RunFits(runners[r], batches'[d])
        BY <2>3, <2>4, <2>5, <3>2
      <3> QED
        BY <1>2, <3>2, <3>3
    <2> QED
      BY <1>1, <2>5 DEF BatchInv, Works
  <1> QED
    BY <1>3, <1>4, StopBatch

\* A replay leaves the counters alone.
LEMMA ReplaysFit ==
    ASSUME Typed, Linked, BatchInv, NEW r \in Runners, NEW x, Replays(r, x),
           runners[r].pc # "spawned", x.pc # "spawned"
    PROVE  BatchInv'
  <1>0. NoRun \notin Run
    BY DEF NoRun, Run
  <1>1. /\ x # NoRun /\ x.batch = runners[r].batch /\ x.at = runners[r].at /\ runners[r] # NoRun
        /\ batches' = batches /\ crossed' = crossed /\ kept'.batches = kept.batches
    BY <1>0, RunIs DEF Replays, CallStep
  <1>2. \A q \in Runners : runners'[q] = IF q = r THEN x ELSE runners[q]
    BY DEF Replays, Typed
  <1>3. \A q \in Runners, d \in Batches : Works(q, d)' <=> Works(q, d)
    BY <1>1, <1>2 DEF Works
  <1>4. \A d \in Batches : RunFits(runners[r], batches[d]) => RunFits(x, batches[d])
    BY <1>1 DEF RunFits
  <1>5. \A q \in Runners, d \in Batches \ crossed : Works(q, d)' => RunFits(runners'[q], batches'[d])
    BY <1>1, <1>2, <1>3, <1>4 DEF BatchInv
  <1> QED
    BY <1>1, <1>3, <1>5 DEF BatchInv

\* The goroutine itself keeps to the counters of its batch.
LEMMA RunnerFits ==
    ASSUME Typed, Typed', Linked, BatchInv, NEW r \in Runners, RunnerStep(r)
    PROVE  BatchInv'
  <1> DEFINE b == runners[r].batch
             old == batches[b]
  <1>1. ASSUME runners[r].pc # "idle"
        PROVE  /\ b \in Batches /\ old \in Batch /\ runners[r].at \in 1..Total + 1
               /\ old.completed \in Nat /\ old.stopped \in Nat /\ Total \in Nat
               /\ b \notin crossed => Fits(old) /\ RunFits(runners[r], old)
    BY <1>1, RunIs, BatchMoves, ShadowAssumption DEF Works, BatchInv
  <1>2. CASE RunnerBegins(r)
    <2>1. PICK x \in Run, y \in Batch :
             /\ Moves(r, x, y) /\ x # NoRun
             /\ runners[r].pc = "spawned" /\ x.pc = "next" /\ x.at = runners[r].at
             /\ y.status = "running" /\ y.completed = old.completed /\ y.stopped = old.stopped
      BY <1>2, BeginsMoves
    <2>2. b \notin crossed => Fits(y) /\ RunFits(x, y)
      BY <1>1, <2>1 DEF Fits, RunFits
    <2> QED
      BY <2>1, <2>2, MovesFit
  <1>3. CASE RunnerQuits(r)
    <2>1. PICK y \in Batch :
             /\ Moves(r, NoRun, y) /\ runners[r].pc = "next"
             /\ \/ y = old
                \/ /\ old.status = "running" /\ y.status = "stopped"
                   /\ y.completed = old.completed /\ y.stopped = old.stopped
      BY <1>3, QuitsMoves
    <2>2. b \notin crossed => Fits(y)
      BY <1>1, <2>1 DEF Fits
    <2> QED
      BY <2>1, <2>2, MovesFit
  <1>4. CASE RunnerReplays(r)
    <2>1. PICK x \in Run :
             /\ runners[r].pc = "next" /\ x.at = runners[r].at /\ x # NoRun
             /\ \/ Moves(r, x, old) /\ x.pc = "failed"
                \/ Replays(r, x) /\ x.pc = "replaying"
      BY <1>4, ReplaysMoves
    <2>2. CASE Moves(r, x, old) /\ x.pc = "failed"
      <3>1. b \notin crossed => Fits(old) /\ RunFits(x, old)
        BY <1>1, <2>1, <2>2 DEF RunFits
      <3> QED
        BY <2>2, <3>1, MovesFit
    <2> QED
      BY <2>1, <2>2, ReplaysFit
  <1>5. CASE RunnerReturns(r)
    BY <1>5, ReturnsMoves, ReplaysFit
  <1>6. CASE RunnerCounts(r)
    <2>1. PICK x \in Run, y \in Batch :
             /\ Moves(r, x, y) /\ x # NoRun /\ runners[r].at <= Total
             /\ runners[r].pc # "spawned" /\ x.pc = "next" /\ x.at = runners[r].at + 1
             /\ \/ old.status = "stopped" /\ y = old
                \/ /\ y.status = old.status /\ old.status # "stopped"
                   /\ y.completed = old.completed + 1 /\ y.stopped = old.stopped
      BY <1>6, CountsMoves
    <2>2. runners[r].pc # "idle"
      BY <2>1 DEF Moves
    <2>3. b \notin crossed => Fits(y) /\ RunFits(x, y)
      BY <1>1, <2>1, <2>2 DEF Fits, RunFits
    <2> QED
      BY <2>1, <2>3, MovesFit
  <1>7. CASE RunnerEnds(r)
    <2>1. PICK y \in Batch :
             /\ Moves(r, NoRun, y) /\ runners[r].pc = "next" /\ runners[r].at = Total + 1
             /\ \/ y = old
                \/ /\ old.status = "running" /\ y.status \in {"failed", "completed"}
                   /\ y.completed = old.completed /\ y.stopped = old.stopped
      BY <1>7, EndsMoves
    <2>2. b \notin crossed => Fits(y)
      BY <1>1, <2>1 DEF Fits, RunFits
    <2> QED
      BY <2>1, <2>2, MovesFit
  <1> QED
    BY <1>2, <1>3, <1>4, <1>5, <1>6, <1>7 DEF RunnerStep

\* A restart keeps what was saved, and stops what was not ended.
LEMMA ReopenFits ==
    ASSUME Typed, Linked, BatchInv, ReopenShadow
    PROVE  BatchInv'
  <1>1. /\ kept'.batches \in {batches', kept.batches} /\ crossed' = crossed
        /\ \A r \in Runners : runners'[r] = NoRun
    BY ReopenMoves DEF ReopenShadow
  <1>2. ASSUME NEW b \in Batches \ crossed
        PROVE  Fits(batches'[b]) /\ Fits(kept.batches[b])
    <2>1. kept.batches[b] \in Batch /\ Fits(kept.batches[b])
      BY DEF Typed, Kept, BatchMap, BatchInv
    <2>2. CASE batches'[b] = kept.batches[b]
      BY <2>1, <2>2
    <2>3. CASE batches'[b] = [kept.batches[b] EXCEPT !.status = "stopped"]
      <3>1. /\ batches'[b].status = "stopped" /\ batches'[b].completed = kept.batches[b].completed
            /\ batches'[b].stopped = kept.batches[b].stopped
        BY <2>1, <2>3 DEF Batch
      <3> QED
        BY <2>1, <3>1 DEF Fits
    <2> QED
      BY <2>1, <2>2, <2>3, ReopenMoves
  <1> QED
    BY <1>1, <1>2 DEF BatchInv, Works

LEMMA CallSteps ==
    ASSUME Typed, NEW c \in Runners \cup Callers,
           \/ \E id \in Replay : Begin(c, id) /\ know' = know
           \/ Fails(c) \/ Records(c) \/ \E good \in BOOLEAN : Answers(c, good)
    PROVE  CallStep(c)
  BY BeginSteps, FailsSteps, RecordsSteps, AnswersSteps

LEMMA BatchInvStep ==
    ASSUME WellFormed, BatchInv, [Next]_vars
    PROVE  BatchInv'
  <1>1. Sources /\ Typed /\ Linked
    BY WellFormedIs
  <1>2. Typed'
    <2>1. WellFormed' => Typed'
      BY WellFormedIs, PTL
    <2> QED
      BY <2>1, StaysWellFormed
  <1>3. CASE ShadowStep
    <2>1. CASE KnowledgeStep
      <3>1. /\ UNCHANGED <<batches, runners, crossed>> /\ (SaveKnowledge \/ kept' = kept)
            /\ know' \in KnowMap /\ kept \in Kept
        BY <1>1, <1>2, <2>1 DEF KnowledgeStep, Build, Validate, RecordValidation, Restore, Consider,
           Expire, ChangeStatus, Typed
      <3> QED
        BY <3>1, SavedKnowledge, BatchesAlone
    <2>2. CASE \E b \in Batches, k \in Items, work \in [1..Total -> Tasks] : StartBatch(b, k, work)
      BY <1>1, <1>2, <2>2, StartFits
    <2>3. CASE \E b \in Batches : Stop(b)
      BY <1>1, <1>2, <2>3, StopFits
    <2>4. CASE \E a \in Admins, b \in Batches : ConsiderRetry(a, b)
      BY <2>4, BatchesAlone DEF ConsiderRetry
    <2>5. CASE \E a \in Admins : Retry(a)
      BY <1>1, <1>2, <2>5, RetryFits
    <2>6. CASE \E c \in Callers : CallerStep(c)
      <3>1. PICK c \in Callers : CallerStep(c)
        BY <2>6
      <3>2. c \in Runners \cup Callers
        OBVIOUS
      <3>3. CallStep(c) /\ UNCHANGED <<batches, runners, crossed>>
        BY <1>1, <3>1, <3>2, CallerCalls, CallSteps
      <3> QED
        BY <3>3, BatchesAlone DEF CallStep
    <2>7. CASE \E r \in Runners : RunnerStep(r)
      BY <1>1, <1>2, <2>7, RunnerFits
    <2>8. ASSUME NEW S \in SUBSET Replay, PruneShadow(S)
          PROVE  BatchInv'
      <3>1. UNCHANGED <<batches, runners, crossed>> /\ SaveShadow /\ kept \in Kept /\ shadow' \in ShadowMap
        BY <1>1, <1>2, <2>8 DEF PruneShadow, Typed
      <3> QED
        BY <3>1, SavedShadow, BatchesAlone
    <2> QED
      BY <1>3, <2>1, <2>2, <2>3, <2>4, <2>5, <2>6, <2>7, <2>8, Steps
  <1>4. CASE ReopenShadow
    BY <1>1, <1>4, ReopenFits
  <1>5. CASE UNCHANGED <<batches, runners, crossed, kept>>
    BY <1>5, BatchesAlone
  <1> QED
    BY <1>3, <1>4, <1>5 DEF Next, vars, shadowVars

LEMMA BatchInvStarts == Init => BatchInv
  <1> SUFFICES ASSUME Init PROVE BatchInv
    OBVIOUS
  <1>1. \A b \in Batches : /\ batches[b].status = "none" /\ batches[b].completed = 0
                           /\ batches[b].stopped = 0 /\ kept.batches[b] = batches[b]
    BY DEF Init, ShadowInit, NoBatch
  <1>2. \A r \in Runners : runners[r] = NoRun
    BY DEF Init, ShadowInit
  <1> QED
    BY <1>1, <1>2, ShadowAssumption DEF BatchInv, Fits, Works

\* The counters of a batch add up, unless it was stopped before it began or
\* retried out of turn.
THEOREM BatchesAddUp == Spec => []BatchAddsUp
  <1>1. BatchInv => BatchAddsUp
    BY DEF BatchInv, Fits, BatchAddsUp
  <1> QED
    BY <1>1, BatchInvStarts, BatchInvStep, ShadowIsWellFormed, PTL DEF Spec

-----------------------------------------------------------------------------
(* Every batch is worked on, and its goroutines come to an end.            *)

\* A batch that waits has a goroutine that has not begun, and one that runs has
\* a goroutine.
Attended ==
    \A b \in Batches :
        /\ batches[b].status = "pending" =>
              \E r \in Runners : runners[r].pc = "spawned" /\ runners[r].batch = b
        /\ batches[b].status = "running" =>
              \E r \in Runners : runners[r] # NoRun /\ runners[r].batch = b

\* A goroutine that ends leaves no batch running, and none that begins or goes
\* on leaves one waiting that was not.
LEMMA AttendedMoves ==
    ASSUME Typed, Linked, Attended, NEW r \in Runners, NEW x, NEW y, Moves(r, x, y),
           x = NoRun => y.status # "running",
           y.status = "pending" => /\ batches[runners[r].batch].status = "pending"
                                   /\ runners[r].pc # "spawned"
    PROVE  Attended'
  <1> DEFINE b == runners[r].batch
  <1>1. /\ b \in Batches /\ runners[r].pc # "idle" /\ x # NoRun => x.batch = b
        /\ runners' = [runners EXCEPT ![r] = x] /\ batches' = [batches EXCEPT ![b] = y]
    BY RunIs DEF Moves
  <1>2. /\ runners'[r] = x /\ \A q \in Runners \ {r} : runners'[q] = runners[q]
        /\ batches'[b] = y /\ \A d \in Batches \ {b} : batches'[d] = batches[d]
    BY <1>1, RunIs DEF Typed, BatchMap, Moves
  <1>3. ASSUME NEW d \in Batches \ {b}
        PROVE  /\ batches'[d].status = "pending" =>
                     \E q \in Runners : runners'[q].pc = "spawned" /\ runners'[q].batch = d
               /\ batches'[d].status = "running" =>
                     \E q \in Runners : runners'[q] # NoRun /\ runners'[q].batch = d
    <2>1. \A q \in Runners : runners[q].batch = d => q # r
      OBVIOUS
    <2> QED
      BY <1>2, <1>3, <2>1 DEF Attended
  <1>4. /\ y.status = "pending" =>
              \E q \in Runners : runners'[q].pc = "spawned" /\ runners'[q].batch = b
        /\ y.status = "running" =>
              \E q \in Runners : runners'[q] # NoRun /\ runners'[q].batch = b
    <2>1. ASSUME y.status = "pending"
          PROVE  \E q \in Runners : runners'[q].pc = "spawned" /\ runners'[q].batch = b
      <3>1. PICK q \in Runners : runners[q].pc = "spawned" /\ runners[q].batch = b
        BY <2>1, RunIs DEF Attended, Moves
      <3> QED
        BY <1>2, <2>1, <3>1
    <2>2. ASSUME y.status = "running"
          PROVE  runners'[r] # NoRun /\ runners'[r].batch = b
      BY <1>2, <2>2 DEF Moves
    <2> QED
      BY <2>1, <2>2
  <1> HIDE DEF b
  <1> QED
    BY <1>2, <1>3, <1>4 DEF Attended

\* A goroutine that replays stays with its batch.
LEMMA AttendedReplays ==
    ASSUME Typed, Linked, Attended, NEW r \in Runners, NEW x, Replays(r, x), runners[r].pc # "spawned"
    PROVE  Attended'
  <1>1. /\ runners'[r] = x /\ \A q \in Runners \ {r} : runners'[q] = runners[q]
        /\ batches' = batches /\ x.batch = runners[r].batch
    BY DEF Typed, Replays
  <1>2. x # NoRun
    BY DEF Replays, Run, NoRun
  <1>3. \A q \in Runners : runners[q].pc = "spawned" => runners'[q] = runners[q]
    BY <1>1
  <1>4. \A q \in Runners : runners[q] # NoRun =>
            runners'[q] # NoRun /\ runners'[q].batch = runners[q].batch
    BY <1>1, <1>2
  <1> QED
    BY <1>1, <1>3, <1>4 DEF Attended

\* A goroutine that is started attends to its batch, whatever that becomes.
LEMMA AttendedSpawn ==
    ASSUME Typed, Attended, NEW b \in Batches, Spawn(b), NEW y, batches' = [batches EXCEPT ![b] = y]
    PROVE  Attended'
  <1> DEFINE x == [pc |-> "spawned", batch |-> b, at |-> 1]
  <1>1. PICK r \in Runners : runners[r] = NoRun /\ runners' = [runners EXCEPT ![r] = x]
    BY DEF Spawn
  <1>2. x.pc = "spawned" /\ x.batch = b /\ x # NoRun
    BY DEF NoRun
  <1> HIDE DEF x
  <1>3. /\ runners'[r] = x /\ \A q \in Runners \ {r} : runners'[q] = runners[q]
        /\ \A d \in Batches \ {b} : batches'[d] = batches[d]
    BY <1>1 DEF Typed, BatchMap
  <1>4. \A q \in Runners : runners[q].pc = "spawned" => runners[q] # NoRun
    BY DEF NoRun
  <1>5. \A q \in Runners : runners[q] # NoRun => runners'[q] = runners[q]
    BY <1>1, <1>3
  <1>6. ASSUME NEW d \in Batches
        PROVE  /\ batches'[d].status = "pending" =>
                     \E q \in Runners : runners'[q].pc = "spawned" /\ runners'[q].batch = d
               /\ batches'[d].status = "running" =>
                     \E q \in Runners : runners'[q] # NoRun /\ runners'[q].batch = d
    <2>1. CASE d = b
      BY <1>2, <1>3, <2>1
    <2>2. CASE d # b
      BY <1>3, <1>4, <1>5, <2>2 DEF Attended
    <2> QED
      BY <2>1, <2>2
  <1> QED
    BY <1>6 DEF Attended

LEMMA AttendedRunner ==
    ASSUME Typed, Linked, Attended, NEW r \in Runners, RunnerStep(r)
    PROVE  Attended'
  <1>1. CASE RunnerBegins(r)
    BY <1>1, BeginsMoves, AttendedMoves
  <1>2. CASE RunnerQuits(r)
    <2>1. PICK y \in Batch : /\ Moves(r, NoRun, y) /\ runners[r].pc = "next"
                             /\ \/ y = batches[runners[r].batch] /\ y.status # "running"
                                \/ y.status = "stopped"
      BY <1>2, QuitsMoves
    <2> QED
      BY <2>1, AttendedMoves
  <1>3. CASE RunnerReplays(r)
    <2>1. PICK x \in Run : /\ runners[r].pc = "next" /\ x # NoRun
                           /\ Moves(r, x, batches[runners[r].batch]) \/ Replays(r, x)
      BY <1>3, ReplaysMoves
    <2> QED
      BY <2>1, AttendedMoves, AttendedReplays
  <1>4. CASE RunnerReturns(r)
    <2>1. PICK x \in Run : Replays(r, x) /\ runners[r].pc = "replaying"
      BY <1>4, ReturnsMoves
    <2> QED
      BY <2>1, AttendedReplays
  <1>5. CASE RunnerCounts(r)
    <2>1. PICK x \in Run, y \in Batch : /\ Moves(r, x, y) /\ x # NoRun /\ runners[r].pc # "spawned"
                                        /\ y.status = batches[runners[r].batch].status
      BY <1>5, CountsMoves
    <2> QED
      BY <2>1, AttendedMoves
  <1>6. CASE RunnerEnds(r)
    <2>1. PICK y \in Batch : /\ Moves(r, NoRun, y) /\ runners[r].pc = "next"
                             /\ \/ y = batches[runners[r].batch] /\ y.status # "running"
                                \/ y.status \in {"failed", "completed"}
      BY <1>6, EndsMoves
    <2> QED
      BY <2>1, AttendedMoves
  <1> QED
    BY <1>1, <1>2, <1>3, <1>4, <1>5, <1>6 DEF RunnerStep

LEMMA AttendedStep ==
    ASSUME WellFormed, Attended, [Next]_vars
    PROVE  Attended'
  <1>1. Sources /\ Typed /\ Linked
    BY WellFormedIs
  <1>2. CASE UNCHANGED <<batches, runners>>
    BY <1>2 DEF Attended
  <1>3. CASE ShadowStep
    <2>1. CASE KnowledgeStep
      BY <1>2, <2>1 DEF KnowledgeStep, Build, Validate, Restore, Consider, Expire, ChangeStatus
    <2>2. ASSUME NEW b \in Batches, NEW k \in Items, NEW work \in [1..Total -> Tasks],
                 StartBatch(b, k, work)
          PROVE  Attended'
      BY <1>1, <2>2, AttendedSpawn DEF StartBatch
    <2>3. ASSUME NEW b \in Batches, Stop(b)
          PROVE  Attended'
      <3>1. runners' = runners
        BY <2>3 DEF Stop
      <3>2. \A d \in Batches : batches'[d].status \in {batches[d].status, "stopped"}
        <4>1. batches' = batches \/ \E n \in Nat :
                 batches' = [batches EXCEPT ![b] = [batches[b] EXCEPT !.status = "stopped", !.stopped = n]]
          BY <1>1, <2>3, StopBatch
        <4>2. batches \in [Batches -> Batch] /\ batches[b] \in Batch
          BY <1>1 DEF Typed, BatchMap
        <4>3. \A n \in Nat : [batches[b] EXCEPT !.status = "stopped", !.stopped = n].status = "stopped"
          BY <4>2 DEF Batch
        <4> QED
          BY <4>1, <4>2, <4>3
      <3> QED
        BY <3>1, <3>2 DEF Attended
    <2>4. CASE \E a \in Admins, b \in Batches : ConsiderRetry(a, b)
      BY <1>2, <2>4 DEF ConsiderRetry
    <2>5. ASSUME NEW a \in Admins, Retry(a)
          PROVE  Attended'
      <3> DEFINE b == admins[a].batch
      <3> DEFINE x == [NoBatch EXCEPT !.status = "pending", !.item = batches[b].item,
                                      !.work = batches[b].work]
      <3>1. /\ b \in Batches /\ Spawn(b)
            /\ batches' = batches \/ batches' = [batches EXCEPT ![b] = x]
        BY <1>1, <2>5, RetryBatch
      <3> HIDE DEF b, x
      <3>2. CASE batches' = batches
        <4>1. batches' = [batches EXCEPT ![b] = batches[b]]
          BY <1>1, <3>1, <3>2, SameBatch
        <4> QED
          BY <1>1, <3>1, <4>1, AttendedSpawn
      <3>3. CASE batches' = [batches EXCEPT ![b] = x]
        BY <1>1, <3>1, <3>3, AttendedSpawn
      <3> QED
        BY <3>1, <3>2, <3>3
    <2>6. CASE \E c \in Callers : CallerStep(c)
      BY <1>2, <2>6, CallerCalls
    <2>7. CASE \E r \in Runners : RunnerStep(r)
      BY <1>1, <2>7, AttendedRunner
    <2>8. CASE \E S \in SUBSET Replay : PruneShadow(S)
      BY <1>2, <2>8 DEF PruneShadow
    <2> QED
      BY <1>3, <2>1, <2>2, <2>3, <2>4, <2>5, <2>6, <2>7, <2>8, Steps
  <1>4. CASE ReopenShadow
    <2>1. \A b \in Batches : batches'[b].status \notin {"pending", "running"}
      BY <1>1, <1>4 DEF ReopenShadow, Typed, Kept, BatchMap, Batch
    <2> QED
      BY <2>1 DEF Attended
  <1>5. CASE UNCHANGED shadowVars
    BY <1>2, <1>5 DEF shadowVars
  <1> QED
    BY <1>3, <1>4, <1>5 DEF Next, vars, shadowVars

\* No batch is shown as waiting or running without a goroutine that will end it,
\* however it is stopped, retried out of turn or by two administrators at once,
\* and whatever a restart finds in the file (runShadowBatch, Retry, Load).
THEOREM BatchesAreAttended ==
    Spec => [](\A b \in Batches : Unfinished(b) =>
                  \E r \in Runners : runners[r] # NoRun /\ runners[r].batch = b)
  <1>1. Init => Attended
    BY DEF Init, ShadowInit, NoBatch, Attended
  <1>2. Attended => \A b \in Batches : Unfinished(b) =>
                        \E r \in Runners : runners[r] # NoRun /\ runners[r].batch = b
    BY DEF Attended, Unfinished, NoRun
  <1> QED
    BY <1>1, <1>2, AttendedStep, ShadowIsWellFormed, PTL DEF Spec

\* How many steps of its own a goroutine can still take: four for each replay
\* (it begins, is answered, is recorded and counted), and two for itself.
Place(pc, answer) ==
    IF pc = "replaying" THEN IF answer = "answered" THEN 1 ELSE 2
    ELSE CASE pc = "spawned" -> 4 [] pc = "next" -> 3 [] OTHER -> 0
WorkLeft(run, call) ==
    IF run = NoRun THEN 0 ELSE 4 * (Total + 1 - run.at) + Place(run.pc, call.pc) - 2
Left(r) == WorkLeft(runners[r], calls[r])

LEMMA WorkIsCounted ==
    ASSUME Typed, Linked, NEW r \in Runners
    PROVE  /\ Left(r) \in 0..(4 * Total + 2)
           /\ runners[r] # NoRun => Left(r) > 0
  <1>1. CASE runners[r] = NoRun
    BY <1>1, ShadowAssumption DEF Left, WorkLeft
  <1>2. CASE runners[r] # NoRun
    <2> DEFINE n == runners[r].at
               k == Place(runners[r].pc, calls[r].pc)
    <2>1. /\ runners[r].pc \in {"spawned", "next", "replaying", "failed", "done"}
          /\ n \in 1..Total + 1 /\ Total \in Nat
          /\ runners[r].pc \in {"replaying", "failed", "done"} => n <= Total
      BY <1>2, RunKinds, ShadowAssumption DEF Typed, Linked
    <2>2. k \in 0..4 /\ (runners[r].pc \in {"spawned", "next"} => k >= 3)
      BY <2>1 DEF Place
    <2>3. Left(r) = 4 * (Total + 1 - n) + k - 2
      BY <1>2 DEF Left, WorkLeft
    <2> HIDE DEF n, k
    <2> QED
      BY <2>1, <2>2, <2>3
  <1> QED
    BY <1>1, <1>2

\* A goroutine that ends, goes on to the next replay, or gets further with this
\* one has less left to do.
LEMMA LessWork ==
    ASSUME NEW x \in Run, NEW y \in Run, NEW c, NEW d,
           \/ y.at = x.at /\ Place(y.pc, d.pc) < Place(x.pc, c.pc)
           \/ y.at = x.at + 1 /\ y.pc = "next"
    PROVE  WorkLeft(y, d) < WorkLeft(x, c)
  <1> DEFINE n == x.at
             m == y.at
             j == Place(x.pc, c.pc)
             k == Place(y.pc, d.pc)
  <1>1. n \in 1..Total + 1 /\ m \in 1..Total + 1 /\ Total \in Nat /\ x # NoRun /\ y # NoRun
    BY ShadowAssumption DEF Run, NoRun
  <1>2. j \in 0..4 /\ k \in 0..4 /\ (y.pc = "next" => k = 3)
    BY DEF Place
  <1>3. /\ WorkLeft(x, c) = 4 * (Total + 1 - n) + j - 2
        /\ WorkLeft(y, d) = 4 * (Total + 1 - m) + k - 2
    BY <1>1 DEF WorkLeft
  <1>4. \/ m = n /\ k < j
        \/ m = n + 1 /\ k = 3
    <2>1. y.pc = "next" => k = 3
      BY DEF Place
    <2> QED
      BY <2>1
  <1> HIDE DEF n, m, j, k
  <1> QED
    BY <1>1, <1>2, <1>3, <1>4

\* Each step of a goroutine leaves it less to do, and the others as much.
LEMMA RunnerWorks ==
    ASSUME Typed, Linked, NEW r \in Runners, RunnerStep(r)
    PROVE  /\ Left(r)' < Left(r)
           /\ \A q \in Runners \ {r} : Left(q)' = Left(q)
  <1>1. ASSUME NEW x, NEW y, Moves(r, x, y)
        PROVE  /\ runners'[r] = x /\ calls' = calls
               /\ \A q \in Runners \ {r} : Left(q)' = Left(q)
    <2>1. runners'[r] = x /\ calls' = calls /\ \A q \in Runners \ {r} : runners'[q] = runners[q]
      BY <1>1 DEF Moves, Typed
    <2> QED
      BY <2>1 DEF Left, WorkLeft
  <1>2. ASSUME NEW x, Replays(r, x)
        PROVE  runners'[r] = x /\ \A q \in Runners \ {r} : Left(q)' = Left(q)
    <2>1. /\ runners'[r] = x
          /\ \A q \in Runners \ {r} : runners'[q] = runners[q] /\ calls'[q] = calls[q]
      BY <1>2 DEF Replays, CallStep, Typed
    <2> QED
      BY <2>1 DEF Left, WorkLeft
  <1>3. ASSUME NEW x \in Run, runners[r] \in Run, runners'[r] = x,
               \/ x.at = runners[r].at /\ Place(x.pc, calls'[r].pc) < Place(runners[r].pc, calls[r].pc)
               \/ x.at = runners[r].at + 1 /\ x.pc = "next"
        PROVE  Left(r)' < Left(r)
    BY <1>3, LessWork DEF Left, WorkLeft
  <1>4. ASSUME NEW y, Moves(r, NoRun, y), runners[r].pc = "next"
        PROVE  Left(r)' < Left(r)
    <2>1. Left(r)' = 0
      BY <1>1, <1>4 DEF Left, WorkLeft
    <2>2. Left(r) \in 0..(4 * Total + 2) /\ Left(r) > 0
      BY <1>4, WorkIsCounted DEF NoRun
    <2> QED
      BY <2>1, <2>2
  <1>5. CASE RunnerBegins(r)
    <2>1. PICK x \in Run, y \in Batch :
                Moves(r, x, y) /\ runners[r].pc = "spawned" /\ x.pc = "next" /\ x.at = runners[r].at
      BY <1>5, BeginsMoves
    <2>2. Place(x.pc, calls'[r].pc) < Place(runners[r].pc, calls[r].pc)
      BY <2>1 DEF Place
    <2>3. runners[r] \in Run
      BY <2>1, RunIs
    <2> QED
      BY <1>1, <1>3, <2>1, <2>2, <2>3
  <1>6. CASE RunnerQuits(r)
    BY <1>1, <1>4, <1>6, QuitsMoves
  <1>7. CASE RunnerEnds(r)
    BY <1>1, <1>4, <1>7, EndsMoves
  <1>8. CASE RunnerCounts(r)
    <2>1. PICK x \in Run, y \in Batch : Moves(r, x, y) /\ x.pc = "next" /\ x.at = runners[r].at + 1
      BY <1>8, CountsMoves
    <2>2. runners[r] \in Run
      BY <2>1, RunIs DEF Moves
    <2> QED
      BY <1>1, <1>3, <2>1, <2>2
  <1>9. CASE RunnerReplays(r)
    <2>1. PICK x \in Run :
             /\ runners[r].pc = "next" /\ x.at = runners[r].at
             /\ \/ Moves(r, x, batches[runners[r].batch]) /\ x.pc = "failed"
                \/ /\ Replays(r, x) /\ x.pc = "replaying" /\ know' = know
                   /\ \E id \in Replay : Begin(r, id)
      BY <1>9, ReplaysMoves
    <2>2. runners[r] \in Run
      BY <2>1, RunIs
    <2>3. runners'[r] = x /\ \A q \in Runners \ {r} : Left(q)' = Left(q)
      BY <1>1, <1>2, <2>1
    <2>4. Place(x.pc, calls'[r].pc) < Place(runners[r].pc, calls[r].pc)
      BY <2>1 DEF Place
    <2> QED
      BY <1>3, <2>1, <2>2, <2>3, <2>4
  <1>10. CASE RunnerReturns(r)
    <2>1. PICK x \in Run : Replays(r, x) /\ runners[r].pc = "replaying"
      BY <1>10, ReturnsMoves
    <2>2. runners[r] \in Run /\ runners'[r] = x /\ x.at = runners[r].at
          /\ \A q \in Runners \ {r} : Left(q)' = Left(q)
      BY <1>2, <2>1, RunIs DEF Replays
    <2>3. Place(runners'[r].pc, calls'[r].pc) < Place(runners[r].pc, calls[r].pc)
      <3>1. CASE Fails(r) /\ runners' = [runners EXCEPT ![r].pc = "failed"]
        <4>1. calls[r].pc = "calling" /\ runners'[r].pc = "failed"
          BY <2>2, <3>1 DEF Fails, Typed, Run
        <4> QED
          BY <2>1, <4>1 DEF Place
      <3>2. CASE Records(r) /\ runners' = [runners EXCEPT ![r].pc = "done"]
        <4>1. calls[r].pc = "answered" /\ runners'[r].pc = "done"
          BY <2>2, <3>2 DEF Records, Typed, Run
        <4> QED
          BY <2>1, <4>1 DEF Place
      <3>3. ASSUME NEW good \in BOOLEAN, Answers(r, good)
            PROVE  Place(runners'[r].pc, calls'[r].pc) < Place(runners[r].pc, calls[r].pc)
        <4>1. calls[r].pc = "calling" /\ runners' = runners
          BY <3>3 DEF Answers
        <4>2. calls'[r] = [pc |-> "answered", id |-> calls[r].id, good |-> good]
          BY <3>3, AnswersSteps
        <4>3. calls'[r].pc = "answered"
          BY <4>2
        <4> QED
          BY <2>1, <4>1, <4>3 DEF Place
      <3> QED
        BY <1>10, <3>1, <3>2, <3>3 DEF RunnerReturns
    <2> QED
      BY <1>3, <2>2, <2>3
  <1> QED
    BY <1>5, <1>6, <1>7, <1>8, <1>9, <1>10 DEF RunnerStep

\* Nothing gives a goroutine more to do.
WorksOff ==
    \A r \in Runners : /\ RunnerStep(r) => Left(r)' < Left(r)
                       /\ runners[r] # NoRun => Left(r)' <= Left(r)

LEMMA WorksOffStep ==
    ASSUME WellFormed, [Next]_vars
    PROVE  WorksOff
  <1>1. Sources /\ Typed /\ Linked
    BY WellFormedIs
  <1>2. \A r \in Runners : RunnerStep(r) => Left(r)' < Left(r)
    BY <1>1, RunnerWorks
  <1>3. ASSUME NEW r \in Runners, runners[r] # NoRun
        PROVE  Left(r)' <= Left(r)
    <2>0. Left(r) \in 0..(4 * Total + 2) /\ Total \in Nat
      BY <1>1, WorkIsCounted, ShadowAssumption
    <2>1. CASE runners'[r] = runners[r] /\ calls'[r] = calls[r]
      BY <2>0, <2>1 DEF Left, WorkLeft
    <2>2. ASSUME NEW b \in Batches, Spawn(b), calls' = calls
          PROVE  Left(r)' <= Left(r)
      <3>1. runners'[r] = runners[r]
        BY <1>1, <1>3, <2>2 DEF Spawn, Typed
      <3> QED
        BY <2>1, <2>2, <3>1
    <2>3. CASE ShadowStep
      <3>1. CASE KnowledgeStep
        BY <2>1, <3>1 DEF KnowledgeStep, Build, Validate, Restore, Consider, Expire, ChangeStatus
      <3>2. CASE \E b \in Batches, k \in Items, work \in [1..Total -> Tasks] : StartBatch(b, k, work)
        BY <2>2, <3>2 DEF StartBatch
      <3>3. CASE \E b \in Batches : Stop(b)
        BY <2>1, <3>3 DEF Stop
      <3>4. CASE \E a \in Admins, b \in Batches : ConsiderRetry(a, b)
        BY <2>1, <3>4 DEF ConsiderRetry
      <3>5. CASE \E a \in Admins : Retry(a)
        <4>1. PICK a \in Admins : Retry(a)
          BY <3>5
        <4>2. admins[a].batch \in Batches /\ Spawn(admins[a].batch)
          BY <1>1, <4>1, RetryBatch
        <4> QED
          BY <2>2, <4>1, <4>2 DEF Retry
      <3>6. CASE \E c \in Callers : CallerStep(c)
        <4>1. PICK c \in Callers : CallerStep(c)
          BY <3>6
        <4>2. c \in Runners \cup Callers /\ c # r
          BY ShadowAssumption
        <4>3. CallStep(c) /\ runners' = runners
          BY <1>1, <4>1, <4>2, CallerCalls, CallSteps
        <4> QED
          BY <2>1, <4>2, <4>3 DEF CallStep
      <3>7. ASSUME NEW q \in Runners, RunnerStep(q)
            PROVE  Left(r)' <= Left(r)
        <4>1. CASE q # r
          <5>1. Left(r)' = Left(r)
            BY <1>1, <3>7, <4>1, RunnerWorks
          <5> QED
            BY <2>0, <5>1
        <4>2. CASE q = r
          <5>1. Left(r)' < Left(r)
            BY <1>1, <3>7, <4>2, RunnerWorks
          <5>2. WellFormed'
            BY StaysWellFormed
          <5>3. (Typed /\ Linked)'
            <6>1. WellFormed' => (Typed /\ Linked)'
              BY WellFormedIs, PTL
            <6> QED
              BY <5>2, <6>1
          <5>4. (Typed /\ Linked => Left(r) \in 0..(4 * Total + 2))'
            BY WorkIsCounted, PTL
          <5> QED
            BY <2>0, <5>1, <5>3, <5>4
        <4> QED
          BY <4>1, <4>2
      <3>8. CASE \E S \in SUBSET Replay : PruneShadow(S)
        BY <2>1, <3>8 DEF PruneShadow
      <3> QED
        BY <2>3, <3>1, <3>2, <3>3, <3>4, <3>5, <3>6, <3>7, <3>8, Steps
    <2>4. CASE ReopenShadow
      <3>1. Left(r)' = 0
        BY <2>4 DEF ReopenShadow, Left, WorkLeft
      <3> QED
        BY <2>0, <3>1
    <2>5. CASE UNCHANGED shadowVars
      BY <2>1, <2>5 DEF shadowVars
    <2> QED
      BY <2>3, <2>4, <2>5 DEF Next, vars, shadowVars
  <1> QED
    BY <1>2, <1>3 DEF WorksOff

\* A goroutine takes at most four steps for each replay of its batch and two of
\* its own, whatever is stopped, retried, decided or pruned meanwhile: each of
\* its steps uses them up, and nothing else adds to them (runShadowBatch).
THEOREM GoroutinesWearOut ==
    Spec => /\ [](\A r \in Runners : Left(r) \in 0..(4 * Total + 2))
            /\ [][WorksOff]_vars
  <1>1. WellFormed => \A r \in Runners : Left(r) \in 0..(4 * Total + 2)
    BY WellFormedIs, WorkIsCounted
  <1>2. WellFormed /\ [Next]_vars => [WorksOff]_vars
    BY WorksOffStep
  <1> QED
    BY <1>1, <1>2, ShadowIsWellFormed, PTL DEF Spec

=============================================================================
