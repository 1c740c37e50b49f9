--------------------------- MODULE CatalogProofs ---------------------------
(***************************************************************************)
(* Proofs about module Catalog, for every value of its constants.          *)
(***************************************************************************)
EXTENDS Catalog, TLAPS

\* The steps of the catalogue on its own, and those it takes as a part of the
\* FreeLLMAPI integration: a restart may change what is configured, and a
\* synchronisation that has its list already is not among those in flight.
CatalogStep ==
    \/ [Next]_vars
    \/ \E view \in SUBSET Providers : Restart(view)
    \/ \E job \in SyncJob : SyncDropped(job) \/ SyncCommit(job)

-----------------------------------------------------------------------------
(* The operations on one entry produce entries.                            *)

\* Each operation of the catalogue turns a well-formed entry into another.
LEMMA EntryTypes ==
    ASSUME NEW m \in Models, NEW e \in Model, NEW b \in BOOLEAN,
           NEW S, NEW T
    PROVE  /\ Allowed(e, b) \in Model
           /\ Admission(e, b) \in Model
           /\ Synced(m, e, S, T) \in Model
           /\ Reconciled(m, e, S) \in Model
           /\ DefaultPolicy(m, e, b) \in Model
           /\ ReviewerRestored(m, e) \in Model
           /\ NoModel \in Model
<1>1. Allowed(e, b) \in Model
  BY DEF Allowed, Model, Status
<1>2. Admission(e, b) \in Model
  BY DEF Admission, Model, Status
<1>3. Synced(m, e, S, T) \in Model
  BY DEF Synced, Model, Status, IsAutoApproved
<1>4. Reconciled(m, e, S) \in Model
  BY DEF Reconciled, Model, Status
<1>5. DefaultPolicy(m, e, b) \in Model
  BY DEF DefaultPolicy, Model, Status
<1>6. ReviewerRestored(m, e) \in Model
  BY DEF ReviewerRestored, Model, Evidence
<1>7. NoModel \in Model
  BY DEF NoModel, Model, Status, Evidence
<1> QED BY <1>1, <1>2, <1>3, <1>4, <1>5, <1>6, <1>7

-----------------------------------------------------------------------------
(* Type correctness.                                                       *)

\* The first start is well typed.
LEMMA InitType == ASSUME Init PROVE TypeOK
BY DEF Init, TypeOK, NoModel, Model, Status, Evidence, Rule, State, RulesFile

\* What persistLocked writes is a state.
LEMMA PersistType ==
    ASSUME Persist, cat' \in [Models -> Model], allow' \in [Models -> Rule],
           admit' \in [Models -> BOOLEAN]
    PROVE  disk' \in State
BY DEF Persist, State

\* The steps of a synchronisation keep the types.
LEMMA SyncType ==
    ASSUME TypeOK, NEW job \in SyncJob,
           \/ SyncFails(job)
           \/ \E raw \in SUBSET ModelsOf(job.provider) : SyncFetched(job, raw)
           \/ SyncAdmissions(job) \/ SyncDropped(job) \/ SyncCommit(job)
    PROVE  TypeOK'
<1> USE DEF TypeOK, manager, requests
<1>1. CASE SyncFails(job)
  BY <1>1 DEF SyncFails
<1>2. CASE \E raw \in SUBSET ModelsOf(job.provider) : SyncFetched(job, raw)
  <2>1. PICK raw \in SUBSET ModelsOf(job.provider) : SyncFetched(job, raw)
    BY <1>2
  <2>2. raw \subseteq Models
    BY DEF ModelsOf
  <2>3. [job EXCEPT !.pc = "allow", !.raw = raw,
                    !.allow = {m \in raw : allow[m] = "allow"}] \in SyncJob
    BY <2>2 DEF SyncJob
  <2> QED BY <2>1, <2>3 DEF SyncFetched
<1>3. CASE SyncAdmissions(job)
  <2>1. [job EXCEPT !.pc = "admit", !.admit = {m \in job.raw : admit[m]}] \in SyncJob
    BY DEF SyncJob
  <2> QED BY <1>3, <2>1 DEF SyncAdmissions
<1>4. CASE SyncDropped(job)
  BY <1>4 DEF SyncDropped
<1>5. CASE SyncCommit(job)
  <2>1. cat' \in [Models -> Model]
    BY <1>5, EntryTypes DEF SyncCommit
  <2>2. disk' \in State
    BY <1>5, <2>1, PersistType DEF SyncCommit
  <2>3. outdated' \in SUBSET Models
    BY <1>5 DEF SyncCommit, Overtaken, SyncJob
  <2> QED BY <1>5, <2>1, <2>2, <2>3 DEF SyncCommit
<1> QED BY <1>1, <1>2, <1>3, <1>4, <1>5

\* The steps of a governance rule request keep the types.
LEMMA RuleType ==
    ASSUME TypeOK, NEW r \in gov, RuleRecord(r) \/ RuleApply(r) \/ RuleSave(r)
    PROVE  TypeOK'
<1> USE DEF TypeOK, manager
<1>0. r \in RuleRequest /\ r.model \in Models /\ RuleOf(r.allow) \in Rule
  BY DEF RuleRequest, RuleOf, Rule
<1>1. CASE RuleRecord(r)
  <2>1. [r EXCEPT !.pc = "ruled"] \in RuleRequest
    BY <1>0 DEF RuleRequest
  <2> QED BY <1>0, <1>1, <2>1 DEF RuleRecord
<1>2. CASE RuleApply(r)
  <2>1. [r EXCEPT !.pc = "applied"] \in RuleRequest
    BY <1>0 DEF RuleRequest
  <2>2. CASE Allowable(r.model, cat[r.model], r.allow)
    <3>1. Allowed(cat[r.model], r.allow) \in Model
      BY <1>0, EntryTypes DEF RuleRequest
    <3>2. cat' \in [Models -> Model] /\ allow' \in [Models -> Rule]
      BY <1>0, <1>2, <2>2, <3>1 DEF RuleApply
    <3>3. disk' \in State
      BY <1>2, <2>2, <3>2, PersistType DEF RuleApply
    <3> QED BY <1>2, <2>1, <2>2, <3>2, <3>3 DEF RuleApply
  <2>3. CASE ~Allowable(r.model, cat[r.model], r.allow)
    BY <1>2, <2>1, <2>3 DEF RuleApply
  <2> QED BY <2>2, <2>3
<1>3. CASE RuleSave(r)
  BY <1>3 DEF RuleSave, RulesFile
<1> QED BY <1>1, <1>2, <1>3

\* So does the commit of an admission.
LEMMA SetAdmittedType ==
    ASSUME TypeOK, NEW r \in adm, SetAdmitted(r)
    PROVE  TypeOK'
<1> USE DEF TypeOK
<1>0. r.model \in Models /\ r.admitted \in BOOLEAN
  BY DEF AdmissionRequest
<1>1. allow' \in [Models -> Rule] /\ admit' \in [Models -> BOOLEAN]
  BY <1>0 DEF SetAdmitted, Rule
<1>4. /\ adm' \in SUBSET AdmissionRequest /\ outdated' \in SUBSET Models
      /\ UNCHANGED <<rules, rulesFile, configs, syncs, gov, reg, probing, phase, boots>>
  BY DEF SetAdmitted
<1>2. CASE Present(r.model)
  <2>1. cat' \in [Models -> Model]
    <3>1. Admission(cat[r.model], r.admitted) \in Model
      BY <1>0, EntryTypes
    <3>2. cat' = [cat EXCEPT ![r.model] = Admission(cat[r.model], r.admitted)]
      BY <1>2 DEF SetAdmitted
    <3> QED BY <1>0, <3>1, <3>2
  <2>2. disk' \in State
    BY <1>1, <1>2, <2>1, PersistType DEF SetAdmitted
  <2> QED BY <1>1, <1>4, <2>1, <2>2
<1>3. CASE ~Present(r.model)
  <2>1. cat' = cat /\ disk' = disk
    BY <1>3 DEF SetAdmitted
  <2> QED BY <1>1, <1>4, <2>1
<1> QED BY <1>2, <1>3

\* The reconciliation with the registry keeps the types.
LEMMA RegistryType ==
    ASSUME TypeOK, NEW r \in reg, RegistryRead(r) \/ ReconcileProviders(r)
    PROVE  TypeOK'
<1> USE DEF TypeOK, manager
<1>0. r \in RegistryRequest
  OBVIOUS
<1>1. CASE RegistryRead(r)
  <2>1. [r EXCEPT !.pc = "commit", !.view = configs] \in RegistryRequest
    BY <1>0 DEF RegistryRequest
  <2> QED BY <1>1, <2>1 DEF RegistryRead
<1>2. CASE ReconcileProviders(r)
  <2>1. cat' \in [Models -> Model]
    BY <1>2, EntryTypes DEF ReconcileProviders
  <2>2. disk' \in State
    BY <1>2, <2>1, PersistType DEF ReconcileProviders
  <2>3. [pc |-> "read", round |-> 2, view |-> {}] \in RegistryRequest
    BY DEF RegistryRequest
  <2> QED BY <1>2, <2>1, <2>2, <2>3 DEF ReconcileProviders
<1> QED BY <1>1, <1>2

\* A restart reads back a well-formed state.
LEMMA RestartType ==
    ASSUME TypeOK, NEW view \in SUBSET Providers, Restart(view)
    PROVE  TypeOK'
<1> USE DEF TypeOK
<1>1. ASSUME NEW m \in Models
      PROVE  Booted(m, view) \in Model
  <2>1. disk.cat[m] \in Model /\ disk.admit[m] \in BOOLEAN
    BY DEF State
  <2>2. DefaultPolicy(m, disk.cat[m], disk.admit[m]) \in Model
    BY <2>1, EntryTypes
  <2>3. Reconciled(m, DefaultPolicy(m, disk.cat[m], disk.admit[m]), view) \in Model
    BY <2>2, EntryTypes
  <2> QED BY <2>3, EntryTypes DEF Booted
<1>2. cat' \in [Models -> Model]
  BY <1>1 DEF Restart
<1>3. allow' \in [Models -> Rule] /\ admit' \in [Models -> BOOLEAN]
  BY DEF Restart, State
<1>4. disk' \in State
  BY <1>2, <1>3, PersistType DEF Restart
<1>5. rules' \in [Models -> Rule]
  BY DEF Restart, Rule
<1> QED BY <1>2, <1>3, <1>4, <1>5 DEF Restart

\* Replaying the rules keeps the types.
LEMMA LoadRulesType ==
    ASSUME TypeOK, LoadRules
    PROVE  TypeOK'
<1> USE DEF TypeOK
<1>1. LoadedRules \in [Models -> Rule]
  BY DEF LoadedRules, RulesFile, Rule
<1>2. cat' \in [Models -> Model]
  BY EntryTypes DEF LoadRules
<1>3. allow' \in [Models -> Rule] /\ admit' \in [Models -> BOOLEAN]
  BY <1>1 DEF LoadRules
<1>4. disk' \in State
  <2>1. CASE Persist
    BY <2>1, <1>2, <1>3, PersistType
  <2> QED BY <2>1 DEF LoadRules
<1>5. rules' \in [Models -> Rule]
  BY <1>1 DEF LoadRules, Rule
<1> QED BY <1>2, <1>3, <1>4, <1>5 DEF LoadRules, requests

\* Every step keeps the types.
LEMMA NextType ==
    ASSUME TypeOK, CatalogStep
    PROVE  TypeOK'
<1>1. ASSUME NEW p \in Providers, SyncStart(p)
      PROVE  TypeOK'
  <2>1. [pc |-> "fetch", provider |-> p, raw |-> {}, allow |-> {}, admit |-> {}] \in SyncJob
    BY DEF SyncJob
  <2> QED BY <1>1, <2>1 DEF SyncStart, TypeOK, manager, requests
<1>2. ASSUME NEW p \in Providers, RegistryToggle(p)
      PROVE  TypeOK'
  <2>1. [pc |-> "read", round |-> 1, view |-> {}] \in RegistryRequest
    BY DEF RegistryRequest
  <2> QED BY <1>2, <2>1 DEF RegistryToggle, TypeOK, manager
<1>3. ASSUME MarkSynced
      PROVE  TypeOK'
  BY <1>3, PersistType DEF MarkSynced, TypeOK, requests
<1>4. ASSUME NEW m \in Governed, NEW b \in BOOLEAN, RuleValidate(m, b)
      PROVE  TypeOK'
  <2>1. [pc |-> "validated", model |-> m, allow |-> b] \in RuleRequest
    BY ConstantsAssumption DEF RuleRequest
  <2> QED BY <1>4, <2>1 DEF RuleValidate, TypeOK, manager
<1>5. ASSUME NEW m \in Governed, NEW b \in BOOLEAN, AdmissionValidate(m, b)
      PROVE  TypeOK'
  <2>1. [model |-> m, admitted |-> b] \in AdmissionRequest
    BY ConstantsAssumption DEF AdmissionRequest
  <2> QED BY <1>5, <2>1 DEF AdmissionValidate, TypeOK, manager
<1>6. ASSUME NEW m \in Governed,
             ProbeStart(m) \/ ProbeConclusive(m) \/ ProbeUnavailable(m)
      PROVE  TypeOK'
  <2>0. m \in Models
    BY ConstantsAssumption
  <2>1. CASE ProbeStart(m)
    BY <2>0, <2>1 DEF ProbeStart, TypeOK, manager, requests
  <2>2. CASE ProbeConclusive(m)
    <3>0. [cat[m] EXCEPT !.evidence = "probe"] \in Model
      BY <2>0 DEF TypeOK, Model, Evidence
    <3>1. cat' \in [Models -> Model]
      BY <2>0, <2>2, <3>0 DEF ProbeConclusive, TypeOK, manager
    <3>2. disk' \in State
      BY <2>2, <3>1, PersistType DEF ProbeConclusive, TypeOK, manager
    <3> QED BY <2>2, <3>1, <3>2 DEF ProbeConclusive, TypeOK, manager, requests
  <2>3. CASE ProbeUnavailable(m)
    BY <2>3 DEF ProbeUnavailable, TypeOK, manager, requests
  <2> QED BY <1>6, <2>1, <2>2, <2>3
<1>7. ASSUME NEW enabled \in BOOLEAN, ApplyStateToCatalog(enabled)
      PROVE  TypeOK'
  <2>0. ASSUME NEW m \in Models
        PROVE  [cat[m] EXCEPT !.auto = enabled /\ cat[m].status = "active"] \in Model
    BY <1>7 DEF TypeOK, Model
  <2>1. cat' \in [Models -> Model]
    BY <1>7, <2>0 DEF ApplyStateToCatalog, TypeOK
  <2> QED BY <1>7, <2>1, PersistType DEF ApplyStateToCatalog, TypeOK, requests
<1>8. ASSUME UNCHANGED vars
      PROVE  TypeOK'
  BY <1>8 DEF vars, TypeOK
<1>9. syncs \subseteq SyncJob /\ configs \in SUBSET Providers
  BY DEF TypeOK
<1>10. CASE [Next]_vars
  BY <1>1, <1>2, <1>3, <1>4, <1>5, <1>6, <1>7, <1>8, <1>9, <1>10, SyncType, RuleType,
     SetAdmittedType, RegistryType, RestartType, LoadRulesType DEF Next, SyncStep, GovernanceStep
<1>11. CASE \E view \in SUBSET Providers : Restart(view)
  BY <1>11, RestartType
<1>12. CASE \E job \in SyncJob : SyncDropped(job) \/ SyncCommit(job)
  BY <1>12, SyncType
<1> QED BY <1>10, <1>11, <1>12 DEF CatalogStep

\* Every reachable state of the catalogue and of its files is well formed.
THEOREM TypeCorrect == Spec => []TypeOK
<1>1. Init => TypeOK
  BY InitType
<1>2. TypeOK /\ [Next]_vars => TypeOK'
  BY NextType DEF CatalogStep
<1> QED BY <1>1, <1>2, PTL DEF Spec

-----------------------------------------------------------------------------
(* A model with the Auto flag is routable.  The invariant speaks of single *)
(* entries, in memory and in the file a restart reads.                     *)

EntryOK(m, e) ==
    /\ e.auto => e.status = "active" /\ e.admitted
    /\ e.orphaned => e.status = "stale"
    /\ e.status = "absent" => ~e.admitted
    /\ IsAutoApproved(m) /\ e.status # "absent" => e.admitted

EntriesOK(c) == \A m \in Models : EntryOK(m, c[m])

\* Each operation of the catalogue preserves the invariant of an entry.
LEMMA EntryPreserved ==
    ASSUME NEW m \in Models, NEW e \in Model, EntryOK(m, e), NEW b \in BOOLEAN,
           NEW S, NEW T
    PROVE  /\ Allowable(m, e, b) => EntryOK(m, Allowed(e, b))
           /\ NeedsApproval(m) /\ e.status # "absent" => EntryOK(m, Admission(e, b))
           /\ EntryOK(m, Synced(m, e, S, T))
           /\ EntryOK(m, Reconciled(m, e, S))
           /\ EntryOK(m, DefaultPolicy(m, e, b))
           /\ EntryOK(m, ReviewerRestored(m, e))
           /\ EntryOK(m, NoModel)
<1> USE DEF EntryOK, Model, Status
<1>1. Allowable(m, e, b) => EntryOK(m, Allowed(e, b))
  BY DEF Allowable, Allowed, AutoApprovalReady
<1>2. NeedsApproval(m) /\ e.status # "absent" => EntryOK(m, Admission(e, b))
  BY DEF NeedsApproval, Admission
<1>3. EntryOK(m, Synced(m, e, S, T))
  BY DEF Synced
<1>4. EntryOK(m, Reconciled(m, e, S))
  BY DEF Reconciled
<1>5. EntryOK(m, DefaultPolicy(m, e, b))
  BY DEF DefaultPolicy
<1>6. EntryOK(m, ReviewerRestored(m, e))
  BY DEF ReviewerRestored
<1>7. EntryOK(m, NoModel)
  BY DEF NoModel
<1> QED BY <1>1, <1>2, <1>3, <1>4, <1>5, <1>6, <1>7

\* Admissions of auto-approved models are refused, so the requests in flight
\* never name one.
RoutableInv ==
    /\ EntriesOK(cat)
    /\ EntriesOK(disk.cat)
    /\ \A r \in adm : NeedsApproval(r.model)

\* The entries of the first start satisfy the invariant of an entry.
LEMMA RoutableInit == ASSUME Init PROVE RoutableInv
BY DEF Init, RoutableInv, EntriesOK, EntryOK, NoModel, IsAutoApproved, NeedsApproval

\* A step that writes only well-formed entries, and writes them out or
\* leaves the file alone, keeps the invariant.
LEMMA RoutableWrite ==
    ASSUME RoutableInv, EntriesOK(cat'), Persist \/ UNCHANGED disk, adm' \subseteq adm
    PROVE  RoutableInv'
BY DEF RoutableInv, Persist, EntriesOK, EntryOK, IsAutoApproved, NeedsApproval

\* Every step keeps it, in memory and in the file.
LEMMA RoutableNext ==
    ASSUME TypeOK, RoutableInv, CatalogStep
    PROVE  RoutableInv'
<1>0. /\ \A m \in Models : cat[m] \in Model /\ disk.cat[m] \in Model
      /\ EntriesOK(cat) /\ EntriesOK(disk.cat)
  BY DEF TypeOK, State, RoutableInv
<1>1. ASSUME UNCHANGED <<cat, disk>>, adm' \subseteq adm
      PROVE  RoutableInv'
  <2>1. EntriesOK(cat')
    BY <1>0, <1>1
  <2> QED BY <1>1, <2>1, RoutableWrite
<1>2. ASSUME NEW p \in Providers, SyncStart(p) \/ RegistryToggle(p)
      PROVE  RoutableInv'
  BY <1>1, <1>2 DEF SyncStart, RegistryToggle, manager, requests
<1>3. ASSUME NEW job \in SyncJob,
             \/ SyncFails(job)
             \/ \E raw \in SUBSET ModelsOf(job.provider) : SyncFetched(job, raw)
             \/ SyncAdmissions(job) \/ SyncDropped(job)
      PROVE  RoutableInv'
  BY <1>1, <1>3 DEF SyncFails, SyncFetched, SyncAdmissions, SyncDropped, manager, requests
<1>4. ASSUME NEW job \in SyncJob, SyncCommit(job)
      PROVE  RoutableInv'
  <2>1. EntriesOK(cat')
    BY <1>0, <1>4, EntryPreserved DEF SyncCommit, EntriesOK
  <2> QED BY <1>4, <2>1, RoutableWrite DEF SyncCommit, requests
<1>5. ASSUME MarkSynced
      PROVE  RoutableInv'
  <2>1. EntriesOK(cat')
    BY <1>0, <1>5 DEF MarkSynced
  <2> QED BY <1>5, <2>1, RoutableWrite DEF MarkSynced, requests
<1>6. ASSUME NEW m \in Governed, NEW b \in BOOLEAN, RuleValidate(m, b)
      PROVE  RoutableInv'
  BY <1>1, <1>6 DEF RuleValidate, manager
<1>7. ASSUME NEW m \in Governed, NEW b \in BOOLEAN, AdmissionValidate(m, b)
      PROVE  RoutableInv'
  BY <1>0, <1>7 DEF AdmissionValidate, manager, RoutableInv, NeedsApproval, IsAutoApproved,
     EntriesOK, EntryOK
<1>8. ASSUME NEW r \in gov, RuleRecord(r) \/ RuleApply(r) \/ RuleSave(r)
      PROVE  RoutableInv'
  <2>1. CASE RuleApply(r) /\ Allowable(r.model, cat[r.model], r.allow)
    <3>0. r.model \in Models /\ r.allow \in BOOLEAN
      BY DEF TypeOK, RuleRequest
    <3>1. EntryOK(r.model, Allowed(cat[r.model], r.allow))
      BY <1>0, <2>1, <3>0, EntryPreserved DEF EntriesOK
    <3>2. EntriesOK(cat')
      BY <1>0, <2>1, <3>0, <3>1 DEF RuleApply, EntriesOK, TypeOK
    <3> QED BY <2>1, <3>2, RoutableWrite DEF RuleApply
  <2>2. CASE RuleApply(r) /\ ~Allowable(r.model, cat[r.model], r.allow)
    BY <1>1, <2>2 DEF RuleApply, manager
  <2>3. CASE RuleRecord(r) \/ RuleSave(r)
    BY <1>1, <2>3 DEF RuleRecord, RuleSave, manager
  <2> QED BY <1>8, <2>1, <2>2, <2>3
<1>9. ASSUME NEW r \in adm, SetAdmitted(r)
      PROVE  RoutableInv'
  <2>0. r.model \in Models /\ r.admitted \in BOOLEAN /\ NeedsApproval(r.model)
    BY DEF TypeOK, AdmissionRequest, RoutableInv
  <2>1. CASE Present(r.model)
    <3>1. EntryOK(r.model, Admission(cat[r.model], r.admitted))
      BY <1>0, <2>0, <2>1, EntryPreserved DEF EntriesOK, Present
    <3>2. EntriesOK(cat')
      BY <1>0, <1>9, <2>0, <2>1, <3>1 DEF SetAdmitted, EntriesOK, TypeOK
    <3> QED BY <1>9, <2>1, <3>2, RoutableWrite DEF SetAdmitted
  <2>2. CASE ~Present(r.model)
    BY <1>1, <1>9, <2>2 DEF SetAdmitted
  <2> QED BY <2>1, <2>2
<1>10. ASSUME NEW r \in reg, RegistryRead(r) \/ ReconcileProviders(r)
       PROVE  RoutableInv'
  <2>1. CASE RegistryRead(r)
    BY <1>1, <2>1 DEF RegistryRead, manager
  <2>2. CASE ReconcileProviders(r)
    <3>1. EntriesOK(cat')
      BY <1>0, <2>2, EntryPreserved DEF ReconcileProviders, EntriesOK
    <3> QED BY <2>2, <3>1, RoutableWrite DEF ReconcileProviders
  <2> QED BY <1>10, <2>1, <2>2
<1>11. ASSUME NEW m \in Governed,
              ProbeStart(m) \/ ProbeConclusive(m) \/ ProbeUnavailable(m)
       PROVE  RoutableInv'
  <2>1. CASE ProbeConclusive(m) /\ Present(m)
    <3>1. EntriesOK(cat')
      BY <1>0, <2>1 DEF ProbeConclusive, EntriesOK, EntryOK, TypeOK, Model
    <3> QED BY <2>1, <3>1, RoutableWrite DEF ProbeConclusive, requests
  <2>2. CASE ~(ProbeConclusive(m) /\ Present(m))
    BY <1>1, <1>11, <2>2 DEF ProbeStart, ProbeConclusive, ProbeUnavailable, manager, requests
  <2> QED BY <2>1, <2>2
<1>12. ASSUME NEW enabled \in BOOLEAN, ApplyStateToCatalog(enabled)
       PROVE  RoutableInv'
  <2>1. EntriesOK(cat')
    BY <1>0, <1>12 DEF ApplyStateToCatalog, EntriesOK, EntryOK, Model
  <2> QED BY <1>12, <2>1, RoutableWrite DEF ApplyStateToCatalog, requests
<1>13. ASSUME NEW view \in SUBSET Providers, Restart(view)
       PROVE  RoutableInv'
  <2>1. ASSUME NEW m \in Models
        PROVE  EntryOK(m, Booted(m, view))
    <3>1. disk.cat[m] \in Model /\ disk.admit[m] \in BOOLEAN /\ EntryOK(m, disk.cat[m])
      BY <1>0 DEF TypeOK, State, EntriesOK
    <3> DEFINE e1 == DefaultPolicy(m, disk.cat[m], disk.admit[m])
               e2 == Reconciled(m, e1, view)
    <3>2. e1 \in Model /\ EntryOK(m, e1)
      BY <3>1, EntryTypes, EntryPreserved
    <3>3. e2 \in Model /\ EntryOK(m, e2)
      <4> HIDE DEF e1
      <4> QED BY <3>2, EntryTypes, EntryPreserved DEF e2
    <3>4. EntryOK(m, ReviewerRestored(m, e2))
      <4> HIDE DEF e2
      <4> QED BY <3>3, EntryPreserved
    <3> QED BY <3>4 DEF Booted
  <2>2. EntriesOK(cat')
    BY <1>13, <2>1 DEF Restart, EntriesOK
  <2> QED BY <1>13, <2>2, RoutableWrite DEF Restart
<1>14. ASSUME LoadRules
       PROVE  RoutableInv'
  <2>1. ASSUME NEW m \in Models, Replayed(m)
        PROVE  EntryOK(m, Allowed(cat[m], LoadedRules[m] = "allow"))
    BY <1>0, <2>1, EntryPreserved DEF Replayed, EntriesOK
  <2>2. EntriesOK(cat')
    BY <1>0, <1>14, <2>1 DEF LoadRules, EntriesOK
  <2> QED BY <1>14, <2>2, RoutableWrite DEF LoadRules, requests
<1>15. ASSUME UNCHANGED vars
       PROVE  RoutableInv'
  BY <1>1, <1>15 DEF vars
<1>16. syncs \subseteq SyncJob /\ configs \in SUBSET Providers
  BY DEF TypeOK
<1>17. CASE [Next]_vars
  BY <1>2, <1>3, <1>4, <1>5, <1>6, <1>7, <1>8, <1>9, <1>10, <1>11, <1>12, <1>13,
     <1>14, <1>15, <1>16, <1>17 DEF Next, SyncStep, GovernanceStep
<1> QED BY <1>3, <1>4, <1>13, <1>17 DEF CatalogStep

\* What routing takes for granted of a model with the Auto flag is invariant.
THEOREM AutoRoutable == Spec => []AutoIsRoutable
<1>1. Init => TypeOK /\ RoutableInv
  BY InitType, RoutableInit
<1>2. TypeOK /\ RoutableInv /\ [Next]_vars => TypeOK' /\ RoutableInv'
  BY NextType, RoutableNext DEF CatalogStep
<1>3. RoutableInv => AutoIsRoutable
  BY DEF RoutableInv, EntriesOK, EntryOK, AutoIsRoutable
<1> QED BY <1>1, <1>2, <1>3, PTL DEF Spec

-----------------------------------------------------------------------------
(* The approval layers.  Both layers are restated for one entry, in memory *)
(* and in the file: the file is what a restart installs, together with the *)
(* approvals it holds.                                                     *)

LayersOK(m, e, a, d) ==
    NeedsApproval(m) =>
        /\ e.auto => a = "allow"
        /\ e.admitted => d
        /\ a = "allow" => d

MemoryLayers == \A m \in Models \ outdated : LayersOK(m, cat[m], allow[m], admit[m])

DiskLayers ==
    \A m \in Models \ outdated : LayersOK(m, disk.cat[m], disk.allow[m], disk.admit[m])

LayersInv == MemoryLayers /\ DiskLayers

\* No approval is given at the first start.
LEMMA LayersInit == ASSUME Init PROVE LayersInv
BY DEF Init, LayersInv, MemoryLayers, DiskLayers, LayersOK, NoModel

\* It is enough to look at the memory after a step that writes it out.
LEMMA LayersWrite ==
    ASSUME LayersInv, MemoryLayers', Persist \/ UNCHANGED <<disk, outdated>>
    PROVE  LayersInv'
<1>1. CASE Persist
  <2>1. /\ disk'.cat = cat'
        /\ disk'.allow = allow'
        /\ disk'.admit = admit'
    BY <1>1 DEF Persist
  <2>2. DiskLayers'
    BY <2>1 DEF MemoryLayers, DiskLayers
  <2> QED BY <2>2 DEF LayersInv
<1>2. CASE UNCHANGED <<disk, outdated>>
  <2>1. DiskLayers'
    BY <1>2 DEF LayersInv, DiskLayers, LayersOK, NeedsApproval, IsAutoApproved
  <2> QED BY <2>1 DEF LayersInv
<1> QED BY <1>1, <1>2

\* A synchronisation keeps the layers of every entry but those it overtook.
LEMMA LayersSync ==
    ASSUME TypeOK, LayersInv, NEW job \in syncs, SyncCommit(job)
    PROVE  LayersInv'
<1>1. ASSUME NEW m \in Models \ outdated'
      PROVE  LayersOK(m, cat'[m], allow'[m], admit'[m])
  <2>0. m \notin outdated /\ m \notin Overtaken(job) /\ UNCHANGED <<allow, admit>>
    BY <1>1 DEF SyncCommit
  <2>1. LayersOK(m, cat[m], allow[m], admit[m])
    BY <1>1, <2>0 DEF LayersInv, MemoryLayers
  <2>2. CASE ProviderOf[m] # job.provider
    BY <1>1, <2>0, <2>1, <2>2 DEF SyncCommit
  <2>3. CASE ProviderOf[m] = job.provider /\ m \in job.raw
    <3>1. cat'[m] = Synced(m, cat[m], job.allow, job.admit)
      BY <1>1, <2>3 DEF SyncCommit
    <3>2. NeedsApproval(m) /\ m \in job.admit =>
            admit[m] /\ (m \in job.allow => allow[m] = "allow")
      BY <2>0, <2>3 DEF Overtaken, NeedsApproval
    <3> DEFINE e == Synced(m, cat[m], job.allow, job.admit)
    <3>3. NeedsApproval(m) =>
            /\ e.admitted => m \in job.admit
            /\ e.auto => m \in job.admit /\ m \in job.allow
      BY DEF Synced, NeedsApproval
    <3>4. allow'[m] = allow[m] /\ admit'[m] = admit[m]
      BY <2>0
    <3> HIDE DEF e
    <3>5. LayersOK(m, e, allow[m], admit[m])
      BY <2>1, <3>2, <3>3 DEF LayersOK
    <3> QED BY <3>1, <3>4, <3>5 DEF e
  <2>4. CASE ProviderOf[m] = job.provider /\ m \notin job.raw
    BY <1>1, <2>0, <2>1, <2>4 DEF SyncCommit, LayersOK, NoModel
  <2> QED BY <2>2, <2>3, <2>4
<1>2. MemoryLayers'
  BY <1>1 DEF MemoryLayers, LayersOK
<1> QED BY <1>2, LayersWrite DEF SyncCommit

\* Whatever SetAllow is given, the entry ends with the approval it stores.
LEMMA LayersAllowed ==
    ASSUME NEW m, NEW e, NEW a, NEW d, NEW b \in BOOLEAN, LayersOK(m, e, a, d),
           Allowable(m, e, b)
    PROVE  LayersOK(m, Allowed(e, b), RuleOf(b), d)
<1>1. Allowed(e, b).auto => b
  BY DEF Allowed, Model
<1>2. Allowed(e, b).admitted = e.admitted
  BY DEF Allowed, Model
<1>3. NeedsApproval(m) /\ b => d
  BY DEF LayersOK, Allowable, AutoApprovalReady, NeedsApproval
<1> QED BY <1>1, <1>2, <1>3 DEF LayersOK, RuleOf

\* The status of an entry, the evidence and the Auto flag of a provider that
\* needs no approval play no part in the layers.
LEMMA LayersUntouched ==
    ASSUME NEW m, NEW e, NEW c, NEW a, NEW d, LayersOK(m, e, a, d),
           NeedsApproval(m) => (c.auto => e.auto) /\ (c.admitted => e.admitted)
    PROVE  LayersOK(m, c, a, d)
BY DEF LayersOK

\* The approval requests, admissions and rules.
LEMMA LayersSetAdmitted ==
    ASSUME TypeOK, RoutableInv, LayersInv, NEW r \in adm, SetAdmitted(r)
    PROVE  LayersInv'
<1>0. /\ r.model \in Models /\ r.admitted \in BOOLEAN
      /\ \A m \in Models : cat[m] \in Model
      /\ admit \in [Models -> BOOLEAN] /\ allow \in [Models -> Rule]
  BY DEF TypeOK, AdmissionRequest
<1>1. /\ admit'[r.model] = r.admitted
      /\ ~r.admitted => allow'[r.model] = "deny"
  BY <1>0 DEF SetAdmitted
<1>2. ASSUME NEW m \in Models \ outdated', m # r.model
      PROVE  LayersOK(m, cat'[m], allow'[m], admit'[m])
  <2>1. m \notin outdated
    BY <1>2 DEF SetAdmitted
  <2>2. cat'[m] = cat[m] /\ allow'[m] = allow[m] /\ admit'[m] = admit[m]
    BY <1>0, <1>2 DEF SetAdmitted, TypeOK
  <2> QED BY <1>2, <2>1, <2>2 DEF LayersInv, MemoryLayers
<1>3. CASE Present(r.model)
  <2> DEFINE e == Admission(cat[r.model], r.admitted)
  <2>1. cat'[r.model] = e
    BY <1>0, <1>3 DEF SetAdmitted, TypeOK
  <2>2. ~e.auto /\ e.admitted = r.admitted
    BY <1>0 DEF Admission, Model
  <2> HIDE DEF e
  <2>3. LayersOK(r.model, e, allow'[r.model], admit'[r.model])
    BY <1>0, <1>1, <2>2 DEF LayersOK
  <2>4. MemoryLayers'
    BY <1>2, <2>1, <2>3 DEF MemoryLayers, LayersOK
  <2> QED BY <1>3, <2>4, LayersWrite DEF SetAdmitted
<1>4. CASE ~Present(r.model)
  <2>1. cat' = cat /\ disk' = disk /\ outdated' = outdated
    BY <1>4 DEF SetAdmitted
  <2>2. ~cat[r.model].auto /\ ~cat[r.model].admitted
    BY <1>0, <1>4 DEF RoutableInv, EntriesOK, EntryOK, Present
  <2>3. LayersOK(r.model, cat'[r.model], allow'[r.model], admit'[r.model])
    BY <1>1, <2>1, <2>2 DEF LayersOK
  <2>4. MemoryLayers'
    BY <1>2, <2>3 DEF MemoryLayers, LayersOK
  <2> QED BY <2>1, <2>4, LayersWrite
<1> QED BY <1>3, <1>4

\* Applying a rule writes the second layer and the Auto flag together.
LEMMA LayersRuleApply ==
    ASSUME TypeOK, LayersInv, NEW r \in gov, RuleApply(r)
    PROVE  LayersInv'
<1>0. r.model \in Models /\ r.allow \in BOOLEAN /\ outdated' = outdated
  BY DEF TypeOK, RuleRequest, RuleApply
<1>1. CASE Allowable(r.model, cat[r.model], r.allow)
  <2>1. /\ cat' = [cat EXCEPT ![r.model] = Allowed(cat[r.model], r.allow)]
        /\ allow' = [allow EXCEPT ![r.model] = RuleOf(r.allow)]
        /\ admit' = admit
        /\ Persist
    BY <1>1 DEF RuleApply
  <2>2. ASSUME NEW m \in Models \ outdated
        PROVE  LayersOK(m, cat'[m], allow'[m], admit'[m])
    <3>0. LayersOK(m, cat[m], allow[m], admit[m])
      BY DEF LayersInv, MemoryLayers
    <3>1. CASE m # r.model
      BY <2>1, <3>0, <3>1 DEF TypeOK
    <3>2. CASE m = r.model
      <4>1. LayersOK(m, Allowed(cat[m], r.allow), RuleOf(r.allow), admit[m])
        BY <1>0, <1>1, <3>0, <3>2, LayersAllowed DEF TypeOK
      <4>2. /\ cat'[m] = Allowed(cat[m], r.allow)
            /\ allow'[m] = RuleOf(r.allow)
            /\ admit'[m] = admit[m]
        BY <1>0, <2>1, <3>2 DEF TypeOK
      <4> QED BY <4>1, <4>2
    <3> QED BY <3>1, <3>2
  <2>3. MemoryLayers'
    BY <1>0, <2>2 DEF MemoryLayers, LayersOK
  <2> QED BY <2>1, <2>3, LayersWrite
<1>2. CASE ~Allowable(r.model, cat[r.model], r.allow)
  <2>1. UNCHANGED <<manager, outdated>>
    BY <1>2 DEF RuleApply
  <2> QED BY <2>1 DEF manager, LayersInv, MemoryLayers, DiskLayers, LayersOK
<1> QED BY <1>1, <1>2

\* Replaying the rules gives every entry the approval it stores.
LEMMA LayersLoadRules ==
    ASSUME TypeOK, LayersInv, LoadRules
    PROVE  LayersInv'
<1>0. outdated' = outdated /\ admit' = admit /\ (Persist \/ UNCHANGED <<disk, outdated>>)
  BY DEF LoadRules
<1>1. ASSUME NEW m \in Models \ outdated
      PROVE  LayersOK(m, cat'[m], allow'[m], admit'[m])
  <2>0. LayersOK(m, cat[m], allow[m], admit[m]) /\ cat[m] \in Model /\ admit[m] \in BOOLEAN
    BY DEF LayersInv, MemoryLayers, TypeOK
  <2>1. CASE Replayed(m)
    <3> DEFINE b == LoadedRules[m] = "allow"
    <3>1. LayersOK(m, Allowed(cat[m], b), RuleOf(b), admit[m])
      BY <2>0, <2>1, LayersAllowed DEF Replayed
    <3>2. LoadedRules[m] \in Rule
      BY DEF LoadedRules, TypeOK, RulesFile, Rule
    <3>3. RuleOf(b) = LoadedRules[m]
      BY <2>1, <3>2 DEF RuleOf, Replayed, Rule
    <3>4. cat'[m] = Allowed(cat[m], b) /\ allow'[m] = LoadedRules[m]
      BY <2>1 DEF LoadRules
    <3> QED BY <1>0, <3>1, <3>3, <3>4
  <2>2. CASE ~Replayed(m)
    BY <1>0, <2>0, <2>2 DEF LoadRules
  <2> QED BY <2>1, <2>2
<1>2. MemoryLayers'
  BY <1>0, <1>1 DEF MemoryLayers, LayersOK
<1> QED BY <1>0, <1>2, LayersWrite

\* A restart derives the first layer from the stored admissions and clears
\* the Auto flag of every model that needs approval.
LEMMA LayersRestart ==
    ASSUME TypeOK, LayersInv, Restart(configs)
    PROVE  LayersInv'
<1>0. outdated' = outdated /\ allow' = disk.allow /\ admit' = disk.admit /\ Persist
  BY DEF Restart
<1>1. ASSUME NEW m \in Models \ outdated
      PROVE  LayersOK(m, cat'[m], allow'[m], admit'[m])
  <2>0. /\ LayersOK(m, disk.cat[m], disk.allow[m], disk.admit[m])
        /\ disk.cat[m] \in Model /\ disk.admit[m] \in BOOLEAN
    BY DEF LayersInv, DiskLayers, TypeOK, State
  <2> DEFINE e0 == disk.cat[m]
             d == disk.admit[m]
             e1 == DefaultPolicy(m, e0, d)
             e2 == Reconciled(m, e1, configs)
             e3 == ReviewerRestored(m, e2)
  <2>1. e1 \in Model /\ e2 \in Model
    BY <2>0, EntryTypes
  <2>2. NeedsApproval(m) => (e1.auto => e0.auto) /\ (e1.admitted => e0.admitted \/ d)
    BY <2>0 DEF DefaultPolicy, Model, NeedsApproval
  <2> HIDE DEF e1
  <2>3. (e2.auto => e1.auto) /\ (e2.admitted => e1.admitted)
    BY <2>1 DEF Reconciled, Model
  <2> HIDE DEF e2
  <2>4. (e3.auto => e2.auto) /\ (e3.admitted => e2.admitted)
    BY <2>1 DEF ReviewerRestored, Model
  <2>5. cat'[m] = e3
    BY DEF Restart, Booted, e1, e2
  <2> HIDE DEF e3
  <2>6. LayersOK(m, e3, disk.allow[m], disk.admit[m])
    BY <2>0, <2>2, <2>3, <2>4 DEF LayersOK
  <2> QED BY <1>0, <2>5, <2>6
<1>2. MemoryLayers'
  BY <1>0, <1>1 DEF MemoryLayers, LayersOK
<1> QED BY <1>0, <1>2, LayersWrite

\* The steps that touch neither layer of a model that needs approval.
LEMMA LayersQuiet ==
    ASSUME TypeOK, LayersInv, UNCHANGED <<allow, admit, outdated>>,
           \A m \in Models : NeedsApproval(m) =>
              (cat'[m].auto => cat[m].auto) /\ (cat'[m].admitted => cat[m].admitted),
           Persist \/ UNCHANGED disk
    PROVE  LayersInv'
<1>1. ASSUME NEW m \in Models \ outdated
      PROVE  LayersOK(m, cat'[m], allow'[m], admit'[m])
  BY LayersUntouched DEF LayersInv, MemoryLayers
<1>2. MemoryLayers'
  BY <1>1 DEF MemoryLayers, LayersOK
<1> QED BY <1>2, LayersWrite

\* Every step keeps the layers.
LEMMA LayersNext ==
    ASSUME TypeOK, RoutableInv, LayersInv, [Next]_vars
    PROVE  LayersInv'
<1>0. \A m \in Models : cat[m] \in Model
  BY DEF TypeOK
<1>1. ASSUME UNCHANGED <<manager, outdated>>
      PROVE  LayersInv'
  BY <1>1, LayersQuiet DEF manager
<1>2. ASSUME NEW p \in Providers, SyncStart(p) \/ RegistryToggle(p)
      PROVE  LayersInv'
  BY <1>1, <1>2 DEF SyncStart, RegistryToggle
<1>3. ASSUME NEW job \in syncs,
             \/ SyncFails(job)
             \/ \E raw \in SUBSET ModelsOf(job.provider) : SyncFetched(job, raw)
             \/ SyncAdmissions(job) \/ SyncDropped(job)
      PROVE  LayersInv'
  BY <1>1, <1>3 DEF SyncFails, SyncFetched, SyncAdmissions, SyncDropped
<1>4. ASSUME MarkSynced
      PROVE  LayersInv'
  BY <1>4, LayersQuiet DEF MarkSynced
<1>5. ASSUME NEW m \in Governed, NEW b \in BOOLEAN, RuleValidate(m, b) \/ AdmissionValidate(m, b)
      PROVE  LayersInv'
  BY <1>1, <1>5 DEF RuleValidate, AdmissionValidate
<1>6. ASSUME NEW r \in gov, RuleRecord(r) \/ RuleSave(r)
      PROVE  LayersInv'
  BY <1>1, <1>6 DEF RuleRecord, RuleSave
<1>7. ASSUME NEW r \in reg, RegistryRead(r)
      PROVE  LayersInv'
  BY <1>1, <1>7 DEF RegistryRead
<1>8. ASSUME NEW r \in reg, ReconcileProviders(r)
      PROVE  LayersInv'
  <2>1. ASSUME NEW m \in Models
        PROVE  /\ cat'[m].auto => cat[m].auto
               /\ cat'[m].admitted => cat[m].admitted
    <3>1. cat'[m] = Reconciled(m, cat[m], r.view)
      BY <1>8 DEF ReconcileProviders
    <3>2. /\ Reconciled(m, cat[m], r.view).auto => cat[m].auto
          /\ Reconciled(m, cat[m], r.view).admitted => cat[m].admitted
      BY <1>0 DEF Reconciled, Model
    <3> QED BY <3>1, <3>2
  <2> QED BY <1>8, <2>1, LayersQuiet DEF ReconcileProviders
<1>9. ASSUME NEW m \in Governed,
             ProbeStart(m) \/ ProbeConclusive(m) \/ ProbeUnavailable(m)
      PROVE  LayersInv'
  <2>1. CASE ProbeConclusive(m) /\ Present(m)
    <3>0. m \in Models
      BY ConstantsAssumption
    <3>1. ASSUME NEW n \in Models
          PROVE  cat'[n].auto = cat[n].auto /\ cat'[n].admitted = cat[n].admitted
      BY <1>0, <2>1, <3>0 DEF ProbeConclusive, Model, TypeOK
    <3> QED BY <2>1, <3>1, LayersQuiet DEF ProbeConclusive
  <2>2. CASE ~(ProbeConclusive(m) /\ Present(m))
    BY <1>1, <1>9, <2>2 DEF ProbeStart, ProbeConclusive, ProbeUnavailable
  <2> QED BY <2>1, <2>2
<1>10. ASSUME NEW enabled \in BOOLEAN, ApplyStateToCatalog(enabled)
       PROVE  LayersInv'
  <2>1. ASSUME NEW m \in Models, NeedsApproval(m)
        PROVE  cat'[m] = cat[m]
    BY <1>10, <2>1 DEF ApplyStateToCatalog, NeedsApproval
  <2> QED BY <1>10, <2>1, LayersQuiet DEF ApplyStateToCatalog
<1>11. ASSUME UNCHANGED vars
       PROVE  LayersInv'
  BY <1>1, <1>11 DEF vars, manager
<1> QED
  BY <1>2, <1>3, <1>4, <1>5, <1>6, <1>7, <1>8, <1>9, <1>10, <1>11, LayersSync,
     LayersSetAdmitted, LayersRuleApply, LayersRestart, LayersLoadRules
     DEF Next, SyncStep, GovernanceStep

\* Both approval layers hold for every entry that was not installed from
\* approvals withdrawn during the synchronisation.
THEOREM ApprovalLayers == Spec => []ApprovalHolds
<1>1. Init => TypeOK /\ RoutableInv /\ LayersInv
  BY InitType, RoutableInit, LayersInit
<1>2. TypeOK /\ RoutableInv /\ LayersInv /\ [Next]_vars
        => TypeOK' /\ RoutableInv' /\ LayersInv'
  BY NextType, RoutableNext, LayersNext DEF CatalogStep
<1>3. LayersInv => ApprovalHolds
  BY DEF LayersInv, MemoryLayers, LayersOK, ApprovalHolds
<1> QED BY <1>1, <1>2, <1>3, PTL DEF Spec

-----------------------------------------------------------------------------
(* A restart.  Memory and file may disagree on the approvals, but they     *)
(* never disagree on the entries: every change of an entry is written out. *)

EntriesOnDisk == disk.cat = cat

\* Whatever changes an entry also writes the file.
LEMMA EntriesOnDiskNext ==
    ASSUME TypeOK, EntriesOnDisk, CatalogStep
    PROVE  EntriesOnDisk'
<1>1. ASSUME Persist PROVE EntriesOnDisk'
  BY <1>1 DEF Persist, EntriesOnDisk
<1>2. ASSUME UNCHANGED <<cat, disk>> PROVE EntriesOnDisk'
  BY <1>2 DEF EntriesOnDisk
<1>3. [Next]_vars => LoadRules \/ Persist \/ UNCHANGED <<cat, disk>>
  BY DEF Next, SyncStep, GovernanceStep, vars, manager, requests, SyncStart, RegistryToggle, SyncFails, SyncFetched,
     SyncAdmissions, SyncDropped, SyncCommit, MarkSynced, RuleValidate, AdmissionValidate,
     RuleRecord, RuleApply, RuleSave, SetAdmitted, RegistryRead, ReconcileProviders,
     ProbeStart, ProbeConclusive, ProbeUnavailable, ApplyStateToCatalog, Restart
<1>4. ASSUME NEW view \in SUBSET Providers, Restart(view) PROVE Persist
  BY <1>4 DEF Restart
<1>5. ASSUME NEW job \in SyncJob, SyncDropped(job) \/ SyncCommit(job)
      PROVE  Persist \/ UNCHANGED <<cat, disk>>
  BY <1>5 DEF SyncDropped, SyncCommit, manager
<1>6. ASSUME LoadRules PROVE EntriesOnDisk'
  <2>1. CASE \E m \in Models : Replayed(m)
    BY <1>1, <1>6, <2>1 DEF LoadRules
  <2>2. CASE ~\E m \in Models : Replayed(m)
    <3>1. disk' = disk /\ cat' = [m \in Models |-> cat[m]]
      BY <1>6, <2>2 DEF LoadRules
    <3>2. cat' = cat
      BY <3>1 DEF TypeOK
    <3> QED BY <1>2, <3>1, <3>2
  <2> QED BY <2>1, <2>2
<1> QED BY <1>1, <1>2, <1>3, <1>4, <1>5, <1>6 DEF CatalogStep

\* Start-up withdraws Auto from the entries that need approval, wakes a stale
\* entry at most as unknown, and only one of a provider that is offered.
LEMMA BootedRevivesNothing ==
    ASSUME TypeOK, RoutableInv, NEW view \in SUBSET Providers, NEW m \in Models
    PROVE  /\ NeedsApproval(m) => ~Booted(m, view).auto
           /\ disk.cat[m].status = "stale" => Booted(m, view).status \in {"stale", "unknown"}
           /\ ProviderOf[m] \notin view => Booted(m, view).status \in {"absent", "stale"}
<1> DEFINE e0 == disk.cat[m]
           d == disk.admit[m]
           e1 == DefaultPolicy(m, e0, d)
           e2 == Reconciled(m, e1, view)
           e3 == ReviewerRestored(m, e2)
<1>0. e0 \in Model /\ d \in BOOLEAN /\ EntryOK(m, e0)
  BY DEF TypeOK, State, RoutableInv, EntriesOK
<1>1. /\ NeedsApproval(m) => ~e1.auto
      /\ e0.status = "stale" => e1 = e0
  BY <1>0 DEF DefaultPolicy, EntryOK, Model, NeedsApproval
<1>2. e1 \in Model /\ e2 \in Model
  BY <1>0, EntryTypes
<1> HIDE DEF e0, e1
<1>3. /\ ~e1.auto => ~e2.auto
      /\ e1.status = "stale" => e2.status \in {"stale", "unknown"}
      /\ ProviderOf[m] \notin view => e2.status \in {"absent", "stale"}
  BY <1>2 DEF Reconciled, Model
<1> HIDE DEF e2
<1>4. /\ ~e2.auto => ~e3.auto
      /\ e3.status = e2.status
  BY <1>2 DEF ReviewerRestored, Model
<1>5. Booted(m, view) = e3
  BY DEF Booted, e0, e1, e2
<1> HIDE DEF e3
<1> QED BY <1>1, <1>3, <1>4, <1>5 DEF e0

\* Only a restart counts as one, whatever view it has of the registry.
LEMMA OnlyRestartBoots ==
    ASSUME TypeOK, CatalogStep, boots' # boots
    PROVE  \E view \in SUBSET Providers : Restart(view)
<1>1. [Next]_vars => Restart(configs)
  BY DEF Next, SyncStep, GovernanceStep, vars, SyncStart, RegistryToggle, SyncFails, SyncFetched, SyncAdmissions,
     SyncDropped, SyncCommit, MarkSynced, RuleValidate, AdmissionValidate, RuleRecord,
     RuleApply, RuleSave, SetAdmitted, RegistryRead, ReconcileProviders, ProbeStart,
     ProbeConclusive, ProbeUnavailable, ApplyStateToCatalog, LoadRules
<1>2. ASSUME NEW job, SyncDropped(job) \/ SyncCommit(job) PROVE boots' = boots
  BY <1>2 DEF SyncDropped, SyncCommit
<1>3. configs \in SUBSET Providers
  BY DEF TypeOK
<1> QED BY <1>1, <1>2, <1>3 DEF CatalogStep

\* A restart revives nothing, as it reads back the entries it lost.
LEMMA RestartStep ==
    ASSUME TypeOK, RoutableInv, EntriesOnDisk, CatalogStep, boots' # boots, NEW m \in Models
    PROVE  /\ NeedsApproval(m) => ~cat'[m].auto
           /\ cat[m].status = "stale" => cat'[m].status \in {"stale", "unknown"}
<1>1. PICK view \in SUBSET Providers : Restart(view)
  BY OnlyRestartBoots
<1>2. cat'[m] = Booted(m, view) /\ cat[m] = disk.cat[m]
  BY <1>1 DEF Restart, EntriesOnDisk
<1> QED BY <1>2, BootedRevivesNothing

\* A restart alone brings no model that needs approval into Auto and no
\* stale model back to active.
THEOREM RestartSafe == Spec => RestartRevivesNothing
<1>1. Init => TypeOK /\ RoutableInv /\ EntriesOnDisk
  BY InitType, RoutableInit DEF Init, EntriesOnDisk
<1>2. TypeOK /\ RoutableInv /\ EntriesOnDisk /\ [Next]_vars
        => TypeOK' /\ RoutableInv' /\ EntriesOnDisk'
  BY NextType, RoutableNext, EntriesOnDiskNext DEF CatalogStep
<1>3. TypeOK /\ RoutableInv /\ EntriesOnDisk /\ [Next]_vars
        => [boots' # boots =>
             \A m \in Models :
               /\ NeedsApproval(m) => ~cat'[m].auto
               /\ cat[m].status = "stale" => cat'[m].status \in {"stale", "unknown"}]_vars
  BY RestartStep DEF CatalogStep
<1> QED BY <1>1, <1>2, <1>3, PTL DEF Spec, RestartRevivesNothing

=============================================================================
