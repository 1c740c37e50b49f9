------------------------------ MODULE Registry ------------------------------
(***************************************************************************)
(* The registry of providers (internal/provider/registry.go) and the       *)
(* handlers that administer it (internal/api/provider_registry.go).        *)
(*                                                                         *)
(* Every operation of provider.Registry that writes is a critical section  *)
(* that ends with persistLocked.  An update takes three: the handler       *)
(* merges what was left blank with the record, checks the merged address   *)
(* and key over the network and keeps the address; Registry.Update merges  *)
(* once more under the read lock; then it takes the lock and writes.       *)
(*                                                                         *)
(* A provider of the environment cannot be edited; the environment may     *)
(* change from one start to the next, and may then name a provider that    *)
(* the file holds as well.  Names, masks, dates and the encryption are     *)
(* left out: the process has its master key (without it, it does not start *)
(* when the file holds a provider).  What the catalogue is told is         *)
(* modelled in Catalog.                                                    *)
(***************************************************************************)
EXTENDS FiniteSets

CONSTANTS
    Providers, \* ids of providers
    Addresses,
    Secrets,   \* API keys of providers
    Editors    \* bound: updates under way at a time

VARIABLES
    records, \* Registry.dynamic
    stored,  \* providers-xing-shu.json
    env,     \* Registry.env
    edits,   \* the updates under way
    checked  \* history: addresses and keys that passed the check together

registryVars == <<records, stored, env, edits, checked>>

Switch == {"on", "off"}
Crossing == {"key", "switch"}

\* The switch an administrator asked for last, and what an update has joined
\* that it did not see together, are history.
Record == [address : Addresses, secret : Secrets, switch : Switch,
           asked : Switch, crossed : SUBSET Crossing]
NoRecord == [address |-> "none"]

NoEdit == [pc |-> "idle"]
Edit == [pc : {"checked", "merged"}, id : Providers, address : Addresses,
         secret : Secrets \cup {"kept"}, switch : Switch \cup {"kept"},
         merged : Switch \cup {"none"}, crossed : SUBSET Crossing]

RegistryTypeOK ==
    /\ records \in [Providers -> Record \cup {NoRecord}]
    /\ stored \in [Providers -> Record \cup {NoRecord}]
    /\ env \subseteq Providers
    /\ edits \in [Editors -> Edit \cup {NoEdit}]
    /\ checked \subseteq Addresses \X Secrets

RegistryInit ==
    /\ records = [p \in Providers |-> NoRecord] /\ stored = records
    /\ env \in SUBSET Providers
    /\ edits = [e \in Editors |-> NoEdit]
    /\ checked = {}

Dynamic(p) == records[p] # NoRecord

\* persistLocked
Store(ok) == stored' = IF ok THEN records' ELSE stored

\* History: p has changed under the other updates of it, those of rest aside.
Crossed(p, what, rest) ==
    [e \in Editors |->
        IF e \in rest \/ edits[e] = NoEdit \/ edits[e].id # p THEN edits[e]
        ELSE [edits[e] EXCEPT !.crossed = @ \cup IF edits[e].pc = "merged" THEN what
                                                                        ELSE what \ {"switch"}]]

------------------------------------------------------------------------------
\* The address and the key are checked before anything is read; a failed write
\* takes the new record back.
CreateProvider(p, a, s, switch, ok) ==
    /\ checked' = checked \cup {<<a, s>>}
    /\ p \notin env /\ ~Dynamic(p)
    /\ records' = IF ok THEN [records EXCEPT ![p] = [address |-> a, secret |-> s, switch |-> switch,
                                                     asked |-> switch, crossed |-> {}]]
                        ELSE records
    /\ Store(ok)
    /\ edits' = IF ok THEN Crossed(p, Crossing, {}) ELSE edits
    /\ env' = env

\* Mutant: what was left blank is not checked.
CheckTyped(e, p, a, s, switch) ==
    /\ edits[e] = NoEdit /\ Dynamic(p)
    /\ LET address == IF a = "kept" THEN records[p].address ELSE a
       IN /\ checked' = IF s = "kept" THEN checked ELSE checked \cup {<<address, s>>}
          /\ edits' = [edits EXCEPT ![e] =
                          [pc |-> "checked", id |-> p, address |-> address, secret |-> s,
                           switch |-> switch, merged |-> "none", crossed |-> {}]]
    /\ UNCHANGED <<records, stored, env>>

\* The handler of an update: ResolveInput and ValidateConnection.  From here
\* on the address counts as given, the key and the switch only if they were.
CheckUpdate(e, p, a, s, switch) ==
    /\ edits[e] = NoEdit /\ Dynamic(p)
    /\ LET address == IF a = "kept" THEN records[p].address ELSE a
           secret == IF s = "kept" THEN records[p].secret ELSE s
       IN /\ checked' = checked \cup {<<address, secret>>}
          /\ edits' = [edits EXCEPT ![e] =
                          [pc |-> "checked", id |-> p, address |-> address, secret |-> s,
                           switch |-> switch, merged |-> "none", crossed |-> {}]]
    /\ UNCHANGED <<records, stored, env>>

\* Mutant: a switch that was left blank is on.
MergedOn(edit, r) ==
    [edit EXCEPT !.pc = "merged", !.merged = IF edit.switch = "kept" THEN "on" ELSE edit.switch]

\* ... merged with the record once more, for the switch.
Merged(edit, r) ==
    IF edit.switch # "kept" THEN [edit EXCEPT !.pc = "merged", !.merged = edit.switch]
    ELSE [edit EXCEPT !.pc = "merged", !.merged = r.switch,
                      !.crossed = @ \cup (r.crossed \ {"key"})]

\* Registry.Update up to the lock.
MergeUpdate(e) ==
    /\ edits[e].pc = "checked"
    /\ LET p == edits[e].id IN
       edits' = [edits EXCEPT ![e] = IF p \in env \/ ~Dynamic(p) THEN NoEdit ELSE Merged(@, records[p])]
    /\ UNCHANGED <<records, stored, env, checked>>

Given(edit) ==
    (IF edit.secret = "kept" THEN {} ELSE {"key"}) \cup (IF edit.switch = "kept" THEN {} ELSE {"switch"})

\* Mutant: a key that was left blank is stored.
UpdatedBlank(r, edit) ==
    [address |-> edit.address, secret |-> edit.secret, switch |-> edit.merged,
     asked |-> IF edit.switch = "kept" THEN r.asked ELSE edit.switch,
     crossed |-> edit.crossed \ Given(edit)]

\* What an update makes of a record.
Updated(r, edit) ==
    [address |-> edit.address,
     secret |-> IF edit.secret = "kept" THEN r.secret ELSE edit.secret,
     switch |-> edit.merged,
     asked |-> IF edit.switch = "kept" THEN r.asked ELSE edit.switch,
     crossed |-> edit.crossed \ Given(edit)]

\* ... and under the lock.  A failed write leaves the memory changed.
CommitUpdate(e, ok) ==
    /\ edits[e].pc = "merged"
    /\ LET p == edits[e].id IN
       IF Dynamic(p)
       THEN /\ records' = [records EXCEPT ![p] = Updated(@, edits[e])]
            /\ Store(ok)
            /\ edits' = [Crossed(p, Given(edits[e]) \cup {"switch"}, {e}) EXCEPT ![e] = NoEdit]
       ELSE edits' = [edits EXCEPT ![e] = NoEdit] /\ UNCHANGED <<records, stored>>
    /\ UNCHANGED <<env, checked>>

Switched(r, switch) ==
    [r EXCEPT !.switch = switch, !.asked = switch, !.crossed = @ \ {"switch"}]

\* Mutant: it is not asked whose provider it is.
SetAnyProviderEnabled(p, switch, ok) ==
    /\ Dynamic(p)
    /\ records' = [records EXCEPT ![p] = Switched(@, switch)]
    /\ Store(ok)
    /\ edits' = Crossed(p, {"switch"}, {})
    /\ UNCHANGED <<env, checked>>

SetProviderEnabled(p, switch, ok) ==
    /\ p \notin env /\ Dynamic(p)
    /\ records' = [records EXCEPT ![p] = Switched(@, switch)]
    /\ Store(ok)
    /\ edits' = Crossed(p, {"switch"}, {})
    /\ UNCHANGED <<env, checked>>

DeleteProvider(p, ok) ==
    /\ p \notin env /\ Dynamic(p)
    /\ records' = [records EXCEPT ![p] = NoRecord]
    /\ Store(ok)
    /\ UNCHANGED <<env, edits, checked>>

\* NewRegistry in a new process, maybe with another environment.
ReopenRegistry(environment) ==
    /\ records' = stored /\ stored' = stored
    /\ env' = environment
    /\ edits' = [e \in Editors |-> NoEdit]
    /\ checked' = checked

RegistryNext ==
    \/ \E p \in Providers, ok \in BOOLEAN :
          \/ \E a \in Addresses, s \in Secrets, switch \in Switch : CreateProvider(p, a, s, switch, ok)
          \/ \E switch \in Switch : SetProviderEnabled(p, switch, ok)
          \/ DeleteProvider(p, ok)
    \/ \E e \in Editors :
          \/ \E p \in Providers, a \in Addresses \cup {"kept"}, s \in Secrets \cup {"kept"},
                switch \in Switch \cup {"kept"} : CheckUpdate(e, p, a, s, switch)
          \/ MergeUpdate(e)
          \/ \E ok \in BOOLEAN : CommitUpdate(e, ok)
    \/ \E environment \in SUBSET Providers : ReopenRegistry(environment)

RegistrySpec == RegistryInit /\ [][RegistryNext]_registryVars

------------------------------------------------------------------------------
Everywhere(p) == {records[p], stored[p]} \ {NoRecord}

\* The key of a provider goes to an address it was checked with, in memory and
\* in the file, whatever failed in between: only an update that keeps the key
\* while another request changes the record joins an address and a key that
\* were never checked together (the key is merged before the lock is taken).
CheckedTogether ==
    \A p \in Providers : \A r \in Everywhere(p) :
        <<r.address, r.secret>> \in checked \/ "key" \in r.crossed

\* A provider that was switched off stays off until somebody asks for it again:
\* an edit of something else, a failed write or a restart does not switch it on,
\* except for an update that read the switch before and wrote after.
OffStaysOff ==
    \A p \in Providers : \A r \in Everywhere(p) :
        r.switch = "on" => r.asked = "on" \/ "switch" \in r.crossed

\* What a provider is called with (Snapshot).
Called(p) ==
    IF Dynamic(p) /\ records[p].switch = "on" THEN <<records[p].address, records[p].secret>>
    ELSE IF p \in env THEN <<"env">> ELSE <<>>

\* As long as the environment names a provider nothing changes how it is
\* called: no edit that began earlier, no failed write and no restart, not even
\* when the file holds a provider of that name, which then hides it.
EnvironmentIsReadOnly ==
    [][\A p \in env \cap env' : Called(p)' = Called(p)]_registryVars

=============================================================================
