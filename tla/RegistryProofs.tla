--------------------------- MODULE RegistryProofs ---------------------------
(***************************************************************************)
(* Theorems about Registry, for any providers, addresses and keys and any  *)
(* number of updates under way: keys stay with the addresses they were     *)
(* checked with, what was switched off stays off, and the environment is   *)
(* read only, through failed writes and restarts.                          *)
(***************************************************************************)
EXTENDS Registry, TLAPS

\* What holds of every record, in memory and in the file.
Sound(r, pairs) ==
    /\ <<r.address, r.secret>> \in pairs \/ "key" \in r.crossed
    /\ r.switch = "on" => r.asked = "on" \/ "switch" \in r.crossed

\* What an update under way was given, and what it has read of the record r it
\* is about.
Stands(edit, pairs) ==
    /\ edit.secret # "kept" => <<edit.address, edit.secret>> \in pairs
    /\ edit.pc = "merged" /\ edit.switch # "kept" => edit.merged = edit.switch

Leans(edit, r, pairs) ==
    /\ edit.secret = "kept" => <<edit.address, r.secret>> \in pairs \/ "key" \in edit.crossed
    /\ edit.pc = "merged" /\ edit.switch = "kept" /\ edit.merged = "on" =>
          r.asked = "on" \/ "switch" \in edit.crossed

Known == [Providers -> Record \cup {NoRecord}]

AllSound(image, pairs) == \A p \in Providers : image[p] # NoRecord => Sound(image[p], pairs)

RecordsOK == AllSound(records, checked) /\ AllSound(stored, checked)

EditsOK ==
    \A e \in Editors : edits[e] # NoEdit =>
        /\ Stands(edits[e], checked)
        /\ records[edits[e].id] # NoRecord => Leans(edits[e], records[edits[e].id], checked)

\* The memory and the file agree on the providers of the environment, and no
\* update of one of them gets as far as the lock.
EnvironmentOK ==
    /\ \A p \in env : records[p] = stored[p]
    /\ \A e \in Editors : edits[e].pc = "merged" => edits[e].merged \in Switch /\ edits[e].id \notin env

RegistryInv == RegistryTypeOK /\ RecordsOK /\ EditsOK /\ EnvironmentOK

-----------------------------------------------------------------------------
LEMMA InitOK == RegistryInit => RegistryInv
  <1> SUFFICES ASSUME RegistryInit
               PROVE  RegistryInv
    OBVIOUS
  <1>1. RegistryTypeOK
    BY DEF RegistryInit, RegistryTypeOK
  <1>2. RecordsOK /\ EditsOK
    BY DEF RegistryInit, RecordsOK, AllSound, EditsOK
  <1>3. EnvironmentOK
    BY DEF RegistryInit, EnvironmentOK, NoEdit
  <1> QED
    BY <1>1, <1>2, <1>3 DEF RegistryInv

\* What was checked stays checked.
LEMMA MoreChecked ==
    ASSUME NEW old, NEW new, old \subseteq new
    PROVE  /\ \A r : Sound(r, old) => Sound(r, new)
           /\ \A edit : Stands(edit, old) => Stands(edit, new)
           /\ \A edit, r : Leans(edit, r, old) => Leans(edit, r, new)
           /\ \A image : AllSound(image, old) => AllSound(image, new)
  <1>1. \A r : Sound(r, old) => Sound(r, new)
    BY DEF Sound
  <1>2. /\ \A edit : Stands(edit, old) => Stands(edit, new)
        /\ \A edit, r : Leans(edit, r, old) => Leans(edit, r, new)
    BY DEF Stands, Leans
  <1>3. \A image : AllSound(image, old) => AllSound(image, new)
    BY <1>1 DEF AllSound
  <1> QED
    BY <1>1, <1>2, <1>3

\* The file, after a write that succeeds or fails.
LEMMA StoreOK ==
    ASSUME RegistryInv, NEW ok \in BOOLEAN, Store(ok), checked \subseteq checked',
           records' \in Known, AllSound(records', checked')
    PROVE  RecordsOK' /\ stored' \in Known
  <1>1. stored' \in {records', stored}
    BY DEF Store
  <1>2. stored' \in Known
    BY <1>1 DEF RegistryInv, RegistryTypeOK, Known
  <1>3. AllSound(stored, checked')
    BY MoreChecked DEF RegistryInv, RecordsOK
  <1> QED
    BY <1>1, <1>2, <1>3 DEF RecordsOK

-----------------------------------------------------------------------------
(* A critical section on the provider p turns its record into new, and     *)
(* tells the other updates of p what has changed.                          *)

\* What must be told: a new key, and a switch that may no longer be asked for.
Told(old, new, what) ==
    /\ new.secret = old.secret \/ "key" \in what
    /\ "switch" \in what

CrossedEdit(edit, what) ==
    [edit EXCEPT !.crossed = @ \cup IF edit.pc = "merged" THEN what ELSE what \ {"switch"}]

LEMMA CrossedType ==
    ASSUME NEW edit \in Edit, NEW what \in SUBSET Crossing
    PROVE  /\ CrossedEdit(edit, what) \in Edit
           /\ \A f \in {"pc", "id", "address", "secret", "switch", "merged"} :
                 CrossedEdit(edit, what)[f] = edit[f]
           /\ edit.crossed \subseteq CrossedEdit(edit, what).crossed
           /\ what \ {"switch"} \subseteq CrossedEdit(edit, what).crossed
           /\ edit.pc = "merged" => what \subseteq CrossedEdit(edit, what).crossed
  BY DEF CrossedEdit, Edit, Crossing

LEMMA StillStands ==
    ASSUME NEW edit \in Edit, NEW what \in SUBSET Crossing, NEW pairs, Stands(edit, pairs)
    PROVE  Stands(CrossedEdit(edit, what), pairs)
  BY CrossedType DEF Stands

LEMMA StillLeans ==
    ASSUME NEW edit \in Edit, NEW what \in SUBSET Crossing, NEW old, NEW new, NEW pairs,
           what = Crossing \/ (Leans(edit, old, pairs) /\ Told(old, new, what))
    PROVE  Leans(CrossedEdit(edit, what), new, pairs)
  BY CrossedType DEF Leans, Told, Crossing

\* The critical section as a whole.
LEMMA SectionKeepsInv ==
    ASSUME RegistryInv, NEW p \in Providers \ env, NEW new \in Record, NEW ok \in BOOLEAN,
           NEW what \in SUBSET Crossing, NEW rest \in SUBSET Editors,
           what = Crossing \/ (records[p] # NoRecord /\ Told(records[p], new, what)),
           records' = [records EXCEPT ![p] = new], Store(ok), env' = env,
           checked \subseteq checked', checked' \subseteq Addresses \X Secrets,
           Sound(new, checked'),
           edits' \in [Editors -> Edit \cup {NoEdit}],
           \A e \in Editors : edits'[e] = NoEdit \/ edits'[e] = Crossed(p, what, rest)[e],
           \A e \in rest : edits'[e] = NoEdit
    PROVE  RegistryInv'
  <1>1. records' \in Known
    BY DEF RegistryInv, RegistryTypeOK, Known
  <1>2. AllSound(records, checked')
    BY MoreChecked DEF RegistryInv, RecordsOK
  <1>3. AllSound(records', checked')
    BY <1>2 DEF AllSound, RegistryInv, RegistryTypeOK
  <1>4. RecordsOK' /\ stored' \in Known
    BY <1>1, <1>3, StoreOK
  <1>5. RegistryTypeOK'
    BY <1>1, <1>4 DEF RegistryInv, RegistryTypeOK, Known
  <1>6. ASSUME NEW e \in Editors, edits'[e] # NoEdit
        PROVE  /\ edits[e] \in Edit /\ e \notin rest
               /\ edits'[e] = IF edits[e].id = p THEN CrossedEdit(edits[e], what) ELSE edits[e]
    BY <1>6 DEF Crossed, CrossedEdit, RegistryInv, RegistryTypeOK
  <1>7. ASSUME NEW e \in Editors, edits'[e] # NoEdit
        PROVE  /\ Stands(edits'[e], checked')
               /\ records'[edits'[e].id] # NoRecord =>
                    Leans(edits'[e], records'[edits'[e].id], checked')
    <2>1. /\ edits[e] \in Edit /\ edits[e] # NoEdit
          /\ edits'[e] = IF edits[e].id = p THEN CrossedEdit(edits[e], what) ELSE edits[e]
      BY <1>6, <1>7 DEF Crossed, RegistryInv, RegistryTypeOK
    <2>2. Stands(edits[e], checked')
      BY <2>1, MoreChecked DEF RegistryInv, EditsOK
    <2>3. records[edits[e].id] # NoRecord => Leans(edits[e], records[edits[e].id], checked')
      BY <2>1, MoreChecked DEF RegistryInv, EditsOK
    <2>4. CASE edits[e].id = p
      <3>1. edits'[e] = CrossedEdit(edits[e], what) /\ edits'[e].id = p
        BY <2>1, <2>4, CrossedType
      <3>2. records'[p] = new
        BY DEF RegistryInv, RegistryTypeOK
      <3>3. Leans(edits'[e], new, checked')
        BY <2>1, <2>3, <2>4, <3>1, StillLeans
      <3> QED
        BY <2>1, <2>2, <3>1, <3>2, <3>3, StillStands
    <2>5. CASE edits[e].id # p
      <3>1. edits'[e] = edits[e]
        BY <2>1, <2>5
      <3>2. edits[e].id \in Providers
        BY <2>1 DEF Edit
      <3>3. records'[edits[e].id] = records[edits[e].id]
        BY <2>5, <3>2 DEF RegistryInv, RegistryTypeOK
      <3> QED
        BY <2>2, <2>3, <3>1, <3>3
    <2> QED
      BY <2>4, <2>5
  <1>8. EditsOK'
    BY <1>7 DEF EditsOK
  <1>9. EnvironmentOK'
    <2>1. \A q \in env' : records'[q] = stored'[q]
      BY DEF RegistryInv, EnvironmentOK, RegistryTypeOK, Store
    <2>2. ASSUME NEW e \in Editors, edits'[e].pc = "merged"
          PROVE  edits'[e].merged \in Switch /\ edits'[e].id \notin env'
      <3>1. edits'[e] # NoEdit
        BY <2>2 DEF NoEdit
      <3>2. /\ edits[e] \in Edit
            /\ edits'[e] = IF edits[e].id = p THEN CrossedEdit(edits[e], what) ELSE edits[e]
        BY <3>1, <1>6
      <3>3. /\ edits'[e].pc = edits[e].pc /\ edits'[e].merged = edits[e].merged
            /\ edits'[e].id = edits[e].id
        BY <3>2, CrossedType
      <3> QED
        BY <2>2, <3>3 DEF RegistryInv, EnvironmentOK
    <2> QED
      BY <2>1, <2>2 DEF EnvironmentOK
  <1> QED
    BY <1>4, <1>5, <1>8, <1>9 DEF RegistryInv

-----------------------------------------------------------------------------
\* What is told keeps the updates well formed.
LEMMA CrossedTypes ==
    ASSUME RegistryInv, NEW p, NEW what \in SUBSET Crossing, NEW rest
    PROVE  Crossed(p, what, rest) \in [Editors -> Edit \cup {NoEdit}]
  <1> SUFFICES ASSUME NEW e \in Editors
               PROVE  Crossed(p, what, rest)[e] \in Edit \cup {NoEdit}
    BY DEF Crossed
  <1>1. CASE e \in rest \/ edits[e] = NoEdit \/ edits[e].id # p
    BY <1>1 DEF Crossed, RegistryInv, RegistryTypeOK
  <1>2. CASE ~(e \in rest \/ edits[e] = NoEdit \/ edits[e].id # p)
    <2>1. edits[e] \in Edit /\ Crossed(p, what, rest)[e] = CrossedEdit(edits[e], what)
      BY <1>2 DEF Crossed, CrossedEdit, RegistryInv, RegistryTypeOK
    <2> QED
      BY <2>1, CrossedType
  <1> QED
    BY <1>1, <1>2

LEMMA CreateKeepsInv ==
    ASSUME RegistryInv, NEW p \in Providers, NEW a \in Addresses, NEW s \in Secrets,
           NEW switch \in Switch, NEW ok \in BOOLEAN, CreateProvider(p, a, s, switch, ok)
    PROVE  RegistryInv'
  <1> DEFINE new == [address |-> a, secret |-> s, switch |-> switch, asked |-> switch, crossed |-> {}]
  <1>1. new \in Record /\ Sound(new, checked')
    BY DEF CreateProvider, Record, Sound
  <1>2. /\ checked \subseteq checked' /\ checked' \subseteq Addresses \X Secrets
        /\ p \in Providers \ env /\ env' = env
    BY DEF CreateProvider, RegistryInv, RegistryTypeOK
  <1>3. CASE ok
    <2>1. records' = [records EXCEPT ![p] = new] /\ edits' = Crossed(p, Crossing, {})
      BY <1>3 DEF CreateProvider
    <2>2. edits' \in [Editors -> Edit \cup {NoEdit}]
      BY <2>1, CrossedTypes
    <2>3. Store(ok)
      BY DEF CreateProvider
    <2>4. /\ Crossing \in SUBSET Crossing /\ {} \in SUBSET Editors
          /\ \A e \in Editors : edits'[e] = NoEdit \/ edits'[e] = Crossed(p, Crossing, {})[e]
          /\ \A e \in {} : edits'[e] = NoEdit
      BY <2>1
    <2> QED
      BY <1>1, <1>2, <2>1, <2>2, <2>3, <2>4, SectionKeepsInv
  <1>4. CASE ~ok
    <2>1. records' = records /\ edits' = edits /\ stored' = stored
      BY <1>4 DEF CreateProvider, Store
    <2>2. RegistryTypeOK' /\ EnvironmentOK'
      BY <1>2, <2>1 DEF RegistryInv, RegistryTypeOK, EnvironmentOK
    <2>3. RecordsOK'
      BY <1>2, <2>1, MoreChecked DEF RegistryInv, RecordsOK
    <2>4. EditsOK'
      BY <1>2, <2>1, MoreChecked DEF RegistryInv, EditsOK
    <2> QED
      BY <2>2, <2>3, <2>4 DEF RegistryInv
  <1> QED
    BY <1>3, <1>4

LEMMA SwitchKeepsInv ==
    ASSUME RegistryInv, NEW p \in Providers, NEW switch \in Switch, NEW ok \in BOOLEAN,
           SetProviderEnabled(p, switch, ok)
    PROVE  RegistryInv'
  <1> DEFINE new == Switched(records[p], switch)
  <1>1. records[p] \in Record /\ Sound(records[p], checked)
    BY DEF SetProviderEnabled, Dynamic, RegistryInv, RegistryTypeOK, RecordsOK, AllSound
  <1>2. new \in Record /\ Sound(new, checked) /\ new.secret = records[p].secret
    BY <1>1 DEF Switched, Record, Sound
  <1>3. records[p] # NoRecord /\ Told(records[p], new, {"switch"}) /\ {"switch"} \subseteq Crossing
    BY <1>2 DEF SetProviderEnabled, Dynamic, Told, Crossing
  <1>4. /\ records' = [records EXCEPT ![p] = new] /\ Store(ok) /\ env' = env /\ checked' = checked
        /\ p \in Providers \ env /\ edits' = Crossed(p, {"switch"}, {})
    BY DEF SetProviderEnabled
  <1>5. edits' \in [Editors -> Edit \cup {NoEdit}] /\ checked' \subseteq Addresses \X Secrets
    BY <1>3, <1>4, CrossedTypes DEF RegistryInv, RegistryTypeOK
  <1>6. /\ {"switch"} \in SUBSET Crossing /\ {} \in SUBSET Editors /\ checked \subseteq checked'
        /\ \A e \in Editors : edits'[e] = NoEdit \/ edits'[e] = Crossed(p, {"switch"}, {})[e]
        /\ \A e \in {} : edits'[e] = NoEdit
        /\ Sound(new, checked')
    BY <1>2, <1>3, <1>4
  <1> HIDE DEF new
  <1> QED
    BY <1>2, <1>3, <1>4, <1>5, <1>6, SectionKeepsInv

LEMMA DeleteKeepsInv ==
    ASSUME RegistryInv, NEW p \in Providers, NEW ok \in BOOLEAN, DeleteProvider(p, ok)
    PROVE  RegistryInv'
  <1> USE DEF DeleteProvider
  <1>1. records' \in Known /\ AllSound(records', checked')
    BY DEF RegistryInv, RegistryTypeOK, RecordsOK, AllSound, Known
  <1>2. RecordsOK' /\ stored' \in Known
    BY <1>1, StoreOK
  <1>3. RegistryTypeOK'
    BY <1>1, <1>2 DEF RegistryInv, RegistryTypeOK, Known
  <1>4. EditsOK'
    BY DEF RegistryInv, RegistryTypeOK, EditsOK, Edit
  <1>5. EnvironmentOK'
    BY DEF RegistryInv, RegistryTypeOK, EnvironmentOK, Store
  <1> QED
    BY <1>2, <1>3, <1>4, <1>5 DEF RegistryInv

-----------------------------------------------------------------------------
(* An update.                                                              *)

LEMMA CheckKeepsInv ==
    ASSUME RegistryInv, NEW e \in Editors, NEW p \in Providers,
           NEW a \in Addresses \cup {"kept"}, NEW s \in Secrets \cup {"kept"},
           NEW switch \in Switch \cup {"kept"}, CheckUpdate(e, p, a, s, switch)
    PROVE  RegistryInv'
  <1> DEFINE address == IF a = "kept" THEN records[p].address ELSE a
             secret == IF s = "kept" THEN records[p].secret ELSE s
             edit == [pc |-> "checked", id |-> p, address |-> address, secret |-> s,
                      switch |-> switch, merged |-> "none", crossed |-> {}]
  <1>1. records[p] \in Record
    BY DEF CheckUpdate, Dynamic, RegistryInv, RegistryTypeOK
  <1>2. address \in Addresses /\ secret \in Secrets
    BY <1>1 DEF Record
  <1>3. /\ checked' = checked \cup {<<address, secret>>} /\ edits' = [edits EXCEPT ![e] = edit]
        /\ UNCHANGED <<records, stored, env>>
    BY DEF CheckUpdate
  <1>4. edit \in Edit
    BY <1>2 DEF Edit
  <1>5. RegistryTypeOK'
    BY <1>2, <1>3, <1>4 DEF RegistryInv, RegistryTypeOK
  <1>6. RecordsOK'
    BY <1>3, MoreChecked DEF RegistryInv, RecordsOK
  <1>7. Stands(edit, checked') /\ Leans(edit, records[p], checked')
    BY <1>3 DEF Stands, Leans
  <1>8. EditsOK'
    <2> SUFFICES ASSUME NEW i \in Editors, edits'[i] # NoEdit
                 PROVE  /\ Stands(edits'[i], checked')
                        /\ records[edits'[i].id] # NoRecord =>
                             Leans(edits'[i], records[edits'[i].id], checked')
      BY <1>3 DEF EditsOK
    <2>1. CASE i = e
      BY <1>3, <1>7, <2>1 DEF RegistryInv, RegistryTypeOK
    <2>2. CASE i # e
      <3>1. edits'[i] = edits[i]
        BY <1>3, <2>2 DEF RegistryInv, RegistryTypeOK
      <3> QED
        BY <1>3, <3>1, MoreChecked DEF RegistryInv, EditsOK
    <2> QED
      BY <2>1, <2>2
  <1>9. EnvironmentOK'
    BY <1>3 DEF RegistryInv, RegistryTypeOK, EnvironmentOK
  <1> QED
    BY <1>5, <1>6, <1>8, <1>9 DEF RegistryInv

LEMMA MergedFits ==
    ASSUME NEW edit \in Edit, edit.pc = "checked", NEW r \in Record, NEW pairs,
           Sound(r, pairs), Stands(edit, pairs), Leans(edit, r, pairs)
    PROVE  LET merged == Merged(edit, r) IN
           /\ merged \in Edit /\ merged.id = edit.id /\ merged.merged \in Switch
           /\ Stands(merged, pairs) /\ Leans(merged, r, pairs)
  <1> DEFINE merged == Merged(edit, r)
  <1>1. /\ merged.id = edit.id /\ merged.address = edit.address /\ merged.secret = edit.secret
        /\ merged.switch = edit.switch /\ edit.crossed \subseteq merged.crossed
        /\ merged.merged = IF edit.switch = "kept" THEN r.switch ELSE edit.switch
        /\ edit.switch = "kept" => r.crossed \ {"key"} \subseteq merged.crossed
    BY DEF Merged, Edit
  <1>2. merged \in Edit /\ merged.merged \in Switch
    BY DEF Merged, Edit, Record, Switch, Crossing
  <1>3. Stands(merged, pairs)
    BY <1>1 DEF Stands
  <1>4. Leans(merged, r, pairs)
    BY <1>1 DEF Leans, Sound
  <1> QED
    BY <1>1, <1>2, <1>3, <1>4

LEMMA MergeKeepsInv ==
    ASSUME RegistryInv, NEW e \in Editors, MergeUpdate(e)
    PROVE  RegistryInv'
  <1> DEFINE p == edits[e].id
  <1>1. edits[e] \in Edit /\ edits[e] # NoEdit /\ p \in Providers
    BY DEF MergeUpdate, NoEdit, Edit, RegistryInv, RegistryTypeOK
  <1>2. UNCHANGED <<records, stored, env, checked>>
    BY DEF MergeUpdate
  <1>3. PICK edit \in Edit \cup {NoEdit} :
           /\ edits' = [edits EXCEPT ![e] = edit]
           /\ edit # NoEdit =>
                /\ edit.id = p /\ p \notin env /\ edit.merged \in Switch
                /\ Stands(edit, checked) /\ Leans(edit, records[p], checked)
    <2>1. CASE p \in env \/ ~Dynamic(p)
      BY <2>1 DEF MergeUpdate
    <2>2. CASE ~(p \in env \/ ~Dynamic(p))
      <3>1. records[p] \in Record /\ Sound(records[p], checked)
        BY <1>1, <2>2 DEF Dynamic, RegistryInv, RegistryTypeOK, RecordsOK, AllSound
      <3>2. Stands(edits[e], checked) /\ Leans(edits[e], records[p], checked)
        BY <1>1, <2>2 DEF Dynamic, RegistryInv, EditsOK
      <3>3. edits' = [edits EXCEPT ![e] = Merged(edits[e], records[p])]
        BY <2>2 DEF MergeUpdate, RegistryInv, RegistryTypeOK
      <3> QED
        BY <1>1, <2>2, <3>1, <3>2, <3>3, MergedFits DEF MergeUpdate
    <2> QED
      BY <2>1, <2>2
  <1>4. \A i \in Editors : edits'[i] = IF i = e THEN edit ELSE edits[i]
    BY <1>3 DEF RegistryInv, RegistryTypeOK
  <1>5. RegistryTypeOK' /\ RecordsOK'
    BY <1>2, <1>3 DEF RegistryInv, RegistryTypeOK, RecordsOK
  <1>6. EditsOK'
    BY <1>2, <1>3, <1>4 DEF RegistryInv, EditsOK
  <1>7. EnvironmentOK'
    BY <1>2, <1>3, <1>4 DEF RegistryInv, EnvironmentOK, NoEdit
  <1> QED
    BY <1>5, <1>6, <1>7 DEF RegistryInv

LEMMA UpdatedFits ==
    ASSUME NEW edit \in Edit, edit.pc = "merged", edit.merged \in Switch, NEW r \in Record,
           NEW pairs, Stands(edit, pairs), Leans(edit, r, pairs)
    PROVE  LET new == Updated(r, edit) IN
           /\ new \in Record /\ Sound(new, pairs)
           /\ Told(r, new, Given(edit) \cup {"switch"})
  <1> DEFINE new == Updated(r, edit)
  <1>1. new \in Record
    BY DEF Updated, Edit, Record, Given
  <1>2. <<new.address, new.secret>> \in pairs \/ "key" \in new.crossed
    BY DEF Updated, Given, Stands, Leans
  <1>3. new.switch = "on" => new.asked = "on" \/ "switch" \in new.crossed
    BY DEF Updated, Given, Stands, Leans
  <1>4. Told(r, new, Given(edit) \cup {"switch"})
    BY DEF Told, Updated, Given
  <1> QED
    BY <1>1, <1>2, <1>3, <1>4 DEF Sound

LEMMA CommitKeepsInv ==
    ASSUME RegistryInv, NEW e \in Editors, NEW ok \in BOOLEAN, CommitUpdate(e, ok)
    PROVE  RegistryInv'
  <1> DEFINE p == edits[e].id
             new == Updated(records[p], edits[e])
             what == Given(edits[e]) \cup {"switch"}
             rest == {e}
  <1>1. edits[e].pc = "merged" /\ env' = env /\ checked' = checked
    BY DEF CommitUpdate
  <1>2. edits[e] \in Edit /\ edits[e] # NoEdit /\ edits[e].merged \in Switch /\ p \in Providers \ env
    BY <1>1 DEF NoEdit, Edit, RegistryInv, RegistryTypeOK, EnvironmentOK
  <1>3. CASE Dynamic(p)
    <2>1. records[p] \in Record /\ records[p] # NoRecord
      BY <1>2, <1>3 DEF Dynamic, RegistryInv, RegistryTypeOK
    <2>2. Stands(edits[e], checked) /\ Leans(edits[e], records[p], checked)
      BY <1>2, <2>1 DEF RegistryInv, EditsOK
    <2>3. new \in Record /\ Sound(new, checked') /\ Told(records[p], new, what)
      BY <1>1, <1>2, <2>1, <2>2, UpdatedFits
    <2>4. /\ records' = [records EXCEPT ![p] = new] /\ Store(ok)
          /\ edits' = [Crossed(p, what, rest) EXCEPT ![e] = NoEdit]
      BY <1>3 DEF CommitUpdate, RegistryInv, RegistryTypeOK
    <2>5. what \in SUBSET Crossing /\ rest \in SUBSET Editors
      BY DEF Given, Crossing
    <2>6. Crossed(p, what, rest) \in [Editors -> Edit \cup {NoEdit}]
      BY <2>5, CrossedTypes
    <2>7. edits' \in [Editors -> Edit \cup {NoEdit}]
      BY <2>4, <2>6
    <2>8. /\ \A i \in Editors : edits'[i] = NoEdit \/ edits'[i] = Crossed(p, what, rest)[i]
          /\ \A i \in rest : edits'[i] = NoEdit
      BY <2>4, <2>6
    <2>9. checked \subseteq checked' /\ checked' \subseteq Addresses \X Secrets
      BY <1>1 DEF RegistryInv, RegistryTypeOK
    <2> HIDE DEF new, what, p, rest
    <2>10. what = Crossing \/ (records[p] # NoRecord /\ Told(records[p], new, what))
      BY <2>1, <2>3
    <2>11. /\ records' = [records EXCEPT ![p] = new] /\ Store(ok) /\ env' = env
           /\ p \in Providers \ env /\ new \in Record /\ Sound(new, checked')
      BY <1>1, <1>2, <2>3, <2>4
    <2> QED
      BY <2>5, <2>7, <2>8, <2>9, <2>10, <2>11, SectionKeepsInv
  <1>4. CASE ~Dynamic(p)
    <2>1. edits' = [edits EXCEPT ![e] = NoEdit] /\ UNCHANGED <<records, stored, env, checked>>
      BY <1>4 DEF CommitUpdate
    <2>2. \A i \in Editors : edits'[i] = IF i = e THEN NoEdit ELSE edits[i]
      BY <2>1 DEF RegistryInv, RegistryTypeOK
    <2>3. RegistryTypeOK' /\ RecordsOK'
      BY <2>1 DEF RegistryInv, RegistryTypeOK, RecordsOK
    <2>4. EditsOK' /\ EnvironmentOK'
      BY <2>1, <2>2 DEF RegistryInv, EditsOK, EnvironmentOK, NoEdit
    <2> QED
      BY <2>3, <2>4 DEF RegistryInv
  <1> QED
    BY <1>3, <1>4

LEMMA ReopenKeepsInv ==
    ASSUME RegistryInv, NEW environment \in SUBSET Providers, ReopenRegistry(environment)
    PROVE  RegistryInv'
  <1> USE DEF ReopenRegistry
  <1>1. RegistryTypeOK' /\ RecordsOK'
    BY DEF RegistryInv, RegistryTypeOK, RecordsOK, AllSound
  <1>2. EditsOK' /\ EnvironmentOK'
    BY DEF EditsOK, EnvironmentOK, NoEdit
  <1> QED
    BY <1>1, <1>2 DEF RegistryInv

-----------------------------------------------------------------------------
\* Every request of an administrator and every restart keeps the invariant, and
\* so do the steps of other components (catalogue, gateway), which leave the
\* registry alone.
LEMMA StepOK == RegistryInv /\ [RegistryNext]_registryVars => RegistryInv'
  <1> SUFFICES ASSUME RegistryInv, [RegistryNext]_registryVars
               PROVE  RegistryInv'
    OBVIOUS
  <1>1. CASE UNCHANGED registryVars
    BY <1>1 DEF registryVars, RegistryInv, RegistryTypeOK, RecordsOK, EditsOK, EnvironmentOK
  <1>2. ASSUME NEW p \in Providers, NEW ok \in BOOLEAN,
               \/ \E a \in Addresses, s \in Secrets, switch \in Switch :
                     CreateProvider(p, a, s, switch, ok)
               \/ \E switch \in Switch : SetProviderEnabled(p, switch, ok)
               \/ DeleteProvider(p, ok)
        PROVE  RegistryInv'
    BY <1>2, CreateKeepsInv, SwitchKeepsInv, DeleteKeepsInv
  <1>3. ASSUME NEW e \in Editors, NEW p \in Providers, NEW a \in Addresses \cup {"kept"},
               NEW s \in Secrets \cup {"kept"}, NEW switch \in Switch \cup {"kept"},
               CheckUpdate(e, p, a, s, switch)
        PROVE  RegistryInv'
    BY <1>3, CheckKeepsInv
  <1>4. ASSUME NEW e \in Editors, MergeUpdate(e) \/ \E ok \in BOOLEAN : CommitUpdate(e, ok)
        PROVE  RegistryInv'
    BY <1>4, MergeKeepsInv, CommitKeepsInv
  <1>5. ASSUME NEW environment \in SUBSET Providers, ReopenRegistry(environment)
        PROVE  RegistryInv'
    BY <1>5, ReopenKeepsInv
  <1> QED
    BY <1>1, <1>2, <1>3, <1>4, <1>5 DEF RegistryNext

\* The invariant holds of the registry under any sequence of creations, edits,
\* switches, deletions, failed writes and restarts.
THEOREM RegistryInvariant == RegistrySpec => []RegistryInv
  <1> QED
    BY InitOK, StepOK, PTL DEF RegistrySpec

\* The registry keeps its shape: records and updates under way are well formed.
THEOREM RegistryTypes == RegistrySpec => []RegistryTypeOK
  <1>1. RegistryInv => RegistryTypeOK
    BY DEF RegistryInv
  <1> QED
    BY <1>1, RegistryInvariant, PTL

LEMMA EverywhereSound ==
    ASSUME RegistryInv, NEW p \in Providers, NEW r \in Everywhere(p)
    PROVE  Sound(r, checked)
  BY DEF Everywhere, RegistryInv, RecordsOK, AllSound

\* The key of a provider goes only to an address it was checked with, in memory
\* and in the file, except after an update that kept the key while another
\* request changed the record (Registry.Update merges before it locks).
THEOREM CheckedPairs == RegistrySpec => []CheckedTogether
  <1>1. RegistryInv => CheckedTogether
    BY EverywhereSound DEF CheckedTogether, Sound
  <1> QED
    BY <1>1, RegistryInvariant, PTL

\* What an administrator switched off stays off through edits, failed writes and
\* restarts, until it is asked for or an update writes a switch it read before.
THEOREM SwitchedOff == RegistrySpec => []OffStaysOff
  <1>1. RegistryInv => OffStaysOff
    BY EverywhereSound DEF OffStaysOff, Sound
  <1> QED
    BY <1>1, RegistryInvariant, PTL

\* The record of a provider the environment names is what it was after any step:
\* only Reopen writes it, and finds in the file what was in memory.
LEMMA EnvironmentStep ==
    ASSUME RegistryInv, [RegistryNext]_registryVars, NEW p \in env \cap env'
    PROVE  records'[p] = records[p]
  <1> USE DEF RegistryInv, RegistryTypeOK
  <1>1. CASE UNCHANGED registryVars
    BY <1>1 DEF registryVars
  <1>2. ASSUME NEW q \in Providers, NEW ok \in BOOLEAN,
               \/ \E a \in Addresses, s \in Secrets, switch \in Switch :
                     CreateProvider(q, a, s, switch, ok)
               \/ \E switch \in Switch : SetProviderEnabled(q, switch, ok)
               \/ DeleteProvider(q, ok)
        PROVE  records'[p] = records[p]
    <2>1. p # q
      BY <1>2 DEF CreateProvider, SetProviderEnabled, DeleteProvider
    <2> QED
      BY <1>2, <2>1 DEF CreateProvider, SetProviderEnabled, DeleteProvider
  <1>3. ASSUME NEW e \in Editors, NEW q \in Providers, NEW a \in Addresses \cup {"kept"},
               NEW s \in Secrets \cup {"kept"}, NEW switch \in Switch \cup {"kept"},
               CheckUpdate(e, q, a, s, switch)
        PROVE  records'[p] = records[p]
    BY <1>3 DEF CheckUpdate
  <1>4. ASSUME NEW e \in Editors, MergeUpdate(e)
        PROVE  records'[p] = records[p]
    BY <1>4 DEF MergeUpdate
  <1>5. ASSUME NEW e \in Editors, NEW ok \in BOOLEAN, CommitUpdate(e, ok)
        PROVE  records'[p] = records[p]
    <2>1. edits[e].pc = "merged" /\ edits[e].id # p
      BY <1>5 DEF CommitUpdate, EnvironmentOK
    <2> QED
      BY <1>5, <2>1 DEF CommitUpdate
  <1>6. ASSUME NEW environment \in SUBSET Providers, ReopenRegistry(environment)
        PROVE  records'[p] = records[p]
    BY <1>6 DEF ReopenRegistry, EnvironmentOK
  <1> QED
    BY <1>1, <1>2, <1>3, <1>4, <1>5, <1>6 DEF RegistryNext

\* Nothing changes how a provider of the environment is called while the
\* environment names it: no edit that began earlier, no failed write, no restart.
THEOREM EnvironmentStands == RegistrySpec => EnvironmentIsReadOnly
  <1>1. RegistryInv /\ [RegistryNext]_registryVars =>
           [\A p \in env \cap env' : Called(p)' = Called(p)]_registryVars
    <2> SUFFICES ASSUME RegistryInv, [RegistryNext]_registryVars, NEW p \in env \cap env'
                 PROVE  Called(p)' = Called(p)
      OBVIOUS
    <2>1. records'[p] = records[p]
      BY EnvironmentStep
    <2> QED
      BY <2>1 DEF Called, Dynamic
  <1> QED
    BY <1>1, RegistryInvariant, PTL DEF RegistrySpec, EnvironmentIsReadOnly

=============================================================================
