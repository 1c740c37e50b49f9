--------------------------- MODULE GatewayProofs ---------------------------
(***************************************************************************)
(* Theorems about the client keys, for any set of keys and scopes, alone   *)
(* and behind the gateway: the store keeps the promises of KeyLedger.      *)
(***************************************************************************)
EXTENDS Gateway, TLAPS

status == [k \in Keys |-> keys[k].status]
doubt == {k \in Keys : keys[k] # file.keys[k]}

KeysInv == KeysTypeOK /\ FileIsAPast /\ RequiredNeedsKeys /\ HandedIsDurable

------------------------------------------------------------------------------
(* Types.                                                                  *)

\* Every image that is written has the type of a file.
LEMMA PersistType ==
    ASSUME file \in [keys : [Keys -> Key], mode : Mode],
           keys' \in [Keys -> Key], mode' \in Mode, NEW ok \in BOOLEAN, Persist(ok)
    PROVE  file' \in [keys : [Keys -> Key], mode : Mode]
BY DEF Persist

\* The operations of the store keep the types.
LEMMA KeysTypeStep ==
    ASSUME KeysTypeOK, [KeysNext]_keyVars
    PROVE  KeysTypeOK'
<1> USE DEF KeysTypeOK
<1>1. ASSUME NEW k \in Keys, NEW scopes \in ScopeChoices, NEW expires \in Expiring,
             NEW ok \in BOOLEAN, Create(k, scopes, expires, ok)
      PROVE  KeysTypeOK'
  <2>1. [status |-> "active", scopes |-> scopes, expires |-> expires] \in Key
    BY KeysAssumption DEF Key, Status
  <2>2. keys' \in [Keys -> Key] /\ mode' \in Mode
    BY <1>1, <2>1 DEF Create
  <2> QED BY <1>1, <2>2, PersistType DEF Create
<1>2. ASSUME NEW k \in Keys, NEW ok \in BOOLEAN, Revoke(k, ok)
      PROVE  KeysTypeOK'
  <2>1. [keys[k] EXCEPT !.status = "revoked"] \in Key
    BY DEF Key, Status
  <2>2. keys' = [keys EXCEPT ![k] = [keys[k] EXCEPT !.status = "revoked"]] /\ mode' = mode
    BY <1>2 DEF Revoke
  <2>3. keys' \in [Keys -> Key] /\ mode' \in Mode
    BY <2>1, <2>2
  <2> QED BY <1>2, <2>3, PersistType DEF Revoke
<1>3. ASSUME NEW k \in Keys, NEW enabled \in BOOLEAN, NEW ok \in BOOLEAN, SetEnabled(k, enabled, ok)
      PROVE  KeysTypeOK'
  <2> DEFINE s == IF keys[k].status = "revoked" THEN "revoked"
                  ELSE IF enabled THEN "active" ELSE "disabled"
  <2>1. [keys[k] EXCEPT !.status = s] \in Key
    BY DEF Key, Status
  <2>2. keys' = [keys EXCEPT ![k] = [keys[k] EXCEPT !.status = s]] /\ mode' = mode
    BY <1>3 DEF SetEnabled
  <2>3. keys' \in [Keys -> Key] /\ mode' \in Mode
    BY <2>1, <2>2
  <2> QED BY <1>3, <2>3, PersistType DEF SetEnabled
<1>4. ASSUME NEW k \in Keys, NEW n \in Keys, NEW ok \in BOOLEAN, Rotate(k, n, ok)
      PROVE  KeysTypeOK'
  <2>1. /\ [keys[k] EXCEPT !.status = "revoked"] \in Key
        /\ [keys[k] EXCEPT !.status = "active"] \in Key
    BY DEF Key, Status
  <2>2. /\ mode' = mode
        /\ \/ keys' = keys
           \/ keys' = [keys EXCEPT ![k] = [keys[k] EXCEPT !.status = "revoked"],
                                   ![n] = [keys[k] EXCEPT !.status = "active"]]
    BY <1>4 DEF Rotate
  <2>3. keys' \in [Keys -> Key] /\ mode' \in Mode
    BY <2>1, <2>2
  <2> QED BY <1>4, <2>3, PersistType DEF Rotate
<1>5. ASSUME NEW m \in Mode, NEW ok \in BOOLEAN, SetMode(m, ok)
      PROVE  KeysTypeOK'
  <2>1. keys' \in [Keys -> Key] /\ mode' \in Mode
    BY <1>5 DEF SetMode
  <2> QED BY <1>5, <2>1, PersistType DEF SetMode
<1>6. ASSUME NEW k \in Keys, NEW scope \in Scopes, NEW writes \in BOOLEAN, Authenticate(k, scope, writes)
      PROVE  KeysTypeOK'
  <2>1. keys' \in [Keys -> Key] /\ mode' \in Mode
    BY <1>6 DEF Authenticate
  <2> QED BY <1>6, <2>1, PersistType DEF Authenticate
<1>7. CASE Expire
  BY <1>7 DEF Expire, store
<1>8. CASE Reopen
  BY <1>8 DEF Reopen
<1>9. CASE UNCHANGED keyVars
  BY <1>9 DEF keyVars, store
<1> QED BY <1>1, <1>2, <1>3, <1>4, <1>5, <1>6, <1>7, <1>8, <1>9 DEF KeysNext, AdministerKeys

------------------------------------------------------------------------------
(* The file is a past of the memory.                                       *)

\* What a step does to the invariant when the keys it changes move along the
\* order of KeyLedger, and it then writes the file or fails to.
LEMMA MovesKeepInv ==
    ASSUME KeysInv, KeysTypeOK', NEW ok \in BOOLEAN,
           \A k \in Keys : \/ keys'[k].status = keys[k].status
                          \/ Ledger!Follows(keys'[k].status, keys[k].status),
           mode' = "required" => mode = "required" \/ \E j \in Keys : Issued(j),
           Persist(ok),
           \A k \in handed' : k \in handed \/ (ok /\ keys'[k].status # "none")
    PROVE  KeysInv'
<1>1. \A j \in Keys : Issued(j) => Issued(j)'
  BY DEF Issued, Ledger!Follows
<1>2. FileIsAPast'
  <2> SUFFICES ASSUME NEW j \in Keys PROVE Ledger!Reaches(keys[j].status, file.keys[j].status)'
    BY DEF FileIsAPast
  <2>1. CASE ok
    BY <2>1 DEF Persist, Ledger!Reaches
  <2>2. CASE ~ok
    <3>1. Ledger!Reaches(keys[j].status, file.keys[j].status) /\ file' = file
      BY <2>2 DEF Persist, KeysInv, FileIsAPast
    <3> QED BY <3>1 DEF Ledger!Reaches, Ledger!Follows
  <2> QED BY <2>1, <2>2
<1>3. mode' = "required" => \E j \in Keys : Issued(j)'
  BY <1>1 DEF KeysInv, RequiredNeedsKeys
<1>4. RequiredNeedsKeys'
  BY <1>3 DEF RequiredNeedsKeys, Persist, Issued, KeysInv
<1>5. HandedIsDurable'
  <2> SUFFICES ASSUME NEW j \in handed'
               PROVE  Issued(j)' /\ file'.keys[j].status # "none"
    BY DEF HandedIsDurable
  <2>1. j \in Keys
    BY DEF KeysTypeOK
  <2>2. Issued(j)'
    BY <1>1, <2>1 DEF KeysInv, HandedIsDurable, Issued
  <2>3. CASE ok
    BY <2>2, <2>3 DEF Persist, Issued
  <2>4. CASE ~ok
    BY <2>2, <2>4 DEF Persist, KeysInv, HandedIsDurable
  <2> QED BY <2>2, <2>3, <2>4
<1> QED BY <1>2, <1>4, <1>5 DEF KeysInv
\* Every operation of the store, the passing of time and a restart keep the
\* invariant.
LEMMA KeysInvStep ==
    ASSUME KeysInv, [KeysNext]_keyVars
    PROVE  KeysInv'
<1>0. KeysTypeOK /\ KeysTypeOK'
  BY KeysTypeStep DEF KeysInv
<1>1. ASSUME NEW k \in Keys, NEW scopes \in ScopeChoices, NEW expires \in Expiring,
             NEW ok \in BOOLEAN, Create(k, scopes, expires, ok)
      PROVE  KeysInv'
  <2>1. /\ keys[k].status = "none" /\ keys'[k].status = "active"
        /\ \A j \in Keys \ {k} : keys'[j] = keys[j]
    BY <1>0, <1>1 DEF Create, Issued, KeysTypeOK
  <2>2. \A j \in Keys : keys'[j].status = keys[j].status \/ Ledger!Follows(keys'[j].status, keys[j].status)
    BY <2>1 DEF Ledger!Follows
  <2>3. mode' = mode /\ Persist(ok) /\ \A j \in handed' : j \in handed \/ (ok /\ keys'[j].status # "none")
    BY <1>1, <2>1 DEF Create, Persist
  <2> QED BY <1>0, <2>2, <2>3, MovesKeepInv
<1>2. ASSUME NEW k \in Keys, NEW ok \in BOOLEAN, Revoke(k, ok)
      PROVE  KeysInv'
  <2>1. /\ keys[k].status \in Status \ {"none"} /\ keys'[k].status = "revoked"
        /\ \A j \in Keys \ {k} : keys'[j] = keys[j]
    BY <1>0, <1>2 DEF Revoke, Issued, KeysTypeOK, Key
  <2>2. \A j \in Keys : keys'[j].status = keys[j].status \/ Ledger!Follows(keys'[j].status, keys[j].status)
    BY <2>1 DEF Ledger!Follows, Status
  <2>3. mode' = mode /\ Persist(ok) /\ handed' = handed
    BY <1>2 DEF Revoke, Persist
  <2> QED BY <1>0, <2>2, <2>3, MovesKeepInv
<1>3. ASSUME NEW k \in Keys, NEW enabled \in BOOLEAN, NEW ok \in BOOLEAN, SetEnabled(k, enabled, ok)
      PROVE  KeysInv'
  <2>1. /\ keys[k].status \in Status \ {"none"}
        /\ keys'[k].status = IF keys[k].status = "revoked" THEN "revoked"
                             ELSE IF enabled THEN "active" ELSE "disabled"
        /\ \A j \in Keys \ {k} : keys'[j] = keys[j]
    BY <1>0, <1>3 DEF SetEnabled, Issued, KeysTypeOK, Key
  <2>2. \A j \in Keys : keys'[j].status = keys[j].status \/ Ledger!Follows(keys'[j].status, keys[j].status)
    BY <2>1 DEF Ledger!Follows, Status
  <2>3. mode' = mode /\ Persist(ok) /\ handed' = handed
    BY <1>3 DEF SetEnabled, Persist
  <2> QED BY <1>0, <2>2, <2>3, MovesKeepInv
<1>4. ASSUME NEW k \in Keys, NEW n \in Keys, NEW ok \in BOOLEAN, Rotate(k, n, ok)
      PROVE  KeysInv'
  <2>1. CASE ok
    <3>1. /\ keys[k].status \in Status \ {"none"} /\ keys'[k].status = "revoked"
          /\ keys[n].status = "none" /\ keys'[n].status = "active" /\ k # n
          /\ \A j \in Keys \ {k, n} : keys'[j] = keys[j]
      BY <1>0, <1>4, <2>1 DEF Rotate, Issued, KeysTypeOK, Key
    <3>2. \A j \in Keys : keys'[j].status = keys[j].status \/ Ledger!Follows(keys'[j].status, keys[j].status)
      BY <3>1 DEF Ledger!Follows, Status
    <3>3. mode' = mode /\ Persist(ok) /\ \A j \in handed' : j \in handed \/ (ok /\ keys'[j].status # "none")
      BY <1>4, <2>1, <3>1 DEF Rotate, Persist
    <3> QED BY <1>0, <3>2, <3>3, MovesKeepInv
  <2>2. CASE ~ok
    BY <1>0, <1>4, <2>2, MovesKeepInv DEF Rotate
  <2> QED BY <2>1, <2>2
<1>5. ASSUME NEW m \in Mode, NEW ok \in BOOLEAN, SetMode(m, ok)
      PROVE  KeysInv'
  <2>1. mode' = "required" => \E j \in Keys : Issued(j)
    BY <1>5 DEF SetMode, Active, Issued
  <2>2. keys' = keys /\ Persist(ok) /\ handed' = handed
    BY <1>5 DEF SetMode, Persist
  <2> QED BY <1>0, <2>1, <2>2, MovesKeepInv
<1>6. ASSUME NEW k \in Keys, NEW scope \in Scopes, NEW writes \in BOOLEAN, Authenticate(k, scope, writes)
      PROVE  KeysInv'
  <2>1. keys' = keys /\ mode' = mode /\ Persist(writes) /\ handed' = handed
    BY <1>6 DEF Authenticate, Persist
  <2> QED BY <1>0, <2>1, MovesKeepInv
<1>7. CASE Expire \/ UNCHANGED keyVars
  BY <1>0, <1>7 DEF Expire, keyVars, store, KeysInv, FileIsAPast, RequiredNeedsKeys,
                    HandedIsDurable, Issued, Ledger!Reaches
<1>8. CASE Reopen
  BY <1>0, <1>8 DEF Reopen, KeysInv, FileIsAPast, RequiredNeedsKeys, HandedIsDurable,
                    Issued, Ledger!Reaches
<1> QED BY <1>1, <1>2, <1>3, <1>4, <1>5, <1>6, <1>7, <1>8 DEF KeysNext, AdministerKeys

LEMMA KeysInvInit == KeysInit => KeysInv
<1> SUFFICES ASSUME KeysInit PROVE KeysInv
  OBVIOUS
<1>1. keys \in [Keys -> Key] /\ \A k \in Keys : keys[k] = NoKey
  BY DEF KeysInit, NoKey, Key, Status
<1>2. mode = "optional" /\ file.keys = keys /\ file.mode = mode /\ handed = {}
  BY DEF KeysInit
<1>3. KeysTypeOK
  BY <1>1 DEF KeysInit, KeysTypeOK, Mode
<1> QED BY <1>1, <1>2, <1>3 DEF KeysInv, FileIsAPast, RequiredNeedsKeys, HandedIsDurable, Ledger!Reaches

------------------------------------------------------------------------------
(* Steps of the store are steps of the ledger.                             *)

ledger == <<status, mode = "required", doubt, mode # file.mode>>

\* A write that succeeds after one move is an accepted request.
LEMMA AcceptedStep ==
    ASSUME KeysTypeOK', Persist(TRUE), mode' = mode, status' = status \/ Ledger!Moved(status')
    PROVE  Ledger!Next
<1>1. doubt' = {} /\ mode' = file'.mode
  BY DEF Persist, doubt
<1>2. status' \in [Keys -> Ledger!Status]
  BY DEF status, KeysTypeOK, Key, Status, Ledger!Status
<1> QED BY <1>1, <1>2 DEF Ledger!Next, Ledger!Accepted, Ledger!Moved, Ledger!Untouched, status, doubt

\* A write that fails after the move of one key is a failed request.
LEMMA FailedStep ==
    ASSUME KeysTypeOK', Persist(FALSE), mode' = mode, NEW k \in Keys,
           \A j \in Keys \ {k} : keys'[j] = keys[j],
           Ledger!Follows(keys'[k].status, keys[k].status)
    PROVE  Ledger!Next
<1>1. file' = file
  BY DEF Persist
<1>2. doubt' \in {doubt \cup {k}, doubt \ {k}}
  BY <1>1 DEF doubt
<1>3. status' \in [Keys -> Ledger!Status]
  BY DEF status, KeysTypeOK, Key, Status, Ledger!Status
<1>4. Ledger!Untouched({k}, status')
  BY DEF Ledger!Untouched, status
<1>5. Ledger!Failed(k)
  BY <1>1, <1>2, <1>4 DEF Ledger!Failed, Ledger!Untouched, status, doubt
<1> QED BY <1>3, <1>5 DEF Ledger!Next, status

\* A step that changes no key and leaves the switch alone settles what is in
\* doubt, or changes nothing.
LEMMA SameKeysStep ==
    ASSUME KeysTypeOK', keys' = keys, mode' = mode, NEW ok \in BOOLEAN, Persist(ok)
    PROVE  [Ledger!Next]_ledger
<1>1. CASE ok
  BY <1>1, AcceptedStep DEF status, Persist
<1>2. CASE ~ok
  BY <1>2 DEF Persist, ledger, status, doubt
<1> QED BY <1>1, <1>2

\* A step that moves one key is a request that was accepted or that failed.
LEMMA OneKeyStep ==
    ASSUME KeysTypeOK, KeysTypeOK', NEW ok \in BOOLEAN, Persist(ok), mode' = mode, NEW k \in Keys,
           \A j \in Keys \ {k} : keys'[j] = keys[j],
           Ledger!Follows(keys'[k].status, keys[k].status)
    PROVE  Ledger!Next
<1>1. CASE ok
  <2>1. Ledger!Moved(status')
    BY DEF Ledger!Moved, Ledger!Untouched, status
  <2> QED BY <1>1, <2>1, AcceptedStep DEF Persist
<1>2. CASE ~ok
  BY <1>2, FailedStep DEF Persist
<1> QED BY <1>1, <1>2

\* Every step of the store is one of the ledger, or is not seen there.
LEMMA LedgerStep ==
    ASSUME KeysInv, [KeysNext]_keyVars
    PROVE  [Ledger!Next]_ledger
<1>0. KeysTypeOK /\ KeysTypeOK'
  BY KeysTypeStep DEF KeysInv
<1>1. ASSUME NEW k \in Keys, NEW scopes \in ScopeChoices, NEW expires \in Expiring,
             NEW ok \in BOOLEAN, Create(k, scopes, expires, ok)
      PROVE  Ledger!Next
  <2>1. /\ keys[k].status = "none" /\ keys'[k].status = "active"
        /\ \A j \in Keys \ {k} : keys'[j] = keys[j]
        /\ mode' = mode
    BY <1>0, <1>1 DEF Create, Issued, KeysTypeOK
  <2> QED BY <1>0, <1>1, <2>1, OneKeyStep DEF Create, Ledger!Follows
<1>2. ASSUME NEW k \in Keys, NEW ok \in BOOLEAN, Revoke(k, ok)
      PROVE  [Ledger!Next]_ledger
  <2>1. /\ keys[k].status \in Status \ {"none"} /\ keys'[k].status = "revoked"
        /\ \A j \in Keys \ {k} : keys'[j] = keys[j]
        /\ mode' = mode
    BY <1>0, <1>2 DEF Revoke, Issued, KeysTypeOK, Key
  <2>2. CASE keys[k].status = "revoked"
    <3>1. keys' = keys
      BY <1>0, <1>2, <2>2 DEF Revoke, KeysTypeOK, Key
    <3> QED BY <1>0, <1>2, <2>1, <3>1, SameKeysStep DEF Revoke
  <2>3. CASE keys[k].status # "revoked"
    BY <1>0, <1>2, <2>1, <2>3, OneKeyStep DEF Revoke, Ledger!Follows, Status
  <2> QED BY <2>2, <2>3
<1>3. ASSUME NEW k \in Keys, NEW enabled \in BOOLEAN, NEW ok \in BOOLEAN, SetEnabled(k, enabled, ok)
      PROVE  [Ledger!Next]_ledger
  <2>1. /\ keys[k].status \in Status \ {"none"}
        /\ keys'[k].status \in {keys[k].status} \cup
               (IF keys[k].status = "revoked" THEN {} ELSE {"active", "disabled"})
        /\ keys'[k] = [keys[k] EXCEPT !.status = keys'[k].status]
        /\ \A j \in Keys \ {k} : keys'[j] = keys[j]
        /\ mode' = mode
    BY <1>0, <1>3 DEF SetEnabled, Issued, KeysTypeOK, Key
  <2>2. CASE keys'[k].status = keys[k].status
    <3>1. keys'[k] = keys[k]
      BY <1>0, <2>1, <2>2 DEF KeysTypeOK, Key
    <3>2. keys' = keys
      BY <1>0, <2>1, <3>1 DEF KeysTypeOK
    <3> QED BY <1>0, <1>3, <2>1, <3>2, SameKeysStep DEF SetEnabled
  <2>3. CASE keys'[k].status # keys[k].status
    BY <1>0, <1>3, <2>1, <2>3, OneKeyStep DEF SetEnabled, Ledger!Follows, Status
  <2> QED BY <2>2, <2>3
<1>4. ASSUME NEW k \in Keys, NEW n \in Keys, NEW ok \in BOOLEAN, Rotate(k, n, ok)
      PROVE  [Ledger!Next]_ledger
  <2>1. CASE ok
    <3>1. /\ keys[k].status # "none" /\ keys'[k].status = "revoked"
          /\ keys[n].status = "none" /\ keys'[n].status = "active" /\ k # n
          /\ \A j \in Keys \ {k, n} : keys'[j] = keys[j]
          /\ mode' = mode
      BY <1>0, <1>4, <2>1 DEF Rotate, Issued, KeysTypeOK, Key
    <3>2. Ledger!Moved(status')
      BY <3>1 DEF Ledger!Moved, Ledger!Untouched, status
    <3> QED BY <1>0, <1>4, <2>1, <3>1, <3>2, AcceptedStep DEF Rotate
  <2>2. CASE ~ok
    BY <1>0, <1>4, <2>2, SameKeysStep DEF Rotate
  <2> QED BY <2>1, <2>2
<1>5. ASSUME NEW m \in Mode, NEW ok \in BOOLEAN, SetMode(m, ok)
      PROVE  [Ledger!Next]_ledger
  <2>1. keys' = keys /\ (mode' = "required" => \E k \in Keys : keys[k].status = "active")
    BY <1>5 DEF SetMode, Active
  <2>2. CASE mode' = mode
    BY <1>0, <1>5, <2>1, <2>2, SameKeysStep DEF SetMode
  <2>3. CASE mode' # mode
    <3>0. status' \in [Keys -> Ledger!Status]
      BY <1>0 DEF status, KeysTypeOK, Key, Status, Ledger!Status
    <3>1. /\ status' = status
          /\ (mode' = "required") = ~(mode = "required")
          /\ mode' = "required" => \E k \in Keys : status[k] = "active"
      BY <1>0, <2>1, <2>3 DEF status, KeysTypeOK, Mode
    <3>2. CASE ok
      <4>1. doubt' = {} /\ (mode' # file'.mode) = FALSE
        BY <1>5, <3>2 DEF SetMode, Persist, doubt
      <4> QED BY <3>0, <3>1, <4>1 DEF Ledger!Next, Ledger!Switched, status, doubt
    <3>3. CASE ~ok
      <4>1. doubt' = doubt /\ file' = file
        BY <1>5, <2>1, <3>3 DEF SetMode, Persist, doubt
      <4>2. (mode' # file'.mode) = ~(mode # file.mode)
        BY <1>0, <2>3, <4>1 DEF KeysTypeOK, Mode
      <4> QED BY <3>0, <3>1, <4>1, <4>2 DEF Ledger!Next, Ledger!Switched, status, doubt
    <3> QED BY <3>2, <3>3
  <2> QED BY <2>2, <2>3
<1>6. ASSUME NEW k \in Keys, NEW scope \in Scopes, NEW writes \in BOOLEAN, Authenticate(k, scope, writes)
      PROVE  [Ledger!Next]_ledger
  BY <1>0, <1>6, SameKeysStep DEF Authenticate
<1>7. CASE Expire \/ UNCHANGED keyVars
  BY <1>7 DEF Expire, keyVars, store, ledger, status, doubt
<1>8. CASE Reopen
  <2>1. keys' = file.keys /\ mode' = file.mode /\ file' = file
    BY <1>8 DEF Reopen
  <2>2. doubt' = {} /\ (mode' # file'.mode) = FALSE
    BY <2>1 DEF doubt
  <2>3. status' \in [Keys -> Ledger!Status]
    BY <1>0 DEF status, KeysTypeOK, Key, Status, Ledger!Status
  <2>4. \A k \in Keys : IF k \in doubt THEN Ledger!Reaches(status[k], status'[k])
                                       ELSE status'[k] = status[k]
    BY <2>1 DEF status, doubt, KeysInv, FileIsAPast
  <2>5. (mode' = "required") = IF mode # file.mode THEN ~(mode = "required") ELSE mode = "required"
    BY <1>0, <2>1 DEF KeysTypeOK, Mode
  <2>6. Ledger!Restarted
    BY <2>2, <2>4, <2>5 DEF Ledger!Restarted, status, doubt
  <2> QED BY <2>3, <2>6 DEF Ledger!Next, status
<1> QED BY <1>1, <1>2, <1>3, <1>4, <1>5, <1>6, <1>7, <1>8 DEF KeysNext, AdministerKeys
\* What the gateway does is, for the store, one of its operations or nothing.
LEMMA GatewayUsesKeys ==
    ASSUME [Next]_vars
    PROVE  [KeysNext]_keyVars
<1>1. ASSUME NEW r \in Requests, Serve(r) PROVE [KeysNext]_keyVars
  <2>1. CASE Enter(r)
    <3>1. CASE UNCHANGED keyVars
      BY <3>1
    <3>2. CASE \E k \in Keys, writes \in BOOLEAN : Authenticate(k, "chat:write", writes)
      BY <3>2, KeysAssumption DEF KeysNext
    <3> QED BY <2>1, <3>1, <3>2 DEF Enter
  <2>2. CASE Rank(r) \/ Attempt(r) \/ AttemptFails(r) \/ NoRoute(r)
    BY <2>2 DEF Rank, Attempt, AttemptFails, NoRoute
  <2>3. CASE Answered(r) \/ KeepPins(r) \/ Forward(r) \/ KeepCache(r)
    BY <2>3 DEF Answered, KeepPins, Forward, KeepCache
  <2> QED BY <1>1, <2>1, <2>2, <2>3 DEF Serve
<1>2. CASE \E m \in Models : Approve(m)
  BY <1>2 DEF Approve
<1>3. CASE Tick
  BY <1>3 DEF Tick
<1>4. CASE Restart
  BY <1>4 DEF Restart, KeysNext
<1>5. CASE (AdministerKeys \/ Expire) /\ UNCHANGED gatewayVars
  BY <1>5 DEF KeysNext
<1>6. CASE \E k \in Keys, scope \in Scopes, writes \in BOOLEAN :
              Authenticate(k, scope, writes) /\ UNCHANGED gatewayVars
  BY <1>6 DEF KeysNext
<1>7. CASE UNCHANGED vars
  BY <1>7 DEF vars
<1> QED BY <1>1, <1>2, <1>3, <1>4, <1>5, <1>6, <1>7 DEF Next

\* The invariant of the store, in the gateway.
LEMMA KeysInvariant == Spec => []KeysInv
<1>1. Init => KeysInv
  BY KeysInvInit DEF Init
<1>2. KeysInv /\ [Next]_vars => KeysInv'
  BY GatewayUsesKeys, KeysInvStep
<1> QED BY <1>1, <1>2, PTL DEF Spec

\* Whatever fails to be written, the file holds a past of every key.
THEOREM FileHoldsAPast == Spec => []FileIsAPast
BY KeysInvariant, PTL DEF KeysInv

\* Keys are required, in memory and in the file, only by a store that has one.
THEOREM RequirementHasKeys == Spec => []RequiredNeedsKeys
BY KeysInvariant, PTL DEF KeysInv

\* A secret that was answered is that of a key in the file.
THEOREM AnsweredSecretsLast == Spec => []HandedIsDurable
BY KeysInvariant, PTL DEF KeysInv

\* The store of client keys, served through the gateway, implements KeyLedger.
THEOREM GatewayKeepsLedger == Spec => KeepsLedger
<1>1. Init => Ledger!Init
  <2> SUFFICES ASSUME Init PROVE Ledger!Init
    OBVIOUS
  <2>1. keys \in [Keys -> Key] /\ mode = "optional" /\ file.keys = keys /\ file.mode = mode
    BY KeysInvInit DEF Init, KeysInv, KeysTypeOK, KeysInit
  <2>2. status \in [Keys -> Ledger!Status] /\ doubt = {}
    BY <2>1 DEF status, doubt, Key, Status, Ledger!Status
  <2> QED BY <2>1, <2>2 DEF Ledger!Init, status, doubt
<1>2. KeysInv /\ [Next]_vars => [Ledger!Next]_ledger
  BY GatewayUsesKeys, LedgerStep
<1>3. [Ledger!Next]_ledger => [Ledger!Next]_<<status, mode = "required", doubt, mode # file.mode>>
  BY DEF ledger
<1> QED BY <1>1, <1>2, <1>3, KeysInvariant, PTL DEF Spec, KeepsLedger, Ledger!Spec, ledger, status, doubt
\* A key whose withdrawal has been written to the file.
Withdrawn(k) == keys[k].status = "revoked" /\ file.keys[k].status = "revoked"

\* What an image of the store says of a key is what the memory says of it.
LEMMA WithdrawnStep ==
    ASSUME KeysTypeOK, NEW k \in Keys, Withdrawn(k), [KeysNext]_keyVars
    PROVE  Withdrawn(k)'
<1> USE DEF KeysTypeOK, Withdrawn
<1>1. ASSUME NEW ok \in BOOLEAN, Persist(ok), keys'[k].status = "revoked"
      PROVE  Withdrawn(k)'
  BY <1>1 DEF Persist
<1>2. ASSUME NEW j \in Keys, NEW scopes \in ScopeChoices, NEW expires \in Expiring,
             NEW ok \in BOOLEAN, Create(j, scopes, expires, ok)
      PROVE  Withdrawn(k)'
  <2>1. j # k
    BY <1>2 DEF Create, Issued
  <2>2. keys'[k].status = "revoked" /\ Persist(ok)
    BY <1>2, <2>1 DEF Create
  <2> QED BY <1>1, <2>2
<1>3. ASSUME NEW j \in Keys, NEW ok \in BOOLEAN, Revoke(j, ok)
      PROVE  Withdrawn(k)'
  <2>1. keys'[k].status = "revoked" /\ Persist(ok)
    BY <1>3 DEF Revoke, Key
  <2> QED BY <1>1, <2>1
<1>4. ASSUME NEW j \in Keys, NEW enabled \in BOOLEAN, NEW ok \in BOOLEAN, SetEnabled(j, enabled, ok)
      PROVE  Withdrawn(k)'
  <2>1. keys'[k].status = "revoked" /\ Persist(ok)
    BY <1>4 DEF SetEnabled, Key
  <2> QED BY <1>1, <2>1
<1>5. ASSUME NEW j \in Keys, NEW n \in Keys, NEW ok \in BOOLEAN, Rotate(j, n, ok)
      PROVE  Withdrawn(k)'
  <2>1. n # k
    BY <1>5 DEF Rotate, Issued
  <2>2. keys'[k].status = "revoked" /\ Persist(ok)
    BY <1>5, <2>1 DEF Rotate, Key
  <2> QED BY <1>1, <2>2
<1>6. ASSUME NEW m \in Mode, NEW ok \in BOOLEAN, SetMode(m, ok)
      PROVE  Withdrawn(k)'
  BY <1>1, <1>6 DEF SetMode
<1>7. ASSUME NEW j \in Keys, NEW scope \in Scopes, NEW writes \in BOOLEAN, Authenticate(j, scope, writes)
      PROVE  Withdrawn(k)'
  BY <1>1, <1>7 DEF Authenticate
<1>8. CASE Expire \/ Reopen \/ UNCHANGED keyVars
  BY <1>8 DEF Expire, Reopen, keyVars, store
<1> QED BY <1>2, <1>3, <1>4, <1>5, <1>6, <1>7, <1>8 DEF KeysNext, AdministerKeys

\* A key whose withdrawal has reached the file is withdrawn for good and lets
\* nobody in, whatever is written or fails to be written later and however
\* often the process restarts (Revoke, Rotate, SetEnabled, Authenticate).
THEOREM WithdrawnForGood ==
    Spec => [][\A k \in Keys : Withdrawn(k) =>
                  /\ Withdrawn(k)'
                  /\ ~\E scope \in Scopes, writes \in BOOLEAN : Authenticate(k, scope, writes)]_vars
<1>1. KeysInv /\ [Next]_vars =>
        [\A k \in Keys : Withdrawn(k) =>
            /\ Withdrawn(k)'
            /\ ~\E scope \in Scopes, writes \in BOOLEAN : Authenticate(k, scope, writes)]_vars
  <2> SUFFICES ASSUME KeysInv, [Next]_vars, NEW k \in Keys, Withdrawn(k)
               PROVE  /\ Withdrawn(k)'
                      /\ ~\E scope \in Scopes, writes \in BOOLEAN : Authenticate(k, scope, writes)
    OBVIOUS
  <2>1. Withdrawn(k)'
    BY GatewayUsesKeys, WithdrawnStep DEF KeysInv
  <2>2. ~Active(k)
    BY DEF Withdrawn, Active
  <2> QED BY <2>1, <2>2 DEF Authenticate
<1> QED BY <1>1, KeysInvariant, PTL DEF Spec

------------------------------------------------------------------------------
(* What is remembered of a model that has lost its approval.               *)

Flying == {"waiting", "answered", "kept", "cached"}

\* A model in use, or about to be tried, lost its approval, if it did, while
\* its request was served, and a request sees at most one tick.
Recent(q, absence) ==
    LET allowance == IF q.aged THEN 1 ELSE 0 IN
    /\ q.pc \in Flying => q.model \in Models /\ absence[q.model] <= allowance
    /\ \A m \in q.ranked : absence[m] <= allowance

InFlight == \A r \in Requests : req[r] # Idle => Recent(req[r], gone)

\* What a request asks for is known, and a request whose answer may be cached
\* asks for something the cache has a place for.
Asked(q) == q.ask \in Asks \cup Models /\ (q.cacheable => q.ask \in Bodies)
Asking == \A r \in Requests : req[r] # Idle => Asked(req[r])

ApprovedIsNotGone == approved \subseteq Models /\ \A m \in approved : gone[m] = 0

GatewayInv == TypeOK /\ InFlight /\ Asking /\ ApprovedIsNotGone /\ StaleIsBounded

\* Remembering a model that is in flight keeps a memory within its bounds.
LEMMA Remembered ==
    ASSUME NEW S, NEW ttl \in Nat \ {0}, NEW f \in [S -> Memory(ttl)], NEW g \in [S -> Memory(ttl)],
           NEW m \in Models, gone \in [Models -> 0..Horizon], gone[m] <= 1,
           \A y \in S : g[y] = f[y] \/ g[y] = Nothing \/ g[y] = [model |-> m, left |-> ttl],
           Bounded(f, ttl)
    PROVE  Bounded(g, ttl)
<1> SUFFICES ASSUME NEW y \in S, g[y] # Nothing
             PROVE  gone[g[y].model] + g[y].left <= ttl + 1
  BY DEF Bounded
<1>1. CASE g[y] = f[y]
  BY <1>1 DEF Bounded
<1>2. CASE g[y] = [model |-> m, left |-> ttl]
  <2>1. g[y].model = m /\ g[y].left = ttl
    BY <1>2
  <2>2. gone[m] \in Int /\ Horizon \in Int
    BY GatewayAssumption DEF Horizon
  <2> QED BY <2>1, <2>2
<1> QED BY <1>1, <1>2

\* An entry that outlives a tick has one tick less.
LEMMA OlderEntry ==
    ASSUME NEW ttl \in Nat \ {0}, NEW e \in Memory(ttl), e # Nothing, e.left # 1,
           NEW d, d = [e EXCEPT !.left = e.left - 1]
    PROVE  /\ d \in Memory(ttl) /\ d.model = e.model /\ d.left = e.left - 1
           /\ e.model \in Models /\ e.left \in Nat
<1>1. e \in [model : Models, left : 1..ttl]
  BY DEF Memory
<1>2. e.model \in Models /\ e.left \in 1..ttl /\ e.left - 1 \in 1..ttl
  BY <1>1
<1>3. d.model = e.model /\ d.left = e.left - 1 /\ d \in [model : Models, left : 1..ttl]
  BY <1>1, <1>2
<1> QED BY <1>2, <1>3 DEF Memory

SoonBounded(memory, ttl) ==
    \A x \in DOMAIN memory :
        memory[x] # Nothing => gone'[memory[x].model] + memory[x].left <= ttl + 1

\* A tick takes from the time left what it adds to the absence.
LEMMA OlderIsBounded ==
    ASSUME NEW S, NEW ttl \in Nat \ {0}, NEW f \in [S -> Memory(ttl)], Bounded(f, ttl),
           gone \in [Models -> 0..Horizon], gone' \in [Models -> 0..Horizon],
           \A m \in Models : gone'[m] <= gone[m] + 1
    PROVE  Older(f) \in [S -> Memory(ttl)] /\ SoonBounded(Older(f), ttl)
<1>0. Horizon \in Nat
  BY GatewayAssumption DEF Horizon
<1> DEFINE g == Older(f)
<1>1. \A y \in S : \/ g[y] = Nothing
                   \/ f[y] # Nothing /\ f[y].left # 1 /\ g[y] = [f[y] EXCEPT !.left = f[y].left - 1]
  BY DEF Older
<1>2. g = [y \in S |-> g[y]] /\ DOMAIN g = S
  BY DEF Older
<1>3. SoonBounded(g, ttl) <=> \A y \in S : g[y] # Nothing => gone'[g[y].model] + g[y].left <= ttl + 1
  BY <1>2 DEF SoonBounded
<1> SUFFICES g \in [S -> Memory(ttl)] /\ \A y \in S : g[y] # Nothing => gone'[g[y].model] + g[y].left <= ttl + 1
  BY <1>3
<1> HIDE DEF g
<1>4. ASSUME NEW y \in S
      PROVE  g[y] \in Memory(ttl) /\ (g[y] # Nothing => gone'[g[y].model] + g[y].left <= ttl + 1)
  <2> DEFINE e == f[y]
             d == g[y]
  <2>0. e \in Memory(ttl)
    BY <1>4
  <2>1. d = Nothing \/ (e # Nothing /\ e.left # 1 /\ d = [e EXCEPT !.left = e.left - 1])
    BY <1>1, <1>4
  <2>2. e # Nothing => gone[e.model] + e.left <= ttl + 1
    BY <1>4 DEF Bounded
  <2> HIDE DEF e, d
  <2>3. CASE d = Nothing
    BY <2>3 DEF Memory, d
  <2>4. CASE d # Nothing
    <3>1. /\ d \in Memory(ttl) /\ d.model = e.model /\ d.left = e.left - 1
          /\ e.model \in Models /\ e.left \in Nat
      BY <2>0, <2>1, <2>4, OlderEntry
    <3> DEFINE m == e.model
               n == e.left
    <3>2. gone[m] \in Nat /\ gone'[m] \in Nat /\ gone'[m] <= gone[m] + 1
      BY <1>0, <3>1
    <3>3. gone[m] + n <= ttl + 1
      BY <2>1, <2>2, <2>4
    <3> HIDE DEF m, n
    <3>4. gone'[m] + (n - 1) <= ttl + 1
      BY <3>1, <3>2, <3>3 DEF n
    <3> QED BY <3>1, <3>4 DEF m, n, d
  <2> QED BY <2>3, <2>4
<1>5. g \in [S -> Memory(ttl)]
  BY <1>2, <1>4
<1> QED BY <1>4, <1>5
\* The fields of a request that is being served.
LEMMA ServedFields ==
    ASSUME NEW q \in Served \cup {Idle}, q.pc # "idle"
    PROVE  /\ q \in Served /\ q # Idle
           /\ q.ask \in Ask /\ q.session \in Sessions \cup {"none"} /\ q.cacheable \in BOOLEAN
           /\ q.ranked \in SUBSET Models /\ q.model \in Models \cup {"none"} /\ q.aged \in BOOLEAN
BY DEF Served, Idle

\* What the memories are and what a step that leaves them and the requests'
\* models alone does to them.
LEMMA MemoriesKept ==
    ASSUME GatewayInv, UNCHANGED <<approved, memories, gone>>
    PROVE  /\ approved' \subseteq Models /\ gone' \in [Models -> 0..Horizon]
           /\ pins' \in [Sessions -> Memory(SessionTTL)] /\ pinFile' \in [Sessions -> Memory(SessionTTL)]
           /\ cache' \in [Bodies -> Memory(CacheTTL)] /\ cacheFile' \in [Bodies -> Memory(CacheTTL)]
           /\ ApprovedIsNotGone' /\ StaleIsBounded'
BY DEF GatewayInv, TypeOK, memories, ApprovedIsNotGone, StaleIsBounded, Bounded

\* One request goes on, or ends.
LEMMA OneRequest ==
    ASSUME GatewayInv, NEW r \in Requests, NEW q, req' = [req EXCEPT ![r] = q], gone' = gone,
           q = Idle \/ (q \in Served /\ Asked(q) /\ Recent(q, gone))
    PROVE  req' \in [Requests -> Served \cup {Idle}] /\ InFlight' /\ Asking'
<1>1. req \in [Requests -> Served \cup {Idle}] /\ InFlight /\ Asking
  BY DEF GatewayInv, TypeOK
<1>2. q \in Served \cup {Idle} /\ req'[r] = q /\ \A s \in Requests \ {r} : req'[s] = req[s]
  BY <1>1
<1>3. req' \in [Requests -> Served \cup {Idle}]
  BY <1>1, <1>2
<1>4. InFlight'
  BY <1>1, <1>2 DEF InFlight
<1>5. Asking'
  BY <1>1, <1>2 DEF Asking
<1> QED BY <1>3, <1>4, <1>5

\* Serving requests keeps the invariant.
LEMMA ServeKeepsInv ==
    ASSUME GatewayInv, KeysTypeOK', NEW r \in Requests, Serve(r)
    PROVE  GatewayInv'
<1>0. /\ req[r] \in Served \cup {Idle} /\ req \in [Requests -> Served \cup {Idle}]
      /\ InFlight /\ Asking /\ ApprovedIsNotGone /\ StaleIsBounded
      /\ gone \in [Models -> 0..Horizon] /\ gone' = gone /\ approved' = approved /\ approved \subseteq Models
      /\ pins \in [Sessions -> Memory(SessionTTL)] /\ pinFile \in [Sessions -> Memory(SessionTTL)]
      /\ cache \in [Bodies -> Memory(CacheTTL)] /\ cacheFile \in [Bodies -> Memory(CacheTTL)]
      /\ SessionTTL \in Nat \ {0} /\ CacheTTL \in Nat \ {0}
  BY GatewayAssumption DEF GatewayInv, TypeOK, Serve, Enter, Rank, Attempt, AttemptFails, NoRoute, Answered,
                           KeepPins, Forward, KeepCache
<1>1. CASE Enter(r)
  <2>1. PICK asked \in Asks, s \in Sessions \cup {"none"}, plain \in BOOLEAN :
           \/ req' = req
           \/ req' = [req EXCEPT ![r] = [pc |-> "entered", ask |-> Pinned(asked, s), session |-> s,
                        cacheable |-> (plain /\ Pinned(asked, s) # "auto"), ranked |-> {},
                        model |-> "none", aged |-> FALSE]]
    BY <1>1 DEF Enter
  <2>2. Pinned(asked, s) \in Asks \cup Models
    BY <1>0 DEF Pinned, Memory
  <2>3. Asks \subseteq Ask
    BY GatewayAssumption DEF Ask
  <2>4. req' \in [Requests -> Served \cup {Idle}] /\ InFlight' /\ Asking'
    <3>1. CASE req' = req
      BY <1>0, <3>1 DEF InFlight, Asking
    <3>2. CASE req' # req
      <4> DEFINE q == [pc |-> "entered", ask |-> Pinned(asked, s), session |-> s,
                        cacheable |-> (plain /\ Pinned(asked, s) # "auto"), ranked |-> {},
                        model |-> "none", aged |-> FALSE]
      <4>1. q \in Served /\ Asked(q) /\ Recent(q, gone)
        BY <2>2, <2>3 DEF Served, Ask, Flying, Asked, Recent, Bodies
      <4>2. req' = [req EXCEPT ![r] = q]
        BY <2>1, <3>2
      <4> HIDE DEF q
      <4> QED BY <1>0, <4>1, <4>2, OneRequest
    <3> QED BY <3>1, <3>2
  <2> QED BY <1>1, <2>4, MemoriesKept DEF Enter, GatewayInv, TypeOK
<1>2. CASE Rank(r)
  <2>1. req[r].pc = "entered" /\ req[r] \in Served /\ Asked(req[r])
    BY <1>0, <1>2, ServedFields DEF Rank, Asking, Idle
  <2> DEFINE T == {m \in approved : req[r].ask \in Models => m = req[r].ask}
             q == [req[r] EXCEPT !.pc = "routing", !.ranked = T]
  <2>2. req' = [req EXCEPT ![r] = q]
    BY <1>0, <1>2 DEF Rank
  <2>3. T \in SUBSET Models /\ \A m \in T : gone[m] = 0
    BY <1>0 DEF ApprovedIsNotGone
  <2> HIDE DEF T
  <2>4. /\ q \in Served /\ q.ask = req[r].ask /\ q.cacheable = req[r].cacheable /\ q.pc = "routing"
        /\ q.ranked = T /\ q.aged \in BOOLEAN
    BY <2>1, <2>3 DEF Served
  <2> HIDE DEF q
  <2>5. Asked(q) /\ Recent(q, gone)
    BY <2>1, <2>3, <2>4 DEF Asked, Recent, Flying
  <2>6. req' \in [Requests -> Served \cup {Idle}] /\ InFlight' /\ Asking'
    BY <1>0, <2>2, <2>4, <2>5, OneRequest
  <2> QED BY <1>2, <2>6, MemoriesKept DEF Rank, GatewayInv, TypeOK
<1>3. CASE Attempt(r)
  <2>1. /\ req[r].pc = "routing" /\ req[r] \in Served /\ Asked(req[r]) /\ Recent(req[r], gone)
    BY <1>0, <1>3, ServedFields DEF Attempt, Asking, InFlight, Idle
  <2>2. PICK m \in req[r].ranked :
           req' = [req EXCEPT ![r].pc = "waiting", ![r].model = m, ![r].ranked = @ \ {m}]
    BY <1>3 DEF Attempt
  <2> DEFINE q == [req[r] EXCEPT !.pc = "waiting", !.model = m, !.ranked = req[r].ranked \ {m}]
  <2>3. req' = [req EXCEPT ![r] = q]
    BY <1>0, <2>2
  <2>4. m \in Models
    BY <2>1 DEF Served
  <2>5. /\ q \in Served /\ q.ask = req[r].ask /\ q.cacheable = req[r].cacheable /\ q.model = m
        /\ q.ranked \subseteq req[r].ranked /\ q.aged = req[r].aged
    BY <2>1, <2>4 DEF Served
  <2> HIDE DEF q
  <2>6. Asked(q) /\ Recent(q, gone)
    BY <2>1, <2>2, <2>4, <2>5 DEF Asked, Recent
  <2>7. req' \in [Requests -> Served \cup {Idle}] /\ InFlight' /\ Asking'
    BY <1>0, <2>3, <2>5, <2>6, OneRequest
  <2> QED BY <1>3, <2>7, MemoriesKept DEF Attempt, GatewayInv, TypeOK
<1>9. CASE AttemptFails(r)
  <2>1. /\ req[r].pc = "waiting" /\ req[r] \in Served /\ Asked(req[r]) /\ Recent(req[r], gone)
    BY <1>0, <1>9, ServedFields DEF AttemptFails, Asking, InFlight, Idle
  <2> DEFINE q == [req[r] EXCEPT !.pc = "routing", !.model = "none"]
  <2>2. req' = [req EXCEPT ![r] = q]
    BY <1>0, <1>9 DEF AttemptFails
  <2>3. /\ q \in Served /\ q.ask = req[r].ask /\ q.cacheable = req[r].cacheable /\ q.pc \notin Flying
        /\ q.ranked = req[r].ranked /\ q.aged = req[r].aged
    BY <2>1 DEF Served, Flying
  <2> HIDE DEF q
  <2>4. Asked(q) /\ Recent(q, gone)
    BY <2>1, <2>3 DEF Asked, Recent
  <2>5. req' \in [Requests -> Served \cup {Idle}] /\ InFlight' /\ Asking'
    BY <1>0, <2>2, <2>3, <2>4, OneRequest
  <2> QED BY <1>9, <2>5, MemoriesKept DEF AttemptFails, GatewayInv, TypeOK
<1>4. CASE NoRoute(r)
  <2>1. req' \in [Requests -> Served \cup {Idle}] /\ InFlight' /\ Asking'
    BY <1>0, <1>4, OneRequest DEF NoRoute, Reply
  <2> QED BY <1>4, <2>1, MemoriesKept DEF NoRoute, GatewayInv, TypeOK
<1>5. CASE Answered(r)
  <2>1. req[r].pc = "waiting"
    BY <1>5 DEF Answered
  <2>2. /\ req[r] \in Served /\ req[r].model \in Models /\ Asked(req[r]) /\ Recent(req[r], gone)
        /\ gone[req[r].model] <= IF req[r].aged THEN 1 ELSE 0
    BY <1>0, <2>1, ServedFields DEF InFlight, Recent, Flying, Asking, Idle
  <2>3. PICK pc \in {"kept", "answered"} : req' = [req EXCEPT ![r].pc = pc]
    BY <1>5 DEF Answered
  <2> DEFINE q == [req[r] EXCEPT !.pc = pc]
             s == req[r].session
             m == req[r].model
  <2>4. req' = [req EXCEPT ![r] = q]
    BY <1>0, <2>3
  <2>5. q \in Served /\ q.ask = req[r].ask /\ q.cacheable = req[r].cacheable /\ q.model = m
        /\ q.ranked = req[r].ranked /\ q.aged = req[r].aged
    BY <2>2 DEF Served
  <2>6. req' \in [Requests -> Served \cup {Idle}] /\ InFlight' /\ Asking'
    <3> HIDE DEF q
    <3> QED BY <1>0, <2>2, <2>4, <2>5, OneRequest DEF Asked, Recent
  <2>7. pins' \in [Sessions -> Memory(SessionTTL)] /\ Bounded(pins', SessionTTL)
    <3>1. gone[m] <= 1
      <4>1. gone[m] \in Int
        BY <1>0, <2>2
      <4> QED BY <2>2, <4>1
    <3>2. CASE s = "none"
      BY <1>0, <1>5, <3>2 DEF Answered, StaleIsBounded
    <3>3. CASE s # "none"
      <4>1. s \in Sessions
        BY <2>2, <3>3 DEF Served
      <4>2. [model |-> m, left |-> SessionTTL] \in Memory(SessionTTL)
        BY <1>0, <2>2 DEF Memory
      <4>3. pins' = [pins EXCEPT ![s] = [model |-> m, left |-> SessionTTL]]
        BY <1>5, <3>3 DEF Answered
      <4> DEFINE e == [model |-> m, left |-> SessionTTL]
      <4>4. pins' \in [Sessions -> Memory(SessionTTL)] /\ \A y \in Sessions : pins'[y] = pins[y] \/ pins'[y] = e
        <5> HIDE DEF e
        <5> QED BY <1>0, <4>1, <4>2, <4>3 DEF e
      <4> HIDE DEF m
      <4> QED BY <1>0, <2>2, <3>1, <4>1, <4>4, Remembered DEF StaleIsBounded, m
    <3> QED BY <3>2, <3>3
  <2> QED BY <1>0, <1>5, <2>6, <2>7 DEF Answered, GatewayInv, TypeOK, ApprovedIsNotGone, StaleIsBounded, Bounded
<1>6. CASE KeepPins(r)
  <2> DEFINE q == [req[r] EXCEPT !.pc = "kept"]
  <2>1. req' = [req EXCEPT ![r] = q] /\ req[r].pc = "answered"
    BY <1>0, <1>6 DEF KeepPins
  <2>2. /\ req[r] \in Served /\ req[r].model \in Models /\ Asked(req[r]) /\ Recent(req[r], gone)
        /\ gone[req[r].model] <= IF req[r].aged THEN 1 ELSE 0
    BY <1>0, <2>1, ServedFields DEF InFlight, Recent, Flying, Asking, Idle
  <2>3. q \in Served /\ q.ask = req[r].ask /\ q.cacheable = req[r].cacheable /\ q.model = req[r].model
        /\ q.ranked = req[r].ranked /\ q.aged = req[r].aged
    BY <2>2 DEF Served
  <2> HIDE DEF q
  <2>4. req' \in [Requests -> Served \cup {Idle}] /\ InFlight' /\ Asking'
    BY <1>0, <2>1, <2>2, <2>3, OneRequest DEF Asked, Recent
  <2> QED BY <1>0, <1>6, <2>4 DEF KeepPins, GatewayInv, TypeOK, ApprovedIsNotGone, StaleIsBounded, Bounded
<1>7. CASE Forward(r)
  <2>1. CASE Reply(r) /\ cache' = cache
    <3>1. req' \in [Requests -> Served \cup {Idle}] /\ InFlight' /\ Asking'
      BY <1>0, <2>1, OneRequest DEF Reply
    <3> QED BY <1>0, <1>7, <2>1, <3>1 DEF Forward, GatewayInv, TypeOK, ApprovedIsNotGone, StaleIsBounded, Bounded
  <2>2. CASE /\ CachePut(req[r].ask, req[r].model) /\ req[r].pc = "kept"
             /\ req' = [req EXCEPT ![r].pc = "cached"] /\ req[r].cacheable
    <3> DEFINE q == [req[r] EXCEPT !.pc = "cached"]
               m == req[r].model
               b == req[r].ask
    <3>1. req' = [req EXCEPT ![r] = q]
      BY <1>0, <2>2
    <3>2. /\ req[r] \in Served /\ m \in Models /\ Asked(req[r]) /\ Recent(req[r], gone)
          /\ gone[m] <= IF req[r].aged THEN 1 ELSE 0
      BY <1>0, <2>2, ServedFields DEF InFlight, Recent, Flying, Asking, Idle
    <3>3. q \in Served /\ q.ask = b /\ q.cacheable = req[r].cacheable /\ q.model = m
        /\ q.ranked = req[r].ranked /\ q.aged = req[r].aged
      BY <3>2 DEF Served
    <3>4. req' \in [Requests -> Served \cup {Idle}] /\ InFlight' /\ Asking'
      <4> HIDE DEF q
      <4> QED BY <1>0, <3>1, <3>2, <3>3, OneRequest DEF Asked, Recent
    <3>5. b \in Bodies
      BY <2>2, <3>2 DEF Asked
    <3> DEFINE e == [model |-> m, left |-> CacheTTL]
    <3>6. e \in Memory(CacheTTL)
      BY <1>0, <3>2 DEF Memory
    <3>7. gone[m] <= 1
      <4>1. gone[m] \in Int
        BY <1>0, <3>2
      <4> QED BY <3>2, <4>1
    <3> HIDE DEF q
    <3>8. PICK v \in Bodies : cache' = [cache EXCEPT ![v] = Nothing, ![b] = e]
      BY <2>2, <3>5 DEF CachePut
    <3>9. /\ cache' \in [Bodies -> Memory(CacheTTL)]
          /\ \A y \in Bodies : cache'[y] = cache[y] \/ cache'[y] = Nothing \/ cache'[y] = e
      <4> HIDE DEF b, e
      <4>1. Nothing \in Memory(CacheTTL)
        BY DEF Memory
      <4> QED BY <1>0, <3>5, <3>6, <3>8, <4>1
    <3>10. Bounded(cache', CacheTTL)
      <4>1. /\ Bounded(cache, CacheTTL) /\ cache \in [Bodies -> Memory(CacheTTL)]
            /\ CacheTTL \in Nat \ {0} /\ gone \in [Models -> 0..Horizon]
        BY <1>0 DEF StaleIsBounded
      <4>2. \A y \in Bodies : \/ cache'[y] = cache[y] \/ cache'[y] = Nothing
                               \/ cache'[y] = [model |-> m, left |-> CacheTTL]
        BY <3>9
      <4>3. m \in Models
        BY <3>2
      <4> HIDE DEF m, b, e
      <4>4. Bounded(cache', CacheTTL)
        BY <3>5, <3>7, <3>9, <4>1, <4>2, <4>3, Remembered
      <4> QED BY <4>4
    <3> QED BY <1>0, <1>7, <3>4, <3>9, <3>10 DEF Forward, GatewayInv, TypeOK, ApprovedIsNotGone, StaleIsBounded, Bounded
  <2> QED BY <1>7, <2>1, <2>2 DEF Forward
<1>8. CASE KeepCache(r)
  <2>1. req' \in [Requests -> Served \cup {Idle}] /\ InFlight' /\ Asking'
    BY <1>0, <1>8, OneRequest DEF KeepCache, Reply
  <2> QED BY <1>0, <1>8, <2>1 DEF KeepCache, GatewayInv, TypeOK, ApprovedIsNotGone, StaleIsBounded, Bounded
<1> QED BY <1>1, <1>2, <1>3, <1>4, <1>5, <1>6, <1>7, <1>8, <1>9 DEF Serve

\* A tick makes every request aged and takes one from what is left of every
\* memory; a model that is away is away for one more.
LEMMA TickKeepsInv ==
    ASSUME GatewayInv, KeysTypeOK', Tick
    PROVE  GatewayInv'
<1>0. /\ req \in [Requests -> Served \cup {Idle}]
      /\ InFlight /\ Asking /\ ApprovedIsNotGone /\ StaleIsBounded
      /\ gone \in [Models -> 0..Horizon] /\ approved' = approved /\ approved \subseteq Models
      /\ pins \in [Sessions -> Memory(SessionTTL)] /\ pinFile \in [Sessions -> Memory(SessionTTL)]
      /\ cache \in [Bodies -> Memory(CacheTTL)] /\ cacheFile \in [Bodies -> Memory(CacheTTL)]
      /\ SessionTTL \in Nat \ {0} /\ CacheTTL \in Nat \ {0} /\ Horizon \in Nat
  BY GatewayAssumption DEF GatewayInv, TypeOK, Tick, Horizon
<1>1. /\ gone' \in [Models -> 0..Horizon]
      /\ \A m \in Models : gone'[m] <= gone[m] + 1
      /\ \A m \in approved : gone'[m] = gone[m]
  <2>1. gone' = [m \in Models |-> IF m \in approved \/ gone[m] = Horizon THEN gone[m] ELSE gone[m] + 1]
    BY DEF Tick
  <2>2. ASSUME NEW m \in Models
        PROVE  /\ (IF m \in approved \/ gone[m] = Horizon THEN gone[m] ELSE gone[m] + 1) \in 0..Horizon
               /\ (IF m \in approved \/ gone[m] = Horizon THEN gone[m] ELSE gone[m] + 1) <= gone[m] + 1
    BY <1>0
  <2> QED BY <1>0, <2>1, <2>2
<1>2. ApprovedIsNotGone'
  BY <1>0, <1>1 DEF ApprovedIsNotGone
<1>3. /\ pins' \in [Sessions -> Memory(SessionTTL)] /\ SoonBounded(pins', SessionTTL)
      /\ pinFile' \in [Sessions -> Memory(SessionTTL)] /\ SoonBounded(pinFile', SessionTTL)
      /\ cache' \in [Bodies -> Memory(CacheTTL)] /\ SoonBounded(cache', CacheTTL)
      /\ cacheFile' \in [Bodies -> Memory(CacheTTL)] /\ SoonBounded(cacheFile', CacheTTL)
  <2>1. /\ pins' = Older(pins) /\ pinFile' = Older(pinFile)
        /\ cache' = Older(cache) /\ cacheFile' = Older(cacheFile)
    BY DEF Tick
  <2>2. /\ Older(pins) \in [Sessions -> Memory(SessionTTL)] /\ SoonBounded(Older(pins), SessionTTL)
        /\ Older(pinFile) \in [Sessions -> Memory(SessionTTL)] /\ SoonBounded(Older(pinFile), SessionTTL)
    BY <1>0, <1>1, OlderIsBounded DEF StaleIsBounded
  <2>3. /\ Older(cache) \in [Bodies -> Memory(CacheTTL)] /\ SoonBounded(Older(cache), CacheTTL)
        /\ Older(cacheFile) \in [Bodies -> Memory(CacheTTL)] /\ SoonBounded(Older(cacheFile), CacheTTL)
    BY <1>0, <1>1, OlderIsBounded DEF StaleIsBounded
  <2> QED BY <2>1, <2>2, <2>3
<1>4. ASSUME NEW r \in Requests
      PROVE  /\ req'[r] \in Served \cup {Idle}
             /\ req'[r] # Idle => Asked(req'[r]) /\ Recent(req'[r], gone')
  <2>1. CASE req[r] = Idle
    BY <2>1 DEF Tick
  <2>2. CASE req[r] # Idle
    <3> DEFINE q == [req[r] EXCEPT !.aged = TRUE]
    <3>1. req'[r] = q /\ ~req[r].aged
      BY <2>2 DEF Tick
    <3>2. req[r] \in Served /\ Asked(req[r]) /\ Recent(req[r], gone)
      BY <1>0, <2>2 DEF Asking, InFlight
    <3>3. /\ q \in Served /\ q.ask = req[r].ask /\ q.cacheable = req[r].cacheable /\ q.pc = req[r].pc
          /\ q.ranked = req[r].ranked /\ q.model = req[r].model /\ q.aged = TRUE
          /\ req[r].ranked \subseteq Models
      BY <3>2 DEF Served
    <3> HIDE DEF q
    <3>4. Asked(q)
      BY <3>2, <3>3 DEF Asked
    <3>5. \A m \in Models : gone[m] <= 0 => gone'[m] <= 1
      <4> SUFFICES ASSUME NEW m \in Models, gone[m] <= 0 PROVE gone'[m] <= 1
        OBVIOUS
      <4>1. gone[m] \in Nat /\ gone'[m] \in Nat /\ gone'[m] <= gone[m] + 1
        BY <1>0, <1>1
      <4> QED BY <4>1
    <3>6. Recent(q, gone')
      BY <3>1, <3>2, <3>3, <3>5 DEF Recent
    <3> QED BY <3>1, <3>3, <3>4, <3>6
  <2> QED BY <2>1, <2>2
<1>5. req' \in [Requests -> Served \cup {Idle}]
  BY <1>4 DEF Tick
<1>6. InFlight' /\ Asking'
  BY <1>4 DEF InFlight, Asking
<1>7. StaleIsBounded'
  BY <1>3 DEF StaleIsBounded, Bounded, SoonBounded
<1> QED BY <1>0, <1>1, <1>2, <1>3, <1>5, <1>6, <1>7 DEF GatewayInv, TypeOK

\* Losing an approval starts the count of an absence, and getting it ends it.
LEMMA ApproveKeepsInv ==
    ASSUME GatewayInv, KeysTypeOK', NEW m \in Models, Approve(m)
    PROVE  GatewayInv'
<1>0. /\ InFlight /\ Asking /\ ApprovedIsNotGone /\ StaleIsBounded /\ TypeOK
      /\ gone \in [Models -> 0..Horizon] /\ Horizon \in Nat
      /\ gone' = [gone EXCEPT ![m] = 0] /\ req' = req
      /\ approved' \in {approved \cup {m}, approved \ {m}}
      /\ pins' = pins /\ pinFile' = pinFile /\ cache' = cache /\ cacheFile' = cacheFile
  BY GatewayAssumption DEF GatewayInv, TypeOK, Approve, Horizon, memories
<1>1. gone' \in [Models -> 0..Horizon] /\ \A n \in Models : gone'[n] <= gone[n] /\ gone'[n] \in {0, gone[n]}
  BY <1>0
<1>2. ApprovedIsNotGone'
  BY <1>0 DEF ApprovedIsNotGone
<1>3. ASSUME NEW S, NEW ttl \in Nat \ {0}, NEW f \in [S -> Memory(ttl)], Bounded(f, ttl)
      PROVE  SoonBounded(f, ttl)
  <2> SUFFICES ASSUME NEW y \in S, f[y] # Nothing
               PROVE  gone'[f[y].model] + f[y].left <= ttl + 1
    BY DEF SoonBounded
  <2>1. f[y].model \in Models /\ f[y].left \in Nat /\ gone[f[y].model] + f[y].left <= ttl + 1
    BY <1>3 DEF Bounded, Memory
  <2> DEFINE k == f[y].model
             n == f[y].left
  <2>2. gone'[k] <= gone[k] /\ gone[k] \in Nat /\ gone'[k] \in Nat
    BY <1>0, <1>1, <2>1
  <2>3. gone[k] + n <= ttl + 1 /\ n \in Nat
    BY <2>1
  <2> HIDE DEF k, n
  <2>4. gone'[k] + n <= ttl + 1
    BY <2>2, <2>3
  <2> QED BY <2>4 DEF k, n
<1>4. StaleIsBounded'
  <2>1. SoonBounded(pins, SessionTTL) /\ SoonBounded(pinFile, SessionTTL)
    BY <1>0, <1>3, GatewayAssumption DEF TypeOK, StaleIsBounded
  <2>2. SoonBounded(cache, CacheTTL) /\ SoonBounded(cacheFile, CacheTTL)
    BY <1>0, <1>3, GatewayAssumption DEF TypeOK, StaleIsBounded
  <2> QED BY <1>0, <2>1, <2>2 DEF StaleIsBounded, Bounded, SoonBounded
<1>5. InFlight'
  <2> SUFFICES ASSUME NEW r \in Requests, req[r] # Idle
               PROVE  Recent(req[r], gone')
    BY <1>0 DEF InFlight
  <2>1. req[r].ranked \subseteq Models /\ Recent(req[r], gone)
    BY <1>0 DEF TypeOK, InFlight, Served
  <2>2. \A n \in Models, b \in {0, 1} : gone[n] <= b => gone'[n] <= b
    BY <1>0, <1>1
  <2> QED BY <2>1, <2>2 DEF Recent
<1>6. Asking'
  BY <1>0 DEF Asking
<1>7. TypeOK'
  BY <1>0, <1>1 DEF TypeOK
<1> QED BY <1>2, <1>4, <1>5, <1>6, <1>7 DEF GatewayInv

\* A restart loses the requests and goes back to the files.
LEMMA RestartKeepsInv ==
    ASSUME GatewayInv, KeysTypeOK', Restart
    PROVE  GatewayInv'
<1>1. /\ pins' = pinFile /\ cache' = cacheFile /\ UNCHANGED <<approved, pinFile, cacheFile, gone>>
      /\ req' = [r \in Requests |-> Idle]
  BY DEF Restart
<1>2. InFlight' /\ Asking' /\ req' \in [Requests -> Served \cup {Idle}]
  BY <1>1 DEF InFlight, Asking, Idle, Flying
<1>3. StaleIsBounded' /\ ApprovedIsNotGone'
  BY <1>1 DEF GatewayInv, StaleIsBounded, Bounded, ApprovedIsNotGone
<1> QED BY <1>1, <1>2, <1>3 DEF GatewayInv, TypeOK

\* The gateway's types, and what its memories hold of withdrawn models, with
\* the facts about requests under way that keep them.
THEOREM GatewayInvariant == Spec => []GatewayInv
<1>1. Init => GatewayInv
  <2> SUFFICES ASSUME Init PROVE GatewayInv
    OBVIOUS
  <2>1. KeysTypeOK
    BY KeysInvInit DEF Init, KeysInv
  <2>2. /\ pins \in [Sessions -> Memory(SessionTTL)] /\ pinFile = pins
        /\ cache \in [Bodies -> Memory(CacheTTL)] /\ cacheFile = cache
        /\ (\A s \in Sessions : pins[s] = Nothing) /\ (\A b \in Bodies : cache[b] = Nothing)
    BY DEF Init, Memory
  <2>3. gone \in [Models -> 0..Horizon] /\ approved = Models /\ \A m \in Models : gone[m] = 0
    BY GatewayAssumption DEF Init, Horizon
  <2>4. req \in [Requests -> Served \cup {Idle}] /\ InFlight /\ Asking
    BY DEF Init, InFlight, Asking, Idle, Flying
  <2>5. StaleIsBounded /\ ApprovedIsNotGone
    BY <2>2, <2>3 DEF StaleIsBounded, Bounded, ApprovedIsNotGone
  <2> QED BY <2>1, <2>2, <2>3, <2>4, <2>5 DEF GatewayInv, TypeOK
<1>2. GatewayInv /\ [Next]_vars => GatewayInv'
  <2> SUFFICES ASSUME GatewayInv, [Next]_vars PROVE GatewayInv'
    OBVIOUS
  <2>0. KeysTypeOK'
    BY KeysTypeStep, GatewayUsesKeys DEF GatewayInv, TypeOK
  <2>1. CASE UNCHANGED gatewayVars
    BY <2>0, <2>1 DEF gatewayVars, memories, GatewayInv, TypeOK, InFlight, Asking, ApprovedIsNotGone,
                      StaleIsBounded, Bounded
  <2>2. ASSUME NEW r \in Requests, Serve(r) PROVE GatewayInv'
    BY <2>0, <2>2, ServeKeepsInv
  <2>3. ASSUME NEW m \in Models, Approve(m) PROVE GatewayInv'
    BY <2>0, <2>3, ApproveKeepsInv
  <2>4. CASE Tick
    BY <2>0, <2>4, TickKeepsInv
  <2>5. CASE Restart
    BY <2>0, <2>5, RestartKeepsInv
  <2> QED BY <2>1, <2>2, <2>3, <2>4, <2>5 DEF Next, vars
<1> QED BY <1>1, <1>2, PTL DEF Spec

\* No pin and no cached answer outlives the approval of its model by more than
\* its time to live and the tick of a request under way.
THEOREM StaleMemoriesEnd == Spec => []StaleIsBounded
BY GatewayInvariant, PTL DEF GatewayInv

\* Every variable of the gateway keeps its type.
THEOREM GatewayTypes == Spec => []TypeOK
BY GatewayInvariant, PTL DEF GatewayInv
=============================================================================
