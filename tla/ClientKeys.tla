----------------------------- MODULE ClientKeys -----------------------------
(***************************************************************************)
(* The client API keys (internal/clientkey) and their administration       *)
(* (internal/api/client_keys.go).  Every operation of clientkey.Store is   *)
(* one critical section; each ends with persistLocked, which replaces the  *)
(* file by an image of the whole store or fails and leaves the file as it  *)
(* was.  What the operation does to the memory when the write fails        *)
(* differs from operation to operation.                                    *)
(*                                                                         *)
(* Names, prefixes, hashes and timestamps are left out: a key is its       *)
(* identity, and a client can show it once its secret has been answered.   *)
(* All expiry dates are one date.  LastUsedAt only decides whether an      *)
(* authentication writes the file; that choice is left open.               *)
(***************************************************************************)
EXTENDS FiniteSets

CONSTANTS
    Keys,         \* the keys that can ever be issued
    Scopes,       \* models:read and chat:write
    ScopeChoices, \* bound: the scopes an administrator asks for
    Expiring      \* bound: whether keys are issued with an expiry date

ASSUME KeysAssumption ==
    /\ "chat:write" \in Scopes
    /\ ScopeChoices \subseteq SUBSET Scopes /\ Expiring \subseteq BOOLEAN

VARIABLES
    keys,   \* Store.keys
    mode,   \* Store.mode; the empty mode of a new store reads as optional
    file,   \* client-keys-xing-shu.json; a missing file reads as an empty one
    late,   \* the expiry date has passed
    handed  \* keys whose secret has been answered to the administrator

store == <<keys, mode, file>>
keyVars == <<keys, mode, file, late, handed>>

Status == {"none", "active", "disabled", "revoked"}
Mode == {"optional", "required"}
Key == [status : Status, scopes : SUBSET Scopes, expires : BOOLEAN]
NoKey == [status |-> "none", scopes |-> {}, expires |-> FALSE]

KeysTypeOK ==
    /\ keys \in [Keys -> Key] /\ mode \in Mode
    /\ file \in [keys : [Keys -> Key], mode : Mode]
    /\ late \in BOOLEAN
    /\ handed \subseteq Keys

KeysInit ==
    /\ keys = [k \in Keys |-> NoKey] /\ mode = "optional"
    /\ file = [keys |-> keys, mode |-> mode]
    /\ late = FALSE
    /\ handed = {}

Issued(k) == keys[k].status # "none"

\* Enabled, not revoked and not expired.
Active(k) == keys[k].status = "active" /\ ~(keys[k].expires /\ late)

\* Mutant: the switch is left out of the image.
PersistKeysOnly(ok) == file' = IF ok THEN [keys |-> keys', mode |-> file.mode] ELSE file

\* persistLocked: the image that replaces the file, unless the write fails.
Persist(ok) == file' = IF ok THEN [keys |-> keys', mode |-> mode'] ELSE file

------------------------------------------------------------------------------
\* Mutant: the secret is answered although the write failed.
CreateHands(k, scopes, expires, ok) ==
    /\ ~Issued(k)
    /\ scopes # {}
    /\ keys' = [keys EXCEPT ![k] = [status |-> "active", scopes |-> scopes, expires |-> expires]]
    /\ mode' = mode
    /\ Persist(ok)
    /\ handed' = handed \cup {k}
    /\ late' = late

\* A failed write leaves the new key in the memory and its secret unanswered.
Create(k, scopes, expires, ok) ==
    /\ ~Issued(k)
    /\ scopes # {}
    /\ keys' = [keys EXCEPT ![k] = [status |-> "active", scopes |-> scopes, expires |-> expires]]
    /\ mode' = mode
    /\ Persist(ok)
    /\ handed' = IF ok THEN handed \cup {k} ELSE handed
    /\ late' = late

Revoke(k, ok) ==
    /\ Issued(k)
    /\ keys' = [keys EXCEPT ![k].status = "revoked"]
    /\ mode' = mode
    /\ Persist(ok)
    /\ UNCHANGED <<late, handed>>

\* Mutant: a revoked key can be enabled.
SetEnabledRevives(k, enabled, ok) ==
    /\ Issued(k)
    /\ keys' = [keys EXCEPT ![k].status = IF enabled THEN "active" ELSE "disabled"]
    /\ mode' = mode
    /\ Persist(ok)
    /\ UNCHANGED <<late, handed>>

\* A revoked key is refused when it is to be enabled and stays revoked
\* when it is to be disabled.
SetEnabled(k, enabled, ok) ==
    /\ Issued(k)
    /\ ~(enabled /\ keys[k].status = "revoked")
    /\ keys' = [keys EXCEPT ![k].status = IF @ = "revoked" THEN @
                                          ELSE IF enabled THEN "active" ELSE "disabled"]
    /\ mode' = mode
    /\ Persist(ok)
    /\ UNCHANGED <<late, handed>>

\* The only operation that puts the memory back when the write fails.
Rotate(k, n, ok) ==
    /\ Issued(k) /\ ~Issued(n)
    /\ keys' = IF ok THEN [keys EXCEPT ![k].status = "revoked",
                                       ![n] = [keys[k] EXCEPT !.status = "active"]]
                     ELSE keys
    /\ mode' = mode
    /\ Persist(ok)
    /\ handed' = IF ok THEN handed \cup {n} ELSE handed
    /\ late' = late

\* Mutant: keys become compulsory without any.
SetModeUnasked(m, ok) ==
    /\ mode' = m /\ keys' = keys
    /\ Persist(ok)
    /\ UNCHANGED <<late, handed>>

SetMode(m, ok) ==
    /\ m = "required" => \E k \in Keys : Active(k)
    /\ mode' = m /\ keys' = keys
    /\ Persist(ok)
    /\ UNCHANGED <<late, handed>>

------------------------------------------------------------------------------
\* Authenticate lets the bearer of k in.  It writes the file at most once a
\* minute for each key, with whatever else the memory holds by then, and does
\* not ask whether the write succeeded.
Authenticate(k, scope, writes) ==
    /\ k \in handed
    /\ Active(k) /\ scope \in keys[k].scopes
    /\ UNCHANGED <<keys, mode, late, handed>>
    /\ Persist(writes)

\* The middleware serves a request without a header while keys are optional.
Anonymous == mode = "optional"

\* Time reaches the expiry date.
Expire == ~late /\ late' = TRUE /\ UNCHANGED <<store, handed>>

\* The process ends between two critical sections and Open reads the file.
Reopen ==
    /\ keys' = file.keys /\ mode' = file.mode
    /\ UNCHANGED <<file, late, handed>>

AdministerKeys ==
    \/ \E k \in Keys, scopes \in ScopeChoices, expires \in Expiring, ok \in BOOLEAN :
           Create(k, scopes, expires, ok)
    \/ \E k \in Keys, ok \in BOOLEAN : Revoke(k, ok)
    \/ \E k \in Keys, enabled, ok \in BOOLEAN : SetEnabled(k, enabled, ok)
    \/ \E k, n \in Keys, ok \in BOOLEAN : Rotate(k, n, ok)
    \/ \E m \in Mode, ok \in BOOLEAN : SetMode(m, ok)

KeysNext ==
    \/ AdministerKeys
    \/ \E k \in Keys, scope \in Scopes, writes \in BOOLEAN : Authenticate(k, scope, writes)
    \/ Expire
    \/ Reopen

KeysSpec == KeysInit /\ [][KeysNext]_keyVars

------------------------------------------------------------------------------
\* A key is in doubt while the memory and the file differ about it.
Ledger == INSTANCE KeyLedger WITH
    status <- [k \in Keys |-> keys[k].status],
    required <- mode = "required",
    doubt <- {k \in Keys : keys[k] # file.keys[k]},
    unsure <- mode # file.mode

\* The store keeps the promises of KeyLedger: a key whose withdrawal was
\* answered without an error (Revoke, SetEnabled, Rotate) never comes back,
\* whatever fails later and however often the process restarts; a rotation
\* happens in one piece; only changes answered with an error can be undone.
KeepsLedger == Ledger!Spec

\* A key in doubt is one whose life went on, in memory, after what the file
\* says, so that a restart takes a prefix of its history back and nothing
\* else (persistLocked writes the whole store or nothing).
FileIsAPast ==
    \A k \in Keys : Ledger!Reaches(keys[k].status, file.keys[k].status)

\* The requirement to show a key is never written to the file, nor in force,
\* while the store (the file) has no key at all: SetMode counts the keys in
\* the memory, and the write that makes the requirement durable carries them.
RequiredNeedsKeys ==
    /\ mode = "required" => \E k \in Keys : Issued(k)
    /\ file.mode = "required" => \E k \in Keys : file.keys[k].status # "none"

\* Every key whose secret was answered is in the file, even after other writes
\* have failed and the process has restarted, and a key that was never
\* answered authenticates nobody.
HandedIsDurable == \A k \in handed : Issued(k) /\ file.keys[k].status # "none"

=============================================================================
