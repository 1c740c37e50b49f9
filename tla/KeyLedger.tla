----------------------------- MODULE KeyLedger -----------------------------
(***************************************************************************)
(* What the store of client keys promises to an administrator, away from   *)
(* the file, the lock and the clock: the life of a key, the switch that    *)
(* makes keys compulsory, and which of the two a restart may take back.    *)
(* ClientKeys implements it.                                               *)
(*                                                                         *)
(* A request answered without an error settles everything, what earlier    *)
(* failed requests had changed included; one answered with an error may    *)
(* have changed what it was about, and that change is in doubt until a     *)
(* later request settles it or a restart takes it back.                    *)
(***************************************************************************)
CONSTANT Keys

VARIABLES
    status,   \* the life of each key
    required, \* a client must show a key
    doubt,    \* keys whose status a restart may take back
    unsure    \* so may the switch

Status == {"none", "active", "disabled", "revoked"}

\* "none" comes before everything and "revoked" after everything.
Follows(new, old) ==
    \/ old = "none" /\ new = "active"
    \/ old = "active" /\ new \in {"disabled", "revoked"}
    \/ old = "disabled" /\ new \in {"active", "revoked"}

Reaches(new, old) ==
    \/ new = old
    \/ old = "none"
    \/ old # "revoked" /\ new # "none"

Init ==
    /\ status \in [Keys -> Status]
    /\ required \in BOOLEAN
    /\ doubt = {} /\ unsure = FALSE

Untouched(K, new) == \A k \in Keys \ K : new[k] = status[k]

\* A key moves on, or is replaced by a new one in one piece.
Moved(new) ==
    \/ \E k \in Keys : Follows(new[k], status[k]) /\ Untouched({k}, new)
    \/ \E k, n \in Keys :
          /\ status[k] # "none" /\ new[k] = "revoked"
          /\ status[n] = "none" /\ new[n] = "active"
          /\ Untouched({k, n}, new)

Accepted ==
    /\ doubt' = {} /\ unsure' = FALSE
    /\ required' = required
    /\ status' = status \/ Moved(status')

Failed(k) ==
    /\ UNCHANGED <<required, unsure>>
    /\ doubt' \in {doubt \cup {k}, doubt \ {k}}
    /\ Follows(status'[k], status[k]) /\ Untouched({k}, status')

\* Keys become compulsory only while one of them is active.
Switched ==
    /\ required' = ~required
    /\ required' => \E k \in Keys : status[k] = "active"
    /\ status' = status
    /\ \/ doubt' = {} /\ unsure' = FALSE
       \/ doubt' = doubt /\ unsure' = ~unsure

\* What is not in doubt is not forgotten.
Restarted ==
    /\ \A k \in Keys : IF k \in doubt THEN Reaches(status[k], status'[k])
                                      ELSE status'[k] = status[k]
    /\ required' = IF unsure THEN ~required ELSE required
    /\ doubt' = {} /\ unsure' = FALSE

Next ==
    /\ status' \in [Keys -> Status]
    /\ Accepted \/ Switched \/ Restarted \/ \E k \in Keys : Failed(k)

Spec == Init /\ [][Next]_<<status, required, doubt, unsure>>

=============================================================================
