------------------------------ MODULE MCAccess ------------------------------
(***************************************************************************)
(* The two stores of keys, side by side.  An instance is about one of      *)
(* four things, so that their state graphs are added and not multiplied:   *)
(*   keys      the keys clients show: two of them with an expiry date,     *)
(*             with failing writes and restarts;                           *)
(*   gateway   the gateway behind one key, which may be compulsory: one    *)
(*             conversation, one routed model, one request at a time;      *)
(*   providers one provider through its whole life, with failing writes,   *)
(*             restarts and one update at a time;                          *)
(*   updates   two updates at a time of one registered provider, of which  *)
(*             each changes one thing; the switch may be set meanwhile.    *)
(* No key, editor, address or secret differs from another.                 *)
(***************************************************************************)
EXTENDS Gateway, Registry, TLC

VARIABLE about

mcVars == <<vars, registryVars, about>>

Symmetry ==
    Permutations(Keys) \cup Permutations(Editors) \cup
    Permutations(Addresses) \cup Permutations(Secrets)

Registered ==
    /\ \E a \in Addresses, s \in Secrets :
          /\ records = [p \in Providers |-> [address |-> a, secret |-> s, switch |-> "on",
                                             asked |-> "on", crossed |-> {}]]
          /\ checked = {<<a, s>>}
    /\ stored = records /\ env = {}
    /\ edits = [e \in Editors |-> NoEdit]

MCInit ==
    /\ Init
    /\ \/ about = "providers" /\ RegistryInit
       \/ about \in {"keys", "gateway", "updates"} /\ Registered

\* The gateway only asks whether a key is good.
OneKey ==
    /\ Cardinality({k \in Keys : keys[k] # NoKey}) <= 1 /\ late = FALSE
    /\ \A k \in Keys : keys[k].status \in {"none", "active"}
    /\ file = [keys |-> keys, mode |-> mode]

\* Updates that change the address, the key or the switch, and no two of them.
OneChange ==
    {edit \in Edit : \/ edit.secret = "kept" /\ edit.switch = "kept"
                     \/ /\ edit.address = records[edit.id].address
                        /\ "kept" \in {edit.secret, edit.switch}}

Focus ==
    \/ about = "providers" /\ Cardinality({e \in Editors : edits'[e] # NoEdit}) <= 1
    \/ /\ about = "updates" /\ stored' = records' /\ env' = {}
       /\ \A p \in Providers : records'[p] # NoRecord
       /\ \A e \in Editors : edits[e] = NoEdit => edits'[e] \in OneChange \cup {NoEdit}

MCNext ==
    \/ about = "keys" /\ Next /\ gatewayVars' = gatewayVars /\ UNCHANGED <<registryVars, about>>
    \/ about = "gateway" /\ Next /\ OneKey' /\ UNCHANGED <<registryVars, about>>
    \/ RegistryNext /\ Focus /\ UNCHANGED <<vars, about>>

MCSpec == MCInit /\ [][MCNext]_mcVars

=============================================================================
