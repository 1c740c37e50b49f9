------------------------------ MODULE Verdicts ------------------------------
(***************************************************************************)
(* What the evaluation of models may expect of the store of reviews: tasks *)
(* are recorded, judged and pruned, and what a restart finds was saved     *)
(* before.  A task may be judged anew, for an answer may name it twice.    *)
(* Reviews implements it.                                                  *)
(***************************************************************************)
EXTENDS Evaluation

VARIABLES
    source, \* the tasks that are kept, and the knowledge their verdict supports
    saved   \* the same, in the file

Source == [kept : BOOLEAN, item : Items \cup {"none"}]
NoSource == [kept |-> FALSE, item |-> "none"]

VerdictsInit == source = [t \in Tasks |-> NoSource] /\ saved = source

\* A change is saved at once, later with another change, or never.
Save == saved' \in {saved, source'}

Record(t) ==
    /\ source[t] = NoSource
    /\ source' = [source EXCEPT ![t] = [kept |-> TRUE, item |-> "none"]]
    /\ Save

Judge(t, k) ==
    /\ source[t].kept
    /\ source' = [source EXCEPT ![t] = [kept |-> TRUE, item |-> k]]
    /\ Save

Prune(S) ==
    /\ source' = [t \in Tasks |-> IF t \in S THEN NoSource ELSE source[t]]
    /\ Save

Reload == source' = saved /\ saved' = saved

VerdictsStep ==
    \/ \E t \in Tasks : Record(t)
    \/ \E t \in Tasks, k \in Items \cup {"none"} : Judge(t, k)
    \/ \E S \in SUBSET Tasks : Prune(S)

VerdictsSpec == VerdictsInit /\ [][VerdictsStep \/ Reload]_<<source, saved>>

=============================================================================
