--------------------------- MODULE MCIntegration ---------------------------
(***************************************************************************)
(* FreeLLMAPI with three models, enough for its catalogue to shrink too    *)
(* fast; the process can be started with two configurations, or with none. *)
(* An instance is about one of three things:                               *)
(*   requests  requests of administrators, one at a time, and restarts;    *)
(*   rules     rules for a model of an integration they have authorised    *)
(*             and switched on, and a restart;                             *)
(*   handlers  such an integration with two requests at a time.            *)
(***************************************************************************)
EXTENDS Integration, TLC

CONSTANTS f, f1, f2, f3

MCProviderOf == f1 :> f @@ f2 :> f @@ f3 :> f

VARIABLE about

\* The configurations differ in nothing but their names.
First == CHOOSE c \in Configurations : TRUE

Handler == CHOOSE h \in Handlers : TRUE
Served == {h \in Handlers : jobs[h] # Idle}

MCInit ==
    \/ about = "requests" /\ IntegrationInit /\ config = First
    \/ /\ about \in {"handlers", "rules"} /\ Init
       /\ config = First /\ consent = config
       /\ free = [NewInstance(config) EXCEPT !.authorized = TRUE, !.route = TRUE]
       /\ report = FALSE /\ cutoff = FALSE
       /\ jobs = [j \in Jobs |-> IF j = Background THEN Starting ELSE Idle]

\* Among the requests two models are listed together, and never without the
\* third; the process that is started last has the first configuration again.
\* Two handlers leave the consent alone and find no local database, and one of
\* them does no more than ask the instance.
Focus ==
    \/ /\ about = "requests" /\ UNCHANGED <<gov, probing>>
       /\ cat'[f2] = cat'[f3] /\ (Present(f2)' => Present(f1)')
       /\ boots' = MaxBoots => config' = First
       /\ Served' \subseteq {Handler}
    \/ /\ about = "rules" /\ UNCHANGED <<config, probing>> /\ boots' < MaxBoots
       /\ Served' = {}
    \/ /\ about = "handlers" /\ UNCHANGED <<config, consent, gov, probing, boots>>
       /\ cat'[f2] = cat'[f3]
       /\ \A j \in Jobs : ~jobs'[j].got
       /\ \A h \in Served' \ (Served \cup {Handler}) : jobs'[h].todo[1] = "probe"

MCNext == IntegrationNext /\ Focus /\ about' = about

MCSpec == MCInit /\ [][MCNext]_<<allVars, about>> /\ IntegrationFairness

=============================================================================
