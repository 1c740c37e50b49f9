----------------------------- MODULE MCCatalog -----------------------------
(***************************************************************************)
(* Catalogues small enough for TLC: a provider p that needs approval, with *)
(* one or two models.  DropFloor is 2, or 1 with a single model, instead   *)
(* of 10, so that these catalogues already are ones that the drop          *)
(* protection watches.  Auto-approved models are in MCIntegration.         *)
(***************************************************************************)
EXTENDS Catalog, TLC

CONSTANTS p, p1, p2

MCProviderOf == p1 :> p @@ p2 :> p

MCLiveProviderOf == p1 :> p

\* Two requests at a time are about a catalogue that has at most one model, and
\* fall between two probes.
Focus ==
    \/ Cardinality(gov) + Cardinality(adm) + Cardinality(reg) < MaxRequests
    \/ ~Present(p2) /\ probing = {} /\ \A job \in syncs : p2 \notin job.raw

=============================================================================
