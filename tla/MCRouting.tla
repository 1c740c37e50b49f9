----------------------------- MODULE MCRouting -----------------------------
(***************************************************************************)
(* Routing on up to two providers: p1 with models m1 and m2, p2 with m3.   *)
(* Durations are a few ticks instead of minutes.                           *)
(***************************************************************************)
EXTENDS Routing, TLC

CONSTANTS p1, p2, m1, m2, m3

MCProviderOf == m1 :> p1 @@ m2 :> p1 @@ m3 :> p2

MCSingleProviderOf == m1 :> p1

\* Any model will do.
MCWants == {{m1, m2, m3}}

MCSingleWants == {{m1}}

\* m1 and m2 differ in nothing.
Symmetry == Permutations({m1, m2})

\* A request reaches two records; a third may be left from before.
FewFailing == Cardinality({s \in Scopes : health[s] # Clean}) <= 2

MCCooldown == [k \in FailureKind |-> 1]

=============================================================================
