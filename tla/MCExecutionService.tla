------------------------- MODULE MCExecutionService -------------------------
(***************************************************************************)
(* Bounds for TLC: two models of one provider and one of another, and      *)
(* candidate lists with a repeated model, with both models of a provider   *)
(* and with models of both providers.                                      *)
(***************************************************************************)
EXTENDS ExecutionService

CONSTANTS m1, m2, m3, pA, pB

ThreeModels == {m1, m2, m3}
TwoProviders == {pA, pB}
ProviderOfModel == [m \in ThreeModels |-> IF m = m3 THEN pB ELSE pA]
\* A call that takes too long, and one that the provider refuses although the
\* name of the exception speaks of an unavailable service.
SomeFailures == {CutOff, Raised({"service", "unavailable"}, 403)}
SomeCandidateLists == {<<m1, m3, m1, m2>>, <<m3, m3>>}

=============================================================================
