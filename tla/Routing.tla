------------------------------ MODULE Routing ------------------------------
(***************************************************************************)
(* get_budget_ratio() and route() as their callers see them.  The state is *)
(* the latest decision for one kind of task; what the budget oracle says   *)
(* of each provider changes freely between two calls.  The inputs are all  *)
(* task types and levels and both sides of every budget boundary, so a run *)
(* over them decides the properties of the tables outright.                *)
(***************************************************************************)
EXTENDS RoutingTable

CONSTANTS Pressures,    \* what the oracle may say: a percentage per provider
          Unreachable   \* no oracle, or no answer for some provider

\* The oracle is asked about the same providers every time, and what it says of
\* them are percentages.
ASSUME RoutingAssumption ==
  /\ Unreachable \notin Pressures
  /\ \A p, q \in Pressures : DOMAIN p = DOMAIN q
  /\ \A p \in Pressures : /\ IsFiniteSet(DOMAIN p) /\ DOMAIN p # {}
                          /\ Range(p) \subseteq Nat

VARIABLES asked,      \* type and level of the task, and what the oracle said
          decision    \* what route() returned

observed == <<asked, decision>>

\* get_budget_ratio: the hardest pressed provider counts; no oracle, no pressure.
BudgetRatio(pressure) ==
  IF pressure = Unreachable THEN 0 ELSE Max(Range(pressure))

Asks == [type : TaskTypes \cup {OtherType}, level : 0..5 \cup {OtherLevel},
         pressure : Pressures \cup {Unreachable}]

Decided(ask) ==
  Route([type |-> ask.type, level |-> ask.level, ratio |-> BudgetRatio(ask.pressure)])

FirstCall == \E ask \in Asks : asked = ask /\ decision = Decided(ask)

Call ==
  \E pressure \in Pressures \cup {Unreachable} :
    LET ask == [asked EXCEPT !.pressure = pressure]
    IN asked' = ask /\ decision' = Decided(ask)

RoutingSpec == FirstCall /\ [][Call]_observed

----------------------------------------------------------------------------
(* Properties *)

RoutingTypeOK ==
  /\ asked \in Asks
  /\ decision \in RoutingDecision
  /\ decision.level \in DOMAIN Chains[decision.type]

Offered == <<decision.primary>> \o decision.fallback

\* "Candidate models are unique and ordered" (specs/routing/routing-policy.md):
\* whatever budget control moves to the front, no model is tried twice and none
\* of those the table gives is lost.
CandidatesUnique ==
  /\ IsInjective(Offered)
  /\ ToSet(Chains[decision.type][decision.level]) \subseteq ToSet(Offered)

\* "Budget degradation never crosses the task floor": neither the model chosen
\* nor anything the execution may fall back to is of a tier below the floor's.
FloorRespected ==
  LET floor == TASK_POLICY[decision.type].floor
  IN \A m \in ToSet(Offered) : TierRank(m) >= TierRank(floor)

\* A task that is executed through provider calls has candidates of at least
\* two providers, so one provider that is down does not end it.
SurvivesProviderOutage ==
  decision.executor \in {"brain_only", "relay_api"} =>
    \A provider \in Providers : \E m \in ToSet(Offered) \ {Queue} : m \notin provider

\* Pressure pays: with some provider at 75% or more, a task does not get a
\* costlier model than at the call before, whatever the budgets were then.  (An
\* oracle that fails now is taken for an untouched budget.)
PressureNeverCostsMore ==
  [][(/\ asked'.pressure # Unreachable
      /\ \E p \in DOMAIN asked'.pressure : asked'.pressure[p] >= 75)
        => ~Cheaper(decision.primary, decision'.primary)]_observed

\* "60-75% | yellow | non-critical tasks drop one grade"
\* (docs/completed/05): at the least, yellow never picks a model of a higher
\* tier or price than green does.
YellowStepsDown ==
  decision.zone = "yellow" /\ decision.type \notin CRITICAL_TASKS =>
    ~Cheaper(Chains[decision.type][decision.level][1], decision.primary)
============================================================================
