---------------------------- MODULE RoutingTable ----------------------------
(***************************************************************************)
(* The tables and functions of src/routing_table.py: from a task type, a   *)
(* complexity and the share of the budget already spent to an ordered list *)
(* of model candidates.                                                    *)
(*                                                                         *)
(* The tables are those of the program; only the models no chain names are *)
(* left out.  Costs are in thousandths of a dollar, the budget ratio in    *)
(* percent, and a complexity word is the number it stands for.             *)
(***************************************************************************)
EXTENDS Lists, SequencesExt

CONSTANTS OtherType,  \* any task type the table does not know
          OtherLevel  \* any complexity word the table does not know

----------------------------------------------------------------------------
(* Models *)

Queue == "cursor_queue"
Opus == "anthropic/claude-opus-4-8"
Sonnet == "anthropic/claude-sonnet-4-6"
Haiku == "anthropic/claude-haiku-4-5"
Gpt55 == "openai/gpt-5.5"
Gpt55Pro == "openai/gpt-5.5-pro"
Gpt54 == "openai/gpt-5.4"
Gpt54Mini == "openai/gpt-5.4-mini"
Gpt54Nano == "openai/gpt-5.4-nano"
Codex53 == "openai/gpt-5.3-codex"
DsPro == "deepseek/deepseek-v4-pro"
DsFlash == "deepseek/deepseek-v4-flash"

Anthropic == {Opus, Sonnet, Haiku}
OpenAI == {Gpt55, Gpt55Pro, Gpt54, Gpt54Mini, Gpt54Nano, Codex53}
DeepSeek == {DsPro, DsFlash}
Providers == {Anthropic, OpenAI, DeepSeek}
Models == {Queue} \cup UNION Providers

Tiers == {"flash", "economy", "workhorse", "brain", "queue"}
MODEL_TIER == [m \in Models |->
  CASE m = Queue -> "queue"
    [] m \in {Opus, Gpt55, Gpt55Pro, DsPro} -> "brain"
    [] m \in {Sonnet, Gpt54, Codex53} -> "workhorse"
    [] m \in {Haiku, Gpt54Mini} -> "economy"
    [] m \in {Gpt54Nano, DsFlash} -> "flash"]

TIER_RANK == [flash |-> 0, economy |-> 1, workhorse |-> 2, brain |-> 3, queue |-> 2]
TierRank(m) == TIER_RANK[MODEL_TIER[m]]

\* Price of a million tokens, in and out.
MODEL_COST == [m \in Models |->
  CASE m = Queue -> <<0, 0>>
    [] m = Gpt54Nano -> <<200, 1250>>    [] m = DsFlash -> <<140, 280>>
    [] m = Gpt54Mini -> <<750, 4500>>    [] m = Haiku -> <<1000, 5000>>
    [] m = Codex53 -> <<1750, 14000>>    [] m = Gpt54 -> <<2500, 15000>>
    [] m = Sonnet -> <<3000, 15000>>     [] m = DsPro -> <<435, 870>>
    [] m = Gpt55 -> <<5000, 30000>>      [] m = Opus -> <<5000, 25000>>
    [] m = Gpt55Pro -> <<30000, 180000>>]
Price(m) == MODEL_COST[m][1] + MODEL_COST[m][2]

\* _cost_key, compared as Python compares tuples.
Cheaper(m, n) ==
  \/ TierRank(m) < TierRank(n)
  \/ TierRank(m) = TierRank(n) /\ Price(m) < Price(n)
  \/ /\ TierRank(m) = TierRank(n) /\ Price(m) = Price(n)
     /\ MODEL_COST[m][2] < MODEL_COST[n][2]
CheaperPairs == {pair \in Models \X Models : Cheaper(pair[1], pair[2])}

----------------------------------------------------------------------------
(* Tasks *)

TaskTypes == {"architecture", "system_design", "deep_reasoning", "implementation",
              "debugging", "refactor", "boilerplate", "bulk_generation",
              "data_processing", "code_patch", "file_edit", "uncertain"}
CRITICAL_TASKS == {"architecture", "system_design", "deep_reasoning"}

\* TASK_POLICY: who executes, and the weakest model allowed.
Policy(executor, floor) == [executor |-> executor, floor |-> floor]
TASK_POLICY == [t \in TaskTypes |->
  CASE t = "architecture" -> Policy("brain_only", Sonnet)
    [] t = "system_design" -> Policy("brain_only", Gpt54)
    [] t = "deep_reasoning" -> Policy("brain_only", Opus)
    [] t \in {"boilerplate", "bulk_generation", "data_processing"} ->
         Policy("relay_api", Gpt54Nano)
    [] t \in {"code_patch", "file_edit"} -> Policy("cursor_queue", Codex53)
    [] OTHER -> Policy("codex", DsFlash)]

Levels == 0..4   \* T0 .. T4
Zones  == {"green", "yellow", "orange", "red"}

\* What route() returns, without the texts.
RoutingDecision ==
  [type : TaskTypes, level : Levels, zone : Zones, primary : Models,
   fallback : Seq(Models), executor : {TASK_POLICY[t].executor : t \in TaskTypes}]

\* TASK_TO_MODEL, as chains: the primary model, then the fallbacks.
Chains == [t \in TaskTypes |->
  CASE t = "architecture" ->
         [l \in {3, 4} |-> CASE l = 3 -> <<Gpt55, Opus, Sonnet>>
                             [] l = 4 -> <<Opus, Gpt55, Gpt55Pro, DsPro>>]
    [] t = "system_design" ->
         [l \in {2, 3, 4} |-> CASE l = 2 -> <<Sonnet, Gpt54, Gpt55>>
                                [] l = 3 -> <<Gpt55, Opus, Sonnet>>
                                [] l = 4 -> <<Opus, Gpt55, DsPro>>]
    [] t = "deep_reasoning" ->
         [l \in {3, 4} |-> CASE l = 3 -> <<Opus, Gpt55, DsPro>>
                             [] l = 4 -> <<Gpt55Pro, Opus, Gpt55>>]
    [] t \in {"implementation", "debugging"} ->
         [l \in {1, 2, 3} |-> CASE l = 1 -> <<Gpt54Mini, DsFlash, Codex53>>
                                [] l = 2 -> <<Codex53, Sonnet, Gpt54>>
                                [] l = 3 -> <<Gpt55, Opus, Codex53>>]
    [] t = "refactor" ->
         [l \in {1, 2, 3} |-> CASE l = 1 -> <<DsFlash, Gpt54Mini>>
                                [] l = 2 -> <<Codex53, Sonnet, Gpt54>>
                                [] l = 3 -> <<Opus, Gpt55, Codex53>>]
    [] t = "boilerplate" ->
         [l \in {0, 1} |-> CASE l = 0 -> <<Gpt54Nano, DsFlash>>
                             [] l = 1 -> <<DsFlash, Gpt54Mini, Gpt54Nano>>]
    [] t = "bulk_generation" ->
         [l \in {0, 1} |-> CASE l = 0 -> <<Gpt54Nano, DsFlash>>
                             [] l = 1 -> <<DsFlash, Haiku, Gpt54Mini>>]
    [] t = "data_processing" ->
         [l \in {0, 1, 3} |-> CASE l = 0 -> <<Gpt54Nano, DsFlash>>
                                [] l = 1 -> <<DsFlash, Gpt54Mini>>
                                [] l = 3 -> <<DsPro, Gpt55>>]
    [] t = "code_patch" -> [l \in {0, 1} |-> <<Queue, Codex53>>]
    [] t = "file_edit" ->
         [l \in {0, 1, 2} |-> IF l = 2 THEN <<Queue, Codex53, Sonnet>> ELSE <<Queue, Codex53>>]
    [] t = "uncertain" -> [l \in {2} |-> <<Sonnet, Gpt54, DsFlash>>]]

----------------------------------------------------------------------------
(* route() *)

NormalizeType(t) == IF t \in TaskTypes THEN t ELSE "uncertain"

\* "5" is an alias of T4; what is not a level at all counts as T2.
NormalizeLevel(level) ==
  IF level \in Levels THEN level ELSE IF level = 5 THEN 4 ELSE 2

\* The nearest level the table has at or above the one asked for, else its top.
NearestLevel(t, level) ==
  LET defined == DOMAIN Chains[t]
      above == {l \in defined : l >= level}
  IN IF above # {} THEN Min(above) ELSE Max(defined)

ZoneFor(ratio) ==
  CASE ratio >= 90 -> "red"
    [] ratio >= 75 /\ ratio < 90 -> "orange"
    [] ratio >= 60 /\ ratio < 75 -> "yellow"
    [] OTHER -> "green"

\* The chain with the floor at its end, without what is weaker than the floor.
FromTier(floor) == {m \in Models : m = Queue \/ TierRank(m) >= TierRank(floor)}
FloorConstrained(chain, floor) == Keep(Dedupe(Append(chain, floor)), FromTier(floor))

\* Mutants of FallbackAfter: the primary stays in the list, and only what comes
\* after it is kept.
FallbackAfterWithPrimary(primary, chain) == chain
FallbackAfterTail(primary, chain) ==
  SubSeq(chain, SelectInSeq(chain, LAMBDA m : m = primary) + 1, Len(chain))

FallbackAfter(primary, chain) == Keep(chain, Models \ {primary})

\* Yellow: the best model of a lower tier, else the next one of the chain.
BelowTier(primary) == {m \in Models : TierRank(m) < TierRank(primary)}
BetterUnderYellow ==
  {pair \in Models \X Models :
     LET m == pair[1]  n == pair[2]
     IN \/ TierRank(m) > TierRank(n)
        \/ TierRank(m) = TierRank(n) /\ Price(m) < Price(n)}
YellowChoice(primary, chain) ==
  LET lower == Keep(chain, BelowTier(primary))
      at == IF Contains(chain, primary) THEN SelectInSeq(chain, LAMBDA m : m = primary) ELSE 1
  IN IF lower # <<>> THEN FirstBest(lower, BetterUnderYellow)
     ELSE chain[Min({at + 1, Len(chain)})]

\* Mutant of OrangeChoice: the end of the chain, taken for the cheapest.
OrangeChoiceLast(chain) == chain[Len(chain)]

OrangeChoice(chain) == FirstBest(chain, CheaperPairs)

\* Mutant of RedChoice: any flash model, chain or no chain.
RedChoiceAnyFlash(chain) == DsFlash

\* Red: the cheapest flash model of the chain, else the cheapest of the chain.
RedChoice(chain) ==
  LET flash == Keep(chain, {m \in Models : MODEL_TIER[m] = "flash"})
  IN FirstBest(IF flash # <<>> THEN flash ELSE chain, CheaperPairs)

\* apply_budget_control for an entry of the table: the chosen model and what is
\* left to fall back on.
Choice(t, chain, zone) ==
  LET primary == chain[1]
      floor == TASK_POLICY[t].floor
  IN CASE t \in CRITICAL_TASKS -> IF zone = "yellow" THEN primary ELSE floor
       [] t \notin CRITICAL_TASKS /\ zone = "yellow" ->
            YellowChoice(primary, FloorConstrained(chain, floor))
       [] t \notin CRITICAL_TASKS /\ zone = "orange" ->
            OrangeChoice(FloorConstrained(chain, floor))
       [] t \notin CRITICAL_TASKS /\ zone = "red" ->
            RedChoice(FloorConstrained(chain, floor))

Decision(t, level, zone, primary, fallback) ==
  [type |-> t, level |-> level, zone |-> zone, primary |-> primary,
   fallback |-> fallback, executor |-> TASK_POLICY[t].executor]

\* Mutant of Route: the level asked for is reported instead of the one used.
RouteReportingRequest(ask) ==
  LET t == NormalizeType(ask.type)
      chain == Chains[t][NearestLevel(t, NormalizeLevel(ask.level))]
  IN Decision(t, NormalizeLevel(ask.level), ZoneFor(ask.ratio), chain[1], Tail(chain))

Route(ask) ==
  LET t == NormalizeType(ask.type)
      level == NearestLevel(t, NormalizeLevel(ask.level))
      zone == ZoneFor(ask.ratio)
      chain == Chains[t][level]
      chosen == Choice(t, chain, zone)
  IN IF zone = "green"
     THEN Decision(t, level, zone, chain[1], Tail(chain))
     ELSE Decision(t, level, zone, chosen,
                   FallbackAfter(chosen, FloorConstrained(chain, TASK_POLICY[t].floor)))
=============================================================================
