-------------------------- MODULE DispatcherProofs --------------------------
(***************************************************************************)
(* Proofs about the routing table and about dispatches, for any prompts,   *)
(* replies, budgets, requests and users of the queue: what route() answers;*)
(* where a subtask leaves traces, and what its report and the answer of    *)
(* its request say of that; and what is proved of the queue and of Codex   *)
(* alone, in the middle of dispatches.                                     *)
(***************************************************************************)
EXTENDS Dispatcher, Routing, CollectionLemmas

----------------------------------------------------------------------------
(* The tables of routing_table.py *)

\* A list of models that names none of them twice, and what it is drawn from.
Distinct(list) == /\ list \in Seq(Models) /\ list # <<>>
                  /\ \A i, j \in DOMAIN list : list[i] = list[j] => i = j
Among(list, S) == \A i \in DOMAIN list : list[i] \in S

\* Models of the highest tier, and of the tier of the queue or above.
Strong == {Opus, Gpt55, Gpt55Pro, DsPro}
Solid  == Strong \cup {Queue, Sonnet, Gpt54, Codex53}

\* The types that are executed through provider calls, and a chain for them.
ProviderTypes == CRITICAL_TASKS \cup {"boilerplate", "bulk_generation", "data_processing"}
Split(chain) == /\ {1, 2} \subseteq DOMAIN chain
                /\ chain[1] # Queue /\ chain[2] # Queue
                /\ \A p \in Providers : chain[1] \notin p \/ chain[2] \notin p

LEMMA ModelFacts ==
  ASSUME NEW m \in Models
  PROVE  /\ TierRank(m) \in 0..3
         /\ Price(m) \in Nat /\ MODEL_COST[m][2] \in Nat
         /\ TierRank(m) = 0 <=> MODEL_TIER[m] = "flash"
<1> USE DEF Models, Providers, Anthropic, OpenAI, DeepSeek, Queue, Opus, Sonnet, Haiku,
            Gpt55, Gpt55Pro, Gpt54, Gpt54Mini, Gpt54Nano, Codex53, DsPro, DsFlash
<1>1. MODEL_TIER[m] \in Tiers
  BY DEF MODEL_TIER, Tiers
<1>2. TierRank(m) \in 0..3 /\ (TierRank(m) = 0 <=> MODEL_TIER[m] = "flash")
  BY <1>1 DEF TierRank, TIER_RANK, Tiers
<1>3. MODEL_COST[m] \in Nat \X Nat
  BY DEF MODEL_COST
<1> QED
  BY <1>2, <1>3 DEF Price

LEMMA Ranks ==
  /\ \A m \in Strong : m \in Models /\ TierRank(m) = 3
  /\ \A m \in Solid : m \in Models /\ TierRank(m) >= 2
  /\ TierRank(Sonnet) = 2 /\ TierRank(Gpt54) = 2 /\ TierRank(Codex53) = 2
  /\ TierRank(Gpt54Nano) = 0 /\ TierRank(DsFlash) = 0
  /\ {Gpt54Nano, DsFlash} \subseteq Models
  /\ Price(Opus) = 30000 /\ Price(Gpt55Pro) = 210000
  /\ Price(Sonnet) = 18000 /\ Price(Gpt54) = 17500
BY DEF Strong, Solid, TierRank, MODEL_TIER, TIER_RANK, MODEL_COST, Price,
       Models, Providers, Anthropic, OpenAI, DeepSeek, Queue, Opus, Sonnet, Haiku,
       Gpt55, Gpt55Pro, Gpt54, Gpt54Mini, Gpt54Nano, Codex53, DsPro, DsFlash

LEMMA TwoDistinct ==
  ASSUME NEW a \in Models, NEW b \in Models, a # b
  PROVE  /\ Distinct(<<a, b>>)
         /\ \A S : a \in S /\ b \in S => Among(<<a, b>>, S)
<1>1. <<a, b>> \in Seq(Models) /\ DOMAIN <<a, b>> = {1, 2} /\ <<a, b>> # <<>>
  OBVIOUS
<1> QED
  BY <1>1 DEF Distinct, Among

LEMMA ThreeDistinct ==
  ASSUME NEW a \in Models, NEW b \in Models, NEW c \in Models, a # b, a # c, b # c
  PROVE  /\ Distinct(<<a, b, c>>)
         /\ \A S : a \in S /\ b \in S /\ c \in S => Among(<<a, b, c>>, S)
<1>1. /\ <<a, b, c>> \in Seq(Models) /\ DOMAIN <<a, b, c>> = {1, 2, 3}
      /\ <<a, b, c>> # <<>>
  OBVIOUS
<1> QED
  BY <1>1 DEF Distinct, Among

LEMMA FourDistinct ==
  ASSUME NEW a \in Models, NEW b \in Models, NEW c \in Models, NEW d \in Models,
         a # b, a # c, b # c, a # d, b # d, c # d
  PROVE  /\ Distinct(<<a, b, c, d>>)
         /\ \A S : a \in S /\ b \in S /\ c \in S /\ d \in S => Among(<<a, b, c, d>>, S)
<1>1. /\ <<a, b, c, d>> \in Seq(Models) /\ DOMAIN <<a, b, c, d>> = {1, 2, 3, 4}
      /\ <<a, b, c, d>> # <<>>
  OBVIOUS
<1> QED
  BY <1>1 DEF Distinct, Among

\* What is true of every chain of the table.
LEMMA ChainsAre ==
  ASSUME NEW t \in TaskTypes, NEW l \in DOMAIN Chains[t]
  PROVE  /\ Distinct(Chains[t][l]) /\ l \in Levels
         /\ t = "deep_reasoning" =>
              Among(Chains[t][l], Strong) /\ Chains[t][l][1] \in {Opus, Gpt55Pro}
         /\ t \in {"architecture", "system_design", "code_patch", "file_edit"} =>
              Among(Chains[t][l], Solid)
         /\ t = "architecture" => Chains[t][l][1] \in {Opus, Gpt55}
         /\ t = "system_design" => Chains[t][l][1] \in {Opus, Gpt55, Sonnet}
         /\ t \in ProviderTypes \cup {"uncertain"} => Split(Chains[t][l])
<1> USE TwoDistinct, ThreeDistinct, FourDistinct
    DEF Chains, Levels, TaskTypes, CRITICAL_TASKS, ProviderTypes, Strong, Solid, Split,
        Models, Providers, Anthropic, OpenAI, DeepSeek, Queue, Opus, Sonnet, Haiku,
        Gpt55, Gpt55Pro, Gpt54, Gpt54Mini, Gpt54Nano, Codex53, DsPro, DsFlash
<1>1. CASE t = "architecture"
  <2>1. l \in {3, 4}
    BY <1>1
  <2>2. CASE l = 3
    BY <1>1, <2>2
  <2>3. CASE l = 4
    BY <1>1, <2>3
  <2> QED
    BY <2>1, <2>2, <2>3
<1>2. CASE t = "system_design"
  <2>1. l \in {2, 3, 4}
    BY <1>2
  <2>2. CASE l = 2
    BY <1>2, <2>2
  <2>3. CASE l = 3
    BY <1>2, <2>3
  <2>4. CASE l = 4
    BY <1>2, <2>4
  <2> QED
    BY <2>1, <2>2, <2>3, <2>4
<1>3. CASE t = "deep_reasoning"
  BY <1>3
<1>4. CASE t = "implementation"
  BY <1>4
<1>5. CASE t = "debugging"
  BY <1>5
<1>6. CASE t = "refactor"
  BY <1>6
<1>7. CASE t = "boilerplate"
  BY <1>7
<1>8. CASE t = "bulk_generation"
  BY <1>8
<1>9. CASE t = "data_processing"
  BY <1>9
<1>10. CASE t = "code_patch"
  BY <1>10
<1>11. CASE t = "file_edit"
  BY <1>11
<1>12. CASE t = "uncertain"
  BY <1>12
<1> QED
  BY <1>1, <1>2, <1>3, <1>4, <1>5, <1>6, <1>7, <1>8, <1>9, <1>10, <1>11, <1>12

LEMMA LevelsAre ==
  ASSUME NEW t \in TaskTypes
  PROVE  DOMAIN Chains[t] # {} /\ DOMAIN Chains[t] \subseteq Levels
BY DEF Chains, Levels, TaskTypes

LEMMA PolicyFacts ==
  ASSUME NEW t \in TaskTypes
  PROVE  /\ TASK_POLICY[t].executor \in {"brain_only", "relay_api"} <=> t \in ProviderTypes
         /\ t \in {"architecture"} => TASK_POLICY[t].floor = Sonnet
         /\ t \in {"system_design"} => TASK_POLICY[t].floor = Gpt54
         /\ t \in {"deep_reasoning"} => TASK_POLICY[t].floor = Opus
         /\ t \in {"code_patch", "file_edit"} => TASK_POLICY[t].floor = Codex53
         /\ t \notin CRITICAL_TASKS \cup {"code_patch", "file_edit"} =>
              TASK_POLICY[t].floor \in {Gpt54Nano, DsFlash}
BY DEF TASK_POLICY, Policy, ProviderTypes, TaskTypes, CRITICAL_TASKS

LEMMA ChainsKeepFloor ==
  ASSUME NEW t \in TaskTypes, NEW l \in DOMAIN Chains[t]
  PROVE  LET chain == Chains[t][l]
             floor == TASK_POLICY[t].floor
         IN  /\ floor \in Models
             /\ \A m \in ToSet(chain) : TierRank(m) >= TierRank(floor)
             /\ t \in CRITICAL_TASKS => ~Cheaper(chain[1], floor)
<1> DEFINE chain == Chains[t][l]
           floor == TASK_POLICY[t].floor
<1> HIDE DEF chain, floor
<1>1. \A m \in ToSet(chain) : m \in Models
  BY ChainsAre DEF Distinct, ToSet, chain
<1>2. \A m \in Models : TierRank(m) >= 0
  BY ModelFacts
<1>3. CASE t = "architecture"
  <2>1. floor = Sonnet /\ Among(chain, Solid) /\ chain[1] \in {Opus, Gpt55}
    BY <1>3, PolicyFacts, ChainsAre DEF chain, floor
  <2>2. TierRank(chain[1]) = 3
    BY <2>1, Ranks DEF Strong
  <2> QED
    BY <2>1, <2>2, Ranks DEF Among, ToSet, Cheaper, chain, floor, Solid
<1>4. CASE t = "system_design"
  <2>1. floor = Gpt54 /\ Among(chain, Solid) /\ chain[1] \in {Opus, Gpt55, Sonnet}
    BY <1>4, PolicyFacts, ChainsAre DEF chain, floor
  <2>2. TierRank(chain[1]) = 3 \/ chain[1] = Sonnet
    BY <2>1, Ranks DEF Strong
  <2> QED
    BY <2>1, <2>2, Ranks DEF Among, ToSet, Cheaper, chain, floor, Solid
<1>5. CASE t = "deep_reasoning"
  <2>1. floor = Opus /\ Among(chain, Strong) /\ chain[1] \in {Opus, Gpt55Pro}
    BY <1>5, PolicyFacts, ChainsAre DEF chain, floor
  <2>2. ~Cheaper(chain[1], Opus)
    <3>1. ~Cheaper(Opus, Opus)
      BY Ranks, ModelFacts DEF Cheaper, Strong
    <3>2. ~Cheaper(Gpt55Pro, Opus)
      BY Ranks DEF Cheaper, Strong
    <3> QED
      BY <2>1, <3>1, <3>2
  <2> QED
    BY <2>1, <2>2, Ranks DEF Among, ToSet, chain, floor, Strong
<1>6. CASE t \in {"code_patch", "file_edit"}
  <2>1. floor = Codex53 /\ Among(chain, Solid) /\ t \notin CRITICAL_TASKS
    BY <1>6, PolicyFacts, ChainsAre DEF chain, floor, CRITICAL_TASKS
  <2> QED
    BY <2>1, Ranks DEF Among, ToSet, chain, floor, Solid
<1>7. CASE t \notin CRITICAL_TASKS \cup {"code_patch", "file_edit"}
  <2>1. floor \in {Gpt54Nano, DsFlash}
    BY <1>7, PolicyFacts DEF floor
  <2> QED
    BY <1>1, <1>2, <1>7, <2>1, Ranks DEF chain, floor
<1> QED
  BY <1>3, <1>4, <1>5, <1>6, <1>7 DEF CRITICAL_TASKS

\* Both keys order the models.
LEMMA KeysOrder ==
  ASSUME NEW better \in {CheaperPairs, BetterUnderYellow}
  PROVE  /\ \A x, y \in Models : <<x, y>> \in better => <<y, x>> \notin better
         /\ \A x, y, z \in Models :
              <<x, z>> \in better => <<x, y>> \in better \/ <<y, z>> \in better
<1>1. \A m \in Models : TierRank(m) \in Nat /\ Price(m) \in Nat /\ MODEL_COST[m][2] \in Nat
  BY ModelFacts
<1>2. \A x, y \in Models : <<x, y>> \in CheaperPairs <=> Cheaper(x, y)
  BY DEF CheaperPairs
<1>3. \A x, y \in Models : <<x, y>> \in BetterUnderYellow <=>
        \/ TierRank(x) > TierRank(y)
        \/ TierRank(x) = TierRank(y) /\ Price(x) < Price(y)
  BY DEF BetterUnderYellow
<1>4. CASE better = CheaperPairs
  BY <1>1, <1>2, <1>4 DEF Cheaper
<1>5. CASE better = BetterUnderYellow
  BY <1>1, <1>3, <1>5
<1> QED
  BY <1>4, <1>5

\* So the best of a list of models is one of them, and none is better.
LEMMA BestModel ==
  ASSUME NEW list \in Seq(Models), list # <<>>,
         NEW better \in {CheaperPairs, BetterUnderYellow}
  PROVE  /\ FirstBest(list, better) \in ToSet(list)
         /\ \A x \in ToSet(list) : <<x, FirstBest(list, better)>> \notin better
<1>1. ToSet(list) \subseteq Models
  BY DEF ToSet
<1> QED
  BY <1>1, KeysOrder, FirstBestFacts

\* The chain with the floor at its end, for the entries of the table: nothing of
\* the chain is weaker than the floor.
LEMMA ConstrainedFacts ==
  ASSUME NEW t \in TaskTypes, NEW l \in DOMAIN Chains[t]
  PROVE  LET chain == Chains[t][l]
             floor == TASK_POLICY[t].floor
             constrained == FloorConstrained(chain, floor)
         IN  /\ Distinct(constrained)
             /\ ToSet(constrained) = ToSet(chain) \cup {floor}
             /\ \A m \in ToSet(constrained) : TierRank(m) >= TierRank(floor)
<1> DEFINE chain == Chains[t][l]
           floor == TASK_POLICY[t].floor
           longer == Append(chain, floor)
           constrained == FloorConstrained(chain, floor)
<1>1. /\ chain \in Seq(Models) /\ chain # <<>> /\ floor \in Models
      /\ \A m \in ToSet(chain) : TierRank(m) >= TierRank(floor)
  BY ChainsAre, ChainsKeepFloor DEF Distinct
<1>2. constrained = Keep(Dedupe(longer), FromTier(floor))
  BY DEF FloorConstrained
<1> HIDE DEF chain, floor, constrained
<1>3. /\ longer \in Seq(Models) /\ longer # <<>>
      /\ ToSet(longer) = ToSet(chain) \cup {floor}
  <2>1. longer \in Seq(Models) /\ Len(longer) = Len(chain) + 1
    BY <1>1
  <2>2. longer # <<>>
    BY <1>1, <2>1, LenProperties
  <2> QED
    BY <1>1, <2>1, <2>2, ToSetOfAppend
<1> HIDE DEF longer
<1>4. /\ Dedupe(longer) \in Seq(Models)
      /\ \A i, j \in DOMAIN Dedupe(longer) : Dedupe(longer)[i] = Dedupe(longer)[j] => i = j
      /\ ToSet(Dedupe(longer)) = ToSet(chain) \cup {floor}
  BY <1>3, DedupeFacts
<1>5. TierRank(floor) >= TierRank(floor)
  BY <1>1, ModelFacts
<1>6. \A m \in ToSet(chain) \cup {floor} : m \in Models /\ TierRank(m) >= TierRank(floor)
  BY <1>1, <1>5 DEF ToSet
<1>7. (ToSet(chain) \cup {floor}) \cap FromTier(floor) = ToSet(chain) \cup {floor}
  BY <1>6 DEF FromTier
<1> DEFINE once == Dedupe(longer)
<1> HIDE DEF once
<1>8. /\ Keep(once, FromTier(floor)) \in Seq(Models)
      /\ ToSet(Keep(once, FromTier(floor))) = ToSet(once) \cap FromTier(floor)
      /\ \A i, j \in DOMAIN Keep(once, FromTier(floor)) :
           Keep(once, FromTier(floor))[i] = Keep(once, FromTier(floor))[j] => i = j
      /\ ToSet(once) \cap FromTier(floor) # {} => Keep(once, FromTier(floor)) # <<>>
  BY <1>4, KeepFacts DEF once
<1>9. constrained = Keep(once, FromTier(floor)) /\ ToSet(once) = ToSet(chain) \cup {floor}
  BY <1>2, <1>4 DEF once
<1>10. Distinct(constrained) /\ ToSet(constrained) = ToSet(chain) \cup {floor}
  BY <1>7, <1>8, <1>9 DEF Distinct
<1> QED
  BY <1>6, <1>10 DEF chain, floor, constrained

\* Yellow and red choose from the list they are given, red nothing that is
\* costlier than another model of it.
LEMMA YellowChoiceFacts ==
  ASSUME NEW list \in Seq(Models), list # <<>>, NEW primary
  PROVE  YellowChoice(primary, list) \in ToSet(list)
<1> DEFINE lower == Keep(list, BelowTier(primary))
           I == {i \in 1..Len(list) : list[i] = primary}
           at == IF Contains(list, primary)
                 THEN SelectInSeq(list, LAMBDA m : m = primary) ELSE 1
<1>1. Len(list) \in Nat /\ Len(list) >= 1 /\ DOMAIN list = 1..Len(list)
  BY LenProperties, EmptySeq
<1>2. lower \in Seq(Models) /\ ToSet(lower) \subseteq ToSet(list)
  BY KeepFacts
<1>3. at \in 1..Len(list)
  <2>1. CASE Contains(list, primary)
    <3>1. I \in SUBSET Nat /\ I # {}
      BY <1>1, <2>1 DEF Contains
    <3>2. Min(I) \in I
      <4> HIDE DEF I
      <4> QED
        BY <3>1, MinOfNaturals
    <3>3. at = Min(I)
      BY <2>1, <3>1 DEF SelectInSeq
    <3> HIDE DEF at
    <3> QED
      BY <3>2, <3>3
  <2>2. CASE ~Contains(list, primary)
    BY <1>1, <2>2
  <2> QED
    BY <2>1, <2>2
<1>4. YellowChoice(primary, list) = IF lower # <<>> THEN FirstBest(lower, BetterUnderYellow)
                                    ELSE list[Min({at + 1, Len(list)})]
  BY DEF YellowChoice
<1> HIDE DEF lower, at
<1>5. Min({at + 1, Len(list)}) \in DOMAIN list
  <2> DEFINE two == {at + 1, Len(list)}
  <2>1. two \in SUBSET Nat /\ two # {} /\ Len(list) \in two
    BY <1>1, <1>3
  <2>2. Min(two) \in two /\ Min(two) <= Len(list)
    <3> HIDE DEF two
    <3> QED
      BY <2>1, MinOfNaturals
  <2>3. \A n \in two : n >= 1 /\ n \in Nat
    <3>1. at + 1 \in Nat /\ at + 1 >= 1
      BY <1>1, <1>3
    <3> QED
      BY <1>1, <3>1
  <2> HIDE DEF two
  <2>4. Min(two) \in 1..Len(list)
    BY <1>1, <2>2, <2>3
  <2> QED
    BY <1>1, <2>4 DEF two
<1>6. CASE lower # <<>>
  <2>1. FirstBest(lower, BetterUnderYellow) \in ToSet(lower)
    BY <1>2, <1>6, BestModel
  <2> QED
    BY <1>2, <1>4, <1>6, <2>1
<1>7. CASE lower = <<>>
  BY <1>4, <1>5, <1>7 DEF ToSet
<1> QED
  BY <1>6, <1>7

LEMMA RedChoiceFacts ==
  ASSUME NEW list \in Seq(Models), list # <<>>
  PROVE  /\ RedChoice(list) \in ToSet(list)
         /\ \A m \in ToSet(list) : ~Cheaper(m, RedChoice(list))
<1> DEFINE cheap == {m \in Models : MODEL_TIER[m] = "flash"}
           flash == Keep(list, cheap)
<1>1. flash \in Seq(Models) /\ ToSet(flash) = ToSet(list) \cap cheap
  BY KeepFacts
<1>2. ToSet(list) \subseteq Models
  BY DEF ToSet
<1>3. RedChoice(list) = FirstBest(IF flash # <<>> THEN flash ELSE list, CheaperPairs)
  BY DEF RedChoice
<1>4. \A m \in Models : TierRank(m) \in Nat /\ (TierRank(m) = 0 <=> m \in cheap)
  BY ModelFacts
<1>5. \A m, n \in Models : Cheaper(m, n) => <<m, n>> \in CheaperPairs
  BY DEF CheaperPairs
<1> HIDE DEF flash, cheap
<1>6. CASE flash # <<>>
  <2> DEFINE best == FirstBest(flash, CheaperPairs)
  <2>1. best \in ToSet(flash) /\ \A m \in ToSet(flash) : <<m, best>> \notin CheaperPairs
    BY <1>1, <1>6, BestModel
  <2>2. RedChoice(list) = best
    BY <1>3, <1>6
  <2> HIDE DEF best
  <2>3. best \in ToSet(list) /\ best \in Models /\ TierRank(best) = 0
    BY <1>1, <1>2, <1>4, <2>1
  <2>4. ASSUME NEW m \in ToSet(list), Cheaper(m, best) PROVE FALSE
    <3>1. m \in Models /\ TierRank(m) \in Nat
      BY <1>2, <1>4
    <3>2. TierRank(m) = 0
      BY <2>3, <2>4, <3>1 DEF Cheaper
    <3>3. m \in ToSet(flash)
      BY <1>1, <1>4, <3>1, <3>2
    <3> QED
      BY <1>5, <2>1, <2>3, <2>4, <3>1, <3>3
  <2> QED
    BY <2>2, <2>3, <2>4
<1>7. CASE flash = <<>>
  <2>1. /\ FirstBest(list, CheaperPairs) \in ToSet(list)
        /\ \A m \in ToSet(list) : <<m, FirstBest(list, CheaperPairs)>> \notin CheaperPairs
    BY BestModel
  <2> QED
    BY <1>2, <1>3, <1>5, <1>7, <2>1
<1> QED
  BY <1>6, <1>7

LEMMA OrangeChoiceFacts ==
  ASSUME NEW list \in Seq(Models), list # <<>>
  PROVE  /\ OrangeChoice(list) \in ToSet(list)
         /\ \A m \in ToSet(list) : ~Cheaper(m, OrangeChoice(list))
<1>1. /\ OrangeChoice(list) \in ToSet(list)
      /\ \A m \in ToSet(list) : <<m, OrangeChoice(list)>> \notin CheaperPairs
  BY BestModel DEF OrangeChoice
<1>2. ToSet(list) \subseteq Models
  BY DEF ToSet
<1> QED
  BY <1>1, <1>2 DEF CheaperPairs

\* The choice of budget control is in the constrained chain, and in orange and
\* red nothing in the chain is cheaper (for a critical task: not the primary).
LEMMA ChoiceFacts ==
  ASSUME NEW t \in TaskTypes, NEW l \in DOMAIN Chains[t],
         NEW zone \in {"yellow", "orange", "red"}
  PROVE  LET chain == Chains[t][l]
             constrained == FloorConstrained(chain, TASK_POLICY[t].floor)
             choice == Choice(t, chain, zone)
         IN  /\ choice \in ToSet(constrained)
             /\ t \in CRITICAL_TASKS => choice = IF zone = "yellow" THEN chain[1]
                                                 ELSE TASK_POLICY[t].floor
             /\ t \notin CRITICAL_TASKS /\ zone # "yellow" =>
                  \A m \in ToSet(constrained) : ~Cheaper(m, choice)
<1> DEFINE chain == Chains[t][l]
           floor == TASK_POLICY[t].floor
           constrained == FloorConstrained(chain, floor)
           choice == Choice(t, chain, zone)
<1>1. /\ constrained \in Seq(Models) /\ constrained # <<>>
      /\ ToSet(constrained) = ToSet(chain) \cup {floor}
      /\ chain[1] \in ToSet(chain)
  <2>1. chain \in Seq(Models) /\ chain # <<>>
    BY ChainsAre DEF Distinct
  <2>2. 1 \in DOMAIN chain
    BY <2>1, LenProperties, EmptySeq
  <2>3. chain[1] \in ToSet(chain)
    BY <2>2 DEF ToSet
  <2> QED
    BY <2>3, ConstrainedFacts DEF Distinct
<1>2. CASE t \in CRITICAL_TASKS
  <2>1. choice = IF zone = "yellow" THEN chain[1] ELSE floor
    BY <1>2 DEF Choice
  <2> QED
    BY <1>1, <1>2, <2>1
<1>3. CASE t \notin CRITICAL_TASKS /\ zone = "yellow"
  <2>1. choice = YellowChoice(chain[1], constrained)
    BY <1>3 DEF Choice
  <2> QED
    BY <1>1, <1>3, <2>1, YellowChoiceFacts
<1>4. CASE t \notin CRITICAL_TASKS /\ zone = "orange"
  <2>1. choice = OrangeChoice(constrained)
    BY <1>4 DEF Choice
  <2> QED
    BY <1>1, <1>4, <2>1, OrangeChoiceFacts
<1>5. CASE t \notin CRITICAL_TASKS /\ zone = "red"
  <2>1. choice = RedChoice(constrained)
    BY <1>5 DEF Choice
  <2> QED
    BY <1>1, <1>5, <2>1, RedChoiceFacts
<1> QED
  BY <1>2, <1>3, <1>4, <1>5

\* The nearest level the table has is one the table has.
LEMMA NearestLevelFacts ==
  ASSUME NEW t \in TaskTypes, NEW level \in Levels
  PROVE  NearestLevel(t, level) \in DOMAIN Chains[t]
<1> DEFINE defined == DOMAIN Chains[t]
           above == {l \in defined : l >= level}
<1>1. defined # {} /\ defined \subseteq 0..4
  BY LevelsAre DEF Levels
<1>2. NearestLevel(t, level) = IF above # {} THEN Min(above) ELSE Max(defined)
  BY DEF NearestLevel
<1> HIDE DEF defined
<1>3. above \in SUBSET Nat /\ defined \in SUBSET Nat
  <2>1. \A l \in 0..4 : l \in Nat
    OBVIOUS
  <2>2. defined \in SUBSET Nat
    BY <1>1, <2>1
  <2> QED
    BY <2>2
<1>4. above # {} => Min(above) \in above
  <2> HIDE DEF above
  <2> QED
    BY <1>3, MinOfNaturals
<1>5. IsFiniteSet(defined)
  <2>1. \A a, b \in Int : IsFiniteSet(a..b)
    BY FS_Interval
  <2>2. 0 \in Int /\ 4 \in Int
    OBVIOUS
  <2>3. IsFiniteSet(0..4)
    BY <2>1, <2>2, Zenon
  <2> QED
    BY <1>1, <2>3, FS_Subset
<1>6. Max(defined) \in defined
  BY <1>1, <1>3, <1>5, MaxOfNaturals
<1>7. above \subseteq defined
  OBVIOUS
<1> HIDE DEF above
<1> QED
  BY <1>2, <1>4, <1>6, <1>7 DEF defined

Offer(d) == <<d.primary>> \o d.fallback

\* What route() decides, whatever it is asked.
LEMMA RouteFacts ==
  ASSUME NEW ask
  PROVE  LET d == Route(ask)
             chain == Chains[d.type][d.level]
             floor == TASK_POLICY[d.type].floor
         IN  /\ d.type = NormalizeType(ask.type) /\ d.type \in TaskTypes
             /\ d.level = NearestLevel(d.type, NormalizeLevel(ask.level))
             /\ d.level \in DOMAIN Chains[d.type]
             /\ d.zone = ZoneFor(ask.ratio) /\ d.zone \in Zones
             /\ d.executor = TASK_POLICY[d.type].executor
             /\ d.primary = IF d.zone = "green" THEN chain[1]
                            ELSE Choice(d.type, chain, d.zone)
             /\ d.primary \in Models /\ d.fallback \in Seq(Models)
             /\ Distinct(Offer(d))
             /\ ToSet(chain) \subseteq ToSet(Offer(d))
             /\ \A m \in ToSet(Offer(d)) : TierRank(m) >= TierRank(floor)
<1> DEFINE t == NormalizeType(ask.type)
           level == NearestLevel(t, NormalizeLevel(ask.level))
           zone == ZoneFor(ask.ratio)
           chain == Chains[t][level]
           floor == TASK_POLICY[t].floor
           constrained == FloorConstrained(chain, floor)
           chosen == Choice(t, chain, zone)
           d == Route(ask)
<1>1. t \in TaskTypes
  BY DEF NormalizeType, TaskTypes
<1>2. level \in DOMAIN Chains[t]
  <2>1. NormalizeLevel(ask.level) \in Levels
    BY DEF NormalizeLevel, Levels
  <2> QED
    BY <1>1, <2>1, NearestLevelFacts
<1>3. zone \in Zones
  BY DEF ZoneFor, Zones
<1>4. /\ d.type = t /\ d.level = level /\ d.zone = zone
      /\ d.executor = TASK_POLICY[t].executor
      /\ d.primary = IF zone = "green" THEN chain[1] ELSE chosen
      /\ d.fallback = IF zone = "green" THEN Tail(chain) ELSE FallbackAfter(chosen, constrained)
  BY DEF Route, Decision
<1>5. Distinct(chain) /\ \A m \in ToSet(chain) : TierRank(m) >= TierRank(floor)
  BY <1>1, <1>2, ChainsAre, ChainsKeepFloor
<1>6. /\ Distinct(constrained)
      /\ ToSet(constrained) = ToSet(chain) \cup {floor}
      /\ \A m \in ToSet(constrained) : TierRank(m) >= TierRank(floor)
  BY <1>1, <1>2, ConstrainedFacts
<1>7. zone # "green" => chosen \in ToSet(constrained)
  <2>1. zone # "green" => zone \in {"yellow", "orange", "red"}
    BY <1>3 DEF Zones
  <2> HIDE DEF zone
  <2> QED
    BY <1>1, <1>2, <2>1, ChoiceFacts
<1> HIDE DEF t, level, zone, chain, floor, constrained, chosen, d
<1>8. CASE zone = "green"
  <2>1. Tail(chain) \in Seq(Models) /\ <<chain[1]>> \o Tail(chain) = chain
    BY <1>5, FirstAndTail DEF Distinct
  <2>2. chain[1] \in Models
    <3>1. 1 \in DOMAIN chain
      BY <1>5, LenProperties, EmptySeq DEF Distinct
    <3> QED
      BY <1>5, <3>1, ElementOfSeq, LenProperties DEF Distinct
  <2>3. Offer(d) = chain
    BY <1>4, <1>8, <2>1 DEF Offer
  <2>4. d.primary = chain[1] /\ d.fallback = Tail(chain)
    BY <1>4, <1>8
  <2> QED
    BY <1>1, <1>2, <1>3, <1>4, <1>5, <1>8, <2>1, <2>2, <2>3, <2>4
       DEF t, level, zone, chain, floor, d
<1>9. CASE zone # "green"
  <2> DEFINE rest == Keep(constrained, Models \ {chosen})
  <2>1. chosen \in ToSet(constrained) /\ chosen \in Models
    BY <1>6, <1>7, <1>9 DEF Distinct, ToSet
  <2>2. d.primary = chosen /\ d.fallback = rest
    BY <1>4, <1>9 DEF FallbackAfter
  <2>3. /\ rest \in Seq(Models)
        /\ ToSet(rest) = ToSet(constrained) \cap (Models \ {chosen})
        /\ \A i, j \in DOMAIN rest : rest[i] = rest[j] => i = j
    BY <1>6, KeepFacts DEF Distinct
  <2>4. ToSet(constrained) \subseteq Models
    BY <1>6 DEF Distinct, ToSet
  <2> HIDE DEF rest
  <2>5. chosen \notin ToSet(rest) /\ {chosen} \cup ToSet(rest) = ToSet(constrained)
    BY <2>1, <2>3, <2>4
  <2> DEFINE offer == <<chosen>> \o rest
  <2>6. /\ offer \in Seq(Models)
        /\ \A i, j \in DOMAIN offer : offer[i] = offer[j] => i = j
        /\ ToSet(offer) = ToSet(constrained)
    <3>1. /\ offer \in Seq(Models)
          /\ \A i, j \in DOMAIN offer : offer[i] = offer[j] => i = j
          /\ ToSet(offer) = {chosen} \cup ToSet(rest)
      BY <2>1, <2>3, <2>5, InFrontFacts
    <3> HIDE DEF offer
    <3> QED
      BY <2>5, <3>1
  <2>7. offer # <<>>
    <3> HIDE DEF offer
    <3> QED
      BY <2>1, <2>6 DEF ToSet
  <2>8. Offer(d) = offer
    BY <2>2 DEF Offer
  <2> HIDE DEF offer
  <2> QED
    BY <1>1, <1>2, <1>3, <1>4, <1>6, <1>9, <2>1, <2>2, <2>3, <2>6, <2>7, <2>8
       DEF t, level, zone, chain, floor, d, chosen, Distinct
<1> QED
  BY <1>8, <1>9

LEMMA RouteIsDecision == \A ask : Route(ask) \in RoutingDecision
<1> SUFFICES ASSUME NEW ask PROVE Route(ask) \in RoutingDecision
  OBVIOUS
<1>1. PICK t, level, zone, primary, fallback :
        Route(ask) = Decision(t, level, zone, primary, fallback)
  BY DEF Route
<1>2. /\ t \in TaskTypes /\ level \in DOMAIN Chains[t] /\ zone \in Zones
      /\ primary \in Models /\ fallback \in Seq(Models)
  BY <1>1, RouteFacts DEF Decision
<1>3. level \in Levels
  BY <1>2, LevelsAre
<1> QED
  BY <1>1, <1>2, <1>3 DEF Decision, RoutingDecision

----------------------------------------------------------------------------
(* Routing *)

\* A decision is the one for what was asked.
RoutingInv == asked \in Asks /\ decision = Decided(asked)

LEMMA RoutingInitInv == FirstCall => RoutingInv
BY DEF FirstCall, RoutingInv

LEMMA RoutingNextInv == RoutingInv /\ [Call]_observed => RoutingInv'
<1>1. ASSUME RoutingInv, Call PROVE RoutingInv'
  <2>1. PICK pressure \in Pressures \cup {Unreachable} :
          LET ask == [asked EXCEPT !.pressure = pressure]
          IN asked' = ask /\ decision' = Decided(ask)
    BY <1>1 DEF Call
  <2>2. [asked EXCEPT !.pressure = pressure] \in Asks
    BY <1>1 DEF RoutingInv, Asks
  <2>3. decision' = Decided(asked')
    BY <2>1
  <2> QED
    BY <2>1, <2>2, <2>3 DEF RoutingInv, Decided, BudgetRatio
<1>2. ASSUME RoutingInv, UNCHANGED observed PROVE RoutingInv'
  BY <1>2 DEF RoutingInv, observed, Decided, BudgetRatio
<1> QED
  BY <1>1, <1>2

\* Every decision is that of a call of route(): the invariant that the other
\* theorems about routing read off the table.
THEOREM RoutingInvariant == RoutingSpec => []RoutingInv
<1> QED
  BY RoutingInitInv, RoutingNextInv, PTL DEF RoutingSpec

\* What RouteFacts says of the decision.
LEMMA DecisionFacts ==
  ASSUME RoutingInv
  PROVE  LET chain == Chains[decision.type][decision.level]
             floor == TASK_POLICY[decision.type].floor
         IN  /\ decision.type = NormalizeType(asked.type) /\ decision.type \in TaskTypes
             /\ decision.level = NearestLevel(decision.type, NormalizeLevel(asked.level))
             /\ decision.level \in DOMAIN Chains[decision.type]
             /\ decision.zone = ZoneFor(BudgetRatio(asked.pressure)) /\ decision.zone \in Zones
             /\ decision.executor = TASK_POLICY[decision.type].executor
             /\ decision.primary = IF decision.zone = "green" THEN chain[1]
                                   ELSE Choice(decision.type, chain, decision.zone)
             /\ decision.primary \in Models /\ decision.fallback \in Seq(Models)
             /\ Distinct(Offered)
             /\ ToSet(chain) \subseteq ToSet(Offered)
             /\ \A m \in ToSet(Offered) : TierRank(m) >= TierRank(floor)
<1> DEFINE ask == [type |-> asked.type, level |-> asked.level,
                   ratio |-> BudgetRatio(asked.pressure)]
<1>1. decision = Route(ask)
  BY DEF RoutingInv, Decided
<1>2. ask.type = asked.type /\ ask.level = asked.level /\ ask.ratio = BudgetRatio(asked.pressure)
  OBVIOUS
<1>3. Offered = Offer(decision)
  BY DEF Offered, Offer
<1> HIDE DEF ask
<1> QED
  BY <1>1, <1>2, <1>3, RouteFacts

\* Whatever is asked and whatever the budget oracle says, route() answers with
\* an entry of its table and with models it has.
THEOREM RoutingTypes == RoutingSpec => []RoutingTypeOK
<1>1. RoutingInv => RoutingTypeOK
  BY DecisionFacts, RouteIsDecision DEF RoutingInv, RoutingTypeOK, Decided
<1> QED
  BY <1>1, RoutingInvariant, PTL

\* No model is tried twice, and none of those the table gives is lost: whatever
\* the oracle reports, budget control only reorders and lets the floor in.
THEOREM NoneTriedTwice == RoutingSpec => []CandidatesUnique
<1>1. RoutingInv => CandidatesUnique
  BY DecisionFacts DEF CandidatesUnique, Distinct, IsInjective
<1> QED
  BY <1>1, RoutingInvariant, PTL

\* Neither the chosen model nor a fallback is of a tier below the task's floor,
\* at any budget.
THEOREM FloorHolds == RoutingSpec => []FloorRespected
<1>1. RoutingInv => FloorRespected
  BY DecisionFacts DEF FloorRespected
<1> QED
  BY <1>1, RoutingInvariant, PTL

\* A task executed through provider calls keeps candidates of two providers, so
\* any one of them may be down.
THEOREM OutageSurvived == RoutingSpec => []SurvivesProviderOutage
<1> DEFINE chain == Chains[decision.type][decision.level]
<1>1. ASSUME RoutingInv, decision.executor \in {"brain_only", "relay_api"},
             NEW provider \in Providers
      PROVE  \E m \in ToSet(Offered) \ {Queue} : m \notin provider
  <2>1. /\ decision.type \in ProviderTypes /\ decision.level \in DOMAIN Chains[decision.type]
        /\ ToSet(chain) \subseteq ToSet(Offered)
    BY <1>1, DecisionFacts, PolicyFacts
  <2>2. Split(chain)
    BY <2>1, <1>1, DecisionFacts, ChainsAre
  <2>3. {chain[1], chain[2]} \subseteq ToSet(Offered)
    BY <2>1, <2>2 DEF Split, ToSet
  <2> QED
    BY <2>2, <2>3 DEF Split
<1>2. RoutingInv => SurvivesProviderOutage
  BY <1>1 DEF SurvivesProviderOutage
<1> QED
  BY <1>2, RoutingInvariant, PTL

\* One provider at 75% is enough for orange or red.
LEMMA HardPressed ==
  ASSUME NEW pressure \in Pressures, NEW p \in DOMAIN pressure, pressure[p] >= 75
  PROVE  ZoneFor(BudgetRatio(pressure)) \in {"orange", "red"}
<1>1. /\ IsFiniteSet(DOMAIN pressure) /\ Range(pressure) \subseteq Nat
      /\ pressure # Unreachable
  BY RoutingAssumption
<1>2. Range(pressure) = {pressure[s] : s \in DOMAIN pressure}
  BY DEF Range
<1>3. IsFiniteSet(Range(pressure)) /\ pressure[p] \in Range(pressure)
  <2>1. IsFiniteSet({pressure[s] : s \in DOMAIN pressure})
    <3> DEFINE f == [s \in DOMAIN pressure |-> pressure[s]]
               R == {pressure[s] : s \in DOMAIN pressure}
    <3>1. f \in Surjection(DOMAIN pressure, R)
      BY DEF Surjection
    <3> HIDE DEF f, R
    <3>2. IsFiniteSet(R)
      BY <1>1, <3>1, FS_Surjection
    <3> QED
      BY <3>2 DEF R
  <2> QED
    BY <1>2, <2>1
<1>4. Max(Range(pressure)) \in Nat /\ Max(Range(pressure)) >= 75
  <2> DEFINE R == Range(pressure)
  <2>1. R \in SUBSET Nat /\ IsFiniteSet(R) /\ pressure[p] \in R
    BY <1>1, <1>3
  <2> HIDE DEF R
  <2>2. Max(R) \in R /\ \A y \in R : y <= Max(R)
    BY <2>1, MaxOfNaturals
  <2>3. Max(R) \in Nat /\ pressure[p] <= Max(R) /\ pressure[p] \in Nat
    BY <2>1, <2>2
  <2>4. Max(R) >= 75
    BY <2>3
  <2> QED
    BY <2>3, <2>4 DEF R
<1>5. BudgetRatio(pressure) = Max(Range(pressure))
  BY <1>1 DEF BudgetRatio
<1> QED
  BY <1>4, <1>5 DEF ZoneFor

\* With some provider at 75% or more no task gets a costlier model than at the
\* call before, from any budget to any other.
THEOREM PressurePays == RoutingSpec => PressureNeverCostsMore
<1> DEFINE Pays == (/\ asked'.pressure # Unreachable
                    /\ \E p \in DOMAIN asked'.pressure : asked'.pressure[p] >= 75)
                      => ~Cheaper(decision.primary, decision'.primary)
<1>1. ASSUME RoutingInv, RoutingInv', Call,
             asked'.pressure # Unreachable,
             NEW p \in DOMAIN asked'.pressure, asked'.pressure[p] >= 75
      PROVE  ~Cheaper(decision.primary, decision'.primary)
  <2> DEFINE t == decision.type
             l == decision.level
             chain == Chains[t][l]
             floor == TASK_POLICY[t].floor
             constrained == FloorConstrained(chain, floor)
  <2>1. asked'.type = asked.type /\ asked'.level = asked.level /\ asked'.pressure \in Pressures
    BY <1>1 DEF Call, RoutingInv, Asks
  <2>2. /\ t = NormalizeType(asked.type) /\ t \in TaskTypes
        /\ l = NearestLevel(t, NormalizeLevel(asked.level)) /\ l \in DOMAIN Chains[t]
        /\ decision.zone \in Zones
        /\ decision.primary = IF decision.zone = "green" THEN chain[1]
                              ELSE Choice(t, chain, decision.zone)
    BY <1>1, DecisionFacts
  <2>3. /\ decision'.type = t /\ decision'.level = l
        /\ decision'.zone = ZoneFor(BudgetRatio(asked'.pressure))
        /\ decision'.primary = IF decision'.zone = "green" THEN chain[1]
                               ELSE Choice(t, chain, decision'.zone)
    <3>1. RoutingInv' => LET c == Chains[decision'.type][decision'.level]
          IN /\ decision'.type = NormalizeType(asked'.type)
             /\ decision'.level = NearestLevel(decision'.type, NormalizeLevel(asked'.level))
             /\ decision'.zone = ZoneFor(BudgetRatio(asked'.pressure))
             /\ decision'.primary = IF decision'.zone = "green" THEN c[1]
                                    ELSE Choice(decision'.type, c, decision'.zone)
      <4> DEFINE ask == [type |-> asked'.type, level |-> asked'.level,
                         ratio |-> BudgetRatio(asked'.pressure)]
      <4>1. RoutingInv' => decision' = Route(ask)
        BY DEF RoutingInv, Decided, BudgetRatio
      <4>2. /\ ask.type = asked'.type /\ ask.level = asked'.level
            /\ ask.ratio = BudgetRatio(asked'.pressure)
        OBVIOUS
      <4> HIDE DEF ask
      <4> QED
        BY <4>1, <4>2, RouteFacts
    <3> QED
      BY <1>1, <2>1, <2>2, <3>1
  <2>4. decision'.zone \in {"orange", "red"}
    BY <1>1, <2>1, <2>3, HardPressed
  <2> DEFINE after == decision'.zone
             before == decision.zone
             choice == Choice(t, chain, after)
  <2>5. decision'.primary = choice
    BY <2>3, <2>4
  <2>6. /\ choice \in ToSet(constrained)
        /\ t \in CRITICAL_TASKS => choice = floor
        /\ t \notin CRITICAL_TASKS => \A m \in ToSet(constrained) : ~Cheaper(m, choice)
    BY <2>2, <2>4, ChoiceFacts
  <2>7. /\ ToSet(constrained) = ToSet(chain) \cup {floor}
        /\ chain[1] \in ToSet(chain)
        /\ floor \in Models /\ (t \in CRITICAL_TASKS => ~Cheaper(chain[1], floor))
    <3>1. Distinct(chain)
      BY <2>2, ChainsAre
    <3>2. 1 \in DOMAIN chain
      BY <3>1, LenProperties, EmptySeq DEF Distinct
    <3> QED
      BY <2>2, <3>2, ConstrainedFacts, ChainsKeepFloor DEF ToSet
  <2>8. before # "green" =>
          /\ Choice(t, chain, before) \in ToSet(constrained)
          /\ t \in CRITICAL_TASKS => Choice(t, chain, before) \in {chain[1], floor}
    <3>1. before # "green" => before \in {"yellow", "orange", "red"}
      BY <2>2 DEF Zones
    <3> QED
      BY <2>2, <3>1, ChoiceFacts
  <2>9. ~Cheaper(floor, floor)
    BY <2>7, ModelFacts DEF Cheaper
  <2> HIDE DEF t, l, chain, floor, constrained, choice, before, after
  <2> QED
    BY <2>2, <2>5, <2>6, <2>7, <2>8, <2>9 DEF before
<1>2. RoutingInv /\ RoutingInv' /\ [Call]_observed => [Pays]_observed
  BY <1>1
<1>3. RoutingSpec => [][Pays]_observed
  BY <1>2, RoutingInvariant, PTL DEF RoutingSpec
<1> QED
  BY <1>3 DEF PressureNeverCostsMore

----------------------------------------------------------------------------
(* Dispatches: the inductive invariant *)

Callers == Requests \cup CommandLine
RunIds == Requests \X Positions

SeenLevels == {2} \cup {v.level : v \in Verdicts}
Queries    == [type : SeenTypes, level : SeenLevels, ratio : Ratios \cup {0}]
Decisions  == {Route(ask) : ask \in Queries}
Tickets == Ids \cup {NoTicket}
Entries == [type : SeenTypes, executor : Executors, model : Models, success : BOOLEAN,
            ticket : Tickets]
Chosen  == [type : SeenTypes, decision : Decisions, executor : Executors]

\* Types, as far as the other parts need them.
Shape ==
  /\ pc \in [Requests -> Stages]
  /\ subtasks \in [Requests -> Seq(Hints \cup {NoHint})]
  /\ ratio \in [Requests -> Ratios \cup {0}]
  /\ DOMAIN current = Requests /\ DOMAIN answer = Requests
  /\ report \in [Requests -> Seq(Entries)]
  /\ tickets \in [Requests -> [Positions -> Tickets]]
  /\ executed \in [Requests -> SUBSET Positions]

\* What a call of run_codex has to do with its process.
CodexFits ==
  /\ DOMAIN run = RunIds /\ DOMAIN process = RunIds
  /\ \A x \in RunIds :
       /\ process[x] \in C!Processes
       /\ run[x] \in {"new", "prepared"} => process[x] = C!NoProcess
       /\ run[x] = "success" => process[x] \in {C!Exited(TRUE, spoke) : spoke \in BOOLEAN}

\* A call of the queue that is under way knows its operation and its task.
Underway(c) ==
  /\ DOMAIN call[c] = {"pc", "op", "id", "queue"}
  /\ call[c].op = "push" => call[c].id \in Ids
QueueFits ==
  /\ DOMAIN call = Callers
  /\ \A c \in Callers : call[c] = Q!Idle \/ Underway(c)
  /\ pushed \in Seq(Ids)

\* How far a request is, and what it knows of the subtask in hand.
Progress(r) ==
  /\ Len(subtasks[r]) <= MaxSubtasks /\ Len(report[r]) <= MaxSubtasks
  /\ pc[r] \in {"classify", "plan", "dispatch", "queueing"} => Number(r) <= Len(subtasks[r])
  /\ pc[r] = "new" => report[r] = <<>>
  /\ pc[r] \in {"plan", "dispatch", "queueing"} => current[r] \in Chosen
  /\ pc[r] \in {"dispatch", "queueing"} =>
       PlaceOf(current[r].executor) \in AllowedPlaces(current[r].type)
  /\ pc[r] = "queueing" =>
       /\ current[r].executor = "cursor_queue"
       /\ Underway(r) /\ call[r].op = "push" /\ call[r].id = tickets[r][Number(r)]

AllPlaces == {"queue", "codex", "providers"}

\* Later subtasks have left no trace, and the one in hand only where it is now.
Untouched(r, i) == tickets[r][i] = NoTicket /\ i \notin executed[r] /\ run[<<r, i>>] = "new"
InHandTraces(r, i) ==
  /\ pc[r] \in {"new", "classify", "plan", "aggregate", "answered"} => Untouched(r, i)
  /\ pc[r] = "dispatch" =>
       /\ tickets[r][i] = NoTicket /\ i \notin executed[r]
       /\ current[r].executor # "codex" => run[<<r, i>>] = "new"
  /\ pc[r] = "queueing" => i \notin executed[r] /\ run[<<r, i>>] = "new"
  /\ pc[r] = "aborted" => \E place \in AllPlaces : Places(r, i) \subseteq {place}
Traces(r) == \A i \in Positions :
  /\ i > Number(r) => Untouched(r, i)
  /\ i = Number(r) => InHandTraces(r, i)

\* What is reported is so.
Reported(r, i) ==
  LET entry == report[r][i] IN
  /\ entry.ticket = tickets[r][i]
  /\ Places(r, i) \subseteq {PlaceOf(entry.executor)}
  /\ PlaceOf(entry.executor) \in AllowedPlaces(entry.type)
  /\ entry.success =>
       CASE entry.executor = "cursor_queue" -> entry.ticket \in ToSet(pushed)
         [] entry.executor = "codex" -> run[<<r, i>>] = "success"
         [] OTHER -> i \in executed[r]
Answered(r) == pc[r] = "answered" =>
  /\ answer[r].cursor_tasks = ToSet(tickets[r]) \ {NoTicket}
  /\ answer[r].executor = "none" => report[r] = <<>>
RequestInv(r) ==
  Progress(r) /\ Traces(r) /\ Answered(r) /\ \A i \in DOMAIN report[r] : Reported(r, i)

DispatcherInv ==
  /\ Shape /\ CodexFits /\ QueueFits
  /\ \A r \in Requests : RequestInv(r)

----------------------------------------------------------------------------
(* The functions a dispatch is made of *)

\* Whatever the planner says, the executor is one of the four, and sends the
\* subtask where its type may go.
LEMMA ResolvedStaysInBounds ==
  ASSUME NEW type, NEW planned \in Executors \cup {Unnamed}, NEW routed \in Executors
  PROVE  /\ ResolveExecutor(type, planned, routed) \in Executors
         /\ PlaceOf(ResolveExecutor(type, planned, routed)) \in AllowedPlaces(type)
<1>1. CASE type \in CURSOR_TYPES
  <2>1. type \notin BRAIN_ONLY_TYPES /\ type \notin CODEX_TYPES /\ type \notin RELAY_API_TYPES
    BY <1>1 DEF CODEX_TYPES, BRAIN_ONLY_TYPES, CURSOR_TYPES, RELAY_API_TYPES
  <2>2. ResolveExecutor(type, planned, routed) = "cursor_queue"
    BY <1>1, <2>1 DEF ResolveExecutor
  <2>3. AllowedPlaces(type) = {"queue"}
    BY <1>1, <2>1 DEF AllowedPlaces
  <2> QED
    BY <2>2, <2>3 DEF Executors, PlaceOf
<1>2. CASE type \in BRAIN_ONLY_TYPES
  <2>1. type \notin CURSOR_TYPES /\ type \notin CODEX_TYPES /\ type \notin RELAY_API_TYPES
    BY <1>2 DEF CODEX_TYPES, BRAIN_ONLY_TYPES, CURSOR_TYPES, RELAY_API_TYPES
  <2>2. ResolveExecutor(type, planned, routed) = "brain_only"
    BY <1>2, <2>1 DEF ResolveExecutor
  <2>3. AllowedPlaces(type) = {"providers"}
    BY <1>2, <2>1 DEF AllowedPlaces
  <2> QED
    BY <2>2, <2>3 DEF Executors, PlaceOf
<1>3. CASE type \in CODEX_TYPES
  <2>1. type \notin CURSOR_TYPES /\ type \notin BRAIN_ONLY_TYPES /\ type \notin RELAY_API_TYPES
    BY <1>3 DEF CODEX_TYPES, BRAIN_ONLY_TYPES, CURSOR_TYPES, RELAY_API_TYPES
  <2>2. ResolveExecutor(type, planned, routed) \in {"codex", "cursor_queue"}
    BY <1>3, <2>1 DEF ResolveExecutor, DefaultExecutor, Executors, Unnamed
  <2> QED
    BY <1>3, <2>1, <2>2 DEF Executors, PlaceOf, AllowedPlaces
<1>4. CASE type \notin CURSOR_TYPES \cup BRAIN_ONLY_TYPES \cup CODEX_TYPES
  <2>1. ResolveExecutor(type, planned, routed) \in Executors
    BY <1>4 DEF ResolveExecutor, DefaultExecutor, Executors, Unnamed
  <2>2. AllowedPlaces(type) = {"queue", "codex", "providers"}
    BY <1>4 DEF AllowedPlaces
  <2> QED
    BY <2>1, <2>2 DEF PlaceOf
<1> QED
  BY <1>1, <1>2, <1>3, <1>4

\* Every type is routed to one of the four executors.
LEMMA RoutedExecutor == \A ask : Route(ask).executor \in Executors
<1>1. \A t \in TaskTypes : TASK_POLICY[t].executor \in Executors
  BY DEF TASK_POLICY, TaskTypes, Policy, Executors
<1>2. \A t : NormalizeType(t) \in TaskTypes
  BY DEF NormalizeType, TaskTypes
<1>3. ASSUME NEW ask PROVE Route(ask).executor = TASK_POLICY[NormalizeType(ask.type)].executor
  BY DEF Route, Decision
<1> QED
  BY <1>1, <1>2, <1>3

\* A decomposition is a list of hints, no longer than the reply says.
LEMMA DecompositionsAreLists ==
  ASSUME NEW split \in Decompositions
  PROVE  split \in Seq(Hints \cup {NoHint}) /\ Len(split) <= MaxSubtasks
<1>1. PICK marks \in Prompts, reply \in Replies \cup {NoReply} : split = Decomposed(marks, reply)
  BY DEF Decompositions
<1>2. split = Single \/ \E n \in 0..MaxSubtasks : \E hints :
        split = [i \in DOMAIN hints |-> Aliased(hints[i])] /\ DOMAIN hints = 1..n
  <2>1. CASE ~(ShouldConsiderSplit(marks) /\ reply # NoReply)
    BY <1>1, <2>1 DEF Decomposed
  <2>2. CASE ShouldConsiderSplit(marks) /\ reply # NoReply
    <3>1. split = Read(reply) /\ reply \in Replies
      BY <1>1, <2>2 DEF Decomposed
    <3>2. Len(reply.subtasks) \in 0..MaxSubtasks
          /\ DOMAIN reply.subtasks = 1..Len(reply.subtasks)
      BY <3>1, DispatcherAssumption, LenProperties
    <3>3. DOMAIN <<>> = 1..0 /\ 0 \in 0..MaxSubtasks
      BY DispatcherAssumption
    <3>4. CASE reply.form = "whole"
      <4>1. split = Single \/ split = [i \in DOMAIN reply.subtasks |-> Aliased(reply.subtasks[i])]
        BY <3>1, <3>4 DEF Read, FromData
      <4> QED
        BY <3>2, <4>1
    <3>5. CASE reply.form # "whole"
      <4>1. split = Single \/ split = FromData(reply.split, <<>>)
        BY <3>1, <3>5 DEF Read
      <4>2. PICK hints : hints = <<>>
        OBVIOUS
      <4>3. split = Single \/ split = [i \in DOMAIN hints |-> Aliased(hints[i])]
        BY <4>1, <4>2 DEF FromData
      <4> QED
        BY <3>3, <4>2, <4>3
    <3> QED
      BY <3>4, <3>5
  <2> QED
    BY <2>1, <2>2
<1>3. \E n \in 0..MaxSubtasks : DOMAIN split = 1..n /\ split = [i \in 1..n |-> split[i]]
  <2>1. CASE split = Single
    <3>1. split = [i \in 1..1 |-> split[i]] /\ 1 \in 0..MaxSubtasks
      BY <2>1, DispatcherAssumption DEF Single
    <3> QED
      BY <3>1
  <2>2. ASSUME NEW n \in 0..MaxSubtasks, NEW hints, DOMAIN hints = 1..n,
               split = [i \in DOMAIN hints |-> Aliased(hints[i])]
        PROVE  \E m \in 0..MaxSubtasks : DOMAIN split = 1..m /\ split = [i \in 1..m |-> split[i]]
    <3>1. DOMAIN split = 1..n /\ split = [i \in 1..n |-> split[i]]
      BY <2>2
    <3> QED
      BY <3>1
  <2> QED
    BY <1>2, <2>1, <2>2
<1>4. PICK n \in 0..MaxSubtasks : DOMAIN split = 1..n /\ split = [i \in 1..n |-> split[i]]
  BY <1>3
<1>5. \A i \in 1..n : split[i] \in Hints \cup {NoHint}
  <2>1. \A i \in 1..n : split[i] \in ToSet(split)
    BY <1>4 DEF ToSet
  <2> DEFINE all == UNION {ToSet(list) : list \in Decompositions}
  <2>2. \A x \in ToSet(split) : x \in all
    OBVIOUS
  <2>3. Hints = all \ {NoHint}
    BY DEF Hints
  <2> HIDE DEF all
  <2> QED
    BY <2>1, <2>2, <2>3
<1>6. split \in [1..n -> Hints \cup {NoHint}] /\ n \in Nat
  BY <1>4, <1>5, DispatcherAssumption
<1> QED
  <2>1. split \in Seq(Hints \cup {NoHint})
    BY <1>6, SeqDef
  <2>2. Len(split) = n
    BY <1>4, <1>6, <2>1, LenProperties
  <2> QED
    BY <1>6, <2>1, <2>2, DispatcherAssumption

\* A ticket no caller of the queue was given stands for none.
LEMMA PlacesOf ==
  ASSUME NEW r, NEW i
  PROVE  /\ Places(r, i) \subseteq AllPlaces
         /\ "queue" \in Places(r, i) <=> tickets[r][i] # NoTicket
         /\ "providers" \in Places(r, i) <=> i \in executed[r]
         /\ "codex" \in Places(r, i) <=> process[<<r, i>>] # C!NoProcess
  BY DEF Places, AllPlaces

\* What the stages say of the place the subtask in hand is at.
LEMMA PlaceInHand ==
  ASSUME DispatcherInv, NEW r \in Requests, NEW i \in Positions, i = Number(r)
  PROVE  /\ pc[r] \in {"new", "classify", "plan", "aggregate", "answered"} => Places(r, i) = {}
         /\ pc[r] \in {"dispatch", "queueing"} =>
              Places(r, i) \subseteq {PlaceOf(current[r].executor)}
<1>1. InHandTraces(r, i) /\ Progress(r)
  BY DEF DispatcherInv, RequestInv, Traces
<1>2. run[<<r, i>>] = "new" => process[<<r, i>>] = C!NoProcess
  BY DEF DispatcherInv, CodexFits, RunIds
<1>3. CASE pc[r] \in {"new", "classify", "plan", "aggregate", "answered"}
  BY <1>1, <1>2, <1>3, PlacesOf DEF InHandTraces, Untouched, AllPlaces
<1>4. CASE pc[r] = "dispatch"
  <2>1. CASE current[r].executor = "codex"
    BY <1>1, <1>4, <2>1, PlacesOf DEF InHandTraces, AllPlaces, PlaceOf
  <2>2. CASE current[r].executor # "codex"
    BY <1>1, <1>2, <1>4, <2>2, PlacesOf DEF InHandTraces, AllPlaces
  <2> QED
    BY <1>4, <2>1, <2>2
<1>5. CASE pc[r] = "queueing"
  <2>1. PlaceOf(current[r].executor) = "queue"
    BY <1>1, <1>5 DEF Progress, PlaceOf
  <2> QED
    BY <1>1, <1>2, <1>5, <2>1, PlacesOf DEF InHandTraces, AllPlaces
<1> QED
  BY <1>3, <1>4, <1>5

----------------------------------------------------------------------------
(* What one step leaves alone *)

\* A request a step does not concern: its own state and its call of the queue
\* stay, and so do its processes, but for their running on to their end.
Keeps(s) ==
  /\ UNCHANGED <<pc[s], subtasks[s], current[s], report[s], tickets[s], executed[s],
                 answer[s], call[s]>>
  /\ \A i \in Positions :
       /\ run'[<<s, i>>] = run[<<s, i>>]
       /\ process'[<<s, i>>] = C!NoProcess <=> process[<<s, i>>] = C!NoProcess
  /\ ToSet(pushed) \subseteq ToSet(pushed')

LEMMA Unmoved ==
  ASSUME Shape, NEW s \in Requests, RequestInv(s), Keeps(s)
  PROVE  RequestInv(s)'
<1>1. /\ pc'[s] = pc[s] /\ subtasks'[s] = subtasks[s] /\ current'[s] = current[s]
      /\ report'[s] = report[s] /\ tickets'[s] = tickets[s] /\ executed'[s] = executed[s]
      /\ answer'[s] = answer[s] /\ call'[s] = call[s]
      /\ \A i \in Positions : run'[<<s, i>>] = run[<<s, i>>]
      /\ ToSet(pushed) \subseteq ToSet(pushed')
  BY DEF Keeps
<1>2. \A i \in Positions : Places(s, i)' = Places(s, i)
  BY <1>1 DEF Keeps, Places
<1>3. DOMAIN report[s] \subseteq Positions
  <2>1. report[s] \in Seq(Entries) /\ Len(report[s]) <= MaxSubtasks
    BY DEF Shape, RequestInv, Progress
  <2> QED
    BY <2>1, LenProperties, DispatcherAssumption DEF Positions
<1>4. Number(s)' = Number(s)
  BY <1>1 DEF Number
<1>5. Progress(s)'
  BY <1>1, <1>4 DEF RequestInv, Progress, Underway
<1>6. Traces(s)'
  BY <1>1, <1>2, <1>4 DEF RequestInv, Traces, InHandTraces, Untouched
<1>7. Answered(s)'
  BY <1>1 DEF RequestInv, Answered
<1>8. ASSUME NEW i \in DOMAIN report'[s] PROVE Reported(s, i)'
  <2>1. i \in DOMAIN report[s] /\ i \in Positions /\ Reported(s, i)
    BY <1>1, <1>3, <1>8 DEF RequestInv
  <2>2. Places(s, i)' = Places(s, i) /\ run'[<<s, i>>] = run[<<s, i>>]
    BY <1>1, <1>2, <2>1
  <2> QED
    BY <1>1, <2>1, <2>2 DEF Reported
<1> QED
  BY <1>5, <1>6, <1>7, <1>8 DEF RequestInv

\* A step of one request.
LEMMA StepOf ==
  ASSUME DispatcherInv, NEW r \in Requests, Shape', CodexFits', QueueFits',
         RequestInv(r)', \A s \in Requests \ {r} : Keeps(s)
  PROVE  DispatcherInv'
<1>1. ASSUME NEW s \in Requests PROVE RequestInv(s)'
  BY Unmoved DEF DispatcherInv
<1> QED
  BY <1>1 DEF DispatcherInv

LEMMA QuietQueue ==
  ASSUME QueueFits, UNCHANGED queue
  PROVE  QueueFits' /\ call' = call /\ pushed' = pushed /\ drawn' = drawn
  BY DEF QueueFits, Underway, queue

\* A step that touches the queue in the call of one request only.
QuietFor(r) ==
  /\ QueueFits' /\ UNCHANGED <<pushed, drawn>>
  /\ \A s \in Requests \ {r} : call'[s] = call[s]

LEMMA QuietCodex ==
  ASSUME CodexFits, UNCHANGED codex
  PROVE  CodexFits' /\ run' = run /\ process' = process
  BY DEF CodexFits, codex

\* A step of one caller of the queue leaves the calls of the others alone, takes
\* no id back and forgets no push.
LEMMA QueueStep ==
  ASSUME QueueFits, NEW c \in Callers,
         \/ Q!Push(c) \/ Q!Pop(c) \/ Q!MarkDone(c) \/ Q!NothingToDo(c) \/ Q!LoadFails(c)
         \/ Q!Truncate(c) \/ Q!Write(c) \/ Q!Crash(c)
  PROVE  /\ QueueFits' /\ drawn \subseteq drawn' /\ ToSet(pushed) \subseteq ToSet(pushed')
         /\ \A d \in Callers \ {c} : call'[d] = call[d]
<1>0. /\ DOMAIN call = Callers /\ pushed \in Seq(Ids)
      /\ \A d \in Callers : call[d] = Q!Idle \/ Underway(d)
  BY DEF QueueFits
<1>1. ASSUME NEW op, NEW id, NEW value, Q!Load(c, op, id, value), op = "push" => id \in Ids,
             drawn \subseteq drawn'
      PROVE  /\ QueueFits' /\ drawn \subseteq drawn' /\ ToSet(pushed) \subseteq ToSet(pushed')
             /\ \A d \in Callers \ {c} : call'[d] = call[d]
  <2>1. /\ call' = [call EXCEPT ![c] =
                     [pc |-> "loaded", op |-> op, id |-> id, queue |-> value]]
        /\ pushed' = pushed
    BY <1>1 DEF Q!Load
  <2>2. Underway(c)'
    BY <1>0, <1>1, <2>1 DEF Underway
  <2>3. \A d \in Callers \ {c} : call'[d] = call[d]
    BY <1>0, <2>1
  <2>4. \A d \in Callers \ {c} : call'[d] = Q!Idle \/ Underway(d)'
    BY <1>0, <2>3 DEF Underway
  <2> QED
    BY <1>0, <1>1, <2>1, <2>2, <2>3, <2>4 DEF QueueFits
<1>2. CASE Q!Push(c)
  <2>1. PICK id \in Ids : Q!Load(c, "push", id, Q!AfterPush(Q!Loaded, id)) /\ drawn' = drawn \cup {id}
    BY <1>2 DEF Q!Push
  <2> QED
    BY <1>1, <2>1
<1>3. CASE Q!Pop(c)
  <2>1. PICK id, value : Q!Load(c, "pop", id, value) /\ drawn' = drawn
    BY <1>3 DEF Q!Pop
  <2> QED
    BY <1>1, <2>1
<1>4. CASE Q!MarkDone(c)
  <2>1. PICK id, value : Q!Load(c, "done", id, value) /\ drawn' = drawn
    BY <1>4 DEF Q!MarkDone
  <2> QED
    BY <1>1, <2>1
<1>5. CASE Q!NothingToDo(c) \/ Q!LoadFails(c)
  <2>1. UNCHANGED queue
    BY <1>5 DEF Q!NothingToDo, Q!LoadFails, Q!vars, queue
  <2> QED
    BY <2>1, QuietQueue
<1>6. CASE Q!Truncate(c)
  <2>1. call[c].pc = "loaded" /\ call' = [call EXCEPT ![c].pc = "writing"]
        /\ UNCHANGED <<drawn, pushed>>
    BY <1>6 DEF Q!Truncate
  <2>2. Underway(c)
    BY <1>0, <2>1 DEF Q!Idle
  <2>3. Underway(c)'
    BY <1>0, <2>1, <2>2 DEF Underway
  <2>4. \A d \in Callers \ {c} : call'[d] = call[d]
    BY <1>0, <2>1
  <2>5. \A d \in Callers \ {c} : call'[d] = Q!Idle \/ Underway(d)'
    BY <1>0, <2>4 DEF Underway
  <2> QED
    BY <1>0, <2>1, <2>3, <2>4, <2>5 DEF QueueFits
<1>7. CASE Q!Write(c) \/ Q!Crash(c)
  <2>1. call' = [call EXCEPT ![c] = Q!Idle] /\ drawn' = drawn
    BY <1>7 DEF Q!Write, Q!Crash
  <2>2. \A d \in Callers \ {c} : call'[d] = call[d]
    BY <1>0, <2>1
  <2>3. \A d \in Callers : call'[d] = Q!Idle \/ Underway(d)'
    BY <1>0, <2>1, <2>2 DEF Underway
  <2>4. pushed' \in Seq(Ids) /\ ToSet(pushed) \subseteq ToSet(pushed')
    <3>1. CASE pushed' = pushed
      BY <1>0, <3>1
    <3>2. CASE pushed' # pushed
      <4>1. Q!Write(c)
        BY <1>7, <3>2 DEF Q!Crash
      <4>2. call[c].pc = "writing" /\ call[c].op = "push"
            /\ pushed' = Append(pushed, call[c].id)
        BY <3>2, <4>1 DEF Q!Write
      <4>3. call[c].id \in Ids
        BY <1>0, <4>2 DEF Q!Idle, Underway
      <4> QED
        BY <1>0, <4>2, <4>3, AppendProperties, ToSetOfAppend
    <3> QED
      BY <3>1, <3>2
  <2> QED
    BY <1>0, <2>1, <2>2, <2>3, <2>4 DEF QueueFits
<1> QED
  BY <1>2, <1>3, <1>4, <1>5, <1>6, <1>7

\* A step of one call of run_codex, or of its process.
LEMMA CodexStepFits ==
  ASSUME CodexFits, NEW x \in RunIds, C!Caller(x) \/ C!Program(x)
  PROVE  /\ CodexFits'
         /\ \A y \in RunIds \ {x} : run'[y] = run[y] /\ process'[y] = process[y]
         /\ C!Program(x) =>
              /\ run' = run
              /\ process'[x] = C!NoProcess <=> process[x] = C!NoProcess
<1> DEFINE Fits(y) ==
      /\ process[y] \in C!Processes
      /\ run[y] \in {"new", "prepared"} => process[y] = C!NoProcess
      /\ run[y] = "success" => process[y] \in {C!Exited(TRUE, spoke) : spoke \in BOOLEAN}
<1>0. DOMAIN run = RunIds /\ DOMAIN process = RunIds /\ \A y \in RunIds : Fits(y)
  BY DEF CodexFits
<1>1. /\ C!NoProcess.life = "none" /\ C!Running.life = "running"
      /\ \A ok, spoke \in BOOLEAN : C!Exited(ok, spoke).life = "exited"
                                    /\ C!Exited(ok, spoke).ok = ok
  BY DEF C!NoProcess, C!Running, C!Exited
<1>2. /\ C!NoProcess \in C!Processes /\ C!Running \in C!Processes
      /\ \A ok, spoke \in BOOLEAN : C!Exited(ok, spoke) \in C!Processes
  BY DEF C!Processes
<1>3. \A y \in RunIds \ {x} : run'[y] = run[y] /\ process'[y] = process[y]
  BY <1>0 DEF C!Caller, C!Program, C!Refuse, C!MakeMessageFile, C!Spawn, C!Collect, C!TimeOut,
              C!WriteMessage, C!Exit, C!Ends
<1>4. DOMAIN run' = RunIds /\ DOMAIN process' = RunIds
  BY <1>0 DEF C!Caller, C!Program, C!Refuse, C!MakeMessageFile, C!Spawn, C!Collect, C!TimeOut,
              C!WriteMessage, C!Exit, C!Ends
<1>5. Fits(x)'
  <2>1. CASE C!Refuse(x) \/ C!MakeMessageFile(x) \/ C!TimeOut(x)
    <3>1. process' = process /\ run'[x] \in {"refused", "raised", "prepared", "timeout"}
          /\ (run'[x] = "prepared" => run[x] = "new")
      BY <1>0, <2>1 DEF C!Refuse, C!MakeMessageFile, C!TimeOut, C!Ends
    <3> QED
      BY <1>0, <3>1
  <2>2. CASE C!Spawn(x)
    <3>1. \/ process'[x] = C!Running /\ run'[x] = "waiting"
          \/ process' = process /\ run'[x] = "broken"
      BY <1>0, <2>2 DEF C!Spawn, C!Ends
    <3> QED
      BY <1>0, <1>2, <3>1
  <2>3. CASE C!Collect(x)
    <3>1. process' = process /\ process[x].life = "exited"
          /\ run'[x] \in {"success", "failed", "broken"}
          /\ (run'[x] = "success" => process[x].ok)
      BY <1>0, <2>3 DEF C!Collect, C!Ends, C!Succeeded
    <3>2. PICK ok \in BOOLEAN, spoke \in BOOLEAN : process[x] = C!Exited(ok, spoke)
      <4>1. process[x] \in C!Processes
        BY <1>0
      <4> QED
        BY <1>1, <3>1, <4>1 DEF C!Processes
    <3>3. run'[x] = "success" => ok = TRUE
      BY <1>1, <3>1, <3>2
    <3> QED
      BY <1>0, <3>1, <3>2, <3>3
  <2>4. CASE C!WriteMessage(x)
    BY <1>0, <2>4 DEF C!WriteMessage
  <2>5. CASE C!Exit(x)
    <3>1. process[x] = C!Running /\ run' = run
          /\ \E ok, spoke \in BOOLEAN : process'[x] = C!Exited(ok, spoke)
      BY <1>0, <2>5 DEF C!Exit
    <3>2. run[x] \notin {"new", "prepared", "success"}
      BY <1>0, <1>1, <3>1
    <3> QED
      BY <1>2, <3>1, <3>2
  <2> QED
    BY <2>1, <2>2, <2>3, <2>4, <2>5 DEF C!Caller, C!Program
<1>6. \A y \in RunIds \ {x} : Fits(y)'
  BY <1>0, <1>3
<1>7. CodexFits'
  BY <1>4, <1>5, <1>6 DEF CodexFits
<1>8. C!Program(x) => run' = run /\ (process'[x] = C!NoProcess <=> process[x] = C!NoProcess)
  BY <1>0, <1>1 DEF C!Program, C!WriteMessage, C!Exit
<1> QED
  BY <1>3, <1>7, <1>8

----------------------------------------------------------------------------
(* From one stage to the next *)

\* A subtask in hand is one of those there are.
LEMMA InHandIsPosition ==
  ASSUME DispatcherInv, NEW r \in Requests,
         pc[r] \in {"classify", "plan", "dispatch", "queueing"}
  PROVE  /\ Number(r) \in Positions /\ Number(r) \in 1..Len(subtasks[r])
         /\ InHandTraces(r, Number(r)) /\ <<r, Number(r)>> \in RunIds
<1>1. Number(r) <= Len(subtasks[r]) /\ Len(subtasks[r]) <= MaxSubtasks
  BY DEF DispatcherInv, RequestInv, Progress
<1>2. report[r] \in Seq(Entries) /\ subtasks[r] \in Seq(Hints \cup {NoHint})
  BY DEF DispatcherInv, Shape
<1>3. Len(report[r]) \in Nat /\ Len(subtasks[r]) \in Nat
  BY <1>2, LenProperties
<1>4. Number(r) \in Positions /\ Number(r) \in 1..Len(subtasks[r])
  BY <1>1, <1>3, DispatcherAssumption DEF Number, Positions
<1>5. InHandTraces(r, Number(r))
  BY <1>4 DEF DispatcherInv, RequestInv, Traces
<1> QED
  BY <1>4, <1>5 DEF RunIds

\* A stage that leaves no trace, of the request or of the subtask in hand.
LEMMA StageInv ==
  ASSUME DispatcherInv, NEW r \in Requests, NEW stage \in Stages, Goto(r, stage),
         UNCHANGED <<report, tickets, executed, codex>>, QuietFor(r), Shape', Progress(r)',
         \A i \in Positions : i = Number(r) => InHandTraces(r, i)', Answered(r)',
         \A s \in Requests \ {r} : UNCHANGED <<subtasks[s], current[s], answer[s]>>
  PROVE  DispatcherInv'
<1>1. Shape /\ CodexFits /\ QueueFits /\ RequestInv(r)
  BY DEF DispatcherInv
<1>2. /\ CodexFits' /\ run' = run /\ process' = process
      /\ QueueFits' /\ pushed' = pushed /\ drawn' = drawn
      /\ \A s \in Requests \ {r} : call'[s] = call[s]
  BY <1>1, QuietCodex DEF QuietFor
<1>3. pc'[r] = stage /\ \A s \in Requests \ {r} : pc'[s] = pc[s]
  BY <1>1 DEF Goto, Shape
<1>4. \A s \in Requests \ {r} : Keeps(s)
  BY <1>2, <1>3 DEF Keeps
<1>5. Number(r)' = Number(r) /\ report'[r] = report[r]
  BY DEF Number
<1>6. Traces(r)'
  BY <1>1, <1>2, <1>5 DEF RequestInv, Traces, Untouched
<1>7. \A i \in DOMAIN report'[r] : Reported(r, i)'
  BY <1>1, <1>2, <1>5 DEF RequestInv, Reported, Places
<1>8. RequestInv(r)'
  BY <1>6, <1>7 DEF RequestInv
<1> QED
  BY <1>2, <1>4, <1>8, StepOf

\* An exception: the traces of the subtask in hand are all in one place.
LEMMA AbortInv ==
  ASSUME DispatcherInv, NEW r \in Requests, Abort(r),
         pc[r] \in {"classify", "plan", "dispatch", "queueing"}, QuietFor(r),
         UNCHANGED <<subtasks, ratio, current, report, tickets, answer, executed, codex>>
  PROVE  DispatcherInv'
<1>1. Shape /\ CodexFits /\ QueueFits /\ RequestInv(r)
  BY DEF DispatcherInv
<1>2. Goto(r, "aborted") /\ "aborted" \in Stages /\ pc' = [pc EXCEPT ![r] = "aborted"]
  BY DEF Abort, Goto, Stages
<1>3. pc'[r] = "aborted"
  BY <1>1, <1>2 DEF Shape
<1>4. Shape'
  BY <1>1, <1>2 DEF Shape
<1>5. Progress(r)' /\ Answered(r)'
  BY <1>1, <1>3 DEF RequestInv, Progress, Answered
<1>6. ASSUME NEW i \in Positions, i = Number(r) PROVE InHandTraces(r, i)'
  <2>1. \E place \in AllPlaces : Places(r, i) \subseteq {place}
    <3>1. Places(r, i) = {} \/ Places(r, i) \subseteq {PlaceOf(current[r].executor)}
      BY <1>6, PlaceInHand
    <3>2. PlaceOf(current[r].executor) \in AllPlaces
      BY DEF PlaceOf, AllPlaces
    <3> QED
      BY <3>1, <3>2
  <2>2. Places(r, i)' = Places(r, i)
    BY <1>1, QuietCodex DEF Places
  <2> QED
    BY <1>3, <2>1, <2>2 DEF InHandTraces
<1> QED
  BY <1>2, <1>4, <1>5, <1>6, StageInv

LEMMA DecomposeInv ==
  ASSUME DispatcherInv, NEW r \in Requests, Decompose(r) PROVE DispatcherInv'
<1>1. Shape /\ CodexFits /\ QueueFits /\ RequestInv(r)
  BY DEF DispatcherInv
<1>2. PICK split \in Decompositions, spent \in Ratios :
        /\ subtasks' = [subtasks EXCEPT ![r] = split]
        /\ ratio' = [ratio EXCEPT ![r] = spent]
        /\ Goto(r, IF split = <<>> THEN "aggregate" ELSE "classify")
  BY DEF Decompose
<1>3. PICK stage \in Stages : stage = IF split = <<>> THEN "aggregate" ELSE "classify"
  BY DEF Stages
<1>4. pc[r] = "new" /\ UNCHANGED <<current, report, tickets, answer, executed, queue, codex>>
  BY DEF Decompose, At
<1>5. split \in Seq(Hints \cup {NoHint}) /\ Len(split) <= MaxSubtasks
  BY DecompositionsAreLists
<1>6. subtasks'[r] = split /\ \A s \in Requests \ {r} : subtasks'[s] = subtasks[s]
  BY <1>1, <1>2 DEF Shape
<1>7. pc' = [pc EXCEPT ![r] = stage] /\ pc'[r] = stage
  BY <1>1, <1>2, <1>3 DEF Goto, Shape
<1>8. Shape'
  BY <1>1, <1>2, <1>4, <1>5, <1>7 DEF Shape
<1>9. report[r] = <<>> /\ Len(report[r]) <= MaxSubtasks /\ Number(r) = 1
  BY <1>1, <1>4 DEF RequestInv, Progress, Number
<1>10. stage = "classify" => 1 <= Len(split)
  BY <1>3, <1>5, EmptySeq, LenProperties
<1>11. Progress(r)'
  BY <1>3, <1>4, <1>5, <1>6, <1>7, <1>9, <1>10 DEF Progress, Number
<1>12. ASSUME NEW i \in Positions, i = Number(r) PROVE InHandTraces(r, i)'
  <2>1. Untouched(r, i)
    BY <1>1, <1>4, <1>12 DEF RequestInv, Traces, InHandTraces
  <2>2. Untouched(r, i)'
    BY <1>1, <1>4, <2>1, QuietCodex DEF Untouched
  <2> QED
    BY <1>3, <1>7, <2>2 DEF InHandTraces
<1>13. Answered(r)'
  BY <1>3, <1>7 DEF Answered
<1>14. QuietFor(r)
  BY <1>1, <1>4, QuietQueue DEF QuietFor
<1> QED
  BY <1>2, <1>3, <1>4, <1>6, <1>8, <1>11, <1>12, <1>13, <1>14, StageInv

LEMMA ClassifyInv ==
  ASSUME DispatcherInv, NEW r \in Requests, Classify(r) PROVE DispatcherInv'
<1>1. Shape /\ CodexFits /\ QueueFits /\ RequestInv(r) /\ pc[r] = "classify"
  BY DEF DispatcherInv, Classify, At
<1>2. UNCHANGED <<subtasks, ratio, report, tickets, answer, executed, queue, codex>>
      /\ Goto(r, "plan") /\ "plan" \in Stages
  BY DEF Classify, Stages
<1>3. PICK v \in IF subtasks[r][Number(r)] = NoHint THEN Verdicts
                 ELSE {Verdict(subtasks[r][Number(r)], 2)} :
        current' = [current EXCEPT ![r] =
          [type |-> v.type,
           decision |-> Route([type |-> v.type, level |-> v.level, ratio |-> ratio[r]]),
           executor |-> Route([type |-> v.type, level |-> v.level, ratio |-> ratio[r]]).executor]]
  BY DEF Classify
<1>4. v.type \in SeenTypes /\ v.level \in SeenLevels
  <2>1. CASE subtasks[r][Number(r)] = NoHint
    BY <1>3, <2>1 DEF SeenTypes, SeenLevels
  <2>2. CASE subtasks[r][Number(r)] # NoHint
    <3>1. subtasks[r][Number(r)] \in Hints \cup {NoHint}
      <4>1. Number(r) \in 1..Len(subtasks[r])
        BY <1>1, InHandIsPosition
      <4>2. subtasks[r] \in Seq(Hints \cup {NoHint})
        BY <1>1 DEF Shape
      <4> QED
        BY <4>1, <4>2, ElementOfSeq
    <3>2. v.type = subtasks[r][Number(r)] /\ v.level = 2
      BY <1>3, <2>2 DEF Verdict
    <3> QED
      BY <2>2, <3>1, <3>2 DEF SeenTypes, SeenLevels
  <2> QED
    BY <2>1, <2>2
<1>5. PICK routed : routed = Route([type |-> v.type, level |-> v.level, ratio |-> ratio[r]])
  OBVIOUS
<1>6. routed \in Decisions
  <2>1. ratio[r] \in Ratios \cup {0}
    BY <1>1 DEF Shape
  <2>2. [type |-> v.type, level |-> v.level, ratio |-> ratio[r]] \in Queries
    BY <1>4, <2>1 DEF Queries
  <2> QED
    BY <1>5, <2>2 DEF Decisions
<1>7. routed.executor \in Executors
  BY <1>5, RoutedExecutor
<1>8. current' = [current EXCEPT ![r] =
        [type |-> v.type, decision |-> routed, executor |-> routed.executor]]
  BY <1>3, <1>5
<1>9. current'[r] \in Chosen /\ \A s \in Requests \ {r} : current'[s] = current[s]
  BY <1>1, <1>4, <1>6, <1>7, <1>8 DEF Chosen, Shape
<1>10. pc' = [pc EXCEPT ![r] = "plan"] /\ pc'[r] = "plan"
  BY <1>1, <1>2 DEF Goto, Shape
<1>11. Shape'
  BY <1>1, <1>2, <1>8, <1>10 DEF Shape
<1>12. Progress(r)' /\ Answered(r)'
  BY <1>1, <1>2, <1>9, <1>10 DEF RequestInv, Progress, Answered, Number
<1>13. ASSUME NEW i \in Positions, i = Number(r) PROVE InHandTraces(r, i)'
  <2>1. Untouched(r, i)
    BY <1>1, <1>13 DEF RequestInv, Traces, InHandTraces
  <2>2. Untouched(r, i)'
    BY <1>1, <1>2, <2>1, QuietCodex DEF Untouched
  <2> QED
    BY <1>10, <2>2 DEF InHandTraces
<1>14. QuietFor(r)
  BY <1>1, <1>2, QuietQueue DEF QuietFor
<1> QED
  BY <1>2, <1>9, <1>11, <1>12, <1>13, <1>14, StageInv

LEMMA PlanInv ==
  ASSUME DispatcherInv, NEW r \in Requests, Plan(r) PROVE DispatcherInv'
<1>1. Shape /\ CodexFits /\ QueueFits /\ RequestInv(r) /\ pc[r] = "plan"
  BY DEF DispatcherInv, Plan, At
<1>2. UNCHANGED <<subtasks, ratio, report, tickets, answer, executed, queue, codex>>
      /\ Goto(r, "dispatch") /\ "dispatch" \in Stages
  BY DEF Plan, Stages
<1>3. PICK planned \in Executors \cup {Unnamed} :
        current' = [current EXCEPT ![r].executor =
          ResolveExecutor(current[r].type, planned, current[r].decision.executor)]
  BY DEF Plan
<1>4. current[r] \in Chosen
  BY <1>1 DEF RequestInv, Progress
<1>5. current[r].decision.executor \in Executors
  <2>1. current[r].decision \in Decisions
    BY <1>4 DEF Chosen
  <2>2. \A d \in Decisions : d.executor \in Executors
    BY RoutedExecutor DEF Decisions
  <2> QED
    BY <2>1, <2>2
<1>6. PICK executor : executor = ResolveExecutor(current[r].type, planned, current[r].decision.executor)
  OBVIOUS
<1>7. executor \in Executors /\ PlaceOf(executor) \in AllowedPlaces(current[r].type)
  BY <1>5, <1>6, ResolvedStaysInBounds
<1>8. current'[r] = [current[r] EXCEPT !.executor = executor]
      /\ \A s \in Requests \ {r} : current'[s] = current[s]
  BY <1>1, <1>3, <1>6 DEF Shape
<1>9. current'[r] \in Chosen /\ current'[r].executor = executor
      /\ current'[r].type = current[r].type
  BY <1>4, <1>7, <1>8 DEF Chosen
<1>10. pc' = [pc EXCEPT ![r] = "dispatch"] /\ pc'[r] = "dispatch"
  BY <1>1, <1>2 DEF Goto, Shape
<1>11. Shape'
  BY <1>1, <1>2, <1>3, <1>10 DEF Shape
<1>12. Progress(r)' /\ Answered(r)'
  BY <1>1, <1>2, <1>7, <1>9, <1>10 DEF RequestInv, Progress, Answered, Number
<1>13. ASSUME NEW i \in Positions, i = Number(r) PROVE InHandTraces(r, i)'
  <2>1. Untouched(r, i)
    BY <1>1, <1>13 DEF RequestInv, Traces, InHandTraces
  <2>2. Untouched(r, i)'
    BY <1>1, <1>2, <2>1, QuietCodex DEF Untouched
  <2> QED
    BY <1>10, <2>2 DEF InHandTraces, Untouched
<1>14. QuietFor(r)
  BY <1>1, <1>2, QuietQueue DEF QuietFor
<1> QED
  BY <1>2, <1>8, <1>11, <1>12, <1>13, <1>14, StageInv

\* A plan of the wrong type, and a queue that cannot be read.
LEMMA RaisesInv ==
  ASSUME DispatcherInv, NEW r \in Requests, PlanRaises(r) \/ QueueUnreadable(r)
  PROVE  DispatcherInv'
<1>1. CASE PlanRaises(r)
  <2>1. QuietFor(r)
    BY <1>1, QuietQueue DEF PlanRaises, DispatcherInv, QuietFor
  <2> QED
    BY <1>1, <2>1, AbortInv DEF PlanRaises, At
<1>2. CASE QueueUnreadable(r)
  <2>1. UNCHANGED queue
    BY <1>2 DEF QueueUnreadable, Q!LoadFails, Q!vars, queue
  <2>2. QuietFor(r)
    BY <2>1, QuietQueue DEF DispatcherInv, QuietFor
  <2> QED
    BY <1>2, <2>2, AbortInv DEF QueueUnreadable, For, At
<1> QED
  BY <1>1, <1>2

\* The subtask in hand becomes a line of the report.
LEMMA ReportInv ==
  ASSUME DispatcherInv, NEW r \in Requests, pc[r] \in {"dispatch", "queueing"},
         NEW model \in Models, NEW success \in BOOLEAN,
         Reports(r, model, success, tickets[r][Number(r)]),
         UNCHANGED <<subtasks, ratio, tickets, answer, run, process>>,
         CodexFits', QueueFits', ToSet(pushed) \subseteq ToSet(pushed'),
         \A s \in Requests \ {r} : call'[s] = call[s],
         \/ executed' = executed
         \/ /\ executed' = [executed EXCEPT ![r] = @ \cup {Number(r)}]
            /\ PlaceOf(current[r].executor) = "providers",
         success => CASE current[r].executor = "cursor_queue" ->
                           tickets[r][Number(r)] \in ToSet(pushed')
                      [] current[r].executor = "codex" -> run[<<r, Number(r)>>] = "success"
                      [] OTHER -> Number(r) \in executed'[r]
  PROVE  DispatcherInv'
<1> DEFINE n == Number(r)
<1>0. Shape /\ RequestInv(r)
  BY DEF DispatcherInv
<1>1. n \in Positions /\ n \in 1..Len(subtasks[r]) /\ InHandTraces(r, n)
  BY InHandIsPosition
<1>2. /\ current[r] \in Chosen
      /\ PlaceOf(current[r].executor) \in AllowedPlaces(current[r].type)
      /\ Len(subtasks[r]) <= MaxSubtasks /\ subtasks[r] \in Seq(Hints \cup {NoHint})
      /\ tickets[r][n] \in Tickets
      /\ report[r] \in Seq(Entries)
  BY <1>0, <1>1 DEF RequestInv, Progress, Shape
<1>3. PICK entry : entry = Entry(current[r].type, current[r].executor, model, success, tickets[r][n])
  OBVIOUS
<1>4. /\ entry \in Entries
      /\ entry.type = current[r].type /\ entry.executor = current[r].executor
      /\ entry.success = success /\ entry.ticket = tickets[r][n]
  BY <1>2, <1>3 DEF Entry, Entries, Chosen
<1>5. PICK stage \in {"classify", "aggregate"} :
        stage = IF n < Len(subtasks[r]) THEN "classify" ELSE "aggregate"
  OBVIOUS
<1>6. /\ report' = [report EXCEPT ![r] = Append(@, entry)]
      /\ current' = [current EXCEPT ![r] = NoSubtask]
      /\ pc' = [pc EXCEPT ![r] = stage]
  BY <1>3, <1>5 DEF Reports, Goto
<1>7. /\ report'[r] = Append(report[r], entry) /\ pc'[r] = stage
      /\ \A s \in Requests \ {r} : report'[s] = report[s] /\ current'[s] = current[s]
                                  /\ pc'[s] = pc[s] /\ executed'[s] = executed[s]
  BY <1>0, <1>6 DEF Shape
<1>8. /\ Append(report[r], entry) \in Seq(Entries)
      /\ Len(Append(report[r], entry)) = n /\ n \in Nat
      /\ Len(report[r]) \in Nat /\ n = Len(report[r]) + 1
      /\ DOMAIN report[r] = 1..Len(report[r])
      /\ DOMAIN Append(report[r], entry) = 1..n
      /\ \A i \in 1..Len(report[r]) : Append(report[r], entry)[i] = report[r][i]
      /\ Append(report[r], entry)[n] = entry
  BY <1>2, <1>4, AppendProperties, LenProperties DEF Number
<1>9. Number(r)' = n + 1
  BY <1>7, <1>8 DEF Number
<1>10. /\ executed' \in [Requests -> SUBSET Positions]
       /\ \A i \in Positions \ {n} : i \in executed'[r] <=> i \in executed[r]
       /\ n \in executed'[r] => n \in executed[r] \/ PlaceOf(current[r].executor) = "providers"
  <2>1. executed \in [Requests -> SUBSET Positions]
    BY <1>0 DEF Shape
  <2>2. CASE executed' = executed
    BY <2>1, <2>2
  <2>3. CASE executed' = [executed EXCEPT ![r] = @ \cup {n}]
             /\ PlaceOf(current[r].executor) = "providers"
    <3>1. executed'[r] = executed[r] \cup {n}
      BY <2>1, <2>3
    <3> HIDE DEF n
    <3> QED
      BY <1>1, <2>1, <2>3, <3>1
  <2> QED
    BY <2>2, <2>3
<1>11. Shape'
  <2>1. pc' \in [Requests -> Stages]
    BY <1>0, <1>6 DEF Shape, Stages
  <2>2. report' \in [Requests -> Seq(Entries)]
    BY <1>0, <1>6, <1>7, <1>8 DEF Shape
  <2> QED
    BY <1>0, <1>6, <1>10, <2>1, <2>2 DEF Shape
<1>12. Progress(r)'
  BY <1>0, <1>1, <1>2, <1>5, <1>7, <1>8, <1>9, DispatcherAssumption, LenProperties DEF Progress, RequestInv
<1>13. Traces(r)'
  <2>1. ASSUME NEW i \in Positions, i > n PROVE Untouched(r, i)'
    <3>1. Untouched(r, i) /\ i # n
      BY <1>0, <1>8, <2>1 DEF RequestInv, Traces, Positions
    <3> QED
      BY <1>10, <3>1 DEF Untouched
  <2>2. ASSUME NEW i \in Positions, i = n + 1 PROVE InHandTraces(r, i)'
    BY <1>5, <1>7, <1>8, <2>1, <2>2 DEF InHandTraces
  <2> QED
    BY <1>8, <1>9, <2>1, <2>2 DEF Traces, Positions
<1>14. Answered(r)'
  BY <1>5, <1>7 DEF Answered
<1>15. ASSUME NEW i \in DOMAIN report'[r] PROVE Reported(r, i)'
  <2>1. CASE i = n
    <3>1. Places(r, n) \subseteq {PlaceOf(current[r].executor)}
      BY <1>1, PlaceInHand
    <3>2. PICK k \in Positions : k = n
      BY <1>1
    <3>3. Places(r, k)' \subseteq Places(r, k) \cup {PlaceOf(current[r].executor)}
      <4>1. k \in executed'[r] => k \in executed[r] \/ PlaceOf(current[r].executor) = "providers"
        BY <1>10, <3>2
      <4>2. tickets'[r][k] = tickets[r][k] /\ process'[<<r, k>>] = process[<<r, k>>]
        OBVIOUS
      <4> QED
        BY <4>1, <4>2 DEF Places
    <3>4. Places(r, i)' \subseteq {PlaceOf(entry.executor)}
      BY <1>4, <2>1, <3>1, <3>2, <3>3
    <3>5. report'[r][i] = entry
      BY <1>7, <1>8, <2>1
    <3>6. entry.success =>
            CASE entry.executor = "cursor_queue" -> entry.ticket \in ToSet(pushed')
              [] entry.executor = "codex" -> run'[<<r, i>>] = "success"
              [] OTHER -> i \in executed'[r]
      BY <1>4, <2>1
    <3> QED
      BY <1>2, <1>4, <2>1, <3>4, <3>5, <3>6 DEF Reported
  <2>2. CASE i # n
    <3>1. i \in DOMAIN report[r] /\ i \in Positions /\ report'[r][i] = report[r][i]
      <4>1. i \in 1..n /\ i # n
        BY <1>7, <1>8, <1>15, <2>2
      <4>2. i \in 1..Len(report[r])
        BY <1>8, <4>1
      <4>3. i \in Positions
        <5>1. \A m \in 1..MaxSubtasks : \A j \in 1..m : j \in 1..MaxSubtasks
          BY DispatcherAssumption
        <5> HIDE DEF n
        <5> QED
          BY <1>1, <4>1, <5>1 DEF Positions
      <4> QED
        BY <1>7, <1>8, <4>2, <4>3
    <3>2. Reported(r, i)
      BY <1>0, <3>1 DEF RequestInv
    <3>3. i \in executed'[r] <=> i \in executed[r]
      BY <1>10, <2>2, <3>1
    <3>4. Places(r, i)' = Places(r, i)
      BY <3>3 DEF Places
    <3> QED
      BY <3>1, <3>2, <3>3, <3>4 DEF Reported
  <2> QED
    BY <2>1, <2>2
<1>16. RequestInv(r)'
  BY <1>12, <1>13, <1>14, <1>15 DEF RequestInv
<1>17. \A s \in Requests \ {r} : Keeps(s)
  BY <1>7 DEF Keeps
<1> QED
  BY <1>11, <1>16, <1>17, StepOf

----------------------------------------------------------------------------
(* The queue *)

LEMMA QueuePushInv ==
  ASSUME DispatcherInv, NEW r \in Requests, QueuePush(r) PROVE DispatcherInv'
<1> DEFINE n == Number(r)
<1>0. /\ Shape /\ CodexFits /\ QueueFits /\ RequestInv(r)
      /\ pc[r] = "dispatch" /\ current[r].executor = "cursor_queue"
      /\ UNCHANGED <<subtasks, ratio, current, report, answer, executed, codex>>
      /\ pc' = [pc EXCEPT ![r] = "queueing"] /\ Q!Push(r) /\ r \in Callers
  BY DEF DispatcherInv, QueuePush, For, At, Goto, Callers
<1>1. n \in Positions /\ InHandTraces(r, n)
  BY <1>0, InHandIsPosition
<1>2. /\ CodexFits' /\ run' = run /\ process' = process
      /\ QueueFits' /\ \A s \in Requests \ {r} : call'[s] = call[s]
  BY <1>0, QuietCodex, QueueStep DEF Callers
<1>3. PICK id \in Ids \ drawn :
        Q!Load(r, "push", id, Q!AfterPush(Q!Loaded, id)) /\ drawn' = drawn \cup {id}
  BY <1>0 DEF Q!Push
<1>4. PICK value : call' = [call EXCEPT ![r] =
                     [pc |-> "loaded", op |-> "push", id |-> id, queue |-> value]]
  BY <1>3 DEF Q!Load
<1>5. call'[r].id = id /\ call'[r].op = "push" /\ Underway(r)' /\ pushed' = pushed
  <2>1. call'[r] = [pc |-> "loaded", op |-> "push", id |-> id, queue |-> value]
    BY <1>0, <1>4 DEF QueueFits
  <2> QED
    BY <1>3, <2>1 DEF Underway, Q!Load
<1>6. tickets' = [tickets EXCEPT ![r][n] = id]
  BY <1>5 DEF QueuePush
<1>7. /\ tickets' \in [Requests -> [Positions -> Tickets]]
      /\ tickets'[r][n] = id
      /\ \A s \in Requests \ {r} : tickets'[s] = tickets[s]
      /\ \A i \in Positions \ {n} : tickets'[r][i] = tickets[r][i]
  <2>1. tickets \in [Requests -> [Positions -> Tickets]] /\ id \in Tickets
    BY <1>0 DEF Shape, Tickets
  <2> HIDE DEF n
  <2> QED
    BY <1>1, <1>6, <2>1
<1>8. Shape' /\ pc'[r] = "queueing" /\ \A s \in Requests \ {r} : pc'[s] = pc[s]
  BY <1>0, <1>7 DEF Shape, Stages
<1>9. Number(r)' = n /\ report'[r] = report[r]
  BY <1>0 DEF Number
<1>10. Progress(r)'
  <2>1. call'[r].id = tickets'[r][n]
    BY <1>5, <1>7
  <2> QED
    BY <1>0, <1>5, <1>8, <1>9, <2>1 DEF RequestInv, Progress
<1>11. report[r] \in Seq(Entries) /\ Len(report[r]) \in Nat /\ n = Len(report[r]) + 1
       /\ Len(report[r]) <= MaxSubtasks
  BY <1>0, LenProperties DEF Shape, Number, RequestInv, Progress
<1>12. Traces(r)'
  <2>1. ASSUME NEW i \in Positions, i > n PROVE Untouched(r, i)'
    <3>1. Untouched(r, i) /\ i # n
      BY <1>0, <1>11, <2>1 DEF RequestInv, Traces
    <3> QED
      BY <1>0, <1>2, <1>7, <3>1 DEF Untouched
  <2>2. ASSUME NEW i \in Positions, i = n PROVE InHandTraces(r, i)'
    <3>1. InHandTraces(r, i)
      BY <1>1, <2>2
    <3> QED
      BY <1>0, <1>2, <1>8, <3>1 DEF InHandTraces
  <2> QED
    BY <1>9, <2>1, <2>2 DEF Traces
<1>13. ASSUME NEW i \in DOMAIN report'[r] PROVE Reported(r, i)'
  <2>1. i \in DOMAIN report[r] /\ Reported(r, i)
    BY <1>0, <1>9 DEF RequestInv
  <2>2. i \in Positions /\ i # n
    BY <1>11, <2>1, LenProperties, DispatcherAssumption DEF Positions
  <2>3. tickets'[r][i] = tickets[r][i]
    BY <1>7, <2>2
  <2>4. Places(r, i)' = Places(r, i)
    BY <1>0, <1>2, <2>3 DEF Places
  <2> QED
    BY <1>0, <1>2, <1>5, <2>1, <2>3, <2>4 DEF Reported
<1>14. RequestInv(r)'
  BY <1>8, <1>10, <1>12, <1>13 DEF RequestInv, Answered
<1>15. \A s \in Requests \ {r} : Keeps(s)
  BY <1>0, <1>2, <1>5, <1>7, <1>8 DEF Keeps
<1> QED
  BY <1>2, <1>8, <1>14, <1>15, StepOf

LEMMA QueueTruncateInv ==
  ASSUME DispatcherInv, NEW r \in Requests, QueueTruncate(r) PROVE DispatcherInv'
<1>1. /\ Shape /\ CodexFits /\ QueueFits /\ RequestInv(r)
      /\ pc[r] = "queueing" /\ UNCHANGED <<own, codex>> /\ Q!Truncate(r) /\ r \in Callers
  BY DEF DispatcherInv, QueueTruncate, At, Callers
<1>2. call' = [call EXCEPT ![r].pc = "writing"] /\ UNCHANGED <<drawn, pushed>>
  BY <1>1 DEF Q!Truncate
<1>3. QuietFor(r)
  BY <1>1, <1>2, QueueStep DEF QuietFor, Callers
<1>4. Goto(r, "queueing") /\ "queueing" \in Stages
  BY <1>1 DEF Goto, Stages, own, Shape
<1>5. Shape'
  BY <1>1 DEF own, Shape
<1>6. Progress(r)'
  <2>1. /\ DOMAIN call'[r] = DOMAIN call[r] /\ call'[r].op = call[r].op
        /\ call'[r].id = call[r].id
    BY <1>1, <1>2 DEF QueueFits
  <2> QED
    BY <1>1, <2>1 DEF own, RequestInv, Progress, Underway, Number
<1>7. ASSUME NEW i \in Positions, i = Number(r) PROVE InHandTraces(r, i)'
  <2>1. InHandTraces(r, i)
    BY <1>1, <1>7 DEF RequestInv, Traces
  <2> QED
    BY <1>1, <2>1, QuietCodex DEF own, InHandTraces
<1>8. Answered(r)'
  BY <1>1 DEF own, RequestInv, Answered
<1>9. UNCHANGED <<report, tickets, executed, codex, subtasks, current, answer>>
  BY <1>1 DEF own
<1> QED
  BY <1>3, <1>4, <1>5, <1>6, <1>7, <1>8, <1>9, StageInv

LEMMA QueueWriteInv ==
  ASSUME DispatcherInv, NEW r \in Requests, QueueWrite(r) PROVE DispatcherInv'
<1>1. /\ CodexFits /\ QueueFits /\ RequestInv(r)
      /\ pc[r] = "queueing" /\ Q!Write(r) /\ r \in Callers
      /\ UNCHANGED <<subtasks, ratio, tickets, answer, executed, codex>>
      /\ Reports(r, Queue, TRUE, tickets[r][Number(r)])
  BY DEF DispatcherInv, QueueWrite, At, Callers
<1>2. /\ CodexFits' /\ UNCHANGED <<run, process>>
      /\ QueueFits' /\ ToSet(pushed) \subseteq ToSet(pushed')
      /\ \A s \in Requests \ {r} : call'[s] = call[s]
  BY <1>1, QuietCodex, QueueStep DEF Callers
<1>3. Queue \in Models
  BY DEF Models
<1>4. /\ current[r].executor = "cursor_queue"
      /\ Underway(r) /\ call[r].op = "push" /\ call[r].id = tickets[r][Number(r)]
  BY <1>1 DEF RequestInv, Progress
<1>5. tickets[r][Number(r)] \in ToSet(pushed')
  <2>1. pushed' = Append(pushed, call[r].id)
    BY <1>1, <1>4 DEF Q!Write
  <2>2. call[r].id \in Ids /\ pushed \in Seq(Ids)
    BY <1>1, <1>4 DEF Underway, QueueFits
  <2> QED
    BY <1>4, <2>1, <2>2, ToSetOfAppend
<1> QED
  BY <1>1, <1>2, <1>3, <1>4, <1>5, ReportInv

LEMMA QueueSaveRaisesInv ==
  ASSUME DispatcherInv, NEW r \in Requests, QueueSaveRaises(r) PROVE DispatcherInv'
<1>1. /\ pc[r] = "queueing" /\ Q!Crash(r) /\ Abort(r) /\ r \in Callers /\ QueueFits
      /\ UNCHANGED <<subtasks, ratio, current, report, tickets, answer, executed, codex>>
  BY DEF DispatcherInv, QueueSaveRaises, At, Callers
<1>2. UNCHANGED <<pushed, drawn>>
  BY <1>1 DEF Q!Crash
<1>3. QuietFor(r)
  BY <1>1, <1>2, QueueStep DEF QuietFor, Callers
<1> QED
  BY <1>1, <1>3, AbortInv

----------------------------------------------------------------------------
(* Providers and Codex *)

\* What Execute may report is one of the decision's models.
LEMMA CandidatesFacts ==
  ASSUME NEW r, current[r] \in Chosen
  PROVE  /\ current[r].decision.primary \in Models
         /\ ToSet(Candidates(r)) = ToSet(Offer(current[r].decision)) \ {Queue}
         /\ ToSet(Candidates(r)) \subseteq Models
<1>1. PICK d \in Decisions : d = current[r].decision
  BY DEF Chosen
<1>2. PICK ask : d = Route(ask)
  BY DEF Decisions
<1>3. d.primary \in Models /\ Offer(d) \in Seq(Models)
  BY <1>2, RouteFacts DEF Distinct
<1>4. ToSet(Candidates(r)) = ToSet(Offer(d)) \cap (Models \ {Queue})
  BY <1>1, <1>3, KeepFacts DEF Candidates, Offer
<1>5. ToSet(Offer(d)) \subseteq Models
  BY <1>3 DEF ToSet
<1> QED
  BY <1>1, <1>3, <1>4, <1>5

LEMMA ExecuteInv ==
  ASSUME DispatcherInv, NEW r \in Requests, Execute(r) PROVE DispatcherInv'
<1>1. /\ Shape /\ CodexFits /\ QueueFits /\ RequestInv(r)
      /\ pc[r] = "dispatch" /\ current[r].executor \in {"brain_only", "relay_api"}
      /\ UNCHANGED <<subtasks, ratio, tickets, answer, queue, codex>>
      /\ executed' = [executed EXCEPT ![r] = @ \cup {Number(r)}]
  BY DEF DispatcherInv, Execute, For, At
<1>2. /\ CodexFits' /\ UNCHANGED <<run, process>>
      /\ QueueFits' /\ ToSet(pushed) \subseteq ToSet(pushed')
      /\ \A s \in Requests \ {r} : call'[s] = call[s]
  BY <1>1, QuietCodex, QuietQueue
<1>3. current[r] \in Chosen
  BY <1>1 DEF RequestInv, Progress
<1>4. Number(r) \in Positions /\ InHandTraces(r, Number(r))
  BY <1>1, InHandIsPosition
<1>5. tickets[r][Number(r)] = NoTicket
  BY <1>1, <1>4 DEF InHandTraces
<1>6. PICK model \in Models, success \in BOOLEAN :
        Reports(r, model, success, tickets[r][Number(r)])
  <2>1. CASE \E model \in ToSet(Candidates(r)) : Reports(r, model, TRUE, NoTicket)
    BY <1>3, <1>5, <2>1, CandidatesFacts
  <2>2. CASE Reports(r, current[r].decision.primary, FALSE, NoTicket)
    BY <1>3, <1>5, <2>2, CandidatesFacts
  <2> QED
    BY <2>1, <2>2 DEF Execute
<1>7. PlaceOf(current[r].executor) = "providers"
  BY <1>1 DEF PlaceOf
<1>8. Number(r) \in executed'[r]
  <2>1. executed \in [Requests -> SUBSET Positions]
    BY <1>1 DEF Shape
  <2> QED
    BY <1>1, <2>1
<1> QED
  BY <1>1, <1>2, <1>6, <1>7, <1>8, ReportInv

\* What is reported when codex is not available, or run_codex has returned.
LEMMA CodexReportInv ==
  ASSUME DispatcherInv, NEW r \in Requests, NEW success \in BOOLEAN, For(r, {"codex"}),
         Reports(r, current[r].decision.primary, success, NoTicket),
         success => run[<<r, Number(r)>>] = "success",
         UNCHANGED <<subtasks, ratio, tickets, answer, executed, queue, codex>>
  PROVE  DispatcherInv'
<1>1. /\ CodexFits /\ QueueFits /\ RequestInv(r)
      /\ pc[r] = "dispatch" /\ current[r].executor = "codex"
  BY DEF DispatcherInv, For, At
<1>2. /\ CodexFits' /\ UNCHANGED <<run, process>>
      /\ QueueFits' /\ ToSet(pushed) \subseteq ToSet(pushed')
      /\ \A s \in Requests \ {r} : call'[s] = call[s]
  BY <1>1, QuietCodex, QuietQueue
<1>3. PICK model \in Models : model = current[r].decision.primary
  BY <1>1, CandidatesFacts DEF RequestInv, Progress
<1>4. tickets[r][Number(r)] = NoTicket
  BY <1>1, InHandIsPosition DEF InHandTraces
<1> QED
  BY <1>1, <1>2, <1>3, <1>4, ReportInv

LEMMA CodexEndsInv ==
  ASSUME DispatcherInv, NEW r \in Requests, CodexUnavailable(r) \/ CodexEnds(r)
  PROVE  DispatcherInv'
<1>1. For(r, {"codex"}) /\ UNCHANGED <<subtasks, ratio, tickets, answer, executed, queue, codex>>
  BY DEF CodexUnavailable, CodexEnds
<1>2. CASE CodexUnavailable(r)
  BY <1>1, <1>2, CodexReportInv DEF CodexUnavailable
<1>3. CASE CodexEnds(r) /\ run[CodexRun(r)] = "raised"
  <2>1. QuietFor(r) /\ pc[r] = "dispatch"
    BY <1>1, QuietQueue DEF DispatcherInv, QuietFor, For, At
  <2>2. Abort(r) /\ UNCHANGED <<current, report>>
    BY <1>3 DEF CodexEnds
  <2> QED
    BY <1>1, <2>1, <2>2, AbortInv
<1>4. CASE CodexEnds(r) /\ run[CodexRun(r)] # "raised"
  <2>1. PICK success \in BOOLEAN : success = (run[CodexRun(r)] = "success")
    OBVIOUS
  <2>2. Reports(r, current[r].decision.primary, success, NoTicket)
    BY <1>4, <2>1 DEF CodexEnds
  <2>3. success => run[<<r, Number(r)>>] = "success"
    BY <2>1 DEF CodexRun
  <2> QED
    BY <1>1, <2>2, <2>3, CodexReportInv
<1> QED
  BY <1>2, <1>3, <1>4

LEMMA CodexStepInv ==
  ASSUME DispatcherInv, NEW r \in Requests, CodexStep(r) PROVE DispatcherInv'
<1> DEFINE n == Number(r)
<1>1. /\ Shape /\ CodexFits /\ QueueFits /\ RequestInv(r)
      /\ pc[r] = "dispatch" /\ current[r].executor = "codex"
      /\ UNCHANGED <<own, queue>>
  BY DEF DispatcherInv, CodexStep, For, At
<1>2. n \in Positions /\ InHandTraces(r, n) /\ <<r, n>> \in RunIds
  BY <1>1, InHandIsPosition
<1>3. PICK x \in RunIds : x = <<r, n>>
  BY <1>2
<1>4. CodexFits' /\ \A y \in RunIds \ {x} : run'[y] = run[y] /\ process'[y] = process[y]
  <2>1. C!Caller(x)
    BY <1>3 DEF CodexStep, CodexRun
  <2> QED
    BY <1>1, <2>1, CodexStepFits
<1>5. \A s \in Requests, i \in Positions :
        s # r \/ i # n => /\ run'[<<s, i>>] = run[<<s, i>>]
                         /\ process'[<<s, i>>] = process[<<s, i>>]
  BY <1>3, <1>4 DEF RunIds
<1>6. /\ QueueFits' /\ call' = call /\ pushed' = pushed /\ drawn' = drawn
      /\ UNCHANGED <<pc, subtasks, ratio, current, report, tickets, answer, executed>>
      /\ Shape'
  BY <1>1, QuietQueue DEF own, Shape
<1>7. Number(r)' = n /\ Progress(r)' /\ Answered(r)'
  BY <1>1, <1>6 DEF Number, RequestInv, Progress, Answered, Underway
<1>8. report[r] \in Seq(Entries) /\ Len(report[r]) \in Nat /\ n = Len(report[r]) + 1
      /\ Len(report[r]) <= MaxSubtasks
  BY <1>1, LenProperties DEF Shape, Number, RequestInv, Progress
<1>9. Traces(r)'
  <2>1. ASSUME NEW i \in Positions, i > n PROVE Untouched(r, i)'
    <3>1. Untouched(r, i) /\ i # n
      BY <1>1, <1>8, <2>1 DEF RequestInv, Traces
    <3> QED
      BY <1>5, <1>6, <3>1 DEF Untouched
  <2>2. ASSUME NEW i \in Positions, i = n PROVE InHandTraces(r, i)'
    <3>1. InHandTraces(r, i)
      BY <1>2, <2>2
    <3> QED
      BY <1>1, <1>6, <3>1 DEF InHandTraces
  <2> QED
    BY <1>7, <2>1, <2>2 DEF Traces
<1>10. ASSUME NEW i \in DOMAIN report'[r] PROVE Reported(r, i)'
  <2>1. i \in DOMAIN report[r] /\ Reported(r, i)
    BY <1>1, <1>6 DEF RequestInv
  <2>2. i \in Positions /\ i # n
    BY <1>8, <2>1, LenProperties, DispatcherAssumption DEF Positions
  <2>3. run'[<<r, i>>] = run[<<r, i>>] /\ process'[<<r, i>>] = process[<<r, i>>]
    BY <1>5, <2>2
  <2>4. Places(r, i)' = Places(r, i)
    BY <1>6, <2>3 DEF Places
  <2> QED
    BY <1>6, <2>1, <2>3, <2>4 DEF Reported
<1>11. RequestInv(r)'
  BY <1>7, <1>9, <1>10 DEF RequestInv
<1>12. \A s \in Requests \ {r} : Keeps(s)
  BY <1>5, <1>6 DEF Keeps
<1> QED
  BY <1>4, <1>6, <1>11, <1>12, StepOf

----------------------------------------------------------------------------
(* The answer, and everybody else *)

\* The answer is made of the report, and the report names every ticket.
LEMMA AggregateInv ==
  ASSUME DispatcherInv, NEW r \in Requests, Aggregate(r) PROVE DispatcherInv'
<1>1. /\ Shape /\ CodexFits /\ QueueFits /\ RequestInv(r) /\ pc[r] = "aggregate"
      /\ UNCHANGED <<subtasks, ratio, current, report, tickets, executed, queue, codex>>
      /\ Goto(r, "answered") /\ "answered" \in Stages
  BY DEF DispatcherInv, Aggregate, At, Stages
<1>2. PICK summary \in Summaries(report[r]) : answer' = [answer EXCEPT ![r] = summary]
  BY DEF Aggregate
<1>3. answer'[r] = summary /\ \A s \in Requests \ {r} : answer'[s] = answer[s]
  BY <1>1, <1>2 DEF Shape
<1>4. pc' = [pc EXCEPT ![r] = "answered"] /\ pc'[r] = "answered"
  BY <1>1 DEF Goto, Shape
<1>5. /\ report[r] \in Seq(Entries) /\ Len(report[r]) \in Nat /\ Len(report[r]) <= MaxSubtasks
      /\ DOMAIN report[r] = 1..Len(report[r]) /\ Number(r) = Len(report[r]) + 1
      /\ tickets[r] \in [Positions -> Tickets]
      /\ \A i \in DOMAIN report[r] : report[r][i] \in Entries
  BY <1>1, LenProperties, ElementOfSeq DEF Shape, RequestInv, Progress, Number
<1>6. summary.cursor_tasks = ToSet(tickets[r]) \ {NoTicket}
  <2>1. summary.cursor_tasks = CursorTasks(report[r])
    BY <1>2 DEF Summaries
  <2>2. \A i \in DOMAIN report[r] : i \in Positions /\ report[r][i].ticket = tickets[r][i]
    <3>1. \A i \in DOMAIN report[r] : i \in Positions
      BY <1>5, DispatcherAssumption DEF Positions
    <3>2. \A i \in DOMAIN report[r] : Reported(r, i)
      BY <1>1 DEF RequestInv
    <3> QED
      BY <3>1, <3>2 DEF Reported
  <2>3. \A i \in Positions : i \notin DOMAIN report[r] => tickets[r][i] = NoTicket
    <3>1. ASSUME NEW i \in Positions, i \notin DOMAIN report[r] PROVE i >= Number(r)
      BY <1>5, <3>1 DEF Positions
    <3>2. ASSUME NEW i \in Positions, i >= Number(r) PROVE Untouched(r, i)
      <4>1. i = Number(r) \/ i > Number(r)
        BY <1>5, <3>2 DEF Positions
      <4> QED
        BY <1>1, <4>1 DEF RequestInv, Traces, InHandTraces
    <3> QED
      BY <3>1, <3>2 DEF Untouched
  <2>4. \A x : x \in ToSet(Column(report[r], "ticket")) <=>
              \E i \in DOMAIN report[r] : x = report[r][i].ticket
    BY DEF ToSet, Column
  <2>5. \A x : x \in ToSet(tickets[r]) <=> \E i \in Positions : x = tickets[r][i]
    BY <1>5 DEF ToSet
  <2> QED
    BY <2>1, <2>2, <2>3, <2>4, <2>5 DEF CursorTasks
<1>7. summary.executor = "none" => report[r] = <<>>
  <2> SUFFICES ASSUME report[r] # <<>> PROVE summary.executor \in Executors
    BY DEF Executors
  <2>1. summary.executor \in MostFrequent(Column(report[r], "executor"))
    BY <1>2 DEF Summaries
  <2>2. summary.executor \in ToSet(Column(report[r], "executor"))
    BY <2>1 DEF MostFrequent
  <2>3. PICK i \in DOMAIN report[r] : summary.executor = report[r][i].executor
    BY <2>2 DEF ToSet, Column
  <2> QED
    BY <1>5, <2>3 DEF Entries
<1>8. Answered(r)'
  BY <1>1, <1>3, <1>6, <1>7 DEF Answered
<1>9. Shape' /\ QuietFor(r)
  BY <1>1, <1>2, <1>4, QuietQueue DEF Shape, QuietFor
<1>10. Progress(r)'
  BY <1>1, <1>4 DEF RequestInv, Progress
<1>11. ASSUME NEW i \in Positions, i = Number(r) PROVE InHandTraces(r, i)'
  <2>1. Untouched(r, i)
    BY <1>1, <1>11 DEF RequestInv, Traces, InHandTraces
  <2>2. Untouched(r, i)'
    BY <1>1, <2>1, QuietCodex DEF Untouched
  <2> QED
    BY <1>4, <2>2 DEF InHandTraces
<1> QED
  BY <1>1, <1>3, <1>8, <1>9, <1>10, <1>11, StageInv

\* Steps of the command line and of Codex processes, and steps of nobody.
LEMMA AllKept ==
  ASSUME DispatcherInv, Shape', CodexFits', QueueFits',
         \A s \in Requests : Keeps(s)
  PROVE  DispatcherInv'
<1>1. ASSUME NEW s \in Requests PROVE RequestInv(s)'
  BY Unmoved DEF DispatcherInv
<1> QED
  BY <1>1 DEF DispatcherInv

LEMMA UseQueueInv ==
  ASSUME DispatcherInv, NEW c \in CommandLine, UseQueue(c) PROVE DispatcherInv'
<1>1. /\ Shape /\ CodexFits /\ QueueFits /\ c \in Callers
      /\ UNCHANGED <<own, codex>>
  BY DEF DispatcherInv, UseQueue, Callers
<1>2. /\ QueueFits' /\ drawn \subseteq drawn' /\ ToSet(pushed) \subseteq ToSet(pushed')
      /\ \A d \in Callers \ {c} : call'[d] = call[d]
  BY <1>1, QueueStep DEF UseQueue
<1>3. \A s \in Requests : call'[s] = call[s]
  BY <1>2, DispatcherAssumption DEF Callers
<1>4. CodexFits' /\ run' = run /\ process' = process
  BY <1>1, QuietCodex
<1>5. UNCHANGED <<pc, subtasks, ratio, current, report, tickets, answer, executed>>
  BY <1>1 DEF own
<1>6. Shape'
  BY <1>1, <1>2, <1>5 DEF Shape
<1>7. \A s \in Requests : Keeps(s)
  BY <1>2, <1>3, <1>4, <1>5 DEF Keeps
<1> QED
  BY <1>2, <1>4, <1>6, <1>7, AllKept

LEMMA CodexRunsInv ==
  ASSUME DispatcherInv, CodexRuns PROVE DispatcherInv'
<1>1. Shape /\ CodexFits /\ QueueFits /\ UNCHANGED <<own, queue>>
  BY DEF DispatcherInv, CodexRuns
<1>2. PICK x \in RunIds : C!Program(x)
  BY DEF CodexRuns, RunIds
<1>3. /\ CodexFits' /\ run' = run
      /\ \A y \in RunIds : process'[y] = C!NoProcess <=> process[y] = C!NoProcess
  BY <1>1, <1>2, CodexStepFits
<1>4. QueueFits' /\ call' = call /\ pushed' = pushed /\ drawn' = drawn
  BY <1>1, QuietQueue
<1>5. UNCHANGED <<pc, subtasks, ratio, current, report, tickets, answer, executed>>
  BY <1>1 DEF own
<1>6. Shape'
  BY <1>1, <1>4, <1>5 DEF Shape
<1>7. \A s \in Requests : Keeps(s)
  BY <1>3, <1>4, <1>5 DEF Keeps, RunIds
<1> QED
  BY <1>3, <1>4, <1>6, <1>7, AllKept

LEMMA StutterInv ==
  ASSUME DispatcherInv, UNCHANGED vars PROVE DispatcherInv'
<1>1. Shape /\ CodexFits /\ QueueFits /\ UNCHANGED <<own, queue, codex>>
  BY DEF DispatcherInv, vars
<1>2. /\ CodexFits' /\ run' = run /\ process' = process
      /\ QueueFits' /\ call' = call /\ pushed' = pushed /\ drawn' = drawn
  BY <1>1, QuietQueue, QuietCodex
<1>3. UNCHANGED <<pc, subtasks, ratio, current, report, tickets, answer, executed>>
  BY <1>1 DEF own
<1>4. Shape'
  BY <1>1, <1>2, <1>3 DEF Shape
<1>5. \A s \in Requests : Keeps(s)
  BY <1>2, <1>3 DEF Keeps
<1> QED
  BY <1>2, <1>4, <1>5, AllKept

LEMMA InitInv == Init => DispatcherInv
<1> SUFFICES ASSUME Init PROVE DispatcherInv
  OBVIOUS
<1>1. Positions \subseteq Nat /\ \A i \in Positions : i >= 1
  BY DispatcherAssumption DEF Positions
<1>2. /\ run = [x \in RunIds |-> "new"] /\ process = [x \in RunIds |-> C!NoProcess]
      /\ call = [c \in Callers |-> Q!Idle] /\ pushed = <<>>
  BY DEF Init, C!Init, Q!Init, RunIds, Callers
<1>3. Shape
  BY DEF Init, Shape, Stages, Tickets
<1>4. CodexFits
  BY <1>2 DEF CodexFits, C!Processes
<1>5. QueueFits
  BY <1>2 DEF QueueFits, Init
<1>6. ASSUME NEW r \in Requests PROVE RequestInv(r)
  <2>1. /\ pc[r] = "new" /\ report[r] = <<>> /\ Len(report[r]) = 0 /\ subtasks[r] = <<>>
        /\ Len(subtasks[r]) = 0
    BY DEF Init
  <2>2. \A i \in Positions : Untouched(r, i)
    BY <1>2 DEF Init, Untouched, RunIds
  <2>3. Progress(r) /\ Answered(r)
    BY <2>1, DispatcherAssumption DEF Progress, Answered
  <2>4. Traces(r)
    BY <2>1, <2>2 DEF Traces, InHandTraces
  <2> QED
    BY <2>1, <2>3, <2>4 DEF RequestInv
<1> QED
  BY <1>3, <1>4, <1>5, <1>6 DEF DispatcherInv

LEMMA NextInv == DispatcherInv /\ [Next]_vars => DispatcherInv'
<1> SUFFICES ASSUME DispatcherInv, [Next]_vars PROVE DispatcherInv'
  OBVIOUS
<1>1. ASSUME NEW r \in Requests, Step(r) PROVE DispatcherInv'
  <2>1. CASE Decompose(r) \/ Classify(r) \/ Plan(r) \/ Aggregate(r)
    BY <2>1, DecomposeInv, ClassifyInv, PlanInv, AggregateInv
  <2>2. CASE PlanRaises(r) \/ QueueUnreadable(r)
    BY <2>2, RaisesInv
  <2>3. CASE QueuePush(r) \/ QueueTruncate(r) \/ QueueWrite(r) \/ QueueSaveRaises(r)
    BY <2>3, QueuePushInv, QueueTruncateInv, QueueWriteInv, QueueSaveRaisesInv
  <2>4. CASE Execute(r) \/ CodexStep(r)
    BY <2>4, ExecuteInv, CodexStepInv
  <2>5. CASE CodexUnavailable(r) \/ CodexEnds(r)
    BY <2>5, CodexEndsInv
  <2> QED
    BY <1>1, <2>1, <2>2, <2>3, <2>4, <2>5 DEF Step
<1>2. ASSUME NEW c \in CommandLine, UseQueue(c) PROVE DispatcherInv'
  BY <1>2, UseQueueInv
<1> QED
  BY <1>1, <1>2, CodexRunsInv, StutterInv DEF Next

----------------------------------------------------------------------------
(* Theorems *)

\* The shape of the state, what each stage knows of the subtask in hand, and
\* where subtasks reported, in hand and to come have left traces.
THEOREM DispatcherInvariant == Spec => []DispatcherInv
<1>1. Init => DispatcherInv
  BY InitInv
<1>2. DispatcherInv /\ [Next]_vars => DispatcherInv'
  BY NextInv
<1> QED
  BY <1>1, <1>2, PTL DEF Spec

\* The traces of a subtask, whichever it is.
LEMMA TracesOf ==
  ASSUME DispatcherInv, NEW r \in Requests, NEW i \in Positions
  PROVE  /\ i > Number(r) => Places(r, i) = {}
         /\ i \in DOMAIN report[r] => Places(r, i) \subseteq {PlaceOf(report[r][i].executor)}
         /\ \E place \in AllPlaces : Places(r, i) \subseteq {place}
<1>1. Shape /\ CodexFits /\ RequestInv(r)
  BY DEF DispatcherInv
<1>2. \A executor : PlaceOf(executor) \in AllPlaces
  BY DEF PlaceOf, AllPlaces
<1>3. ASSUME i > Number(r) PROVE Places(r, i) = {}
  <2>1. Untouched(r, i)
    BY <1>1, <1>3 DEF RequestInv, Traces
  <2>2. process[<<r, i>>] = C!NoProcess
    BY <1>1, <2>1 DEF Untouched, CodexFits, RunIds
  <2> QED
    BY <2>1, <2>2 DEF Untouched, Places
<1>4. ASSUME i \in DOMAIN report[r] PROVE Places(r, i) \subseteq {PlaceOf(report[r][i].executor)}
  BY <1>1, <1>4 DEF RequestInv, Reported
<1>5. ASSUME i = Number(r) PROVE \E place \in AllPlaces : Places(r, i) \subseteq {place}
  <2>1. pc[r] \in Stages
    BY <1>1 DEF Shape
  <2>2. CASE pc[r] = "aborted"
    BY <1>1, <1>5, <2>2 DEF RequestInv, Traces, InHandTraces
  <2>3. CASE pc[r] # "aborted"
    <3>1. Places(r, i) = {} \/ Places(r, i) \subseteq {PlaceOf(current[r].executor)}
      BY <1>5, <2>1, <2>3, PlaceInHand DEF Stages
    <3> QED
      BY <1>2, <3>1
  <2> QED
    BY <2>2, <2>3
<1>6. i > Number(r) \/ i = Number(r) \/ i \in DOMAIN report[r]
  <2>1. Len(report[r]) \in Nat /\ DOMAIN report[r] = 1..Len(report[r])
    BY <1>1, LenProperties DEF Shape
  <2> QED
    BY <2>1, DispatcherAssumption DEF Number, Positions
<1> QED
  BY <1>2, <1>3, <1>4, <1>5, <1>6

\* However a request ends, each subtask went to one place at most.
THEOREM OnePlaceEach == Spec => []OnePlacePerSubtask
<1>1. DispatcherInv => OnePlacePerSubtask
  <2> SUFFICES ASSUME DispatcherInv, NEW r \in Requests, NEW i \in Positions
               PROVE  Cardinality(Places(r, i)) <= 1
    BY TracesOf DEF OnePlacePerSubtask
  <2>1. PICK place \in AllPlaces : Places(r, i) \subseteq {place}
    BY TracesOf
  <2>2. Places(r, i) = {} \/ Places(r, i) = {place}
    BY <2>1
  <2> QED
    BY <2>2, FS_EmptySet, FS_Singleton
<1> QED
  BY <1>1, DispatcherInvariant, PTL

\* Whatever the planner answers, a subtask goes where its type may go.
THEOREM BoundsAreKept == Spec => []PlannerStaysInBounds
<1>1. DispatcherInv => PlannerStaysInBounds
  <2> SUFFICES ASSUME DispatcherInv, NEW r \in Requests, NEW i \in DOMAIN report[r]
               PROVE  Places(r, i) \subseteq AllowedPlaces(report[r][i].type)
    BY DEF PlannerStaysInBounds
  <2>1. Reported(r, i)
    BY DEF DispatcherInv, RequestInv
  <2> QED
    BY <2>1 DEF Reported
<1> QED
  BY <1>1, DispatcherInvariant, PTL

\* What is reported as done is done.
THEOREM DoneMeansDone == Spec => []SuccessIsSettled
<1>1. DispatcherInv => SuccessIsSettled
  <2> SUFFICES ASSUME DispatcherInv, NEW r \in Requests, NEW i \in DOMAIN report[r],
                      report[r][i].success
               PROVE  CASE report[r][i].executor = "cursor_queue" ->
                             report[r][i].ticket \in ToSet(pushed)
                        [] report[r][i].executor = "codex" ->
                             process[<<r, i>>] \in {C!Exited(TRUE, spoke) : spoke \in BOOLEAN}
                        [] OTHER -> i \in executed[r]
    BY DEF SuccessIsSettled
  <2>1. Reported(r, i) /\ CodexFits /\ Shape /\ Progress(r)
    BY DEF DispatcherInv, RequestInv
  <2>2. i \in Positions
    BY <2>1, LenProperties, DispatcherAssumption DEF Shape, Progress, Positions
  <2>3. run[<<r, i>>] = "success" =>
          process[<<r, i>>] \in {C!Exited(TRUE, spoke) : spoke \in BOOLEAN}
    BY <2>1, <2>2 DEF CodexFits, RunIds
  <2> QED
    BY <2>1, <2>3 DEF Reported
<1> QED
  BY <1>1, DispatcherInvariant, PTL

\* The answer names every ticket, and "none" only where nothing was done.
THEOREM NothingUntold == Spec => []AnswerTellsAll
<1>1. DispatcherInv => AnswerTellsAll
  <2> SUFFICES ASSUME DispatcherInv, NEW r \in Requests, pc[r] = "answered"
               PROVE  /\ answer[r].cursor_tasks = ToSet(tickets[r]) \ {NoTicket}
                      /\ answer[r].executor = "none" =>
                           \A i \in Positions : Places(r, i) = {}
    BY DEF AnswerTellsAll, At
  <2>1. RequestInv(r)
    BY DEF DispatcherInv
  <2>2. ASSUME NEW i \in Positions, report[r] = <<>> PROVE Places(r, i) = {}
    <3>1. i = Number(r) \/ i > Number(r)
      BY <2>2, DispatcherAssumption DEF Number, Positions
    <3> QED
      BY <3>1, TracesOf, PlaceInHand
  <2> QED
    BY <2>1, <2>2 DEF RequestInv, Answered
<1> QED
  BY <1>1, DispatcherInvariant, PTL

----------------------------------------------------------------------------
(* The parts are what their own modules say they are *)

\* In the middle of dispatches the queue is still CursorQueue, with requests and
\* the command line as its callers: no step of a dispatch touches the file, or a
\* call on it, otherwise than push() does.
THEOREM QueueInside == Spec => Q!Spec
<1>1. Init => Q!Init
  BY DEF Init
<1>2. [Next]_vars => [Q!Next]_(Q!vars)
  <2> SUFFICES ASSUME [Next]_vars PROVE Q!Next \/ UNCHANGED queue
    BY DEF queue, Q!vars
  <2>1. ASSUME NEW r \in Requests, Step(r) PROVE Q!Next \/ UNCHANGED queue
    <3>1. CASE QueuePush(r) \/ QueueTruncate(r) \/ QueueWrite(r) \/ QueueSaveRaises(r)
      BY <3>1 DEF QueuePush, QueueTruncate, QueueWrite, QueueSaveRaises, Q!Next
    <3>2. CASE QueueUnreadable(r)
      BY <3>2 DEF QueueUnreadable, Q!Next
    <3>3. CASE ~(\/ QueuePush(r) \/ QueueTruncate(r) \/ QueueWrite(r) \/ QueueSaveRaises(r)
                 \/ QueueUnreadable(r))
      BY <2>1, <3>3 DEF Step, Decompose, Classify, Plan, PlanRaises, Execute, CodexUnavailable,
                        CodexStep, CodexEnds, Aggregate
    <3> QED
      BY <3>1, <3>2, <3>3
  <2>2. ASSUME NEW c \in CommandLine, UseQueue(c) PROVE Q!Next
    BY <2>2 DEF UseQueue, Q!Next
  <2>3. CodexRuns \/ UNCHANGED vars => UNCHANGED queue
    BY DEF CodexRuns, vars
  <2> QED
    BY <2>1, <2>2, <2>3 DEF Next
<1> QED
  BY <1>1, <1>2, PTL DEF Spec, Q!Spec

\* And the subprocesses of all subtasks together are CodexExecutor: run_codex is
\* awaited as it is, for a subtask there is, and only the program ends a process.
THEOREM CodexInside == Spec => C!Spec
<1>1. Init => C!Init
  BY DEF Init
<1>2. DispatcherInv /\ [Next]_vars => [C!Next]_(C!vars)
  <2> SUFFICES ASSUME DispatcherInv, [Next]_vars PROVE C!Next \/ UNCHANGED codex
    BY DEF codex, C!vars
  <2>1. ASSUME NEW r \in Requests, Step(r) PROVE C!Next \/ UNCHANGED codex
    <3>1. CASE CodexStep(r)
      <4>1. pc[r] = "dispatch" /\ C!Caller(CodexRun(r))
        BY <3>1 DEF CodexStep, For, At
      <4>2. CodexRun(r) \in Requests \X Positions
        BY <4>1, InHandIsPosition DEF RunIds, CodexRun
      <4> QED
        BY <4>1, <4>2 DEF C!Next
    <3>2. CASE ~CodexStep(r)
      BY <2>1, <3>2 DEF Step, Decompose, Classify, Plan, PlanRaises, QueuePush, QueueUnreadable,
                        QueueTruncate, QueueWrite, QueueSaveRaises, Execute, CodexUnavailable,
                        CodexEnds, Aggregate
    <3> QED
      BY <3>1, <3>2
  <2>2. ASSUME NEW c \in CommandLine, UseQueue(c) PROVE UNCHANGED codex
    BY <2>2 DEF UseQueue
  <2> QED
    BY <2>1, <2>2 DEF Next, CodexRuns, C!Next, vars
<1> QED
  BY <1>1, <1>2, DispatcherInvariant, PTL DEF Spec, C!Spec

----------------------------------------------------------------------------
(* Dispatches: what the state variables hold at every stage *)

\* DispatcherInv says what a subtask in hand is where a stage needs it.  Between
\* the stages there is none, or the one an exception left; either way it was
\* routed as its type.  The report is never longer than the list of subtasks,
\* and a ticket stands in it only when its push has returned.
Summary(a) ==
  /\ a.type \in SeenTypes \cup {"uncertain"}
  /\ a.executor \in Executors \cup {"none"} /\ a.cost \in 0..2
Routed(c) == c \in Chosen /\ c.decision.type = NormalizeType(c.type)
Held(r) ==
  /\ current[r] = NoSubtask \/ Routed(current[r])
  /\ Len(report[r]) <= Len(subtasks[r])
  /\ \A i \in DOMAIN report[r] : report[r][i].ticket \in {NoTicket} \cup ToSet(pushed)
  /\ answer[r] = NoAnswerYet \/ Summary(answer[r])
HeldInv == \A r \in Requests : Held(r)

\* The cheapest subtask is free, and the answer is of the cost class of the dearest.
LEMMA SummariesFit ==
  ASSUME NEW list \in Seq(Entries), NEW summary \in Summaries(list)
  PROVE  Summary(summary)
<1>1. \A i \in DOMAIN list : list[i] \in Entries
  BY ElementOfSeq, LenProperties
<1>2. ASSUME list # <<>>, NEW field, NEW x \in MostFrequent(Column(list, field))
      PROVE  \E i \in DOMAIN list : x = list[i][field]
  BY <1>2 DEF MostFrequent, Column, ToSet
<1>3. summary.type \in SeenTypes \cup {"uncertain"}
  <2>1. CASE list = <<>>
    BY <2>1 DEF Summaries
  <2>2. CASE list # <<>>
    <3>1. PICK i \in DOMAIN list : summary.type = list[i].type
      BY <1>2, <2>2 DEF Summaries
    <3> QED
      BY <1>1, <3>1 DEF Entries
  <2> QED
    BY <2>1, <2>2
<1>4. summary.executor \in Executors \cup {"none"}
  <2>1. CASE list = <<>>
    BY <2>1 DEF Summaries
  <2>2. CASE list # <<>>
    <3>1. PICK i \in DOMAIN list : summary.executor = list[i].executor
      BY <1>2, <2>2 DEF Summaries
    <3> QED
      BY <1>1, <3>1 DEF Entries
  <2> QED
    BY <2>1, <2>2
<1>5. summary.cost \in 0..2
  <2> DEFINE costs == {Cost(list[i].type) : i \in DOMAIN list} \cup {0}
  <2>1. costs \subseteq 0..2 /\ 0 \in costs
    BY DEF Cost
  <2>2. summary.cost = Max(costs)
    BY DEF Summaries
  <2> HIDE DEF costs
  <2>3. costs \subseteq Nat /\ costs # {} /\ IsFiniteSet(costs)
    <3>1. IsFiniteSet(0..2)
      BY FS_Interval, 0 \in Int, 2 \in Int
    <3>2. 0..2 \subseteq Nat
      OBVIOUS
    <3> QED
      BY <2>1, <3>1, <3>2, FS_Subset
  <2> QED
    BY <2>1, <2>2, <2>3, MaxOfNaturals
<1> QED
  BY <1>3, <1>4, <1>5 DEF Summary

LEMMA HeldInit == Init => HeldInv
BY DEF Init, HeldInv, Held

\* Routing takes a type as it is, or as "uncertain" when the table has none such.
LEMMA ClassifyRoutes ==
  ASSUME DispatcherInv, DispatcherInv', NEW r \in Requests, Classify(r)
  PROVE  Routed(current'[r])
<1>1. Shape /\ pc'[r] = "plan"
  BY DEF DispatcherInv, Shape, Classify, Goto
<1>2. current'[r] \in Chosen
  BY <1>1 DEF DispatcherInv, RequestInv, Progress, Chosen
<1>3. PICK v : current' = [current EXCEPT ![r] =
          [type |-> v.type,
           decision |-> Route([type |-> v.type, level |-> v.level, ratio |-> ratio[r]]),
           executor |-> Route([type |-> v.type, level |-> v.level, ratio |-> ratio[r]]).executor]]
  BY DEF Classify
<1>4. PICK ask : ask = [type |-> v.type, level |-> v.level, ratio |-> ratio[r]]
  OBVIOUS
<1>5. current'[r].type = v.type /\ current'[r].decision = Route(ask)
  BY <1>1, <1>3, <1>4 DEF Shape
<1>6. Route(ask).type = NormalizeType(v.type)
  BY <1>4, RouteFacts
<1> QED
  BY <1>2, <1>5, <1>6 DEF Routed

\* The ticket of the subtask in hand is pushed when the file is written.
LEMMA WrittenIsPushed ==
  ASSUME DispatcherInv, NEW r \in Requests, QueueWrite(r)
  PROVE  tickets[r][Number(r)] \in ToSet(pushed')
<1>1. /\ QueueFits /\ Underway(r) /\ call[r].op = "push"
      /\ call[r].id = tickets[r][Number(r)]
  BY DEF DispatcherInv, RequestInv, Progress, QueueWrite, At
<1>2. pushed' = Append(pushed, call[r].id)
  BY <1>1 DEF QueueWrite, Q!Write
<1> QED
  BY <1>1, <1>2, ToSetOfAppend DEF Underway, QueueFits

\* What was pushed stays pushed.
LEMMA PushedGrows ==
  ASSUME DispatcherInv, [Next]_vars
  PROVE  ToSet(pushed) \subseteq ToSet(pushed')
<1> SUFFICES ASSUME pushed' # pushed PROVE ToSet(pushed) \subseteq ToSet(pushed')
  OBVIOUS
<1>1. QueueFits
  BY DEF DispatcherInv
<1>2. CASE \E r \in Requests : Step(r)
  <2>1. PICK r \in Requests : Step(r)
    BY <1>2
  <2>2. UNCHANGED queue \/ Q!LoadFails(r) => pushed' = pushed
    BY DEF queue, Q!LoadFails, Q!vars
  <2>3. Q!Push(r) \/ Q!Truncate(r) \/ Q!Write(r) \/ Q!Crash(r)
    BY <2>1, <2>2 DEF Step, Decompose, Classify, Plan, PlanRaises, QueuePush, QueueUnreadable,
       QueueTruncate, QueueWrite, QueueSaveRaises, Execute, CodexUnavailable, CodexStep,
       CodexEnds, Aggregate
  <2> QED
    BY <1>1, <2>3, QueueStep DEF Callers
<1>3. CASE \E c \in CommandLine : UseQueue(c)
  BY <1>1, <1>3, QueueStep DEF UseQueue, Callers
<1> QED
  BY <1>2, <1>3 DEF Next, CodexRuns, queue, vars

LEMMA HeldNext ==
  ASSUME DispatcherInv, DispatcherInv', HeldInv, [Next]_vars
  PROVE  HeldInv'
<1>0. ToSet(pushed) \subseteq ToSet(pushed')
  BY PushedGrows
<1> DEFINE Quiet(s) == UNCHANGED <<current[s], report[s], subtasks[s], answer[s]>>
<1>1. ASSUME NEW s \in Requests, Quiet(s) PROVE Held(s)'
  BY <1>0, <1>1 DEF HeldInv, Held, NoAnswerYet, NoSubtask
<1>2. ASSUME NEW r \in Requests, Step(r) PROVE Held(r)' /\ \A s \in Requests \ {r} : Quiet(s)
  <2>0. Shape /\ Progress(r) /\ Held(r) /\ report[r] \in Seq(Entries)
    BY DEF DispatcherInv, RequestInv, HeldInv, Shape
  <2>1. CASE Decompose(r)
    <3>1. /\ UNCHANGED <<current, report, answer>> /\ report[r] = <<>>
          /\ \A s \in Requests \ {r} : subtasks'[s] = subtasks[s]
      BY <2>0, <2>1 DEF Decompose, At, Progress, Shape
    <3>2. subtasks'[r] \in Seq(Hints \cup {NoHint})
      BY DEF DispatcherInv, Shape
    <3>3. Len(report'[r]) <= Len(subtasks'[r])
      BY <3>1, <3>2, LenProperties
    <3> QED
      BY <1>0, <2>0, <3>1, <3>3 DEF Held, NoAnswerYet, NoSubtask
  <2>2. CASE Classify(r)
    <3>1. /\ UNCHANGED <<subtasks, report, answer>>
          /\ \A s \in Requests \ {r} : current'[s] = current[s]
      BY <2>0, <2>2 DEF Classify, Shape
    <3>2. Routed(current'[r])
      BY <2>2, ClassifyRoutes
    <3> QED
      BY <1>0, <2>0, <3>1, <3>2 DEF Held, NoAnswerYet, NoSubtask
  <2>3. CASE Plan(r)
    <3>1. UNCHANGED <<subtasks, report, answer>> /\ pc[r] = "plan" /\ pc'[r] = "dispatch"
      BY <2>0, <2>3 DEF Plan, At, Goto, Shape
    <3>2. PICK executor : current' = [current EXCEPT ![r].executor = executor]
      BY <2>3 DEF Plan
    <3>3. /\ current'[r] = [current[r] EXCEPT !.executor = executor]
          /\ \A s \in Requests \ {r} : current'[s] = current[s]
      BY <2>0, <3>2 DEF Shape
    <3>4. current[r] \in Chosen /\ current'[r] \in Chosen
      BY <2>0, <3>1 DEF DispatcherInv, RequestInv, Progress, Chosen
    <3>5. current[r].decision.type = NormalizeType(current[r].type)
      <4>1. CASE current[r] = NoSubtask
        BY <3>4, <4>1 DEF NoSubtask, Chosen
      <4>2. CASE current[r] # NoSubtask
        BY <2>0, <4>2 DEF Held, Routed
      <4> QED
        BY <4>1, <4>2
    <3>6. Routed(current'[r])
      BY <3>3, <3>4, <3>5 DEF Routed, Chosen
    <3> QED
      BY <1>0, <2>0, <3>1, <3>3, <3>6 DEF Held, NoAnswerYet, NoSubtask
  <2>4. CASE Aggregate(r)
    <3>1. PICK summary \in Summaries(report[r]) : answer' = [answer EXCEPT ![r] = summary]
      BY <2>4 DEF Aggregate
    <3>2. /\ UNCHANGED <<subtasks, report, current>> /\ answer'[r] = summary
          /\ \A s \in Requests \ {r} : answer'[s] = answer[s]
      BY <2>0, <2>4, <3>1 DEF Aggregate, Shape
    <3>3. Summary(answer'[r])
      BY <2>0, <3>2, SummariesFit
    <3> QED
      BY <1>0, <2>0, <3>2, <3>3 DEF Held, NoSubtask
  <2>5. ASSUME NEW model, NEW success, NEW ticket, Reports(r, model, success, ticket),
               UNCHANGED <<subtasks, answer>>, pc[r] \in {"dispatch", "queueing"},
               ticket \in {NoTicket} \cup ToSet(pushed')
        PROVE  Held(r)' /\ \A s \in Requests \ {r} : Quiet(s)
    <3>1. PICK entry :
            /\ entry = Entry(current[r].type, current[r].executor, model, success, ticket)
            /\ report' = [report EXCEPT ![r] = Append(@, entry)]
      BY <2>5 DEF Reports
    <3>2. /\ report'[r] = Append(report[r], entry) /\ current'[r] = NoSubtask
          /\ \A s \in Requests \ {r} : current'[s] = current[s] /\ report'[s] = report[s]
      BY <2>0, <2>5, <3>1 DEF Reports, Shape
    <3>3. Len(report'[r]) = Number(r)
      <4>1. report'[r] \in Seq(Entries)
        BY DEF DispatcherInv, Shape
      <4> QED
        BY <2>0, <3>2, <4>1 DEF Number
    <3>4. Number(r) <= Len(subtasks[r])
      BY <2>0, <2>5 DEF Progress
    <3>5. ASSUME NEW i \in DOMAIN report'[r]
          PROVE  report'[r][i].ticket \in {NoTicket} \cup ToSet(pushed')
      <4>1. \/ report'[r][i] = entry
            \/ i \in DOMAIN report[r] /\ report'[r][i] = report[r][i]
        BY <2>0, <3>2, <3>5
      <4> QED
        BY <1>0, <2>0, <2>5, <3>1, <4>1 DEF Held, Entry
    <3> QED
      BY <2>0, <2>5, <3>2, <3>3, <3>4, <3>5 DEF Held, NoAnswerYet, NoSubtask
  <2>6. CASE UNCHANGED <<subtasks, current, report, answer>>
    BY <1>1, <2>6
  <2>7. CASE \/ PlanRaises(r) \/ QueuePush(r) \/ QueueUnreadable(r) \/ QueueTruncate(r)
             \/ QueueSaveRaises(r) \/ CodexStep(r)
    BY <2>6, <2>7 DEF PlanRaises, QueuePush, QueueUnreadable, QueueTruncate, QueueSaveRaises,
                      CodexStep, own
  <2>8. CASE QueueWrite(r)
    BY <2>5, <2>8, WrittenIsPushed DEF QueueWrite, At
  <2>9. CASE Execute(r)
    <3>1. \E model, success : Reports(r, model, success, NoTicket)
      BY <2>9 DEF Execute
    <3> QED
      BY <2>5, <2>9, <3>1 DEF Execute, For, At
  <2>10. CASE CodexUnavailable(r)
    BY <2>5, <2>10 DEF CodexUnavailable, For, At
  <2>11. CASE CodexEnds(r)
    <3>1. CASE run[CodexRun(r)] = "raised"
      BY <2>6, <2>11, <3>1 DEF CodexEnds
    <3>2. CASE run[CodexRun(r)] # "raised"
      BY <2>5, <2>11, <3>2 DEF CodexEnds, For, At
    <3> QED
      BY <3>1, <3>2
  <2> QED
    BY <1>2, <2>1, <2>2, <2>3, <2>4, <2>7, <2>8, <2>9, <2>10, <2>11 DEF Step
<1>3. CASE \E r \in Requests : Step(r)
  BY <1>1, <1>2, <1>3 DEF HeldInv
<1>4. CASE ~\E r \in Requests : Step(r)
  <2>1. UNCHANGED own
    BY <1>4 DEF Next, UseQueue, CodexRuns, vars
  <2>2. \A s \in Requests : Quiet(s)
    BY <2>1 DEF own
  <2> QED
    BY <1>1, <2>2 DEF HeldInv
<1> QED
  BY <1>3, <1>4

\* What a request holds between its stages is what the functions it called made,
\* whatever the command line does to the queue meanwhile.
THEOREM HeldInvariant == Spec => []HeldInv
<1>1. HeldInv /\ DispatcherInv /\ DispatcherInv' /\ [Next]_vars => HeldInv'
  BY HeldNext
<1> QED
  BY <1>1, HeldInit, DispatcherInvariant, PTL DEF Spec

\* A subtask that goes to the providers has candidates of at least two of them.
\* Had it none, execute() would raise.
TwoProviders == \A r \in Requests : For(r, {"brain_only", "relay_api"}) =>
  \A provider \in Providers : \E m \in ToSet(Candidates(r)) : m \notin provider
LEMMA CandidatesSpread ==
  ASSUME DispatcherInv, HeldInv, NEW r \in Requests,
         For(r, {"brain_only", "relay_api"}), NEW provider \in Providers
  PROVE  \E m \in ToSet(Candidates(r)) : m \notin provider
<1> DEFINE c == current[r]
           d == c.decision
           chain == Chains[d.type][d.level]
<1>1. /\ pc[r] = "dispatch" /\ c.executor \in {"brain_only", "relay_api"} /\ c \in Chosen
      /\ PlaceOf(c.executor) \in AllowedPlaces(c.type) /\ Held(r)
  BY DEF DispatcherInv, RequestInv, Progress, For, At, HeldInv
<1>2. d.type = NormalizeType(c.type)
  <2>1. c # NoSubtask
    BY <1>1 DEF NoSubtask, Chosen
  <2> QED
    BY <1>1, <2>1 DEF Held, Routed
<1>3. c.type \notin CURSOR_TYPES \cup CODEX_TYPES
  <2>1. PlaceOf(c.executor) = "providers"
    BY <1>1 DEF PlaceOf
  <2>2. CURSOR_TYPES \cap BRAIN_ONLY_TYPES = {} /\ CODEX_TYPES \cap BRAIN_ONLY_TYPES = {}
        /\ CURSOR_TYPES \cap CODEX_TYPES = {}
    BY DEF CURSOR_TYPES, BRAIN_ONLY_TYPES, CODEX_TYPES
  <2> HIDE DEF c
  <2> QED
    BY <1>1, <2>1, <2>2 DEF AllowedPlaces
<1>4. d.type \in ProviderTypes \cup {"uncertain"}
  <2> HIDE DEF c, d
  <2> QED
    BY <1>2, <1>3 DEF NormalizeType, TaskTypes, ProviderTypes, CRITICAL_TASKS, CURSOR_TYPES,
                      CODEX_TYPES
<1>5. PICK ask : d = Route(ask)
  BY <1>1 DEF Chosen, Decisions
<1>6. d.type \in TaskTypes /\ d.level \in DOMAIN Chains[d.type]
      /\ ToSet(chain) \subseteq ToSet(Offer(d))
  BY <1>5, RouteFacts
<1>7. Split(chain)
  BY <1>4, <1>6, ChainsAre
<1>8. {chain[1], chain[2]} \subseteq ToSet(Offer(d)) \ {Queue}
  BY <1>6, <1>7 DEF Split, ToSet
<1>9. ToSet(Candidates(r)) = ToSet(Offer(d)) \ {Queue}
  BY <1>1, CandidatesFacts
<1> QED
  BY <1>7, <1>8, <1>9 DEF Split

\* The execution service is never left with the models of one provider only.
THEOREM ProvidersCanAnswer == Spec => []TwoProviders
<1>1. DispatcherInv /\ HeldInv => TwoProviders
  BY CandidatesSpread DEF TwoProviders
<1> QED
  BY <1>1, DispatcherInvariant, HeldInvariant, PTL

----------------------------------------------------------------------------
(* What is proved of the parts holds in the middle of dispatches *)

\* The theorems about the queue and about Codex, with this module's callers,
\* calls and variables in them.  An instance brings copies of its definitions;
\* the lemmas Same... say that these are the ones Dispatcher composes.
QP == INSTANCE CursorQueueProofs WITH Callers <- Requests \cup CommandLine
CP == INSTANCE CodexExecutorProofs WITH Runs <- Requests \X Positions, call <- run

LEMMA SameValues ==
  /\ \A tasks, status : Q!CountOf(tasks, status) = QP!CountOf(tasks, status)
  /\ \A tasks, id : Q!IndexOf(tasks, id) = QP!IndexOf(tasks, id)
  /\ \A tasks : Q!FirstPending(tasks) = QP!FirstPending(tasks)
  /\ Q!EmptyQueue = QP!EmptyQueue /\ Q!Idle = QP!Idle
  /\ Q!Queue = QP!Queue
<1>0. \A S : Q!Cardinality(S) = QP!Cardinality(S)
  BY DEF Q!Cardinality, QP!Cardinality
<1>1. \A tasks, status : Q!CountOf(tasks, status) = QP!CountOf(tasks, status)
  BY <1>0 DEF Q!CountOf, QP!CountOf
<1>2. \A tasks, id : Q!IndexOf(tasks, id) = QP!IndexOf(tasks, id)
  BY DEF Q!IndexOf, QP!IndexOf, Q!SelectInSeq, QP!SelectInSeq, Q!Min, QP!Min
<1>3. \A tasks : Q!FirstPending(tasks) = QP!FirstPending(tasks)
  BY DEF Q!FirstPending, QP!FirstPending, Q!SelectInSeq, QP!SelectInSeq, Q!Min, QP!Min
<1>4. Q!EmptyQueue = QP!EmptyQueue /\ Q!Idle = QP!Idle
  BY DEF Q!EmptyQueue, QP!EmptyQueue, Q!Idle, QP!Idle
<1>5. Q!Queue = QP!Queue
  BY DEF Q!Queue, QP!Queue, Q!Entry, QP!Entry, Q!Stats, QP!Stats, Q!Statuses, QP!Statuses
<1> QED BY <1>1, <1>2, <1>3, <1>4, <1>5
LEMMA SameChanges ==
  /\ \A q, id : Q!AfterPush(q, id) = QP!AfterPush(q, id)
  /\ \A q : Q!AfterPop(q) = QP!AfterPop(q)
  /\ \A q, id : Q!AfterDone(q, id) = QP!AfterDone(q, id)
  /\ Q!Loaded = QP!Loaded
  /\ Q!Readable <=> QP!Readable
  /\ \A q : Q!Overlaid(q) = QP!Overlaid(q)
<1>1. \A q, id : Q!AfterPush(q, id) = QP!AfterPush(q, id)
  BY SameValues DEF Q!AfterPush, QP!AfterPush
<1>2. \A q : Q!AfterPop(q) = QP!AfterPop(q)
  BY SameValues DEF Q!AfterPop, QP!AfterPop
<1>3. \A q, id : Q!AfterDone(q, id) = QP!AfterDone(q, id)
  BY SameValues DEF Q!AfterDone, QP!AfterDone
<1>4. Q!Loaded = QP!Loaded
  BY SameValues DEF Q!Loaded, QP!Loaded
<1>5. Q!Readable <=> QP!Readable
  BY SameValues DEF Q!Readable, QP!Readable
<1>6. \A q : Q!Overlaid(q) = QP!Overlaid(q)
  BY DEF Q!Overlaid, QP!Overlaid
<1> QED BY <1>1, <1>2, <1>3, <1>4, <1>5, <1>6
LEMMA SameSteps == 
  /\ Q!Init => QP!Init
  /\ [Q!Next]_(Q!vars) => [QP!Next]_(QP!vars)
<1>1. Q!Init => QP!Init
  BY SameValues DEF Q!Init, QP!Init
<1>2. \A c, op, id, q : Q!Load(c, op, id, q) <=> QP!Load(c, op, id, q)
  BY SameValues, SameChanges DEF Q!Load, QP!Load
<1>3. \A c : Q!Push(c) <=> QP!Push(c)
  BY <1>2, SameChanges DEF Q!Push, QP!Push
<1>4. \A c : Q!Pop(c) <=> QP!Pop(c)
  <2>0. \A S : Q!Cardinality(S) = QP!Cardinality(S)
    BY DEF Q!Cardinality, QP!Cardinality
  <2> QED
  BY <2>0, <1>2, SameValues, SameChanges DEF Q!Pop, QP!Pop
<1>5. \A c : Q!MarkDone(c) <=> QP!MarkDone(c)
  BY <1>2, SameValues, SameChanges DEF Q!MarkDone, QP!MarkDone
<1>6. \A c : Q!NothingToDo(c) <=> QP!NothingToDo(c)
  BY SameValues, SameChanges DEF Q!NothingToDo, QP!NothingToDo, Q!vars, QP!vars
<1>7. \A c : Q!LoadFails(c) <=> QP!LoadFails(c)
  BY SameValues, SameChanges DEF Q!LoadFails, QP!LoadFails, Q!vars, QP!vars
<1>8. \A c : Q!Truncate(c) <=> QP!Truncate(c)
  BY DEF Q!Truncate, QP!Truncate
<1>9. \A c : Q!Write(c) <=> QP!Write(c)
  BY SameValues, SameChanges DEF Q!Write, QP!Write
<1>10. \A c : Q!Crash(c) <=> QP!Crash(c)
  BY SameValues DEF Q!Crash, QP!Crash
<1>11. Q!Next <=> QP!Next
  BY <1>3, <1>4, <1>5, <1>6, <1>7, <1>8, <1>9, <1>10 DEF Q!Next, QP!Next
<1> QED BY <1>1, <1>11 DEF Q!vars, QP!vars
LEMMA SameProperties ==
  /\ QP!TypeOK <=> Q!TypeOK
  /\ QP!NoTaskListedTwice <=> Q!NoTaskListedTwice
  /\ QP!CountersBound <=> Q!CountersBound
  /\ QP!FileIsReplayOfCalls <=> Q!FileIsReplayOfCalls
<1>1. Q!Queues = QP!Queues
  BY SameValues, SameChanges DEF Q!Queues, QP!Queues
<1>2. Q!Calls = QP!Calls
  BY SameValues DEF Q!Calls, QP!Calls
<1>3. QP!TypeOK <=> Q!TypeOK
  BY <1>2, SameValues DEF QP!TypeOK, Q!TypeOK
<1>4. QP!NoTaskListedTwice <=> Q!NoTaskListedTwice
  BY <1>1 DEF QP!NoTaskListedTwice, Q!NoTaskListedTwice
<1>5. QP!CountersBound <=> Q!CountersBound
  BY <1>1, SameValues DEF QP!CountersBound, Q!CountersBound
<1>6. QP!FileIsReplayOfCalls <=> Q!FileIsReplayOfCalls
  <2>1. \A id : Q!StatusByHistory(id) = QP!StatusByHistory(id)
    BY DEF Q!StatusByHistory, QP!StatusByHistory, Q!ToSet, QP!ToSet
  <2>2. Q!Quiet <=> QP!Quiet
    BY SameValues DEF Q!Quiet, QP!Quiet
  <2> QED
    BY <2>1, <2>2, SameChanges DEF QP!FileIsReplayOfCalls, Q!FileIsReplayOfCalls
<1> QED
  BY <1>3, <1>4, <1>5, <1>6

\* A task is in every copy in the sense of the one module if it is in that of
\* the other.
LEMMA SameCopies ==
  /\ \A id : Q!NoCopyLacks(id) <=> QP!NoCopyLacks(id)
  /\ Q!Quiet <=> QP!Quiet
  /\ Q!ToSet(pushed) = QP!ToSet(pushed)
<1>1. Q!Queues = QP!Queues
  BY SameValues, SameChanges DEF Q!Queues, QP!Queues
<1>2. \A id : Q!NoCopyLacks(id) <=> QP!NoCopyLacks(id)
  BY <1>1, SameValues DEF Q!NoCopyLacks, QP!NoCopyLacks
<1>3. Q!Quiet <=> QP!Quiet
  BY SameValues DEF Q!Quiet, QP!Quiet
<1>4. Q!ToSet(pushed) = QP!ToSet(pushed)
  BY DEF Q!ToSet, QP!ToSet
<1> QED
  BY <1>2, <1>3, <1>4

LEMMA QueueMarkers ==
  /\ {Missing, Empty, Garbage} \cap QP!Queue = {}
  /\ Missing # Empty /\ Missing # Garbage /\ Empty # Garbage
  /\ MaxCrashes \in Nat
BY SameValues, DispatcherAssumption

\* Whatever dispatches and the command line do to the file at the same time, it
\* lists no task twice and its counters stay within their bounds; and while no
\* two calls overlap and none is cut short, it is the replay of their calls and
\* hands tasks out in order.
QueueHolds == Q!TypeOK /\ Q!NoTaskListedTwice /\ Q!CountersBound /\ Q!FileIsReplayOfCalls
\* What CursorQueueProofs shows of the queue file, with dispatches and the command
\* line as its callers.
THEOREM QueueHoldsInside == Spec => []QueueHolds
<1>1. QP!Spec => []QP!TypeOK
  BY QueueMarkers, QP!TypeCorrect
<1>2. QP!Spec => []QP!NoTaskListedTwice
  BY QueueMarkers, QP!NeverListedTwice
<1>3. QP!Spec => []QP!CountersBound
  BY QueueMarkers, QP!CountersTrusted
<1>4. QP!Spec => []QP!FileIsReplayOfCalls
  BY QueueMarkers, QP!SequentialReplay
<1>5. /\ QP!TypeOK /\ QP!NoTaskListedTwice /\ QP!CountersBound /\ QP!FileIsReplayOfCalls
      => QueueHolds
  BY SameProperties DEF QueueHolds
<1> QED
  BY <1>1, <1>2, <1>3, <1>4, <1>5, QueueInside, SameSteps, PTL DEF Q!Spec, QP!Spec

\* And the command line pops oldest first what dispatches pushed.
THEOREM QueueInOrderInside == Spec => Q!PopsInOrder
<1> DEFINE Oldest ==
      ~overlapped' /\ crashes = 0 /\ popped' # popped =>
        LET waiting == {i \in DOMAIN pushed : pushed[i] \notin Q!ToSet(popped) \cup finished}
        IN \E i \in waiting : /\ Q!Last(popped') = pushed[i]
                              /\ \A j \in waiting : i <= j
           OldestP ==
      ~overlapped' /\ crashes = 0 /\ popped' # popped =>
        LET waiting == {i \in DOMAIN pushed : pushed[i] \notin QP!ToSet(popped) \cup finished}
        IN \E i \in waiting : /\ QP!Last(popped') = pushed[i]
                              /\ \A j \in waiting : i <= j
<1>1. QP!Spec => QP!PopsInOrder
  BY QueueMarkers, QP!FirstInFirstOut
<1>2. OldestP => Oldest
  BY DEF Q!Last, QP!Last, Q!ToSet, QP!ToSet
<1>3. [OldestP]_(QP!vars) => [Oldest]_(Q!vars)
  BY <1>2 DEF Q!vars, QP!vars
<1>4. QP!PopsInOrder => [][OldestP]_(QP!vars)
  BY PTL DEF QP!PopsInOrder
<1>5. [][Oldest]_(Q!vars) => Q!PopsInOrder
  BY PTL DEF Q!PopsInOrder
<1> HIDE DEF Oldest, OldestP
<1> QED
  BY <1>1, <1>3, <1>4, <1>5, QueueInside, SameSteps, PTL DEF Q!Spec, QP!Spec

\* And a task whose push returned while nobody else was at work on the queue is
\* never lost, neither to later dispatches nor to the command line.
THEOREM QueueKeepsInside == Spec => Q!SettledTasksStay
<1> DEFINE Stay ==
      \A id \in Q!ToSet(pushed') :
        (IF id \in Q!ToSet(pushed) THEN Q!NoCopyLacks(id) ELSE Q!Quiet') => Q!NoCopyLacks(id)'
           StayP ==
      \A id \in QP!ToSet(pushed') :
        (IF id \in QP!ToSet(pushed) THEN QP!NoCopyLacks(id) ELSE QP!Quiet')
          => QP!NoCopyLacks(id)'
<1>1. QP!Spec => QP!SettledTasksStay
  BY QueueMarkers, QP!SettledStays
<1>2. StayP => Stay
  <2>1. /\ (\A id : Q!NoCopyLacks(id) <=> QP!NoCopyLacks(id))'
        /\ (Q!Quiet <=> QP!Quiet)'
        /\ (Q!ToSet(pushed) = QP!ToSet(pushed))'
    BY SameCopies, PTL
  <2> QED
    BY <2>1, SameCopies
<1>3. [StayP]_(QP!vars) => [Stay]_(Q!vars)
  BY <1>2 DEF Q!vars, QP!vars
<1>4. QP!SettledTasksStay => [][StayP]_(QP!vars)
  BY PTL DEF QP!SettledTasksStay
<1>5. [][Stay]_(Q!vars) => Q!SettledTasksStay
  BY PTL DEF Q!SettledTasksStay
<1> HIDE DEF Stay, StayP
<1> QED
  BY <1>1, <1>3, <1>4, <1>5, QueueInside, SameSteps, PTL DEF Q!Spec, QP!Spec

LEMMA SameCodex ==
  /\ C!Init => CP!Init
  /\ [C!Next]_(C!vars) => [CP!Next]_(CP!vars)
  /\ CP!TypeOK <=> C!TypeOK
  /\ CP!StrayWriterTimedOut <=> C!StrayWriterTimedOut
  /\ CP!LeftoverFileHasCause <=> C!LeftoverFileHasCause
<1>1. C!Init => CP!Init
  BY DEF C!Init, CP!Init, C!NoProcess, CP!NoProcess
<1>2. [C!Next]_(C!vars) => [CP!Next]_(CP!vars)
  BY DEF C!Next, CP!Next, C!vars, CP!vars, C!AllOver, CP!AllOver, C!Caller, CP!Caller,
     C!Program, CP!Program, C!Refuse, CP!Refuse, C!MakeMessageFile, CP!MakeMessageFile,
     C!Spawn, CP!Spawn, C!Collect, CP!Collect, C!TimeOut, CP!TimeOut,
     C!WriteMessage, CP!WriteMessage, C!Exit, CP!Exit, C!Ends, CP!Ends, C!Ended, CP!Ended,
     C!Exited, CP!Exited, C!Running, CP!Running, C!Succeeded, CP!Succeeded,
     C!Results, CP!Results
<1>3. CP!TypeOK <=> C!TypeOK
  BY DEF CP!TypeOK, C!TypeOK, C!Results, CP!Results, C!Processes, CP!Processes,
     C!NoProcess, CP!NoProcess, C!Running, CP!Running, C!Exited, CP!Exited
<1>4. /\ CP!StrayWriterTimedOut <=> C!StrayWriterTimedOut
      /\ CP!LeftoverFileHasCause <=> C!LeftoverFileHasCause
  BY DEF CP!StrayWriterTimedOut, C!StrayWriterTimedOut, CP!Ended, C!Ended, CP!Results,
     C!Results, CP!Running, C!Running, CP!LeftoverFileHasCause, C!LeftoverFileHasCause
<1> QED
  BY <1>1, <1>2, <1>3, <1>4

\* Over all subtasks of all requests, only a timeout leaves a Codex process at
\* work, and only a timeout or an exception leaves a message file.
CodexHolds == C!TypeOK /\ C!StrayWriterTimedOut /\ C!LeftoverFileHasCause
\* What CodexExecutorProofs shows of a run, of the runs of all subtasks.
THEOREM CodexHoldsInside == Spec => []CodexHolds
<1>1. CP!Spec => []CP!TypeOK
  BY CP!CodexTypeCorrect
<1>2. CP!Spec => []CP!StrayWriterTimedOut
  BY CP!OnlyTimeoutsLeaveWriters
<1>3. CP!Spec => []CP!LeftoverFileHasCause
  BY CP!LeftoverFilesExplained
<1>4. CP!TypeOK /\ CP!StrayWriterTimedOut /\ CP!LeftoverFileHasCause => CodexHolds
  BY SameCodex DEF CodexHolds
<1> QED
  BY <1>1, <1>2, <1>3, <1>4, CodexInside, SameCodex, PTL DEF C!Spec, CP!Spec

\* The types of all variables, those of the queue and of Codex included.
THEOREM DispatcherTypes == Spec => []TypeOK
<1>1. DispatcherInv /\ HeldInv /\ QueueHolds /\ CodexHolds => TypeOK
  <2> SUFFICES ASSUME DispatcherInv, HeldInv, QueueHolds, CodexHolds PROVE TypeOK
    OBVIOUS
  <2>1. Shape
    BY DEF DispatcherInv
  <2>2. Chosen \subseteq InHand
    BY RouteIsDecision DEF Chosen, InHand, Decisions
  <2>3. ASSUME NEW r \in Requests
        PROVE  /\ current[r] \in {NoSubtask} \cup InHand
               /\ Len(report[r]) <= Len(subtasks[r])
               /\ answer[r] # NoAnswerYet => Summary(answer[r])
    BY <2>2 DEF HeldInv, Held, Routed
  <2>4. ASSUME NEW r \in Requests, NEW i \in DOMAIN report[r] PROVE report[r][i] \in Entries
    BY <2>1, ElementOfSeq, LenProperties DEF Shape
  <2> QED
    BY <2>1, <2>3, <2>4 DEF TypeOK, Shape, QueueHolds, CodexHolds, Entries, Tickets, Summary
<1> QED
  BY <1>1, DispatcherInvariant, HeldInvariant, QueueHoldsInside, CodexHoldsInside, PTL

\* "Queued in Cursor Queue ... Run: python scripts/cursor_cli.py pop": while no
\* two calls on the queue overlap and none is cut short, every ticket the client
\* of an answered dispatch was given stands for a task of the file.
TicketsReachable ==
  Q!Quiet /\ ~overlapped /\ crashes = 0 =>
    \A r \in Requests : At(r, "answered") => \A id \in answer[r].cursor_tasks :
      \E i \in DOMAIN Q!Loaded.tasks : Q!Loaded.tasks[i].id = id
\* Every ticket the client is told of is that of a task in the file.
THEOREM TicketsAreReachable == Spec => []TicketsReachable
<1>1. DispatcherInv /\ HeldInv /\ QueueHolds => TicketsReachable
  <2> SUFFICES ASSUME DispatcherInv, HeldInv, QueueHolds, Q!Quiet, ~overlapped, crashes = 0,
                      NEW r \in Requests, pc[r] = "answered",
                      NEW id \in answer[r].cursor_tasks
               PROVE  \E i \in DOMAIN Q!Loaded.tasks : Q!Loaded.tasks[i].id = id
    BY DEF TicketsReachable, At
  <2>1. RequestInv(r) /\ Shape /\ Held(r) /\ pushed \in Seq(Ids)
    BY DEF DispatcherInv, QueueFits, HeldInv
  <2>2. id \in ToSet(tickets[r]) \ {NoTicket}
    BY <2>1 DEF RequestInv, Answered
  <2>3. PICK i \in Positions : id = tickets[r][i] /\ id # NoTicket
    BY <2>1, <2>2 DEF ToSet, Shape
  <2>4. i \in DOMAIN report[r]
    <3>1. ~(i = Number(r) \/ i > Number(r))
      BY <2>1, <2>3 DEF RequestInv, Traces, InHandTraces, Untouched
    <3>2. Len(report[r]) \in Nat /\ DOMAIN report[r] = 1..Len(report[r])
      BY <2>1, LenProperties DEF Shape
    <3> QED
      BY <3>1, <3>2, DispatcherAssumption DEF Number, Positions
  <2>5. id \in ToSet(pushed)
    BY <2>1, <2>3, <2>4 DEF RequestInv, Reported, Held
  <2>6. PICK k \in DOMAIN pushed : id = pushed[k]
    BY <2>5 DEF ToSet
  <2>7. Q!Loaded.tasks =
          [j \in DOMAIN pushed |-> [id |-> pushed[j], status |-> Q!StatusByHistory(pushed[j])]]
    BY DEF QueueHolds, Q!FileIsReplayOfCalls
  <2> QED
    BY <2>6, <2>7
<1> QED
  BY <1>1, DispatcherInvariant, HeldInvariant, QueueHoldsInside, PTL
=============================================================================
