---------------------------- MODULE TaskAnalysis ----------------------------
(***************************************************************************)
(* TaskAnalysis.from_dict: what is accepted as an analysis of a goal, from *)
(* the planner's model or from a client, and the normal form it is given.  *)
(*                                                                         *)
(* Every JSON value passes for a text, str() makes one of it; what counts  *)
(* is its length once stripped, what lower() does to it, and whether UTF-8 *)
(* can encode it (a JSON escape may be half a surrogate pair).  Where an   *)
(* array, an integer, a boolean or an object is asked for, anything else   *)
(* is Wrong.  A record of texts and lists is described by its rules.       *)
(***************************************************************************)
EXTENDS Lists, SequencesExt

CONSTANTS Wrong,          \* a JSON value of another type than the one asked for
          AllowedModels   \* the ids of the model catalog

Text(word, size) == [word |-> word, size |-> size, capital |-> FALSE, grows |-> 0, encodable |-> TRUE]
Word(word) == Text(word, 10)
Nothing == Text("", 0)        \* null, "", 0, false: what `value or ...` replaces
Spaces  == Text(" ", 0)       \* not empty before strip(), empty after

\* str.lower(): some capitals become two characters.
Lower(text) == [text EXCEPT !.capital = FALSE, !.size = @ + text.grows, !.grows = 0]

----------------------------------------------------------------------------
(* What comes in: a JSON object, with null where a key is missing *)

AnyText == [word : STRING, size : Nat, capital : BOOLEAN, grows : Nat, encodable : BOOLEAN]
Or(S)   == S \cup {Wrong}
Texts   == Or(Seq(AnyText))
RawCriterion ==
  [category : AnyText, criterion : AnyText, target_percent : Or(Int), verification : AnyText]
RawSubtask ==
  [title : AnyText, description : AnyText, task_type : AnyText, complexity : AnyText,
   technology_stack : Texts, acceptance_criteria : Texts, recommended_model : AnyText,
   fallback_models : Texts, binding_mode : AnyText]
RawRecommendation ==
  [model_id : AnyText, role : AnyText, reason : AnyText, strengths : Texts,
   limitations : Texts, binding_mode : AnyText]
RawAnalysis ==
  [goal : AnyText, scope : AnyText, goal_summary : AnyText, suggested_title : AnyText,
   description : AnyText, priority_reason : AnyText, reasoning : AnyText,
   planner_model : AnyText, task_type : AnyText, complexity : AnyText, priority : AnyText,
   technology_stack : Texts, tags : Texts, risks : Texts, clarification_questions : Texts,
   coverage_target_percent : Or(Int), acceptance_criteria : Or(Seq(Or(RawCriterion))),
   split_recommended : Or(BOOLEAN), subtasks : Or(Seq(Or(RawSubtask))),
   needs_clarification : Or(BOOLEAN), recommended_models : Or(Seq(Or(RawRecommendation)))]

\* What is of the wrong type is of no other: no list, and no record.  (The last
\* line is true of every literal, but the provers cannot see it.)
ASSUME WrongAssumption ==
  /\ Wrong \notin Seq(AnyText) /\ Wrong \notin Seq(Or(RawCriterion))
  /\ Wrong \notin Seq(Or(RawSubtask)) /\ Wrong \notin Seq(Or(RawRecommendation))
  /\ Wrong \notin RawCriterion /\ Wrong \notin RawSubtask /\ Wrong \notin RawRecommendation
  /\ Wrong \notin RawAnalysis
  /\ "deepseek/deepseek-chat" \in STRING

----------------------------------------------------------------------------
(* What each record must contain *)

COMPLEXITIES == {"T0", "T1", "T2", "T3", "T4"}
ANALYSIS_BINDING_MODES == {"EXECUTOR_MANAGED"}
TASK_PRIORITIES == {"low", "medium", "high", "urgent"}
TASK_TYPES ==
  {"architecture", "system_design", "deep_reasoning", "implementation", "debugging",
   "refactor", "uncertain", "boilerplate", "bulk_generation", "data_processing",
   "code_patch", "file_edit"}

List(least, most, item) == [least |-> least, most |-> most, item |-> item]
NoFields == [f \in {} |-> 0]

CriterionRules ==
  [texts |-> [category |-> 80, criterion |-> 1000, verification |-> 1000],
   choices |-> NoFields, lists |-> NoFields, percents |-> {"target_percent"}]

SubtaskRules ==
  [texts |-> [title |-> 120, description |-> 4000],
   choices |-> [task_type |-> TASK_TYPES, complexity |-> COMPLEXITIES,
                recommended_model |-> AllowedModels, binding_mode |-> ANALYSIS_BINDING_MODES],
   lists |-> [technology_stack |-> List(1, 12, 500), acceptance_criteria |-> List(1, 20, 1000),
              fallback_models |-> List(0, 5, 160)],
   percents |-> {}]

RecommendationRules ==
  [texts |-> [role |-> 120, reason |-> 1000],
   choices |-> [model_id |-> AllowedModels, binding_mode |-> ANALYSIS_BINDING_MODES],
   lists |-> [strengths |-> List(1, 10, 500), limitations |-> List(1, 10, 500)],
   percents |-> {}]

AnalysisRules ==
  [texts |-> [goal |-> 20000, goal_summary |-> 1000, suggested_title |-> 120,
              description |-> 10000, priority_reason |-> 1000, reasoning |-> 4000,
              planner_model |-> 160],
   choices |-> [task_type |-> TASK_TYPES, complexity |-> COMPLEXITIES,
                priority |-> TASK_PRIORITIES],
   lists |-> [technology_stack |-> List(1, 12, 500), tags |-> List(1, 12, 500),
              risks |-> List(0, 20, 1000), clarification_questions |-> List(0, 10, 1000)],
   percents |-> {"coverage_target_percent"}]

----------------------------------------------------------------------------
(* Validation *)

RequiredText(text, maximum) == text.size \in 1..maximum
Choice(text, choices) == RequiredText(text, 10000) /\ text.word \in choices
Items(value, least, most) == value # Wrong /\ Len(value) \in least..most
Strings(value, list) ==
  /\ Items(value, list.least, list.most)
  /\ \A text \in ToSet(value) : RequiredText(text, list.item)

Follows(value, rules) ==
  /\ value # Wrong
  /\ \A f \in DOMAIN rules.texts : RequiredText(value[f], rules.texts[f])
  /\ \A f \in DOMAIN rules.choices : Choice(value[f], rules.choices[f])
  /\ \A f \in DOMAIN rules.lists : Strings(value[f], rules.lists[f])
  /\ \A f \in rules.percents : value[f] \in 60..100

\* A missing goal or planner is filled in before it is checked.
Filled(raw) ==
  [raw EXCEPT !.goal = IF @ = Nothing THEN raw.goal_summary ELSE @,
              !.planner_model = IF @ = Nothing THEN Word("deepseek/deepseek-chat") ELSE @]

ValidSubtask(subtask) ==
  /\ Follows(subtask, SubtaskRules)
  /\ \A model \in ToSet(subtask.fallback_models) : Choice(model, AllowedModels)

ValidAnalysis(raw) ==
  /\ Follows(Filled(raw), AnalysisRules)
  /\ raw.scope.size <= 10000
  /\ Items(raw.acceptance_criteria, 1, 20)
  /\ \A c \in ToSet(raw.acceptance_criteria) : Follows(c, CriterionRules)
  /\ raw.split_recommended \in BOOLEAN
  /\ Items(raw.subtasks, 0, 12)
  /\ IF raw.split_recommended THEN Len(raw.subtasks) >= 2 ELSE raw.subtasks = <<>>
  /\ \A s \in ToSet(raw.subtasks) : ValidSubtask(s)
  /\ raw.needs_clarification \in BOOLEAN
  /\ raw.needs_clarification => raw.clarification_questions # <<>>
  /\ Items(raw.recommended_models, 1, 12)
  /\ \A m \in ToSet(raw.recommended_models) : Follows(m, RecommendationRules)

----------------------------------------------------------------------------
(* The analysis made of it *)

Each(Op(_), list) == [i \in DOMAIN list |-> Op(list[i])]
UniqueLists(value, rules) ==
  [f \in DOMAIN value |-> IF f \in DOMAIN rules.lists THEN Dedupe(value[f]) ELSE value[f]]

\* Mutant of Tags: duplicates are looked for before the case is folded.
TagsAsGiven(tags) == Each(Lower, Dedupe(tags))

Tags(tags) == Dedupe(Each(Lower, tags))

Normalised(raw) ==
  [UniqueLists(Filled(raw), AnalysisRules) EXCEPT
     !.tags = Tags(raw.tags),
     !.acceptance_criteria = Each(LAMBDA c : [c EXCEPT !.category = Lower(@)], @),
     !.subtasks = Each(LAMBDA s : UniqueLists(s, SubtaskRules), @),
     !.recommended_models = Each(LAMBDA m : UniqueLists(m, RecommendationRules), @)]

\* Every text that goes into the canonical JSON.
TextsOf(value, rules) ==
  {value[f] : f \in DOMAIN rules.texts \cup DOMAIN rules.choices}
    \cup UNION {ToSet(value[f]) : f \in DOMAIN rules.lists}
TextsOfAll(list, rules) == UNION {TextsOf(value, rules) : value \in ToSet(list)}
AllTexts(raw) ==
  TextsOf(Filled(raw), AnalysisRules) \cup {raw.scope}
    \cup TextsOfAll(raw.acceptance_criteria, CriterionRules)
    \cup TextsOfAll(raw.subtasks, SubtaskRules)
    \cup TextsOfAll(raw.recommended_models, RecommendationRules)

\* content_hash is the SHA-256 of the canonical JSON in UTF-8, which holds all of
\* the normal form: two analyses have the same hash when that is the same.
Hashable(raw) == \A text \in AllTexts(raw) : text.encodable
ContentHash(raw) == Normalised(raw)

\* "unsupported ...: <value>" may be a message UTF-8 cannot encode either.  (Of an
\* analysis with one fault; with several, the first one makes the message.)
Members(list) == IF list = Wrong THEN {} ELSE ToSet(list) \ {Wrong}
Quoted(value, rules) ==
  {value[f] : f \in {f \in DOMAIN rules.choices : value[f].size \in 1..10000
                       /\ value[f].word \notin rules.choices[f]}}
UnsayableError(raw) ==
  \E text \in Quoted(raw, AnalysisRules)
                \cup UNION {Quoted(s, SubtaskRules) : s \in Members(raw.subtasks)}
                \cup UNION {Quoted(m, RecommendationRules) : m \in Members(raw.recommended_models)}
                \cup {m \in UNION {Members(s.fallback_models) : s \in Members(raw.subtasks)} :
                        m.word \notin AllowedModels} :
    ~text.encodable
=============================================================================
