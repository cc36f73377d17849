------------------------------ MODULE MCGateway ------------------------------
EXTENDS Gateway

MCModels == {"opus", "flash"}

Capital(word, size) == [Text(word, size) EXCEPT !.capital = TRUE]
Turkish(word, size) == [Capital(word, size) EXCEPT !.grows = 1]
Half(word) == [Word(word) EXCEPT !.encodable = FALSE]

Times(n, text) == [i \in 1..n |-> Text(text, i)]   \* n different texts

Criterion == [category |-> Word("error"), criterion |-> Word("c"), target_percent |-> 80,
              verification |-> Word("v")]
Recommendation == [model_id |-> Word("opus"), role |-> Word("r"), reason |-> Word("r"),
                   strengths |-> <<Word("s")>>, limitations |-> <<Word("l")>>,
                   binding_mode |-> Word("EXECUTOR_MANAGED")]
Subtask == [title |-> Word("t"), description |-> Word("d"), task_type |-> Word("refactor"),
            complexity |-> Word("T2"), technology_stack |-> <<Word("py")>>,
            acceptance_criteria |-> <<Word("c")>>, recommended_model |-> Word("flash"),
            fallback_models |-> <<Word("opus"), Word("opus")>>,
            binding_mode |-> Word("EXECUTOR_MANAGED")]

Plain ==
  [goal |-> Text("goal", 20), scope |-> Nothing, goal_summary |-> Word("summary"),
   suggested_title |-> Word("title"), description |-> Word("d"), priority_reason |-> Word("r"),
   reasoning |-> Word("r"), planner_model |-> Nothing, task_type |-> Word("refactor"),
   complexity |-> Word("T2"), priority |-> Word("high"), technology_stack |-> <<Word("py")>>,
   tags |-> <<Word("api")>>, risks |-> <<>>, clarification_questions |-> <<>>,
   coverage_target_percent |-> 80, acceptance_criteria |-> <<Criterion>>,
   split_recommended |-> FALSE, subtasks |-> <<>>, needs_clarification |-> FALSE,
   recommended_models |-> <<Recommendation>>]

Split(subtasks) == [Plain EXCEPT !.split_recommended = TRUE, !.subtasks = subtasks]

\* Accepted, each in need of another part of the normal form.
Accepted ==
  { Plain,
    Split(<<Subtask, [Subtask EXCEPT !.technology_stack = <<Word("py"), Word("py")>>]>>),
    [Plain EXCEPT !.tags = <<Capital("api", 10), Word("api"), Word("db")>>],
    [Plain EXCEPT !.tags = <<Turkish("istanbul", 499)>>],
    [Plain EXCEPT !.needs_clarification = TRUE, !.clarification_questions = Times(10, "q"),
                  !.coverage_target_percent = 60, !.risks = <<Text("risk", 1000)>>] }

\* lower() makes them longer than they may be; UTF-8 cannot hold them.
Overgrown ==
  { [Plain EXCEPT !.tags = <<Turkish("istanbul", 500)>>],
    [Plain EXCEPT !.acceptance_criteria = <<[Criterion EXCEPT !.category = Turkish("izmir", 80)]>>] }
Unhashable == {[Plain EXCEPT !.reasoning = Half("r")], Split(<<Subtask, [Subtask EXCEPT !.title = Half("t")]>>)}

\* One step past each kind of limit.
Rejected ==
  { [Plain EXCEPT !.tags = <<>>], [Plain EXCEPT !.tags = Times(13, "tag")],
    [Plain EXCEPT !.tags = <<Text("tag", 501)>>], [Plain EXCEPT !.tags = Wrong],
    [Plain EXCEPT !.suggested_title = Text("title", 121)], [Plain EXCEPT !.reasoning = Spaces],
    [Plain EXCEPT !.coverage_target_percent = 59], [Plain EXCEPT !.coverage_target_percent = Wrong],
    [Plain EXCEPT !.task_type = Word("gardening")], [Plain EXCEPT !.priority = Half("h")],
    [Plain EXCEPT !.acceptance_criteria = <<[Criterion EXCEPT !.target_percent = 101]>>],
    [Plain EXCEPT !.acceptance_criteria = <<Wrong>>],
    [Plain EXCEPT !.split_recommended = TRUE], Split(<<Subtask>>),
    [Plain EXCEPT !.subtasks = <<Subtask, Subtask>>],
    Split(<<Subtask, [Subtask EXCEPT !.fallback_models = <<Word("gpt")>>]>>),
    Split(<<Subtask, [Subtask EXCEPT !.fallback_models = <<Half("gpt")>>]>>),
    [Plain EXCEPT !.needs_clarification = TRUE], [Plain EXCEPT !.needs_clarification = Wrong],
    [Plain EXCEPT !.recommended_models = <<[Recommendation EXCEPT !.model_id = Half("m")]>>] }

MCReplies == Accepted \cup Overgrown \cup Unhashable \cup Rejected
MCAnalyses == {Wrong, Plain, [Plain EXCEPT !.goal = Spaces]} \cup Unhashable \cup Rejected

MCGoals == [goal : {Text("goal", 9), Text("goal", 20), Text("goal", 20001)}, scope : {Nothing}]
             \cup {[goal |-> Text("goal", 20), scope |-> scope] : scope \in {Text("s", 10001), Wrong}}
==============================================================================
