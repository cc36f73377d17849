----------------------------- MODULE Decomposer -----------------------------
(***************************************************************************)
(* decompose(): what subtasks become of a prompt.  A heuristic decides     *)
(* whether a language model is asked, and four parsers, one after the      *)
(* other, try to read its reply.  A subtask stands for its type hint, a    *)
(* prompt for the marks the heuristic looks for.  A reply has              *)
(*   split     whether it says "split": true, with subtasks, if it is read *)
(*             as a whole, that are a list of objects                      *)
(*   subtasks  the hints of the subtasks it writes out in full             *)
(*   form      "whole" (bare or in a closed fence), "prose" (words around  *)
(*             the object) or "cut" (stopped at max_tokens)                *)
(*   braces    what the first innermost braces within its texts enclose:   *)
(*             "none" (there are none), "empty" (JSON that says nothing of a *)
(*             split, such as {}) or "other" (no JSON)                       *)
(* force=True, and the second question it leads to, have no caller.        *)
(***************************************************************************)
EXTENDS Sequences, TLC

CONSTANT NoHint   \* no type hint, or an empty one

TYPE_HINT_ALIASES ==
  [h \in {"testing", "test", "tests", "unit_test"} |-> "bulk_generation"]
    @@ ("system_design" :> "architecture")

Aliased(hint) ==
  IF hint \in DOMAIN TYPE_HINT_ALIASES THEN TYPE_HINT_ALIASES[hint] ELSE hint

\* _should_consider_split: over 500 characters, an enumeration, a sentence that
\* goes on with "then", an "additionally", or both halves of the Chinese "first
\* ... and then".
ShouldConsiderSplit(marks) ==
  \/ marks \cap {"long", "enumeration", "then", "additionally"} # {}
  \/ {"first", "and_then"} \subseteq marks

\* The whole prompt is its own only subtask.
Single == <<NoHint>>

\* _result_from_data: without a true "split" there is one subtask; with it,
\* there are as many as are listed, perhaps none.
FromData(split, hints) ==
  IF split THEN [i \in DOMAIN hints |-> Aliased(hints[i])] ELSE Single

\* Tier 3 of _parse_json takes the first braces that have no braces inside: those
\* of a text, else the first subtask, else the reply itself.
SaysNothingOfSplit(reply) ==
  \/ reply.braces = "empty"
  \/ reply.braces = "none" /\ reply.subtasks # <<>>

\* _parse_json and _result_from_data.  When what tier 3 finds is no JSON, or it
\* finds nothing, tier 4 recovers "split", and never "subtasks".
Read(reply) ==
  CASE reply.form = "whole" -> FromData(reply.split, reply.subtasks)
    [] reply.form # "whole" /\ SaysNothingOfSplit(reply) -> Single
    [] OTHER -> FromData(reply.split, <<>>)

NoReply == [form |-> "none"]   \* the call failed, or its answer was empty

\* The hints of the subtasks decompose() returns.
Decomposed(marks, reply) ==
  IF ShouldConsiderSplit(marks) /\ reply # NoReply THEN Read(reply) ELSE Single
=============================================================================
