----------------------------- MODULE Classifier -----------------------------
(***************************************************************************)
(* How the dispatcher finds the type and complexity of a subtask: by the   *)
(* decomposer's hint, else by keywords (l1_classifier.py), else by asking  *)
(* a language model (l2_classifier.py).                                    *)
(*                                                                         *)
(* A prompt has `scores`, the number of keywords found for each category   *)
(* of which any was found, and is `short` below 120 characters.  An answer *)
(* of the model has a type, a complexity (a number, a word being the one   *)
(* it stands for, or OtherLevel) and whether its confidence is a number.   *)
(* Confidences are in thousandths.                                         *)
(***************************************************************************)
EXTENDS RoutingTable

CURSOR_TYPES == {"code_patch", "file_edit"}

\* KEYWORD_MAP: the categories in their order, with the number of keywords.
Categories == <<"architecture", "implementation", "debugging", "refactor", "boilerplate",
                "bulk_generation", "data_processing", "code_patch", "file_edit">>
KEYWORD_MAP == [c \in ToSet(Categories) |->
  CASE c \in {"architecture", "debugging"} -> 19
    [] c \in {"implementation", "bulk_generation"} -> 18
    [] c \in {"boilerplate", "data_processing"} -> 17
    [] c = "refactor" -> 16  [] c = "code_patch" -> 14  [] c = "file_edit" -> 11]

Confidence(score, total) ==
  CASE score >= 3 -> Min({900, 700 + (200 * score) \div total})
    [] score = 2 -> Min({750, 550 + (200 * score) \div total})
    [] OTHER -> Min({550, 300 + (250 * score) \div total})

NotSure == "not_sure"   \* classify_l1 returns None
Threshold == 700

\* The category with most keywords, the first of them at a tie, if that is
\* enough to be sure.
ClassifyL1(scores) ==
  IF DOMAIN scores = {} THEN NotSure
  ELSE LET found == Keep(Categories, DOMAIN scores)
           more  == {pair \in (DOMAIN scores) \X (DOMAIN scores) :
                       scores[pair[1]] > scores[pair[2]]}
           best  == FirstBest(found, more)
       IN IF Confidence(scores[best], KEYWORD_MAP[best]) < Threshold THEN NotSure ELSE best

NormalizeComplexity(value) == IF value = OtherLevel THEN 2 ELSE Max({0, Min({4, value})})

Verdict(type, level) == [type |-> type, level |-> level]
NoAnswer == [confident |-> FALSE]   \* the call failed, or nothing could be read

\* A failure, also that of a confidence which is no number, is a verdict too.
ClassifyL2(answer) ==
  IF ~answer.confident THEN Verdict("uncertain", 2)
  ELSE Verdict(answer.type, NormalizeComplexity(answer.level))

\* _classify of a subtask without a hint.
Classified(prompt, answer) ==
  LET l1 == ClassifyL1(prompt.scores)
  IN IF l1 = NotSure THEN ClassifyL2(answer)
     ELSE Verdict(l1, IF l1 \in CURSOR_TYPES /\ prompt.short THEN 0 ELSE 2)
=============================================================================
