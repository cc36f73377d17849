---------------------------- MODULE MCDispatcher ----------------------------
EXTENDS Dispatcher

MCPrompts == {{}, {"long"}}

\* A type no table knows comes alone.
MCReplies == [split : BOOLEAN,
              subtasks : SeqOf({"test", NoHint}, MaxSubtasks) \cup {<<OtherType>>},
              form : {"whole", "prose", "cut"}, braces : {"none", "empty", "other"}]

\* What max_tokens cuts off.
MCCutReplies == {reply \in MCReplies : reply.form = "cut"}

\* Keywords of two categories, as many of the one as of the other; too few.
MCTexts == { [scores |-> ("code_patch" :> 3) @@ ("file_edit" :> 3), short |-> TRUE],
             [scores |-> ("boilerplate" :> 2), short |-> TRUE] }

MCAnswers == [type : {"architecture"}, level : {OtherLevel}, confident : BOOLEAN]
=============================================================================
