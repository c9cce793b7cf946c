----------------------------- MODULE MCMemory ------------------------------
(* Instances of Memory for TLC.                                             *)
EXTENDS Memory

CONSTANTS caller1, caller2, me, you, apple, berry, cherry, password

Text(names) == [i \in DOMAIN names |-> Word(names[i])]

\* Parts of one another, and one that must not be stored.
SomeTexts ==
    {Text(<<apple, berry>>), Text(<<apple, berry, cherry>>), Text(<<berry, cherry>>), Text(<<apple, password>>)}

\* What another user has.
Theirs == Text(<<apple, berry>>)

\* Two sentences to remember; one with a secret beside it.
SomeTasks ==
    {<<[text |-> Text(<<apple, berry>>), keyword |-> TRUE],
       [text |-> Text(<<berry, cherry>>), keyword |-> TRUE]>>,
     <<[text |-> Text(<<apple, berry>>), keyword |-> TRUE],
       [text |-> Text(<<apple, password>>), keyword |-> FALSE]>>}

Configured == {<<"sqlite">>, <<"mem0", "vector">>}
=============================================================================
