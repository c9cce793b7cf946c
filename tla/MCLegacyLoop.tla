---------------------------- MODULE MCLegacyLoop ---------------------------
(* Instances of LegacyLoop for TLC.                                         *)
EXTENDS LegacyLoop, SequencesExt

CONSTANT MaxText

\* All short texts, and some in which the call comes after another object or
\* in a block.
ShortTexts ==
    BoundedSeq(Tokens, MaxText) \cup
    {<<"{", "key", "{", "member", "}", "call", "{", "}", "}">>,
     <<"word", "{", "call", "{", "member", "}", "key", "{", "}", "}", "word">>,
     <<"fence", "{", "call", "{", "}", "}", "fence", "word">>,
     <<"word", "{", "text}", "call", "{", "}", "}">>,
     <<"call", "{", "call", "{", "}", "}">>}

\* One of each kind: an answer, a call alone, a call in prose.
SomeTexts ==
    {<<"word">>, <<"{", "call", "{", "}", "}">>, <<"word", "{", "call", "{", "}", "}">>}
=============================================================================
