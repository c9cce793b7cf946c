---------------------------- MODULE JsonExtract ----------------------------
(***************************************************************************)
(* How a JSON object is found in the text a model answered: json_parser.py  *)
(* of the legacy loop and agent/parser.py of the engine.                    *)
(*                                                                         *)
(* A text is a sequence of tokens.  Commas, colons and blanks are left out: *)
(* a token is a brace, the start of a member whose value is an object       *)
(* ("call" for the key "tool_call", "key" for another), a whole member      *)
(* without braces, a whole member with a brace in its string, a fence       *)
(* (three backquotes, and the line end that opens a block), a JSON value    *)
(* that is no object, or a word of prose.                                   *)
(*                                                                         *)
(* A definition named A_B is A with a bug, and no part of the model.        *)
(***************************************************************************)
EXTENDS Integers, Sequences, FiniteSets

Tokens == {"{", "}", "call", "key", "member", "text{", "text}", "fence", "value", "word"}

None == [first |-> 0, last |-> 0]

Span(i, j) == [first |-> i, last |-> j]

\* What looks like a brace to code that reads characters.
Opens(token) == token \in {"{", "text{"}
Closes(token) == token \in {"}", "text}"}

Least(S) == CHOOSE i \in S : \A j \in S : i <= j
Greatest(S) == CHOOSE i \in S : \A j \in S : j <= i

\* Nesting by the braces that are JSON.
Depth(t, i, j) ==
    Cardinality({k \in i..j : t[k] = "{"}) - Cardinality({k \in i..j : t[k] = "}"})

\* json.loads accepts the tokens from i to j, and gives an object.
IsObject(t, i, j) ==
    /\ i < j /\ t[i] = "{" /\ t[j] = "}"
    /\ Depth(t, i, j) = 0
    /\ \A k \in i..j - 1 : Depth(t, i, k) > 0
    /\ \A k \in i..j : t[k] \notin {"fence", "value", "word"}
    /\ \A k \in i..j - 1 : t[k] \in {"call", "key"} <=> t[k + 1] = "{"

\* The object has the key at its top level.  Calls that are the entries of a list
\* "tool_calls" are left out: no text here has such a member.
HasCall(t, o) ==
    \E k \in o.first..o.last : t[k] = "call" /\ Depth(t, o.first, k) = 1

Whole(t) == IF IsObject(t, 1, Len(t)) THEN Span(1, Len(t)) ELSE None

\* The block between the first fence and the next one.
Fenced(t) ==
    LET fences == {k \in DOMAIN t : t[k] = "fence"}
        opening == Least(fences)
        closing == Least(fences \ {opening})
    IN  IF Cardinality(fences) >= 2 /\ IsObject(t, opening + 1, closing - 1)
        THEN Span(opening + 1, closing - 1) ELSE None

\* Bug: the object is taken to end at the first closing brace.
Matching_First(t, i) ==
    LET ends == {j \in i..Len(t) : Closes(t[j])}
    IN  IF ends = {} THEN 0 ELSE Least(ends)

\* Where counting braces from i comes back to zero; a string is no exception.
Matching(t, i) ==
    LET count(j) == Cardinality({k \in i..j : Opens(t[k])}) - Cardinality({k \in i..j : Closes(t[k])})
        ends == {j \in i..Len(t) : count(j) = 0}
    IN  IF ends = {} THEN 0 ELSE Least(ends)

\* The object that starts at i, if the counted end is the end of one.
Counted(t, i) ==
    LET j == Matching(t, i)
    IN  IF j # 0 /\ IsObject(t, i, j) THEN Span(i, j) ELSE None

\* _try_parse_embedded_tool_calls: back from the first marker to a brace.
Embedded(t) ==
    LET marks == {k \in DOMAIN t : t[k] = "call"}
        before == {k \in DOMAIN t : Opens(t[k]) /\ k < Least(marks)}
    IN  IF marks = {} \/ before = {} THEN None ELSE Counted(t, Greatest(before))

\* _try_extract_first_json.
FirstObject(t) ==
    LET starts == {k \in DOMAIN t : Opens(t[k])}
    IN  IF starts = {} THEN None ELSE Counted(t, Least(starts))

\* Strategies in their order: the first that finds something decides.
FirstOf(found) ==
    LET some == {k \in DOMAIN found : found[k] # None}
    IN  IF some = {} THEN None ELSE found[Least(some)]

\* parse_llm_response: the object it reads tool calls from.
ParseLegacy(t) == FirstOf(<<Whole(t), Fenced(t), Embedded(t)>>)

\* OutputParser.parse before validation; JSON that is no object is an error.
ParseOutput(t) ==
    IF t = <<"value">> THEN None ELSE FirstOf(<<Whole(t), Fenced(t), FirstObject(t)>>)

----------------------------------------------------------------------------

\* The objects of a text that are not part of a larger one.
Objects(t) ==
    LET all == {o \in [first : DOMAIN t, last : DOMAIN t] : IsObject(t, o.first, o.last)}
    IN  {o \in all : \A p \in all : ~(p.first < o.first /\ o.last < p.last)}

BracesOutside(t, o) == {k \in DOMAIN t \ o.first..o.last : Opens(t[k]) \/ Closes(t[k])}

\* A text with one object whose strings have no braces, and prose around it
\* without braces or fences.
Plain(t) ==
    \E o \in Objects(t) :
        /\ BracesOutside(t, o) = {}
        /\ \A k \in DOMAIN t : t[k] \notin {"text{", "text}", "fence"}
=============================================================================
