------------------------------- MODULE Memory -------------------------------
(***************************************************************************)
(* Long-term memory: MemoryManager and its extractor (memory/manager.py,    *)
(* memory/extractor.py) over one of two layouts of backends, the SQLite     *)
(* backend alone or the composite of Mem0 and the vector backend            *)
(* (memory/sqlite_backend.py, composite.py, vector.py, mem0_store.py).      *)
(*                                                                         *)
(* A text is a sequence of words; a merge ends the last word of its first   *)
(* half with a semicolon.  Callers of one manager run in threads and        *)
(* interleave at the calls of the backends; a search is one step.  Letter   *)
(* case, explicit keys, metadata, decay and collisions of the hashed        *)
(* vectors are left out.                                                    *)
(*                                                                         *)
(* A definition named A_B is A with a bug, and no part of the model.        *)
(***************************************************************************)
EXTENDS Integers, SequencesExt, Picked

CONSTANTS
    Layouts,   \* the backends in use: <<"sqlite">>, <<"mem0", "vector">>
    Callers,   \* threads that use the manager
    User,      \* the user they work for
    Other,     \* another user
    Nobody,    \* a model value: no conflict
    Names,     \* words
    Secret,    \* the word that contains_sensitive finds
    Foreign,   \* the text that another user has stored
    Texts,     \* what callers add, and search for
    Tasks,     \* what maybe_add_from_task is given: sequences of sentences
    Threshold, \* similarity_threshold, in percent
    Dedup,     \* dedup_threshold, in percent
    Limit,     \* limit of a user's search
    MaxLen,    \* bound: words of a stored text
    MaxAdds    \* bound: additions begun

\* A text: its words as split() sees them, with their semicolons.
TextType == Seq([name : Names, semi : BOOLEAN])

ASSUME ConstantsAssumption ==
    /\ Layouts \subseteq {<<"sqlite">>, <<"mem0", "vector">>}
    /\ User # Other
    /\ {Threshold, Dedup} \subseteq 0..100
    /\ Limit \in Nat \ {0} /\ {MaxLen, MaxAdds} \subseteq Nat
    /\ Texts \cup {Foreign} \subseteq TextType \ {<<>>}
    /\ \A i \in DOMAIN Foreign : Foreign[i].name # Secret
    /\ Nobody \notin TextType
    /\ Tasks \subseteq Seq([text : Texts, keyword : BOOLEAN])

VARIABLES
    layout,  \* the backends in use, in their order
    stored,  \* what each backend holds: users and texts, oldest first
    caller,  \* what each caller is doing
    owed,    \* the texts of User acknowledged as stored and not given up since
    adds     \* additions begun

vars == <<layout, stored, caller, owed, adds>>

Backends == {"sqlite", "mem0", "vector"}

----------------------------------------------------------------------------
(* Texts.                                                                   *)

\* A word without a semicolon.
Word(name) == [name |-> name, semi |-> FALSE]

WordsOf(t) == {t[i] : i \in DOMAIN t}
NamesOf(t) == {t[i].name : i \in DOMAIN t}

\* contains_sensitive.
IsSensitive(t) == Secret \in NamesOf(t)

\* _text_jaccard, in percent and rounded down.
Overlap(s, t) ==
    IF s = <<>> \/ t = <<>> THEN 0
    ELSE (100 * Cardinality(WordsOf(s) \cap WordsOf(t))) \div Cardinality(WordsOf(s) \cup WordsOf(t))

\* _text_overlap is more than so many percent.
OverlapMore(s, t, percent) ==
    100 * Cardinality(WordsOf(s) \cap WordsOf(t)) > percent * Cardinality(WordsOf(s) \cup WordsOf(t))

Conflicts(s, t) == OverlapMore(s, t, Threshold)
NearlySame(s, t) == OverlapMore(s, t, 90)

\* Bug: when the texts differ the new one alone is kept.
Merge_NewOnly(existing, new) == new

\* _merge_texts: the longer of two nearly identical texts, or both.  Words count as
\* equally long.
Merge(existing, new) ==
    IF NearlySame(existing, new)
    THEN IF Len(existing) >= Len(new) THEN existing ELSE new
    ELSE [i \in DOMAIN existing |-> [name |-> existing[i].name,
                                     semi |-> existing[i].semi \/ i = Len(existing)]] \o new

----------------------------------------------------------------------------
(* The backends.                                                            *)

\* What User has among the entries of a backend.
TextsOf(entries) ==
    LET mine == Pick(entries, {i \in DOMAIN entries : entries[i].user = User})
    IN  [i \in DOMAIN mine |-> mine[i].text]

TextsIn(b) == TextsOf(stored[b])

FirstFew(s, n) == SubSeq(s, 1, IF Len(s) < n THEN Len(s) ELSE n)

\* LIKE: query is a substring of t.
IsIn(query, t) ==
    \E k \in 0..Len(t) - Len(query) :
        \A i \in DOMAIN query :
            /\ t[k + i].name = query[i].name
            /\ i < Len(query) \/ query[i].semi => t[k + i].semi = query[i].semi

\* search_agent_memories: the newest rows with a term, as places in rows.
Newest(rows, term, limit) ==
    LET with == {i \in DOMAIN rows : IsIn(term, rows[i])}
    IN  {i \in with : Cardinality({j \in with : j > i}) < limit}

\* Bug: a query that is in no memory as a whole finds nothing.
SqliteSearch_WholeOnly(query, limit) ==
    LET rows == TextsIn("sqlite")
        found == Newest(rows, query, limit)
        places == Ranked(found, {p \in found \X found : p[1] > p[2]})
    IN  [n \in DOMAIN places |-> rows[places[n]]]

\* Those with the whole query, or else those with its words, one word after the
\* other, a row once; each time the newest first.
SqliteSearch(query, limit) ==
    LET rows == TextsIn("sqlite")
        terms == IF Newest(rows, query, limit) # {} THEN <<query>>
                 ELSE [k \in DOMAIN query |-> <<Word(query[k].name)>>]
        found == UNION {Newest(rows, terms[k], limit) : k \in DOMAIN terms}
        term(i) == CHOOSE k \in DOMAIN terms : /\ i \in Newest(rows, terms[k], limit)
                                               /\ \A l \in 1..k - 1 : i \notin Newest(rows, terms[l], limit)
        before(i, j) == term(i) < term(j) \/ (term(i) = term(j) /\ i > j)
        places == Ranked(found, {p \in found \X found : before(p[1], p[2])})
    IN  FirstFew([n \in DOMAIN places |-> rows[places[n]]], limit)

\* The product of the counts of their words.
Dot(s, t) == Cardinality({p \in (DOMAIN s) \X (DOMAIN t) : s[p[1]].name = t[p[2]].name})

\* By the cosine of the word counts, the older first among equals.
VectorSearch(query, limit) ==
    LET rows == TextsIn("vector")
        found == {i \in DOMAIN rows : Dot(query, rows[i]) > 0}
        score(i, j) == Dot(query, rows[i]) * Dot(query, rows[i]) * Dot(rows[j], rows[j])
        before(i, j) == score(i, j) > score(j, i) \/ (score(i, j) = score(j, i) /\ i < j)
        places == Ranked(found, {p \in found \X found : before(p[1], p[2])})
    IN  FirstFew([n \in DOMAIN places |-> rows[places[n]]], limit)

\* EXTERNAL: Mem0 answers with some of what it has.
Mem0Searches(limit) ==
    LET rows == TextsIn("mem0")
    IN  {FirstFew(Pick(rows, S), limit) : S \in SUBSET DOMAIN rows}

\* What a backend may answer.
Searches(b, query, limit) ==
    IF b = "sqlite" THEN {SqliteSearch(query, limit)}
    ELSE IF b = "vector" THEN {VectorSearch(query, limit)} ELSE Mem0Searches(limit)

IsDuplicate(t, u) == Overlap(t, u) >= Dedup

\* The places of a list of results that stay: those of no duplicate of a text
\* that stays before it.
Staying(results) ==
    LET stays[i \in DOMAIN results] ==
            ~ \E j \in 1..i - 1 : IsDuplicate(results[i], results[j]) /\ stays[j]
    IN  {i \in DOMAIN results : stays[i]}

\* The primary's results, then those of the secondary, as far as they add something.
Merged(primary, secondary) == Pick(primary \o secondary, Staying(primary \o secondary))

\* What backend.search may answer when the backends in down fail; a single
\* backend that fails raises, which is <<>> to its callers.
Answers(query, limit, down) ==
    LET found == [i \in DOMAIN layout |->
                    IF layout[i] \in down THEN {<<>>} ELSE Searches(layout[i], query, limit)]
    IN  IF Len(layout) = 1 THEN found[1]
        ELSE {FirstFew(Merged(p, s), limit) : p \in found[1], s \in found[2]}

\* Bug: the key is not looked up.
Added_NoKey(b, t) == Append(stored[b], [user |-> User, text |-> t])

\* The SQLite backend has one row per text, an addition makes it the newest.
Added(b, t) ==
    LET e == [user |-> User, text |-> t]
        others == {i \in DOMAIN stored[b] : b = "sqlite" => stored[b][i] # e}
    IN  Append(Pick(stored[b], others), e)

\* Mem0 has no removal, the others remove the oldest.
Removed(b, t) ==
    LET e == [user |-> User, text |-> t]
        others == {i \in DOMAIN stored[b] :
                      b = "mem0" \/ stored[b][i] # e \/ \E j \in 1..i - 1 : stored[b][j] = e}
    IN  Pick(stored[b], others)

----------------------------------------------------------------------------

Idle(queue) ==
    [stage |-> "idle", text |-> <<>>, strategy |-> "skip", conflict |-> Nobody, what |-> <<>>,
     at |-> 1, wrote |-> FALSE, queue |-> queue]

\* A text covers another one that it has all words of.
Covers(t, u) == NamesOf(u) \subseteq NamesOf(t)

Held(u, bs) ==
    \E b \in bs \cap ToSet(layout) : \E i \in DOMAIN TextsIn(b) : Covers(TextsIn(b)[i], u)

\* Another user has a memory, and the user may have one that is acknowledged.
Init ==
    /\ layout \in Layouts
    /\ \E known \in {<<>>} \cup {<<[user |-> User, text |-> t]>> : t \in {u \in Texts : ~IsSensitive(u)}} :
          /\ stored = [b \in Backends |-> <<[user |-> Other, text |-> Foreign]>> \o known]
          /\ owed = {known[i].text : i \in DOMAIN known}
    /\ caller = [c \in Callers |-> Idle(<<>>)]
    /\ adds = 0

----------------------------------------------------------------------------
(* MemoryManager.add, a step per call of a backend.                         *)

\* Bug: force skips the filter as well.
Begin_ForceUnfiltered(c, t, strategy, force, queue) ==
    caller' = [caller EXCEPT ![c] =
        IF IsSensitive(t) /\ ~force THEN Idle(queue)
        ELSE [Idle(queue) EXCEPT !.stage = IF force THEN "store" ELSE "find", !.text = t,
                                 !.strategy = strategy, !.what = t]]

\* What is sensitive goes no further.
Begin(c, t, strategy, force, queue) ==
    caller' = [caller EXCEPT ![c] =
        IF IsSensitive(t) THEN Idle(queue)
        ELSE [Idle(queue) EXCEPT !.stage = IF force THEN "store" ELSE "find", !.text = t,
                                 !.strategy = strategy, !.what = t]]

Add(c) ==
    /\ caller[c].stage = "idle" /\ caller[c].queue = <<>> /\ adds < MaxAdds
    /\ \E t \in Texts, strategy \in {"skip", "replace", "merge"}, force \in BOOLEAN :
          Begin(c, t, strategy, force, <<>>)
    /\ adds' = adds + 1
    /\ UNCHANGED <<layout, stored, owed>>

\* The sentences with a keyword; a task with anything sensitive has none.
Fragments(task) ==
    LET texts == [i \in DOMAIN task |-> task[i].text]
    IN  Pick(texts, {i \in DOMAIN task : task[i].keyword /\ ~IsSensitive(task[i].text)})

\* should_remember and extract of either extractor: nothing, the keyword's
\* sentences, or what an LLM makes of the task, without what is sensitive.
Extracted(task) ==
    IF \E i \in DOMAIN task : IsSensitive(task[i].text) THEN {<<>>}
    ELSE {<<>>, Fragments(task)} \cup {<<t>> : t \in {u \in Texts : ~IsSensitive(u)}}

\* maybe_add_from_task.
AddFromTask(c) ==
    /\ caller[c].stage = "idle" /\ caller[c].queue = <<>> /\ adds < MaxAdds
    /\ \E task \in Tasks : \E fragments \in Extracted(task) \ {<<>>} :
          Begin(c, Head(fragments), "skip", FALSE, Tail(fragments))
    /\ adds' = adds + 1
    /\ UNCHANGED <<layout, stored, owed>>

NextFragment(c) ==
    /\ caller[c].stage = "idle" /\ caller[c].queue # <<>>
    /\ Begin(c, Head(caller[c].queue), "skip", FALSE, Tail(caller[c].queue))
    /\ UNCHANGED <<layout, stored, owed, adds>>

\* _find_conflict and the choice of _handle_conflict.
Find(c) ==
    LET k == caller[c]
    IN  /\ k.stage = "find"
        /\ \E down \in SUBSET ToSet(layout) : \E hits \in Answers(k.text, 3, down) :
              LET clashes == {i \in DOMAIN hits : Conflicts(k.text, hits[i])}
                  old == hits[Min(clashes)]
              IN  caller' = [caller EXCEPT ![c] =
                    IF clashes = {} THEN [k EXCEPT !.stage = "store"]
                    ELSE IF k.strategy = "skip" THEN Idle(k.queue)
                    ELSE [k EXCEPT !.stage = "remove", !.conflict = old,
                                   !.what = IF k.strategy = "merge" THEN Merge(old, k.text) ELSE k.text]]
        /\ Len(caller'[c].what) <= MaxLen
        /\ UNCHANGED <<layout, stored, owed, adds>>

\* Of two nearly identical texts a merge keeps the longer one only.
KeepsLonger(k) == k.strategy = "merge" /\ k.conflict # Nobody /\ NearlySame(k.conflict, k.text)

\* What an addition gives up of the memory it conflicts with: all of it, or the
\* words that the longer text does not have.
GivesUp(k, u) ==
    /\ Covers(k.conflict, u)
    /\ k.strategy = "replace" \/ (KeepsLonger(k) /\ ~Covers(k.what, u))

\* The next backend.
RemoveOld(c) ==
    LET k == caller[c]
        b == layout[k.at]
    IN  /\ k.stage = "remove"
        /\ \E fails \in BOOLEAN :
              stored' = IF fails THEN stored ELSE [stored EXCEPT ![b] = Removed(b, k.conflict)]
        /\ owed' = {u \in owed : ~GivesUp(k, u)}
        /\ caller' = [caller EXCEPT ![c] = IF k.at < Len(layout) THEN [k EXCEPT !.at = @ + 1]
                                           ELSE [k EXCEPT !.at = 1, !.stage = "store"]]
        /\ UNCHANGED <<layout, adds>>

\* The next backend.  The exception of a single backend ends add and the rest
\* of its task; the composite goes on and acknowledges in any case, which here
\* counts only if something was written.
Store(c) ==
    LET k == caller[c]
        b == layout[k.at]
    IN  /\ k.stage = "store"
        /\ \E fails \in BOOLEAN :
              LET wrote == k.wrote \/ ~fails
              IN  /\ stored' = IF fails THEN stored ELSE [stored EXCEPT ![b] = Added(b, k.what)]
                  /\ IF k.at < Len(layout)
                     THEN /\ caller' = [caller EXCEPT ![c] = [k EXCEPT !.at = @ + 1, !.wrote = wrote]]
                          /\ UNCHANGED owed
                     ELSE /\ caller' = [caller EXCEPT ![c] =
                                 Idle(IF fails /\ Len(layout) = 1 THEN <<>> ELSE k.queue)]
                          /\ owed' = IF wrote THEN owed \cup {u \in {k.text} : KeepsLonger(k) => Covers(k.what, u)}
                                     ELSE {u \in owed : Covers(k.what, u) => Held(u, Backends)}
        /\ UNCHANGED <<layout, adds>>

----------------------------------------------------------------------------

\* miniclaw memory delete: the exact text.
Delete ==
    /\ layout = <<"sqlite">>
    /\ \E t \in ToSet(TextsIn("sqlite")) :
          /\ stored' = [stored EXCEPT !["sqlite"] = Removed("sqlite", t)]
          /\ owed' = {u \in owed : ~Covers(t, u)}
    /\ UNCHANGED <<layout, caller, adds>>

\* The process ends: what callers were doing and the vectors are lost.
Crash ==
    /\ \E c \in Callers : caller[c].stage # "idle"
    /\ caller' = [c \in Callers |-> Idle(<<>>)]
    /\ stored' = [stored EXCEPT !["vector"] = <<>>]
    /\ owed' = {u \in owed : Held(u, {"sqlite", "mem0"})}
    /\ UNCHANGED <<layout, adds>>

Next ==
    \/ \E c \in Callers : Add(c) \/ AddFromTask(c) \/ NextFragment(c) \/ Find(c) \/ RemoveOld(c) \/ Store(c)
    \/ Delete \/ Crash

Spec == Init /\ [][Next]_vars

----------------------------------------------------------------------------
(* Properties.                                                              *)

\* The variables have their types; the SQLite backend has no text twice.
TypeOK ==
    /\ layout \in Layouts
    /\ stored \in [Backends -> Seq([user : {User, Other}, text : TextType])]
    /\ \A i, j \in DOMAIN stored["sqlite"] : stored["sqlite"][i] = stored["sqlite"][j] => i = j
    /\ caller \in [Callers ->
          [stage : {"idle", "find", "remove", "store"}, text : TextType,
           strategy : {"skip", "replace", "merge"}, conflict : TextType \cup {Nobody}, what : TextType,
           at : 1..2, wrote : BOOLEAN, queue : Seq(TextType)]]
    /\ owed \subseteq TextType
    /\ adds \in 0..MaxAdds

\* What was acknowledged is kept, in a memory that has all its words or in the
\* write of a merge under way, until it is replaced or deleted, or merged with a
\* longer text of nearly the same words, or an addition fails or the process ends
\* between the removal and the write; the memory of another user is never touched.
Retained ==
    /\ \A u \in owed :
          \/ Held(u, Backends)
          \/ \E c \in Callers : caller[c].stage = "store" /\ Covers(caller[c].what, u)
    /\ \A b \in {"sqlite", "mem0"} : \E i \in DOMAIN stored[b] : stored[b][i].user = Other

\* Nothing sensitive is stored, whichever way it came.
NoSecrets == \A b \in Backends : \A i \in DOMAIN stored[b] : ~IsSensitive(stored[b][i].text)

\* A search answers with memories of its user only, within the limit; the
\* composite with none twice, in other words or not; and with something
\* whenever a working backend of ours has a memory with a word of the query.
SearchAnswers ==
    \A query \in Texts, down \in SUBSET ToSet(layout) : \A r \in Answers(query, Limit, down) :
        /\ Len(r) <= Limit
        /\ \A i \in DOMAIN r : \E b \in ToSet(layout) \ down : r[i] \in ToSet(TextsIn(b))
        /\ \A i, j \in DOMAIN r : i < j /\ Len(layout) = 2 => Overlap(r[i], r[j]) < Dedup
        /\ r = <<>> => \A b \in ToSet(layout) \ (down \cup {"mem0"}) :
                          \A t \in ToSet(TextsIn(b)) : NamesOf(t) \cap NamesOf(query) = {}
=============================================================================
