------------------------- MODULE AgentContextProofs -------------------------
(***************************************************************************)
(* Theorems about AgentContext: the messages an engine sends are a legal    *)
(* conversation about the task, whatever is compressed, interrupted or      *)
(* resumed, for every value of the constants.                               *)
(***************************************************************************)
EXTENDS AgentContext, PickedFacts, FiniteSetTheorems, TLAPS

----------------------------------------------------------------------------
(* The inductive invariant.                                                 *)

\* The first k calls of the message at position i have their results behind it.
Block(s, i, k) ==
    /\ i + k <= Len(s)
    /\ \A m \in 1..k : s[i + m].role = "tool" /\ s[i + m].id = s[i].calls[m]

\* What the role of a message says of its other parts.
Kinds(s) ==
    \A i \in DOMAIN s :
        /\ s[i].pinned => s[i] = Note
        /\ s[i].calls # <<>> => s[i].role = "assistant"
        /\ s[i].id # 0 => s[i].role = "tool"

SystemsLead(s) ==
    \A i, j \in DOMAIN s : i < j /\ s[j].role = "system" => s[i].role = "system"

SummaryBehindKept(s) ==
    \A i, j \in DOMAIN s :
        s[j].role = "summary" /\ i < j => s[i].pinned \/ s[i].role = "system"

ResultsInBlocks(s) ==
    \A j \in DOMAIN s : s[j].id # 0 =>
        \E i \in 1..j - 1 : j - i \in DOMAIN s[i].calls /\ Block(s, i, j - i)

\* What holds of every context whatever the run.
WellFormed(s) ==
    /\ s \in Seq(Message)
    /\ Kinds(s)
    /\ SystemsLead(s)
    /\ SummaryBehindKept(s)
    /\ ResultsInBlocks(s)

\* Calls without results are among those of U, and calls are numbered up to n.
CallsWithin(s, U, n) ==
    \A i \in DOMAIN s : \A k \in DOMAIN s[i].calls :
        /\ Block(s, i, k) \/ s[i].calls[k] \in U
        /\ s[i].calls[k] \in 1..n

\* The last user message that is not pinned, if there is one, is the task t.
LastUser(s, t) ==
    \A i \in DOMAIN s :
        /\ s[i].role = "user" /\ ~s[i].pinned
        /\ \A j \in i + 1..Len(s) : s[j].role = "user" => s[j].pinned
        => s[i].task = t

\* The calls still to be executed are the last ones of the message at position p,
\* which has the results of the others behind it, and of no other message.
BatchAt(p) ==
    LET calls == msgs[p].calls
        done == Len(msgs) - p
    IN  /\ done < Len(calls)
        /\ run.batch = SubSeq(calls, done + 1, Len(calls))
        /\ Block(msgs, p, done)
        /\ \A k, l \in DOMAIN calls : calls[k] = calls[l] => k = l
        /\ \A i \in DOMAIN msgs \ {p} : \A k \in DOMAIN msgs[i].calls :
              msgs[i].calls[k] \notin ToSet(run.batch)

BatchInv ==
    /\ run.batch # <<>> <=> run.pc \in {"batch", "exec"}
    /\ run.loop = "portable" => run.batch \in {<<>>, <<0>>}
    /\ run.loop = "native" /\ run.batch # <<>> => \E p \in DOMAIN msgs : BatchAt(p)

OpenCalls == ToSet(run.batch) \cup hist.cut

MsgsInv == WellFormed(msgs) /\ CallsWithin(msgs, OpenCalls, hist.calls)

\* A checkpoint to be resumed into a native loop is about the task of that loop.
SavedInv ==
    /\ WellFormed(saved.msgs) /\ CallsWithin(saved.msgs, OpenCalls, hist.calls)
    /\ saved.open => saved.task \in Tasks
    /\ saved.open /\ saved.mode = "native" => LastUser(saved.msgs, saved.task)

\* And so is the context of a native loop.
LoopInv ==
    run.pc # "idle" =>
        /\ run.task \in Tasks
        /\ run.mode = "native" => run.loop = "native"
        /\ run.loop = "native" => LastUser(msgs, run.task)

IInv == TypeOK /\ MsgsInv /\ SavedInv /\ BatchInv /\ LoopInv /\ TaskInRequest

----------------------------------------------------------------------------
(* Messages.                                                                *)

\* A plain message has its role and its task, and no more.
LEMMA TextFacts ==
    ASSUME NEW role \in {"system", "user", "assistant", "tool", "summary"},
           NEW task \in Tasks \cup {NoTask}
    PROVE  LET m == Text(role, task)
           IN  /\ m \in Message
               /\ m.role = role /\ m.task = task
               /\ m.calls = <<>> /\ m.id = 0 /\ ~m.pinned
  BY DEF Text, Message

\* The length of a message does not change what it is.
LEMMA LongFacts ==
    ASSUME NEW m \in Message, NEW b \in BOOLEAN
    PROVE  LET n == [m EXCEPT !.long = b]
           IN  /\ n \in Message
               /\ n.role = m.role /\ n.task = m.task
               /\ n.calls = m.calls /\ n.id = m.id /\ n.pinned = m.pinned
  BY DEF Message

\* What the caller, the loops and a resume append.
LEMMA MessageFacts ==
    /\ \A t \in Tasks \cup {NoTask} :
          /\ User(t) \in Message /\ User(t).role = "user" /\ User(t).task = t
          /\ User(t).calls = <<>> /\ User(t).id = 0 /\ ~User(t).pinned
    /\ Recovery = User(NoTask)
    /\ System \in Message /\ System.role = "system"
    /\ System.calls = <<>> /\ System.id = 0 /\ ~System.pinned
    /\ Note \in Message /\ Note.role = "user" /\ Note.task = NoTask
    /\ Note.calls = <<>> /\ Note.id = 0 /\ Note.pinned
    /\ \A c \in Seq(Nat) :
          /\ Assistant(c) \in Message /\ Assistant(c).role = "assistant"
          /\ Assistant(c).calls = c /\ Assistant(c).id = 0 /\ ~Assistant(c).pinned
    /\ \A id \in Nat, b \in BOOLEAN :
          /\ Tool(id, b) \in Message /\ Tool(id, b).role = "tool"
          /\ Tool(id, b).calls = <<>> /\ Tool(id, b).id = id /\ ~Tool(id, b).pinned
<1>1. \A t \in Tasks \cup {NoTask} :
         /\ User(t) \in Message /\ User(t).role = "user" /\ User(t).task = t
         /\ User(t).calls = <<>> /\ User(t).id = 0 /\ ~User(t).pinned
  BY TextFacts DEF User
<1>2. /\ System \in Message /\ System.role = "system"
      /\ System.calls = <<>> /\ System.id = 0 /\ ~System.pinned
  BY TextFacts DEF System
<1>3. /\ Note \in Message /\ Note.role = "user" /\ Note.task = NoTask
      /\ Note.calls = <<>> /\ Note.id = 0 /\ Note.pinned
  <2>1. \A m \in Message :
           LET n == [m EXCEPT !.pinned = TRUE]
           IN  /\ n \in Message /\ n.role = m.role /\ n.task = m.task
               /\ n.calls = m.calls /\ n.id = m.id /\ n.pinned
    BY DEF Message
  <2> QED BY <1>1, <2>1 DEF Note
<1>4. \A c \in Seq(Nat) :
         /\ Assistant(c) \in Message /\ Assistant(c).role = "assistant"
         /\ Assistant(c).calls = c /\ Assistant(c).id = 0 /\ ~Assistant(c).pinned
  <2>1. \A m \in Message, c \in Seq(Nat) :
           LET n == [m EXCEPT !.calls = c]
           IN  /\ n \in Message /\ n.role = m.role /\ n.calls = c
               /\ n.id = m.id /\ n.pinned = m.pinned
    BY DEF Message
  <2> QED BY <2>1, TextFacts DEF Assistant
<1>5. \A id \in Nat, b \in BOOLEAN :
         /\ Tool(id, b) \in Message /\ Tool(id, b).role = "tool"
         /\ Tool(id, b).calls = <<>> /\ Tool(id, b).id = id /\ ~Tool(id, b).pinned
  <2>1. PICK m \in Message : /\ m = Text("tool", NoTask) /\ m.role = "tool"
                             /\ m.calls = <<>> /\ m.id = 0 /\ ~m.pinned
    BY TextFacts
  <2> TAKE id \in Nat, b \in BOOLEAN
  <2> DEFINE n == [m EXCEPT !.id = id, !.long = b]
  <2>2. n \in Message /\ n.role = m.role /\ n.calls = m.calls /\ n.id = id /\ n.pinned = m.pinned
    BY DEF Message
  <2>3. Tool(id, b) = n
    BY <2>1 DEF Tool
  <2> HIDE DEF n
  <2> QED BY <2>1, <2>2, <2>3
<1> QED BY <1>1, <1>2, <1>3, <1>4, <1>5 DEF Recovery

----------------------------------------------------------------------------
(* The parts of a compression.                                              *)

\* The loops over the front of the list stop behind the last leading system
\* message.
LEMMA LeadingFacts ==
    ASSUME NEW s \in Seq(Message)
    PROVE  /\ Leading(s) \in 0..Len(s)
           /\ \A i \in 1..Leading(s) : s[i].role = "system"
           /\ Leading(s) < Len(s) => s[Leading(s) + 1].role # "system"
<1> DEFINE T == {n \in 0..Len(s) : n < Len(s) => s[n + 1].role # "system"}
<1>1. T \subseteq Nat /\ Len(s) \in T
  OBVIOUS
<1>2. PICK n \in T : \A m \in T : n <= m
  <2> HIDE DEF T
  <2> QED BY <1>1, LeastNat
<1>3. \A i \in 1..n : s[i].role = "system"
  <2> SUFFICES ASSUME NEW i \in 1..n, s[i].role # "system" PROVE FALSE
    OBVIOUS
  <2>1. i - 1 \in 0..Len(s) /\ (i - 1) + 1 = i /\ i - 1 \in Nat /\ n \in Nat
    OBVIOUS
  <2>2. i - 1 \in T
    BY <2>1
  <2> HIDE DEF T
  <2> QED BY <1>2, <2>1, <2>2
<1>4. n \in 0..Len(s) /\ (n < Len(s) => s[n + 1].role # "system")
  OBVIOUS
<1> HIDE DEF T
<1> QED BY <1>3, <1>4 DEF Leading

\* The recent part of a compressed list does not begin with a tool result, unless
\* nothing is cut off before it; and it is not empty then.
LEMMA OldCountFacts ==
    ASSUME NEW t \in Seq(Message)
    PROVE  /\ OldCount(t) \in 0..Len(t)
           /\ OldCount(t) = 0 \/ (OldCount(t) < Len(t) /\ t[OldCount(t) + 1].role # "tool")
<1> DEFINE limit == IF Len(t) > RecentKeep THEN Len(t) - RecentKeep ELSE 0
           T == {n \in 0..limit : \A k \in n + 1..limit : t[k + 1].role = "tool"}
<1>1. RecentKeep \in Nat /\ RecentKeep > 0
  BY ConstantsAssumption
<1>2. limit \in Nat /\ limit <= Len(t) /\ (limit = 0 \/ limit < Len(t))
  BY <1>1
<1> HIDE DEF limit
<1>3. T \subseteq Nat /\ limit \in T
  BY <1>2
<1>4. PICK n \in T : \A m \in T : n <= m
  <2> HIDE DEF T
  <2> QED BY <1>3, LeastNat
<1>5. n = 0 \/ t[n + 1].role # "tool"
  <2> SUFFICES ASSUME n # 0, t[n + 1].role = "tool" PROVE FALSE
    OBVIOUS
  <2>1. n \in Nat /\ n - 1 \in 0..limit /\ \A k \in n + 1..limit : t[k + 1].role = "tool"
    BY <1>2
  <2>2. \A k \in (n - 1) + 1..limit : k = n \/ k \in n + 1..limit
    BY <1>2, <2>1
  <2>3. n - 1 \in T
    BY <2>1, <2>2
  <2> QED BY <1>4, <2>1, <2>3
<1>6. \E m \in 0..limit :
         /\ m = 0 \/ t[m + 1].role # "tool"
         /\ \A k \in m + 1..limit : t[k + 1].role = "tool"
  BY <1>5
<1>7. /\ OldCount(t) \in 0..limit
      /\ OldCount(t) = 0 \/ t[OldCount(t) + 1].role # "tool"
  BY <1>6 DEF OldCount, limit
<1>8. OldCount(t) = 0 \/ OldCount(t) < Len(t)
  BY <1>2, <1>7
<1>9. OldCount(t) \in 0..Len(t)
  BY <1>2, <1>7
<1> QED BY <1>7, <1>8, <1>9

\* A summary stands for at least one message, and quotes the last user message
\* among those.
LEMMA SummaryFacts ==
    ASSUME NEW old \in Seq(Message)
    PROVE  /\ old = <<>> => Summary(old) = <<>>
           /\ old # <<>> =>
                 /\ Len(Summary(old)) = 1
                 /\ Summary(old)[1].role = "summary" /\ ~Summary(old)[1].pinned
                 /\ Summary(old)[1].calls = <<>> /\ Summary(old)[1].id = 0
                 /\ \A i \in DOMAIN old :
                       /\ old[i].role = "user"
                       /\ \A j \in i + 1..Len(old) : old[j].role # "user"
                       => Summary(old)[1].task = old[i].task
           /\ Summary(old) \in Seq(Message)
<1> DEFINE users == {i \in DOMAIN old : old[i].role = "user"}
           last == CHOOSE i \in users : \A j \in users : j <= i
           task == IF users = {} THEN NoTask ELSE old[last].task
           long == \E i \in DOMAIN old : old[i].role \in {"user", "assistant"}
           m == [Text("summary", task) EXCEPT !.long = long]
<1>1. Summary(old) = IF old = <<>> THEN <<>> ELSE <<m>>
  BY DEF Summary
<1>2. users # {} => last \in users /\ \A j \in users : j <= last
  <2>1. users \subseteq Nat /\ Len(old) \in Nat /\ \A j \in users : j <= Len(old)
    OBVIOUS
  <2>2. users # {} => \E i \in users : \A j \in users : j <= i
    <3> HIDE DEF users
    <3> QED BY <2>1, GreatestNat
  <2> HIDE DEF users
  <2> QED BY <2>2
<1>3. task \in Tasks \cup {NoTask}
  <2>1. \A i \in DOMAIN old : old[i].task \in Tasks \cup {NoTask}
    <3> TAKE i \in DOMAIN old
    <3>1. old[i] \in Message
      OBVIOUS
    <3> QED BY <3>1 DEF Message
  <2> HIDE DEF last
  <2> QED BY <1>2, <2>1
<1>4. long \in BOOLEAN
  OBVIOUS
<1>5. ASSUME NEW i \in DOMAIN old, old[i].role = "user",
             \A j \in i + 1..Len(old) : old[j].role # "user"
      PROVE  task = old[i].task
  <2>1. i \in users /\ \A j \in users : j <= i
    BY <1>5
  <2>2. last = i
    <3> HIDE DEF last
    <3>1. last \in users /\ i <= last /\ last <= i
      BY <1>2, <2>1
    <3>2. last \in Nat /\ i \in Nat
      BY <3>1
    <3> QED BY <3>1, <3>2
  <2> HIDE DEF last
  <2> QED BY <2>1, <2>2
<1> HIDE DEF users, last, task, long
<1>6. /\ m.role = "summary" /\ m.pinned = FALSE /\ m.calls = <<>> /\ m.id = 0 /\ m.task = task
      /\ m \in Message
  BY <1>3, <1>4, TextFacts, LongFacts
<1> HIDE DEF m
<1> QED BY <1>1, <1>5, <1>6

\* The positions compress may take from: those of messages that are not pinned.
LooseAt(s) == {i \in Rest(s) : ~s[i].pinned}
PinnedAt(s) == {i \in Rest(s) : s[i].pinned}

\* How many messages come before the recent ones, if n are summarised.
HeadLen(s, n) == Leading(s) + (IF n = 0 THEN 0 ELSE 1) + Cardinality(PinnedAt(s))

\* r is s with its first n loose messages summarised: a head of system messages,
\* summary and pinned messages, then the other loose messages, which are at the
\* positions at[n + 1], at[n + 2], ... of s.
IsCompression(s, r, n, at) ==
    LET q == IF n = 0 THEN 0 ELSE 1
        c == Cardinality(LooseAt(s))
        p == Cardinality(PinnedAt(s))
        h == HeadLen(s, n)
    IN  /\ Enumerates(at, LooseAt(s))
        /\ n \in 0..c
        /\ n = 0 \/ (n < c /\ s[at[n + 1]].role # "tool")
        /\ r \in Seq(Message) /\ p \in Nat
        /\ Len(r) = h + (c - n)
        /\ \A k \in 1..Leading(s) : r[k] = s[k]
        /\ n # 0 => LET m == r[Leading(s) + 1]
                    IN  /\ m.role = "summary" /\ m.calls = <<>> /\ m.id = 0 /\ ~m.pinned
                        /\ \A k \in 1..n :
                              /\ s[at[k]].role = "user"
                              /\ \A l \in k + 1..n : s[at[l]].role # "user"
                              => m.task = s[at[k]].task
        /\ \A k \in Leading(s) + q + 1..h : r[k] = Note
        /\ \A k \in 1..c - n : r[h + k] = s[at[n + k]]

\* The rest of a list is its positions behind the leading system messages.
LEMMA RestFacts ==
    ASSUME NEW s \in Seq(Message)
    PROVE  /\ Rest(s) = Leading(s) + 1..Len(s)
           /\ Rest(s) \subseteq DOMAIN s
           /\ LooseAt(s) \subseteq DOMAIN s /\ PinnedAt(s) \subseteq DOMAIN s
           /\ Loose(s) = Pick(s, LooseAt(s)) /\ Pinned(s) = Pick(s, PinnedAt(s))
<1>1. Leading(s) \in 0..Len(s) /\ Len(s) \in Nat /\ DOMAIN s = 1..Len(s)
  BY LeadingFacts
<1> QED BY <1>1 DEF Rest, LooseAt, PinnedAt, Loose, Pinned

\* compress returns a compression, of a list whose pinned messages are notes.
LEMMA CompressedFacts ==
    ASSUME NEW s \in Seq(Message), Kinds(s)
    PROVE  \E n, at : IsCompression(s, Compressed(s), n, at)
<1> DEFINE L == Leading(s)
           c == Cardinality(LooseAt(s))
           p == Cardinality(PinnedAt(s))
           n == OldCount(Loose(s))
           old == SubSeq(Loose(s), 1, n)
           recent == SubSeq(Loose(s), n + 1, Len(Loose(s)))
           front == SubSeq(s, 1, L)
           r == Compressed(s)
<1>1. L \in Nat /\ L <= Len(s) /\ Len(s) \in Nat
  BY LeadingFacts
<1>2. /\ c \in Nat /\ Loose(s) \in Seq(Message) /\ Len(Loose(s)) = c
      /\ \E at : /\ Enumerates(at, LooseAt(s))
                 /\ \A k \in 1..c : Loose(s)[k] = s[at[k]]
  BY RestFacts, PickFacts
<1>3. PICK at : Enumerates(at, LooseAt(s)) /\ \A k \in 1..c : Loose(s)[k] = s[at[k]]
  BY <1>2
<1>4. /\ p \in Nat /\ Pinned(s) \in Seq(Message) /\ Len(Pinned(s)) = p
      /\ \A k \in 1..p : Pinned(s)[k] = Note
  <2>1. /\ p \in Nat /\ Pinned(s) \in Seq(Message) /\ Len(Pinned(s)) = p
        /\ \E b : /\ Enumerates(b, PinnedAt(s))
                  /\ \A k \in 1..p : Pinned(s)[k] = s[b[k]]
    BY RestFacts, PickFacts
  <2>2. PICK b : Enumerates(b, PinnedAt(s)) /\ \A k \in 1..p : Pinned(s)[k] = s[b[k]]
    BY <2>1
  <2>3. \A k \in 1..p : b[k] \in PinnedAt(s)
    BY <2>2 DEF Enumerates
  <2>4. \A i \in PinnedAt(s) : i \in DOMAIN s /\ s[i].pinned
    BY RestFacts DEF PinnedAt
  <2>5. \A k \in 1..p : Pinned(s)[k] = Note
    BY <2>2, <2>3, <2>4 DEF Kinds
  <2> QED BY <2>1, <2>5
<1>5. n \in 0..c /\ (n = 0 \/ (n < c /\ Loose(s)[n + 1].role # "tool"))
  BY <1>2, OldCountFacts
<1>6. /\ front \in Seq(Message) /\ Len(front) = L
      /\ \A k \in 1..L : front[k] = s[k]
  BY <1>1
<1>7. /\ old \in Seq(Message) /\ Len(old) = n
      /\ \A k \in 1..n : old[k] = s[at[k]]
  <2> HIDE DEF n, c
  <2>1. n \in Nat /\ n <= c
    BY <1>2, <1>5
  <2>2. \A k \in 1..n : k \in 1..c
    BY <1>2, <2>1
  <2> QED BY <1>2, <1>3, <2>1, <2>2
<1>8. /\ recent \in Seq(Message) /\ Len(recent) = c - n
      /\ \A k \in 1..c - n : recent[k] = s[at[n + k]]
  <2> HIDE DEF n, c
  <2>1. n \in Nat /\ n <= c
    BY <1>2, <1>5
  <2>2. \A k \in 1..c - n : n + k \in 1..c /\ (n + 1) + k - 1 = n + k
    BY <1>2, <2>1
  <2> QED BY <1>2, <1>3, <2>1, <2>2
<1>9. r = front \o Summary(old) \o Pinned(s) \o recent
  BY DEF Compressed
<1> DEFINE q == IF n = 0 THEN 0 ELSE 1
<1>10. Summary(old) \in Seq(Message) /\ Len(Summary(old)) = q
  <2>1. n = 0 <=> old = <<>>
    BY <1>2, <1>5, <1>7
  <2> HIDE DEF old, n
  <2> QED BY <1>7, <2>1, SummaryFacts
<1>11. n # 0 => LET m == Summary(old)[1]
                IN  /\ m.role = "summary" /\ m.calls = <<>> /\ m.id = 0 /\ ~m.pinned
                    /\ \A k \in 1..n :
                          /\ s[at[k]].role = "user"
                          /\ \A l \in k + 1..n : s[at[l]].role # "user"
                          => m.task = s[at[k]].task
  <2> SUFFICES ASSUME n # 0
               PROVE  LET m == Summary(old)[1]
                      IN  /\ m.role = "summary" /\ m.calls = <<>> /\ m.id = 0 /\ ~m.pinned
                          /\ \A k \in 1..n :
                                /\ s[at[k]].role = "user"
                                /\ \A l \in k + 1..n : s[at[l]].role # "user"
                                => m.task = s[at[k]].task
    OBVIOUS
  <2>1. old # <<>> /\ DOMAIN old = 1..n /\ n \in Nat
    BY <1>2, <1>5, <1>7
  <2>2. \A k \in 1..n : \A l \in k + 1..n : l \in 1..n
    BY <2>1
  <2> HIDE DEF old, n
  <2>3. LET m == Summary(old)[1]
        IN  /\ m.role = "summary" /\ m.calls = <<>> /\ m.id = 0 /\ ~m.pinned
            /\ \A k \in DOMAIN old :
                  /\ old[k].role = "user"
                  /\ \A l \in k + 1..Len(old) : old[l].role # "user"
                  => m.task = old[k].task
    BY <1>7, <2>1, SummaryFacts
  <2>4. \A k \in 1..n : \A l \in k + 1..n : old[l] = s[at[l]]
    BY <1>7, <2>2
  <2>5. \A k \in 1..n : k \in DOMAIN old /\ old[k] = s[at[k]] /\ Len(old) = n
    BY <1>7, <2>1
  <2> QED BY <2>3, <2>4, <2>5
<1> DEFINE h == L + q + p
<1>12. q \in 0..1 /\ h \in Nat
  BY <1>1, <1>4
<1> HIDE DEF L, c, p, n, old, recent, front, r
<1>13. /\ r \in Seq(Message) /\ Len(r) = h + (c - n)
       /\ \A k \in 1..L : r[k] = front[k]
       /\ n # 0 => r[L + 1] = Summary(old)[1]
       /\ \A k \in L + q + 1..h : r[k] = Pinned(s)[k - (L + q)]
       /\ \A k \in 1..c - n : r[h + k] = recent[k]
  <2> DEFINE a == front \o Summary(old)
             b == a \o Pinned(s)
  <2>1. /\ a \in Seq(Message) /\ Len(a) = L + q
        /\ \A k \in 1..L : a[k] = front[k]
        /\ n # 0 => a[L + 1] = Summary(old)[1]
    <3>1. n # 0 => 1 \in 1..Len(Summary(old))
      BY <1>10
    <3>2. a \in Seq(Message) /\ IsConcat(front, Summary(old), a)
      BY <1>6, <1>10, ConcatFacts
    <3> HIDE DEF a, q
    <3> QED BY <1>6, <1>10, <3>1, <3>2 DEF IsConcat
  <2>2. n # 0 => L + 1 \in 1..L + q
    BY <1>1
  <2> HIDE DEF a, q
  <2>3. /\ b \in Seq(Message) /\ Len(b) = L + q + p
        /\ \A k \in 1..L + q : b[k] = a[k]
        /\ \A k \in L + q + 1..L + q + p : b[k] = Pinned(s)[k - (L + q)]
    <3>1. b \in Seq(Message) /\ IsConcat(a, Pinned(s), b)
      BY <1>4, <2>1, ConcatFacts
    <3> HIDE DEF b
    <3> QED BY <1>4, <2>1, <3>1 DEF IsConcat
  <2> HIDE DEF b
  <2>4. /\ b \o recent \in Seq(Message) /\ Len(b \o recent) = Len(b) + (c - n)
        /\ \A k \in 1..Len(b) : (b \o recent)[k] = b[k]
        /\ \A k \in 1..c - n : (b \o recent)[Len(b) + k] = recent[k]
    <3>1. b \o recent \in Seq(Message) /\ IsConcat(b, recent, b \o recent)
      BY <1>8, <2>3, ConcatFacts
    <3> QED BY <1>8, <3>1 DEF IsConcat
  <2>5. r = b \o recent
    BY <1>9 DEF a, b
  <2>6. 1..L \subseteq 1..L + q /\ 1..L + q \subseteq 1..h /\ L + q + 1..h \subseteq 1..h
    BY <1>1, <1>4, <1>12
  <2> QED BY <2>1, <2>2, <2>3, <2>4, <2>5, <2>6
<1>14. \A k \in L + q + 1..h : r[k] = Note
  <2>1. \A k \in L + q + 1..h : k - (L + q) \in 1..p
    BY <1>1, <1>4, <1>12
  <2> QED BY <1>4, <1>13, <2>1
<1>15. n = 0 \/ (n < c /\ s[at[n + 1]].role # "tool")
  <2>1. n # 0 => n < c /\ n + 1 \in 1..c
    BY <1>2, <1>5
  <2> QED BY <1>3, <1>5, <2>1
<1>16. IsCompression(s, r, n, at)
  <2>1. n \in 0..c /\ Enumerates(at, LooseAt(s)) /\ p \in Nat
    BY <1>3, <1>4, <1>5
  <2>2. \A k \in 1..L : r[k] = s[k]
    BY <1>6, <1>13
  <2>3. \A k \in 1..c - n : r[h + k] = s[at[n + k]]
    BY <1>8, <1>13
  <2> QED BY <1>11, <1>13, <1>14, <1>15, <2>1, <2>2, <2>3 DEF IsCompression, HeadLen, L, c, p
<1> QED BY <1>16 DEF r

\* The messages of a compression: in its head there are neither calls nor results,
\* the others are messages of the list that are not pinned.
LEMMA CompressionParts ==
    ASSUME NEW s, WellFormed(s), NEW r, NEW n, NEW at, IsCompression(s, r, n, at)
    PROVE  LET h == HeadLen(s, n)
               c == Cardinality(LooseAt(s))
           IN  /\ h \in Nat /\ c \in Nat /\ n \in Nat /\ n <= c
               /\ Len(r) = h + (c - n) /\ DOMAIN r = 1..Len(r) /\ r \in Seq(Message)
               /\ \A k \in 1..h :
                     /\ r[k].calls = <<>> /\ r[k].id = 0
                     /\ r[k].role \in {"system", "summary", "user"}
                     /\ r[k].pinned => r[k] = Note
                     /\ r[k].role = "user" => r[k].pinned
               /\ \A j \in DOMAIN r : j <= h \/ (j - h \in 1..c - n /\ j = h + (j - h))
               /\ \A m \in 1..c - n :
                     /\ n + m \in 1..c /\ h + m \in DOMAIN r
                     /\ at[n + m] \in DOMAIN s /\ r[h + m] = s[at[n + m]]
                     /\ ~r[h + m].pinned /\ r[h + m].role # "system"
<1> DEFINE L == Leading(s)
           h == HeadLen(s, n)
           c == Cardinality(LooseAt(s))
           p == Cardinality(PinnedAt(s))
           q == IF n = 0 THEN 0 ELSE 1
<1>1. s \in Seq(Message) /\ Kinds(s) /\ SystemsLead(s)
  BY DEF WellFormed
<1>2. L \in Nat /\ L <= Len(s) /\ Len(s) \in Nat
  BY <1>1, LeadingFacts
<1>3. p \in Nat /\ c \in Nat /\ n \in Nat /\ n <= c
  BY DEF IsCompression, Enumerates
<1>4. h = L + q + p /\ q \in 0..1
  BY DEF HeadLen
<1>5. Len(r) = h + (c - n) /\ r \in Seq(Message)
  BY DEF IsCompression
<1>6. ASSUME NEW k \in 1..h
      PROVE  /\ r[k].calls = <<>> /\ r[k].id = 0
             /\ r[k].role \in {"system", "summary", "user"}
             /\ r[k].pinned => r[k] = Note
             /\ r[k].role = "user" => r[k].pinned
  <2>1. CASE k <= L
    <3>1. k \in 1..L /\ k \in DOMAIN s /\ s[k].role = "system" /\ r[k] = s[k]
      BY <1>1, <1>2, <2>1, LeadingFacts DEF IsCompression
    <3> QED BY <1>1, <3>1, MessageFacts DEF Kinds
  <2>2. CASE k = L + 1 /\ n # 0
    BY <2>2 DEF IsCompression
  <2>3. CASE k > L + q
    <3>1. k \in L + q + 1..h
      BY <1>2, <1>3, <1>4, <2>3
    <3>2. r[k] = Note
      BY <3>1 DEF IsCompression
    <3> QED BY <3>2, MessageFacts
  <2> QED BY <1>2, <1>3, <1>4, <2>1, <2>2, <2>3
<1>7. \A i \in LooseAt(s) : i \in DOMAIN s /\ ~s[i].pinned /\ s[i].role # "system"
  <2> TAKE i \in LooseAt(s)
  <2>1. i \in L + 1..Len(s) /\ ~s[i].pinned
    BY <1>1, RestFacts DEF LooseAt
  <2>2. i \in DOMAIN s /\ L + 1 \in DOMAIN s /\ s[L + 1].role # "system"
    BY <1>1, <1>2, <2>1, LeadingFacts
  <2>3. s[i].role # "system"
    BY <1>1, <1>2, <2>1, <2>2 DEF SystemsLead
  <2> QED BY <2>1, <2>2, <2>3
<1>8. ASSUME NEW m \in 1..c - n
      PROVE  /\ n + m \in 1..c /\ h + m \in DOMAIN r
             /\ at[n + m] \in DOMAIN s /\ r[h + m] = s[at[n + m]]
             /\ ~r[h + m].pinned /\ r[h + m].role # "system"
  <2>1. n + m \in 1..c
    BY <1>3
  <2>2. at[n + m] \in LooseAt(s)
    BY <2>1 DEF IsCompression, Enumerates
  <2>3. r[h + m] = s[at[n + m]]
    BY DEF IsCompression
  <2>4. h + m \in 1..Len(r)
    BY <1>2, <1>3, <1>4, <1>5
  <2> QED BY <1>5, <1>7, <2>1, <2>2, <2>3, <2>4
<1>9. h \in Nat
  BY <1>2, <1>3, <1>4
<1> HIDE DEF h, c, p, q, L
<1>10. \A j \in DOMAIN r : j <= h \/ (j - h \in 1..c - n /\ j = h + (j - h))
  BY <1>3, <1>5, <1>9
<1>11. DOMAIN r = 1..Len(r)
  BY <1>5
<1>12. \A k \in 1..h :
          /\ r[k].calls = <<>> /\ r[k].id = 0
          /\ r[k].role \in {"system", "summary", "user"}
          /\ r[k].pinned => r[k] = Note
          /\ r[k].role = "user" => r[k].pinned
  BY <1>6
<1>13. \A m \in 1..c - n :
          /\ n + m \in 1..c /\ h + m \in DOMAIN r
          /\ at[n + m] \in DOMAIN s /\ r[h + m] = s[at[n + m]]
          /\ ~r[h + m].pinned /\ r[h + m].role # "system"
  BY <1>8
<1> QED BY <1>3, <1>5, <1>9, <1>10, <1>11, <1>12, <1>13 DEF h, c

\* Results that stand behind their call stand behind it in the loose messages too.
LEMMA BlockStaysTogether ==
    ASSUME NEW s, WellFormed(s), NEW r, NEW n, NEW at, IsCompression(s, r, n, at),
           NEW i \in DOMAIN s, NEW k \in DOMAIN s[i].calls, Block(s, i, k)
    PROVE  \E a \in 1..Cardinality(LooseAt(s)) :
              /\ at[a] = i
              /\ k \in Nat /\ k >= 1
              /\ a + k <= Cardinality(LooseAt(s))
              /\ \A m \in 1..k : at[a + m] = i + m
<1> DEFINE L == Leading(s)
           c == Cardinality(LooseAt(s))
<1>1. s \in Seq(Message) /\ Kinds(s) /\ SystemsLead(s)
  BY DEF WellFormed
<1>2. i \in 1..Len(s) /\ Len(s) \in Nat /\ L \in 0..Len(s)
  BY <1>1, LeadingFacts
<1>3. k \in Nat /\ k >= 1 /\ s[i].calls # <<>>
  <2>1. s[i].calls \in Seq(Nat)
    <3>1. s[i] \in Message
      BY <1>1
    <3> QED BY <3>1 DEF Message
  <2> QED BY <2>1
<1>4. s[i].role = "assistant" /\ ~s[i].pinned
  BY <1>1, <1>3, MessageFacts DEF Kinds
<1>5. i > L
  BY <1>1, <1>2, <1>4, LeadingFacts
<1>6. \A j \in i + 1..i + k : j \in DOMAIN s /\ ~s[j].pinned
  <2> TAKE j \in i + 1..i + k
  <2>1. j - i \in 1..k /\ j = i + (j - i) /\ j \in 1..Len(s)
    BY <1>2, <1>3 DEF Block
  <2>2. s[j].role = "tool"
    BY <2>1 DEF Block
  <2> QED BY <1>1, <2>1, <2>2, MessageFacts DEF Kinds
<1>7. i..i + k \subseteq LooseAt(s)
  <2> SUFFICES ASSUME NEW j \in i..i + k PROVE j \in LooseAt(s)
    OBVIOUS
  <2>1. j \in DOMAIN s /\ ~s[j].pinned
    BY <1>2, <1>3, <1>4, <1>6
  <2>2. j \in L + 1..Len(s)
    BY <1>2, <1>3, <1>5, <2>1
  <2> QED BY <1>1, <2>1, <2>2, RestFacts DEF LooseAt
<1>8. PICK a \in 1..c : at[a] = i
  <2>1. i \in LooseAt(s)
    BY <1>2, <1>3, <1>7
  <2> QED BY <2>1 DEF IsCompression, Enumerates
<1>9. \A m \in 0..k : a + m <= c /\ at[a + m] = i + m
  <2> TAKE m \in 0..k
  <2>1. m \in Nat /\ at[a]..at[a] + m \subseteq LooseAt(s)
    BY <1>2, <1>3, <1>7, <1>8
  <2> QED BY <1>8, <2>1 DEF IsCompression, Enumerates
<1> QED BY <1>3, <1>8, <1>9

\* The results of a call that is kept are kept with it.
LEMMA KeptBlock ==
    ASSUME NEW s, WellFormed(s), NEW r, NEW n, NEW at, IsCompression(s, r, n, at),
           NEW m \in 1..Cardinality(LooseAt(s)) - n,
           NEW k \in DOMAIN s[at[n + m]].calls, Block(s, at[n + m], k)
    PROVE  Block(r, HeadLen(s, n) + m, k)
<1> DEFINE h == HeadLen(s, n)
           c == Cardinality(LooseAt(s))
           i == at[n + m]
<1>1. /\ h \in Nat /\ c \in Nat /\ n \in Nat /\ n <= c /\ Len(r) = h + (c - n)
      /\ \A l \in 1..c - n : n + l \in 1..c /\ at[n + l] \in DOMAIN s /\ r[h + l] = s[at[n + l]]
  BY CompressionParts
<1>2. i \in DOMAIN s /\ n + m \in 1..c /\ r[h + m] = s[i]
  BY <1>1
<1>3. PICK a \in 1..c : /\ at[a] = i /\ k \in Nat /\ k >= 1 /\ a + k <= c
                        /\ \A l \in 1..k : at[a + l] = i + l
  <2> HIDE DEF i
  <2> QED BY <1>2, BlockStaysTogether DEF i
<1>4. a = n + m
  <2>1. \A x, y \in 1..c : x < y => at[x] < at[y]
    BY DEF IsCompression, Enumerates
  <2>2. i \in Nat
    <3>1. s \in Seq(Message)
      BY DEF WellFormed
    <3> QED BY <1>2, <3>1
  <2>3. ~ (a < n + m) /\ ~ (n + m < a)
    BY <1>2, <1>3, <2>1, <2>2
  <2> QED BY <1>1, <1>2, <2>3
<1>5. h + m + k <= Len(r)
  BY <1>1, <1>3, <1>4
<1>6. ASSUME NEW l \in 1..k
      PROVE  r[h + m + l].role = "tool" /\ r[h + m + l].id = r[h + m].calls[l]
  <2>1. m + l \in 1..c - n /\ n + (m + l) = a + l /\ h + (m + l) = h + m + l
    BY <1>1, <1>3, <1>4
  <2>2. r[h + m + l] = s[at[a + l]] /\ at[a + l] = i + l
    BY <1>1, <1>3, <2>1
  <2>3. s[i + l].role = "tool" /\ s[i + l].id = s[i].calls[l]
    BY DEF Block
  <2> QED BY <1>2, <2>2, <2>3
<1> QED BY <1>5, <1>6 DEF Block

\* A result that is kept has its call kept in front of it: the list is not cut
\* between them.
LEMMA CompressionPairs ==
    ASSUME NEW s, WellFormed(s), NEW r, NEW n, NEW at, IsCompression(s, r, n, at)
    PROVE  ResultsInBlocks(r)
<1> DEFINE h == HeadLen(s, n)
           c == Cardinality(LooseAt(s))
<1>1. /\ h \in Nat /\ c \in Nat /\ n \in Nat /\ n <= c /\ Len(r) = h + (c - n)
      /\ \A k \in 1..h : r[k].id = 0
      /\ \A j \in DOMAIN r : j <= h \/ (j - h \in 1..c - n /\ j = h + (j - h))
      /\ \A l \in 1..c - n : n + l \in 1..c /\ at[n + l] \in DOMAIN s /\ r[h + l] = s[at[n + l]]
      /\ DOMAIN r = 1..Len(r)
  BY CompressionParts
<1>2. s \in Seq(Message) /\ ResultsInBlocks(s)
  BY DEF WellFormed
<1> SUFFICES ASSUME NEW j \in DOMAIN r, r[j].id # 0
             PROVE  \E i \in 1..j - 1 : j - i \in DOMAIN r[i].calls /\ Block(r, i, j - i)
  BY DEF ResultsInBlocks
<1> DEFINE m == j - h
           J == at[n + m]
<1>3. m \in 1..c - n /\ j = h + m /\ r[j] = s[J] /\ n + m \in 1..c /\ J \in DOMAIN s
  BY <1>1
<1>4. J \in Nat /\ DOMAIN s = 1..Len(s) /\ Len(s) \in Nat
  BY <1>2, <1>3
<1> HIDE DEF m, J
<1>5. PICK i \in 1..J - 1 : J - i \in DOMAIN s[i].calls /\ Block(s, i, J - i)
  BY <1>2, <1>3 DEF ResultsInBlocks
<1>6. i \in DOMAIN s /\ i \in Nat
  BY <1>3, <1>4, <1>5
<1> DEFINE d == J - i
<1>7. PICK a \in 1..c : /\ at[a] = i /\ d \in Nat /\ d >= 1 /\ a + d <= c
                        /\ \A l \in 1..d : at[a + l] = i + l
  BY <1>5, <1>6, BlockStaysTogether
<1>8. i + d = J /\ d \in Nat /\ d >= 1
  BY <1>4, <1>6, <1>7
<1> HIDE DEF d
<1>9. a + d = n + m
  <2>1. \A x, y \in 1..c : x < y => at[x] < at[y]
    BY DEF IsCompression, Enumerates
  <2>2. at[a + d] = J /\ at[n + m] = J /\ a + d \in 1..c
    BY <1>1, <1>7, <1>8 DEF J
  <2>3. ~ (a + d < n + m) /\ ~ (n + m < a + d)
    BY <1>3, <1>4, <2>1, <2>2
  <2> QED BY <1>1, <1>3, <1>7, <1>8, <2>3
<1>0. /\ m \in Nat /\ m >= 1 /\ m <= c - n /\ a \in Nat /\ a >= 1 /\ a <= c
      /\ n \in Nat /\ c \in Nat /\ h \in Nat /\ d \in Nat /\ d >= 1
      /\ j = h + m /\ a + d = n + m
  BY <1>1, <1>3, <1>8, <1>9
<1> HIDE DEF h, c
<1>10. a > n
  <2> SUFFICES ASSUME a <= n PROVE FALSE
    BY <1>0
  <2>1. n # 0 /\ s[at[n + 1]].role # "tool"
    BY <1>0 DEF IsCompression
  <2>2. n + 1 - a \in 1..d /\ n + 1 = a + (n + 1 - a)
    BY <1>0
  <2>3. at[n + 1] = i + (n + 1 - a)
    BY <1>7, <2>2
  <2>4. s[i + (n + 1 - a)].role = "tool"
    BY <1>5, <2>2 DEF Block, d
  <2> QED BY <2>1, <2>3, <2>4
<1> DEFINE e == a - n
<1>11. e \in 1..c - n /\ n + e = a /\ h + e \in 1..j - 1 /\ j - (h + e) = d
  BY <1>0, <1>10
<1> HIDE DEF e
<1> USE DEF h, c
<1>12. r[h + e] = s[i] /\ at[n + e] = i
  BY <1>1, <1>7, <1>11
<1>13. d \in DOMAIN s[i].calls /\ Block(s, i, d)
  BY <1>5 DEF d
<1>14. Block(r, h + e, d)
  BY <1>11, <1>12, <1>13, KeptBlock
<1> QED BY <1>11, <1>12, <1>13, <1>14

\* No call loses its results.
LEMMA CompressionAnswers ==
    ASSUME NEW s, WellFormed(s), NEW r, NEW n, NEW at, IsCompression(s, r, n, at),
           NEW U, NEW top, CallsWithin(s, U, top)
    PROVE  CallsWithin(r, U, top)
<1> DEFINE h == HeadLen(s, n)
           c == Cardinality(LooseAt(s))
<1>1. /\ h \in Nat
      /\ DOMAIN r = 1..Len(r) /\ Len(r) \in Nat
      /\ \A k \in 1..h : r[k].calls = <<>>
      /\ \A j \in DOMAIN r : j <= h \/ (j - h \in 1..c - n /\ j = h + (j - h))
      /\ \A l \in 1..c - n : at[n + l] \in DOMAIN s /\ r[h + l] = s[at[n + l]]
  BY CompressionParts
<1> SUFFICES ASSUME NEW j \in DOMAIN r, NEW k \in DOMAIN r[j].calls
             PROVE  /\ Block(r, j, k) \/ r[j].calls[k] \in U
                    /\ r[j].calls[k] \in 1..top
  BY DEF CallsWithin
<1>2. PICK m \in 1..c - n : j = h + m
  <2>1. j \in Nat /\ r[j].calls # <<>> /\ j >= 1
    BY <1>1
  <2>2. ~ (j <= h)
    BY <1>1, <2>1
  <2> QED BY <1>1, <2>2
<1>3. at[n + m] \in DOMAIN s /\ r[j] = s[at[n + m]]
  BY <1>1, <1>2
<1>4. Block(s, at[n + m], k) => Block(r, h + m, k)
  BY <1>3, KeptBlock
<1> QED BY <1>2, <1>3, <1>4 DEF CallsWithin

\* What stands where in the head of a compression.
LEMMA HeadFacts ==
    ASSUME NEW s, WellFormed(s), NEW r, NEW n, NEW at, IsCompression(s, r, n, at)
    PROVE  LET h == HeadLen(s, n)
               L == Leading(s)
               q == IF n = 0 THEN 0 ELSE 1
           IN  /\ L \in Nat /\ h \in Nat /\ h = L + q + Cardinality(PinnedAt(s))
               /\ Cardinality(PinnedAt(s)) \in Nat
               /\ \A k \in 1..L : r[k].role = "system" /\ ~r[k].pinned
               /\ n # 0 => r[L + 1].role = "summary" /\ ~r[L + 1].pinned
               /\ \A k \in L + q + 1..h : r[k].role = "user" /\ r[k].pinned
<1>1. s \in Seq(Message) /\ Kinds(s)
  BY DEF WellFormed
<1>2. Leading(s) \in Nat /\ Leading(s) <= Len(s) /\ Len(s) \in Nat
  BY <1>1, LeadingFacts
<1>3. Cardinality(PinnedAt(s)) \in Nat
  BY DEF IsCompression
<1>4. \A k \in 1..Leading(s) : r[k].role = "system" /\ ~r[k].pinned
  <2> TAKE k \in 1..Leading(s)
  <2>1. k \in DOMAIN s /\ s[k].role = "system" /\ r[k] = s[k]
    BY <1>1, <1>2, LeadingFacts DEF IsCompression
  <2> QED BY <1>1, <2>1, MessageFacts DEF Kinds
<1>5. n # 0 => r[Leading(s) + 1].role = "summary" /\ ~r[Leading(s) + 1].pinned
  BY DEF IsCompression
<1>6. \A k \in Leading(s) + (IF n = 0 THEN 0 ELSE 1) + 1..HeadLen(s, n) :
         r[k].role = "user" /\ r[k].pinned
  BY MessageFacts DEF IsCompression
<1> QED BY <1>2, <1>3, <1>4, <1>5, <1>6 DEF HeadLen

\* A position in the head is that of a leading system message, of the summary, or of
\* a pinned message.
LEMMA HeadSplit ==
    ASSUME NEW L \in Nat, NEW p \in Nat, NEW n, NEW h, NEW k \in 1..h,
           h = L + (IF n = 0 THEN 0 ELSE 1) + p
    PROVE  \/ k \in 1..L
           \/ n # 0 /\ k = L + 1
           \/ k \in L + (IF n = 0 THEN 0 ELSE 1) + 1..h
<1>1. CASE n = 0
  BY <1>1
<1>2. CASE n # 0
  BY <1>2
<1> QED BY <1>1, <1>2

\* A compression of a well-formed context is one.
LEMMA CompressionWellFormed ==
    ASSUME NEW s, WellFormed(s), NEW r, NEW n, NEW at, IsCompression(s, r, n, at)
    PROVE  WellFormed(r)
<1> DEFINE h == HeadLen(s, n)
           L == Leading(s)
           q == IF n = 0 THEN 0 ELSE 1
           c == Cardinality(LooseAt(s))
<1>1. /\ h \in Nat /\ c \in Nat /\ n \in Nat /\ n <= c /\ r \in Seq(Message)
      /\ DOMAIN r = 1..Len(r) /\ Len(r) \in Nat
      /\ \A k \in 1..h :
            /\ r[k].calls = <<>> /\ r[k].id = 0
            /\ r[k].pinned => r[k] = Note
      /\ \A j \in DOMAIN r : j <= h \/ (j - h \in 1..c - n /\ j = h + (j - h))
      /\ \A m \in 1..c - n :
            /\ n + m \in 1..c /\ h + m \in DOMAIN r
            /\ at[n + m] \in DOMAIN s /\ r[h + m] = s[at[n + m]]
            /\ ~r[h + m].pinned /\ r[h + m].role # "system"
  BY CompressionParts
<1>2. /\ L \in Nat /\ h = L + q + Cardinality(PinnedAt(s)) /\ Cardinality(PinnedAt(s)) \in Nat
      /\ \A k \in 1..L : r[k].role = "system" /\ ~r[k].pinned
      /\ n # 0 => r[L + 1].role = "summary"
      /\ \A k \in L + q + 1..h : r[k].role = "user" /\ r[k].pinned
  BY HeadFacts
<1>3. s \in Seq(Message) /\ Kinds(s) /\ SummaryBehindKept(s)
  BY DEF WellFormed
<1>4. \A k \in 1..h : k \in 1..L \/ (n # 0 /\ k = L + 1) \/ k \in L + q + 1..h
  BY <1>2, HeadSplit
<1>5. Kinds(r)
  <2> SUFFICES ASSUME NEW j \in DOMAIN r
               PROVE  /\ r[j].pinned => r[j] = Note
                      /\ r[j].calls # <<>> => r[j].role = "assistant"
                      /\ r[j].id # 0 => r[j].role = "tool"
    BY DEF Kinds
  <2>1. CASE j <= h
    <3>1. j \in 1..h
      BY <1>1, <2>1
    <3> QED BY <1>1, <3>1
  <2>2. CASE j - h \in 1..c - n /\ j = h + (j - h)
    <3>1. PICK m \in 1..c - n : j = h + m
      BY <2>2
    <3> QED BY <1>1, <1>3, <3>1 DEF Kinds
  <2> QED BY <1>1, <2>1, <2>2
<1>6. SystemsLead(r)
  <2> SUFFICES ASSUME NEW i \in DOMAIN r, NEW j \in DOMAIN r, i < j, r[j].role = "system"
               PROVE  r[i].role = "system"
    BY DEF SystemsLead
  <2>1. j <= h
    <3> SUFFICES ASSUME j - h \in 1..c - n, j = h + (j - h) PROVE FALSE
      BY <1>1
    <3>1. PICK m \in 1..c - n : j = h + m
      OBVIOUS
    <3> QED BY <1>1, <3>1
  <2>2. j \in 1..h /\ i \in Nat /\ j \in Nat /\ i >= 1
    BY <1>1, <2>1
  <2>3. j \in 1..L
    BY <1>2, <1>4, <2>2
  <2>4. i \in 1..L
    <3> HIDE DEF L
    <3> QED BY <1>2, <2>2, <2>3
  <2> QED BY <1>2, <2>4
<1>7. SummaryBehindKept(r)
  <2> SUFFICES ASSUME NEW i \in DOMAIN r, NEW j \in DOMAIN r, r[j].role = "summary", i < j
               PROVE  r[i].pinned \/ r[i].role = "system"
    BY DEF SummaryBehindKept
  <2>0. i \in Nat /\ j \in Nat /\ i >= 1 /\ j >= 1
    BY <1>1
  <2>1. CASE j <= h
    <3>1. j \in 1..h
      BY <2>0, <2>1
    <3>2. n # 0 /\ j = L + 1
      BY <1>2, <1>4, <3>1
    <3>3. i \in 1..L
      <4> HIDE DEF L
      <4> QED BY <1>2, <2>0, <3>2
    <3> QED BY <1>2, <3>3
  <2>2. CASE j - h \in 1..c - n /\ j = h + (j - h)
    <3>1. PICK m \in 1..c - n : j = h + m
      BY <2>2
    <3>2. /\ n + m \in 1..c /\ at[n + m] \in DOMAIN s /\ r[j] = s[at[n + m]]
          /\ m \in Nat /\ m >= 1
      BY <1>1, <3>1
    <3>3. n + m = 1
      <4> SUFFICES ASSUME n + m # 1 PROVE FALSE
        OBVIOUS
      <4>1. n + m - 1 \in 1..c /\ n + m - 1 < n + m
        <5> HIDE DEF c
        <5> QED BY <1>1, <3>2
      <4> DEFINE x == at[n + m - 1]
      <4>2. x \in LooseAt(s) /\ x < at[n + m]
        BY <3>2, <4>1 DEF IsCompression, Enumerates
      <4>3. x \in DOMAIN s /\ ~s[x].pinned /\ x \in Rest(s)
        BY <1>3, <4>2, RestFacts DEF LooseAt
      <4>4. s[x].role = "system"
        BY <1>3, <3>2, <4>2, <4>3 DEF SummaryBehindKept
      <4>5. Leading(s) + 1 \in DOMAIN s /\ Leading(s) + 1 <= x /\ s[Leading(s) + 1].role # "system"
        BY <1>3, <4>3, RestFacts, LeadingFacts
      <4>6. Leading(s) + 1 = x \/ Leading(s) + 1 < x
        BY <1>3, <4>3, <4>5
      <4> QED BY <4>3, <4>4, <4>5, <4>6 DEF WellFormed, SystemsLead
    <3>4. n = 0 /\ m = 1
      BY <1>1, <3>2, <3>3
    <3>5. i \in 1..h
      <4> HIDE DEF h
      <4> QED BY <1>1, <2>0, <3>1, <3>4
    <3> QED BY <1>2, <1>4, <3>4, <3>5
  <2> QED BY <1>1, <2>1, <2>2
<1>8. ResultsInBlocks(r)
  BY CompressionPairs
<1> QED BY <1>1, <1>5, <1>6, <1>7, <1>8 DEF WellFormed

\* A loose message is one that is not pinned and no leading system message.
LEMMA LooseMessages ==
    ASSUME NEW s, WellFormed(s)
    PROVE  /\ LooseAt(s) = {i \in DOMAIN s : ~s[i].pinned /\ s[i].role # "system"}
           /\ PinnedAt(s) = {i \in DOMAIN s : s[i].pinned}
<1>1. s \in Seq(Message) /\ Kinds(s) /\ SystemsLead(s)
  BY DEF WellFormed
<1>2. /\ Leading(s) \in Nat /\ Leading(s) <= Len(s) /\ Len(s) \in Nat /\ DOMAIN s = 1..Len(s)
      /\ Rest(s) = Leading(s) + 1..Len(s)
      /\ \A i \in 1..Leading(s) : s[i].role = "system"
      /\ Leading(s) < Len(s) => s[Leading(s) + 1].role # "system"
  BY <1>1, LeadingFacts, RestFacts
<1>3. \A i \in DOMAIN s : i \in Rest(s) <=> s[i].role # "system"
  <2> TAKE i \in DOMAIN s
  <2>1. i \notin Rest(s) => i \in 1..Leading(s)
    BY <1>2
  <2>2. ASSUME i \in Rest(s) PROVE s[i].role # "system"
    <3>1. Leading(s) < Len(s) /\ Leading(s) + 1 \in DOMAIN s
      BY <1>2, <2>2
    <3>2. Leading(s) + 1 = i \/ Leading(s) + 1 < i
      BY <1>2, <2>2
    <3> QED BY <1>1, <1>2, <3>1, <3>2 DEF SystemsLead
  <2> QED BY <1>2, <2>1, <2>2
<1>4. \A i \in DOMAIN s : s[i].pinned => s[i].role # "system"
  BY <1>1, MessageFacts DEF Kinds
<1>5. Rest(s) \subseteq DOMAIN s
  BY <1>2
<1> QED BY <1>3, <1>4, <1>5 DEF LooseAt, PinnedAt

\* The last user message stays the last one, if it is not summarised.
LEMMA CompressionLastUser ==
    ASSUME NEW s, WellFormed(s), NEW r, NEW n, NEW at, IsCompression(s, r, n, at),
           NEW t, LastUser(s, t)
    PROVE  LastUser(r, t)
<1> DEFINE h == HeadLen(s, n)
           c == Cardinality(LooseAt(s))
<1>1. /\ h \in Nat /\ c \in Nat /\ n \in Nat /\ n <= c /\ Len(r) = h + (c - n)
      /\ DOMAIN r = 1..Len(r) /\ Len(r) \in Nat
      /\ \A k \in 1..h : r[k].role = "user" => r[k].pinned
      /\ \A j \in DOMAIN r : j <= h \/ (j - h \in 1..c - n /\ j = h + (j - h))
      /\ \A m \in 1..c - n :
            /\ n + m \in 1..c /\ h + m \in DOMAIN r
            /\ at[n + m] \in DOMAIN s /\ r[h + m] = s[at[n + m]]
  BY CompressionParts
<1>2. s \in Seq(Message)
  BY DEF WellFormed
<1> SUFFICES ASSUME NEW i \in DOMAIN r, r[i].role = "user", ~r[i].pinned,
                    \A j \in i + 1..Len(r) : r[j].role = "user" => r[j].pinned
             PROVE  r[i].task = t
  BY DEF LastUser
<1>3. PICK m \in 1..c - n : i = h + m
  <2>1. ~ (i <= h)
    BY <1>1
  <2> QED BY <1>1, <2>1
<1> DEFINE J == at[n + m]
<1>4. J \in DOMAIN s /\ r[i] = s[J] /\ n + m \in 1..c
  BY <1>1, <1>3
<1>5. \A j \in J + 1..Len(s) : s[j].role = "user" => s[j].pinned
  <2> SUFFICES ASSUME NEW j \in J + 1..Len(s), s[j].role = "user", ~s[j].pinned PROVE FALSE
    OBVIOUS
  <2>1. j \in DOMAIN s /\ J \in Nat /\ j \in Nat /\ J < j
    <3> HIDE DEF J
    <3> QED BY <1>2, <1>4
  <2>2. j \in LooseAt(s)
    BY <2>1, LooseMessages
  <2>3. PICK b \in 1..c : at[b] = j
    BY <2>2 DEF IsCompression, Enumerates
  <2>4. \A x, y \in 1..c : x < y => at[x] < at[y]
    BY DEF IsCompression, Enumerates
  <2>5. n + m < b
    <3>1. ~ (b < n + m) /\ b # n + m
      BY <1>4, <2>1, <2>3, <2>4
    <3> HIDE DEF c
    <3> QED BY <1>1, <1>3, <1>4, <2>3, <3>1
  <2>6. b - n \in 1..c - n /\ n + (b - n) = b /\ h + (b - n) \in i + 1..Len(r)
    <3> HIDE DEF c, h
    <3>1. m \in Nat /\ b \in Nat /\ b <= c /\ c - n \in Nat
      BY SMTT(30), <1>1, <1>3, <2>3
    <3> QED BY <1>1, <1>3, <2>5, <3>1
  <2>7. r[h + (b - n)] = s[j]
    BY <1>1, <2>3, <2>6
  <2> QED BY <2>6, <2>7
<1> QED BY <1>4, <1>5 DEF LastUser

\* The task is in the recent part, or the summary quotes it.
LEMMA CompressionNamesTask ==
    ASSUME NEW s, WellFormed(s), NEW r, NEW n, NEW at, IsCompression(s, r, n, at),
           NEW t \in Tasks, LastUser(s, t),
           \E i \in DOMAIN s : s[i].role = "user" /\ s[i].task = t
    PROVE  \E j \in DOMAIN r : r[j].role \in {"user", "summary"} /\ r[j].task = t
<1> DEFINE h == HeadLen(s, n)
           c == Cardinality(LooseAt(s))
           G == {k \in 1..c : s[at[k]].role = "user"}
<1>1. /\ h \in Nat /\ c \in Nat /\ n \in Nat /\ n <= c /\ Len(r) = h + (c - n)
      /\ DOMAIN r = 1..Len(r) /\ Len(r) \in Nat
      /\ \A m \in 1..c - n : h + m \in DOMAIN r /\ r[h + m] = s[at[n + m]]
  BY CompressionParts
<1>2. s \in Seq(Message) /\ Kinds(s)
  BY DEF WellFormed
<1>3. PICK i \in DOMAIN s : s[i].role = "user" /\ s[i].task = t
  OBVIOUS
<1>4. ~s[i].pinned
  <2>1. t # NoTask
    BY ConstantsAssumption
  <2> QED BY <1>2, <1>3, <2>1, MessageFacts DEF Kinds
<1>5. PICK a \in 1..c : at[a] = i
  <2>1. i \in LooseAt(s)
    BY <1>3, <1>4, LooseMessages
  <2> QED BY <2>1 DEF IsCompression, Enumerates
<1>6. PICK g \in G : \A k \in G : k <= g
  <2>1. a \in G
    BY <1>3, <1>5
  <2>2. G \subseteq Nat /\ G # {} /\ \A k \in G : k <= c
    BY <1>1, <2>1
  <2> HIDE DEF G, c
  <2> QED BY <1>1, <2>2, GreatestNat
<1>7. g \in 1..c /\ s[at[g]].role = "user" /\ \A k \in 1..c : s[at[k]].role = "user" => k <= g
  BY <1>6
<1>8. at[g] \in LooseAt(s) /\ at[g] \in DOMAIN s /\ ~s[at[g]].pinned
  BY SMTT(30), <1>7, LooseMessages DEF IsCompression, Enumerates
<1>9. \A j \in at[g] + 1..Len(s) : s[j].role = "user" => s[j].pinned
  <2> SUFFICES ASSUME NEW j \in at[g] + 1..Len(s), s[j].role = "user", ~s[j].pinned
               PROVE  FALSE
    OBVIOUS
  <2>1. j \in DOMAIN s /\ at[g] \in Nat /\ j \in Nat /\ at[g] < j
    BY <1>2, <1>8
  <2>2. j \in LooseAt(s)
    BY <2>1, LooseMessages
  <2>3. PICK b \in 1..c : at[b] = j
    BY <2>2 DEF IsCompression, Enumerates
  <2>4. b <= g
    BY <1>7, <2>3
  <2>5. b = g \/ b < g
    BY <1>7, <2>3, <2>4
  <2>6. \A x, y \in 1..c : x < y => at[x] < at[y]
    BY DEF IsCompression, Enumerates
  <2> QED BY <1>7, <2>1, <2>3, <2>5, <2>6
<1>10. s[at[g]].task = t
  BY <1>7, <1>8, <1>9 DEF LastUser
<1>11. CASE g > n
  <2>1. g - n \in 1..c - n /\ n + (g - n) = g
    <3> HIDE DEF c
    <3> QED BY <1>1, <1>7, <1>11
  <2>2. h + (g - n) \in DOMAIN r /\ r[h + (g - n)] = s[at[g]]
    BY <1>1, <2>1
  <2> QED BY <1>7, <1>10, <2>2
<1>12. CASE g <= n
  <2>1. n # 0 /\ g \in 1..n
    <3> HIDE DEF c
    <3> QED BY <1>1, <1>7, <1>12
  <2>2. \A l \in g + 1..n : s[at[l]].role # "user"
    <3> TAKE l \in g + 1..n
    <3>1. l \in 1..c /\ ~ (l <= g)
      <4> HIDE DEF c
      <4> QED BY <1>1, <1>7
    <3> QED BY <1>7, <3>1
  <2>3. r[Leading(s) + 1].role = "summary" /\ r[Leading(s) + 1].task = t
    BY <1>7, <1>10, <2>1, <2>2 DEF IsCompression
  <2>4. Leading(s) + 1 \in DOMAIN r
    <3>1. /\ Leading(s) \in Nat /\ h = Leading(s) + 1 + Cardinality(PinnedAt(s))
          /\ Cardinality(PinnedAt(s)) \in Nat
      BY <2>1, HeadFacts
    <3> HIDE DEF h, c
    <3> QED BY <1>1, <3>1
  <2> QED BY <2>3, <2>4
<1>13. g \in Int /\ n \in Int
  BY <1>1, <1>7
<1> QED BY <1>11, <1>12, <1>13

\* The pinned messages of a context are so many notes.
LEMMA PinnedNotes ==
    ASSUME NEW s, WellFormed(s)
    PROVE  /\ Cardinality(PinnedAt(s)) \in Nat
           /\ Pinned(s) = [k \in 1..Cardinality(PinnedAt(s)) |-> Note]
<1> DEFINE p == Cardinality(PinnedAt(s))
<1>1. s \in Seq(Message) /\ Kinds(s)
  BY DEF WellFormed
<1>2. /\ p \in Nat /\ Pinned(s) \in Seq(Message) /\ Len(Pinned(s)) = p
      /\ \E b : /\ Enumerates(b, PinnedAt(s))
                /\ \A k \in 1..p : Pinned(s)[k] = s[b[k]]
  BY SMTT(30), <1>1, RestFacts, PickFacts
<1>3. PICK b : Enumerates(b, PinnedAt(s)) /\ \A k \in 1..p : Pinned(s)[k] = s[b[k]]
  BY <1>2
<1>4. \A k \in 1..p : b[k] \in DOMAIN s /\ s[b[k]].pinned
  BY <1>3, LooseMessages DEF Enumerates
<1>5. \A k \in 1..p : Pinned(s)[k] = Note
  BY <1>1, <1>3, <1>4 DEF Kinds
<1>6. Pinned(s) = [k \in 1..p |-> Pinned(s)[k]]
  BY <1>2
<1> QED BY <1>2, <1>5, <1>6

\* A context with no fewer pinned messages has them all.
LEMMA PinsPrefix ==
    ASSUME NEW s, WellFormed(s), NEW r, WellFormed(r),
           Cardinality(PinnedAt(s)) <= Cardinality(PinnedAt(r))
    PROVE  IsPrefix(Pinned(s), Pinned(r))
<1> DEFINE p == Cardinality(PinnedAt(s))
           x == Cardinality(PinnedAt(r))
<1>1. /\ p \in Nat /\ x \in Nat /\ p <= x
      /\ Pinned(s) = [k \in 1..p |-> Note] /\ Pinned(r) = [k \in 1..x |-> Note]
  BY PinnedNotes
<1> HIDE DEF p, x
<1>2. Len(Pinned(s)) = p /\ Len(Pinned(r)) = x
  BY <1>1
<1>3. SubSeq(Pinned(s), 1, p) = [k \in 1..p |-> Note]
  BY <1>1
<1>4. SubSeq(Pinned(r), 1, p) = [k \in 1..p |-> Note]
  BY <1>1
<1> QED BY <1>1, <1>2, <1>3, <1>4 DEF IsPrefix

\* No pinned message is summarised.
LEMMA CompressionPins ==
    ASSUME NEW s, WellFormed(s), NEW r, NEW n, NEW at, IsCompression(s, r, n, at)
    PROVE  Cardinality(PinnedAt(r)) = Cardinality(PinnedAt(s))
<1> DEFINE h == HeadLen(s, n)
           L == Leading(s)
           q == IF n = 0 THEN 0 ELSE 1
           p == Cardinality(PinnedAt(s))
           c == Cardinality(LooseAt(s))
<1>1. /\ h \in Nat /\ c \in Nat /\ n \in Nat /\ n <= c /\ Len(r) = h + (c - n)
      /\ DOMAIN r = 1..Len(r)
      /\ \A j \in DOMAIN r : j <= h \/ (j - h \in 1..c - n /\ j = h + (j - h))
      /\ \A m \in 1..c - n : ~r[h + m].pinned
  BY CompressionParts
<1>2. /\ L \in Nat /\ h = L + q + p /\ p \in Nat
      /\ \A k \in 1..L : ~r[k].pinned
      /\ n # 0 => ~r[L + 1].pinned
      /\ \A k \in L + q + 1..h : r[k].pinned
  BY HeadFacts
<1>3. \A k \in 1..h : k \in 1..L \/ (n # 0 /\ k = L + 1) \/ k \in L + q + 1..h
  BY <1>2, HeadSplit
<1>4. WellFormed(r)
  BY CompressionWellFormed
<1>5. \A j \in DOMAIN r : r[j].pinned <=> j \in L + q + 1..h
  <2> TAKE j \in DOMAIN r
  <2>1. CASE j <= h
    <3>1. j \in 1..h
      BY <1>1, <2>1
    <3>2. j \in 1..L => j \notin L + q + 1..h
      BY <1>2
    <3>3. n # 0 /\ j = L + 1 => j \notin L + q + 1..h
      BY <1>2
    <3> QED BY <1>2, <1>3, <3>1, <3>2, <3>3
  <2>2. CASE j - h \in 1..c - n /\ j = h + (j - h)
    <3>1. ~r[j].pinned
      <4>1. PICK m \in 1..c - n : j = h + m
        BY <2>2
      <4> QED BY <1>1, <4>1
    <3>2. j \notin L + q + 1..h
      <4> HIDE DEF h, c
      <4> QED BY <1>1, <2>2
    <3> QED BY <3>1, <3>2
  <2> QED BY <1>1, <2>1, <2>2
<1>6. L + q + 1..h \subseteq DOMAIN r
  <2> HIDE DEF c
  <2> QED BY <1>1, <1>2
<1>7. PinnedAt(r) = L + q + 1..h
  BY <1>4, <1>5, <1>6, LooseMessages
<1>8. Cardinality(L + q + 1..h) = p
  <2>1. L + q + 1 \in Int /\ h \in Int
    BY <1>2
  <2>2. Cardinality(L + q + 1..h) = IF L + q + 1 > h THEN 0 ELSE h - (L + q + 1) + 1
    BY <2>1, FS_Interval
  <2> HIDE DEF p
  <2> QED BY <1>2, <2>2
<1> QED BY <1>7, <1>8

\* The context r has all that matters of the context s.
Carries(s, r) ==
    /\ WellFormed(r)
    /\ \A U, top : CallsWithin(s, U, top) => CallsWithin(r, U, top)
    /\ \A t : LastUser(s, t) => LastUser(r, t)
    /\ Cardinality(PinnedAt(s)) <= Cardinality(PinnedAt(r))

\* A context carries itself, and what carries it carries what it carries.
LEMMA CarriesOrder ==
    /\ \A s : WellFormed(s) => Carries(s, s)
    /\ \A s, r, u : WellFormed(s) /\ Carries(s, r) /\ Carries(r, u) => Carries(s, u)
<1>1. \A s : WellFormed(s) => Carries(s, s)
  BY PinnedNotes DEF Carries
<1>2. ASSUME NEW s, NEW r, NEW u, WellFormed(s), Carries(s, r), Carries(r, u)
      PROVE  Carries(s, u)
  <2>1. /\ Cardinality(PinnedAt(s)) \in Nat /\ Cardinality(PinnedAt(r)) \in Nat
        /\ Cardinality(PinnedAt(u)) \in Nat
    BY <1>2, PinnedNotes DEF Carries
  <2>2. /\ Cardinality(PinnedAt(s)) <= Cardinality(PinnedAt(r))
        /\ Cardinality(PinnedAt(r)) <= Cardinality(PinnedAt(u))
    BY <1>2 DEF Carries
  <2>3. Cardinality(PinnedAt(s)) <= Cardinality(PinnedAt(u))
    BY <2>1, <2>2
  <2> QED BY <1>2, <2>3 DEF Carries
<1> QED BY <1>1, <1>2

\* compress keeps what matters: calls with their results, open calls open, the last
\* user message the last, and the pinned messages.
LEMMA CompressCarries ==
    ASSUME NEW s, WellFormed(s)
    PROVE  Carries(s, Compressed(s))
<1>1. PICK n, at : IsCompression(s, Compressed(s), n, at)
  BY CompressedFacts DEF WellFormed
<1>2. WellFormed(Compressed(s))
  BY <1>1, CompressionWellFormed
<1>3. Cardinality(PinnedAt(s)) <= Cardinality(PinnedAt(Compressed(s)))
  <2>1. Cardinality(PinnedAt(s)) \in Nat
    BY PinnedNotes
  <2> QED BY <1>1, <2>1, CompressionPins
<1>4. ASSUME NEW U, NEW top, CallsWithin(s, U, top) PROVE CallsWithin(Compressed(s), U, top)
  BY <1>1, <1>4, CompressionAnswers
<1>5. ASSUME NEW t, LastUser(s, t) PROVE LastUser(Compressed(s), t)
  BY <1>1, <1>5, CompressionLastUser
<1> QED BY <1>2, <1>3, <1>4, <1>5 DEF Carries

----------------------------------------------------------------------------
(* The request of the native loop.                                          *)

\* One forced compression, if it is needed and possible.
Squeeze(s) == IF Squeezable(s) THEN Compressed(s) ELSE s

\* The loop of _prepare_native_request compresses up to three times.
LEMMA SqueezedSteps ==
    ASSUME NEW s
    PROVE  LET S == Squeezed(s)
           IN  /\ S[0] = s
               /\ S[1] = Squeeze(S[0]) /\ S[2] = Squeeze(S[1]) /\ S[3] = Squeeze(S[2])
<1> DEFINE Def(f) == f = [k \in 0..3 |-> IF k = 0 THEN s
                                         ELSE IF Squeezable(f[k - 1]) THEN Compressed(f[k - 1])
                                              ELSE f[k - 1]]
           S == Squeezed(s)
<1>1. \E f : Def(f)
  <2> DEFINE a == Squeeze(s)
             b == Squeeze(a)
             c == Squeeze(b)
             f == [k \in 0..3 |-> IF k = 0 THEN s ELSE IF k = 1 THEN a ELSE IF k = 2 THEN b ELSE c]
             Next1(k) == IF k = 0 THEN s ELSE Squeeze(f[k - 1])
  <2>1. a = Squeeze(s) /\ b = Squeeze(a) /\ c = Squeeze(b)
    OBVIOUS
  <2> HIDE DEF a, b, c
  <2>2. f[0] = s /\ f[1] = a /\ f[2] = b /\ f[3] = c
    OBVIOUS
  <2>3. \A k \in 0..3 : f[k] = Next1(k)
    <3>1. \A k \in 0..3 : k = 0 \/ k = 1 \/ k = 2 \/ k = 3
      OBVIOUS
    <3>2. 1 - 1 = 0 /\ 2 - 1 = 1 /\ 3 - 1 = 2
      OBVIOUS
    <3> HIDE DEF f
    <3> QED BY <2>1, <2>2, <3>1, <3>2
  <2>4. f = [k \in 0..3 |-> f[k]]
    OBVIOUS
  <2> HIDE DEF f
  <2>5. f = [k \in 0..3 |-> Next1(k)]
    BY <2>3, <2>4
  <2>6. Def(f)
    BY <2>5 DEF Squeeze
  <2> QED BY <2>6
<1>2. Def(S)
  <2>1. S = CHOOSE f : Def(f)
    BY DEF Squeezed
  <2> HIDE DEF S, Def
  <2> QED BY <1>1, <2>1
<1>3. \A k \in 0..3 : S[k] = IF k = 0 THEN s ELSE Squeeze(S[k - 1])
  <2> HIDE DEF S
  <2>1. S = [k \in 0..3 |-> IF k = 0 THEN s
                            ELSE IF Squeezable(S[k - 1]) THEN Compressed(S[k - 1]) ELSE S[k - 1]]
    BY <1>2
  <2>2. \A k \in 0..3 : S[k] = IF k = 0 THEN s
                               ELSE IF Squeezable(S[k - 1]) THEN Compressed(S[k - 1])
                                    ELSE S[k - 1]
    BY <2>1
  <2> QED BY <2>2 DEF Squeeze
<1> HIDE DEF S
<1>4. S[0] = s
  BY <1>3
<1>5. S[1] = Squeeze(S[1 - 1]) /\ S[2] = Squeeze(S[2 - 1]) /\ S[3] = Squeeze(S[3 - 1])
  BY <1>3
<1> QED BY <1>4, <1>5 DEF S

\* Forced compressions keep what matters.
LEMMA SqueezedCarries ==
    ASSUME NEW s, WellFormed(s)
    PROVE  Carries(s, Squeezed(s)[3])
<1>1. \A r : WellFormed(r) => Carries(r, Squeeze(r))
  BY CarriesOrder, CompressCarries DEF Squeeze
<1> DEFINE S == Squeezed(s)
<1>2. S[0] = s /\ S[1] = Squeeze(S[0]) /\ S[2] = Squeeze(S[1]) /\ S[3] = Squeeze(S[2])
  BY SqueezedSteps
<1> HIDE DEF S
<1>3. Carries(s, S[1])
  BY <1>1, <1>2
<1>4. Carries(s, S[2])
  <2>1. Carries(S[1], S[2])
    BY <1>1, <1>2, <1>3 DEF Carries
  <2> QED BY <1>3, <2>1, CarriesOrder
<1>5. Carries(s, S[3])
  <2>1. Carries(S[2], S[3])
    BY <1>1, <1>2, <1>4 DEF Carries
  <2> QED BY <1>4, <2>1, CarriesOrder
<1> QED BY <1>5 DEF S

\* A request that took at most one compression is the context or its compression.
LEMMA OneSqueeze ==
    ASSUME NEW s
    PROVE  /\ Squeezes(s) \in 0..3
           /\ Squeezes(s) <= 1 => Squeezed(s)[3] = s \/ Squeezed(s)[3] = Compressed(s)
<1> DEFINE S == Squeezed(s)
           K == {k \in 0..2 : Squeezable(S[k])}
<1>1. S[0] = s /\ S[1] = Squeeze(S[0]) /\ S[2] = Squeeze(S[1]) /\ S[3] = Squeeze(S[2])
  BY SqueezedSteps
<1>2. IsFiniteSet(0..2) /\ Cardinality(0..2) = 3
  <2> HIDE DEF S, K
  <2>1. \A a, b \in Int : IsFiniteSet(a..b) /\ Cardinality(a..b) = IF a > b THEN 0 ELSE b - a + 1
    BY FS_Interval
  <2>2. 0 \in Int /\ 2 \in Int /\ ~ (0 > 2) /\ 2 - 0 + 1 = 3
    OBVIOUS
  <2> QED BY <2>1, <2>2
<1>3. K \in SUBSET (0..2)
  OBVIOUS
<1>4. IsFiniteSet(K) /\ Cardinality(K) \in Nat /\ Cardinality(K) <= 3
  <2> HIDE DEF K
  <2> QED BY <1>2, <1>3, FS_Subset, FS_CardinalityType
<1>5. Squeezes(s) = Cardinality(K)
  BY DEF Squeezes
<1>6. \A k \in 0..2 : k \in K <=> Squeezable(S[k])
  OBVIOUS
<1> HIDE DEF S, K
<1>7. ASSUME Cardinality(K) <= 1 PROVE ~ (0 \in K /\ 1 \in K)
  <2> SUFFICES ASSUME 0 \in K, 1 \in K PROVE FALSE
    OBVIOUS
  <2>1. {0} \cup {1} \in SUBSET K
    OBVIOUS
  <2>2. IsFiniteSet({0}) /\ Cardinality({0}) = 1
    BY FS_Singleton
  <2>3. Cardinality({0} \cup {1}) = 2
    BY <2>2, FS_AddElement
  <2>4. Cardinality({0} \cup {1}) <= Cardinality(K)
    BY <1>4, <2>1, FS_Subset
  <2> QED BY <1>4, <1>7, <2>3, <2>4
<1>8. ASSUME Cardinality(K) <= 1 PROVE S[3] = s \/ S[3] = Compressed(s)
  <2>0. 0 \in 0..2 /\ 1 \in 0..2 /\ 2 \in 0..2
    OBVIOUS
  <2>1. CASE ~Squeezable(s)
    BY <1>1, <2>1 DEF Squeeze
  <2>2. CASE Squeezable(s)
    <3>1. S[1] = Compressed(s)
      BY <1>1, <2>2 DEF Squeeze
    <3>2. ~Squeezable(S[1])
      BY <1>1, <1>6, <1>7, <1>8, <2>0, <2>2
    <3> QED BY <1>1, <3>1, <3>2 DEF Squeeze
  <2> QED BY <2>1, <2>2
<1> QED BY <1>4, <1>5, <1>8 DEF S

----------------------------------------------------------------------------
(* Appending a message.                                                     *)

\* A message may be appended if it is none of the leading ones and, where it is the
\* result of a call, stands behind that call.
Fitting(s, m) ==
    /\ m \in Message
    /\ m.role \in {"user", "assistant", "tool"}
    /\ m.pinned => m = Note
    /\ m.calls # <<>> => m.role = "assistant"
    /\ m.id # 0 => /\ m.role = "tool"
                   /\ \E i \in DOMAIN s : LET k == Len(s) + 1 - i
                                          IN  /\ k \in DOMAIN s[i].calls
                                              /\ Block(s, i, k - 1)
                                              /\ s[i].calls[k] = m.id

\* What an append does to a sequence.
LEMMA AppendSeq ==
    ASSUME NEW s \in Seq(Message), NEW m \in Message
    PROVE  LET r == Append(s, m)
           IN  /\ r \in Seq(Message)
               /\ Len(s) \in Nat /\ Len(r) = Len(s) + 1
               /\ DOMAIN s = 1..Len(s) /\ DOMAIN r = 1..Len(s) + 1
               /\ r[Len(s) + 1] = m
               /\ \A i \in DOMAIN s : r[i] = s[i] /\ i \in DOMAIN r
               /\ \A i \in DOMAIN r : i \in DOMAIN s \/ i = Len(s) + 1
  OBVIOUS

\* What stands behind a call stays there.
LEMMA AppendBlock ==
    ASSUME NEW s \in Seq(Message), NEW m \in Message,
           NEW i \in DOMAIN s, NEW k \in Nat, Block(s, i, k)
    PROVE  Block(Append(s, m), i, k)
<1> DEFINE r == Append(s, m)
<1>1. /\ Len(r) = Len(s) + 1 /\ Len(s) \in Nat /\ DOMAIN s = 1..Len(s)
      /\ \A j \in DOMAIN s : r[j] = s[j]
  BY AppendSeq
<1> HIDE DEF r
<1>2. i + k <= Len(s)
  BY DEF Block
<1>3. \A l \in 1..k : i + l \in DOMAIN s
  BY <1>1, <1>2
<1>4. i + k <= Len(r)
  BY <1>1, <1>2
<1>5. Block(r, i, k)
  BY <1>1, <1>3, <1>4 DEF Block
<1> QED BY <1>5 DEF r

\* An appended message leaves a well-formed context well-formed, and loses nothing.
LEMMA AppendFacts ==
    ASSUME NEW s, WellFormed(s), NEW m, Fitting(s, m)
    PROVE  LET r == Append(s, m)
           IN  /\ WellFormed(r)
               /\ \A U, top : /\ CallsWithin(s, U, top)
                              /\ \A k \in DOMAIN m.calls : m.calls[k] \in U /\ m.calls[k] \in 1..top
                              => CallsWithin(r, U, top)
               /\ \A t : /\ LastUser(s, t)
                         /\ m.role = "user" /\ ~m.pinned => m.task = t
                         => LastUser(r, t)
               /\ m.role = "user" /\ ~m.pinned => LastUser(r, m.task)
               /\ Cardinality(PinnedAt(s)) <= Cardinality(PinnedAt(r))
<1> DEFINE r == Append(s, m)
           l == Len(s) + 1
<1>1. /\ s \in Seq(Message) /\ Kinds(s) /\ SystemsLead(s) /\ SummaryBehindKept(s)
      /\ ResultsInBlocks(s)
  BY DEF WellFormed
<1>2. m \in Message
  BY DEF Fitting
<1>3. /\ r \in Seq(Message) /\ Len(s) \in Nat /\ Len(r) = l /\ l = Len(s) + 1
      /\ DOMAIN s = 1..Len(s) /\ DOMAIN r = 1..l /\ r[l] = m
      /\ \A i \in DOMAIN s : r[i] = s[i] /\ i \in DOMAIN r
      /\ \A i \in DOMAIN r : i \in DOMAIN s \/ i = l
  BY <1>1, <1>2, AppendSeq
<1>4. \A i \in DOMAIN s, k \in Nat : Block(s, i, k) => Block(r, i, k)
  BY <1>1, <1>2, AppendBlock
<1> HIDE DEF r, l
<1>5. \A i, j \in DOMAIN r : i < j => i \in DOMAIN s
  BY <1>3
<1>6. Kinds(r)
  BY <1>1, <1>3 DEF Kinds, Fitting
<1>7. SystemsLead(r)
  BY <1>1, <1>3, <1>5 DEF SystemsLead, Fitting
<1>8. SummaryBehindKept(r)
  BY <1>1, <1>3, <1>5 DEF SummaryBehindKept, Fitting
<1>9. ResultsInBlocks(r)
  <2> SUFFICES ASSUME NEW j \in DOMAIN r, r[j].id # 0
               PROVE  \E i \in 1..j - 1 : j - i \in DOMAIN r[i].calls /\ Block(r, i, j - i)
    BY DEF ResultsInBlocks
  <2>1. CASE j \in DOMAIN s
    <3>1. PICK i \in 1..j - 1 : j - i \in DOMAIN s[i].calls /\ Block(s, i, j - i)
      BY <1>1, <1>3, <2>1 DEF ResultsInBlocks
    <3>2. i \in DOMAIN s /\ j - i \in Nat
      BY <1>3, <2>1
    <3> QED BY <1>3, <1>4, <3>1, <3>2
  <2>2. CASE j = l
    <3>1. m.id # 0 /\ m.role = "tool"
      BY <1>3, <2>2 DEF Fitting
    <3>2. PICK i \in DOMAIN s : /\ l - i \in DOMAIN s[i].calls
                                /\ Block(s, i, l - i - 1) /\ s[i].calls[l - i] = m.id
      BY SMTT(60), <1>3, <3>1 DEF Fitting, l
    <3>3. l - i \in Nat /\ l - i >= 1 /\ l - i - 1 \in Nat /\ i \in 1..l - 1 /\ i + (l - i) = l
      BY <1>3
    <3>4. Block(r, i, l - i - 1) /\ r[i] = s[i]
      BY <1>3, <1>4, <3>2, <3>3
    <3>5. \A x \in 1..l - i : r[i + x].role = "tool" /\ r[i + x].id = r[i].calls[x]
      <4> TAKE x \in 1..l - i
      <4>1. x = l - i \/ x \in 1..l - i - 1
        BY <3>3
      <4> QED BY <1>3, <3>1, <3>2, <3>3, <3>4, <4>1 DEF Block
    <3>6. Block(r, i, l - i)
      BY <1>3, <3>3, <3>5 DEF Block
    <3> QED BY <2>2, <3>2, <3>3, <3>4, <3>6
  <2> QED BY <1>3, <2>1, <2>2
<1>10. WellFormed(r)
  BY <1>3, <1>6, <1>7, <1>8, <1>9 DEF WellFormed
<1>11. ASSUME NEW U, NEW top, CallsWithin(s, U, top),
              \A k \in DOMAIN m.calls : m.calls[k] \in U /\ m.calls[k] \in 1..top
       PROVE  CallsWithin(r, U, top)
  <2>1. \A i \in DOMAIN s : \A k \in DOMAIN s[i].calls : k \in Nat
    <3> TAKE i \in DOMAIN s
    <3>1. s[i] \in Message
      BY <1>1
    <3>2. s[i].calls \in Seq(Nat)
      BY <3>1 DEF Message
    <3> QED BY <3>2
  <2> QED BY <1>3, <1>4, <1>11, <2>1 DEF CallsWithin
<1>12. ASSUME NEW t, LastUser(s, t), m.role = "user" /\ ~m.pinned => m.task = t
       PROVE  LastUser(r, t)
  <2> SUFFICES ASSUME NEW i \in DOMAIN r, r[i].role = "user", ~r[i].pinned,
                      \A j \in i + 1..Len(r) : r[j].role = "user" => r[j].pinned
               PROVE  r[i].task = t
    BY DEF LastUser
  <2>1. CASE i \in DOMAIN s
    <3>1. \A j \in i + 1..Len(s) : j \in DOMAIN s /\ j \in i + 1..Len(r)
      BY <1>3, <2>1
    <3> QED BY <1>3, <1>12, <2>1, <3>1 DEF LastUser
  <2>2. CASE i = l
    BY <1>3, <1>12, <2>2
  <2> QED BY <1>3, <2>1, <2>2
<1>13. ASSUME m.role = "user", ~m.pinned
       PROVE  LastUser(r, m.task)
  <2> SUFFICES ASSUME NEW i \in DOMAIN r,
                      \A j \in i + 1..Len(r) : r[j].role = "user" => r[j].pinned
               PROVE  r[i].task = m.task
    BY DEF LastUser
  <2>1. i = l
    <3> SUFFICES ASSUME i # l PROVE FALSE
      OBVIOUS
    <3>1. l \in i + 1..Len(r)
      BY <1>3
    <3> QED BY <1>3, <1>13, <3>1
  <2> QED BY <1>3, <2>1
<1>14. Cardinality(PinnedAt(s)) <= Cardinality(PinnedAt(r))
  <2>1. PinnedAt(s) \in SUBSET PinnedAt(r)
    BY <1>3, <1>10, LooseMessages
  <2>2. IsFiniteSet(PinnedAt(r))
    BY <1>3, RestFacts, PickFacts
  <2> QED BY <2>1, <2>2, FS_Subset
<1> QED BY <1>10, <1>11, <1>12, <1>13, <1>14 DEF r

\* A context may always be read with more open calls, and more calls in all.
LEMMA CallsWithinMore ==
    ASSUME NEW s, NEW U, NEW V, U \subseteq V, NEW a \in Nat, NEW b \in Nat, a <= b,
           CallsWithin(s, U, a)
    PROVE  CallsWithin(s, V, b)
  BY DEF CallsWithin

\* Number 0 is no call of a context.
LEMMA CallsNotZero ==
    ASSUME NEW s, NEW U, NEW V, U \subseteq V \cup {0}, NEW a \in Nat, CallsWithin(s, U, a)
    PROVE  CallsWithin(s, V, a)
  BY DEF CallsWithin

\* What the portable loop and an approved resume append: a turn without calls, and
\* a hint if the tool failed.
LEMMA PortableTurn ==
    ASSUME NEW s, WellFormed(s), NEW ok \in BOOLEAN, NEW long \in BOOLEAN,
           NEW r, r = s \o (<<Assistant(<<>>), Tool(0, long)>> \o (IF ok THEN <<>> ELSE <<Recovery>>))
    PROVE  /\ WellFormed(r)
           /\ \A U, top : CallsWithin(s, U, top) => CallsWithin(r, U, top)
           /\ Cardinality(PinnedAt(s)) <= Cardinality(PinnedAt(r))
<1> DEFINE A == Assistant(<<>>)
           T == Tool(0, long)
           r1 == Append(s, A)
           r2 == Append(r1, T)
           r3 == Append(r2, Recovery)
<1>1. s \in Seq(Message)
  BY DEF WellFormed
<1>2. /\ A \in Message /\ A.role = "assistant" /\ A.calls = <<>> /\ A.id = 0 /\ ~A.pinned
      /\ T \in Message /\ T.role = "tool" /\ T.calls = <<>> /\ T.id = 0 /\ ~T.pinned
      /\ Recovery \in Message /\ Recovery.role = "user" /\ Recovery.calls = <<>>
      /\ Recovery.id = 0 /\ ~Recovery.pinned
  <2>1. <<>> \in Seq(Nat) /\ 0 \in Nat /\ NoTask \in Tasks \cup {NoTask}
    OBVIOUS
  <2>2. /\ A \in Message /\ A.role = "assistant" /\ A.calls = <<>> /\ A.id = 0 /\ ~A.pinned
    BY <2>1, MessageFacts
  <2>3. T \in Message /\ T.role = "tool" /\ T.calls = <<>> /\ T.id = 0 /\ ~T.pinned
    BY <2>1, MessageFacts
  <2>4. /\ Recovery \in Message /\ Recovery.role = "user" /\ Recovery.calls = <<>>
        /\ Recovery.id = 0 /\ ~Recovery.pinned
    BY <2>1, MessageFacts
  <2> QED BY <2>2, <2>3, <2>4
<1> HIDE DEF A, T
<1>3. r = IF ok THEN r2 ELSE r3
  <2>1. CASE ok
    <3>1. r = s \o (<<A, T>> \o <<>>)
      BY <2>1 DEF A, T
    <3> QED BY <1>1, <1>2, <2>1, <3>1
  <2>2. CASE ~ok
    <3>1. r = s \o (<<A, T>> \o <<Recovery>>)
      BY <2>2 DEF A, T
    <3> QED BY <1>1, <1>2, <2>2, <3>1
  <2> QED BY <2>1, <2>2
<1>4. \A m \in {A, T, Recovery} : m.calls = <<>> /\ \A u : Fitting(u, m)
  BY <1>2 DEF Fitting
<1>5. \A u : WellFormed(u) => \A m \in {A, T, Recovery} :
         /\ WellFormed(Append(u, m))
         /\ \A U, top : CallsWithin(u, U, top) => CallsWithin(Append(u, m), U, top)
         /\ Cardinality(PinnedAt(u)) <= Cardinality(PinnedAt(Append(u, m)))
  <2> SUFFICES ASSUME NEW u, WellFormed(u), NEW m \in {A, T, Recovery}
               PROVE  /\ WellFormed(Append(u, m))
                      /\ \A U, top : CallsWithin(u, U, top) => CallsWithin(Append(u, m), U, top)
                      /\ Cardinality(PinnedAt(u)) <= Cardinality(PinnedAt(Append(u, m)))
    OBVIOUS
  <2>1. Fitting(u, m) /\ DOMAIN m.calls = {}
    BY <1>4
  <2> QED BY <2>1, AppendFacts
<1>6. WellFormed(r1) /\ WellFormed(r2) /\ WellFormed(r3)
  BY <1>5
<1>7. ASSUME NEW U, NEW top, CallsWithin(s, U, top)
      PROVE  CallsWithin(r2, U, top) /\ CallsWithin(r3, U, top)
  BY <1>5, <1>6, <1>7
<1>8. /\ Cardinality(PinnedAt(s)) <= Cardinality(PinnedAt(r2))
      /\ Cardinality(PinnedAt(s)) <= Cardinality(PinnedAt(r3))
  <2>1. /\ Cardinality(PinnedAt(s)) \in Nat /\ Cardinality(PinnedAt(r1)) \in Nat
        /\ Cardinality(PinnedAt(r2)) \in Nat /\ Cardinality(PinnedAt(r3)) \in Nat
    BY <1>6, PinnedNotes
  <2>2. /\ Cardinality(PinnedAt(s)) <= Cardinality(PinnedAt(r1))
        /\ Cardinality(PinnedAt(r1)) <= Cardinality(PinnedAt(r2))
        /\ Cardinality(PinnedAt(r2)) <= Cardinality(PinnedAt(r3))
    BY <1>5, <1>6
  <2> HIDE DEF r1, r2, r3
  <2> QED BY <2>1, <2>2
<1> HIDE DEF r1, r2, r3
<1> QED BY <1>3, <1>6, <1>7, <1>8

\* The next result of a native batch fits behind its call, which is then no longer
\* open; the others of the batch are.
LEMMA AnswerFits ==
    ASSUME WellFormed(msgs), NEW p \in DOMAIN msgs, BatchAt(p), NEW long \in BOOLEAN,
           NEW C, NEW top \in Nat, CallsWithin(msgs, ToSet(run.batch) \cup C, top)
    PROVE  LET m == Tool(Head(run.batch), long)
               r == Append(msgs, m)
               calls == msgs[p].calls
               done == Len(msgs) - p
           IN  /\ Fitting(msgs, m)
               /\ CallsWithin(r, ToSet(Tail(run.batch)) \cup C, top)
               /\ p \in DOMAIN r /\ r[p] = msgs[p] /\ Len(r) - p = done + 1 /\ done \in Nat
               /\ Block(r, p, done + 1)
               /\ Tail(run.batch) = SubSeq(calls, done + 2, Len(calls))
               /\ Len(run.batch) = Len(calls) - done
               /\ \A i \in DOMAIN r \ {p} : \A k \in DOMAIN r[i].calls :
                     r[i].calls[k] \notin ToSet(Tail(run.batch))
<1> DEFINE calls == msgs[p].calls
           done == Len(msgs) - p
           id == Head(run.batch)
           m == Tool(id, long)
           r == Append(msgs, m)
<1>1. msgs \in Seq(Message) /\ calls \in Seq(Nat) /\ p \in 1..Len(msgs) /\ Len(msgs) \in Nat
  <2>1. msgs \in Seq(Message)
    BY DEF WellFormed
  <2>2. msgs[p] \in Message
    BY <2>1
  <2> QED BY <2>1, <2>2 DEF Message
<1>2. /\ done < Len(calls) /\ run.batch = SubSeq(calls, done + 1, Len(calls))
      /\ Block(msgs, p, done)
      /\ \A k, l \in DOMAIN calls : calls[k] = calls[l] => k = l
      /\ \A i \in DOMAIN msgs \ {p} : \A k \in DOMAIN msgs[i].calls :
            msgs[i].calls[k] \notin ToSet(run.batch)
  BY DEF BatchAt
<1>3. done \in Nat /\ Len(calls) \in Nat /\ DOMAIN calls = 1..Len(calls) /\ done + 1 \in DOMAIN calls
  <2>1. done \in Nat
    BY <1>1
  <2>2. Len(calls) \in Nat /\ DOMAIN calls = 1..Len(calls)
    <3> HIDE DEF calls
    <3> QED BY <1>1
  <2> HIDE DEF calls, done
  <2> QED BY <1>2, <2>1, <2>2
<1> HIDE DEF calls
<1>4. /\ run.batch \in Seq(Nat) /\ Len(run.batch) = Len(calls) - done
      /\ DOMAIN run.batch = 1..Len(calls) - done
      /\ \A x \in 1..Len(calls) - done : run.batch[x] = calls[done + x]
  <2>1. done \in 0..Len(calls) /\ calls \in Seq(Nat)
    BY <1>1, <1>2, <1>3 DEF calls
  <2> HIDE DEF done
  <2> QED BY SMTT(30), <1>2, <2>1, SliceFacts DEF calls
<1>5. id = calls[done + 1] /\ id \in Nat /\ Tail(run.batch) = SubSeq(calls, done + 2, Len(calls))
  <2>1. done \in 0..Len(calls) - 1 /\ calls \in Seq(Nat)
    BY <1>1, <1>2, <1>3 DEF calls
  <2>2. calls[done + 1] \in Nat
    BY <1>3, <2>1
  <2> HIDE DEF done
  <2> QED BY <1>2, <2>1, <2>2, SliceTail DEF calls
<1>6. /\ DOMAIN Tail(run.batch) = 1..Len(calls) - (done + 1)
      /\ \A x \in 1..Len(calls) - (done + 1) : Tail(run.batch)[x] = calls[(done + 1) + x]
  <2> DEFINE e == done + 1
             u == SubSeq(calls, e + 1, Len(calls))
  <2>1. e \in 0..Len(calls) /\ calls \in Seq(Nat) /\ e + 1 = done + 2
    BY <1>1, <1>2, <1>3 DEF calls
  <2>2. Tail(run.batch) = u
    BY <1>5, <2>1
  <2> HIDE DEF done, e
  <2>3. DOMAIN u = 1..Len(calls) - e /\ \A x \in 1..Len(calls) - e : u[x] = calls[e + x]
    BY <2>1, SliceFacts
  <2> HIDE DEF u
  <2> QED BY <2>2, <2>3 DEF e
<1>7. ToSet(Tail(run.batch)) = {calls[x] : x \in done + 2..Len(calls)}
  <2>1. \A x \in done + 2..Len(calls) : x - (done + 1) \in 1..Len(calls) - (done + 1)
                                        /\ (done + 1) + (x - (done + 1)) = x
    <3> HIDE DEF done
    <3> QED BY <1>3
  <2>2. \A x \in 1..Len(calls) - (done + 1) : (done + 1) + x \in done + 2..Len(calls)
    <3> HIDE DEF done
    <3> QED BY <1>3
  <2> DEFINE e == done + 1
             I == done + 2..Len(calls)
             J == 1..Len(calls) - e
  <2>3. /\ DOMAIN Tail(run.batch) = J
        /\ \A x \in J : Tail(run.batch)[x] = calls[e + x] /\ e + x \in I
        /\ \A x \in I : x - e \in J /\ e + (x - e) = x
    BY <1>6, <2>1, <2>2
  <2>4. \A x \in I : \E y \in J : calls[x] = Tail(run.batch)[y]
    <3> HIDE DEF e, I, J
    <3> QED BY <2>3
  <2> HIDE DEF e, I, J
  <2>5. ToSet(Tail(run.batch)) = {calls[x] : x \in I}
    <3> DEFINE u == Tail(run.batch)
    <3>1. ToSet(u) = {u[y] : y \in J}
      BY <2>3 DEF ToSet
    <3>2. \A y \in J : \E x \in I : u[y] = calls[x]
      BY <2>3
    <3>3. \A x \in I : \E y \in J : calls[x] = u[y]
      BY <2>4
    <3> HIDE DEF u
    <3>4. ToSet(u) = {calls[x] : x \in I}
      BY <3>1, <3>2, <3>3
    <3> QED BY <3>4 DEF u
  <2> QED BY <2>5 DEF I
<1>8. ToSet(run.batch) = {id} \cup ToSet(Tail(run.batch))
  <2>1. DOMAIN run.batch = 1..Len(calls) - done
    BY <1>4
  <2>2. \A x \in 1..Len(calls) - done : run.batch[x] = calls[done + x]
    BY <1>4
  <2>3. \A x \in done + 1..Len(calls) : x - done \in 1..Len(calls) - done /\ done + (x - done) = x
    <3> HIDE DEF done
    <3> QED BY <1>3
  <2>4. \A x \in 1..Len(calls) - done : done + x \in done + 1..Len(calls)
    <3> HIDE DEF done
    <3> QED BY <1>3
  <2>5. ToSet(run.batch) = {calls[x] : x \in done + 1..Len(calls)}
    <3> HIDE DEF done
    <3> QED BY <2>1, <2>2, <2>3, <2>4 DEF ToSet
  <2>6. done + 1..Len(calls) = {done + 1} \cup (done + 2..Len(calls))
    <3> HIDE DEF done
    <3> QED BY <1>2, <1>3
  <2> HIDE DEF done, id
  <2> QED BY <1>5, <1>7, <2>5, <2>6
<1>9. /\ m \in Message /\ m.role = "tool" /\ m.calls = <<>> /\ m.id = id /\ ~m.pinned
  <2> HIDE DEF id
  <2> QED BY <1>5, MessageFacts
<1> HIDE DEF m, id
<1>10. Len(msgs) + 1 - p = done + 1 /\ (done + 1) - 1 = done /\ p + (done + 1) = Len(msgs) + 1
  BY <1>1
<1>11. Fitting(msgs, m)
  BY <1>2, <1>3, <1>5, <1>9, <1>10 DEF Fitting, calls
<1>12. /\ Len(r) = Len(msgs) + 1 /\ r \in Seq(Message)
       /\ DOMAIN r = 1..Len(msgs) + 1 /\ r[Len(msgs) + 1] = m
       /\ \A i \in DOMAIN msgs : r[i] = msgs[i] /\ i \in DOMAIN r
       /\ \A i \in DOMAIN r : i \in DOMAIN msgs \/ i = Len(msgs) + 1
  BY <1>1, <1>9, AppendSeq
<1>13. \A i \in DOMAIN msgs, k \in Nat : Block(msgs, i, k) => Block(r, i, k)
  BY <1>1, <1>9, AppendBlock
<1> HIDE DEF r
<1>14. Block(r, p, done + 1)
  <2>1. Block(r, p, done) /\ r[p].calls = calls
    BY <1>2, <1>3, <1>12, <1>13 DEF calls
  <2>2. \A x \in 1..done + 1 : x \in 1..done \/ x = done + 1
    BY <1>3
  <2>3. p + (done + 1) <= Len(r)
    BY <1>1, <1>10, <1>12
  <2>4. \A x \in 1..done + 1 : r[p + x].role = "tool" /\ r[p + x].id = calls[x]
    BY <1>5, <1>9, <1>10, <1>12, <2>1, <2>2 DEF Block
  <2> QED BY <2>1, <2>3, <2>4 DEF Block
<1>15. CallsWithin(r, ToSet(Tail(run.batch)) \cup C, top)
  <2> SUFFICES ASSUME NEW i \in DOMAIN r, NEW k \in DOMAIN r[i].calls
               PROVE  /\ Block(r, i, k) \/ r[i].calls[k] \in ToSet(Tail(run.batch)) \cup C
                      /\ r[i].calls[k] \in 1..top
    BY DEF CallsWithin
  <2>1. i \in DOMAIN msgs /\ r[i] = msgs[i]
    BY <1>9, <1>12
  <2>2. k \in Nat /\ k >= 1
    <3>1. msgs[i] \in Message
      BY <1>1, <2>1
    <3>2. msgs[i].calls \in Seq(Nat)
      BY <3>1 DEF Message
    <3> QED BY <2>1, <3>2
  <2>3. /\ Block(msgs, i, k) \/ msgs[i].calls[k] \in ToSet(run.batch) \cup C
        /\ msgs[i].calls[k] \in 1..top
    BY <2>1 DEF CallsWithin
  <2>4. CASE i = p
    <3>1. CASE k <= done + 1
      <4>1. \A x \in 1..k : x \in 1..done + 1
        BY <1>3, <2>2, <3>1
      <4>2. p + k <= Len(r)
        BY SMTT(30), <1>1, <1>3, <1>10, <1>12, <2>2, <3>1
      <4>3. Block(r, p, k)
        BY <1>14, <4>1, <4>2 DEF Block
      <4> QED BY <2>1, <2>3, <2>4, <4>3
    <3>2. CASE ~ (k <= done + 1)
      <4>1. k \in 1..Len(calls) /\ r[i].calls = calls
        BY <1>3, <2>1, <2>4 DEF calls
      <4>2. k \in done + 2..Len(calls)
        <5> HIDE DEF done
        <5> QED BY <1>3, <3>2, <4>1
      <4>3. r[i].calls[k] \in ToSet(Tail(run.batch))
        BY <1>7, <4>1, <4>2
      <4> QED BY <2>1, <2>3, <4>3
    <3> QED BY <3>1, <3>2
  <2>5. CASE i # p
    <3>1. msgs[i].calls[k] \notin ToSet(run.batch)
      BY <1>2, <2>1, <2>5
    <3> QED BY <1>13, <2>1, <2>2, <2>3, <3>1
  <2> QED BY <2>4, <2>5
<1>16. \A i \in DOMAIN r \ {p} : \A k \in DOMAIN r[i].calls :
          r[i].calls[k] \notin ToSet(Tail(run.batch))
  <2> TAKE i \in DOMAIN r \ {p}
  <2>1. CASE i \in DOMAIN msgs
    BY <1>2, <1>8, <1>12, <2>1
  <2>2. CASE i = Len(msgs) + 1
    <3>1. DOMAIN r[i].calls = {}
      BY <1>9, <1>12, <2>2
    <3> QED BY <3>1
  <2> QED BY <1>12, <2>1, <2>2
<1>17. p \in DOMAIN r /\ r[p] = msgs[p] /\ Len(r) - p = done + 1
  BY <1>1, <1>10, <1>12
<1> QED BY <1>3, <1>4, <1>5, <1>11, <1>14, <1>15, <1>16, <1>17 DEF r, m, id, calls

----------------------------------------------------------------------------
(* The invariant holds.                                                     *)

Modes == {"portable", "native", "auto"}
SavedType == [msgs : Seq(Message), mode : Modes, task : Tasks \cup {NoTask},
              pend : {"none", "in_flight", "awaiting_approval"}, open : BOOLEAN]
RunType == [pc : {"idle", "top", "model", "batch", "exec"}, mode : Modes,
            loop : {"portable", "native"}, task : Tasks \cup {NoTask},
            batch : Seq(Nat), squeezes : 0..3]
HistType == [calls : Nat, replies : Nat, runs : Nat, pins : Nat, breaks : Nat, cut : SUBSET Nat]

\* The contexts a process begins with, and a closed checkpoint, are in order.
LEMMA EmptyContexts ==
    \A s \in {Preamble, <<>>} :
        /\ WellFormed(s)
        /\ \A U, top : CallsWithin(s, U, top)
        /\ \A t : LastUser(s, t)
<1> SUFFICES ASSUME NEW s \in {Preamble, <<>>}
             PROVE  /\ WellFormed(s)
                    /\ \A U, top : CallsWithin(s, U, top)
                    /\ \A t : LastUser(s, t)
  OBVIOUS
<1>1. s \in Seq(Message) /\ \A i \in DOMAIN s : i = 1 /\ s[i] = System
  <2>1. System \in Message
    BY MessageFacts
  <2>2. s = <<System>> \/ s = <<>>
    BY DEF Preamble
  <2>3. CASE s = <<>>
    BY <2>3
  <2>4. CASE s = <<System>>
    <3> DEFINE m == System
    <3>1. m \in Message /\ s = <<m>>
      BY <2>1, <2>4
    <3> HIDE DEF m
    <3>2. s \in Seq(Message) /\ \A i \in DOMAIN s : i = 1 /\ s[i] = m
      BY <3>1
    <3> QED BY <3>2 DEF m
  <2> QED BY <2>2, <2>3, <2>4
<1>2. /\ System.role = "system" /\ System.calls = <<>> /\ System.id = 0 /\ ~System.pinned
      /\ DOMAIN System.calls = {}
  BY MessageFacts
<1>3. WellFormed(s)
  BY <1>1, <1>2 DEF WellFormed, Kinds, SystemsLead, SummaryBehindKept, ResultsInBlocks
<1>4. \A U, top : CallsWithin(s, U, top)
  BY <1>1, <1>2 DEF CallsWithin
<1>5. \A t : LastUser(s, t)
  BY <1>1, <1>2 DEF LastUser
<1> QED BY <1>3, <1>4, <1>5

\* A checkpoint that is closed, kept or written in a step is in order after it.
LEMMA SavedClosed ==
    ASSUME saved' = Closed
    PROVE  saved' \in SavedType /\ SavedInv'
<1>1. saved'.msgs = <<>> /\ ~saved'.open /\ saved' \in SavedType
  BY DEF Closed, SavedType, Modes
<1> QED BY <1>1, EmptyContexts DEF SavedInv

\* The same of a checkpoint that a step leaves alone.
LEMMA SavedKept ==
    ASSUME IInv, saved' = saved, hist'.calls \in Nat, hist.calls <= hist'.calls,
           OpenCalls \subseteq OpenCalls'
    PROVE  saved' \in SavedType /\ SavedInv'
<1>1. saved \in SavedType /\ SavedInv /\ hist.calls \in Nat
  BY DEF IInv, TypeOK, SavedType, Modes
<1>2. CallsWithin(saved.msgs, OpenCalls', hist'.calls)
  BY <1>1, CallsWithinMore DEF SavedInv
<1> QED BY <1>1, <1>2 DEF SavedInv

\* The same of the checkpoint that _checkpoint writes.
LEMMA SavedNew ==
    ASSUME NEW r, NEW pend \in {"none", "in_flight", "awaiting_approval"}, Checkpoint(r, pend),
           WellFormed(msgs'), CallsWithin(msgs', OpenCalls', hist'.calls),
           r.mode \in Modes, r.task \in Tasks,
           r.mode = "native" => LastUser(msgs', r.task)
    PROVE  saved' \in SavedType /\ SavedInv'
<1>1. /\ saved' = [msgs |-> msgs', mode |-> r.mode, task |-> r.task, pend |-> pend, open |-> TRUE]
      /\ msgs' \in Seq(Message)
  BY DEF Checkpoint, WellFormed
<1>2. /\ saved'.msgs = msgs' /\ saved'.mode = r.mode /\ saved'.task = r.task
      /\ saved' \in SavedType
  BY <1>1 DEF SavedType
<1> QED BY <1>2 DEF SavedInv

\* What is left to show of a step.
LEMMA StepParts ==
    ASSUME WellFormed(msgs'), CallsWithin(msgs', OpenCalls', hist'.calls),
           saved' \in SavedType, SavedInv', run' \in RunType, hist' \in HistType,
           BatchInv', LoopInv', TaskInRequest'
    PROVE  IInv'
<1>1. TypeOK'
  BY DEF TypeOK, WellFormed, SavedType, RunType, HistType, Modes
<1>2. MsgsInv'
  BY DEF MsgsInv
<1> QED BY <1>1, <1>2 DEF IInv

\* The invariant holds where an engine starts.
LEMMA InitInv == Init => IInv
<1> SUFFICES ASSUME Init PROVE IInv
  OBVIOUS
<1>1. /\ msgs = Preamble /\ saved = Closed /\ run = Idle
      /\ hist = [calls |-> 0, replies |-> 0, runs |-> 0, pins |-> 0, breaks |-> 0, cut |-> {}]
  BY DEF Init
<1>2. TypeOK
  BY <1>1, EmptyContexts DEF TypeOK, WellFormed, Closed, Idle
<1>3. MsgsInv
  BY <1>1, EmptyContexts DEF MsgsInv
<1>4. SavedInv
  <2>1. saved.msgs = <<>> /\ ~saved.open
    BY <1>1 DEF Closed
  <2> QED BY <2>1, EmptyContexts DEF SavedInv
<1>5. BatchInv /\ LoopInv /\ TaskInRequest
  BY <1>1 DEF BatchInv, LoopInv, TaskInRequest, Idle
<1> QED BY <1>2, <1>3, <1>4, <1>5 DEF IInv

\* The fields of the variables in a state that satisfies the invariant.
LEMMA Fields ==
    ASSUME IInv
    PROVE  /\ WellFormed(msgs) /\ CallsWithin(msgs, OpenCalls, hist.calls)
           /\ msgs \in Seq(Message)
           /\ run \in RunType /\ hist \in HistType /\ saved \in SavedType
           /\ hist.calls \in Nat /\ hist.cut \subseteq Nat
           /\ run.batch \in Seq(Nat) /\ run.task \in Tasks \cup {NoTask} /\ run.mode \in Modes
           /\ run.loop \in {"portable", "native"}
           /\ run.pc \in {"idle", "top", "model"} => run.batch = <<>> /\ OpenCalls = hist.cut
           /\ ToSet(<<>>) = {}
<1>1. run \in RunType /\ hist \in HistType /\ saved \in SavedType /\ msgs \in Seq(Message)
  BY DEF IInv, TypeOK, RunType, HistType, SavedType, Modes
<1>2. /\ hist.calls \in Nat /\ hist.cut \subseteq Nat /\ run.batch \in Seq(Nat)
      /\ run.task \in Tasks \cup {NoTask} /\ run.mode \in Modes
      /\ run.loop \in {"portable", "native"}
  BY <1>1 DEF RunType, HistType
<1>3. ToSet(<<>>) = {}
  BY DEF ToSet
<1>4. run.pc \in {"idle", "top", "model"} => run.batch = <<>> /\ OpenCalls = hist.cut
  BY <1>3 DEF IInv, BatchInv, OpenCalls
<1> QED BY <1>1, <1>2, <1>3, <1>4 DEF IInv, MsgsInv

\* What the steps leave of the pinned messages.
PinsKept == Cardinality(PinnedAt(msgs)) <= Cardinality(PinnedAt(msgs'))

\* A step that keeps the invariant, and loses no pinned message unless it is a crash
\* or a resume.
Sound == IInv' /\ (hist'.breaks = hist.breaks => PinsKept)

\* What may be appended behind any message.
LEMMA AlwaysFits ==
    ASSUME NEW s
    PROVE  /\ \A t \in Tasks \cup {NoTask} : Fitting(s, User(t)) /\ DOMAIN User(t).calls = {}
           /\ Fitting(s, Recovery) /\ DOMAIN Recovery.calls = {}
           /\ Fitting(s, Note) /\ DOMAIN Note.calls = {}
           /\ \A c \in Seq(Nat) : Fitting(s, Assistant(c))
<1>1. \A t \in Tasks \cup {NoTask} : Fitting(s, User(t)) /\ DOMAIN User(t).calls = {}
  BY MessageFacts DEF Fitting
<1>2. Fitting(s, Note) /\ DOMAIN Note.calls = {}
  BY MessageFacts DEF Fitting
<1>3. \A c \in Seq(Nat) : Fitting(s, Assistant(c))
  BY MessageFacts DEF Fitting
<1>4. Fitting(s, Recovery) /\ DOMAIN Recovery.calls = {}
  BY <1>1, MessageFacts
<1> QED BY <1>1, <1>2, <1>3, <1>4

\* A run that ends leaves nothing to be executed.
LEMMA IdleFacts ==
    /\ Idle \in RunType /\ Idle.pc = "idle" /\ Idle.batch = <<>>
    /\ run' = Idle => /\ run' \in RunType /\ OpenCalls' = hist'.cut
                      /\ BatchInv' /\ LoopInv' /\ TaskInRequest'
<1>1. /\ Idle \in RunType /\ Idle.pc = "idle" /\ Idle.batch = <<>>
  BY DEF Idle, RunType, Modes
<1>2. ASSUME run' = Idle
      PROVE  /\ run' \in RunType /\ OpenCalls' = hist'.cut
             /\ BatchInv' /\ LoopInv' /\ TaskInRequest'
  <2>1. run' \in RunType /\ run'.pc = "idle" /\ run'.batch = <<>>
    BY <1>1, <1>2
  <2>2. ToSet(<<>>) = {}
    BY DEF ToSet
  <2>3. OpenCalls' = hist'.cut
    BY <2>1, <2>2 DEF OpenCalls
  <2> QED BY <2>1, <2>3 DEF BatchInv, LoopInv, TaskInRequest
<1> QED BY <1>1, <1>2

\* Neither does one that is before a request, which is about its task if native.
LEMMA TopFacts ==
    ASSUME run' \in RunType, run'.pc = "top", run'.batch = <<>>, run'.task \in Tasks,
           run'.mode = "native" => run'.loop = "native",
           run'.loop = "native" => LastUser(msgs', run'.task)
    PROVE  OpenCalls' = hist'.cut /\ BatchInv' /\ LoopInv' /\ TaskInRequest'
<1>1. ToSet(<<>>) = {}
  BY DEF ToSet
<1> QED BY <1>1 DEF OpenCalls, BatchInv, LoopInv, TaskInRequest

\* The parts of a run in progress.
LEMMA RunFacts ==
    ASSUME NEW r \in RunType, NEW pc \in {"idle", "top", "model", "batch", "exec"}
    PROVE  LET u == [r EXCEPT !.pc = pc]
           IN  /\ u \in RunType /\ u.pc = pc
               /\ u.mode = r.mode /\ u.loop = r.loop /\ u.task = r.task
               /\ u.batch = r.batch /\ u.squeezes = r.squeezes
  BY DEF RunType

\* The parts of a run whose calls to be executed change.
LEMMA BatchFacts ==
    ASSUME NEW r \in RunType, NEW pc \in {"idle", "top", "model", "batch", "exec"},
           NEW b \in Seq(Nat)
    PROVE  LET u == [r EXCEPT !.pc = pc, !.batch = b]
           IN  /\ u \in RunType /\ u.pc = pc
               /\ u.mode = r.mode /\ u.loop = r.loop /\ u.task = r.task
               /\ u.batch = b /\ u.squeezes = r.squeezes
  BY DEF RunType

\* The parts of a run that begins or goes on.
LEMMA StartFacts ==
    ASSUME NEW mode \in Modes, NEW loop \in {"portable", "native"},
           NEW task \in Tasks \cup {NoTask}, NEW pc \in {"idle", "top", "model", "batch", "exec"},
           NEW u, u = [pc |-> pc, mode |-> mode, loop |-> loop, task |-> task,
                       batch |-> <<>>, squeezes |-> 0]
    PROVE  /\ u \in RunType /\ u.pc = pc
           /\ u.mode = mode /\ u.loop = loop /\ u.task = task /\ u.batch = <<>>
  BY DEF RunType

\* run_async appends the task and saves it.
LEMMA RunAsyncStep ==
    ASSUME IInv, NEW t \in Tasks, RunAsync(t)
    PROVE  Sound
<1>1. /\ WellFormed(msgs) /\ CallsWithin(msgs, hist.cut, hist.calls) /\ hist \in HistType
      /\ run.pc = "idle"
  BY Fields DEF RunAsync
<1>2. PICK m \in StartModes :
         run' = [pc |-> "top", mode |-> m, loop |-> IF m = "portable" THEN "portable" ELSE "native",
                 task |-> t, batch |-> <<>>, squeezes |-> 0]
  BY DEF RunAsync, Idle
<1>3. /\ run' \in RunType /\ run'.pc = "top" /\ run'.batch = <<>> /\ run'.task = t
      /\ run'.mode = m /\ run'.mode \in Modes
      /\ run'.mode = "native" => run'.loop = "native"
  <2>1. m \in Modes
    BY ConstantsAssumption DEF Modes
  <2> DEFINE l == IF m = "portable" THEN "portable" ELSE "native"
  <2>2. l \in {"portable", "native"} /\ (m = "native" => l = "native")
    OBVIOUS
  <2>3. run' = [pc |-> "top", mode |-> m, loop |-> l, task |-> t, batch |-> <<>>, squeezes |-> 0]
    BY <1>2
  <2> HIDE DEF l
  <2> QED BY <2>1, <2>2, <2>3, StartFacts
<1>4. hist' \in HistType /\ hist'.calls = hist.calls /\ hist'.cut = hist.cut
  BY <1>1 DEF RunAsync, HistType
<1>5. /\ WellFormed(msgs') /\ LastUser(msgs', t) /\ PinsKept
      /\ CallsWithin(msgs', hist'.cut, hist'.calls)
  <2> DEFINE u == User(t)
  <2>1. msgs' = Append(msgs, u) /\ Fitting(msgs, u) /\ DOMAIN u.calls = {}
    BY AlwaysFits DEF RunAsync
  <2>2. u.role = "user" /\ ~u.pinned /\ u.task = t
    BY MessageFacts
  <2> HIDE DEF u
  <2> QED BY <1>1, <1>4, <2>1, <2>2, AppendFacts DEF PinsKept
<1>6. OpenCalls' = hist'.cut /\ BatchInv' /\ LoopInv' /\ TaskInRequest'
  BY <1>3, <1>5, TopFacts
<1>7. saved' \in SavedType /\ SavedInv'
  BY <1>3, <1>5, <1>6, SavedNew DEF RunAsync
<1> QED BY <1>3, <1>4, <1>5, <1>6, <1>7, StepParts DEF Sound

\* A note is appended to a context nobody uses.
LEMMA AddNoteStep ==
    ASSUME IInv, AddNote
    PROVE  Sound
<1>1. /\ WellFormed(msgs) /\ CallsWithin(msgs, OpenCalls, hist.calls) /\ hist \in HistType
      /\ run \in RunType /\ hist.calls \in Nat /\ run.pc = "idle" /\ run' = run /\ saved' = saved
  BY Fields DEF AddNote
<1>2. hist' \in HistType /\ hist'.calls = hist.calls /\ hist'.cut = hist.cut
  BY <1>1 DEF AddNote, HistType
<1>3. OpenCalls' = OpenCalls
  BY <1>1, <1>2 DEF OpenCalls
<1>4. WellFormed(msgs') /\ PinsKept /\ CallsWithin(msgs', OpenCalls', hist'.calls)
  <2> DEFINE m == Note
  <2>1. msgs' = Append(msgs, m) /\ Fitting(msgs, m) /\ DOMAIN m.calls = {}
    BY AlwaysFits DEF AddNote
  <2> HIDE DEF m
  <2> QED BY <1>1, <1>2, <1>3, <2>1, AppendFacts DEF PinsKept
<1>5. BatchInv' /\ LoopInv' /\ TaskInRequest'
  <2>1. run'.pc = "idle" /\ run.batch = <<>>
    BY <1>1, Fields
  <2> QED BY <1>1, <2>1 DEF BatchInv, LoopInv, TaskInRequest
<1>6. saved' \in SavedType /\ SavedInv'
  BY <1>1, <1>2, <1>3, SavedKept
<1> QED BY <1>1, <1>2, <1>4, <1>5, <1>6, StepParts DEF Sound

\* The task is in the context, whose last word of the user it is.
LEMMA RemindedFacts ==
    ASSUME IInv, run.task \in Tasks, LastUser(msgs, run.task)
    PROVE  LET s == Reminded(msgs)
           IN  /\ WellFormed(s) /\ LastUser(s, run.task)
               /\ \E i \in DOMAIN s : s[i].role = "user" /\ s[i].task = run.task
               /\ \A U, top : CallsWithin(msgs, U, top) => CallsWithin(s, U, top)
               /\ Cardinality(PinnedAt(msgs)) <= Cardinality(PinnedAt(s))
<1>1. WellFormed(msgs) /\ msgs \in Seq(Message)
  BY Fields
<1>2. CASE \E i \in DOMAIN msgs : msgs[i].role = "user" /\ msgs[i].task = run.task
  <2>1. Reminded(msgs) = msgs
    BY <1>2 DEF Reminded
  <2>2. Carries(msgs, msgs)
    BY <1>1, CarriesOrder
  <2> QED BY <1>1, <1>2, <2>1, <2>2 DEF Carries
<1>3. CASE ~ \E i \in DOMAIN msgs : msgs[i].role = "user" /\ msgs[i].task = run.task
  <2> DEFINE m == User(run.task)
             s == Append(msgs, m)
  <2>1. Reminded(msgs) = s
    BY <1>3 DEF Reminded
  <2>2. Fitting(msgs, m) /\ DOMAIN m.calls = {} /\ m \in Message
    BY AlwaysFits, MessageFacts
  <2>3. m.role = "user" /\ m.task = run.task
    BY MessageFacts
  <2> HIDE DEF m
  <2>4. Len(msgs) + 1 \in DOMAIN s /\ s[Len(msgs) + 1] = m
    BY <1>1, <2>2, AppendSeq
  <2>5. /\ WellFormed(s) /\ LastUser(s, run.task)
        /\ \A U, top : CallsWithin(msgs, U, top) => CallsWithin(s, U, top)
        /\ Cardinality(PinnedAt(msgs)) <= Cardinality(PinnedAt(s))
    BY <1>1, <2>2, <2>3, AppendFacts
  <2> QED BY <2>1, <2>3, <2>4, <2>5
<1> QED BY <1>2, <1>3

\* _prepare_native_request
LEMMA NativeRequestStep ==
    ASSUME IInv, NativeRequest
    PROVE  Sound
<1> DEFINE s == Reminded(msgs)
<1>1. /\ WellFormed(msgs) /\ CallsWithin(msgs, hist.cut, hist.calls) /\ hist \in HistType
      /\ run \in RunType /\ run.pc = "top" /\ run.loop = "native" /\ run.batch = <<>>
      /\ hist' = hist /\ OpenCalls = hist.cut /\ hist.calls \in Nat
      /\ run.task \in Tasks /\ LastUser(msgs, run.task)
  <2>1. run.pc = "top" /\ run.loop = "native" /\ hist' = hist
    BY DEF NativeRequest
  <2> QED BY <2>1, Fields DEF IInv, LoopInv
<1>2. /\ WellFormed(s) /\ LastUser(s, run.task)
      /\ \E i \in DOMAIN s : s[i].role = "user" /\ s[i].task = run.task
      /\ CallsWithin(s, hist.cut, hist.calls)
      /\ Cardinality(PinnedAt(msgs)) <= Cardinality(PinnedAt(s))
  BY <1>1, RemindedFacts
<1>3. /\ msgs' = Squeezed(s)[3]
      /\ run' = IF Fits(msgs') THEN [run EXCEPT !.pc = "model", !.squeezes = Squeezes(s)]
                ELSE Idle
      /\ IF run'.pc = "idle" THEN saved' = Closed ELSE saved' = saved
  BY DEF NativeRequest, Close
<1> HIDE DEF s
<1>4. /\ WellFormed(msgs') /\ LastUser(msgs', run.task)
      /\ CallsWithin(msgs', hist'.cut, hist'.calls) /\ PinsKept
  <2>1. Carries(s, msgs')
    BY <1>2, <1>3, SqueezedCarries
  <2>2. WellFormed(msgs')
    BY <2>1 DEF Carries
  <2>3. /\ Cardinality(PinnedAt(msgs)) \in Nat /\ Cardinality(PinnedAt(s)) \in Nat
        /\ Cardinality(PinnedAt(msgs')) \in Nat
    BY <1>1, <1>2, <2>2, PinnedNotes
  <2>4. Cardinality(PinnedAt(s)) <= Cardinality(PinnedAt(msgs'))
    BY <2>1 DEF Carries
  <2>5. PinsKept
    BY <1>2, <2>3, <2>4 DEF PinsKept
  <2> QED BY <1>1, <1>2, <2>1, <2>5 DEF Carries
<1>5. CASE ~Fits(msgs')
  <2>1. run' = Idle /\ run'.pc = "idle"
    BY <1>3, <1>5, IdleFacts
  <2>2. saved' \in SavedType /\ SavedInv'
    BY <1>3, <2>1, SavedClosed
  <2> QED BY <1>1, <1>4, <2>1, <2>2, IdleFacts, StepParts DEF Sound
<1>6. CASE Fits(msgs')
  <2> DEFINE q == Squeezes(s)
  <2>1. q \in 0..3
    BY OneSqueeze
  <2>2. run' = [run EXCEPT !.pc = "model", !.squeezes = q]
    BY <1>3, <1>6
  <2> HIDE DEF q
  <2>3. /\ run' \in RunType /\ run'.pc = "model" /\ run'.batch = <<>> /\ run'.task = run.task
        /\ run'.loop = "native" /\ run'.mode = run.mode /\ run'.squeezes = q
    BY <1>1, <2>1, <2>2 DEF RunType
  <2>4. OpenCalls' = hist'.cut
    <3>1. ToSet(<<>>) = {}
      BY DEF ToSet
    <3> QED BY <2>3, <3>1 DEF OpenCalls
  <2>5. BatchInv' /\ LoopInv'
    BY <1>1, <1>4, <2>3 DEF BatchInv, LoopInv
  <2>6. TaskInRequest'
    <3> SUFFICES ASSUME q <= 1
                 PROVE  \E i \in DOMAIN msgs' :
                           msgs'[i].role \in {"user", "summary"} /\ msgs'[i].task = run.task
      BY <2>3 DEF TaskInRequest
    <3>1. msgs' = s \/ msgs' = Compressed(s)
      BY <1>3, OneSqueeze DEF q
    <3>2. CASE msgs' = s
      BY <1>2, <3>2
    <3>3. CASE msgs' = Compressed(s)
      <4>1. s \in Seq(Message)
        BY <1>2 DEF WellFormed
      <4>2. PICK n, at : IsCompression(s, Compressed(s), n, at)
        <5> HIDE DEF q
        <5> QED BY <1>2, <4>1, CompressedFacts DEF WellFormed
      <4> QED BY <1>1, <1>2, <3>3, <4>2, CompressionNamesTask
    <3> QED BY <3>1, <3>2, <3>3
  <2>7. saved' \in SavedType /\ SavedInv'
    <3>1. saved' = saved
      BY <1>3, <2>3
    <3> QED BY <1>1, <2>4, <3>1, SavedKept
  <2> QED BY <1>1, <1>4, <2>3, <2>4, <2>5, <2>6, <2>7, StepParts DEF Sound
<1> QED BY <1>5, <1>6

\* The request of the portable loop.
LEMMA PortableRequestStep ==
    ASSUME IInv, PortableRequest
    PROVE  Sound
<1>1. /\ WellFormed(msgs) /\ CallsWithin(msgs, hist.cut, hist.calls) /\ hist \in HistType
      /\ run \in RunType /\ run.pc = "top" /\ run.loop = "portable" /\ run.batch = <<>>
      /\ hist' = hist /\ saved' = saved /\ OpenCalls = hist.cut /\ hist.calls \in Nat
      /\ run.task \in Tasks /\ run.mode # "native"
  <2>1. run.pc = "top" /\ run.loop = "portable" /\ hist' = hist /\ saved' = saved
    BY DEF PortableRequest
  <2> QED BY <2>1, Fields DEF IInv, LoopInv
<1>2. Carries(msgs, msgs')
  BY <1>1, CompressCarries, CarriesOrder DEF PortableRequest
<1>3. WellFormed(msgs') /\ CallsWithin(msgs', hist'.cut, hist'.calls) /\ PinsKept
  BY <1>1, <1>2 DEF Carries, PinsKept
<1>4. /\ run' \in RunType /\ run'.pc = "model" /\ run'.batch = <<>> /\ run'.task = run.task
      /\ run'.loop = "portable" /\ run'.mode = run.mode
  BY <1>1, RunFacts DEF PortableRequest
<1>5. OpenCalls' = hist'.cut
  <2>1. ToSet(<<>>) = {}
    BY DEF ToSet
  <2> QED BY <1>4, <2>1 DEF OpenCalls
<1>6. BatchInv' /\ LoopInv' /\ TaskInRequest'
  BY <1>1, <1>4 DEF BatchInv, LoopInv, TaskInRequest
<1>7. saved' \in SavedType /\ SavedInv'
  BY <1>1, <1>5, SavedKept
<1> QED BY <1>1, <1>3, <1>4, <1>5, <1>6, <1>7, StepParts DEF Sound

\* A run that ends before a request, or is cancelled there.
LEMMA EndBeforeRequest ==
    ASSUME IInv, FailRun \/ CancelRun
    PROVE  Sound
<1>1. /\ WellFormed(msgs) /\ CallsWithin(msgs, hist.cut, hist.calls) /\ hist \in HistType
      /\ run \in RunType /\ run.pc = "top" /\ run' = Idle /\ msgs' = msgs /\ hist' = hist
      /\ OpenCalls = hist.cut /\ OpenCalls' = hist'.cut /\ hist.calls \in Nat
      /\ run.task \in Tasks /\ run.mode \in Modes
      /\ run.mode = "native" => LastUser(msgs, run.task)
  <2>1. run.pc = "top" /\ run' = Idle /\ msgs' = msgs /\ hist' = hist
    BY DEF FailRun, CancelRun
  <2> QED BY <2>1, Fields, IdleFacts DEF IInv, LoopInv
<1>2. saved' \in SavedType /\ SavedInv'
  <2>1. CASE saved' = Closed
    BY <2>1, SavedClosed
  <2>2. CASE saved' = saved
    BY <1>1, <2>2, SavedKept
  <2>3. CASE Checkpoint(run, "none")
    <3>1. /\ WellFormed(msgs') /\ CallsWithin(msgs', OpenCalls', hist'.calls)
          /\ run.mode = "native" => LastUser(msgs', run.task)
      BY <1>1
    <3> QED BY <1>1, <2>3, <3>1, SavedNew
  <2> QED BY <2>1, <2>2, <2>3 DEF FailRun, CancelRun, Close
<1>3. PinsKept
  <2>1. Cardinality(PinnedAt(msgs)) \in Nat
    BY <1>1, PinnedNotes
  <2> QED BY <1>1, <2>1 DEF PinsKept
<1> QED BY <1>1, <1>2, <1>3, IdleFacts, StepParts DEF Sound

\* An error of the model or of the parser.
LEMMA ModelFailsStep ==
    ASSUME IInv, ModelFails
    PROVE  Sound
<1>1. /\ WellFormed(msgs) /\ CallsWithin(msgs, hist.cut, hist.calls) /\ hist \in HistType
      /\ run \in RunType /\ run.pc = "model" /\ run.batch = <<>>
      /\ OpenCalls = hist.cut /\ hist.calls \in Nat
      /\ run.task \in Tasks /\ (run.mode = "native" => run.loop = "native")
      /\ run.loop = "native" => LastUser(msgs, run.task)
  <2>1. run.pc = "model"
    BY DEF ModelFails
  <2> QED BY <2>1, Fields DEF IInv, LoopInv
<1>2. hist' \in HistType /\ hist'.calls = hist.calls /\ hist'.cut = hist.cut
  BY <1>1 DEF ModelFails, HistType
<1>3. /\ WellFormed(msgs') /\ CallsWithin(msgs', hist'.cut, hist'.calls) /\ PinsKept
      /\ run.loop = "native" => msgs' = msgs
  <2>1. CASE msgs' = msgs
    <3>1. Cardinality(PinnedAt(msgs)) \in Nat
      BY <1>1, PinnedNotes
    <3> QED BY <1>1, <1>2, <2>1, <3>1 DEF PinsKept
  <2>2. CASE run.loop = "portable" /\ msgs' = Append(msgs, Recovery)
    <3> DEFINE m == Recovery
    <3>1. msgs' = Append(msgs, m) /\ Fitting(msgs, m) /\ DOMAIN m.calls = {}
      BY <2>2, AlwaysFits
    <3> HIDE DEF m
    <3> QED BY <1>1, <1>2, <2>2, <3>1, AppendFacts DEF PinsKept
  <2> QED BY <2>1, <2>2 DEF ModelFails
<1>4. CASE run' = Idle /\ saved' = Closed
  BY <1>2, <1>3, <1>4, IdleFacts, SavedClosed, StepParts DEF Sound
<1>5. CASE run' = [run EXCEPT !.pc = "top"] /\ saved' = saved
  <2>1. /\ run' \in RunType /\ run'.pc = "top" /\ run'.batch = <<>> /\ run'.task = run.task
        /\ run'.loop = run.loop /\ run'.mode = run.mode
    BY <1>1, <1>5, RunFacts
  <2>2. OpenCalls' = hist'.cut /\ BatchInv' /\ LoopInv' /\ TaskInRequest'
    BY <1>1, <1>3, <2>1, TopFacts
  <2>3. saved' \in SavedType /\ SavedInv'
    BY <1>1, <1>2, <1>5, <2>2, SavedKept
  <2> QED BY <1>2, <1>3, <2>1, <2>2, <2>3, StepParts DEF Sound
<1> QED BY <1>4, <1>5 DEF ModelFails, Close

\* The answer is appended and the run stored as completed.
LEMMA FinalAnswerStep ==
    ASSUME IInv, FinalAnswer
    PROVE  Sound
<1>1. /\ WellFormed(msgs) /\ CallsWithin(msgs, hist.cut, hist.calls) /\ hist \in HistType
      /\ run' = Idle /\ saved' = Closed /\ hist' = hist
  <2>1. run.pc = "model" /\ run' = Idle /\ saved' = Closed /\ hist' = hist
    BY DEF FinalAnswer, Close
  <2> QED BY <2>1, Fields
<1>2. WellFormed(msgs') /\ CallsWithin(msgs', hist'.cut, hist'.calls) /\ PinsKept
  <2> DEFINE m == Assistant(<<>>)
  <2>1. msgs' = Append(msgs, m) /\ Fitting(msgs, m) /\ DOMAIN m.calls = {}
    <3>1. <<>> \in Seq(Nat) /\ DOMAIN <<>> = {}
      OBVIOUS
    <3> QED BY <3>1, AlwaysFits, MessageFacts DEF FinalAnswer
  <2> HIDE DEF m
  <2> QED BY <1>1, <2>1, AppendFacts DEF PinsKept
<1> QED BY <1>1, <1>2, IdleFacts, SavedClosed, StepParts DEF Sound

\* The auto mode goes on in the portable loop.
LEMMA FallbackStep ==
    ASSUME IInv, Fallback
    PROVE  Sound
<1>1. /\ WellFormed(msgs) /\ CallsWithin(msgs, hist.cut, hist.calls) /\ hist \in HistType
      /\ run \in RunType /\ run.batch = <<>> /\ msgs' = msgs /\ hist' = hist /\ saved' = saved
      /\ OpenCalls = hist.cut /\ hist.calls \in Nat /\ run.task \in Tasks
  <2>1. run.pc = "model" /\ msgs' = msgs /\ hist' = hist /\ saved' = saved
    BY DEF Fallback
  <2> QED BY <2>1, Fields DEF IInv, LoopInv
<1>2. /\ run' \in RunType /\ run'.pc = "top" /\ run'.batch = <<>> /\ run'.task = run.task
      /\ run'.loop = "portable" /\ run'.mode = "portable"
  BY <1>1 DEF Fallback, RunType, Modes
<1>3. OpenCalls' = hist'.cut /\ BatchInv' /\ LoopInv' /\ TaskInRequest'
  BY <1>1, <1>2, TopFacts
<1>4. saved' \in SavedType /\ SavedInv'
  BY <1>1, <1>3, SavedKept
<1>5. PinsKept
  <2>1. Cardinality(PinnedAt(msgs)) \in Nat
    BY <1>1, PinnedNotes
  <2> QED BY <1>1, <2>1 DEF PinsKept
<1> QED BY <1>1, <1>2, <1>3, <1>4, <1>5, StepParts DEF Sound

\* A native reply with calls: they stand at the end of the context and are new.
LEMMA NativeCallsStep ==
    ASSUME IInv, NativeCalls
    PROVE  Sound
<1>1. /\ WellFormed(msgs) /\ CallsWithin(msgs, hist.cut, hist.calls) /\ hist \in HistType
      /\ run \in RunType /\ run.loop = "native" /\ run.batch = <<>>
      /\ saved' = saved /\ OpenCalls = hist.cut /\ hist.calls \in Nat
      /\ run.task \in Tasks /\ LastUser(msgs, run.task) /\ msgs \in Seq(Message)
  <2>1. run.pc = "model" /\ run.loop = "native" /\ saved' = saved
    BY DEF NativeCalls
  <2> QED BY <2>1, Fields DEF IInv, LoopInv
<1>2. PICK n \in 1..MaxBatch :
         /\ msgs' = Append(msgs, Assistant([k \in 1..n |-> hist.calls + k]))
         /\ run' = [run EXCEPT !.pc = "batch", !.batch = [k \in 1..n |-> hist.calls + k]]
         /\ hist' = [hist EXCEPT !.calls = @ + n, !.replies = @ + 1]
  BY DEF NativeCalls
<1> DEFINE ids == [k \in 1..n |-> hist.calls + k]
           m == Assistant(ids)
<1>3. /\ n \in Nat /\ n >= 1 /\ ids \in Seq(Nat) /\ Len(ids) = n /\ DOMAIN ids = 1..n
      /\ \A k \in 1..n : ids[k] = hist.calls + k
  <2>1. n \in Nat /\ n >= 1
    BY ConstantsAssumption
  <2>2. \A k \in 1..n : hist.calls + k \in Nat
    BY <1>1, <2>1
  <2> QED BY <2>1, <2>2
<1>4. ids # <<>> /\ ids = SubSeq(ids, 1, Len(ids))
  <2> HIDE DEF ids
  <2> QED BY <1>3
<1>5. msgs' = Append(msgs, m) /\ run' = [run EXCEPT !.pc = "batch", !.batch = ids]
  BY <1>2
<1>p. PICK p : p = Len(msgs) + 1
  OBVIOUS
<1> HIDE DEF ids
<1>6. m \in Message /\ m.role = "assistant" /\ m.calls = ids /\ ~m.pinned /\ Fitting(msgs, m)
  BY <1>3, AlwaysFits, MessageFacts
<1> HIDE DEF m
<1>7. /\ hist' \in HistType /\ hist'.cut = hist.cut /\ hist'.calls = hist.calls + n
      /\ hist'.calls \in Nat /\ hist.calls <= hist'.calls
  <2>1. hist' \in HistType /\ hist'.cut = hist.cut /\ hist'.calls = hist.calls + n
    <3>1. hist \in HistType /\ n \in Nat
      BY <1>1, <1>3
    <3>2. hist' = [hist EXCEPT !.calls = @ + n, !.replies = @ + 1]
      BY <1>2
    <3> DEFINE a == hist.calls + n
               b == hist.replies + 1
    <3>3. hist' = [hist EXCEPT !.calls = a, !.replies = b]
      BY <3>2
    <3>4. a \in Nat /\ b \in Nat
      BY <3>1 DEF HistType
    <3>5. a = hist.calls + n
      OBVIOUS
    <3> HIDE DEF a, b
    <3> QED BY <3>1, <3>3, <3>4, <3>5 DEF HistType
  <2> QED BY <1>1, <1>3, <2>1
<1>8. /\ run' \in RunType /\ run'.pc = "batch" /\ run'.batch = ids
      /\ run'.loop = "native" /\ run'.task = run.task
  <2>1. run \in RunType /\ run.loop = "native" /\ ids \in Seq(Nat)
    BY <1>1, <1>3
  <2> QED BY <1>5, <2>1 DEF RunType
<1>9. OpenCalls' = ToSet(ids) \cup hist.cut
  BY <1>7, <1>8 DEF OpenCalls
<1>10. /\ WellFormed(msgs') /\ LastUser(msgs', run.task) /\ PinsKept
       /\ CallsWithin(msgs', OpenCalls', hist'.calls)
  <2>1. CallsWithin(msgs, OpenCalls', hist'.calls)
    BY <1>1, <1>7, <1>9, CallsWithinMore
  <2>2. \A k \in DOMAIN m.calls : m.calls[k] \in OpenCalls' /\ m.calls[k] \in 1..hist'.calls
    <3> TAKE k \in DOMAIN m.calls
    <3>1. k \in 1..n /\ m.calls[k] = ids[k]
      BY <1>3, <1>6
    <3>2. ids[k] \in ToSet(ids)
      BY <1>3, <3>1 DEF ToSet
    <3>3. ids[k] \in 1..hist'.calls
      BY <1>1, <1>3, <1>7, <3>1
    <3> QED BY <1>9, <3>1, <3>2, <3>3
  <2> QED BY <1>1, <1>5, <1>6, <2>1, <2>2, AppendFacts DEF PinsKept
<1>11. /\ DOMAIN msgs' = 1..p /\ Len(msgs') = p /\ msgs'[p] = m /\ p \in Nat /\ p >= 1
       /\ \A i \in DOMAIN msgs' : i # p => i \in DOMAIN msgs /\ msgs'[i] = msgs[i]
  BY <1>1, <1>p, <1>5, <1>6, AppendSeq
<1>12. BatchAt(p)'
  <2>1. msgs'[p].calls = ids /\ Len(msgs') - p = 0
    BY <1>6, <1>11
  <2>2. 0 < Len(ids) /\ run'.batch = SubSeq(ids, 0 + 1, Len(ids))
    BY <1>3, <1>4, <1>8
  <2>3. Block(msgs', p, 0)
    BY <1>11 DEF Block
  <2>4. \A k, l \in DOMAIN ids : ids[k] = ids[l] => k = l
    BY <1>1, <1>3
  <2>5. \A i \in DOMAIN msgs' \ {p} : \A k \in DOMAIN msgs'[i].calls :
           msgs'[i].calls[k] \notin ToSet(run'.batch)
    <3> SUFFICES ASSUME NEW i \in DOMAIN msgs, NEW k \in DOMAIN msgs[i].calls
                 PROVE  msgs[i].calls[k] \notin ToSet(ids)
      BY <1>8, <1>11
    <3>1. msgs[i].calls[k] \in 1..hist.calls
      BY <1>1 DEF CallsWithin
    <3>2. ToSet(ids) = {ids[x] : x \in 1..n}
      BY <1>3 DEF ToSet
    <3>3. \A x \in 1..n : ids[x] > hist.calls
      BY <1>1, <1>3
    <3> QED BY <1>1, <3>1, <3>2, <3>3
  <2> QED BY <2>1, <2>2, <2>3, <2>4, <2>5 DEF BatchAt
<1>13. BatchInv'
  <2>1. p \in DOMAIN msgs'
    BY <1>11
  <2> QED BY <1>4, <1>8, <1>12, <2>1 DEF BatchInv
<1>14. LoopInv' /\ TaskInRequest'
  BY <1>1, <1>8, <1>10 DEF LoopInv, TaskInRequest
<1>15. saved' \in SavedType /\ SavedInv'
  BY <1>1, <1>7, <1>9, SavedKept
<1> QED BY <1>7, <1>8, <1>10, <1>13, <1>14, <1>15, StepParts DEF Sound

\* A portable reply with an action, which the context does not show before it is done.
LEMMA PortableCallStep ==
    ASSUME IInv, PortableCall
    PROVE  Sound
<1>1. /\ WellFormed(msgs) /\ CallsWithin(msgs, hist.cut, hist.calls) /\ hist \in HistType
      /\ run \in RunType /\ run.loop = "portable" /\ run.batch = <<>>
      /\ saved' = saved /\ msgs' = msgs /\ OpenCalls = hist.cut /\ hist.calls \in Nat
      /\ run.task \in Tasks /\ run.mode # "native"
  <2>1. run.pc = "model" /\ run.loop = "portable" /\ saved' = saved /\ msgs' = msgs
    BY DEF PortableCall
  <2> QED BY <2>1, Fields DEF IInv, LoopInv
<1>2. hist' \in HistType /\ hist'.cut = hist.cut /\ hist'.calls = hist.calls
  BY <1>1 DEF PortableCall, HistType
<1>3. /\ run' \in RunType /\ run'.pc = "batch" /\ run'.batch = <<0>>
      /\ run'.loop = "portable" /\ run'.task = run.task /\ run'.mode = run.mode
  <2>1. PICK b \in Seq(Nat) : b = <<0>>
    <3>1. <<0>> \in Seq(Nat)
      OBVIOUS
    <3> QED BY <3>1, Zenon
  <2>2. run' = [run EXCEPT !.pc = "batch", !.batch = b] /\ run \in RunType
    BY <1>1, <2>1 DEF PortableCall
  <2>3. /\ run' \in RunType /\ run'.pc = "batch" /\ run'.batch = b
        /\ run'.loop = run.loop /\ run'.task = run.task /\ run'.mode = run.mode
    BY <2>2 DEF RunType
  <2> QED BY <1>1, <2>1, <2>3
<1>4. OpenCalls \subseteq OpenCalls'
  BY <1>1, <1>2 DEF OpenCalls
<1>5. CallsWithin(msgs', OpenCalls', hist'.calls)
  BY <1>1, <1>2, <1>4, CallsWithinMore
<1>6. BatchInv' /\ LoopInv' /\ TaskInRequest'
  <2>1. <<0>> # <<>>
    OBVIOUS
  <2> QED BY <1>1, <1>3, <2>1 DEF BatchInv, LoopInv, TaskInRequest
<1>7. saved' \in SavedType /\ SavedInv'
  BY <1>1, <1>2, <1>4, SavedKept
<1>8. PinsKept
  <2>1. Cardinality(PinnedAt(msgs)) \in Nat
    BY <1>1, PinnedNotes
  <2> QED BY <1>1, <2>1 DEF PinsKept
<1> QED BY <1>1, <1>2, <1>3, <1>5, <1>6, <1>7, <1>8, StepParts DEF Sound

\* The checkpoint before a tool call.
LEMMA DispatchStep ==
    ASSUME IInv, Dispatch
    PROVE  Sound
<1>1. /\ WellFormed(msgs) /\ CallsWithin(msgs, OpenCalls, hist.calls) /\ hist \in HistType
      /\ run \in RunType /\ run.pc = "batch" /\ msgs' = msgs /\ hist' = hist
      /\ run.task \in Tasks /\ run.mode \in Modes
      /\ (run.mode = "native" => run.loop = "native")
      /\ run.loop = "native" => LastUser(msgs, run.task)
  <2>1. run.pc = "batch" /\ msgs' = msgs /\ hist' = hist
    BY DEF Dispatch
  <2> QED BY <2>1, Fields DEF IInv, LoopInv
<1>2. /\ run' \in RunType /\ run'.pc = "exec" /\ run'.batch = run.batch
      /\ run'.loop = run.loop /\ run'.task = run.task /\ run'.mode = run.mode
  BY <1>1, RunFacts DEF Dispatch
<1>3. OpenCalls' = OpenCalls
  BY <1>1, <1>2 DEF OpenCalls
<1>4. BatchInv'
  <2>1. \A p : BatchAt(p) => BatchAt(p)'
    BY <1>1, <1>2 DEF BatchAt
  <2> QED BY <1>1, <1>2, <2>1 DEF BatchInv, IInv
<1>5. LoopInv' /\ TaskInRequest'
  BY <1>1, <1>2 DEF LoopInv, TaskInRequest
<1>6. saved' \in SavedType /\ SavedInv'
  <2>1. /\ WellFormed(msgs') /\ CallsWithin(msgs', OpenCalls', hist'.calls)
        /\ run.mode = "native" => LastUser(msgs', run.task)
    BY <1>1, <1>3
  <2> QED BY <1>1, <2>1, SavedNew DEF Dispatch
<1>7. PinsKept
  <2>1. Cardinality(PinnedAt(msgs)) \in Nat
    BY <1>1, PinnedNotes
  <2> QED BY <1>1, <2>1 DEF PinsKept
<1> QED BY <1>1, <1>2, <1>3, <1>4, <1>5, <1>6, <1>7, StepParts DEF Sound

\* What is known when a tool call is being executed.
LEMMA ExecFacts ==
    ASSUME IInv, run.pc = "exec"
    PROVE  /\ WellFormed(msgs) /\ CallsWithin(msgs, ToSet(run.batch) \cup hist.cut, hist.calls)
           /\ msgs \in Seq(Message) /\ hist \in HistType /\ run \in RunType
           /\ hist.calls \in Nat /\ hist.cut \subseteq Nat
           /\ run.batch \in Seq(Nat) /\ run.batch # <<>> /\ run.mode \in Modes
           /\ run.task \in Tasks /\ (run.mode = "native" => run.loop = "native")
           /\ run.loop \in {"portable", "native"}
           /\ run.loop = "native" => LastUser(msgs, run.task) /\ \E p \in DOMAIN msgs : BatchAt(p)
           /\ run.loop = "portable" => run.batch = <<0>>
<1>1. run.batch # <<>>
  BY DEF IInv, BatchInv
<1>2. CallsWithin(msgs, ToSet(run.batch) \cup hist.cut, hist.calls)
  BY Fields DEF OpenCalls
<1> QED BY <1>1, <1>2, Fields DEF IInv, BatchInv, LoopInv

\* The context after a portable action.
LEMMA PortableResult ==
    ASSUME IInv, run.pc = "exec", run.loop = "portable", NEW ok \in BOOLEAN, NEW long \in BOOLEAN,
           msgs' = msgs \o Result(ok, long)
    PROVE  /\ WellFormed(msgs') /\ PinsKept /\ CallsWithin(msgs', hist.cut, hist.calls)
           /\ Tail(run.batch) = <<>> /\ Len(run.batch) = 1
<1>1. /\ WellFormed(msgs) /\ CallsWithin(msgs, ToSet(run.batch) \cup hist.cut, hist.calls)
      /\ run.batch = <<0>> /\ hist.calls \in Nat
  BY ExecFacts
<1>2. Tail(run.batch) = <<>> /\ Len(run.batch) = 1 /\ ToSet(run.batch) = {0}
  BY <1>1 DEF ToSet
<1>3. CallsWithin(msgs, hist.cut, hist.calls)
  <2>1. ToSet(run.batch) \cup hist.cut \subseteq hist.cut \cup {0}
    BY <1>2
  <2> QED BY <1>1, <2>1, CallsNotZero
<1>4. msgs' = msgs \o (<<Assistant(<<>>), Tool(0, long)>> \o (IF ok THEN <<>> ELSE <<Recovery>>))
  BY DEF Result
<1> QED BY <1>1, <1>2, <1>3, <1>4, PortableTurn DEF PinsKept

\* What is left of a batch.
LEMMA TailFacts ==
    ASSUME NEW b \in Seq(Nat), b # <<>>
    PROVE  /\ Len(b) = 1 => Tail(b) = <<>>
           /\ Len(b) > 1 => Tail(b) # <<>>
<1>1. Len(b) \in Nat /\ Tail(b) \in Seq(Nat) /\ Len(Tail(b)) = Len(b) - 1
  OBVIOUS
<1>2. \A t \in Seq(Nat) : Len(t) \in Nat /\ (Len(t) = 0 <=> t = <<>>)
  OBVIOUS
<1>3. \A x, y \in Int : y = x - 1 => (x = 1 => y = 0) /\ (x > 1 => y # 0)
  OBVIOUS
<1>4. PICK t \in Seq(Nat), x \in Int, y \in Int :
         t = Tail(b) /\ x = Len(b) /\ y = Len(t) /\ y = x - 1
  <2>1. Len(b) \in Int /\ Len(Tail(b)) \in Int
    BY <1>1
  <2> QED BY <1>1, <2>1, Zenon
<1>5. /\ x = 1 => t = <<>>
      /\ x > 1 => t # <<>>
  BY <1>2, <1>3, <1>4, Zenon
<1> QED BY <1>4, <1>5, Zenon

\* The context after a native call: the result stands behind the call, and the
\* others of the batch are still open.
LEMMA NativeResult ==
    ASSUME IInv, run.pc = "exec", run.loop = "native", NEW ok \in BOOLEAN, NEW long \in BOOLEAN,
           msgs' = msgs \o Result(ok, long)
    PROVE  /\ WellFormed(msgs') /\ PinsKept /\ LastUser(msgs', run.task)
           /\ CallsWithin(msgs', ToSet(Tail(run.batch)) \cup hist.cut, hist.calls)
           /\ Tail(run.batch) \in Seq(Nat)
           /\ Len(run.batch) = 1 => Tail(run.batch) = <<>>
           /\ Len(run.batch) \in Nat /\ Len(run.batch) >= 1
           /\ Len(run.batch) > 1 /\ run'.batch = Tail(run.batch) =>
                 run'.batch # <<>> /\ \E p \in DOMAIN msgs' : BatchAt(p)'
<1>1. /\ WellFormed(msgs) /\ CallsWithin(msgs, ToSet(run.batch) \cup hist.cut, hist.calls)
      /\ msgs \in Seq(Message) /\ hist.calls \in Nat /\ run.batch \in Seq(Nat)
      /\ run.batch # <<>> /\ LastUser(msgs, run.task)
  BY ExecFacts
<1>2. PICK p \in DOMAIN msgs : BatchAt(p)
  BY ExecFacts
<1>3. /\ Len(run.batch) \in Nat /\ Len(run.batch) >= 1
      /\ Tail(run.batch) \in Seq(Nat) /\ Len(Tail(run.batch)) = Len(run.batch) - 1
      /\ Head(run.batch) \in Nat
      /\ Len(run.batch) = 1 => Tail(run.batch) = <<>>
      /\ Len(run.batch) > 1 => Tail(run.batch) # <<>>
  <2> PICK b \in Seq(Nat) : b = run.batch /\ b # <<>>
    BY <1>1
  <2>1. /\ Len(b) \in Nat /\ Len(b) >= 1
        /\ Tail(b) \in Seq(Nat) /\ Len(Tail(b)) = Len(b) - 1
        /\ Head(b) \in Nat
    OBVIOUS
  <2>2. /\ Len(b) = 1 => Tail(b) = <<>>
        /\ Len(b) > 1 => Tail(b) # <<>>
    BY TailFacts
  <2> QED BY <2>1, <2>2
<1> DEFINE m == Tool(Head(run.batch), long)
           r == Append(msgs, m)
           calls == msgs[p].calls
           done == Len(msgs) - p
<1>4. /\ Fitting(msgs, m)
      /\ CallsWithin(r, ToSet(Tail(run.batch)) \cup hist.cut, hist.calls)
      /\ p \in DOMAIN r /\ r[p] = msgs[p] /\ Len(r) - p = done + 1 /\ done \in Nat
      /\ Block(r, p, done + 1)
      /\ Tail(run.batch) = SubSeq(calls, done + 2, Len(calls))
      /\ Len(run.batch) = Len(calls) - done
      /\ \A i \in DOMAIN r \ {p} : \A k \in DOMAIN r[i].calls :
            r[i].calls[k] \notin ToSet(Tail(run.batch))
  BY ZenonT(40), <1>1, <1>2, AnswerFits
<1>5. /\ \A k, l \in DOMAIN calls : calls[k] = calls[l] => k = l
      /\ done < Len(calls)
  BY <1>2 DEF BatchAt
<1>6. m \in Message /\ m.role = "tool" /\ DOMAIN m.calls = {} /\ ~m.pinned
  BY <1>3, MessageFacts
<1>7. msgs' = r
  <2>1. msgs' = msgs \o <<m>>
    BY DEF Result
  <2> HIDE DEF m
  <2> QED BY <1>1, <1>6, <2>1
<1> HIDE DEF m
<1>8. WellFormed(r) /\ LastUser(r, run.task) /\ Cardinality(PinnedAt(msgs)) <= Cardinality(PinnedAt(r))
  BY <1>1, <1>4, <1>6, AppendFacts
<1>9. Len(calls) \in Nat
  <2>1. msgs[p] \in Message
    BY <1>1
  <2>2. calls \in Seq(Nat)
    BY <2>1 DEF Message
  <2> HIDE DEF calls
  <2> QED BY <2>2
<1>10. PICK d, c, q : d = done /\ c = calls /\ q = r
  OBVIOUS
<1> HIDE DEF r, calls, done
<1>11. ASSUME Len(run.batch) > 1, run'.batch = Tail(run.batch)
       PROVE  run'.batch # <<>> /\ \E x \in DOMAIN msgs' : BatchAt(x)'
  <2>1. msgs'[p].calls = c /\ Len(msgs') - p = d + 1 /\ p \in DOMAIN msgs'
    BY <1>4, <1>7, <1>10 DEF calls
  <2>2. d + 1 < Len(c) /\ (d + 1) + 1 = d + 2
    BY <1>4, <1>9, <1>10, <1>11
  <2>3. run'.batch = SubSeq(c, (d + 1) + 1, Len(c))
    BY <1>4, <1>10, <1>11, <2>2
  <2>4. Block(msgs', p, d + 1)
    BY <1>4, <1>7, <1>10
  <2>5. \A k, l \in DOMAIN c : c[k] = c[l] => k = l
    BY <1>5, <1>10
  <2>6. \A i \in DOMAIN msgs' \ {p} : \A k \in DOMAIN msgs'[i].calls :
           msgs'[i].calls[k] \notin ToSet(run'.batch)
    BY <1>4, <1>7, <1>11
  <2>7. BatchAt(p)'
    BY <2>1, <2>2, <2>3, <2>4, <2>5, <2>6 DEF BatchAt
  <2> QED BY <1>3, <1>11, <2>1, <2>7
<1> QED BY <1>3, <1>4, <1>7, <1>8, <1>11 DEF PinsKept

\* The result of a call is appended, and the loop goes on.
LEMMA ToolReturnsStep ==
    ASSUME IInv, NEW ok \in BOOLEAN, NEW long \in BOOLEAN, ToolReturns(ok, long)
    PROVE  Sound
<1>1. /\ run.pc = "exec" /\ hist' = hist /\ msgs' = msgs \o Result(ok, long)
      /\ Checkpoint(run, "none")
      /\ run' = IF Len(run.batch) > 1 THEN [run EXCEPT !.pc = "batch", !.batch = Tail(run.batch)]
                ELSE [run EXCEPT !.pc = "top", !.batch = <<>>]
  BY DEF ToolReturns
<1>2. /\ hist \in HistType /\ run \in RunType /\ run.mode \in Modes /\ run.task \in Tasks
      /\ (run.mode = "native" => run.loop = "native") /\ run.loop \in {"portable", "native"}
  BY <1>1, ExecFacts
<1> SUFFICES ASSUME TRUE
             PROVE  /\ WellFormed(msgs') /\ CallsWithin(msgs', OpenCalls', hist'.calls) /\ PinsKept
                    /\ run.mode = "native" => LastUser(msgs', run.task)
                    /\ run' \in RunType /\ BatchInv' /\ LoopInv' /\ TaskInRequest'
  <2>1. saved' \in SavedType /\ SavedInv'
    BY <1>1, <1>2, SavedNew
  <2> QED BY <1>1, <1>2, <2>1, StepParts DEF Sound
<1>3. ASSUME ~ (Len(run.batch) > 1)
      PROVE  /\ run' \in RunType /\ run'.pc = "top" /\ run'.batch = <<>> /\ run'.mode = run.mode
             /\ run'.loop = run.loop /\ run'.task = run.task
  <2>1. PICK b \in Seq(Nat) : b = <<>>
    <3>1. <<>> \in Seq(Nat)
      OBVIOUS
    <3> QED BY <3>1, Zenon
  <2>2. run' = [run EXCEPT !.pc = "top", !.batch = b]
    BY <1>1, <1>3, <2>1
  <2>3. /\ run' \in RunType /\ run'.pc = "top" /\ run'.batch = b /\ run'.mode = run.mode
        /\ run'.loop = run.loop /\ run'.task = run.task
    BY <1>2, <2>2 DEF RunType
  <2> QED BY <2>1, <2>3
<1>4. CASE run.loop = "portable"
  <2>1. /\ WellFormed(msgs') /\ PinsKept /\ CallsWithin(msgs', hist.cut, hist.calls)
        /\ Len(run.batch) = 1
    BY <1>1, <1>4, PortableResult
  <2>2. /\ run' \in RunType /\ run'.pc = "top" /\ run'.batch = <<>> /\ run'.mode = run.mode
        /\ run'.loop = run.loop /\ run'.task = run.task
    BY <1>3, <2>1
  <2>3. OpenCalls' = hist'.cut /\ BatchInv' /\ LoopInv' /\ TaskInRequest'
    BY <1>2, <1>4, <2>2, TopFacts
  <2> QED BY <1>1, <1>2, <1>4, <2>1, <2>2, <2>3
<1>5. CASE run.loop = "native"
  <2>1. /\ WellFormed(msgs') /\ PinsKept /\ LastUser(msgs', run.task)
        /\ CallsWithin(msgs', ToSet(Tail(run.batch)) \cup hist.cut, hist.calls)
        /\ Tail(run.batch) \in Seq(Nat)
        /\ Len(run.batch) = 1 => Tail(run.batch) = <<>>
        /\ Len(run.batch) \in Nat /\ Len(run.batch) >= 1
        /\ Len(run.batch) > 1 /\ run'.batch = Tail(run.batch) =>
              run'.batch # <<>> /\ \E p \in DOMAIN msgs' : BatchAt(p)'
    BY <1>1, <1>5, NativeResult
  <2>2. CASE Len(run.batch) > 1
    <3>1. PICK b \in Seq(Nat) : b = Tail(run.batch)
      BY <2>1
    <3>2. run' = [run EXCEPT !.pc = "batch", !.batch = b]
      BY <1>1, <2>2, <3>1
    <3>3. /\ run' \in RunType /\ run'.pc = "batch" /\ run'.batch = b /\ run'.mode = run.mode
          /\ run'.loop = run.loop /\ run'.task = run.task
      BY <1>2, <3>2 DEF RunType
    <3>4. run'.batch # <<>> /\ \E p \in DOMAIN msgs' : BatchAt(p)'
      BY <2>1, <2>2, <3>1, <3>3
    <3>5. BatchInv' /\ LoopInv' /\ TaskInRequest'
      BY <1>2, <1>5, <2>1, <3>3, <3>4 DEF BatchInv, LoopInv, TaskInRequest
    <3>6. OpenCalls' = ToSet(Tail(run.batch)) \cup hist.cut
      BY <1>1, <3>1, <3>3 DEF OpenCalls
    <3> QED BY <1>1, <2>1, <3>3, <3>5, <3>6
  <2>3. CASE ~ (Len(run.batch) > 1)
    <3>1. /\ run' \in RunType /\ run'.pc = "top" /\ run'.batch = <<>> /\ run'.mode = run.mode
          /\ run'.loop = run.loop /\ run'.task = run.task
      BY <1>3, <2>3
    <3>2. OpenCalls' = hist'.cut /\ BatchInv' /\ LoopInv' /\ TaskInRequest'
      BY <1>2, <2>1, <3>1, TopFacts
    <3>3. CallsWithin(msgs', hist.cut, hist.calls)
      <4>1. Tail(run.batch) = <<>>
        BY <2>1, <2>3
      <4>2. ToSet(Tail(run.batch)) \cup hist.cut = hist.cut
        BY <4>1 DEF ToSet
      <4> QED BY <2>1, <4>2
    <3> QED BY <1>1, <2>1, <3>1, <3>2, <3>3
  <2> QED BY <2>2, <2>3
<1> QED BY <1>2, <1>4, <1>5

\* The run stops at a failed call: the rest of its batch stays without results.
LEMMA ToolStopsStep ==
    ASSUME IInv, NEW long \in BOOLEAN, ToolStops(long)
    PROVE  Sound
<1>1. /\ run.pc = "exec" /\ run' = Idle /\ msgs' = msgs \o Result(FALSE, long)
      /\ hist' = [hist EXCEPT !.cut = hist.cut \cup ToSet(Tail(run.batch))]
      /\ Checkpoint(run, "awaiting_approval") \/ Checkpoint(run, "none") \/ saved' = Closed
  BY DEF ToolStops, Close
<1>2. /\ hist \in HistType /\ run.mode \in Modes /\ run.task \in Tasks
      /\ (run.mode = "native" => run.loop = "native") /\ run.loop \in {"portable", "native"}
      /\ hist.cut \subseteq Nat
  BY <1>1, ExecFacts
<1>3. /\ WellFormed(msgs') /\ PinsKept
      /\ CallsWithin(msgs', ToSet(Tail(run.batch)) \cup hist.cut, hist.calls)
      /\ run.mode = "native" => LastUser(msgs', run.task)
      /\ ToSet(Tail(run.batch)) \subseteq Nat
  <2>1. CASE run.loop = "portable"
    <3>1. Tail(run.batch) = <<>> /\ WellFormed(msgs') /\ PinsKept
          /\ CallsWithin(msgs', hist.cut, hist.calls)
      BY <1>1, <2>1, PortableResult
    <3>2. ToSet(Tail(run.batch)) = {}
      BY <3>1 DEF ToSet
    <3>3. ToSet(Tail(run.batch)) \cup hist.cut = hist.cut
      BY <3>2
    <3> QED BY <1>2, <2>1, <3>1, <3>2, <3>3
  <2>2. CASE run.loop = "native"
    <3>1. /\ WellFormed(msgs') /\ PinsKept /\ LastUser(msgs', run.task)
          /\ CallsWithin(msgs', ToSet(Tail(run.batch)) \cup hist.cut, hist.calls)
          /\ Tail(run.batch) \in Seq(Nat)
      BY <1>1, <2>2, NativeResult
    <3>2. \A b \in Seq(Nat) : ToSet(b) \subseteq Nat
      BY DEF ToSet
    <3> QED BY <3>1, <3>2
  <2> QED BY <1>2, <2>1, <2>2
<1>4. hist' \in HistType /\ hist'.cut = ToSet(Tail(run.batch)) \cup hist.cut /\ hist'.calls = hist.calls
  <2> DEFINE c == ToSet(Tail(run.batch)) \cup hist.cut
  <2>1. c \in SUBSET Nat /\ hist' = [hist EXCEPT !.cut = c]
    BY <1>1, <1>2, <1>3
  <2> HIDE DEF c
  <2>2. hist' \in HistType /\ hist'.cut = c /\ hist'.calls = hist.calls
    BY <1>2, <2>1 DEF HistType
  <2> QED BY <2>2 DEF c
<1>5. /\ run' \in RunType /\ OpenCalls' = hist'.cut /\ BatchInv' /\ LoopInv' /\ TaskInRequest'
  BY <1>1, IdleFacts
<1>6. CallsWithin(msgs', OpenCalls', hist'.calls)
  BY <1>3, <1>4, <1>5
<1>7. saved' \in SavedType /\ SavedInv'
  BY <1>1, <1>2, <1>3, <1>6, SavedClosed, SavedNew
<1> QED BY <1>3, <1>4, <1>5, <1>6, <1>7, StepParts DEF Sound

\* A crash leaves the checkpoint, and the calls of the batch without results.
LEMMA CrashStep ==
    ASSUME IInv, Crash
    PROVE  Sound
<1>1. /\ msgs' = Preamble /\ run' = Idle /\ saved' = saved
      /\ hist' = [hist EXCEPT !.breaks = @ + 1, !.cut = @ \cup ToSet(run.batch)]
  BY DEF Crash
<1>2. hist \in HistType /\ hist.calls \in Nat /\ hist.cut \subseteq Nat /\ run.batch \in Seq(Nat)
  BY Fields
<1>3. /\ hist' \in HistType /\ hist'.cut = OpenCalls /\ hist'.calls = hist.calls
      /\ hist'.breaks # hist.breaks
  <2> DEFINE c == OpenCalls
             b == hist.breaks + 1
  <2>1. c \in SUBSET Nat
    <3>1. ToSet(run.batch) \subseteq Nat
      BY <1>2 DEF ToSet
    <3> QED BY <1>2, <3>1 DEF OpenCalls
  <2>2. hist' = [hist EXCEPT !.breaks = b, !.cut = c]
    <3>1. hist.cut \cup ToSet(run.batch) = c
      BY DEF OpenCalls
    <3> HIDE DEF c
    <3> QED BY <1>1, <3>1
  <2>3. b \in Nat /\ b # hist.breaks
    BY <1>2 DEF HistType
  <2> HIDE DEF b, c
  <2>4. hist' \in HistType /\ hist'.cut = c /\ hist'.calls = hist.calls /\ hist'.breaks = b
    BY <1>2, <2>1, <2>2, <2>3 DEF HistType
  <2> QED BY <2>3, <2>4 DEF c
<1>4. run' \in RunType /\ OpenCalls' = OpenCalls /\ BatchInv' /\ LoopInv' /\ TaskInRequest'
  BY <1>1, <1>3, IdleFacts
<1>5. WellFormed(msgs') /\ CallsWithin(msgs', OpenCalls', hist'.calls)
  BY <1>1, EmptyContexts
<1>6. saved' \in SavedType /\ SavedInv'
  BY <1>1, <1>2, <1>3, <1>4, SavedKept
<1> QED BY <1>3, <1>4, <1>5, <1>6, StepParts DEF Sound

\* What a resume finds in an open checkpoint.
LEMMA ResumeFacts ==
    ASSUME IInv, run.pc = "idle", saved.open, hist' = [hist EXCEPT !.breaks = @ + 1]
    PROVE  /\ WellFormed(saved.msgs) /\ CallsWithin(saved.msgs, hist.cut, hist.calls)
           /\ OpenCalls = hist.cut /\ hist.calls \in Nat
           /\ saved.task \in Tasks /\ saved.mode \in Modes
           /\ saved.mode = "native" => LastUser(saved.msgs, saved.task)
           /\ hist' \in HistType /\ hist'.cut = hist.cut /\ hist'.calls = hist.calls
           /\ hist'.breaks # hist.breaks
           /\ \A u : u = [Restored EXCEPT !.pc = "top"] =>
                 /\ u \in RunType /\ u.pc = "top" /\ u.batch = <<>> /\ u.task = saved.task
                 /\ u.mode = saved.mode /\ (u.loop = "native" <=> saved.mode = "native")
           /\ Restored.mode = saved.mode /\ Restored.task = saved.task
<1>1. /\ WellFormed(saved.msgs) /\ CallsWithin(saved.msgs, hist.cut, hist.calls)
      /\ OpenCalls = hist.cut /\ hist.calls \in Nat /\ saved.task \in Tasks
      /\ saved.mode = "native" => LastUser(saved.msgs, saved.task)
  <2>1. OpenCalls = hist.cut /\ hist.calls \in Nat
    BY Fields
  <2> QED BY <2>1 DEF IInv, SavedInv
<1>2. saved.mode \in Modes
  BY Fields DEF SavedType
<1>3. /\ hist' \in HistType /\ hist'.cut = hist.cut /\ hist'.calls = hist.calls
      /\ hist'.breaks # hist.breaks
  <2>1. hist \in HistType
    BY Fields
  <2> QED BY <2>1 DEF HistType
<1> DEFINE l == IF saved.mode = "native" THEN "native" ELSE "portable"
<1>4. l \in {"portable", "native"} /\ (l = "native" <=> saved.mode = "native")
  OBVIOUS
<1>5. Restored = [pc |-> "idle", mode |-> saved.mode, loop |-> l, task |-> saved.task,
                  batch |-> <<>>, squeezes |-> 0]
  <2>1. Restored = [Idle EXCEPT !.mode = saved.mode, !.task = saved.task, !.loop = l]
    BY DEF Restored
  <2> PICK u, v, w : u = saved.mode /\ v = saved.task /\ w = l
    OBVIOUS
  <2> HIDE DEF l
  <2>2. Restored = [Idle EXCEPT !.mode = u, !.task = v, !.loop = w]
    BY <2>1
  <2>3. Restored = [pc |-> "idle", mode |-> u, loop |-> w, task |-> v,
                    batch |-> <<>>, squeezes |-> 0]
    BY <2>2 DEF Idle
  <2> QED BY <2>3
<1> HIDE DEF l
<1>6. Restored.mode = saved.mode /\ Restored.task = saved.task
  BY <1>5
<1>7. ASSUME NEW u, u = [Restored EXCEPT !.pc = "top"]
      PROVE  /\ u \in RunType /\ u.pc = "top" /\ u.batch = <<>> /\ u.task = saved.task
             /\ u.mode = saved.mode /\ (u.loop = "native" <=> saved.mode = "native")
  <2>1. u = [pc |-> "top", mode |-> saved.mode, loop |-> l, task |-> saved.task,
             batch |-> <<>>, squeezes |-> 0]
    BY <1>5, <1>7
  <2> QED BY <1>1, <1>2, <1>4, <2>1, StartFacts
<1> QED BY <1>1, <1>2, <1>3, <1>6, <1>7

\* A resume without a pending action.
LEMMA ResumeLoopStep ==
    ASSUME IInv, ResumeLoop
    PROVE  Sound
<1>1. /\ run.pc = "idle" /\ saved.open /\ hist' = [hist EXCEPT !.breaks = @ + 1]
      /\ msgs' = saved.msgs /\ run' = [Restored EXCEPT !.pc = "top"] /\ saved' = saved
  BY DEF ResumeLoop
<1>2. /\ WellFormed(msgs') /\ CallsWithin(msgs', hist'.cut, hist'.calls)
      /\ OpenCalls = hist.cut /\ hist.calls \in Nat /\ run'.task \in Tasks
      /\ hist' \in HistType /\ hist'.cut = hist.cut /\ hist'.calls = hist.calls
      /\ hist'.breaks # hist.breaks
      /\ run' \in RunType /\ run'.pc = "top" /\ run'.batch = <<>>
      /\ (run'.loop = "native" <=> run'.mode = "native")
      /\ run'.loop = "native" => LastUser(msgs', run'.task)
  BY <1>1, ResumeFacts
<1>3. OpenCalls' = hist'.cut /\ BatchInv' /\ LoopInv' /\ TaskInRequest'
  BY <1>2, TopFacts
<1>4. saved' \in SavedType /\ SavedInv'
  BY <1>1, <1>2, <1>3, SavedKept
<1> QED BY <1>2, <1>3, <1>4, StepParts DEF Sound

\* A resume with a pending action that stays pending or fails.
LEMMA ResumeHeldStep ==
    ASSUME IInv, ResumeHeld
    PROVE  Sound
<1>1. /\ run.pc = "idle" /\ saved.open /\ hist' = [hist EXCEPT !.breaks = @ + 1]
      /\ msgs' = saved.msgs /\ run' = Idle /\ (saved' = Closed \/ saved' = saved)
  BY DEF ResumeHeld, Close
<1>2. /\ WellFormed(msgs') /\ CallsWithin(msgs', hist'.cut, hist'.calls)
      /\ OpenCalls = hist.cut /\ hist.calls \in Nat
      /\ hist' \in HistType /\ hist'.cut = hist.cut /\ hist'.calls = hist.calls
      /\ hist'.breaks # hist.breaks
  BY <1>1, ResumeFacts
<1>3. run' \in RunType /\ OpenCalls' = hist'.cut /\ BatchInv' /\ LoopInv' /\ TaskInRequest'
  BY <1>1, IdleFacts
<1>4. saved' \in SavedType /\ SavedInv'
  BY <1>1, <1>2, <1>3, SavedKept, SavedClosed
<1> QED BY <1>2, <1>3, <1>4, StepParts DEF Sound

\* A resume that executes the approved action.
LEMMA ResumeApprovedStep ==
    ASSUME IInv, NEW ok \in BOOLEAN, NEW long \in BOOLEAN, ResumeApproved(ok, long)
    PROVE  Sound
<1>1. /\ run.pc = "idle" /\ saved.open /\ hist' = [hist EXCEPT !.breaks = @ + 1]
      /\ saved.mode # "native"
      /\ msgs' = saved.msgs \o <<Assistant(<<>>), Tool(0, long)>>
                    \o (IF ok THEN <<>> ELSE <<Recovery>>)
      /\ run' = IF ok THEN [Restored EXCEPT !.pc = "top"] ELSE Idle
      /\ IF ok THEN Checkpoint(Restored, "none") ELSE saved' = Closed
  BY DEF ResumeApproved, Close
<1>2. /\ WellFormed(saved.msgs) /\ CallsWithin(saved.msgs, hist.cut, hist.calls)
      /\ saved.task \in Tasks /\ saved.mode \in Modes
      /\ hist' \in HistType /\ hist'.cut = hist.cut /\ hist'.calls = hist.calls
      /\ hist'.breaks # hist.breaks
      /\ Restored.mode = saved.mode /\ Restored.task = saved.task
  BY <1>1, ResumeFacts
<1>3. WellFormed(msgs') /\ CallsWithin(msgs', hist'.cut, hist'.calls)
  <2>1. msgs' = saved.msgs \o (<<Assistant(<<>>), Tool(0, long)>>
                                 \o (IF ok THEN <<>> ELSE <<Recovery>>))
    <3>1. saved.msgs \in Seq(Message)
      BY <1>2 DEF WellFormed
    <3>2. PICK m \in Message, n \in Message, q \in Message :
             m = Assistant(<<>>) /\ n = Tool(0, long) /\ q = Recovery
      <4>1. <<>> \in Seq(Nat) /\ 0 \in Nat /\ NoTask \in Tasks \cup {NoTask}
        OBVIOUS
      <4>2. Assistant(<<>>) \in Message /\ Tool(0, long) \in Message /\ Recovery \in Message
        BY <4>1, MessageFacts
      <4> QED BY <4>2, Zenon
    <3>3. PICK s \in Seq(Message) : s = saved.msgs
      BY <3>1
    <3>4. CASE ok
      <4>1. msgs' = s \o <<m, n>> \o <<>>
        BY <1>1, <3>2, <3>3, <3>4
      <4>2. s \o <<m, n>> \o <<>> = s \o (<<m, n>> \o <<>>)
        OBVIOUS
      <4> QED BY <3>2, <3>3, <3>4, <4>1, <4>2
    <3>5. CASE ~ok
      <4>1. msgs' = s \o <<m, n>> \o <<q>>
        BY <1>1, <3>2, <3>3, <3>5
      <4>2. s \o <<m, n>> \o <<q>> = s \o (<<m, n>> \o <<q>>)
        OBVIOUS
      <4> QED BY <3>2, <3>3, <3>5, <4>1, <4>2
    <3> QED BY <3>4, <3>5
  <2>2. PICK s, r : s = saved.msgs /\ r = msgs'
    OBVIOUS
  <2>3. /\ WellFormed(s)
        /\ r = s \o (<<Assistant(<<>>), Tool(0, long)>> \o (IF ok THEN <<>> ELSE <<Recovery>>))
    BY <1>2, <2>1, <2>2
  <2>4. WellFormed(r) /\ \A U, top : CallsWithin(s, U, top) => CallsWithin(r, U, top)
    BY ZenonT(40), <2>3, PortableTurn
  <2> QED BY <1>2, <2>2, <2>4
<1>4. CASE ok
  <2>1. run' = [Restored EXCEPT !.pc = "top"] /\ Checkpoint(Restored, "none")
    BY <1>1, <1>4
  <2>2. /\ run' \in RunType /\ run'.pc = "top" /\ run'.batch = <<>> /\ run'.task = saved.task
        /\ run'.mode = saved.mode /\ (run'.loop = "native" <=> saved.mode = "native")
    BY <1>1, <2>1, ResumeFacts
  <2>3. OpenCalls' = hist'.cut /\ BatchInv' /\ LoopInv' /\ TaskInRequest'
    BY <1>1, <1>2, <2>2, TopFacts
  <2>4. saved' \in SavedType /\ SavedInv'
    BY <1>1, <1>2, <1>3, <2>1, <2>3, SavedNew
  <2> QED BY <1>2, <1>3, <2>2, <2>3, <2>4, StepParts DEF Sound
<1>5. CASE ~ok
  <2>1. run' = Idle /\ saved' = Closed
    BY <1>1, <1>5
  <2>2. run' \in RunType /\ OpenCalls' = hist'.cut /\ BatchInv' /\ LoopInv' /\ TaskInRequest'
    BY <2>1, IdleFacts
  <2> QED BY <1>2, <1>3, <2>1, <2>2, SavedClosed, StepParts DEF Sound
<1> QED BY <1>4, <1>5

\* Every step keeps the invariant and the pinned messages.
LEMMA NextStep ==
    ASSUME IInv, Next
    PROVE  Sound
<1>1. CASE \E t \in Tasks : RunAsync(t)
  BY <1>1, RunAsyncStep
<1>2. CASE AddNote
  BY <1>2, AddNoteStep
<1>3. CASE NativeRequest
  BY <1>3, NativeRequestStep
<1>4. CASE PortableRequest
  BY <1>4, PortableRequestStep
<1>5. CASE FailRun \/ CancelRun
  BY <1>5, EndBeforeRequest
<1>6. CASE ModelFails
  BY <1>6, ModelFailsStep
<1>7. CASE FinalAnswer
  BY <1>7, FinalAnswerStep
<1>8. CASE Fallback
  BY <1>8, FallbackStep
<1>9. CASE NativeCalls
  BY <1>9, NativeCallsStep
<1>10. CASE PortableCall
  BY <1>10, PortableCallStep
<1>11. CASE Dispatch
  BY <1>11, DispatchStep
<1>12. CASE \E ok, long \in BOOLEAN : ToolReturns(ok, long)
  BY <1>12, ToolReturnsStep
<1>13. CASE \E ok, long \in BOOLEAN : ResumeApproved(ok, long)
  BY <1>13, ResumeApprovedStep
<1>14. CASE \E long \in BOOLEAN : ToolStops(long)
  BY <1>14, ToolStopsStep
<1>15. CASE Crash
  BY <1>15, CrashStep
<1>16. CASE ResumeLoop
  BY <1>16, ResumeLoopStep
<1>17. CASE ResumeHeld
  BY <1>17, ResumeHeldStep
<1> QED BY <1>1, <1>2, <1>3, <1>4, <1>5, <1>6, <1>7, <1>8, <1>9, <1>10, <1>11, <1>12, <1>13,
           <1>14, <1>15, <1>16, <1>17 DEF Next

\* A step that changes nothing keeps the invariant.
LEMMA StutterStep ==
    ASSUME IInv, UNCHANGED vars
    PROVE  IInv'
<1>1. msgs' = msgs /\ saved' = saved /\ run' = run /\ hist' = hist
  BY DEF vars
<1>2. OpenCalls' = OpenCalls
  BY <1>1 DEF OpenCalls
<1>3. TypeOK' /\ TaskInRequest' /\ LoopInv'
  BY <1>1 DEF IInv, TypeOK, TaskInRequest, LoopInv
<1>4. MsgsInv' /\ SavedInv'
  BY <1>1, <1>2 DEF IInv, MsgsInv, SavedInv
<1>5. BatchInv'
  <2>1. \A p : BatchAt(p) => BatchAt(p)'
    BY <1>1 DEF BatchAt
  <2> QED BY <1>1, <2>1 DEF IInv, BatchInv
<1> QED BY <1>3, <1>4, <1>5 DEF IInv

----------------------------------------------------------------------------
(* The theorems.                                                            *)

\* The invariant of an engine's context, checkpoint and loop holds in every run.
THEOREM Invariant == Spec => []IInv
<1>1. IInv /\ [Next]_vars => IInv'
  BY NextStep, StutterStep DEF Sound
<1> QED BY <1>1, InitInv, PTL DEF Spec

\* Contexts and checkpoints are lists of messages, whatever is appended, summarised
\* or restored.
THEOREM TypeCorrect == Spec => []TypeOK
<1>1. IInv => TypeOK
  BY DEF IInv
<1> QED BY <1>1, Invariant, PTL

\* No compression, resume or change of loop parts a native tool result from its call.
THEOREM ResultsPaired == Spec => []NoOrphanResult
<1>1. IInv => NoOrphanResult
  <2> SUFFICES ASSUME IInv, NEW j \in DOMAIN msgs, msgs[j].id # 0
               PROVE  \E i \in 1..j - 1 : j - i \in DOMAIN msgs[i].calls /\ Answered(i, j - i)
    BY DEF NoOrphanResult
  <2>1. WellFormed(msgs) /\ msgs \in Seq(Message)
    BY Fields
  <2>2. PICK i \in 1..j - 1 : j - i \in DOMAIN msgs[i].calls /\ Block(msgs, i, j - i)
    BY <2>1 DEF WellFormed, ResultsInBlocks
  <2>3. j - i \in 1..j - i
    BY <2>1
  <2> QED BY <2>2, <2>3 DEF Block, Answered
<1> QED BY <1>1, Invariant, PTL

\* A native call in a context has its result, is being executed, or was interrupted.
THEOREM OnlyInterruptedDangle == Spec => []OnlyCutBatchesDangle
<1>1. IInv => OnlyCutBatchesDangle
  <2> SUFFICES ASSUME IInv, NEW i \in DOMAIN msgs, NEW k \in DOMAIN msgs[i].calls,
                      msgs[i].calls[k] \notin ToSet(run.batch) \cup hist.cut
               PROVE  Answered(i, k)
    BY DEF OnlyCutBatchesDangle
  <2>1. msgs \in Seq(Message) /\ CallsWithin(msgs, OpenCalls, hist.calls)
    BY Fields
  <2>2. Block(msgs, i, k)
    BY <2>1 DEF CallsWithin, OpenCalls
  <2>3. k \in 1..k
    <3>1. msgs[i] \in Message
      BY <2>1
    <3>2. msgs[i].calls \in Seq(Nat)
      BY <3>1 DEF Message
    <3> QED BY <3>2
  <2> QED BY <2>2, <2>3 DEF Block, Answered
<1> QED BY <1>1, Invariant, PTL

\* A native request names its task, unless it took a second compression.
THEOREM TaskNamed == Spec => []TaskInRequest
<1>1. IInv => TaskInRequest
  BY DEF IInv
<1> QED BY <1>1, Invariant, PTL

\* Nothing but what is kept comes before a summary, of which there is one at most.
THEOREM SummaryIsFirst == Spec => []SummaryLeads
<1>1. IInv => SummaryLeads
  BY Fields DEF WellFormed, SummaryBehindKept, SummaryLeads
<1> QED BY <1>1, Invariant, PTL

\* compress and the loops never drop a message marked as important.
THEOREM NotesKept == Spec => NotesStay
<1>1. IInv /\ [Next]_vars =>
         [hist'.breaks = hist.breaks => IsPrefix(Pinned(msgs), Pinned(msgs'))]_msgs
  <2> SUFFICES ASSUME IInv, [Next]_vars, msgs' # msgs, hist'.breaks = hist.breaks
               PROVE  IsPrefix(Pinned(msgs), Pinned(msgs'))
    OBVIOUS
  <2>1. Next
    BY DEF vars
  <2>2. IInv' /\ PinsKept
    BY <2>1, NextStep DEF Sound
  <2>3. WellFormed(msgs) /\ WellFormed(msgs')
    BY <2>2 DEF IInv, MsgsInv
  <2> QED BY <2>2, <2>3, PinsPrefix DEF PinsKept
<1> QED BY <1>1, Invariant, PTL DEF Spec, NotesStay
=============================================================================
