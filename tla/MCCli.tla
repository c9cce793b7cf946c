-------------------------------- MODULE MCCli -------------------------------
(* Instances of Cli for TLC.                                                *)
EXTENDS Cli

CONSTANTS first, second

Symmetry == Permutations({first, second})

OtherProvider == [Plain EXCEPT !.env = "provider" :> "other"]

SettledSettings == {Plain}

\* Bounds.  Three steps are for one run and one process, two for the others;
\* while two processes work on one run there is no other run, and no chat; once
\* there are runs of two sessions, which share no row, one process is idle; two
\* runs of one session that two processes work on have a step each; with no
\* session left to open only resumes start.
Idle == \E p \in Procs : procs[p].stage = "off"
FewSteps(r, n) ==
    /\ runs[r].seq <= n /\ runs[r].kept <= n /\ told[r] <= n
    /\ \A p \in Procs : procs[p].run = r => procs[p].trace <= n
StepsAtMost(n) == \A r \in DOMAIN runs : FewSteps(r, n)
SharedAlone ==
    /\ StepsAtMost(2) \/ (Len(runs) = 1 /\ Idle)
    /\ contended # {} => Len(runs) = 1 /\ Len(traces) <= 2 /\ \A p \in Procs : procs[p].command # "chat"
    /\ Len(runs) = 2 => /\ \E r \in DOMAIN runs : FewSteps(r, 1)
                        /\ Idle \/ (runs[1].session = runs[2].session /\ StepsAtMost(1))
    /\ \A p \in Procs : procs[p].stage = "config" /\ sessions = MaxSessions => procs[p].command = "resume"

\* Every way to set one switch.
OfSwitch(k) ==
    LET files == {Missing, Broken, File(<<>>)} \cup {File(k :> value) : value \in {"on", "off", "word"}}
    IN  {[Plain EXCEPT !.explicit = explicit, !.search = <<here, home>>, !.env = env,
                       !.dotenv = dotenv, !.flags = flags] :
            explicit \in {<<>>} \cup {<<f>> : f \in {Missing, Broken, File(k :> "on")}},
            here \in files, home \in {Missing, File(k :> "on")},
            env \in {<<>>} \cup {k :> text : text \in {"yes", "no", "word"}},
            dotenv \in {<<>>, k :> "yes"}, flags \in {{}, {k}, {"allow_network"}}}

\* A shell that is on, and a list of prefixes in the file, the environment or both.
OfPrefixes ==
    {[Plain EXCEPT !.search = <<here, Missing>>, !.env = env, !.flags = {"allow_shell"}] :
        here \in {Missing} \cup {File("prefixes" :> text) : text \in {"empty", "git status", "rm"}},
        env \in {<<>>} \cup {"prefixes" :> text : text \in {"empty", "git status", "rm"}}}

\* A number that cannot be read, a name another program sets, arguments.
OfOthers ==
    {[Plain EXCEPT !.search = <<File("max_steps" :> value), Missing>>, !.env = env,
                   !.alias = alias, !.args = args] :
        value \in {"5", "word"}, env \in {<<>>} \cup {"max_steps" :> text : text \in {"word", "7"}},
        alias \in {<<>>, "model" :> "deepseek"},
        args \in {<<>>, "model" :> "mine", "provider" :> "openai", "max_steps" :> "3"}}

LoudSettings == {OtherProvider} \cup UNION {OfSwitch(k) : k \in Switches} \cup OfPrefixes \cup OfOthers

Call(tool, kinds, command, path) == [tool |-> tool, kinds |-> kinds, command |-> command, path |-> path]

Whole(tool, command, path) == Call(tool, [a \in Required[tool] |-> "string"], command, path)

SomeCalls ==
    {Whole("list_files", <<>>, path) : path \in {"directory", "missing", "outside"}}
    \cup {Whole("read_file", <<>>, path) : path \in {"file", "directory", "outside"}}
    \cup {Whole("write_file", <<>>, path) : path \in {"missing", "directory", "outside"}}
    \cup {Whole("web_search", <<>>, "file"), Call("write_file", "path" :> "string", <<>>, "file"),
          Call("run_shell", "command" :> "string" @@ "timeout" :> "string", <<"ls">>, "file"),
          Call("read_file", "path" :> "string" @@ "encoding" :> "integer", <<>>, "file")}
    \cup {Whole("run_shell", command, "file") :
            command \in {<<"git", "status">>, <<"git", "status", "&&", "ls">>, <<"git", "status", "rm">>,
                         <<"ls">>, <<"rm">>, <<>>}}
=============================================================================
