------------------------------ MODULE Settings ------------------------------
(***************************************************************************)
(* The settings of a command (agent/config.py, and the command line's share *)
(* of them in cli.py), and what they let a tool do: the permission policy   *)
(* and the tools themselves decide it, each with code of its own.           *)
(*                                                                         *)
(* Settings come in layers.  A layer is a function from the settings it     *)
(* gives to their values.  A file may give any value to any setting: "off"   *)
(* stands for every value that is false, "word" for a text, which is no      *)
(* number and, read from the environment, not yes.                           *)
(***************************************************************************)
EXTENDS Integers, Sequences, SequencesExt

Switches == {"allow_file_write", "allow_shell", "allow_search"}
Numbers == {"max_steps", "max_errors"}
Names == {"provider", "model", "api_key", "base_url", "db_path"}
Keys == Switches \cup Numbers \cup Names \cup {"prefixes"}

\* "any" is no list of prefixes, "empty" a list without one.
Defaults ==
    [k \in Keys |-> CASE k \in Switches -> "off"
                      [] k \in Numbers -> "default"
                      [] k \in {"api_key", "base_url"} -> "none"
                      [] k = "prefixes" -> "any"
                      [] k = "provider" -> "fake"
                      [] k = "model" -> "gpt-4o-mini"
                      [] OTHER -> "default"]

\* What a command finds: files that are missing, broken or read, the files
\* and variables of the environment, the aliases of other programs, arguments.
Missing == [state |-> "missing", gives |-> <<>>]
Broken == [state |-> "broken", gives |-> <<>>]
File(gives) == [state |-> "read", gives |-> gives]
Plain == [explicit |-> <<>>, search |-> <<Missing, Missing>>, dotenv |-> <<>>, env |-> <<>>,
          alias |-> <<>>, args |-> <<>>, flags |-> {}]

----------------------------------------------------------------------------
(* load_config and _apply_cli_overrides.                                    *)

\* A layer over another one, which it hides.
Over(upper, lower) ==
    [k \in DOMAIN upper \cup DOMAIN lower |-> IF k \in DOMAIN upper THEN upper[k] ELSE lower[k]]

\* What the command line and the code leave no choice about: argparse reads
\* numbers, there is no argument for a switch, and other programs have names
\* alone.  Of the values in a file nothing is checked (_apply_section).
AreSettings(s) ==
    /\ DOMAIN s.args \cap Switches = {}
    /\ \A k \in DOMAIN s.args \cap Numbers : s.args[k] # "word"
    /\ DOMAIN s.alias \subseteq Names

\* A file that is named is the only candidate, there or not.
FindConfig(s) ==
    LET candidates == IF s.explicit # <<>> THEN s.explicit ELSE s.search
        there == {i \in DOMAIN candidates : candidates[i].state # "missing"}
    IN  IF there = {} THEN Missing ELSE candidates[Min(there)]

\* Variables of the process come before those of .env.
Environment(s) == Over(s.env, s.dotenv)

\* _coerce_env_value: a number that cannot be read is ignored.
Usable(k, text) == ~(k \in Numbers /\ text = "word")

\* A switch is on for 1, true, yes and on only; no prefixes are any prefix.
Coerced(k, text) ==
    CASE k \in Switches -> IF text = "yes" THEN "on" ELSE "off"
      [] k = "prefixes" -> IF text = "empty" THEN "any" ELSE text
      [] OTHER -> text

FromEnvironment(s) ==
    LET env == Environment(s)
    IN  [k \in {j \in DOMAIN env : Usable(j, env[j])} |-> Coerced(k, env[k])]

\* Only what looks untouched takes the name another program uses for it.
Aliased(s, config) ==
    [k \in Keys |-> IF k \in DOMAIN s.alias /\ config[k] \in {"none", "gpt-4o-mini"} THEN s.alias[k]
                    ELSE config[k]]

Config(s) ==
    Over(s.args, Aliased(s, Over(FromEnvironment(s), Over(FindConfig(s).gives, Defaults))))

\* A switch is tested for its truth: a text is true, whatever it says.
SwitchedOn(s, k) == Config(s)[k] # "off"

----------------------------------------------------------------------------
(* Two gates.  A call is a tool, the kinds of its arguments, the words of a  *)
(* command and what its path is: a "file", a "directory" or "missing" in the *)
(* workspace, or "outside" of it.                                           *)

Operators == {"&&"}
Blocked == {"rm"}

PrefixesIn(text) == CASE text = "git status" -> {<<"git", "status">>}
                      [] text = "rm" -> {<<"rm">>}
                      [] OTHER -> {}

\* command_matches_allowed_prefix.
Matches(command, prefixes) ==
    /\ command # <<>>
    /\ ToSet(command) \cap Operators = {}
    /\ \E prefix \in prefixes : IsPrefix(prefix, command)

\* Bug: an option of the command line does not reach the policy.
PolicyOf_NoFlags(s) ==
    [on |-> {k \in Switches : SwitchedOn(s, k)}, network |-> "allow_network" \in s.flags,
     prefixes |-> Config(s)["prefixes"]]

\* _permission_policy_from_config.
PolicyOf(s) ==
    [on |-> {k \in Switches : SwitchedOn(s, k) \/ k \in s.flags},
     network |-> "allow_network" \in s.flags,
     prefixes |-> Config(s)["prefixes"]]

\* PermissionPolicy.check.
PolicyAllows(policy, call) ==
    /\ call.tool = "write_file" => "allow_file_write" \in policy.on
    /\ call.tool = "run_shell" =>
          /\ "allow_shell" \in policy.on
          /\ policy.prefixes # "any" => Matches(call.command, PrefixesIn(policy.prefixes))
    /\ call.tool = "web_search" => policy.network \/ "allow_search" \in policy.on

\* _register_default_tools: the search is not even registered.
ToolsOf(s) ==
    LET opened(k) == SwitchedOn(s, k) \/ k \in s.flags
    IN  [registered |-> {"list_files", "read_file", "write_file", "run_shell"}
                        \cup (IF opened("allow_search") THEN {"web_search"} ELSE {}),
         write |-> opened("allow_file_write"), shell |-> opened("allow_shell"),
         prefixes |-> Config(s)["prefixes"]]

\* The gates of WriteFile.run and RunShell.run.
ToolAllows(tools, call) ==
    /\ call.tool = "write_file" => tools.write
    /\ call.tool = "run_shell" =>
          tools.shell /\ (tools.prefixes # "any" => Matches(call.command, PrefixesIn(tools.prefixes)))

\* What doctor says of the switches; it knows no options.
Doctor(s) == {k \in Switches : SwitchedOn(s, k)}

----------------------------------------------------------------------------
(* ToolExecutor.execute over the tools that are there by default.           *)

Required == [list_files |-> {"path"}, read_file |-> {"path"}, write_file |-> {"path", "content"},
             run_shell |-> {"command"}, web_search |-> {"query"}]

Properties(tool) == Required[tool] \cup (CASE tool = "run_shell" -> {"timeout"}
                                        [] tool = "web_search" -> {"max_results"}
                                        [] OTHER -> {})

KindOf(argument) == IF argument \in {"timeout", "max_results"} THEN "integer" ELSE "string"

\* _validate_arguments: an argument the schema does not know is let through.
Validates(call) ==
    /\ Required[call.tool] \subseteq DOMAIN call.kinds
    /\ \A argument \in DOMAIN call.kinds \cap Properties(call.tool) :
          call.kinds[argument] = KindOf(argument)

\* resolve_workspace_path.
Inside(path) == path # "outside"

ListFilesRuns(path) == Inside(path) /\ path = "directory"
ReadFileRuns(path) == Inside(path) /\ path = "file"
WriteFileRuns(path) == Inside(path) /\ path # "directory"

\* is_command_safe looks for a word anywhere in the command.
RunShellRuns(command) == ToSet(command) \cap Blocked = {}

\* A search without a network finds nothing, which is no error.
WebSearchRuns == TRUE

Runs(call) ==
    CASE call.tool = "list_files" -> ListFilesRuns(call.path)
      [] call.tool = "read_file" -> ReadFileRuns(call.path)
      [] call.tool = "write_file" -> WriteFileRuns(call.path)
      [] call.tool = "run_shell" -> RunShellRuns(call.command)
      [] call.tool = "web_search" -> WebSearchRuns

\* The first check that fails names the kind of the error.
Observed(policy, tools, call) ==
    IF call.tool \notin tools.registered THEN "unknown_tool"
    ELSE IF ~Validates(call) THEN "validation"
    ELSE IF ~PolicyAllows(policy, call) THEN "permission"
    ELSE IF ToolAllows(tools, call) /\ Runs(call) THEN "none" ELSE "execution"

\* The audit log: whatever is no refusal of the policy counts as allowed.
Audited(kind) == [allowed |-> kind # "permission", success |-> kind = "none"]
=============================================================================
