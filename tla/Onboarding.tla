------------------------------ MODULE Onboarding ------------------------------
(***************************************************************************)
(* The user's configuration: what "code-spider configure" makes of the file *)
(* it finds (onboarding.py), and what the program reads from it (config.py).*)
(*                                                                         *)
(* A file is the sequence of its lines, of which only assignments matter; a *)
(* value is a text in layers of quotes or blanks, outermost first: the      *)
(* sequence of the layers and the text.  A dictionary is the sequence of    *)
(* its keys with their values, in the order they were put.                  *)
(***************************************************************************)
EXTENDS Integers, SequencesExt

CONSTANTS
    Connection,  \* the keys of the four settings the wizard asks for
    Logging,     \* the two others it manages
    Defaults,    \* _DEFAULTS
    Password,    \* the key of the password
    Commented    \* texts with a blank and a "#" in them, and what is before it

ASSUME OnboardingAssumption == Password \in ToSet(Connection)

Managed == Connection \o Logging

Text(value) == Last(value)

Empty == <<"">>

\* str.strip of one character.
Strip(value, layer) ==
    LET k == CHOOSE n \in 0..(Len(value) - 1) : /\ \A j \in 1..n : value[j] = layer
                                               /\ value[n + 1] # layer
    IN  SubSeq(value, k + 1, Len(value))

Unquoted(value) == Strip(Strip(Strip(value, "blank"), "double"), "single")

Keys(dict) == {dict[k].key : k \in DOMAIN dict}

Has(dict, key) == key \in Keys(dict)

Value(dict, key, default) ==
    IF Has(dict, key) THEN dict[SelectInSeq(dict, LAMBDA e : e.key = key)].value ELSE default

Put(dict, key, value) ==
    IF Has(dict, key) THEN [k \in DOMAIN dict |-> IF dict[k].key = key THEN [dict[k] EXCEPT !.value = value] ELSE dict[k]]
    ELSE Append(dict, [key |-> key, value |-> value])

\* _parse_env_file: comments and what is no assignment are ignored.
ParseEnvFile(file) ==
    LET put(dict, line) == IF line.key = "#" THEN dict ELSE Put(dict, line.key, Unquoted(line.value))
    IN  FoldLeft(put, << >>, file)

\* Mutant of RenderEnvFile: only what the wizard manages is written.
RenderManaged(values) ==
    [k \in DOMAIN Managed |-> [key |-> Managed[k], value |-> Value(values, Managed[k], Defaults[Managed[k]])]]

\* _render_env_file: the managed keys in their order, then the others in theirs.
RenderEnvFile(values) ==
    [k \in DOMAIN Managed |-> [key |-> Managed[k], value |-> Value(values, Managed[k], Defaults[Managed[k]])]]
    \o SelectSeq(values, LAMBDA e : e.key \notin ToSet(Managed))

\* The answer to one question: a flag, what is typed in interactive mode, what
\* the file has, the default; only an empty password flag is an answer.
Answer(asked, existing, key) ==
    LET default == Value(existing, key, Defaults[key]) IN
    IF Has(asked.flags, key) /\ (key = Password \/ Value(asked.flags, key, Empty) # Empty)
    THEN Value(asked.flags, key, Empty)
    ELSE IF asked.interactive THEN Value(asked.typed, key, default) ELSE default

\* run_configure: its exit code and the file it leaves.  test is what comes of
\* the connection test: "ok", "skipped", "failed", or "failed, saved anyway",
\* which only an interactive run asks about.
Configure(file, asked) ==
    LET existing == ParseEnvFile(file)
        put(dict, key) == Put(dict, key, Answer(asked, existing, key))
        setdefault(dict, key) == Put(dict, key, Value(dict, key, Defaults[key]))
        merged == FoldLeft(setdefault, FoldLeft(put, existing, Connection), Logging)
        refused == ~asked.interactive /\ Answer(asked, existing, Password) = Empty
        failed == asked.test = "failed" \/ (asked.test = "failed, saved anyway" /\ ~asked.interactive)
    IN  IF refused THEN [exit |-> 2, file |-> file]
        ELSE IF failed THEN [exit |-> 1, file |-> file]
        ELSE [exit |-> 0, file |-> RenderEnvFile(merged)]

\* What python-dotenv makes of a value: one layer of quotes is taken off, and
\* only without one is there a comment after a blank.
Dotenv(value) ==
    LET v == Strip(value, "blank") IN
    IF Head(v) \in {"double", "single"} THEN Tail(v)
    ELSE IF Text(v) \in DOMAIN Commented THEN <<Commented[Text(v)]>> ELSE v

\* load_dotenv without override: what is in the environment stays.
LoadDotenv(env, file) ==
    LET put(dict, line) == IF line.key = "#" THEN dict ELSE Put(dict, line.key, Dotenv(line.value))
    IN  env \o SelectSeq(FoldLeft(put, << >>, file), LAMBDA e : ~Has(env, e.key))

\* _load_dotenv_layers and _env_required: the environment, the project's .env,
\* the user's file; Empty if the setting is refused.
Setting(env, project, file, key, default) ==
    Value(LoadDotenv(LoadDotenv(env, project), file), key, default)

-----------------------------------------------------------------------------
\* Without layers, and read alike by everyone.
Plain(value) == Len(value) = 1 /\ Text(value) \notin DOMAIN Commented
=============================================================================
