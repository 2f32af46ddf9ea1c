----------------------------- MODULE RuntimeArgs -----------------------------
(***************************************************************************)
(* ollamacpp/runtime/args.py: the command line of an instance.  A token is *)
(* its part before "=", and whether it has one; a value is a token.        *)
(***************************************************************************)
EXTENDS Sequences, SequencesExt

Token(base) == [base |-> base, joined |-> FALSE]
Joined(base) == [base |-> base, joined |-> TRUE]

RESERVED_FLAGS ==
  {"--host", "--port", "--model", "-m", "--alias", "-a", "--api-key",
   "--api-key-file", "--models-dir", "--models-max", "--mmproj", "--path"}

\* Mutant: the value of a reserved flag stays, even when it is a token.
filter_flags(extra) == SelectSeq(extra, LAMBDA t : t.base \notin RESERVED_FLAGS)

\* filter_extra_args: what is kept, and whether the next token is a value to skip.
Filtered(acc, t) ==
  CASE acc.skip -> [acc EXCEPT !.skip = FALSE]
    [] ~ acc.skip /\ t.base \in RESERVED_FLAGS -> [acc EXCEPT !.skip = ~ t.joined]
    [] OTHER -> [acc EXCEPT !.out = Append(@, t)]

filter_extra_args(extra) ==
  FoldLeft(Filtered, [out |-> <<>>, skip |-> FALSE], extra).out

\* _flag: a flag and its value, when there is one.
Valued(name, value) == IF value = "" THEN <<>> ELSE <<Token(name), Token(value)>>

Switch(name, on) == IF on THEN <<Token(name)>> ELSE <<>>

\* build_args: what the supervisor sets, then what the runtime configuration
\* sets.  Its settings are Valued or Switch, one after the other; the extra
\* arguments come last.
build_args(address, runtime) ==
  Valued("--model", address.model) \o Valued("--alias", address.alias)
    \o Valued("--host", address.host) \o Valued("--port", address.port)
    \o Switch("--no-webui", TRUE) \o Switch("--jinja", TRUE)
    \o Valued("--mmproj", address.mmproj) \o Valued("--model-draft", address.draft)
    \o FlattenSeq([i \in DOMAIN address.adapters |-> Valued("--lora", address.adapters[i])])
    \o Valued("--ctx-size", IF runtime.context = "" THEN "4096" ELSE runtime.context)
    \o FlattenSeq(runtime.settings)
    \o filter_extra_args(runtime.extra)
=============================================================================
