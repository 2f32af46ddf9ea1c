---------------------------- MODULE MCSupervisor ----------------------------
(***************************************************************************)
(* An instance of Supervisor, and the command lines it builds.             *)
(***************************************************************************)
EXTENDS Supervisor, RuntimeArgs

\* Every port free, one left, none.
FreeSharedAndNone == {{}, {1}, {1, 2}}

\* The configurations of two manifests: pairs of a flag and its value.
Pair(name, value) == <<Token(name), Token(value)>>
Extras == {<<Pair("--temp", "0"), Pair("--host", "0.0.0.0"), Pair("--top-k", "1")>>,
           <<Pair("-m", "other"), <<Joined("--port")>>, Pair("--temp", "0")>>,
           <<<<Joined("--alias")>>, Pair("--api-key", "k"), <<Joined("--seed")>>>>}

Address(i) == [model |-> "blob", alias |-> "name", host |-> "127.0.0.1",
               port |-> ToString(port[i]), mmproj |-> "", draft |-> "draft",
               adapters |-> <<"lora1", "lora2">>]

Commands(i) ==
  {[extra |-> extra,
    args |-> build_args(Address(i),
               [context |-> "",
                settings |-> <<Valued("--threads", "4"), Valued("--numa", ""),
                               Switch("--no-mmap", TRUE), Switch("--mlock", FALSE)>>,
                extra |-> FlattenSeq(extra)])] : extra \in Extras}

\* A manifest cannot move an instance off the address and the model that the
\* supervisor gave it, and what it may set keeps its values: "laisser passer
\* une valeur orpheline décalerait toute la ligne de commande" (args.py).
CommandIsTheSupervisors ==
  \A i \in Instances : port[i] # NoPort => \A c \in Commands(i) :
    LET kept == SelectSeq(c.extra, LAMBDA p : p[1].base \notin RESERVED_FLAGS)
        own == Len(c.args) - Len(FlattenSeq(kept))
    IN /\ SubSeq(c.args, own + 1, Len(c.args)) = FlattenSeq(kept)
       /\ \A flag \in RESERVED_FLAGS :
            Cardinality({k \in DOMAIN c.args : c.args[k].base = flag})
              = IF flag \in {"--model", "--alias", "--host", "--port"} THEN 1 ELSE 0
=============================================================================
