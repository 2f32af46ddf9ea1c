------------------------------ MODULE Settings ------------------------------
(***************************************************************************)
(* What a request asks beside its messages - reasoning, tools, the choice  *)
(* of a tool, the form of the answer, the sampling - as the four facades   *)
(* read it, and as backend.py:serialize_request sends it.                  *)
(*                                                                         *)
(* A raw value of a body is a string, "absent" when the field is not there;*)
(* options are functions from names to numbers.                            *)
(***************************************************************************)
EXTENDS Integers, TLC, Functions

Levels == {"low", "medium", "high", "max"}

\* ThinkingRequest: enabled is unset, true or false; the level may be "".
Thinking(enabled, level) == [enabled |-> enabled, level |-> level]

parse_think(raw) ==
  CASE raw = "absent" -> Thinking("unset", "")
    [] raw \in {"true", "false"} -> Thinking(raw, "")
    [] raw \in Levels -> Thinking("true", raw)
    [] OTHER -> Thinking("refused", "")

parse_reasoning_effort(raw) ==
  CASE raw = "absent" -> Thinking("unset", "")
    [] raw = "none" -> Thinking("false", "")
    [] raw \in Levels -> Thinking("true", raw)
    [] OTHER -> Thinking("true", "")

AnthropicThinking(raw) ==
  CASE raw = "absent" -> Thinking("unset", "")
    [] raw = "enabled" -> Thinking("true", "")
    [] OTHER -> Thinking("false", "")

-----------------------------------------------------------------------------
ToolChoice(mode, name) == [mode |-> mode, name |-> name]

\* OpenAI and Responses: a word, or an object that names a function.
parse_tool_choice(raw) ==
  CASE raw.type = "absent" -> ToolChoice("auto", "")
    [] raw.type \in {"auto", "none", "required", "named"} -> ToolChoice(raw.type, "")
    [] raw.type = "function" /\ raw.name # "" -> ToolChoice("named", raw.name)
    [] OTHER -> ToolChoice("refused", "")

AnthropicToolChoice(raw) ==
  CASE raw.type = "any" -> ToolChoice("required", "")
    [] raw.type = "none" -> ToolChoice("none", "")
    [] raw.type = "tool" /\ raw.name # "" -> ToolChoice("named", raw.name)
    [] OTHER -> ToolChoice("auto", "")

parse_format(raw) ==
  CASE raw \in {"absent", ""} -> "text"
    [] raw \in {"json", "json_schema"} -> raw
    [] OTHER -> "refused"

parse_response_format(raw) ==
  CASE raw = "json_object" -> "json" [] raw = "json_schema" -> raw [] OTHER -> "text"

-----------------------------------------------------------------------------
(* Sampling, under the names of Ollama.                                    *)

Only(options, names) == Restrict(options, DOMAIN options \cap names)
NoOptions == [name \in {} |-> 0]

\* SamplingOptions: those it knows, and those it lets through.
Known == {"num_ctx", "num_predict", "num_keep", "num_batch", "num_gpu", "num_thread",
          "seed", "temperature", "top_k", "top_p", "min_p", "typical_p", "repeat_last_n",
          "repeat_penalty", "presence_penalty", "frequency_penalty", "stop"}

parse_options(raw) ==
  [known |-> Only(raw, Known), extra |-> Only(raw, DOMAIN raw \ Known)]

Limit(options, name) ==
  IF name \in DOMAIN options THEN "num_predict" :> options[name] ELSE NoOptions

parse_sampling(body) ==
  [known |-> Only(body, {"temperature", "top_p", "top_k", "min_p", "seed",
                         "presence_penalty", "frequency_penalty", "stop"})
               @@ Limit(body, "max_completion_tokens") @@ Limit(body, "max_tokens"),
   extra |-> NoOptions]

ResponsesSampling(body) ==
  [parse_sampling(body) EXCEPT !.known = Limit(body, "max_output_tokens") @@ @]

AnthropicSampling(body) ==
  [known |-> Only(body, {"temperature", "top_p", "top_k", "stop"}) @@ Limit(body, "max_tokens"),
   extra |-> NoOptions]

\* The API of Anthropic requires a limit.
LimitMissing(body) == "max_tokens" \notin DOMAIN body \/ body["max_tokens"] <= 0

\* The options that configure llama-server itself.
RuntimeNames ==
  ("num_ctx" :> "context") @@ ("num_batch" :> "batch")
    @@ ("num_gpu" :> "gpu_layers") @@ ("num_thread" :> "threads")

runtime_overrides(raw) ==
  {[flag |-> RuntimeNames[name], value |-> raw[name]] :
     name \in {n \in DOMAIN raw \cap DOMAIN RuntimeNames : raw[n] > 0}}

-----------------------------------------------------------------------------
(* backend.py: serialize_options, serialize_request.                       *)

Sampled == {"temperature", "top_p", "top_k", "min_p", "typical_p", "seed", "presence_penalty",
            "frequency_penalty", "repeat_penalty", "repeat_last_n", "stop"}

serialize_options(options) ==
  options.extra
    @@ Only(options.known, Sampled)
    @@ (IF "num_predict" \in DOMAIN options.known /\ options.known["num_predict"] >= 0
        THEN "max_tokens" :> options.known["num_predict"] ELSE NoOptions)

\* A request: [tools, choice, format, thinking, options].
Effort(thinking) ==
  IF thinking.enabled = "false" THEN "none" ELSE thinking.level

\* Mutant: any reasoning that is not refused is asked for.
EnablesUnlessFalse(thinking) == thinking.enabled # "false"

Enables(thinking) ==
  thinking.enabled # "false" /\ (thinking.enabled = "true" \/ thinking.level # "")

serialize_request(request) ==
  [tools |-> request.tools,
   tool_choice |-> IF request.tools = {} \/ request.choice.mode = "auto"
                   THEN ToolChoice("absent", "") ELSE request.choice,
   response_format |-> request.format,
   reasoning_effort |-> Effort(request.thinking),
   enable_thinking |-> Enables(request.thinking),
   options |-> serialize_options(request.options)]

\* 400 before anything is sent: a field that cannot be read.
Malformed(request) ==
  \/ request.thinking.enabled = "refused"
  \/ request.choice.mode = "refused"
  \/ request.format = "refused"

\* reject_unsupported: what the loaded model cannot do.
Unsupported(request, hasImages, capabilities) ==
  \/ request.thinking.enabled = "true" /\ "thinking" \notin capabilities
  \/ request.tools # {} /\ "tools" \notin capabilities
  \/ hasImages /\ "vision" \notin capabilities
=============================================================================
