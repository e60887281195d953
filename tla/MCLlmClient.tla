----------------------------- MODULE MCLlmClient -----------------------------
(***************************************************************************)
(* Constants for model checking the language-model client.                 *)
(***************************************************************************)
EXTENDS LlmClientProperties

\* The calls of the nodes, get_llm() and get_llm(temperature=0.2), and one that
\* names a model.
NodeRequests ==
  [model : {Unset}, temperature : Temperatures]
    \cup {[model |-> "named", temperature |-> "0.2"]}

\* No key; two keys; the model configured too; a provider that is not installed.
SomeEnvironments ==
  {[keys |-> {},                   LLM_MODEL |-> Unset],
   [keys |-> {"gemini", "openai"}, LLM_MODEL |-> Unset],
   [keys |-> {"openai"},           LLM_MODEL |-> "configured"],
   [keys |-> {"anthropic"},        LLM_MODEL |-> Unset]}

TwoInstalled == {"gemini", "openai"}

===============================================================================
