------------------------- MODULE LlmClientProperties -------------------------
(***************************************************************************)
(* What a node may rely on when it asks for a client and calls a model.    *)
(***************************************************************************)
EXTENDS LlmClient

\* Type correctness; the cache holds at most MaxCached clients.
TypeOK ==
  /\ env \in Environments
  /\ seen \subseteq Environments
  /\ cache \in Seq(Entry)
  /\ Len(cache) <= MaxCached
  /\ request \in Request
  /\ client \in Client
  /\ pc \in {"idle", "trying", "sleeping", "behind_the_loop", "returned", "raised"}
  /\ attempt \in 0.._MAX_LLM_RETRIES
  /\ outcomes \in Seq(Outcome)
  /\ waited \in Nat
  /\ calls \in 0..MaxCalls

InCall == pc \in {"trying", "sleeping"}

\* However old a cached client is and whatever happened to the variables since,
\* it is the one the environment of some moment of this process, with a key and
\* its package, asks for with just these arguments: no node gets the temperature
\* or model of another (lru_cache key of _cached_llm, _build_llm).
ClientFitsItsRequest ==
  InCall => \E e \in seen : Buildable(e) /\ client = _build_llm(request, e)

\* "Unreachable: the final iteration either returns or re-raises above"
\* (llm.py:54).
FinalIterationEndsTheCall == pc # "behind_the_loop"

\* A try is followed by another only if its exception bears the marker of a rate
\* limit, a call that returns does so with the answer of its last try, and a call that
\* raises has used up its four tries or met an exception that did not
\* (call_with_retry).
OnlyRateLimitsAreRetried ==
  /\ \A i \in DOMAIN outcomes :
       i < Len(outcomes) => outcomes[i] = "marked"
  /\ pc = "returned" => Last(outcomes) = Answered
  /\ pc = "raised" /\ outcomes # <<>> =>
       /\ Last(outcomes) # Answered
       /\ Len(outcomes) < _MAX_LLM_RETRIES => Last(outcomes) # "marked"

\* Pauses taken so far in this call.
Pauses == attempt

\* What a pause lasts doubles but for a jitter of a second at most, so k of them
\* take between 2^(k+1) - 2 seconds and k seconds more, and none follows the last
\* try (llm.py:50-53).
BackoffGrows ==
  /\ waited \in (2 ^ (Pauses + 1) - 2)..(2 ^ (Pauses + 1) - 2 + Pauses)
  /\ pc \in {"returned", "raised"} /\ outcomes # <<>> => Pauses = Len(outcomes) - 1

\* The abstract call: between two tries the last failure is one that may pass.
Call == INSTANCE ModelCall WITH
  phase   <- CASE pc = "idle" -> "none"
               [] pc = "returned" -> "answered"
               [] pc = "raised" -> "raised"
               [] OTHER -> "asking",
  tries   <- Len(outcomes),
  hopeful <- outcomes # <<>> /\ Last(outcomes) = "marked"

\* Every call of a node is one ModelCall allows, and it ends (call_with_retry):
\* what the nodes see of a model is an answer or one exception.
ImplementsModelCall == Call!FairSpec

===============================================================================
