------------------------------ MODULE LlmClient ------------------------------
(***************************************************************************)
(* The language-model client of the nodes (llm.py): get_llm with its       *)
(* lru_cache, and call_with_retry attempt by attempt.                      *)
(*                                                                         *)
(* A node makes one call at a time: get_llm, then call_with_retry around   *)
(* the request.  What happens to the environment variables meanwhile is    *)
(* up to the rest of the process.  An exception is marked if its text      *)
(* holds what _is_rate_limit looks for, whatever its cause is.             *)
(***************************************************************************)
EXTENDS Integers, SequencesExt

CONSTANTS
  Requests,       \* The arguments get_llm is called with.
  Environments,   \* What the environment variables may be set to.
  Installed,      \* The providers whose package is installed.
  MaxCached,      \* maxsize of the lru_cache, 8 in the code.
  MaxCalls        \* Bound: calls of one process.

Unset == "unset"

Providers    == {"gemini", "openai", "anthropic"}
Models       == {"named", "configured", "default"}
Temperatures == {"0.0", "0.2"}

Request     == [model : Models \cup {Unset}, temperature : Temperatures]
Environment == [keys : SUBSET Providers, LLM_MODEL : Models \cup {Unset}]
Client      == [provider : Providers, model : Models, temperature : Temperatures]

ASSUME RequestsAssumption     == Requests \subseteq Request
ASSUME EnvironmentsAssumption == Environments \subseteq Environment
ASSUME InstalledAssumption    == Installed \subseteq Providers
ASSUME MaxCachedAssumption    == MaxCached \in Nat \ {0}
ASSUME MaxCallsAssumption     == MaxCalls \in Nat

VARIABLES
  env,        \* The environment variables.
  cache,      \* Entries of the lru_cache, the least recently used first.
  request,    \* The arguments of the current call.
  client,     \* The client get_llm returned for it.
  pc,         \* Where the call is.
  attempt,    \* The loop counter of call_with_retry.
  outcomes,   \* History: what the tries of this call came to.
  waited,     \* History: seconds slept in this call.
  calls,      \* Calls begun.
  seen        \* History: the environments there have been.

vars ==
  <<env, cache, request, client, pc, attempt, outcomes, waited, calls, seen>>

-------------------------------------------------------------------------------
(* get_llm *)

\* The first provider, in this order, whose key is set.
provider(e) ==
  CASE "gemini" \in e.keys    -> "gemini"
    [] "gemini" \notin e.keys /\ "openai" \in e.keys -> "openai"
    [] OTHER                  -> "anthropic"

\* A key is set and the package of the provider it selects is there.
Buildable(e) == e.keys # {} /\ provider(e) \in Installed

_build_llm(r, e) ==
  [provider    |-> provider(e),
   model       |-> IF r.model # Unset THEN r.model
                   ELSE IF e.LLM_MODEL # Unset THEN e.LLM_MODEL ELSE "default",
   temperature |-> r.temperature]

Entry == [request : Request, client : Client]

\* Mutant: the temperature is not part of the key.
SameKey_by_model(entry, r) == entry.request.model = r.model

SameKey(entry, r) == entry.request = r

Hits(r) == {i \in DOMAIN cache : SameKey(cache[i], r)}

\* Mutant: the cache is unbounded.
Insert_unbounded(entries, entry) == Append(entries, entry)

\* The oldest entry gives way in a full cache.
Insert(entries, entry) ==
  Append(IF Len(entries) = MaxCached THEN Tail(entries) ELSE entries, entry)

\* A hit makes an entry the most recently used one.
Touch(entries, i) == Append(RemoveAt(entries, i), entries[i])

Idle == pc \in {"idle", "returned", "raised"} /\ calls < MaxCalls

Begin(r) ==
  /\ request' = r
  /\ attempt' = 0
  /\ outcomes' = <<>>
  /\ waited' = 0
  /\ calls' = calls + 1
  /\ UNCHANGED <<env, seen>>

CacheHit(r) ==
  /\ Idle
  /\ \E i \in Hits(r) :
       /\ client' = cache[i].client
       /\ cache' = Touch(cache, i)
  /\ pc' = "trying"
  /\ Begin(r)

CacheMiss(r) ==
  /\ Idle
  /\ Hits(r) = {}
  /\ Buildable(env)
  /\ client' = _build_llm(r, env)
  /\ cache' = Insert(cache, [request |-> r, client |-> client'])
  /\ pc' = "trying"
  /\ Begin(r)

\* _build_llm raises; lru_cache keeps nothing of a call that raised.
BuildFails(r) ==
  /\ Idle
  /\ Hits(r) = {}
  /\ ~Buildable(env)
  /\ pc' = "raised"
  /\ UNCHANGED <<cache, client>>
  /\ Begin(r)

\* Another part of the process sets or unsets variables (load_dotenv, tests).
ChangeEnvironment ==
  /\ env' \in Environments
  /\ seen' = seen \cup {env'}
  /\ UNCHANGED <<cache, request, client, pc, attempt, outcomes, waited, calls>>

-------------------------------------------------------------------------------
(* call_with_retry *)

_MAX_LLM_RETRIES == 4

\* Mutant: the delay does not grow.
Delay_constant == <<2, 2, 2, 2>>

\* _BASE_BACKOFF_SECONDS * (2 ** attempt), for attempt = 0, 1, ...
Delay == <<2, 4, 8, 16>>

\* The bounds of random.uniform(0, 1).
Jitter == {0, 1}

Answered  == "answer"
Exception == {"marked", "unmarked"}
Outcome   == Exception \cup {Answered}

\* Mutant: every exception is taken for a rate limit.
_is_rate_limit_always(exc) == exc \in Exception

\* One of the markers "429", "quota", ... is in the text of the exception.
_is_rate_limit(exc) == exc = "marked"

\* Mutant: one iteration late.
LastIteration_late == attempt = _MAX_LLM_RETRIES

LastIteration == attempt = _MAX_LLM_RETRIES - 1

UnchangedByTry ==
  UNCHANGED <<env, seen, cache, request, client, calls, attempt, waited>>

TryAnswers ==
  /\ pc = "trying"
  /\ outcomes' = Append(outcomes, Answered)
  /\ pc' = "returned"
  /\ UnchangedByTry

TryRaises ==
  /\ pc = "trying"
  /\ \E exc \in Exception :
       /\ outcomes' = Append(outcomes, exc)
       /\ pc' = IF ~_is_rate_limit(exc) \/ LastIteration
                THEN "raised" ELSE "sleeping"
  /\ UnchangedByTry

\* Mutant: the loop never advances.
Sleep_stuck ==
  /\ pc = "sleeping"
  /\ pc' = "trying"
  /\ UNCHANGED <<env, seen, cache, request, client, calls, outcomes, attempt, waited>>

\* After the pause the loop goes on; behind its last iteration is the line that
\* raises a RuntimeError.
Sleep ==
  /\ pc = "sleeping"
  /\ \E jitter \in Jitter : waited' = waited + Delay[attempt + 1] + jitter
  /\ attempt' = attempt + 1
  /\ pc' = IF attempt' < _MAX_LLM_RETRIES THEN "trying" ELSE "behind_the_loop"
  /\ UNCHANGED <<env, seen, cache, request, client, calls, outcomes>>

-------------------------------------------------------------------------------

NoRequest == [model |-> Unset, temperature |-> "0.0"]
NoClient  == [provider |-> "anthropic", model |-> "default", temperature |-> "0.0"]

Init ==
  /\ env \in Environments
  /\ seen = {env}
  /\ cache = <<>>
  /\ request = NoRequest
  /\ client = NoClient
  /\ pc = "idle"
  /\ attempt = 0
  /\ outcomes = <<>>
  /\ waited = 0
  /\ calls = 0

GetLlm == \E r \in Requests : CacheHit(r) \/ CacheMiss(r) \/ BuildFails(r)

CallWithRetry == TryAnswers \/ TryRaises \/ Sleep

Next == GetLlm \/ CallWithRetry \/ ChangeEnvironment

Spec == Init /\ [][Next]_vars

\* A request to the provider answers or raises, and time.sleep returns; nothing
\* makes a node place a call.
FairSpec == Spec /\ WF_vars(CallWithRetry)

===============================================================================
