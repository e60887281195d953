--------------------------- MODULE LlmClientProofs ---------------------------
(***************************************************************************)
(* The client cache and the retries, for every set of requests and         *)
(* environments and every size of the cache.                               *)
(***************************************************************************)
EXTENDS LlmClientProperties, SequenceTheorems, TLAPS

-------------------------------------------------------------------------------
(* The operations on the cache *)

\* A hit moves an entry and neither adds nor removes one.
LEMMA TouchKeepsEntries ==
  ASSUME NEW T, NEW s \in Seq(T), NEW i \in DOMAIN s
  PROVE  Touch(s, i) \in Seq(T) /\ Len(Touch(s, i)) = Len(s)
<1>1. i \in 1..Len(s) /\ Len(s) \in Nat /\ s[i] \in T
  OBVIOUS
<1> DEFINE front == SubSeq(s, 1, i - 1)
           back  == SubSeq(s, i + 1, Len(s))
<1>2. front \in Seq(T) /\ Len(front) = i - 1
  <2>1. \A j \in 1..(i - 1) : s[j] \in T
    BY <1>1
  <2> QED BY <1>1, <2>1, SubSeqProperties
<1>3. back \in Seq(T) /\ Len(back) = Len(s) - i
  <2>1. \A j \in (i + 1)..Len(s) : s[j] \in T
    BY <1>1
  <2> QED BY <1>1, <2>1, SubSeqProperties
<1> HIDE DEF front, back
<1>4. front \o back \in Seq(T) /\ Len(front \o back) = Len(s) - 1
  <2>1. front \o back \in Seq(T) /\ Len(front \o back) = Len(front) + Len(back)
    BY <1>2, <1>3, ConcatProperties
  <2> QED BY <1>1, <1>2, <1>3, <2>1
<1>5. Append(front \o back, s[i]) \in Seq(T)
      /\ Len(Append(front \o back, s[i])) = Len(s)
  BY <1>1, <1>4, AppendProperties
<1> QED BY <1>5 DEF Touch, RemoveAt, front, back

\* A miss adds one entry and never fills the cache beyond its size.
LEMMA InsertStaysBounded ==
  ASSUME NEW T, NEW s \in Seq(T), NEW entry \in T, Len(s) <= MaxCached
  PROVE  Insert(s, entry) \in Seq(T) /\ Len(Insert(s, entry)) <= MaxCached
<1>0. MaxCached \in Nat \ {0}
  BY MaxCachedAssumption
<1>1. CASE Len(s) = MaxCached
  <2>1. s # <<>>
    BY <1>0, <1>1
  <2>2. Tail(s) \in Seq(T) /\ Len(Tail(s)) = Len(s) - 1
    BY <2>1, HeadTailProperties
  <2>3. Append(Tail(s), entry) \in Seq(T) /\ Len(Append(Tail(s), entry)) = MaxCached
    BY <1>0, <1>1, <2>2, AppendProperties
  <2> QED BY <1>0, <1>1, <2>3 DEF Insert
<1>2. CASE Len(s) # MaxCached
  <2>1. Append(s, entry) \in Seq(T) /\ Len(Append(s, entry)) = Len(s) + 1
    BY AppendProperties
  <2> QED BY <1>0, <1>2, <2>1 DEF Insert
<1> QED BY <1>1, <1>2

\* What _build_llm returns for a request.
LEMMA ClientTypes ==
  ASSUME NEW r \in Requests, NEW e \in Environments
  PROVE  r \in Request /\ _build_llm(r, e) \in Client
<1>1. r \in Request /\ e \in Environment
  BY RequestsAssumption, EnvironmentsAssumption
<1>2. provider(e) \in Providers
  BY DEF provider, Providers
<1>3. (IF r.model # Unset THEN r.model
       ELSE IF e.LLM_MODEL # Unset THEN e.LLM_MODEL ELSE "default") \in Models
  BY <1>1 DEF Request, Environment, Models
<1>4. r.temperature \in Temperatures
  BY <1>1 DEF Request
<1> QED BY <1>1, <1>2, <1>3, <1>4 DEF _build_llm, Client

-------------------------------------------------------------------------------
(* Types *)

\* The invariant of one call: where it is says how many tries it has made, and
\* every try but the last failed in a way that may pass.
CallInv ==
  /\ pc \in {"idle", "trying", "sleeping", "returned", "raised"}
  /\ pc = "idle" => outcomes = <<>>
  /\ pc = "trying" => attempt \in 0..3 /\ Len(outcomes) = attempt
  /\ pc = "sleeping" => attempt \in 0..2 /\ Len(outcomes) = attempt + 1
  /\ pc \in {"returned", "raised"} => Len(outcomes) <= 4
  /\ pc = "returned" => Len(outcomes) >= 1 /\ outcomes[Len(outcomes)] = Answered
  /\ pc = "raised" /\ Len(outcomes) >= 1 =>
       /\ outcomes[Len(outcomes)] \in Exception
       /\ Len(outcomes) < 4 => outcomes[Len(outcomes)] # "marked"
  /\ \A i \in 1..Len(outcomes) :
       i < Len(outcomes) \/ pc \in {"trying", "sleeping"} =>
         outcomes[i] \in Exception /\ outcomes[i] = "marked"

IInv == TypeOK /\ CallInv

\* The invariant holds initially.
LEMMA ClientInit == Init => IInv
<1> SUFFICES ASSUME Init PROVE IInv
  OBVIOUS
<1>1. NoRequest \in Request /\ NoClient \in Client
  BY DEF NoRequest, NoClient, Request, Client, Models, Temperatures, Providers, Unset
<1>2. cache = <<>> /\ outcomes = <<>> /\ Len(cache) = 0 /\ Len(outcomes) = 0
  BY DEF Init
<1>3. cache \in Seq(Entry) /\ outcomes \in Seq(Outcome)
  BY <1>2
<1>4. TypeOK
  BY <1>1, <1>2, <1>3, MaxCachedAssumption, MaxCallsAssumption
     DEF Init, TypeOK, _MAX_LLM_RETRIES
<1>5. CallInv
  BY <1>2 DEF Init, CallInv
<1> QED BY <1>4, <1>5 DEF IInv

\* A call begins with no tries, wherever get_llm leaves it.
LEMMA BeginStep ==
  ASSUME TypeOK, NEW r \in Requests, Idle, Begin(r), pc' \in {"trying", "raised"},
         cache' \in Seq(Entry), Len(cache') <= MaxCached, client' \in Client
  PROVE  IInv'
<1>1. outcomes' = <<>> /\ Len(outcomes') = 0 /\ attempt' = 0 /\ waited' = 0
  BY DEF Begin
<1>2. calls' \in 0..MaxCalls
  BY MaxCallsAssumption DEF TypeOK, Idle, Begin
<1>3. request' \in Request
  BY RequestsAssumption DEF Begin
<1>4. env' = env /\ seen' = seen
  BY DEF Begin
<1>5. outcomes' \in Seq(Outcome)
  BY <1>1
<1>6. TypeOK'
  BY <1>1, <1>2, <1>3, <1>4, <1>5 DEF TypeOK, _MAX_LLM_RETRIES
<1>7. CallInv'
  <2>1. Len(outcomes') = 0 /\ attempt' = 0 /\ pc' \in {"trying", "raised"}
    BY <1>1
  <2> QED BY <2>1 DEF CallInv
<1> QED BY <1>6, <1>7 DEF IInv

\* get_llm keeps the invariant.
LEMMA GetLlmStep ==
  ASSUME TypeOK, GetLlm PROVE IInv'
<1>1. PICK r \in Requests : CacheHit(r) \/ CacheMiss(r) \/ BuildFails(r)
  BY DEF GetLlm
<1>2. CASE CacheHit(r)
  <2>1. PICK i \in Hits(r) : client' = cache[i].client /\ cache' = Touch(cache, i)
    BY <1>2 DEF CacheHit
  <2>2. cache \in Seq(Entry) /\ i \in DOMAIN cache
    BY <2>1 DEF TypeOK, Hits
  <2>3. cache[i] \in Entry
    BY <2>2
  <2>4. client' \in Client
    BY <2>1, <2>3 DEF Entry
  <2>5. cache' \in Seq(Entry) /\ Len(cache') = Len(cache)
    BY <2>1, <2>2, TouchKeepsEntries
  <2>6. Len(cache') <= MaxCached
    BY <2>5 DEF TypeOK
  <2> QED BY <1>2, <2>4, <2>5, <2>6, BeginStep DEF CacheHit
<1>3. CASE CacheMiss(r)
  <2>1. client' \in Client
    BY <1>3, ClientTypes DEF CacheMiss, TypeOK
  <2>2. [request |-> r, client |-> client'] \in Entry
    BY <2>1, RequestsAssumption DEF Entry
  <2>3. cache' \in Seq(Entry) /\ Len(cache') <= MaxCached
    BY <1>3, <2>2, InsertStaysBounded DEF CacheMiss, TypeOK
  <2> QED BY <1>3, <2>1, <2>3, BeginStep DEF CacheMiss
<1>4. CASE BuildFails(r)
  BY <1>4, BeginStep DEF BuildFails, TypeOK
<1> QED BY <1>1, <1>2, <1>3, <1>4

\* What a try adds to the history.
LEMMA TryAdds ==
  ASSUME TypeOK, NEW o \in Outcome, outcomes' = Append(outcomes, o)
  PROVE  /\ outcomes' \in Seq(Outcome) /\ Len(outcomes') = Len(outcomes) + 1
         /\ Len(outcomes) \in Nat
         /\ \A i \in 1..Len(outcomes) : outcomes'[i] = outcomes[i]
         /\ outcomes'[Len(outcomes')] = o
<1>1. outcomes \in Seq(Outcome)
  BY DEF TypeOK
<1> QED BY <1>1, AppendProperties

\* A try keeps the invariant.
LEMMA TryStep ==
  ASSUME IInv, TryAnswers \/ TryRaises PROVE IInv'
<1>0. /\ pc = "trying" /\ UnchangedByTry /\ TypeOK /\ CallInv
      /\ attempt \in 0..3 /\ Len(outcomes) = attempt
  BY DEF IInv, CallInv, TryAnswers, TryRaises
<1>1. CASE TryAnswers
  <2>1. Answered \in Outcome /\ outcomes' = Append(outcomes, Answered) /\ pc' = "returned"
    BY <1>1 DEF TryAnswers, Outcome
  <2>2. /\ outcomes' \in Seq(Outcome) /\ Len(outcomes') = attempt + 1
        /\ \A i \in 1..attempt : outcomes'[i] = outcomes[i]
        /\ outcomes'[Len(outcomes')] = Answered
    BY <1>0, <2>1, TryAdds
  <2>3. TypeOK'
    BY <1>0, <2>1, <2>2 DEF TypeOK, UnchangedByTry
  <2>4. CallInv'
    BY <1>0, <2>1, <2>2 DEF CallInv, UnchangedByTry
  <2> QED BY <2>3, <2>4 DEF IInv
<1>2. CASE TryRaises
  <2>1. PICK exc \in Exception :
          /\ outcomes' = Append(outcomes, exc)
          /\ pc' = IF ~_is_rate_limit(exc) \/ LastIteration THEN "raised" ELSE "sleeping"
    BY <1>2 DEF TryRaises
  <2>2. /\ outcomes' \in Seq(Outcome) /\ Len(outcomes') = attempt + 1
        /\ \A i \in 1..attempt : outcomes'[i] = outcomes[i]
        /\ outcomes'[Len(outcomes')] = exc
    BY <1>0, <2>1, TryAdds DEF Outcome
  <2>3. TypeOK'
    BY <1>0, <2>1, <2>2 DEF TypeOK, UnchangedByTry
  <2>4. attempt' = attempt
    BY <1>0 DEF UnchangedByTry
  <2>5. CASE pc' = "raised"
    <3>1. Len(outcomes') < 4 => exc # "marked"
      BY <1>0, <2>1, <2>2, <2>5 DEF LastIteration, _is_rate_limit, _MAX_LLM_RETRIES
    <3> QED
      <4>1. CallInv'
        BY <1>0, <2>1, <2>2, <2>4, <2>5, <3>1 DEF CallInv
      <4> QED BY <2>3, <4>1 DEF IInv
  <2>6. CASE pc' # "raised"
    <3>1. pc' = "sleeping" /\ exc = "marked" /\ attempt # 3
      BY <2>1, <2>6 DEF LastIteration, _is_rate_limit, _MAX_LLM_RETRIES
    <3> QED
      <4>1. CallInv'
        BY <1>0, <2>1, <2>2, <2>4, <3>1 DEF CallInv
      <4> QED BY <2>3, <4>1 DEF IInv
  <2> QED BY <2>5, <2>6
<1> QED BY <1>1, <1>2

\* The pause keeps the invariant: after it there is a try left.
LEMMA SleepStep ==
  ASSUME IInv, Sleep PROVE IInv'
<1>0. /\ pc = "sleeping" /\ TypeOK /\ CallInv
      /\ attempt \in 0..2 /\ Len(outcomes) = attempt + 1
  BY DEF IInv, CallInv, Sleep
<1>1. /\ attempt' = attempt + 1 /\ pc' = "trying" /\ outcomes' = outcomes
      /\ UNCHANGED <<env, seen, cache, request, client, calls>>
  BY <1>0 DEF Sleep, _MAX_LLM_RETRIES
<1>2. waited' \in Nat
  <2>1. PICK jitter \in Jitter : waited' = waited + Delay[attempt + 1] + jitter
    BY DEF Sleep
  <2>2. Delay[attempt + 1] \in Nat
    BY <1>0 DEF Delay
  <2> QED BY <1>0, <2>1, <2>2 DEF TypeOK, Jitter
<1>3. TypeOK'
  BY <1>0, <1>1, <1>2 DEF TypeOK, _MAX_LLM_RETRIES
<1>4. CallInv'
  BY <1>0, <1>1 DEF CallInv
<1> QED BY <1>3, <1>4 DEF IInv

\* Every step preserves the invariant.
LEMMA ClientNext == IInv /\ [Next]_vars => IInv'
<1> SUFFICES ASSUME IInv, [Next]_vars PROVE IInv'
  OBVIOUS
<1>1. CASE GetLlm
  BY <1>1, GetLlmStep DEF IInv
<1>2. CASE CallWithRetry
  BY <1>2, TryStep, SleepStep DEF CallWithRetry
<1>3. CASE ChangeEnvironment
  <2>1. TypeOK'
    BY <1>3 DEF IInv, TypeOK, ChangeEnvironment
  <2>2. CallInv'
    BY <1>3 DEF IInv, CallInv, ChangeEnvironment
  <2> QED BY <2>1, <2>2 DEF IInv
<1>4. CASE UNCHANGED vars
  <2>1. TypeOK'
    BY <1>4 DEF IInv, TypeOK, vars
  <2>2. CallInv'
    BY <1>4 DEF IInv, CallInv, vars
  <2> QED BY <2>1, <2>2 DEF IInv
<1> QED BY <1>1, <1>2, <1>3, <1>4 DEF Next

\* The invariant holds in every reachable state.
LEMMA ClientInvariant == Spec => []IInv
BY ClientInit, ClientNext, PTL DEF Spec

\* The cache, the call and the counters of the client are well typed, and the
\* cache holds at most MaxCached clients.
THEOREM ClientTypeCorrect == Spec => []TypeOK
<1>1. IInv => TypeOK
  BY DEF IInv
<1> QED BY <1>1, ClientInvariant, PTL

\* call_with_retry never reaches the line behind its loop (llm.py:54).
THEOREM LoopEndIsUnreachable == Spec => []FinalIterationEndsTheCall
<1>1. IInv => FinalIterationEndsTheCall
  BY DEF IInv, CallInv, FinalIterationEndsTheCall
<1> QED BY <1>1, ClientInvariant, PTL

\* Only a failure with the marker of a rate limit is followed by another try, and
\* only such a failure of the fourth try, or another failure, is raised.
THEOREM RetriesAreForRateLimits == Spec => []OnlyRateLimitsAreRetried
<1>1. ASSUME IInv PROVE OnlyRateLimitsAreRetried
  <2>1. outcomes \in Seq(Outcome) /\ CallInv
    BY <1>1 DEF IInv, TypeOK
  <2>2. DOMAIN outcomes = 1..Len(outcomes) /\ Len(outcomes) \in Nat
        /\ (outcomes # <<>> <=> Len(outcomes) >= 1)
    BY <2>1
  <2>3. Last(outcomes) = outcomes[Len(outcomes)]
    BY DEF Last
  <2>4. Answered \notin Exception
    BY DEF Answered, Exception
  <2> QED BY <2>1, <2>2, <2>3, <2>4
          DEF CallInv, OnlyRateLimitsAreRetried, _MAX_LLM_RETRIES
<1> QED BY <1>1, ClientInvariant, PTL

-------------------------------------------------------------------------------
(* The pauses *)

\* What k pauses take.
PauseRange(k) == (2 ^ (k + 1) - 2)..(2 ^ (k + 1) - 2 + k)

\* The inductive invariant is BackoffGrows itself, with CallInv for where a call
\* is when it ends.
PauseInv ==
  /\ waited \in PauseRange(attempt)
  /\ pc \in {"returned", "raised"} /\ outcomes # <<>> => attempt = Len(outcomes) - 1

\* A pause of the loop leads from one range into the next.
LEMMA PauseAdds ==
  ASSUME NEW k \in 0..2, NEW w \in PauseRange(k), NEW jitter \in Jitter
  PROVE  w + Delay[k + 1] + jitter \in PauseRange(k + 1)
<1>1. jitter = 0 \/ jitter = 1
  BY DEF Jitter
<1>2. CASE k = 0
  <2>1. Delay[k + 1] = 2 /\ w = 0
    BY <1>2 DEF Delay, PauseRange
  <2> QED BY <1>1, <1>2, <2>1 DEF PauseRange
<1>3. CASE k = 1
  <2>1. Delay[k + 1] = 4 /\ w \in 2..3
    BY <1>3 DEF Delay, PauseRange
  <2> QED BY <1>1, <1>3, <2>1 DEF PauseRange
<1>4. CASE k = 2
  <2>1. Delay[k + 1] = 8 /\ w \in 6..8
    BY <1>4 DEF Delay, PauseRange
  <2> QED BY <1>1, <1>4, <2>1 DEF PauseRange
<1> QED BY <1>2, <1>3, <1>4

\* No call has begun and none has paused.
LEMMA PauseInit == Init => PauseInv
<1> SUFFICES ASSUME Init PROVE PauseInv
  OBVIOUS
<1>1. waited = 0 /\ attempt = 0 /\ pc = "idle"
  BY DEF Init
<1> QED BY <1>1 DEF PauseInv, PauseRange

\* Every step preserves the invariant of the pauses.
LEMMA PauseNext == IInv /\ PauseInv /\ [Next]_vars => PauseInv'
<1> SUFFICES ASSUME IInv, PauseInv, [Next]_vars PROVE PauseInv'
  OBVIOUS
<1>1. CASE GetLlm
  <2>1. waited' = 0 /\ attempt' = 0 /\ outcomes' = <<>>
    BY <1>1 DEF GetLlm, CacheHit, CacheMiss, BuildFails, Begin
  <2> QED BY <2>1 DEF PauseInv, PauseRange
<1>2. CASE TryAnswers \/ TryRaises
  <2>1. /\ pc = "trying" /\ waited' = waited /\ attempt' = attempt
        /\ \E o \in Outcome : outcomes' = Append(outcomes, o)
    BY <1>2 DEF TryAnswers, TryRaises, UnchangedByTry, Outcome
  <2>2. Len(outcomes') = Len(outcomes) + 1 /\ Len(outcomes) = attempt /\ attempt \in 0..3
    BY <2>1, TryAdds DEF IInv, CallInv
  <2> QED BY <2>1, <2>2 DEF PauseInv
<1>3. CASE Sleep
  <2>1. pc = "sleeping" /\ attempt \in 0..2 /\ attempt' = attempt + 1
    BY <1>3 DEF Sleep, IInv, CallInv
  <2>2. pc' = "trying"
    BY <1>3, <2>1 DEF Sleep, _MAX_LLM_RETRIES
  <2>3. PICK jitter \in Jitter : waited' = waited + Delay[attempt + 1] + jitter
    BY <1>3 DEF Sleep
  <2>4. waited' \in PauseRange(attempt + 1)
    BY <2>1, <2>3, PauseAdds DEF PauseInv
  <2> QED BY <2>1, <2>2, <2>4 DEF PauseInv
<1>4. CASE ChangeEnvironment
  BY <1>4 DEF ChangeEnvironment, PauseInv
<1>5. CASE UNCHANGED vars
  BY <1>5 DEF vars, PauseInv
<1> QED BY <1>1, <1>2, <1>3, <1>4, <1>5 DEF Next, CallWithRetry

\* The pauses of a call are those of the doubling delay and a jitter of at most a
\* second each, between its tries and not after the last one (call_with_retry).
THEOREM PausesGrow == Spec => []BackoffGrows
<1>1. Spec => []PauseInv
  BY PauseInit, PauseNext, ClientInvariant, PTL DEF Spec
<1>2. PauseInv => BackoffGrows
  BY DEF PauseInv, PauseRange, BackoffGrows, Pauses
<1> QED BY <1>1, <1>2, PTL

-------------------------------------------------------------------------------
(* The client a request is given *)

\* c is what the environment e builds for the request r.
Fits(c, r, e) == Buildable(e) /\ c = _build_llm(r, e)

\* The entries some environment of the process has built.
BuiltEntries == {entry \in Entry : \E e \in seen : Fits(entry.client, entry.request, e)}

\* The inductive invariant: every entry was built for its key.
CacheInv ==
  /\ env \in seen
  /\ cache \in Seq(BuiltEntries)
  /\ InCall => \E e \in seen : Fits(client, request, e)

\* The environments of the past stay in the history.
LEMMA BuiltStaysBuilt ==
  ASSUME seen \subseteq seen', cache \in Seq(BuiltEntries)
  PROVE  cache \in Seq(BuiltEntries')
<1>1. BuiltEntries \subseteq BuiltEntries'
  BY DEF BuiltEntries
<1> QED BY <1>1

\* The invariant of the cache holds initially.
LEMMA CacheInit == Init => CacheInv
<1> SUFFICES ASSUME Init PROVE CacheInv
  OBVIOUS
<1>1. cache = <<>> /\ pc = "idle" /\ seen = {env}
  BY DEF Init
<1> QED BY <1>1 DEF CacheInv, InCall

\* get_llm returns a client that fits, from the cache or newly built.
LEMMA CacheGetLlm ==
  ASSUME TypeOK, CacheInv, GetLlm PROVE CacheInv'
<1>1. PICK r \in Requests : CacheHit(r) \/ CacheMiss(r) \/ BuildFails(r)
  BY DEF GetLlm
<1>2. seen' = seen /\ env' = env /\ request' = r
  BY <1>1 DEF CacheHit, CacheMiss, BuildFails, Begin
<1>3. BuiltEntries' = BuiltEntries
  BY <1>2 DEF BuiltEntries
<1>4. CASE CacheHit(r)
  <2>1. PICK i \in Hits(r) : client' = cache[i].client /\ cache' = Touch(cache, i)
    BY <1>4 DEF CacheHit
  <2>2. cache \in Seq(BuiltEntries) /\ i \in DOMAIN cache /\ cache[i].request = r
    BY <2>1 DEF CacheInv, Hits, SameKey
  <2>3. cache[i] \in BuiltEntries
    BY <2>2
  <2>4. \E e \in seen : Fits(client', r, e)
    BY <2>1, <2>2, <2>3 DEF BuiltEntries
  <2>5. cache' \in Seq(BuiltEntries)
    BY <2>1, <2>2, TouchKeepsEntries
  <2> QED BY <1>2, <1>3, <2>4, <2>5 DEF CacheInv
<1>5. CASE CacheMiss(r)
  <2>1. Buildable(env) /\ client' = _build_llm(r, env)
        /\ cache' = Insert(cache, [request |-> r, client |-> client'])
    BY <1>5 DEF CacheMiss
  <2>2. Fits(client', r, env) /\ env \in seen
    BY <2>1 DEF Fits, CacheInv
  <2>3. [request |-> r, client |-> client'] \in Entry
    BY <2>1, ClientTypes DEF Entry, TypeOK
  <2>4. [request |-> r, client |-> client'] \in BuiltEntries
    BY <2>2, <2>3 DEF BuiltEntries
  <2>5. cache' \in Seq(BuiltEntries)
    BY <2>1, <2>4, InsertStaysBounded DEF CacheInv, TypeOK
  <2> QED BY <1>2, <1>3, <2>2, <2>5 DEF CacheInv
<1>6. CASE BuildFails(r)
  <2>1. cache' = cache /\ pc' = "raised"
    BY <1>6 DEF BuildFails
  <2> QED BY <1>2, <1>3, <2>1 DEF CacheInv, InCall
<1> QED BY <1>1, <1>4, <1>5, <1>6

\* Every step preserves the invariant of the cache.
LEMMA CacheNext == TypeOK /\ CacheInv /\ [Next]_vars => CacheInv'
<1> SUFFICES ASSUME TypeOK, CacheInv, [Next]_vars PROVE CacheInv'
  OBVIOUS
<1>1. CASE GetLlm
  BY <1>1, CacheGetLlm
<1>2. CASE CallWithRetry
  <2>1. /\ UNCHANGED <<env, seen, cache, client, request>>
        /\ InCall
    BY <1>2 DEF CallWithRetry, TryAnswers, TryRaises, Sleep, UnchangedByTry, InCall
  <2>2. BuiltEntries' = BuiltEntries
    BY <2>1 DEF BuiltEntries
  <2> QED BY <2>1, <2>2 DEF CacheInv
<1>3. CASE ChangeEnvironment
  <2>1. /\ seen' = seen \cup {env'}
        /\ UNCHANGED <<cache, client, request, pc>>
    BY <1>3 DEF ChangeEnvironment
  <2>2. cache \in Seq(BuiltEntries')
    BY <2>1, BuiltStaysBuilt DEF CacheInv
  <2>3. InCall' => \E e \in seen' : Fits(client', request', e)
    BY <2>1 DEF CacheInv, InCall
  <2> QED BY <2>1, <2>2, <2>3 DEF CacheInv
<1>4. CASE UNCHANGED vars
  <2>1. /\ UNCHANGED <<env, seen, cache, client, request, pc>>
    BY <1>4 DEF vars
  <2>2. BuiltEntries' = BuiltEntries
    BY <2>1 DEF BuiltEntries
  <2> QED BY <2>1, <2>2 DEF CacheInv, InCall
<1> QED BY <1>1, <1>2, <1>3, <1>4 DEF Next

\* A node calls a model through a client that some environment of the process
\* builds for just the arguments of the node, cached or not.
THEOREM CachedClientsFit == Spec => []ClientFitsItsRequest
<1>1. Spec => []CacheInv
  BY CacheInit, CacheNext, ClientTypeCorrect, PTL DEF Spec
<1>2. CacheInv => ClientFitsItsRequest
  BY DEF CacheInv, ClientFitsItsRequest, Fits
<1> QED BY <1>1, <1>2, PTL

-------------------------------------------------------------------------------
(* The abstract call *)

\* A client that has not been asked is an abstract call that has not begun.
LEMMA CallInit == Init => Call!Init
<1> SUFFICES ASSUME Init PROVE Call!Init
  OBVIOUS
<1>1. pc = "idle" /\ outcomes = <<>> /\ Len(outcomes) = 0
  BY DEF Init
<1> QED BY <1>1 DEF Call!Init

\* get_llm begins an abstract call.
LEMMA GetLlmAsks == ASSUME GetLlm PROVE Call!Ask
<1>1. /\ pc \in {"idle", "returned", "raised"} /\ pc' \in {"trying", "raised"}
      /\ outcomes' = <<>>
  BY DEF GetLlm, CacheHit, CacheMiss, BuildFails, Begin, Idle
<1>2. Len(outcomes') = 0
  BY <1>1
<1> QED BY <1>1, <1>2 DEF Call!Ask

\* The last try of a call under way is one more than the tries before it, and
\* those, if any, give hope.
LEMMA TryIsAllowed ==
  ASSUME IInv, pc = "trying", NEW o \in Outcome, outcomes' = Append(outcomes, o)
  PROVE  /\ Len(outcomes) \in 0..3 /\ Len(outcomes') = Len(outcomes) + 1
         /\ Call!MayTry
         /\ outcomes' # <<>> /\ Last(outcomes') = o
<1>1. TypeOK /\ CallInv /\ Len(outcomes) \in 0..3 /\ outcomes \in Seq(Outcome)
  BY DEF IInv, CallInv, TypeOK
<1>2. /\ outcomes' \in Seq(Outcome) /\ Len(outcomes') = Len(outcomes) + 1
      /\ outcomes'[Len(outcomes')] = o
  BY <1>1, TryAdds
<1>3. outcomes' # <<>>
  BY <1>1, <1>2
<1>4. Last(outcomes') = o
  BY <1>2 DEF Last
<1>5. Len(outcomes) > 0 => outcomes # <<>> /\ Last(outcomes) = "marked"
  <2>1. Len(outcomes) > 0 => outcomes[Len(outcomes)] = "marked"
    BY <1>1 DEF CallInv
  <2> QED BY <1>1, <2>1 DEF Last
<1>6. Call!MayTry
  BY <1>1, <1>5 DEF Call!MayTry, Call!MaxTries
<1> QED BY <1>1, <1>2, <1>3, <1>4, <1>6

\* A try is a step of the abstract call.
LEMMA TryProgresses ==
  ASSUME IInv, TryAnswers \/ TryRaises PROVE Call!Progress
<1>0. pc = "trying"
  BY DEF TryAnswers, TryRaises
<1>1. CASE TryAnswers
  <2>1. outcomes' = Append(outcomes, Answered) /\ pc' = "returned" /\ Answered \in Outcome
    BY <1>1 DEF TryAnswers, Outcome
  <2>2. Len(outcomes') = Len(outcomes) + 1 /\ Call!MayTry /\ Last(outcomes') = Answered
    BY <1>0, <2>1, TryIsAllowed
  <2>3. Last(outcomes') # "marked"
    BY <2>2 DEF Answered
  <2> QED BY <2>1, <2>2, <2>3 DEF Call!Progress, Call!Answer
<1>2. CASE TryRaises
  <2>1. PICK exc \in Exception :
          /\ outcomes' = Append(outcomes, exc)
          /\ pc' = IF ~_is_rate_limit(exc) \/ LastIteration THEN "raised" ELSE "sleeping"
    BY <1>2 DEF TryRaises
  <2>2. /\ Len(outcomes) \in 0..3 /\ Len(outcomes') = Len(outcomes) + 1 /\ Call!MayTry
        /\ outcomes' # <<>> /\ Last(outcomes') = exc
    BY <1>0, <2>1, TryIsAllowed DEF Outcome
  <2>3. attempt = Len(outcomes) /\ attempt \in 0..3 /\ (exc = "marked") \in BOOLEAN
    BY <1>0 DEF IInv, CallInv, Exception
  <2>4. CASE pc' = "raised"
    <3>1. exc # "marked" \/ Len(outcomes') = 4
      BY <2>1, <2>2, <2>3, <2>4 DEF LastIteration, _is_rate_limit, _MAX_LLM_RETRIES
    <3>2. (outcomes' # <<>> /\ Last(outcomes') = "marked") \in {FALSE, Len(outcomes') = 4}
      BY <2>2, <2>3, <3>1
    <3>3. Call!GiveUp
      BY <2>2, <2>4, <3>2 DEF Call!GiveUp, Call!MaxTries
    <3> QED BY <3>3 DEF Call!Progress
  <2>5. CASE pc' # "raised"
    <3>1. pc' = "sleeping" /\ exc = "marked" /\ Len(outcomes) # 3
      BY <2>1, <2>3, <2>5 DEF LastIteration, _is_rate_limit, _MAX_LLM_RETRIES
    <3>2. (outcomes' # <<>> /\ Last(outcomes') = "marked") = TRUE
      BY <2>2, <2>3, <3>1
    <3>3. Len(outcomes) + 1 < 4
      BY <2>3, <3>1
    <3>4. Call!FailForNow
      BY <1>0, <2>2, <3>1, <3>2, <3>3, Zenon DEF Call!FailForNow, Call!MaxTries
    <3> QED BY <3>4 DEF Call!Progress
  <2> QED BY <2>4, <2>5
<1> QED BY <1>1, <1>2

\* Every step of the client is a step of the abstract call or a stutter.
LEMMA CallNext == IInv /\ [Next]_vars => [Call!Next]_(Call!vars)
<1> SUFFICES ASSUME IInv, [Next]_vars PROVE [Call!Next]_(Call!vars)
  OBVIOUS
<1>1. CASE GetLlm
  BY <1>1, GetLlmAsks DEF Call!Next
<1>2. CASE TryAnswers \/ TryRaises
  BY <1>2, TryProgresses DEF Call!Next
<1>3. CASE Sleep
  <2>1. pc = "sleeping" /\ pc' \in {"trying", "behind_the_loop"} /\ outcomes' = outcomes
    BY <1>3 DEF Sleep
  <2> QED BY <2>1 DEF Call!vars
<1>4. CASE ChangeEnvironment \/ UNCHANGED vars
  <2>1. pc' = pc /\ outcomes' = outcomes
    BY <1>4 DEF ChangeEnvironment, vars
  <2> QED BY <2>1 DEF Call!vars
<1> QED BY <1>1, <1>2, <1>3, <1>4 DEF Next, CallWithRetry

\* What a node sees of a model is what ModelCall allows: at most four tries, each
\* but the first after a failure that may pass, then an answer or an exception.
THEOREM ClientImplementsCall == Spec => Call!Spec
BY CallInit, CallNext, ClientInvariant, PTL DEF Spec, Call!Spec

===============================================================================
