--------------------------- MODULE RouterDispatch ---------------------------
(***************************************************************************)
(* The LLM router of studio-router: Router::dispatch_ctx walks the         *)
(* preferred provider:model list, and RouterHandle::try_provider answers   *)
(* one entry from the on-disk cache or calls the provider with retries,    *)
(* writing token-ledger lines as it goes.                                  *)
(*                                                                         *)
(* Several dispatches run concurrently over one Router.  A step is the     *)
(* code between two awaits at which another dispatch, a failure or the     *)
(* caller's disconnect can be observed.  Time is counted in ticks of the   *)
(* retry budget; the jitter and the duration of a call are arbitrary       *)
(* within their ranges.                                                    *)
(***************************************************************************)
EXTENDS Integers, Sequences

CONSTANTS
    Dispatch,      \* the dispatches (one future of dispatch_ctx each)
    Provider,      \* provider keys, [providers.<key>] in studio.toml
    Model,         \* model ids
    Body,          \* the rest of a CompletionRequest: params and messages
    Answer,        \* completions a provider may return
    Absent,        \* no file under a cache key
    Garbled,       \* a cache file that does not parse
    Configs,       \* the [router] sections Init chooses from
    CallTicks,     \* how long one provider call may take
    ErrorKinds,    \* the LlmError variants providers return in this instance
    MaxAttempts,   \* RetryPolicy.max_attempts
    MaxTotal,      \* RetryPolicy.max_total_ms, in ticks
    BaseDelay,     \* RetryPolicy.base_delay_ms, in ticks
    RetryAfter,    \* the Retry-After values of a 429 (0: header absent)
    IoFaults       \* whether cache and ledger I/O may fail

\* The LlmError variants, by how dispatch treats them: "server" and "stream"
\* are transient like "transport", "provider" is permanent like "auth", and no
\* code constructs "cancelled".
AllErrorKinds ==
    {"transport", "rateLimit", "auth", "badRequest", "decode"}

Entry == [provider : Provider, model : Model]
Request == [model : Model, body : Body]
Key == Provider \X Request

ASSUME DispatchAssumption ==
    /\ Absent \notin Answer /\ Garbled \notin Answer /\ Absent # Garbled
    /\ Configs \subseteq [strategy : {"quality", "latency"},
                          preferred : Seq(Entry)]
    /\ CallTicks \subseteq Nat
    /\ RetryAfter \subseteq Nat
    /\ ErrorKinds \subseteq AllErrorKinds
    /\ MaxAttempts \in Nat \ {0}
    /\ MaxTotal \in Nat
    /\ BaseDelay \in Nat
    /\ IoFaults \in BOOLEAN

VARIABLES
    config,    \* the validated [router] section; never changes
    request,   \* the caller's CompletionRequest, one per dispatch
    pc,        \* where each dispatch stands
    order,     \* the walk order_preferred returned: position -> slot
    at,        \* the position being tried
    try,       \* try_provider's locals: attempt counter, ticks since
               \* total_start, ticks of the last call and what it returned
    errors,    \* dispatch_ordered's errors vector
    cache,     \* the cache directory: key -> answer, Absent or Garbled
    latency,   \* the EWMA tracker, -1 where an entry was never observed
    ledger,    \* per dispatch and position, its ledger lines in order
    calls,     \* history: provider calls issued, per dispatch and position
    given      \* history: <<entry, body, answer>> a provider returned

locals == <<pc, at, try, errors>>
history == <<calls, given>>
vars == <<config, request, order, locals, cache, latency, ledger, history>>

-----------------------------------------------------------------------------
(* Helpers *)

Terminal == {"ok", "allFailed", "noProvider", "cancelled"}
Recording == {"recordHit", "recordOk", "recordErr"}
PC == {"idle", "lookup", "waiting", "put", "backoff"}
        \union Recording \union Terminal

Preferred == config.preferred
Slots == DOMAIN Preferred

\* LlmError::is_transient
IsTransient(e) == e \in {"transport", "rateLimit"}

\* The entry dispatch d is trying.
Current(d) == Preferred[order[d][at[d]]]

\* Mutant: the key is computed before the model is replaced.
CacheKeyOfCaller(pm, r) == <<pm.provider, r>>

\* CacheKey::compute over the request whose model try_provider replaced by
\* the preferred entry's.
CacheKey(pm, r) == <<pm.provider, [r EXCEPT !.model = pm.model]>>

CurrentKey(d) == CacheKey(Current(d), request[d])

\* An unobserved entry sorts as f64::INFINITY; ties keep their order (sort_by
\* is stable).
Faster(i, j) ==
    LET x == latency[Preferred[i]]
        y == latency[Preferred[j]]
    IN  x # -1 /\ (y = -1 \/ x < y)
SortsBefore(i, j) == Faster(i, j) \/ (~Faster(j, i) /\ i < j)

\* Router::order_preferred: exactly one walk satisfies this.
WalkOrders ==
    IF config.strategy = "latency"
    THEN {w \in [Slots -> Slots] :
            \A a, b \in Slots : a < b => SortsBefore(w[a], w[b])}
    ELSE {[i \in Slots |-> i]}

\* LatencyTracker::observe: the first sample is taken as it is, a later one
\* moves the average part of the way.
Observed(old, sample) ==
    IF old = -1 THEN {sample} ELSE (old .. sample) \union (sample .. old)

\* RetryPolicy::next_delay_ms: Retry-After overrides, otherwise full jitter
\* over base * 2^(attempt - 1).
Delays(n, e) ==
    LET jitter == 0 .. (BaseDelay * 2^(n - 1))
    IN  IF e = "rateLimit"
        THEN (RetryAfter \ {0})
               \union (IF 0 \in RetryAfter THEN jitter ELSE {})
        ELSE jitter

Lesser(x, y) == IF x <= y THEN x ELSE y

NoTry == [attempt |-> 0, spent |-> 0, took |-> 0, result |-> Absent]
FirstTry == [attempt |-> 1, spent |-> 0, took |-> 0, result |-> Absent]

\* Ledger::append of one line for the entry being tried.
WriteLine(d, hit, n, result) ==
    LET line == [cacheHit |-> hit, attempt |-> n, result |-> result]
    IN  ledger' = [ledger EXCEPT ![d][at[d]] = Append(@, line)]

\* The line a dispatch in a Recording state is appending.
PendingLine(d) ==
    \/ pc[d] = "recordHit" /\ WriteLine(d, TRUE, 1, "ok")
    \/ pc[d] = "recordOk" /\ WriteLine(d, FALSE, try[d].attempt, "ok")
    \/ pc[d] = "recordErr" /\ WriteLine(d, FALSE, try[d].attempt, try[d].result)

\* provider.complete() is polled: the request leaves for the provider.
IssueCall(d) ==
    /\ calls' = [calls EXCEPT ![d][at[d]] = @ + 1]
    /\ pc' = [pc EXCEPT ![d] = "waiting"]

\* The dispatch future ends, by returning or by being dropped.
End(d, how) ==
    /\ pc' = [pc EXCEPT ![d] = how]
    /\ try' = [try EXCEPT ![d] = NoTry]
    /\ UNCHANGED at

\* try_provider returned Err(e): dispatch_ordered pushes it and goes on to
\* the next entry of the walk, whatever the error is.
FallThrough(d, e) ==
    /\ errors' = [errors EXCEPT ![d] = Append(@, e)]
    /\ \/ /\ at[d] < Len(Preferred)
          /\ at' = [at EXCEPT ![d] = @ + 1]
          /\ pc' = [pc EXCEPT ![d] = "lookup"]
          /\ try' = [try EXCEPT ![d] = NoTry]
       \/ /\ at[d] >= Len(Preferred)
          /\ End(d, "allFailed")

-----------------------------------------------------------------------------
(* Actions *)

\* dispatch_ctx with an empty preferred list.
RejectNoProvider(d) ==
    /\ pc[d] = "idle"
    /\ Preferred = <<>>
    /\ End(d, "noProvider")
    /\ UNCHANGED <<config, request, order, errors, cache, latency, ledger,
                   history>>

\* dispatch_ctx up to the first cache lookup.
Start(d) ==
    /\ pc[d] = "idle"
    /\ Preferred # <<>>
    /\ \E w \in WalkOrders : order' = [order EXCEPT ![d] = w]
    /\ pc' = [pc EXCEPT ![d] = "lookup"]
    /\ UNCHANGED <<config, request, at, try, errors, cache, latency, ledger,
                   history>>

\* Cache::get found a parsable file.
CacheHit(d) ==
    /\ pc[d] = "lookup"
    /\ cache[CurrentKey(d)] \in Answer
    /\ try' = [try EXCEPT ![d].result = cache[CurrentKey(d)]]
    /\ pc' = [pc EXCEPT ![d] = "recordHit"]
    /\ UNCHANGED <<config, request, order, at, errors, cache, latency, ledger,
                   history>>

\* Cache::get returned None: the first attempt starts at once.
CacheMiss(d) ==
    /\ pc[d] = "lookup"
    /\ cache[CurrentKey(d)] = Absent
    /\ try' = [try EXCEPT ![d] = FirstTry]
    /\ IssueCall(d)
    /\ UNCHANGED <<config, request, order, at, errors, cache, latency, ledger,
                   given>>

\* Mutant: a file that does not parse is waited for instead of given up.
CacheUnreadableWaits(d) ==
    /\ pc[d] = "lookup"
    /\ cache[CurrentKey(d)] # Garbled /\ IoFaults
    /\ FallThrough(d, "decode")
    /\ UNCHANGED <<config, request, order, cache, latency, ledger, history>>

\* Cache::get failed: the file does not parse, or an I/O error.
CacheUnreadable(d) ==
    /\ pc[d] = "lookup"
    /\ cache[CurrentKey(d)] = Garbled \/ IoFaults
    /\ FallThrough(d, "decode")
    /\ UNCHANGED <<config, request, order, cache, latency, ledger, history>>

\* The ledger line of a cache hit, and the answer goes to the caller.
RecordHit(d) ==
    /\ pc[d] = "recordHit"
    /\ PendingLine(d)
    /\ End(d, "ok")
    /\ UNCHANGED <<config, request, order, errors, cache, latency, history>>

\* complete() returned Ok(a) after t ticks.
ProviderAnswers(d, a, t) ==
    /\ pc[d] = "waiting"
    /\ try' = [try EXCEPT ![d].result = a, ![d].took = t, ![d].spent = @ + t]
    /\ given' = given \union {<<Current(d), request[d].body, a>>}
    /\ pc' = [pc EXCEPT ![d] = "put"]
    /\ UNCHANGED <<config, request, order, at, errors, cache, latency, ledger,
                   calls>>

\* Mutant: a failure is cached like an answer.
ProviderFailsCached(d, e, t) ==
    /\ pc[d] = "waiting"
    /\ try' = [try EXCEPT ![d].result = e, ![d].took = t, ![d].spent = @ + t]
    /\ pc' = [pc EXCEPT ![d] = "put"]
    /\ UNCHANGED <<config, request, order, at, errors, cache, latency, ledger,
                   history>>

\* complete() returned Err(e) after t ticks.
ProviderFails(d, e, t) ==
    /\ pc[d] = "waiting"
    /\ try' = [try EXCEPT ![d].result = e, ![d].took = t, ![d].spent = @ + t]
    /\ pc' = [pc EXCEPT ![d] = "recordErr"]
    /\ UNCHANGED <<config, request, order, at, errors, cache, latency, ledger,
                   history>>

\* Cache::put succeeded, and the latency tracker took the call's duration.
\* (The tracker's lock is never held across an await, so no step separates
\* the two.)
StoreAnswer(d) ==
    /\ pc[d] = "put"
    /\ cache' = [cache EXCEPT ![CurrentKey(d)] = try[d].result]
    /\ \E v \in Observed(latency[Current(d)], try[d].took) :
         latency' = [latency EXCEPT ![Current(d)] = v]
    /\ pc' = [pc EXCEPT ![d] = "recordOk"]
    /\ UNCHANGED <<config, request, order, at, try, errors, ledger, history>>

\* Cache::put failed: the answer is dropped and no line is written.
StoreFails(d) ==
    /\ pc[d] = "put"
    /\ IoFaults
    /\ FallThrough(d, "decode")
    /\ UNCHANGED <<config, request, order, cache, latency, ledger, history>>

\* The ledger line of a live answer, and the answer goes to the caller.
RecordOk(d) ==
    /\ pc[d] = "recordOk"
    /\ PendingLine(d)
    /\ End(d, "ok")
    /\ UNCHANGED <<config, request, order, errors, cache, latency, history>>

\* Mutant: only the retry budget ends an entry's try.
GivesUpOnBudget(d) ==
    try[d].attempt >= MaxAttempts \/ try[d].spent >= MaxTotal

\* Whether try_provider gives the entry up after a failed attempt.
GivesUp(d) ==
    \/ ~IsTransient(try[d].result)
    \/ try[d].attempt >= MaxAttempts
    \/ try[d].spent >= MaxTotal

\* The ledger line of a failed attempt that is not retried.
RecordLastError(d) ==
    /\ pc[d] = "recordErr"
    /\ GivesUp(d)
    /\ PendingLine(d)
    /\ FallThrough(d, try[d].result)
    /\ UNCHANGED <<config, request, order, cache, latency, history>>

\* The ledger line of a failed attempt that is retried after the sleep.
RecordRetriedError(d) ==
    /\ pc[d] = "recordErr"
    /\ ~GivesUp(d)
    /\ PendingLine(d)
    /\ pc' = [pc EXCEPT ![d] = "backoff"]
    /\ UNCHANGED <<config, request, order, at, try, errors, cache, latency,
                   history>>

\* Mutant: a ledger failure is logged, and the retry goes on.
RecordFailsIgnored(d) ==
    /\ pc[d] = "recordErr"
    /\ IoFaults
    /\ ~GivesUp(d)
    /\ pc' = [pc EXCEPT ![d] = "backoff"]
    /\ UNCHANGED <<config, request, order, at, try, errors, cache, latency,
                   ledger, history>>

\* Mutant: a ledger failure after a live answer is logged, and the caller
\* gets the answer.
RecordFailsDelivered(d) ==
    /\ pc[d] = "recordOk"
    /\ IoFaults
    /\ End(d, "ok")
    /\ UNCHANGED <<config, request, order, errors, cache, latency, ledger,
                   history>>

\* Ledger::append failed: the entry's try ends with a decode error.
RecordFails(d) ==
    /\ pc[d] \in Recording
    /\ IoFaults
    /\ FallThrough(d, "decode")
    /\ UNCHANGED <<config, request, order, cache, latency, ledger, history>>

\* Mutant: the sleep is not cut to what is left of the budget.
RetryUncut(d) ==
    /\ pc[d] = "backoff"
    /\ \E delay \in Delays(try[d].attempt, try[d].result) :
         try' = [try EXCEPT ![d].spent = @ + delay, ![d].attempt = @ + 1]
    /\ IssueCall(d)
    /\ UNCHANGED <<config, request, order, at, errors, cache, latency, ledger,
                   given>>

\* The sleep before a retry, cut to what is left of the total budget, and
\* the next attempt's call.
Retry(d) ==
    /\ pc[d] = "backoff"
    /\ \E delay \in Delays(try[d].attempt, try[d].result) :
         try' = [try EXCEPT ![d].spent = @ + Lesser(delay, MaxTotal - @),
                            ![d].attempt = @ + 1]
    /\ IssueCall(d)
    /\ UNCHANGED <<config, request, order, at, errors, cache, latency, ledger,
                   given>>

\* The SSE client disconnects: axum drops the stream, and with it the
\* dispatch future at the await it has reached.
Cancel(d) ==
    /\ pc[d] \notin Terminal \union {"idle"}
    /\ End(d, "cancelled")
    /\ UNCHANGED <<config, request, order, errors, cache, latency, ledger,
                   history>>

\* A rename that tokio::fs already handed to its blocking pool outlives the
\* future: the answer is cached, but neither observed nor recorded.
CancelDuringPut(d) ==
    /\ pc[d] = "put"
    /\ End(d, "cancelled")
    /\ cache' = [cache EXCEPT ![CurrentKey(d)] = try[d].result]
    /\ UNCHANGED <<config, request, order, errors, latency, ledger, history>>

\* So does a write to the ledger: the line is there, but nobody is answered.
CancelDuringRecord(d) ==
    /\ pc[d] \in Recording
    /\ PendingLine(d)
    /\ End(d, "cancelled")
    /\ UNCHANGED <<config, request, order, errors, cache, latency, history>>

\* Every dispatch has ended.
AllEnded ==
    /\ \A d \in Dispatch : pc[d] \in Terminal
    /\ UNCHANGED vars

-----------------------------------------------------------------------------

Init ==
    /\ config \in Configs
    /\ request \in [Dispatch -> Request]
    /\ pc = [d \in Dispatch |-> "idle"]
    /\ order = [d \in Dispatch |-> [k \in Slots |-> k]]
    /\ at = [d \in Dispatch |-> 1]
    /\ try = [d \in Dispatch |-> NoTry]
    /\ errors = [d \in Dispatch |-> <<>>]
    /\ cache \in [Key -> {Absent, Garbled}]
    /\ latency = [pm \in Entry |-> -1]
    /\ ledger = [d \in Dispatch |-> [k \in Slots |-> <<>>]]
    /\ calls = [d \in Dispatch |-> [k \in Slots |-> 0]]
    /\ given = {}

\* The steps a dispatch's own task takes once it has started.
Work(d) ==
    \/ CacheHit(d) \/ CacheMiss(d) \/ CacheUnreadable(d)
    \/ RecordHit(d)
    \/ \E a \in Answer, t \in CallTicks : ProviderAnswers(d, a, t)
    \/ \E e \in ErrorKinds, t \in CallTicks : ProviderFails(d, e, t)
    \/ StoreAnswer(d) \/ StoreFails(d)
    \/ RecordOk(d) \/ RecordLastError(d) \/ RecordRetriedError(d)
    \/ RecordFails(d)
    \/ Retry(d)

Next ==
    \/ \E d \in Dispatch :
         \/ RejectNoProvider(d) \/ Start(d) \/ Work(d)
         \/ Cancel(d) \/ CancelDuringPut(d) \/ CancelDuringRecord(d)
    \/ AllEnded

Spec == Init /\ [][Next]_vars

\* A started dispatch keeps running: file operations return, and both provider
\* adapters build their HTTP client with a two-minute timeout.
FairSpec == Spec /\ \A d \in Dispatch : WF_vars(Work(d))

-----------------------------------------------------------------------------
(* Properties *)

Results == Answer \union AllErrorKinds \union {Absent}
TryRecord == [attempt : Nat, spent : Nat, took : Nat, result : Results]
LedgerLine == [cacheHit : BOOLEAN, attempt : Nat,
               result : AllErrorKinds \union {"ok"}]

\* The shape of the state.
TypeOK ==
    /\ config \in Configs
    /\ request \in [Dispatch -> Request]
    /\ pc \in [Dispatch -> PC]
    /\ order \in [Dispatch -> [Slots -> Slots]]
    /\ at \in [Dispatch -> Nat]
    /\ try \in [Dispatch -> TryRecord]
    /\ errors \in [Dispatch -> Seq(AllErrorKinds)]
    /\ cache \in [Key -> Answer \union {Absent, Garbled}]
    /\ latency \in [Entry -> Nat \union {-1}]
    /\ ledger \in [Dispatch -> [Slots -> Seq(LedgerLine)]]
    /\ calls \in [Dispatch -> [Slots -> Nat]]
    /\ given \subseteq (Entry \X Body \X Answer)

\* A ledger that loses a line loses only the last one of an entry's try: the
\* live lines a dispatch wrote at a position carry the attempt numbers
\* 1, 2, ..., and at most one call issued there has no line.  This is what
\* `?` on cache.put and ledger.append in try_provider gives: an I/O failure
\* ends the try, so no later attempt is recorded over a hole.
LedgerMissesOnlyLastCall ==
    \A d \in Dispatch, k \in Slots :
        LET lines == ledger[d][k]
        IN  /\ \A i \in DOMAIN lines : lines[i].attempt = i
            /\ \/ calls[d][k] = 0 /\ Len(lines) <= 1
               \/ Len(lines) \in {calls[d][k] - 1, calls[d][k]}

\* Only a transient failure is followed by another line of the same dispatch
\* and entry: a permanent error, an answer or a cache hit is never retried.
OnlyTransientIsRetried ==
    \A d \in Dispatch, k \in Slots : \A i \in DOMAIN ledger[d][k] :
        i < Len(ledger[d][k]) =>
            ~ledger[d][k][i].cacheHit /\ IsTransient(ledger[d][k][i].result)

\* The ledger counts the answers callers received: whoever got one has an "ok"
\* line, the last of the position the answer came from, and an "ok" line is
\* never written before that answer is cached and the walk is over.  Only a
\* caller that left while the line was being appended has one and no answer.
OkLineIffAnswered ==
    \A d \in Dispatch :
        /\ pc[d] = "ok" =>
             LET lines == ledger[d][at[d]]
             IN  lines # <<>> /\ lines[Len(lines)].result = "ok"
        /\ \A k \in Slots : \A i \in DOMAIN ledger[d][k] :
             ledger[d][k][i].result = "ok" =>
                 /\ pc[d] \in {"ok", "cancelled"}
                 /\ k = at[d]
                 /\ i = Len(ledger[d][k])

\* Attempts stay within the retry policy: a call is only in flight at an
\* attempt number within max_attempts and was started no later than
\* max_total_ms after the first, because the sleep is cut to the remainder.
AttemptsWithinPolicy ==
    \A d \in Dispatch : pc[d] = "waiting" =>
        /\ try[d].attempt \in 1 .. MaxAttempts
        /\ try[d].spent <= MaxTotal
        /\ try[d].attempt = calls[d][at[d]]

\* A cached answer is served only to a request the same provider and model
\* answered before, although requests arrive naming another model and several
\* entries share a provider.
CacheServesOwnAnswers ==
    \A d \in Dispatch : pc[d] \in {"recordHit", "put", "recordOk"} =>
        <<Current(d), request[d].body, try[d].result>> \in given

\* Every started dispatch returns, fails or is dropped: neither a provider that
\* keeps failing transiently nor a Retry-After longer than the budget holds a
\* caller for ever.
EveryDispatchEnds ==
    \A d \in Dispatch : pc[d] # "idle" ~> pc[d] \in Terminal
=============================================================================
