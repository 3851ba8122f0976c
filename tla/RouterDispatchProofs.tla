------------------------ MODULE RouterDispatchProofs ------------------------
(***************************************************************************)
(* Type correctness of RouterDispatch, and the ledger and retry-policy     *)
(* invariants, for every number of dispatches, every preferred list and    *)
(* every retry policy.                                                     *)
(***************************************************************************)
EXTENDS RouterDispatch, TLAPS

-----------------------------------------------------------------------------
(* The inductive invariant *)

Active == {"lookup", "waiting", "put", "backoff"} \union Recording
InFlight == {"waiting", "put", "recordOk", "recordErr"}

Retryable(line) == ~line.cacheHit /\ IsTransient(line.result)

Numbered(lines) == \A i \in DOMAIN lines : lines[i].attempt = i

RetriedBeforeLast(lines) ==
    \A i \in DOMAIN lines : i < Len(lines) => Retryable(lines[i])

AllRetryable(lines) == \A i \in DOMAIN lines : Retryable(lines[i])

NoneOk(lines) == \A i \in DOMAIN lines : lines[i].result # "ok"

OnlyLastOk(lines) ==
    \A i \in DOMAIN lines : lines[i].result = "ok" <=> i = Len(lines)

Accounted(d, k) ==
    \/ calls[d][k] = 0 /\ Len(ledger[d][k]) <= 1
    \/ Len(ledger[d][k]) \in {calls[d][k] - 1, calls[d][k]}

\* Nothing happened at position k.
Fresh(d, k) == calls[d][k] = 0 /\ ledger[d][k] = <<>>

\* Every line of position k was followed by a retry.
Retrying(d, k) ==
    /\ Numbered(ledger[d][k])
    /\ AllRetryable(ledger[d][k])

\* The try at position k is over and answered nobody.
Closed(d, k) ==
    /\ Numbered(ledger[d][k])
    /\ RetriedBeforeLast(ledger[d][k])
    /\ Accounted(d, k)
    /\ NoneOk(ledger[d][k])

\* The try at position k delivered an answer, whose line is the last.
Delivered(d, k) ==
    /\ Len(ledger[d][k]) > 0
    /\ Numbered(ledger[d][k])
    /\ RetriedBeforeLast(ledger[d][k])
    /\ Accounted(d, k)
    /\ OnlyLastOk(ledger[d][k])

\* The position dispatch d is trying, by where the dispatch stands.
CurrentInv(d) ==
    LET k == at[d]
    IN  /\ pc[d] \in {"idle", "lookup", "recordHit"} => Fresh(d, k)
        /\ pc[d] \in InFlight =>
             /\ Retrying(d, k)
             /\ calls[d][k] = try[d].attempt
             /\ Len(ledger[d][k]) = try[d].attempt - 1
             /\ try[d].attempt \in 1 .. MaxAttempts
        /\ pc[d] = "waiting" => try[d].spent <= MaxTotal
        /\ pc[d] = "recordErr" => try[d].result \in AllErrorKinds
        /\ pc[d] = "put" => try[d].result \in Answer
        /\ pc[d] = "backoff" =>
             /\ Retrying(d, k)
             /\ calls[d][k] = try[d].attempt
             /\ Len(ledger[d][k]) = try[d].attempt
             /\ try[d].attempt \in 1 .. (MaxAttempts - 1)
             /\ try[d].spent < MaxTotal
        /\ pc[d] \in {"allFailed", "noProvider"} => Closed(d, k)
        /\ pc[d] = "cancelled" => Closed(d, k) \/ Delivered(d, k)
        /\ pc[d] = "ok" => Delivered(d, k)

WalkInv(d) ==
    /\ at[d] >= 1
    /\ pc[d] = "idle" => at[d] = 1
    /\ pc[d] \in Active \union {"ok"} => at[d] \in Slots
    /\ \A k \in Slots : k < at[d] => Closed(d, k)
    /\ \A k \in Slots : k > at[d] => Fresh(d, k)
    /\ at[d] \in Slots => CurrentInv(d)

IInv == TypeOK /\ \A d \in Dispatch : WalkInv(d)

-----------------------------------------------------------------------------
(* Facts about the operators *)

LEMMA ConfigFacts ==
    ASSUME TypeOK
    PROVE  /\ Preferred \in Seq(Entry)
           /\ Len(Preferred) \in Nat
           /\ Slots = 1 .. Len(Preferred)
BY DispatchAssumption DEF TypeOK, Preferred, Slots

LEMMA CurrentFacts ==
    ASSUME TypeOK, NEW d \in Dispatch, at[d] \in Slots
    PROVE  /\ Current(d) \in Entry
           /\ CurrentKey(d) \in Key
<1>1. order[d][at[d]] \in Slots
  BY DEF TypeOK
<1>2. Current(d) \in Entry
  BY <1>1, ConfigFacts DEF Current
<1>3. request[d] \in Request
  BY DEF TypeOK
<1>4. QED
  BY <1>2, <1>3 DEF CurrentKey, CacheKey, Key, Entry, Request

LEMMA TryFacts ==
    ASSUME TypeOK, NEW d \in Dispatch
    PROVE  /\ try \in [Dispatch -> TryRecord] /\ try[d] \in TryRecord
           /\ try[d].attempt \in Nat /\ try[d].spent \in Nat
           /\ try[d].took \in Nat
BY DEF TypeOK, TryRecord

LEMMA WaitIsNat ==
    ASSUME NEW n, NEW e, NEW delay \in Delays(n, e)
    PROVE  delay \in Nat
BY DispatchAssumption DEF Delays

LEMMA NoTryFacts ==
    /\ NoTry \in TryRecord
    /\ FirstTry \in TryRecord
    /\ FirstTry.attempt = 1 /\ FirstTry.spent = 0
BY DEF NoTry, FirstTry, Results, TryRecord

-----------------------------------------------------------------------------
(* Initial states *)

LEMMA InitIInv == Init => IInv
<1> SUFFICES ASSUME Init PROVE IInv
  OBVIOUS
<1>1. TypeOK
  <2>1. config \in Configs /\ Preferred \in Seq(Entry)
    BY DispatchAssumption DEF Init, Preferred
  <2>2. Slots = 1 .. Len(Preferred) /\ Len(Preferred) \in Nat
    BY <2>1 DEF Slots
  <2>3. errors \in [Dispatch -> Seq(AllErrorKinds)]
    BY DEF Init
  <2>4. ledger \in [Dispatch -> [Slots -> Seq(LedgerLine)]]
    BY DEF Init
  <2> QED
    BY <2>1, <2>2, <2>3, <2>4, NoTryFacts DEF Init, TypeOK, PC
<1>2. ASSUME NEW d \in Dispatch PROVE WalkInv(d)
  <2>1. Slots = 1 .. Len(Preferred) /\ Len(Preferred) \in Nat
    BY <1>1, ConfigFacts
  <2>2. at[d] = 1 /\ pc[d] = "idle"
    BY DEF Init
  <2>3. \A k \in Slots : Fresh(d, k)
    BY DEF Init, Fresh
  <2> QED
    BY <2>1, <2>2, <2>3
       DEF WalkInv, CurrentInv, Active, Recording, InFlight
<1> QED
  BY <1>1, <1>2 DEF IInv

-----------------------------------------------------------------------------
(* What one position of a walk keeps *)

LEMMA PositionFrame ==
    ASSUME NEW d, NEW k,
           ledger'[d][k] = ledger[d][k], calls'[d][k] = calls[d][k]
    PROVE  /\ Fresh(d, k) => Fresh(d, k)'
           /\ Closed(d, k) => Closed(d, k)'
           /\ Delivered(d, k) => Delivered(d, k)'
           /\ Retrying(d, k) => Retrying(d, k)'
BY DEF Fresh, Closed, Delivered, Retrying, Accounted

LEMMA FreshIsClosed ==
    ASSUME NEW d, NEW k, Fresh(d, k)
    PROVE  Closed(d, k) /\ Retrying(d, k) /\ Len(ledger[d][k]) = 0
BY DEF Fresh, Closed, Retrying, Numbered, RetriedBeforeLast, AllRetryable,
       NoneOk, Accounted

\* A try that stops before its next line leaves a closed position.
LEMMA RetryingIsClosed ==
    ASSUME NEW d, NEW k, Retrying(d, k), Accounted(d, k)
    PROVE  Closed(d, k)
BY DEF Retrying, Closed, RetriedBeforeLast, AllRetryable, NoneOk, Retryable,
       IsTransient

\* One more line at the end of a run of retried ones.
LEMMA AppendedLine ==
    ASSUME NEW lines \in Seq(LedgerLine), NEW line \in LedgerLine,
           Numbered(lines), AllRetryable(lines),
           line.attempt = Len(lines) + 1,
           NEW more, more = Append(lines, line)
    PROVE  /\ more \in Seq(LedgerLine)
           /\ Len(more) = Len(lines) + 1
           /\ Numbered(more)
           /\ RetriedBeforeLast(more)
           /\ Retryable(line) => AllRetryable(more)
           /\ line.result # "ok" => NoneOk(more)
           /\ line.result = "ok" => OnlyLastOk(more)
<1>1. /\ more \in Seq(LedgerLine)
      /\ Len(more) = Len(lines) + 1
      /\ Len(lines) \in Nat
      /\ DOMAIN lines = 1 .. Len(lines)
      /\ DOMAIN more = 1 .. (Len(lines) + 1)
  OBVIOUS
<1>2. \A i \in DOMAIN lines : more[i] = lines[i]
  OBVIOUS
<1>3. more[Len(lines) + 1] = line
  OBVIOUS
<1>4. \A i \in DOMAIN more : i \in DOMAIN lines \/ i = Len(lines) + 1
  BY <1>1
<1>5. NoneOk(lines)
  BY DEF AllRetryable, NoneOk, Retryable, IsTransient
<1>6. Numbered(more)
  BY <1>1, <1>2, <1>3, <1>4 DEF Numbered
<1>7. RetriedBeforeLast(more)
  BY <1>1, <1>2, <1>4 DEF RetriedBeforeLast, AllRetryable
<1>8. Retryable(line) => AllRetryable(more)
  BY <1>2, <1>3, <1>4 DEF AllRetryable
<1>9. line.result # "ok" => NoneOk(more)
  BY <1>2, <1>3, <1>4, <1>5 DEF NoneOk
<1>10. line.result = "ok" => OnlyLastOk(more)
  BY <1>1, <1>2, <1>3, <1>4, <1>5 DEF NoneOk, OnlyLastOk
<1> QED
  BY <1>1, <1>6, <1>7, <1>8, <1>9, <1>10

\* Wherever an active dispatch stands, dropping it leaves its position closed.
LEMMA ActiveIsClosed ==
    ASSUME IInv, NEW d \in Dispatch, pc[d] \in Active
    PROVE  at[d] \in Slots /\ Closed(d, at[d])
<1>1. at[d] \in Slots /\ CurrentInv(d)
  BY DEF IInv, WalkInv
<1>2. CASE pc[d] \in {"lookup", "recordHit"}
  BY <1>1, <1>2, FreshIsClosed DEF CurrentInv
<1>3. CASE pc[d] \in InFlight
  <2>1. Retrying(d, at[d]) /\ Accounted(d, at[d])
    BY <1>1, <1>3 DEF CurrentInv, Accounted
  <2> QED
    BY <1>1, <2>1, RetryingIsClosed
<1>4. CASE pc[d] = "backoff"
  <2>1. Retrying(d, at[d]) /\ Accounted(d, at[d])
    BY <1>1, <1>4 DEF CurrentInv, Accounted
  <2> QED
    BY <1>1, <2>1, RetryingIsClosed
<1> QED
  BY <1>2, <1>3, <1>4 DEF Active, InFlight, Recording

-----------------------------------------------------------------------------
(* What one dispatch's step keeps *)

LEMMA CurrentFrame ==
    ASSUME NEW e, pc'[e] = pc[e], at'[e] = at[e], try'[e] = try[e],
           ledger'[e] = ledger[e], calls'[e] = calls[e], CurrentInv(e)
    PROVE  CurrentInv(e)'
<1>1. \A k : /\ Fresh(e, k) <=> Fresh(e, k)'
             /\ Closed(e, k) <=> Closed(e, k)'
             /\ Delivered(e, k) <=> Delivered(e, k)'
             /\ Retrying(e, k) <=> Retrying(e, k)'
  BY DEF Fresh, Closed, Delivered, Retrying, Accounted
<1> DEFINE k == at[e]
<1>2. /\ Fresh(e, k) => (Fresh(e, at[e]))'
      /\ Closed(e, k) => (Closed(e, at[e]))'
      /\ Delivered(e, k) => (Delivered(e, at[e]))'
      /\ Retrying(e, k) => (Retrying(e, at[e]))'
  BY <1>1 DEF Fresh, Closed, Delivered, Retrying, Accounted
<1> QED
  BY <1>2 DEF CurrentInv

\* Dispatches other than d, and d's positions other than the current one, are
\* as they were.
Elsewhere(d) ==
    /\ config' = config
    /\ \A e \in Dispatch \ {d} :
         /\ pc'[e] = pc[e] /\ at'[e] = at[e] /\ try'[e] = try[e]
         /\ ledger'[e] = ledger[e] /\ calls'[e] = calls[e]
    /\ \A k \in Slots : k # at[d] =>
         ledger'[d][k] = ledger[d][k] /\ calls'[d][k] = calls[d][k]

LEMMA OthersKeep ==
    ASSUME IInv, TypeOK', NEW d \in Dispatch, Elsewhere(d), WalkInv(d)'
    PROVE  IInv'
<1>1. ASSUME NEW e \in Dispatch, e # d PROVE WalkInv(e)'
  <2>1. WalkInv(e)
    BY DEF IInv
  <2>2. /\ config' = config
        /\ pc'[e] = pc[e] /\ at'[e] = at[e] /\ try'[e] = try[e]
        /\ ledger'[e] = ledger[e] /\ calls'[e] = calls[e]
    BY <1>1 DEF Elsewhere
  <2>3. Slots' = Slots
    BY <2>2 DEF Slots, Preferred
  <2>4. \A k \in Slots : /\ Fresh(e, k) => Fresh(e, k)'
                         /\ Closed(e, k) => Closed(e, k)'
    BY <2>2, PositionFrame
  <2>5. at[e] \in Slots => CurrentInv(e)'
    BY <2>1, <2>2, CurrentFrame DEF WalkInv
  <2> QED
    BY <2>1, <2>2, <2>3, <2>4, <2>5 DEF WalkInv
<1> QED
  BY <1>1 DEF IInv

\* A step that stays at its position only has to re-establish CurrentInv.
LEMMA StayInv ==
    ASSUME IInv, NEW d \in Dispatch, Elsewhere(d),
           at'[d] = at[d], at[d] \in Slots, pc'[d] # "idle",
           CurrentInv(d)'
    PROVE  WalkInv(d)'
<1>1. WalkInv(d)
  BY DEF IInv
<1>2. Slots' = Slots /\ Slots = 1 .. Len(Preferred) /\ Len(Preferred) \in Nat
  BY ConfigFacts DEF IInv, Elsewhere, Slots, Preferred
<1>3. \A k \in Slots : k # at[d] => /\ Fresh(d, k) => Fresh(d, k)'
                                    /\ Closed(d, k) => Closed(d, k)'
  BY PositionFrame DEF Elsewhere
<1> QED
  BY <1>1, <1>2, <1>3 DEF WalkInv

\* Falling through is safe once the position being left is closed.
LEMMA FallThroughInv ==
    ASSUME IInv, NEW d \in Dispatch, NEW e, Elsewhere(d), FallThrough(d, e),
           NEW p \in Slots, at[d] = p, Closed(d, p)'
    PROVE  WalkInv(d)'
<1>1. WalkInv(d)
  BY DEF IInv
<1>2. Slots' = Slots /\ Slots = 1 .. Len(Preferred) /\ Len(Preferred) \in Nat
  BY ConfigFacts DEF IInv, Elsewhere, Slots, Preferred
<1>3. \A k \in Slots : k # at[d] => /\ Fresh(d, k) => Fresh(d, k)'
                                    /\ Closed(d, k) => Closed(d, k)'
  BY PositionFrame DEF Elsewhere
<1>4. CASE at[d] < Len(Preferred) /\ at'[d] = at[d] + 1 /\ pc'[d] = "lookup"
  <2>1. at'[d] \in Slots /\ at'[d] # at[d]
    BY <1>2, <1>4
  <2>2. Fresh(d, at[d])'
    <3>1. PICK n \in Slots : n = at'[d]
      BY <2>1
    <3>2. Fresh(d, n)'
      BY <1>1, <1>2, <1>3, <1>4, <3>1 DEF WalkInv
    <3> QED
      BY <3>1, <3>2 DEF Fresh
  <2>3. CurrentInv(d)'
    BY <1>4, <2>2 DEF CurrentInv, InFlight
  <2>4. ASSUME NEW k \in Slots, k < at'[d] PROVE Closed(d, k)'
    <3>1. CASE k = p
      BY <3>1
    <3>2. CASE k # p
      BY <1>1, <1>2, <1>3, <1>4, <2>4, <3>2 DEF WalkInv
    <3> QED
      BY <3>1, <3>2
  <2>5. ASSUME NEW k \in Slots, k > at'[d] PROVE Fresh(d, k)'
    BY <1>1, <1>2, <1>3, <1>4, <2>5 DEF WalkInv
  <2> QED
    BY <1>2, <1>4, <2>1, <2>3, <2>4, <2>5 DEF WalkInv
<1>5. CASE at'[d] = at[d] /\ pc'[d] = "allFailed"
  <2>1. CurrentInv(d)'
    BY <1>5 DEF CurrentInv, InFlight
  <2> QED
    BY <1>5, <2>1, StayInv
<1>6. /\ pc \in [Dispatch -> PC] /\ at \in [Dispatch -> Nat]
  BY DEF IInv, TypeOK
<1> QED
  BY <1>4, <1>5, <1>6 DEF FallThrough, End

-----------------------------------------------------------------------------
(* Steps.  Each lemma is one action: the types, then the walk of the          *)
(* dispatch that took it.                                                     *)

\* The types FallThrough assigns.
LEMMA FallThroughType ==
    ASSUME IInv, NEW d \in Dispatch, NEW e \in AllErrorKinds,
           FallThrough(d, e)
    PROVE  /\ pc' \in [Dispatch -> PC]
           /\ at' \in [Dispatch -> Nat]
           /\ try' \in [Dispatch -> TryRecord]
           /\ errors' \in [Dispatch -> Seq(AllErrorKinds)]
<1> USE NoTryFacts DEF IInv, TypeOK
<1>1. errors' \in [Dispatch -> Seq(AllErrorKinds)]
  <2>1. Append(errors[d], e) \in Seq(AllErrorKinds)
    OBVIOUS
  <2> QED
    BY <2>1 DEF FallThrough
<1>2. at' \in [Dispatch -> Nat]
  <2>1. at[d] + 1 \in Nat
    OBVIOUS
  <2>2. at' = [at EXCEPT ![d] = at[d] + 1] \/ at' = at
    BY DEF FallThrough, End
  <2> QED
    BY <2>1, <2>2
<1>3. pc' \in [Dispatch -> PC]
  BY DEF FallThrough, End, PC, Terminal
<1>4. try' = [try EXCEPT ![d] = NoTry]
  BY DEF FallThrough, End
<1>5. try' \in [Dispatch -> TryRecord]
  BY <1>4
<1> QED
  BY <1>1, <1>2, <1>3, <1>5

LEMMA RejectNoProviderStep ==
    ASSUME IInv, NEW d \in Dispatch, RejectNoProvider(d)
    PROVE  IInv'
<1>1. TypeOK'
  BY NoTryFacts
     DEF IInv, TypeOK, RejectNoProvider, End, PC, Terminal, history, Slots,
         Preferred
<1>2. Elsewhere(d) /\ pc'[d] = "noProvider" /\ at' = at /\ Slots' = {}
  BY DEF IInv, TypeOK, RejectNoProvider, End, Elsewhere, history, Slots,
         Preferred
<1>3. WalkInv(d)'
  BY <1>2 DEF IInv, WalkInv, Active, Recording
<1> QED
  BY <1>1, <1>2, <1>3, OthersKeep

LEMMA StartStep ==
    ASSUME IInv, NEW d \in Dispatch, Start(d)
    PROVE  IInv'
<1>1. Slots = 1 .. Len(Preferred) /\ Len(Preferred) \in Nat
  BY ConfigFacts DEF IInv
<1>2. WalkOrders \subseteq [Slots -> Slots]
  BY DEF WalkOrders
<1>3. TypeOK'
  <2>1. order' \in [Dispatch -> [Slots -> Slots]]
    BY <1>2 DEF IInv, TypeOK, Start
  <2> QED
    BY <2>1 DEF IInv, TypeOK, Start, PC, history, Slots, Preferred
<1>4. Elsewhere(d) /\ pc'[d] = "lookup" /\ at' = at
  BY DEF IInv, TypeOK, Start, Elsewhere, history
<1>5. at[d] \in Slots
  <2>1. at[d] = 1 /\ Len(Preferred) > 0
    BY <1>1, ConfigFacts DEF IInv, WalkInv, Start
  <2> QED
    BY <1>1, <2>1
<1>6. Fresh(d, at[d])'
  BY <1>5 DEF IInv, WalkInv, CurrentInv, Start, Fresh, history
<1>7. CurrentInv(d)'
  BY <1>4, <1>6 DEF CurrentInv, InFlight
<1>8. WalkInv(d)'
  BY <1>4, <1>5, <1>7, StayInv
<1> QED
  BY <1>3, <1>4, <1>8, OthersKeep

LEMMA CacheHitStep ==
    ASSUME IInv, NEW d \in Dispatch, CacheHit(d)
    PROVE  IInv'
<1>1. at[d] \in Slots /\ CurrentInv(d)
  BY DEF IInv, WalkInv, CacheHit, Active
<1>2. TypeOK'
  <2>1. [try[d] EXCEPT !.result = cache[CurrentKey(d)]] \in TryRecord
    BY TryFacts DEF IInv, CacheHit, TryRecord, Results
  <2>2. try' \in [Dispatch -> TryRecord]
    BY <2>1, TryFacts DEF IInv, CacheHit
  <2> QED
    BY <2>2 DEF IInv, TypeOK, CacheHit, PC, Recording, history, Slots,
                Preferred
<1>3. Elsewhere(d) /\ pc'[d] = "recordHit" /\ at' = at
  BY DEF IInv, TypeOK, CacheHit, Elsewhere, history
<1>4. CurrentInv(d)'
  BY <1>1, <1>3 DEF CurrentInv, InFlight, Fresh, CacheHit, history
<1> QED
  BY <1>1, <1>2, <1>3, <1>4, StayInv, OthersKeep

LEMMA CacheMissStep ==
    ASSUME IInv, NEW d \in Dispatch, CacheMiss(d)
    PROVE  IInv'
<1>1. at[d] \in Slots /\ CurrentInv(d) /\ Fresh(d, at[d])
  BY DEF IInv, WalkInv, CurrentInv, CacheMiss, Active
<1>2. TypeOK'
  <2>1. calls' \in [Dispatch -> [Slots -> Nat]]
    <3>1. calls[d] \in [Slots -> Nat] /\ calls[d][at[d]] + 1 \in Nat
      BY <1>1 DEF IInv, TypeOK
    <3>2. [calls[d] EXCEPT ![at[d]] = @ + 1] \in [Slots -> Nat]
      BY <3>1
    <3> QED
      BY <3>2 DEF IInv, TypeOK, CacheMiss, IssueCall
  <2>2. try' \in [Dispatch -> TryRecord]
    BY NoTryFacts DEF IInv, TypeOK, CacheMiss
  <2> QED
    BY <2>1, <2>2
       DEF IInv, TypeOK, CacheMiss, IssueCall, PC, Slots, Preferred
<1>3. Elsewhere(d) /\ pc'[d] = "waiting" /\ at' = at
  BY DEF IInv, TypeOK, CacheMiss, IssueCall, Elsewhere
<1>4. /\ calls'[d][at[d]] = 1
      /\ ledger' = ledger
      /\ try'[d] = FirstTry
  BY <1>1 DEF IInv, TypeOK, CacheMiss, IssueCall, Fresh
<1>5. CurrentInv(d)'
  BY <1>1, <1>3, <1>4, NoTryFacts, DispatchAssumption, FreshIsClosed
     DEF CurrentInv, InFlight, Retrying
<1> QED
  BY <1>1, <1>2, <1>3, <1>5, StayInv, OthersKeep

\* A step that ends or drops the try at a position it writes nothing to.
LEMMA LoseTryStep ==
    ASSUME IInv, NEW d \in Dispatch, pc[d] \in Active,
           FallThrough(d, "decode"),
           UNCHANGED <<config, request, order, cache, latency, ledger,
                       history>>
    PROVE  IInv'
<1>1. PICK p \in Slots : at[d] = p /\ Closed(d, p)
  BY ActiveIsClosed
<1>2. TypeOK'
  BY FallThroughType DEF IInv, TypeOK, AllErrorKinds, history, Slots, Preferred
<1>3. Elsewhere(d)
  BY DEF IInv, TypeOK, FallThrough, End, Elsewhere, history
<1>4. Closed(d, p)'
  BY <1>1, PositionFrame DEF history
<1> QED
  BY <1>1, <1>2, <1>3, <1>4, FallThroughInv, OthersKeep

LEMMA CancelStep ==
    ASSUME IInv, NEW d \in Dispatch, Cancel(d)
    PROVE  IInv'
<1>1. pc[d] \in Active
  BY DEF IInv, TypeOK, PC, Active, Cancel
<1>2. at[d] \in Slots /\ Closed(d, at[d])
  BY <1>1, ActiveIsClosed
<1>3. TypeOK'
  BY NoTryFacts
     DEF IInv, TypeOK, Cancel, End, PC, Terminal, history, Slots, Preferred
<1>4. Elsewhere(d) /\ pc'[d] = "cancelled" /\ at' = at
  BY DEF IInv, TypeOK, Cancel, End, Elsewhere, history
<1>5. CurrentInv(d)'
  BY <1>2, <1>4
     DEF CurrentInv, InFlight, Cancel, Closed, Accounted, history
<1> QED
  BY <1>2, <1>3, <1>4, <1>5, StayInv, OthersKeep

\* try_provider's locals after a call that took t ticks and returned r.
LEMMA CallReturned ==
    ASSUME TypeOK, NEW d \in Dispatch, NEW r \in Results, NEW t \in Nat,
           try' = [try EXCEPT ![d].result = r, ![d].took = t,
                              ![d].spent = @ + t]
    PROVE  /\ try' \in [Dispatch -> TryRecord]
           /\ try'[d].result = r /\ try'[d].attempt = try[d].attempt
           /\ \A e \in Dispatch \ {d} : try'[e] = try[e]
<1> DEFINE now == [try[d] EXCEPT !.result = r, !.took = t, !.spent = @ + t]
<1>1. /\ try \in [Dispatch -> TryRecord] /\ try[d] \in TryRecord
      /\ try[d].spent + t \in Nat
  BY TryFacts
<1>2. now \in TryRecord /\ now.result = r /\ now.attempt = try[d].attempt
  BY <1>1 DEF TryRecord
<1>3. try' = [try EXCEPT ![d] = now]
  BY <1>1
<1> HIDE DEF now
<1>4. try' \in [Dispatch -> TryRecord]
  BY <1>1, <1>2, <1>3
<1>5. try'[d] = now
  BY <1>1, <1>3
<1>6. \A e \in Dispatch \ {d} : try'[e] = try[e]
  BY <1>1, <1>3
<1> QED
  BY <1>2, <1>4, <1>5, <1>6

LEMMA ProviderAnswersStep ==
    ASSUME IInv, NEW d \in Dispatch, NEW a \in Answer, NEW t \in CallTicks,
           ProviderAnswers(d, a, t)
    PROVE  IInv'
<1>1. at[d] \in Slots /\ CurrentInv(d) /\ t \in Nat
  BY DispatchAssumption DEF IInv, WalkInv, ProviderAnswers, Active
<1>2. /\ try' \in [Dispatch -> TryRecord]
      /\ try'[d].result = a /\ try'[d].attempt = try[d].attempt
      /\ \A o \in Dispatch \ {d} : try'[o] = try[o]
  BY <1>1, CallReturned DEF IInv, ProviderAnswers, Results
<1>3. TypeOK'
  <2>1. <<Current(d), request[d].body, a>> \in Entry \X Body \X Answer
    BY <1>1, CurrentFacts DEF IInv, TypeOK, Request
  <2> QED
    BY <1>2, <2>1
       DEF IInv, TypeOK, ProviderAnswers, PC, Slots, Preferred
<1>4. Elsewhere(d) /\ pc'[d] = "put" /\ at' = at
  BY <1>2 DEF IInv, TypeOK, ProviderAnswers, Elsewhere
<1>5. CurrentInv(d)'
  BY <1>1, <1>2, <1>4
     DEF CurrentInv, InFlight, Retrying, ProviderAnswers
<1> QED
  BY <1>1, <1>3, <1>4, <1>5, StayInv, OthersKeep

LEMMA ProviderFailsStep ==
    ASSUME IInv, NEW d \in Dispatch, NEW e \in ErrorKinds,
           NEW t \in CallTicks, ProviderFails(d, e, t)
    PROVE  IInv'
<1>1. /\ at[d] \in Slots /\ CurrentInv(d)
      /\ t \in Nat /\ e \in AllErrorKinds
  BY DispatchAssumption DEF IInv, WalkInv, ProviderFails, Active
<1>2. /\ try' \in [Dispatch -> TryRecord]
      /\ try'[d].result = e /\ try'[d].attempt = try[d].attempt
      /\ \A o \in Dispatch \ {d} : try'[o] = try[o]
  BY <1>1, CallReturned DEF IInv, ProviderFails, Results
<1>3. TypeOK'
  BY <1>2
     DEF IInv, TypeOK, ProviderFails, PC, Recording, history, Slots, Preferred
<1>4. Elsewhere(d) /\ pc'[d] = "recordErr" /\ at' = at
  BY <1>2 DEF IInv, TypeOK, ProviderFails, Elsewhere, history
<1>5. CurrentInv(d)'
  BY <1>1, <1>2, <1>4
     DEF CurrentInv, InFlight, Retrying, ProviderFails, history
<1> QED
  BY <1>1, <1>3, <1>4, <1>5, StayInv, OthersKeep

LEMMA StoreAnswerStep ==
    ASSUME IInv, NEW d \in Dispatch, StoreAnswer(d)
    PROVE  IInv'
<1>1. at[d] \in Slots /\ CurrentInv(d) /\ try[d].result \in Answer
  BY DEF IInv, WalkInv, CurrentInv, StoreAnswer, Active
<1>2. TypeOK'
  <2>1. latency[Current(d)] \in Nat \union {-1} /\ try[d].took \in Nat
    BY <1>1, CurrentFacts, TryFacts DEF IInv, TypeOK
  <2>2. Observed(latency[Current(d)], try[d].took) \subseteq Nat
    BY <2>1 DEF Observed
  <2>3. latency' \in [Entry -> Nat \union {-1}]
    BY <2>2 DEF IInv, TypeOK, StoreAnswer
  <2>4. cache' \in [Key -> Answer \union {Absent, Garbled}]
    BY <1>1 DEF IInv, TypeOK, StoreAnswer
  <2> QED
    BY <2>3, <2>4
       DEF IInv, TypeOK, StoreAnswer, PC, Recording, history, Slots,
           Preferred
<1>3. Elsewhere(d) /\ pc'[d] = "recordOk" /\ at' = at
  BY DEF IInv, TypeOK, StoreAnswer, Elsewhere, history
<1>4. CurrentInv(d)'
  BY <1>1, <1>3 DEF CurrentInv, InFlight, Retrying, StoreAnswer, history
<1> QED
  BY <1>1, <1>2, <1>3, <1>4, StayInv, OthersKeep

LEMMA RetryStep ==
    ASSUME IInv, NEW d \in Dispatch, Retry(d)
    PROVE  IInv'
<1>1. at[d] \in Slots /\ CurrentInv(d)
  BY DEF IInv, WalkInv, Retry, Active
<1>2. PICK delay \in Delays(try[d].attempt, try[d].result) :
        try' = [try EXCEPT
                  ![d].spent = @ + Lesser(delay, MaxTotal - @),
                  ![d].attempt = @ + 1]
  BY DEF Retry
<1>3. /\ try[d].attempt \in Nat /\ try[d].spent \in Nat
      /\ try[d].attempt <= MaxAttempts - 1 /\ try[d].spent < MaxTotal
      /\ MaxAttempts \in Nat /\ MaxTotal \in Nat /\ delay \in Nat
  BY <1>1, TryFacts, WaitIsNat, DispatchAssumption
     DEF IInv, CurrentInv, Retry
<1>4. /\ try'[d].attempt = try[d].attempt + 1
      /\ try'[d].spent = try[d].spent + Lesser(delay, MaxTotal - try[d].spent)
  BY <1>2 DEF IInv, TypeOK
<1>5. /\ try'[d].attempt \in 1 .. MaxAttempts
      /\ try'[d].spent \in Nat /\ try'[d].spent <= MaxTotal
  BY <1>3, <1>4 DEF Lesser
<1>6. TypeOK'
  <2>1. calls[d] \in [Slots -> Nat] /\ calls[d][at[d]] + 1 \in Nat
    BY <1>1 DEF IInv, TypeOK
  <2>2. [calls[d] EXCEPT ![at[d]] = @ + 1] \in [Slots -> Nat]
    BY <2>1
  <2>3. calls' \in [Dispatch -> [Slots -> Nat]]
    BY <2>2 DEF IInv, TypeOK, Retry, IssueCall
  <2>4. try' \in [Dispatch -> TryRecord]
    <3>1. /\ try[d].attempt + 1 \in Nat
          /\ try[d].spent + Lesser(delay, MaxTotal - try[d].spent) \in Nat
      BY <1>3, <1>4, <1>5
    <3>2. [try[d] EXCEPT
             !.spent = @ + Lesser(delay, MaxTotal - @),
             !.attempt = @ + 1] \in TryRecord
      BY <3>1, TryFacts DEF IInv, TryRecord
    <3>3. try' = [try EXCEPT ![d] =
                    [try[d] EXCEPT
                       !.spent = @ + Lesser(delay, MaxTotal - @),
                       !.attempt = @ + 1]]
      BY <1>2, TryFacts DEF IInv
    <3> QED
      BY <3>2, <3>3, TryFacts DEF IInv
  <2> QED
    BY <2>3, <2>4
       DEF IInv, TypeOK, Retry, IssueCall, PC, Slots, Preferred
<1>7. /\ Elsewhere(d) /\ pc'[d] = "waiting" /\ at' = at /\ ledger' = ledger
      /\ calls'[d][at[d]] = calls[d][at[d]] + 1
  BY <1>1, <1>2 DEF IInv, TypeOK, Retry, IssueCall, Elsewhere
<1>8. CurrentInv(d)'
  <2>1. /\ Retrying(d, at[d])
        /\ calls[d][at[d]] = try[d].attempt
        /\ Len(ledger[d][at[d]]) = try[d].attempt
    BY <1>1 DEF CurrentInv, Retry
  <2>2. Retrying(d, at[d])'
    BY <1>7, <2>1 DEF Retrying
  <2>3. /\ calls'[d][at'[d]] = try'[d].attempt
        /\ Len(ledger'[d][at'[d]]) = try'[d].attempt - 1
    BY <1>3, <1>4, <1>7, <2>1
  <2> QED
    BY <1>5, <1>7, <2>2, <2>3 DEF CurrentInv
<1> QED
  BY <1>1, <1>6, <1>7, <1>8, StayInv, OthersKeep

-----------------------------------------------------------------------------
(* Steps that write a ledger line *)

LEMMA WriteLineFacts ==
    ASSUME IInv, NEW d \in Dispatch, NEW p \in Slots, at[d] = p,
           NEW hit \in BOOLEAN, NEW n \in Nat,
           NEW r \in AllErrorKinds \union {"ok"},
           WriteLine(d, hit, n, r)
    PROVE  /\ ledger' \in [Dispatch -> [Slots -> Seq(LedgerLine)]]
           /\ ledger'[d][p] =
                Append(ledger[d][p],
                       [cacheHit |-> hit, attempt |-> n, result |-> r])
           /\ ledger[d][p] \in Seq(LedgerLine)
           /\ [cacheHit |-> hit, attempt |-> n, result |-> r] \in LedgerLine
           /\ \A k \in Slots : k # p => ledger'[d][k] = ledger[d][k]
           /\ \A e \in Dispatch \ {d} : ledger'[e] = ledger[e]
<1> DEFINE line == [cacheHit |-> hit, attempt |-> n, result |-> r]
<1>1. ledger \in [Dispatch -> [Slots -> Seq(LedgerLine)]]
  BY DEF IInv, TypeOK
<1>2. line \in LedgerLine
  BY DEF LedgerLine
<1>3. ledger' = [ledger EXCEPT ![d][p] = Append(@, line)]
  BY DEF WriteLine
<1>4. Append(ledger[d][p], line) \in Seq(LedgerLine)
  BY <1>1, <1>2
<1>5. [ledger[d] EXCEPT ![p] = Append(@, line)] \in [Slots -> Seq(LedgerLine)]
  BY <1>1, <1>4
<1>6. ledger'[d] = [ledger[d] EXCEPT ![p] = Append(@, line)]
  BY <1>1, <1>3
<1>7. ledger' \in [Dispatch -> [Slots -> Seq(LedgerLine)]]
  BY <1>1, <1>3, <1>5
<1> HIDE DEF line
<1>8. /\ ledger'[d][p] = Append(ledger[d][p], line)
      /\ \A k \in Slots : k # p => ledger'[d][k] = ledger[d][k]
  BY <1>1, <1>6
<1>9. \A e \in Dispatch \ {d} : ledger'[e] = ledger[e]
  BY <1>1, <1>3
<1> QED
  BY <1>1, <1>2, <1>7, <1>8, <1>9 DEF line

\* The line of the current attempt after a run of retried ones.
LEMMA NextLineFacts ==
    ASSUME IInv, NEW d \in Dispatch, NEW p \in Slots, at[d] = p,
           pc[d] \in {"recordOk", "recordErr"},
           NEW r \in AllErrorKinds \union {"ok"},
           WriteLine(d, FALSE, try[d].attempt, r), calls' = calls
    PROVE  /\ Numbered(ledger[d][p])'
           /\ RetriedBeforeLast(ledger[d][p])'
           /\ Accounted(d, p)'
           /\ Len(ledger'[d][p]) = try[d].attempt
           /\ IsTransient(r) => Retrying(d, p)'
           /\ r # "ok" => NoneOk(ledger'[d][p])
           /\ r = "ok" => OnlyLastOk(ledger'[d][p])
<1> DEFINE line == [cacheHit |-> FALSE, attempt |-> try[d].attempt,
                    result |-> r]
<1>1. /\ Retrying(d, p)
      /\ calls[d][p] = try[d].attempt
      /\ Len(ledger[d][p]) = try[d].attempt - 1
      /\ try[d].attempt \in Nat
  BY TryFacts DEF IInv, WalkInv, CurrentInv, InFlight
<1>2. /\ ledger'[d][p] = Append(ledger[d][p], line)
      /\ ledger[d][p] \in Seq(LedgerLine)
      /\ line \in LedgerLine
  BY <1>1, WriteLineFacts
<1>3. /\ line.attempt = Len(ledger[d][p]) + 1
      /\ line.result = r
      /\ IsTransient(r) => Retryable(line)
  BY <1>1 DEF Retryable
<1> HIDE DEF line
<1>4. /\ Len(ledger'[d][p]) = Len(ledger[d][p]) + 1
      /\ Numbered(ledger'[d][p])
      /\ RetriedBeforeLast(ledger'[d][p])
      /\ Retryable(line) => AllRetryable(ledger'[d][p])
      /\ line.result # "ok" => NoneOk(ledger'[d][p])
      /\ line.result = "ok" => OnlyLastOk(ledger'[d][p])
  <2>1. Numbered(ledger[d][p]) /\ AllRetryable(ledger[d][p])
    BY <1>1 DEF Retrying
  <2> QED
    BY <1>2, <1>3, <2>1, AppendedLine
<1>5. Accounted(d, p)'
  BY <1>1, <1>4 DEF Accounted
<1>6. IsTransient(r) => Retrying(d, p)'
  BY <1>3, <1>4 DEF Retrying
<1> QED
  BY <1>1, <1>3, <1>4, <1>5, <1>6

\* The line of a cache hit is the first of its position.
LEMMA HitLineFacts ==
    ASSUME IInv, NEW d \in Dispatch, NEW p \in Slots, at[d] = p,
           pc[d] = "recordHit", WriteLine(d, TRUE, 1, "ok"), calls' = calls
    PROVE  Delivered(d, p)'
<1> DEFINE line == [cacheHit |-> TRUE, attempt |-> 1, result |-> "ok"]
           lines == ledger[d][p]
           more == ledger'[d][p]
<1>1. Fresh(d, p)
  BY DEF IInv, WalkInv, CurrentInv
<1>2. more = Append(lines, line) /\ line \in LedgerLine
  <2>1. TRUE \in BOOLEAN /\ 1 \in Nat /\ "ok" \in AllErrorKinds \union {"ok"}
    OBVIOUS
  <2> QED
    BY <2>1, WriteLineFacts
<1>3. Len(lines) = 0 /\ lines \in Seq(LedgerLine) /\ calls[d][p] = 0
  BY <1>1 DEF Fresh, IInv, TypeOK
<1>4. /\ Numbered(lines) /\ AllRetryable(lines)
      /\ line.attempt = Len(lines) + 1 /\ line.result = "ok"
  BY <1>1, <1>3 DEF Fresh, Numbered, AllRetryable
<1>5. /\ Len(more) = Len(lines) + 1
      /\ Numbered(more)
      /\ RetriedBeforeLast(more)
      /\ OnlyLastOk(more)
  <2> HIDE DEF line, lines, more
  <2> QED
    BY <1>2, <1>3, <1>4, AppendedLine
<1> QED
  BY <1>3, <1>5 DEF Delivered, Accounted

\* The types and the frame of the line any recording dispatch appends, and
\* what its position holds afterwards.
LEMMA PendingLineFacts ==
    ASSUME IInv, NEW d \in Dispatch, PendingLine(d), calls' = calls
    PROVE  /\ ledger' \in [Dispatch -> [Slots -> Seq(LedgerLine)]]
           /\ at[d] \in Slots
           /\ \A k \in Slots : k # at[d] => ledger'[d][k] = ledger[d][k]
           /\ \A e \in Dispatch \ {d} : ledger'[e] = ledger[e]
           /\ \A p \in Slots : at[d] = p =>
                /\ pc[d] \in {"recordHit", "recordOk"} => Delivered(d, p)'
                /\ pc[d] = "recordErr" => Closed(d, p)'
<1>1. pc[d] \in Recording
  BY DEF PendingLine, Recording
<1>2. PICK p \in Slots : at[d] = p
  BY <1>1 DEF IInv, WalkInv, Active
<1>3. try[d].attempt \in Nat
  BY TryFacts DEF IInv
<1>4. CASE pc[d] = "recordHit"
  <2>1. WriteLine(d, TRUE, 1, "ok")
    BY <1>4 DEF PendingLine
  <2>2. TRUE \in BOOLEAN /\ 1 \in Nat /\ "ok" \in AllErrorKinds \union {"ok"}
    OBVIOUS
  <2> QED
    BY <1>2, <1>4, <2>1, <2>2, WriteLineFacts, HitLineFacts
<1>5. CASE pc[d] = "recordOk"
  <2>1. WriteLine(d, FALSE, try[d].attempt, "ok")
    BY <1>5 DEF PendingLine
  <2>2. try[d].attempt > 0
    BY <1>2, <1>5 DEF IInv, WalkInv, CurrentInv, InFlight
  <2>3. Delivered(d, p)'
    BY <1>2, <1>3, <1>5, <2>1, <2>2, NextLineFacts DEF Delivered
  <2> QED
    BY <1>2, <1>3, <1>5, <2>1, <2>3, WriteLineFacts
<1>6. CASE pc[d] = "recordErr"
  <2>1. PICK r \in AllErrorKinds : r = try[d].result
    BY <1>2, <1>6 DEF IInv, WalkInv, CurrentInv
  <2>2. WriteLine(d, FALSE, try[d].attempt, r) /\ r # "ok"
    BY <1>6, <2>1 DEF PendingLine, AllErrorKinds
  <2>3. Closed(d, p)'
    BY <1>2, <1>3, <1>6, <2>2, NextLineFacts DEF Closed
  <2> QED
    BY <1>2, <1>3, <1>6, <2>2, <2>3, WriteLineFacts
<1> QED
  BY <1>1, <1>4, <1>5, <1>6 DEF Recording

LEMMA RecordHitStep ==
    ASSUME IInv, NEW d \in Dispatch, RecordHit(d)
    PROVE  IInv'
<1>1. PendingLine(d) /\ pc[d] = "recordHit" /\ calls' = calls
  BY DEF RecordHit, history
<1>2. TypeOK'
  BY <1>1, PendingLineFacts, NoTryFacts
     DEF IInv, TypeOK, RecordHit, End, PC, Terminal, history, Slots, Preferred
<1>3. Elsewhere(d) /\ pc'[d] = "ok" /\ at' = at
  BY <1>1, PendingLineFacts
     DEF IInv, TypeOK, RecordHit, End, Elsewhere, history
<1>4. PICK p \in Slots : at[d] = p /\ Delivered(d, p)'
  BY <1>1, PendingLineFacts
<1>5. CurrentInv(d)'
  BY <1>3, <1>4 DEF CurrentInv, InFlight
<1> QED
  BY <1>2, <1>3, <1>4, <1>5, StayInv, OthersKeep

LEMMA RecordOkStep ==
    ASSUME IInv, NEW d \in Dispatch, RecordOk(d)
    PROVE  IInv'
<1>1. PendingLine(d) /\ pc[d] = "recordOk" /\ calls' = calls
  BY DEF RecordOk, history
<1>2. TypeOK'
  BY <1>1, PendingLineFacts, NoTryFacts
     DEF IInv, TypeOK, RecordOk, End, PC, Terminal, history, Slots, Preferred
<1>3. Elsewhere(d) /\ pc'[d] = "ok" /\ at' = at
  BY <1>1, PendingLineFacts
     DEF IInv, TypeOK, RecordOk, End, Elsewhere, history
<1>4. PICK p \in Slots : at[d] = p /\ Delivered(d, p)'
  BY <1>1, PendingLineFacts
<1>5. CurrentInv(d)'
  BY <1>3, <1>4 DEF CurrentInv, InFlight
<1> QED
  BY <1>2, <1>3, <1>4, <1>5, StayInv, OthersKeep

LEMMA CancelDuringRecordStep ==
    ASSUME IInv, NEW d \in Dispatch, CancelDuringRecord(d)
    PROVE  IInv'
<1>1. PendingLine(d) /\ pc[d] \in Recording /\ calls' = calls
  BY DEF CancelDuringRecord, history
<1>2. TypeOK'
  BY <1>1, PendingLineFacts, NoTryFacts
     DEF IInv, TypeOK, CancelDuringRecord, End, PC, Terminal, history, Slots,
         Preferred
<1>3. Elsewhere(d) /\ pc'[d] = "cancelled" /\ at' = at
  BY <1>1, PendingLineFacts
     DEF IInv, TypeOK, CancelDuringRecord, End, Elsewhere, history
<1>4. PICK p \in Slots : at[d] = p /\ (Delivered(d, p)' \/ Closed(d, p)')
  BY <1>1, PendingLineFacts DEF Recording
<1>5. CurrentInv(d)'
  BY <1>3, <1>4 DEF CurrentInv, InFlight
<1> QED
  BY <1>2, <1>3, <1>4, <1>5, StayInv, OthersKeep

LEMMA CancelDuringPutStep ==
    ASSUME IInv, NEW d \in Dispatch, CancelDuringPut(d)
    PROVE  IInv'
<1>1. at[d] \in Slots /\ Closed(d, at[d]) /\ try[d].result \in Answer
  BY ActiveIsClosed
     DEF IInv, WalkInv, CurrentInv, CancelDuringPut, Active
<1>2. TypeOK'
  <2>1. cache' \in [Key -> Answer \union {Absent, Garbled}]
    BY <1>1 DEF IInv, TypeOK, CancelDuringPut
  <2> QED
    BY <2>1, NoTryFacts
       DEF IInv, TypeOK, CancelDuringPut, End, PC, Terminal, history, Slots,
           Preferred
<1>3. Elsewhere(d) /\ pc'[d] = "cancelled" /\ at' = at
  BY DEF IInv, TypeOK, CancelDuringPut, End, Elsewhere, history
<1>4. CurrentInv(d)'
  BY <1>1, <1>3
     DEF CurrentInv, InFlight, CancelDuringPut, Closed, Accounted, history
<1> QED
  BY <1>1, <1>2, <1>3, <1>4, StayInv, OthersKeep

LEMMA RecordLastErrorStep ==
    ASSUME IInv, NEW d \in Dispatch, RecordLastError(d)
    PROVE  IInv'
<1>1. PICK p \in Slots : at[d] = p /\ try[d].result \in AllErrorKinds
  BY DEF IInv, WalkInv, CurrentInv, RecordLastError, Active, Recording
<1>2. PendingLine(d) /\ pc[d] = "recordErr" /\ calls' = calls
  BY DEF RecordLastError, history
<1>3. /\ ledger' \in [Dispatch -> [Slots -> Seq(LedgerLine)]]
      /\ \A k \in Slots : k # p => ledger'[d][k] = ledger[d][k]
      /\ \A e \in Dispatch \ {d} : ledger'[e] = ledger[e]
      /\ Closed(d, p)'
  BY <1>1, <1>2, PendingLineFacts
<1>4. TypeOK'
  <2>1. FallThrough(d, try[d].result)
    BY DEF RecordLastError
  <2> QED
    BY <1>1, <1>3, <2>1, FallThroughType
       DEF IInv, TypeOK, RecordLastError, history, Slots, Preferred
<1>5. Elsewhere(d) /\ calls' = calls
  BY <1>1, <1>3
     DEF IInv, TypeOK, RecordLastError, FallThrough, End, Elsewhere, history
<1>6. WalkInv(d)'
  <2>1. PICK e \in AllErrorKinds : FallThrough(d, e)
    BY <1>1 DEF RecordLastError
  <2> QED
    BY <1>1, <1>3, <1>5, <2>1, FallThroughInv
<1> QED
  BY <1>4, <1>5, <1>6, OthersKeep

LEMMA RecordRetriedErrorStep ==
    ASSUME IInv, NEW d \in Dispatch, RecordRetriedError(d)
    PROVE  IInv'
<1>1. PICK p \in Slots : /\ at[d] = p /\ try[d].result \in AllErrorKinds
                         /\ calls[d][p] = try[d].attempt
                         /\ try[d].attempt \in 1 .. MaxAttempts
  BY DEF IInv, WalkInv, CurrentInv, InFlight, RecordRetriedError, Active,
         Recording
<1>2. /\ WriteLine(d, FALSE, try[d].attempt, try[d].result)
      /\ try[d].attempt \in Nat
  BY TryFacts DEF RecordRetriedError, PendingLine, IInv
<1>3. /\ ledger' \in [Dispatch -> [Slots -> Seq(LedgerLine)]]
      /\ \A k \in Slots : k # p => ledger'[d][k] = ledger[d][k]
      /\ \A e \in Dispatch \ {d} : ledger'[e] = ledger[e]
  BY <1>1, <1>2, WriteLineFacts
<1>4. TypeOK'
  BY <1>3
     DEF IInv, TypeOK, RecordRetriedError, PC, history, Slots, Preferred
<1>5. /\ Elsewhere(d) /\ pc'[d] = "backoff" /\ at' = at /\ calls' = calls
      /\ try' = try
  BY <1>1, <1>3
     DEF IInv, TypeOK, RecordRetriedError, Elsewhere, history
<1>6. /\ IsTransient(try[d].result)
      /\ try[d].attempt \in 1 .. (MaxAttempts - 1)
      /\ try[d].spent < MaxTotal
  BY <1>1, DispatchAssumption, TryFacts
     DEF IInv, RecordRetriedError, GivesUp
<1>7. Retrying(d, p)' /\ Len(ledger'[d][p]) = try[d].attempt
  <2>1. pc[d] = "recordErr"
    BY DEF RecordRetriedError
  <2> QED
    BY <1>1, <1>2, <1>5, <1>6, <2>1, NextLineFacts
<1>8. CurrentInv(d)'
  BY <1>1, <1>5, <1>6, <1>7 DEF CurrentInv, InFlight
<1> QED
  BY <1>1, <1>4, <1>5, <1>8, StayInv, OthersKeep

-----------------------------------------------------------------------------
(* The invariant and what follows from it *)

LEMMA StutterStep ==
    ASSUME IInv, UNCHANGED vars
    PROVE  IInv'
<1> USE DEF vars, locals, history
<1>1. TypeOK' /\ Slots' = Slots
  BY DEF IInv, TypeOK, Slots, Preferred
<1>2. ASSUME NEW d \in Dispatch PROVE WalkInv(d)'
  <2>1. WalkInv(d)
    BY DEF IInv
  <2>2. \A k : /\ Fresh(d, k) => Fresh(d, k)'
               /\ Closed(d, k) => Closed(d, k)'
    BY PositionFrame
  <2>3. at[d] \in Slots => CurrentInv(d)'
    BY <2>1, CurrentFrame DEF WalkInv
  <2> QED
    BY <1>1, <2>1, <2>2, <2>3 DEF WalkInv
<1> QED
  BY <1>1, <1>2 DEF IInv

LEMMA NextIInv == IInv /\ [Next]_vars => IInv'
<1> SUFFICES ASSUME IInv, [Next]_vars PROVE IInv'
  OBVIOUS
<1>1. CASE UNCHANGED vars
  BY <1>1, StutterStep
<1>2. CASE AllEnded
  BY <1>2, StutterStep DEF AllEnded
<1>3. ASSUME NEW d \in Dispatch, RejectNoProvider(d) PROVE IInv'
  BY <1>3, RejectNoProviderStep
<1>4. ASSUME NEW d \in Dispatch, Start(d) PROVE IInv'
  BY <1>4, StartStep
<1>5. ASSUME NEW d \in Dispatch, Cancel(d) PROVE IInv'
  BY <1>5, CancelStep
<1>7. ASSUME NEW d \in Dispatch, CancelDuringPut(d) PROVE IInv'
  BY <1>7, CancelDuringPutStep
<1>8. ASSUME NEW d \in Dispatch, CancelDuringRecord(d) PROVE IInv'
  BY <1>8, CancelDuringRecordStep
<1>6. ASSUME NEW d \in Dispatch, Work(d) PROVE IInv'
  <2>1. ASSUME CacheUnreadable(d) \/ StoreFails(d) \/ RecordFails(d)
        PROVE  IInv'
    <3>1. pc[d] \in Active
      BY <2>1 DEF CacheUnreadable, StoreFails, RecordFails, Active
    <3> QED
      BY <2>1, <3>1, LoseTryStep DEF CacheUnreadable, StoreFails, RecordFails
  <2>2. ASSUME NEW a \in Answer, NEW t \in CallTicks, ProviderAnswers(d, a, t)
        PROVE  IInv'
    BY <2>2, ProviderAnswersStep
  <2>3. ASSUME NEW e \in ErrorKinds, NEW t \in CallTicks,
               ProviderFails(d, e, t)
        PROVE  IInv'
    BY <2>3, ProviderFailsStep
  <2> QED
    BY <1>6, <2>1, <2>2, <2>3, CacheHitStep, CacheMissStep, RecordHitStep,
       StoreAnswerStep, RecordOkStep, RecordLastErrorStep,
       RecordRetriedErrorStep, RetryStep
       DEF Work
<1> QED
  BY <1>1, <1>2, <1>3, <1>4, <1>5, <1>6, <1>7, <1>8 DEF Next

\* The inductive invariant holds in every reachable state.
THEOREM Inductive == Spec => []IInv
BY InitIInv, NextIInv, PTL DEF Spec

\* Every variable keeps its type: a cache file holds an answer, is absent or
\* was garbled from the start, and a dispatch's counters stay natural numbers.
THEOREM TypeCorrect == Spec => []TypeOK
<1>1. IInv => TypeOK
  BY DEF IInv
<1> QED
  BY <1>1, Inductive, PTL

LEMMA PositionInv ==
    ASSUME IInv, NEW d \in Dispatch, NEW k \in Slots
    PROVE  /\ Numbered(ledger[d][k])
           /\ RetriedBeforeLast(ledger[d][k])
           /\ Accounted(d, k)
           /\ \A i \in DOMAIN ledger[d][k] : ledger[d][k][i].result = "ok" =>
                /\ pc[d] \in {"ok", "cancelled"}
                /\ k = at[d]
                /\ i = Len(ledger[d][k])
<1>1. WalkInv(d) /\ at[d] \in Nat /\ pc[d] \in PC /\ k \in Nat
  BY ConfigFacts DEF IInv, TypeOK
<1>2. CASE k < at[d]
  BY <1>1, <1>2 DEF WalkInv, Closed, NoneOk
<1>3. CASE k > at[d]
  BY <1>1, <1>3, FreshIsClosed DEF WalkInv, Closed, NoneOk
<1>4. CASE k = at[d]
  <2>1. CurrentInv(d)
    BY <1>1, <1>4 DEF WalkInv
  <2>2. CASE pc[d] \in Active
    BY <1>4, <2>2, ActiveIsClosed DEF Closed, NoneOk
  <2>3. CASE pc[d] = "idle"
    BY <1>4, <2>1, <2>3, FreshIsClosed DEF CurrentInv, Closed, NoneOk
  <2>4. CASE pc[d] = "ok"
    BY <1>4, <2>1, <2>4 DEF CurrentInv, Delivered, OnlyLastOk
  <2>5. CASE pc[d] \in {"allFailed", "noProvider"}
    BY <1>4, <2>1, <2>5 DEF CurrentInv, Closed, NoneOk
  <2>6. CASE pc[d] = "cancelled"
    BY <1>4, <2>1, <2>6 DEF CurrentInv, Closed, Delivered, NoneOk, OnlyLastOk
  <2> QED
    BY <1>1, <2>2, <2>3, <2>4, <2>5, <2>6 DEF PC, Active, Terminal
<1> QED
  BY <1>1, <1>2, <1>3, <1>4

\* However a dispatch ends, its ledger misses at most the last call of each
\* entry it tried, and the lines it has are numbered without a hole.
THEOREM LedgerGaps == Spec => []LedgerMissesOnlyLastCall
<1>1. IInv => LedgerMissesOnlyLastCall
  BY PositionInv DEF LedgerMissesOnlyLastCall, Numbered, Accounted
<1> QED
  BY <1>1, Inductive, PTL

\* No permanent error, answer or cache hit is ever followed by another attempt
\* at the same entry.
THEOREM RetriesAreTransient == Spec => []OnlyTransientIsRetried
<1>1. IInv => OnlyTransientIsRetried
  BY PositionInv DEF OnlyTransientIsRetried, RetriedBeforeLast, Retryable
<1> QED
  BY <1>1, Inductive, PTL

\* Every answer a caller received has its "ok" line, and no other dispatch has
\* one but those dropped while the line was being appended.
THEOREM OkLines == Spec => []OkLineIffAnswered
<1>1. ASSUME IInv, NEW d \in Dispatch, pc[d] = "ok"
      PROVE  LET lines == ledger[d][at[d]]
             IN  lines # <<>> /\ lines[Len(lines)].result = "ok"
  <2>1. at[d] \in Slots /\ Delivered(d, at[d])
    BY <1>1 DEF IInv, WalkInv, CurrentInv
  <2>2. ledger[d][at[d]] \in Seq(LedgerLine)
    BY <1>1, <2>1 DEF IInv, TypeOK
  <2>3. Len(ledger[d][at[d]]) \in DOMAIN ledger[d][at[d]]
    BY <2>1, <2>2 DEF Delivered
  <2> QED
    BY <2>1, <2>2, <2>3 DEF Delivered, OnlyLastOk
<1>2. IInv => OkLineIffAnswered
  BY <1>1, PositionInv DEF OkLineIffAnswered
<1> QED
  BY <1>2, Inductive, PTL

\* No provider call starts beyond max_attempts or after max_total_ms.
THEOREM RetryBudget == Spec => []AttemptsWithinPolicy
<1>1. IInv => AttemptsWithinPolicy
  BY DEF IInv, WalkInv, CurrentInv, InFlight, Active, AttemptsWithinPolicy
<1> QED
  BY <1>1, Inductive, PTL

-----------------------------------------------------------------------------
(* Whose answers the cache holds *)

\* The dispatches that hold an answer.
Serving == {"recordHit", "put", "recordOk"}

\* What a key holds was answered by the provider and the model it is made of,
\* to the body it is made of.
OwnAnswer(k) ==
    cache[k] \in Answer =>
        <<[provider |-> k[1], model |-> k[2].model], k[2].body, cache[k]>>
            \in given

CacheInv == \A k \in Key : OwnAnswer(k)

ServedInv == IInv /\ CacheInv /\ CacheServesOwnAnswers

\* What a step of dispatch d does to the cache, and where the answer that d
\* holds after it comes from.
Served(d) ==
    /\ config' = config /\ request' = request
    /\ \A e \in Dispatch \ {d} :
         pc'[e] = pc[e] /\ at'[e] = at[e] /\ try'[e] = try[e]
           /\ order'[e] = order[e]
    /\ given \subseteq given'
    /\ \/ cache' = cache
       \/ /\ pc[d] = "put"
          /\ cache' = [cache EXCEPT ![CurrentKey(d)] = try[d].result]
    /\ \/ pc'[d] \notin Serving
       \/ /\ order'[d] = order[d] /\ at'[d] = at[d]
          /\ \/ /\ pc[d] = "lookup"
                /\ cache[CurrentKey(d)] \in Answer
                /\ try'[d].result = cache[CurrentKey(d)]
             \/ <<Current(d), request[d].body, try'[d].result>> \in given'
             \/ pc[d] = "put" /\ try'[d] = try[d]

LEMMA FallThroughServes ==
    ASSUME IInv, NEW d \in Dispatch, NEW e, FallThrough(d, e),
           UNCHANGED <<config, request, order, cache, history>>
    PROVE  Served(d)
BY DEF IInv, TypeOK, FallThrough, End, Served, Serving, history

LEMMA EndServes ==
    ASSUME IInv, NEW d \in Dispatch, NEW how \in Terminal, End(d, how),
           UNCHANGED <<config, request, order, history>>,
           \/ cache' = cache
           \/ /\ pc[d] = "put"
              /\ cache' = [cache EXCEPT ![CurrentKey(d)] = try[d].result]
    PROVE  Served(d)
BY DEF IInv, TypeOK, End, Served, Serving, Terminal, history

LEMMA WorkServes ==
    ASSUME IInv, NEW d \in Dispatch, Work(d)
    PROVE  Served(d)
<1>1. ASSUME CacheUnreadable(d) \/ StoreFails(d) \/ RecordFails(d)
      PROVE  Served(d)
  BY <1>1, FallThroughServes DEF CacheUnreadable, StoreFails, RecordFails
<1>2. ASSUME RecordLastError(d) PROVE Served(d)
  BY <1>2, FallThroughServes DEF RecordLastError
<1>3. ASSUME RecordHit(d) \/ RecordOk(d) PROVE Served(d)
  BY <1>3, EndServes DEF RecordHit, RecordOk, Terminal
<1>4. ASSUME CacheHit(d) PROVE Served(d)
  BY <1>4, TryFacts DEF IInv, TypeOK, CacheHit, Served, Serving, history, TryRecord
<1>5. ASSUME CacheMiss(d) PROVE Served(d)
  BY <1>5 DEF IInv, TypeOK, CacheMiss, IssueCall, Served, Serving
<1>6. ASSUME Retry(d) PROVE Served(d)
  BY <1>6 DEF IInv, TypeOK, Retry, IssueCall, Served, Serving
<1>7. ASSUME RecordRetriedError(d) PROVE Served(d)
  BY <1>7 DEF IInv, TypeOK, RecordRetriedError, Served, Serving, history
<1>8. ASSUME StoreAnswer(d) PROVE Served(d)
  BY <1>8 DEF IInv, TypeOK, StoreAnswer, Served, Serving, history
<1>9. ASSUME NEW a \in Answer, NEW t \in CallTicks, ProviderAnswers(d, a, t)
      PROVE  Served(d)
  <2>1. try'[d].result = a
    BY <1>9, TryFacts DEF IInv, ProviderAnswers, TryRecord
  <2> QED
    BY <1>9, <2>1 DEF IInv, TypeOK, ProviderAnswers, Served, Serving
<1>10. ASSUME NEW e \in ErrorKinds, NEW t \in CallTicks, ProviderFails(d, e, t)
       PROVE  Served(d)
  BY <1>10 DEF IInv, TypeOK, ProviderFails, Served, Serving, history
<1> QED
  BY <1>1, <1>2, <1>3, <1>4, <1>5, <1>6, <1>7, <1>8, <1>9, <1>10 DEF Work

\* The key of what a dispatch tries names its provider, model and body.
LEMMA CurrentKeyParts ==
    ASSUME TypeOK, NEW d \in Dispatch, at[d] \in Slots
    PROVE  /\ CurrentKey(d) \in Key
           /\ [provider |-> CurrentKey(d)[1], model |-> CurrentKey(d)[2].model]
                = Current(d)
           /\ CurrentKey(d)[2].body = request[d].body
<1>1. Current(d) \in Entry /\ CurrentKey(d) \in Key
  BY CurrentFacts
<1>2. request[d] \in Request
  BY DEF TypeOK
<1>3. /\ CurrentKey(d)[1] = Current(d).provider
      /\ CurrentKey(d)[2] = [request[d] EXCEPT !.model = Current(d).model]
  BY DEF CurrentKey, CacheKey
<1>4. /\ CurrentKey(d)[2].model = Current(d).model
      /\ CurrentKey(d)[2].body = request[d].body
  BY <1>2, <1>3 DEF Request
<1> QED
  BY <1>1, <1>3, <1>4 DEF Entry

LEMMA ServedStep ==
    ASSUME ServedInv, NEW d \in Dispatch, Served(d)
    PROVE  CacheInv' /\ CacheServesOwnAnswers'
<1>1. TypeOK /\ IInv
  BY DEF ServedInv, IInv
<1>2. ASSUME pc[d] \in Serving
      PROVE  <<Current(d), request[d].body, try[d].result>> \in given
  BY <1>2 DEF ServedInv, CacheServesOwnAnswers, Serving
<1>3. ASSUME pc[d] \in {"lookup", "put"} PROVE at[d] \in Slots
  BY <1>1, <1>3 DEF IInv, WalkInv, Active
<1>4. CacheInv'
  <2> SUFFICES ASSUME NEW k \in Key, cache'[k] \in Answer
               PROVE  <<[provider |-> k[1], model |-> k[2].model], k[2].body,
                        cache'[k]>> \in given'
    BY DEF CacheInv, OwnAnswer
  <2>1. CASE cache'[k] = cache[k]
    BY <2>1 DEF ServedInv, CacheInv, OwnAnswer, Served
  <2>2. CASE cache'[k] # cache[k]
    <3>1. /\ pc[d] = "put"
          /\ cache' = [cache EXCEPT ![CurrentKey(d)] = try[d].result]
      BY <2>2 DEF Served
    <3>2. k = CurrentKey(d) /\ cache'[k] = try[d].result
      BY <1>1, <2>2, <3>1 DEF TypeOK
    <3>3. /\ [provider |-> k[1], model |-> k[2].model] = Current(d)
          /\ k[2].body = request[d].body
      BY <1>1, <1>3, <3>1, <3>2, CurrentKeyParts
    <3> QED
      BY <1>2, <3>1, <3>2, <3>3 DEF Serving, Served
  <2> QED
    BY <2>1, <2>2
<1>5. CacheServesOwnAnswers'
  <2> SUFFICES ASSUME NEW e \in Dispatch, pc'[e] \in Serving
               PROVE  <<Current(e)', request'[e].body, try'[e].result>>
                          \in given'
    BY DEF CacheServesOwnAnswers, Serving
  <2>1. config' = config /\ request' = request /\ given \subseteq given'
    BY DEF Served
  <2>2. CASE e # d
    <3>1. pc[e] = pc'[e] /\ Current(e)' = Current(e) /\ try'[e] = try[e]
      BY <2>1, <2>2 DEF Served, Current, Preferred
    <3>2. <<Current(e), request[e].body, try[e].result>> \in given
      BY <3>1 DEF ServedInv, CacheServesOwnAnswers, Serving
    <3> QED
      BY <2>1, <3>1, <3>2
  <2>3. CASE e = d
    <3>1. Current(d)' = Current(d)
      BY <2>1, <2>3 DEF Served, Current, Preferred
    <3>2. CASE /\ pc[d] = "lookup"
               /\ cache[CurrentKey(d)] \in Answer
               /\ try'[d].result = cache[CurrentKey(d)]
      <4>1. /\ CurrentKey(d) \in Key
            /\ [provider |-> CurrentKey(d)[1],
                model |-> CurrentKey(d)[2].model] = Current(d)
            /\ CurrentKey(d)[2].body = request[d].body
        BY <1>1, <1>3, <3>2, CurrentKeyParts
      <4>2. OwnAnswer(CurrentKey(d))
        BY <4>1 DEF ServedInv, CacheInv
      <4>3. <<Current(d), request[d].body, cache[CurrentKey(d)]>> \in given
        BY <3>2, <4>1, <4>2 DEF OwnAnswer
      <4> QED
        BY <2>1, <2>3, <3>1, <3>2, <4>3
    <3>3. CASE <<Current(d), request[d].body, try'[d].result>> \in given'
      BY <2>1, <2>3, <3>1, <3>3
    <3>4. CASE pc[d] = "put" /\ try'[d] = try[d]
      BY <1>2, <2>1, <2>3, <3>1, <3>4 DEF Serving
    <3> QED
      BY <2>3, <3>2, <3>3, <3>4 DEF Served
  <2> QED
    BY <2>2, <2>3
<1> QED
  BY <1>4, <1>5

LEMMA NextServedInv == ServedInv /\ [Next]_vars => ServedInv'
<1> SUFFICES ASSUME ServedInv, [Next]_vars PROVE ServedInv'
  OBVIOUS
<1>1. IInv /\ IInv'
  BY NextIInv DEF ServedInv
<1>2. ASSUME UNCHANGED vars PROVE CacheInv' /\ CacheServesOwnAnswers'
  <2>1. CacheInv'
    BY <1>2 DEF ServedInv, CacheInv, OwnAnswer, vars, history
  <2>2. \A d \in Dispatch : Current(d)' = Current(d)
    BY <1>2 DEF Current, Preferred, vars, locals
  <2>3. CacheServesOwnAnswers'
    BY <1>2, <2>2
       DEF ServedInv, CacheServesOwnAnswers, vars, locals, history
  <2> QED
    BY <2>1, <2>3
<1>3. ASSUME NEW d \in Dispatch, RejectNoProvider(d) PROVE Served(d)
  BY <1>1, <1>3, EndServes DEF RejectNoProvider, Terminal
<1>4. ASSUME NEW d \in Dispatch, Start(d) PROVE Served(d)
  BY <1>1, <1>4 DEF IInv, TypeOK, Start, Served, Serving, history
<1>5. ASSUME NEW d \in Dispatch,
             Cancel(d) \/ CancelDuringPut(d) \/ CancelDuringRecord(d)
      PROVE  Served(d)
  BY <1>1, <1>5, EndServes
     DEF Cancel, CancelDuringPut, CancelDuringRecord, Terminal
<1>6. ASSUME NEW d \in Dispatch, Served(d)
      PROVE  CacheInv' /\ CacheServesOwnAnswers'
  BY <1>6, ServedStep
<1>7. CacheInv' /\ CacheServesOwnAnswers'
  BY <1>1, <1>2, <1>3, <1>4, <1>5, <1>6, WorkServes DEF Next, AllEnded
<1> QED
  BY <1>1, <1>7 DEF ServedInv

\* Whatever the cache holds and whoever put it there, what a dispatch serves
\* was answered by the entry it is trying, to the body it is asking: a file
\* is filed under the entry's model and not under the caller's.
THEOREM ServesOwnAnswers == Spec => []CacheServesOwnAnswers
<1>1. Init => ServedInv
  BY InitIInv, DispatchAssumption
     DEF Init, ServedInv, CacheInv, OwnAnswer, CacheServesOwnAnswers
<1>2. ServedInv => CacheServesOwnAnswers
  BY DEF ServedInv
<1> QED
  BY <1>1, <1>2, NextServedInv, PTL DEF Spec
=============================================================================
