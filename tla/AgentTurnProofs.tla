-------------------------- MODULE AgentTurnProofs --------------------------
(***************************************************************************)
(* For any number of requests, bodies, replies and providers: an answer is  *)
(* one to the messages of its request and comes from an endpoint the        *)
(* request resolved, or from one of the same name; an agent changes what it *)
(* was allowed to; and a stream that reached its end tells every change of  *)
(* its turn.                                                                *)
(***************************************************************************)
EXTENDS AgentTurn, TLAPS, SequenceTheorems

-----------------------------------------------------------------------------
(* The inductive invariants *)

NoBody == [route |-> "dispatch", tools |-> {}, limit |-> 0, wellFormed |-> FALSE]

Provided == Account \union Provider

\* What is said in a turn, and what a model is asked.
Said == Reply \union Seq(BOOLEAN)
Prompt == [route : {"agent", "dispatch", "models"}, tools : SUBSET Tool, said : Seq(Said)]

Event ==
    [type : {"iteration", "chunk", "models"}, n : Nat, by : Provided, asked : Prompt, hit : BOOLEAN]
    \union [type : {"tool_call"}, at : Nat, tool : Tool]
    \union [type : {"tool_result"}, at : Nat, tool : Tool, ok : BOOLEAN]
    \union [type : {"done", "error"}]

RequestTypes ==
    /\ pc \in [Turn -> InFlight \union {"idle", "refused", "sent", "lost"}]
    /\ keyed \in [Turn -> BOOLEAN]
    /\ router \in [Turn -> SUBSET Provided]
    /\ body \in [Turn -> Body \union {NoBody}]
    /\ n \in [Turn -> Nat]
    /\ calls \in [Turn -> Nat]
    /\ events \in [Turn -> Seq(Event)]

TalkTypes == transcript \in [Turn -> Seq(Said)] /\ results \in [Turn -> Seq(BOOLEAN)]

TypeInv == SourceTypeOK /\ RequestTypes /\ TalkTypes

\* Before a request is accepted, and after.
Early == {"idle", "open", "refused"}
Accepted == {"ask", "list", "run", "check", "job", "sent"}

\* What the request has been given, and how far the loop has come with it: each
\* iteration adds a reply and the results of its calls to the transcript.
RequestOf(t) ==
    /\ pc[t] = "open" => keyed[t]
    /\ pc[t] \in Accepted =>
         body[t] \in Body /\ router[t] \subseteq (IF keyed[t] THEN Account ELSE Provider)
    /\ pc[t] \in Early => n[t] = 0 /\ calls[t] = 0 /\ Len(transcript[t]) = 0
    /\ pc[t] \in {"ask", "list"} => Len(transcript[t]) = 2 * n[t]
    /\ pc[t] \in {"run", "check", "job"} => Len(transcript[t]) = 2 * n[t] + 1
    /\ pc[t] \in Early \union {"lost"} => events[t] = <<>>
    /\ n[t] <= body[t].limit
    /\ (pc[t] \in {"run", "check", "job"} \/ (pc[t] = "ask" /\ body[t].route # "dispatch"))
         => n[t] < body[t].limit
    /\ pc[t] = "check" => calls[t] >= 1 /\ MayRun(t, "fs.delete")

RequestInv == \A t \in Turn : RequestOf(t)

\* An entry of the cache is under the key of whoever gave its answer, to what it
\* was asked.
Labelled ==
    \A e \in cache : e.asked \in Prompt /\ e.reply \in Reply /\ e.key = CacheKey(e.by, e.asked)

\* Whatever is or was under way, some call of its turn was allowed to start.
WorkInv ==
    \A j \in jobs \union effects :
        /\ j.turn \in Turn /\ j.at \in 1 .. calls[j.turn]
        /\ j.tool \in WriteTools /\ MayRun(j.turn, j.tool)

\* There is a result for call number `at` in the stream.
HasResult(t, at) ==
    \E i \in 1 .. Len(events[t]) :
        events[t][i].type = "tool_result" /\ events[t][i].at = at

\* The call begun last is the one that is waited for.
Waits(t, at) == pc[t] = "job" /\ calls[t] = at

\* Every job or change of a turn has its result, unless that is waited for.
Told ==
    \A j \in jobs \union effects :
        pc[j.turn] # "lost" => Waits(j.turn, j.at) \/ HasResult(j.turn, j.at)

\* A call has one job.
OneJob ==
    /\ \A j, k \in jobs : j.turn = k.turn /\ j.at = k.at => j = k
    /\ \A j \in jobs : pc[j.turn] = "check" => j.at # calls[j.turn]

\* Whatever a turn does not wait for is a command, or the turn is lost.
Awaits ==
    \A j \in jobs : j.tool \in FileTools /\ pc[j.turn] # "lost" => Waits(j.turn, j.at)

\* The stream of a turn: a call is followed by its result, or is the one under
\* way; a write or delete that went well has been done.
StreamOf(t) ==
    \A i \in 1 .. Len(events[t]) :
        /\ events[t][i].type = "tool_call" =>
             \/ /\ i < Len(events[t]) /\ events[t][i + 1].type = "tool_result"
                /\ events[t][i + 1].at = events[t][i].at
             \/ /\ i = Len(events[t]) /\ pc[t] \in {"check", "job"}
                /\ events[t][i].at = calls[t]
        /\ events[t][i].type = "tool_result" /\ events[t][i].ok /\ events[t][i].tool \in FileTools =>
             \E e \in effects : e.turn = t /\ e.at = events[t][i].at

Stream == \A t \in Turn : StreamOf(t)

ToldInv == Told /\ OneJob /\ Awaits /\ Stream


-----------------------------------------------------------------------------
(* Events *)

LEMMA Singles ==
    ASSUME NEW S, NEW a \in S
    PROVE  <<a>> \in Seq(S) /\ Len(<<a>>) = 1 /\ <<a>>[1] = a
OBVIOUS

LEMMA Pairs ==
    ASSUME NEW S, NEW a \in S, NEW b \in S
    PROVE  <<a, b>> \in Seq(S) /\ Len(<<a, b>>) = 2 /\ <<a, b>>[1] = a /\ <<a, b>>[2] = b
OBVIOUS

LEMMA Joined ==
    ASSUME NEW S, NEW a \in S, NEW b \in S
    PROVE  <<a>> \o <<b>> = <<a, b>>
<1>1. /\ <<a>> \o <<b>> \in Seq(S) /\ Len(<<a>> \o <<b>>) = 2
      /\ (<<a>> \o <<b>>)[1] = a /\ (<<a>> \o <<b>>)[2] = b
  <2>1. <<a>> \in Seq(S) /\ <<b>> \in Seq(S)
    BY Singles
  <2>2. /\ <<a>> \o <<b>> \in Seq(S)
        /\ Len(<<a>> \o <<b>>) = Len(<<a>>) + Len(<<b>>)
        /\ \A i \in 1 .. Len(<<a>>) + Len(<<b>>) :
             (<<a>> \o <<b>>)[i] = IF i <= Len(<<a>>) THEN <<a>>[i] ELSE <<b>>[i - Len(<<a>>)]
    BY <2>1, ConcatProperties
  <2> QED
    BY <2>2, Singles
<1>2. <<a, b>> \in Seq(S) /\ Len(<<a, b>>) = 2 /\ <<a, b>>[1] = a /\ <<a, b>>[2] = b
  BY Pairs
<1>3. \A i \in 1 .. 2 : i = 1 \/ i = 2
  OBVIOUS
<1> DEFINE s == <<a>> \o <<b>>
           u == <<a, b>>
<1>4. /\ s \in Seq(S) /\ Len(s) = 2 /\ s[1] = a /\ s[2] = b
      /\ u \in Seq(S) /\ Len(u) = 2 /\ u[1] = a /\ u[2] = b
  BY <1>1, <1>2
<1>5. s = u
  <2> HIDE DEF s, u
  <2>1. \A i \in 1 .. Len(s) : s[i] = u[i]
    BY <1>3, <1>4
  <2> QED
    BY <1>4, <2>1, SeqEqual
<1> QED
  BY <1>5

LEMMA EventTypes ==
    /\ \A t \in Turn, type \in {"iteration", "chunk", "models"}, by \in Provided, asked \in Prompt,
          hit \in BOOLEAN :
         n[t] \in Nat => AnswerEvent(t, type, by, asked, hit) \in Event
    /\ \A at \in Nat, tool \in Tool :
         [type |-> "tool_call", at |-> at, tool |-> tool] \in Event
    /\ \A at \in Nat, tool \in Tool, ok \in BOOLEAN : ToolResult(at, tool, ok) \in Event
    /\ DoneEvent \in Event /\ ErrorEvent \in Event
    /\ Terminal("done") \in Event /\ Terminal("error") \in Event
BY DEF Event, AnswerEvent, ToolResult, DoneEvent, ErrorEvent, Terminal

\* A stream that grows keeps what it tells.
LEMMA Grown ==
    ASSUME NEW old \in Seq(Event), NEW new \in Seq(Event)
    PROVE  /\ old \o new \in Seq(Event)
           /\ Len(old) \in Nat /\ Len(new) \in Nat /\ Len(old \o new) = Len(old) + Len(new)
           /\ \A i \in 1 .. Len(old) : (old \o new)[i] = old[i]
           /\ \A i \in 1 .. Len(new) : (old \o new)[Len(old) + i] = new[i]
           /\ \A i \in 1 .. Len(old \o new) :
                i \in 1 .. Len(old) \/ \E k \in 1 .. Len(new) : i = Len(old) + k
<1>1. /\ old \o new \in Seq(Event) /\ Len(old \o new) = Len(old) + Len(new)
      /\ \A i \in 1 .. Len(old) + Len(new) :
           (old \o new)[i] = IF i <= Len(old) THEN old[i] ELSE new[i - Len(old)]
  BY ConcatProperties
<1>2. Len(old) \in Nat /\ Len(new) \in Nat
  BY LenProperties
<1>3. \A i \in 1 .. Len(new) : (old \o new)[Len(old) + i] = new[i]
  <2> SUFFICES ASSUME NEW i \in 1 .. Len(new) PROVE (old \o new)[Len(old) + i] = new[i]
    OBVIOUS
  <2>1. /\ Len(old) + i \in 1 .. Len(old) + Len(new) /\ ~(Len(old) + i <= Len(old))
        /\ (Len(old) + i) - Len(old) = i
    BY <1>2
  <2> QED
    BY <1>1, <2>1
<1>4. ASSUME NEW i \in 1 .. Len(old) + Len(new), i \notin 1 .. Len(old)
      PROVE  \E k \in 1 .. Len(new) : i = Len(old) + k
  <2>1. i - Len(old) \in 1 .. Len(new) /\ i = Len(old) + (i - Len(old))
    BY <1>2, <1>4
  <2> QED
    BY <2>1
<1>5. \A i \in 1 .. Len(old \o new) :
        i \in 1 .. Len(old) \/ \E k \in 1 .. Len(new) : i = Len(old) + k
  BY <1>1, <1>4
<1>6. \A i \in 1 .. Len(old) : (old \o new)[i] = old[i]
  BY <1>1, <1>2
<1> QED
  BY <1>1, <1>2, <1>3, <1>5, <1>6

\* What a message more leaves of a transcript.
LEMMA SaidBefore ==
    ASSUME NEW S, NEW s \in Seq(S), NEW m \in S
    PROVE  /\ Append(s, m) \in Seq(S) /\ Len(s) \in Nat /\ Len(Append(s, m)) = Len(s) + 1
           /\ SubSeq(s, 1, Len(s)) = s
           /\ \A k \in 0 .. Len(s) : SubSeq(Append(s, m), 1, k) = SubSeq(s, 1, k)
<1>1. /\ Append(s, m) \in Seq(S) /\ Len(s) \in Nat /\ Len(Append(s, m)) = Len(s) + 1
      /\ \A i \in 1 .. Len(s) : s[i] \in S /\ Append(s, m)[i] = s[i]
  BY AppendProperties, LenProperties, ElementOfSeq
<1>2. ASSUME NEW k \in 0 .. Len(s) PROVE SubSeq(Append(s, m), 1, k) = SubSeq(s, 1, k)
  <2> DEFINE a == SubSeq(s, 1, k)
             b == SubSeq(Append(s, m), 1, k)
  <2>1. /\ 1 \in Int /\ k \in Int /\ k \in Nat /\ 1 \in Int
        /\ \A i \in 1 .. k : i \in 1 .. Len(s)
        /\ \A i \in 1 .. k - 1 + 1 : i \in 1 .. k /\ 1 + i - 1 = i
        /\ (IF 1 <= k THEN k - 1 + 1 ELSE 0) = k /\ k - 1 + 1 = k
    BY <1>1
  <2>2. \A i \in 1 .. k : s[i] \in S /\ Append(s, m)[i] \in S /\ Append(s, m)[i] = s[i]
    BY <1>1, <2>1
  <2>3. /\ a \in Seq(S) /\ Len(a) = (IF 1 <= k THEN k - 1 + 1 ELSE 0)
        /\ \A i \in 1 .. k - 1 + 1 : a[i] = s[1 + i - 1]
    BY <2>1, <2>2, SubSeqProperties
  <2>4. /\ b \in Seq(S) /\ Len(b) = (IF 1 <= k THEN k - 1 + 1 ELSE 0)
        /\ \A i \in 1 .. k - 1 + 1 : b[i] = Append(s, m)[1 + i - 1]
    BY <2>1, <2>2, SubSeqProperties
  <2> HIDE DEF a, b
  <2>5. /\ Len(a) = k /\ Len(b) = k
        /\ \A i \in 1 .. k : a[i] = b[i]
    BY <2>1, <2>2, <2>3, <2>4
  <2>6. a = b
    BY <2>3, <2>4, <2>5, SeqEqual
  <2> QED
    BY <2>6 DEF a, b
<1> QED
  BY <1>1, <1>2, SubSeqFull

-----------------------------------------------------------------------------
(* The kinds of steps *)

SameRequest == UNCHANGED <<keyed, router, body, writeEnabled>>
SameWork == UNCHANGED <<jobs, effects>>

\* Turn t's stream grows by `new`, and t goes on at `to`.
Streams(t, new, to) ==
    /\ SameRequest
    /\ new \in Seq(Event)
    /\ events'[t] = events[t] \o new /\ pc'[t] = to
    /\ \A u \in Turn : u # t => events'[u] = events[u] /\ pc'[u] = pc[u]

\* Turn t's transcript grows by a message.
Says(t) ==
    /\ \E m \in Said : transcript'[t] = Append(transcript[t], m)
    /\ \A u \in Turn : u # t => transcript'[u] = transcript[u]

\* Call number calls[t] + 1 begins.
Calling(t) ==
    /\ pc[t] = "run" /\ UNCHANGED <<n, transcript>>
    /\ calls'[t] = calls[t] + 1
    /\ \A u \in Turn : u # t => calls'[u] = calls[u]

Call1(t, tool) == [type |-> "tool_call", at |-> calls[t] + 1, tool |-> tool]

\* ReadKey and OpenBlob.
Admits(t) ==
    /\ pc[t] \in {"idle", "open"} /\ SameWork
    /\ UNCHANGED <<n, calls, events, transcript, writeEnabled, cache>>
    /\ \A u \in Turn : u # t => /\ pc'[u] = pc[u] /\ keyed'[u] = keyed[u]
                               /\ router'[u] = router[u] /\ body'[u] = body[u]
    /\ \/ pc'[t] = "open" /\ keyed'[t] /\ body'[t] = body[t] /\ router'[t] = router[t]
       \/ pc'[t] = "refused" /\ body'[t] = body[t] /\ router'[t] = router[t]
       \/ /\ pc'[t] \in {"ask", "list"} /\ body'[t] \in Body
          /\ router'[t] \subseteq (IF keyed'[t] THEN Account ELSE Provider)
          /\ pc'[t] = "ask" => body'[t].route = "dispatch" \/ body'[t].limit >= 1

\* Event ev answers the messages of t, from an endpoint of t's walk or one of the
\* same name.
Fits(t, ev) ==
    /\ ev.n = n[t] /\ ev.asked = Messages(t)
    /\ \E p \in router[t] : IF ev.hit THEN ProviderKey(p) = ProviderKey(ev.by) ELSE p = ev.by

\* What the model, the cache or the endpoint has said, or that nobody has.
Answered(t, new) ==
    \A i \in 1 .. Len(new) :
        /\ new[i].type \notin {"tool_call", "tool_result"}
        /\ new[i].type \in {"iteration", "chunk", "models"} => Fits(t, new[i])

Replies(t) ==
    /\ pc[t] \in {"ask", "list"} /\ SameWork /\ UNCHANGED <<n, calls>>
    /\ \E new \in Seq(Event) : Answered(t, new) /\ Streams(t, new, pc'[t])
    /\ \/ pc'[t] = "sent" /\ (transcript' = transcript \/ Says(t))
       \/ pc'[t] = "run" /\ pc[t] = "ask" /\ body[t].route # "dispatch" /\ Says(t)

\* CallFails and CallReads.
Calls1(t) ==
    /\ Calling(t) /\ SameWork
    /\ \E tool \in Tool, ok \in BOOLEAN :
         /\ ok => tool \notin FileTools
         /\ Streams(t, <<Call1(t, tool), ToolResult(calls[t] + 1, tool, ok)>>, "run")

Starts(t) ==
    /\ Calling(t)
    /\ \E tool \in WriteTools :
         /\ MayRun(t, tool) /\ jobs' = jobs \union {Job(t, calls[t] + 1, tool)}
         /\ Streams(t, <<Call1(t, tool)>>, "job")
    /\ effects' = effects

Checks(t) ==
    /\ Calling(t) /\ SameWork
    /\ MayRun(t, "fs.delete")
    /\ Streams(t, <<Call1(t, "fs.delete")>>, "check")

\* CheckRefuses, Timeout and ShellReturns.
Fails(t) ==
    /\ pc[t] = "check" \/ \E j \in jobs : j.turn = t /\ j.tool = "shell.exec" /\ Awaited(j)
    /\ SameWork /\ UNCHANGED <<n, calls, transcript>>
    /\ \E tool \in Tool, ok \in BOOLEAN :
         /\ ok => tool \notin FileTools
         /\ Streams(t, <<ToolResult(calls[t], tool, ok)>>, "run")

Passes(t) ==
    /\ pc[t] = "check" /\ SameRequest /\ UNCHANGED <<n, calls, transcript, events, effects>>
    /\ jobs' = jobs \union {Job(t, calls[t], "fs.delete")}
    /\ pc'[t] = "job" /\ \A u \in Turn : u # t => pc'[u] = pc[u]

\* JobDone and JobFails.
Ends(j) ==
    /\ UNCHANGED <<n, calls, transcript>>
    /\ jobs' = jobs \ {j} /\ effects' \in {effects, effects \union {Effect(j)}}
    /\ \/ /\ Awaited(j)
          /\ \E ok \in BOOLEAN :
               /\ ok => effects' = effects \union {Effect(j)}
               /\ Streams(j.turn, <<ToolResult(j.at, j.tool, ok)>>, "run")
       \/ ~Awaited(j) /\ SameRequest /\ UNCHANGED <<pc, events>>

Iterates(t) ==
    /\ pc[t] = "run" /\ SameWork /\ UNCHANGED calls /\ Says(t)
    /\ n'[t] = n[t] + 1 /\ \A u \in Turn : u # t => n'[u] = n[u]
    /\ \/ Streams(t, <<Terminal("done")>>, "sent")
       \/ /\ n[t] + 1 # body[t].limit /\ SameRequest /\ events' = events
          /\ pc'[t] = "ask" /\ \A u \in Turn : u # t => pc'[u] = pc[u]

\* A panic, a caller who leaves, or a crash.
Drops(ts) ==
    /\ SameRequest /\ calls' = calls
    /\ \A t \in Turn :
         IF t \in ts THEN pc'[t] = "lost" /\ events'[t] = <<>> /\ n'[t] \in {n[t], 0}
                     ELSE /\ pc'[t] = pc[t] /\ events'[t] = events[t] /\ n'[t] = n[t]
                          /\ transcript'[t] = transcript[t]
    /\ jobs' \subseteq jobs
    /\ \/ effects' = effects
       \/ \E j \in jobs : j.turn \in ts /\ effects' = effects \union {Effect(j)}

\* Credentials, UserActs, or nothing.
Elsewhere == SameRequest /\ SameWork /\ UNCHANGED <<pc, n, calls, transcript, events>>

Kinds ==
    \/ \E t \in Turn : \/ Admits(t) \/ Replies(t) \/ Calls1(t) \/ Starts(t) \/ Checks(t)
                       \/ Fails(t) \/ Passes(t) \/ Iterates(t)
    \/ \E j \in jobs : Ends(j)
    \/ \E ts \in SUBSET Turn : Drops(ts)
    \/ Elsewhere

-----------------------------------------------------------------------------
(* Every step is of one kind, and keeps the types *)

\* What Emit and a step of pc do to one turn.
LEMMA EmitStreams ==
    ASSUME TypeInv, NEW t \in Turn, NEW new \in Seq(Event),
           NEW to \in InFlight \union {"sent"},
           SameRequest, Emit(t, new), pc' = [pc EXCEPT ![t] = to]
    PROVE  /\ Streams(t, new, to)
           /\ events' \in [Turn -> Seq(Event)]
           /\ pc' \in [Turn -> InFlight \union {"idle", "refused", "sent", "lost"}]
<1>1. events \in [Turn -> Seq(Event)] /\ events[t] \o new \in Seq(Event)
  BY Grown DEF TypeInv, RequestTypes
<1>2. events' = [events EXCEPT ![t] = events[t] \o new]
  BY DEF Emit
<1> QED
  BY <1>1, <1>2 DEF Streams, TypeInv, RequestTypes

LEMMA BodyLimits ==
    ASSUME TypeInv, NEW t \in Turn
    PROVE  body[t].limit \in Nat
<1>1. body[t] \in Body \union {NoBody}
  BY DEF TypeInv, RequestTypes
<1>2. NoBody.limit \in Nat
  BY DEF NoBody
<1> QED
  BY <1>1, <1>2, AgentTurnAssumption

\* What a model is asked has its type, and so has what is told of the answer.
LEMMA Prompts ==
    ASSUME TypeInv, NEW t \in Turn
    PROVE  Messages(t) \in Prompt
<1>1. body[t] \in Body \union {NoBody} /\ transcript[t] \in Seq(Said)
  BY DEF TypeInv, RequestTypes, TalkTypes
<1>2. body[t].route \in {"agent", "dispatch", "models"} /\ body[t].tools \in SUBSET Tool
  <2>1. CASE body[t] \in Body
    BY <2>1, AgentTurnAssumption
  <2>2. CASE body[t] = NoBody
    BY <2>2 DEF NoBody
  <2> QED
    BY <1>1, <2>1, <2>2
<1> QED
  BY <1>1, <1>2 DEF Messages, Prompt

\* What a turn says.
LEMMA Speaks ==
    ASSUME TypeInv, NEW t \in Turn, NEW m \in Said,
           transcript' = [transcript EXCEPT ![t] = Append(@, m)]
    PROVE  Says(t) /\ transcript' \in [Turn -> Seq(Said)]
<1>1. transcript \in [Turn -> Seq(Said)] /\ transcript[t] \in Seq(Said)
  BY DEF TypeInv, TalkTypes
<1>2. Append(transcript[t], m) \in Seq(Said)
  BY <1>1, SaidBefore
<1> QED
  BY <1>1, <1>2 DEF Says

\* What Accept makes of a body.
LEMMA Accepts ==
    ASSUME TypeInv, NEW t \in Turn, NEW walk \in SUBSET Provided, Accept(t, walk)
    PROVE  /\ \A u \in Turn : u # t => pc'[u] = pc[u] /\ router'[u] = router[u] /\ body'[u] = body[u]
           /\ \/ pc'[t] = "refused" /\ body'[t] = body[t] /\ router'[t] = router[t]
              \/ /\ pc'[t] \in {"ask", "list"} /\ body'[t] \in Body /\ router'[t] = walk
                 /\ pc'[t] = "ask" => body'[t].route = "dispatch" \/ body'[t].limit >= 1
           /\ pc' \in [Turn -> InFlight \union {"idle", "refused", "sent", "lost"}]
           /\ router' \in [Turn -> SUBSET Provided]
           /\ body' \in [Turn -> Body \union {NoBody}]
<1>1. PICK b \in BodiesOf[t] :
        \/ ~Valid(b, walk) /\ Refuse(t)
        \/ /\ Valid(b, walk)
           /\ pc' = [pc EXCEPT ![t] = IF b.route = "models" THEN "list" ELSE "ask"]
           /\ body' = [body EXCEPT ![t] = b] /\ router' = [router EXCEPT ![t] = walk]
  BY DEF Accept
<1>2. b \in Body
  BY AgentTurnAssumption
<1>3. CASE Refuse(t)
  BY <1>3 DEF Refuse, TypeInv, RequestTypes
<1>4. CASE Valid(b, walk)
  <2>1. b.route = "models" \/ b.route = "dispatch" \/ b.limit >= 1
    <3>1. AgentValid(b) => b.limit >= 1
      BY <1>2, AgentTurnAssumption DEF AgentValid
    <3> QED
      BY <1>4, <3>1 DEF Valid, DispatchValid, ModelsValid
  <2>2. /\ pc' = [pc EXCEPT ![t] = IF b.route = "models" THEN "list" ELSE "ask"]
        /\ body' = [body EXCEPT ![t] = b] /\ router' = [router EXCEPT ![t] = walk]
    BY <1>1, <1>4
  <2>3. /\ body' \in [Turn -> Body \union {NoBody}] /\ body'[t] = b
        /\ \A u \in Turn : u # t => body'[u] = body[u]
    BY <1>2, <2>2 DEF TypeInv, RequestTypes
  <2>4. /\ router' \in [Turn -> SUBSET Provided] /\ router'[t] = walk
        /\ \A u \in Turn : u # t => router'[u] = router[u]
    BY <2>2 DEF TypeInv, RequestTypes
  <2>5. /\ pc' \in [Turn -> InFlight \union {"idle", "refused", "sent", "lost"}]
        /\ pc'[t] = IF b.route = "models" THEN "list" ELSE "ask"
        /\ \A u \in Turn : u # t => pc'[u] = pc[u]
    BY <2>2 DEF TypeInv, RequestTypes, InFlight
  <2> QED
    BY <1>2, <2>1, <2>3, <2>4, <2>5
<1> QED
  BY <1>1, <1>3, <1>4

\* What Answer does with a text that fits the request.
LEMMA AnswerReplies ==
    ASSUME TypeInv, NEW t \in Turn, pc[t] = "ask", NEW by \in Provided, NEW hit \in BOOLEAN, NEW reply,
           \E p \in router[t] : IF hit THEN ProviderKey(p) = ProviderKey(by) ELSE p = by,
           Answer(t, by, Messages(t), reply, hit), Says(t),
           SameRequest, SameWork, UNCHANGED <<n, calls>>
    PROVE  /\ Replies(t) \/ Drops({t})
           /\ events' \in [Turn -> Seq(Event)]
           /\ pc' \in [Turn -> InFlight \union {"idle", "refused", "sent", "lost"}]
<1> DEFINE Kept == /\ events' \in [Turn -> Seq(Event)]
                   /\ pc' \in [Turn -> InFlight \union {"idle", "refused", "sent", "lost"}]
           ev(type) == AnswerEvent(t, type, by, Messages(t), hit)
           iteration == ev("iteration")
<1>0. ASSUME NEW type \in {"iteration", "chunk", "models"}
      PROVE  ev(type) \in Event /\ ev(type).type = type /\ Fits(t, ev(type))
  <2>1. n[t] \in Nat /\ Messages(t) \in Prompt
    BY Prompts DEF TypeInv, RequestTypes
  <2>2. ev(type) \in Event
    BY <2>1, EventTypes
  <2>3. /\ ev(type).type = type /\ ev(type).n = n[t] /\ ev(type).by = by
        /\ ev(type).asked = Messages(t) /\ ev(type).hit = hit
    BY DEF AnswerEvent
  <2> HIDE DEF ev
  <2> QED
    BY <2>2, <2>3 DEF Fits
<1>1. CASE OneShot(t, by, Messages(t), hit)
  <2> DEFINE new == <<ev("chunk"), DoneEvent>>
  <2>1. new \in Seq(Event) /\ Len(new) = 2 /\ new[1] = ev("chunk") /\ new[2] = DoneEvent
    <3> HIDE DEF ev
    <3> QED
      BY <1>0, EventTypes, Pairs
  <2>2. Streams(t, new, "sent") /\ Kept
    <3>1. Emit(t, new) /\ pc' = [pc EXCEPT ![t] = "sent"]
      BY <1>1 DEF OneShot
    <3> HIDE DEF new
    <3> QED
      BY <2>1, <3>1, EmitStreams
  <2>3. Answered(t, new)
    <3> HIDE DEF new, ev
    <3>1. DoneEvent.type = "done"
      BY DEF DoneEvent, Terminal
    <3>2. \A i \in 1 .. Len(new) : i = 1 \/ i = 2
      BY <2>1
    <3> QED
      BY <1>0, <2>1, <3>1, <3>2 DEF Answered
  <2>4. pc'[t] = "sent"
    BY <2>2 DEF Streams
  <2> HIDE DEF new, ev
  <2> QED
    BY <2>1, <2>2, <2>3, <2>4 DEF Replies
<1>2. ASSUME pc' = [pc EXCEPT ![t] = "lost"], events' = [events EXCEPT ![t] = <<>>]
      PROVE  Drops({t}) /\ Kept
  <2>1. <<>> \in Seq(Event)
    BY EmptySeq
  <2> QED
    BY <1>2, <2>1 DEF Drops, Says, SameWork, TypeInv, RequestTypes
<1>3. ASSUME pc' = [pc EXCEPT ![t] = "sent"], Emit(t, <<iteration, Terminal("done")>>)
      PROVE  Replies(t) /\ Kept
  <2> DEFINE new == <<iteration, Terminal("done")>>
  <2> HIDE DEF ev
  <2>1. /\ new \in Seq(Event) /\ Len(new) = 2
        /\ new[1] = iteration /\ new[2] = Terminal("done")
    BY <1>0, EventTypes, Pairs
  <2>2. Answered(t, new)
    <3> HIDE DEF new
    <3>1. Terminal("done").type = "done"
      BY DEF Terminal
    <3>2. \A i \in 1 .. Len(new) : i = 1 \/ i = 2
      BY <2>1
    <3> QED
      BY <1>0, <2>1, <3>1, <3>2 DEF Answered
  <2> HIDE DEF new
  <2>3. Streams(t, new, "sent") /\ Kept
    BY <1>3, <2>1, EmitStreams DEF new
  <2>4. pc'[t] = "sent"
    BY <2>3 DEF Streams
  <2> QED
    BY <2>1, <2>2, <2>3, <2>4 DEF Replies
<1>4. ASSUME pc' = [pc EXCEPT ![t] = "run"], Emit(t, <<iteration>>), body[t].route # "dispatch"
      PROVE  Replies(t) /\ Kept
  <2> DEFINE new == <<iteration>>
  <2> HIDE DEF ev
  <2>1. new \in Seq(Event) /\ Len(new) = 1 /\ new[1] = iteration
    BY <1>0, Singles
  <2>2. Answered(t, new)
    <3> HIDE DEF new
    <3>1. \A i \in 1 .. Len(new) : i = 1
      BY <2>1
    <3> QED
      BY <1>0, <2>1, <3>1 DEF Answered
  <2> HIDE DEF new
  <2>3. Streams(t, new, "run") /\ Kept
    BY <1>4, <2>1, EmitStreams DEF new, InFlight
  <2>4. pc'[t] = "run"
    BY <2>3 DEF Streams
  <2> QED
    BY <1>4, <2>1, <2>2, <2>3, <2>4 DEF Replies
<1>5. \/ OneShot(t, by, Messages(t), hit)
      \/ pc' = [pc EXCEPT ![t] = "lost"] /\ events' = [events EXCEPT ![t] = <<>>]
      \/ pc' = [pc EXCEPT ![t] = "sent"] /\ Emit(t, <<iteration, Terminal("done")>>)
      \/ /\ pc' = [pc EXCEPT ![t] = "run"] /\ Emit(t, <<iteration>>)
         /\ body[t].route # "dispatch"
  BY DEF Answer
<1> HIDE DEF ev
<1> QED
  BY <1>1, <1>2, <1>3, <1>4, <1>5

\* The requests that a step of t's leaves alone, and what it makes of t's own.
LEMMA RequestSteps ==
    ASSUME TypeInv, RequestInv, Labelled, NEW t \in Turn,
           ReadKey(t) \/ OpenBlob(t) \/ Ask(t) \/ List(t)
    PROVE  (Admits(t) \/ Replies(t) \/ Drops({t})) /\ RequestTypes'
<1> USE DEF source, request, loop, project
<1>0. /\ t \in Turn /\ SourceTypeOK /\ RequestTypes
  BY DEF TypeInv
<1>1. CASE ReadKey(t)
  <2>1. /\ pc[t] = "idle" /\ keyed' \in [Turn -> BOOLEAN] /\ keyed'[t] = unlocked
        /\ \A u \in Turn : u # t => keyed'[u] = keyed[u]
        /\ UNCHANGED <<source, writeEnabled, loop, project>>
    BY <1>0, <1>1 DEF ReadKey, SourceTypeOK, RequestTypes
  <2>2. CASE unlocked /\ pc' = [pc EXCEPT ![t] = "open"] /\ UNCHANGED <<router, body>>
    <3>1. /\ pc' \in [Turn -> InFlight \union {"idle", "refused", "sent", "lost"}] /\ pc'[t] = "open"
          /\ \A u \in Turn : u # t => pc'[u] = pc[u]
      BY <1>0, <2>2 DEF RequestTypes, InFlight
    <3> QED
      BY <1>0, <2>1, <2>2, <3>1 DEF RequestTypes, Admits, SameWork
  <2>3. CASE ~unlocked /\ static # NoRouter /\ Accept(t, static)
    <3>1. static \subseteq Provider /\ static \in SUBSET Provided
      BY <1>0, <2>3 DEF SourceTypeOK, Provided
    <3>2. /\ \A u \in Turn : u # t => pc'[u] = pc[u] /\ router'[u] = router[u] /\ body'[u] = body[u]
          /\ \/ pc'[t] = "refused" /\ body'[t] = body[t] /\ router'[t] = router[t]
             \/ /\ pc'[t] \in {"ask", "list"} /\ body'[t] \in Body /\ router'[t] = static
                /\ pc'[t] = "ask" => body'[t].route = "dispatch" \/ body'[t].limit >= 1
          /\ pc' \in [Turn -> InFlight \union {"idle", "refused", "sent", "lost"}]
          /\ router' \in [Turn -> SUBSET Provided]
          /\ body' \in [Turn -> Body \union {NoBody}]
      BY <2>3, <3>1, Accepts
    <3> QED
      BY <1>0, <2>1, <2>3, <3>1, <3>2 DEF RequestTypes, Admits, SameWork
  <2>4. CASE Refuse(t)
    <3>1. /\ pc' \in [Turn -> InFlight \union {"idle", "refused", "sent", "lost"}] /\ pc'[t] = "refused"
          /\ \A u \in Turn : u # t => pc'[u] = pc[u]
      BY <1>0, <2>4 DEF RequestTypes, Refuse
    <3> QED
      BY <1>0, <2>1, <2>4, <3>1 DEF RequestTypes, Admits, SameWork, Refuse
  <2> QED
    BY <1>1, <2>2, <2>3, <2>4 DEF ReadKey
<1>2. CASE OpenBlob(t)
  <2>1. /\ pc[t] = "open" /\ keyed[t] /\ keyed' = keyed
        /\ UNCHANGED <<source, writeEnabled, loop, project>>
    BY <1>2 DEF OpenBlob, RequestInv, RequestOf
  <2>2. CASE endpoint \in Account /\ Accept(t, {endpoint})
    <3>1. {endpoint} \subseteq Account /\ {endpoint} \in SUBSET Provided
      BY <2>2 DEF Provided
    <3>2. /\ \A u \in Turn : u # t => pc'[u] = pc[u] /\ router'[u] = router[u] /\ body'[u] = body[u]
          /\ \/ pc'[t] = "refused" /\ body'[t] = body[t] /\ router'[t] = router[t]
             \/ /\ pc'[t] \in {"ask", "list"} /\ body'[t] \in Body /\ router'[t] = {endpoint}
                /\ pc'[t] = "ask" => body'[t].route = "dispatch" \/ body'[t].limit >= 1
          /\ pc' \in [Turn -> InFlight \union {"idle", "refused", "sent", "lost"}]
          /\ router' \in [Turn -> SUBSET Provided]
          /\ body' \in [Turn -> Body \union {NoBody}]
      BY <2>2, <3>1, Accepts
    <3> QED
      BY <1>0, <2>1, <2>2, <3>1, <3>2 DEF RequestTypes, Admits, SameWork
  <2>3. CASE Refuse(t)
    <3>1. /\ pc' \in [Turn -> InFlight \union {"idle", "refused", "sent", "lost"}] /\ pc'[t] = "refused"
          /\ \A u \in Turn : u # t => pc'[u] = pc[u]
      BY <1>0, <2>3 DEF RequestTypes, Refuse
    <3> QED
      BY <1>0, <2>1, <2>3, <3>1 DEF RequestTypes, Admits, SameWork, Refuse
  <2> QED
    BY <1>2, <2>2, <2>3 DEF OpenBlob
<1>3. CASE Ask(t) \/ List(t)
  <2>1. /\ pc[t] \in {"ask", "list"} /\ SameRequest /\ SameWork /\ UNCHANGED <<n, calls>>
    BY <1>3 DEF Ask, AskCache, AskProvider, AskFails, List, ListModels, ListFails, SameRequest, SameWork
  <2>2. router[t] \subseteq Provided /\ body[t] \in Body
    BY <1>0, <2>1 DEF RequestInv, RequestOf, Accepted, RequestTypes
  <2>3. ASSUME events' \in [Turn -> Seq(Event)],
               pc' \in [Turn -> InFlight \union {"idle", "refused", "sent", "lost"}]
        PROVE  RequestTypes'
    BY <1>0, <2>1, <2>3 DEF RequestTypes, SameRequest
  <2>4. CASE AskCache(t)
    <3>0. PICK p \in router[t] : \E e \in Hits(p, Messages(t)) :
            /\ Answer(t, e.by, e.asked, e.reply, TRUE)
            /\ transcript' = [transcript EXCEPT ![t] = Append(@, e.reply)]
      BY <2>4 DEF AskCache
    <3>1. PICK e \in Hits(p, Messages(t)) :
            /\ Answer(t, e.by, e.asked, e.reply, TRUE)
            /\ transcript' = [transcript EXCEPT ![t] = Append(@, e.reply)]
      BY <3>0
    <3>2. /\ e \in cache /\ e.by \in Provided /\ e.reply \in Said
          /\ e.key = CacheKey(e.by, e.asked) /\ e.key = CacheKey(p, Messages(t))
      BY <1>0, <3>1 DEF Hits, Labelled, SourceTypeOK, Provided, Said
    <3>3. ProviderKey(p) = ProviderKey(e.by) /\ e.asked = Messages(t)
      BY <3>2 DEF CacheKey
    <3>4. pc[t] = "ask" /\ Says(t)
      BY <2>4, <3>1, <3>2, Speaks DEF AskCache
    <3>5. Answer(t, e.by, Messages(t), e.reply, TRUE)
      BY <3>1, <3>3
    <3> QED
      BY <2>1, <2>3, <3>2, <3>3, <3>4, <3>5, AnswerReplies
  <2>5. CASE AskProvider(t)
    <3>0. PICK ps \in SUBSET router[t] : \E p \in ps, answers \in [ps -> RepliesTo[body[t]]] :
            /\ Answer(t, p, Messages(t), answers[p], FALSE)
            /\ transcript' = [transcript EXCEPT ![t] = Append(@, answers[p])]
      BY <2>5 DEF AskProvider
    <3>1. PICK p \in ps, answers \in [ps -> RepliesTo[body[t]]] :
            /\ Answer(t, p, Messages(t), answers[p], FALSE)
            /\ transcript' = [transcript EXCEPT ![t] = Append(@, answers[p])]
      BY <3>0
    <3>2. p \in router[t] /\ p \in Provided /\ answers[p] \in Said
      BY <2>2, <3>1, AgentTurnAssumption DEF Said
    <3>3. pc[t] = "ask" /\ Says(t)
      BY <2>5, <3>1, <3>2, Speaks DEF AskProvider
    <3> QED
      BY <2>1, <2>3, <3>1, <3>2, <3>3, AnswerReplies
  <2>6. ASSUME NEW event \in Event, Emit(t, <<event>>), pc' = [pc EXCEPT ![t] = "sent"],
               transcript' = transcript, Answered(t, <<event>>)
        PROVE  Replies(t) /\ RequestTypes'
    <3>1. <<event>> \in Seq(Event)
      BY Singles
    <3>2. /\ Streams(t, <<event>>, "sent") /\ events' \in [Turn -> Seq(Event)]
          /\ pc' \in [Turn -> InFlight \union {"idle", "refused", "sent", "lost"}]
      BY <2>1, <2>6, <3>1, EmitStreams
    <3>3. pc'[t] = "sent"
      BY <3>2 DEF Streams
    <3> QED
      BY <2>1, <2>3, <2>6, <3>1, <3>2, <3>3 DEF Replies
  <2>7. CASE AskFails(t) \/ ListFails(t)
    <3>1. /\ Emit(t, <<Terminal("error")>>) /\ pc' = [pc EXCEPT ![t] = "sent"]
          /\ transcript' = transcript
      BY <2>7 DEF AskFails, ListFails, ErrorEvent
    <3>2. Terminal("error") \in Event /\ Terminal("error").type = "error"
      BY EventTypes DEF Terminal
    <3>3. Answered(t, <<Terminal("error")>>)
      BY <3>2, Singles DEF Answered
    <3> QED
      BY <2>6, <3>1, <3>2, <3>3
  <2>8. CASE ListModels(t)
    <3>1. PICK p \in router[t] : Emit(t, <<AnswerEvent(t, "models", p, Messages(t), FALSE)>>)
      BY <2>8 DEF ListModels
    <3> DEFINE event == AnswerEvent(t, "models", p, Messages(t), FALSE)
    <3>2. event \in Event
      <4>1. n[t] \in Nat /\ Messages(t) \in Prompt /\ p \in Provided
        BY <1>0, <2>2, <3>1, Prompts DEF RequestTypes
      <4> QED
        BY <4>1, EventTypes
    <3>3. /\ event.type = "models" /\ event.n = n[t] /\ event.by = p
          /\ event.asked = Messages(t) /\ event.hit = FALSE
      BY DEF AnswerEvent
    <3>4. Emit(t, <<event>>) /\ pc' = [pc EXCEPT ![t] = "sent"] /\ transcript' = transcript
      BY <2>8, <3>1 DEF ListModels
    <3> HIDE DEF event
    <3>5. Fits(t, event)
      BY <3>1, <3>3 DEF Fits
    <3>6. Answered(t, <<event>>)
      BY <3>2, <3>3, <3>5, Singles DEF Answered
    <3> QED
      BY <2>6, <3>2, <3>4, <3>6
  <2> QED
    BY <1>3, <2>4, <2>5, <2>7, <2>8 DEF Ask, List
<1> QED
  BY <1>1, <1>2, <1>3

LEMMA ToolSteps ==
    ASSUME TypeInv, RequestInv, WorkInv, NEW t \in Turn,
           Call(t) \/ Check(t) \/ Timeout(t) \/ ShellReturns(t) \/ NextIteration(t)
    PROVE  /\ \/ Calls1(t) \/ Starts(t) \/ Checks(t) \/ Fails(t) \/ Passes(t) \/ Iterates(t)
           /\ RequestTypes'
<1> USE DEF source, request, loop, project
<1>0. /\ t \in Turn /\ RequestTypes /\ calls[t] \in Nat
  BY DEF TypeInv, RequestTypes
<1>1. SameRequest
  BY DEF Call, CallFails, CallReads, CallStarts, CallChecks, Begin, Check, CheckRefuses, CheckPasses,
         AfterCheck, Timeout, ShellReturns, NextIteration, SameRequest
<1>2. ASSUME NEW new \in Seq(Event), NEW to \in InFlight \union {"sent"},
             Emit(t, new), pc' = [pc EXCEPT ![t] = to],
             n' \in [Turn -> Nat], calls' \in [Turn -> Nat]
      PROVE  Streams(t, new, to) /\ RequestTypes'
  <2>1. /\ Streams(t, new, to) /\ events' \in [Turn -> Seq(Event)]
        /\ pc' \in [Turn -> InFlight \union {"idle", "refused", "sent", "lost"}]
    BY <1>1, <1>2, EmitStreams
  <2> QED
    BY <1>0, <1>1, <1>2, <2>1 DEF RequestTypes, SameRequest
<1>3. ASSUME NEW tool \in Tool PROVE ToolCall(t, tool) = Call1(t, tool) /\ Call1(t, tool) \in Event
  <2>1. calls[t] + 1 \in Nat
    BY <1>0
  <2> QED
    BY <2>1, EventTypes DEF ToolCall, Call1
<1>4. ASSUME Begin(t)
      PROVE  /\ Calling(t) /\ calls' \in [Turn -> Nat] /\ n' \in [Turn -> Nat]
             /\ effects' = effects
  BY <1>0, <1>4 DEF Begin, Calling, RequestTypes
<1>5. CASE CallFails(t) \/ CallReads(t)
  <2>1. PICK tool \in Tool, ok \in BOOLEAN :
          (ok => tool \notin FileTools) /\ Return(t, <<ToolCall(t, tool)>>, calls[t] + 1, tool, ok)
    <3>1. CASE CallFails(t)
      BY <3>1 DEF CallFails
    <3>2. CASE CallReads(t)
      <4>1. Head(todo[t]) \in Tool /\ Head(todo[t]) \notin FileTools
        BY <3>2 DEF CallReads, ReadTools, KnownTools, Tool, FileTools
      <4>2. Return(t, <<ToolCall(t, Head(todo[t]))>>, calls[t] + 1, Head(todo[t]), TRUE)
        BY <3>2 DEF CallReads
      <4> QED
        BY <4>1, <4>2
    <3> QED
      BY <1>5, <3>1, <3>2
  <2>2. Begin(t) /\ jobs' = jobs
    BY <1>5 DEF CallFails, CallReads
  <2> DEFINE call == Call1(t, tool)
             result == ToolResult(calls[t] + 1, tool, ok)
             new == <<call, result>>
  <2>3. result \in Event /\ call \in Event /\ call = ToolCall(t, tool)
    <3>1. calls[t] + 1 \in Nat
      BY <1>0
    <3>2. result \in Event
      BY <3>1, EventTypes
    <3> QED
      BY <1>3, <3>2
  <2>4. new \in Seq(Event) /\ <<call>> \o <<result>> = new
    <3> HIDE DEF result, call
    <3> QED
      BY <2>3, Pairs, Joined
  <2>5. Emit(t, new) /\ pc' = [pc EXCEPT ![t] = "run"]
    <3>1. Emit(t, <<ToolCall(t, tool)>> \o <<result>>) /\ pc' = [pc EXCEPT ![t] = "run"]
      BY <2>1 DEF Return
    <3> HIDE DEF result, call
    <3> QED
      BY <2>3, <2>4, <3>1
  <2>6. Streams(t, new, "run") /\ RequestTypes'
    <3> HIDE DEF new
    <3>1. "run" \in InFlight \union {"sent"}
      BY DEF InFlight
    <3> QED
      BY <1>2, <1>4, <2>2, <2>4, <2>5, <3>1
  <2> QED
    BY <1>4, <2>1, <2>2, <2>6 DEF Calls1, SameWork
<1>6. CASE CallStarts(t)
  <2> DEFINE tool == Head(todo[t])
  <2>1. /\ Begin(t) /\ Emit(t, <<ToolCall(t, tool)>>) /\ pc' = [pc EXCEPT ![t] = "job"]
        /\ tool \in {"fs.write", "shell.exec"} /\ MayRun(t, tool)
        /\ jobs' = jobs \union {Job(t, calls[t] + 1, tool)}
    BY <1>6 DEF CallStarts
  <2>2. tool \in WriteTools /\ tool \in Tool
    BY <2>1 DEF WriteTools, FileTools, KnownTools, Tool
  <2> HIDE DEF tool
  <2>3. ToolCall(t, tool) = Call1(t, tool) /\ Call1(t, tool) \in Event
    BY <1>3, <2>2
  <2>4. Streams(t, <<Call1(t, tool)>>, "job") /\ RequestTypes'
    <3>1. <<Call1(t, tool)>> \in Seq(Event) /\ "job" \in InFlight \union {"sent"}
      BY <2>3, Singles DEF InFlight
    <3>2. Emit(t, <<Call1(t, tool)>>)
      BY <2>1, <2>3
    <3> QED
      BY <1>2, <1>4, <2>1, <3>1, <3>2
  <2> QED
    BY <1>4, <2>1, <2>2, <2>4 DEF Starts
<1>7. CASE CallChecks(t)
  <2>1. /\ Begin(t) /\ Emit(t, <<ToolCall(t, "fs.delete")>>) /\ pc' = [pc EXCEPT ![t] = "check"]
        /\ MayRun(t, "fs.delete") /\ jobs' = jobs
    BY <1>7 DEF CallChecks
  <2>2. ToolCall(t, "fs.delete") = Call1(t, "fs.delete") /\ Call1(t, "fs.delete") \in Event
    BY <1>3 DEF WriteTools, FileTools, KnownTools, Tool
  <2>3. Streams(t, <<Call1(t, "fs.delete")>>, "check") /\ RequestTypes'
    <3>1. <<Call1(t, "fs.delete")>> \in Seq(Event) /\ "check" \in InFlight \union {"sent"}
      BY <2>2, Singles DEF InFlight
    <3>2. Emit(t, <<Call1(t, "fs.delete")>>)
      BY <2>1, <2>2
    <3> QED
      BY <1>2, <1>4, <2>1, <3>1, <3>2
  <2> QED
    BY <1>4, <2>1, <2>3 DEF Checks, SameWork
<1>8. CASE CheckRefuses(t) \/ Timeout(t) \/ ShellReturns(t)
  <2>1. PICK tool \in Tool, ok \in BOOLEAN :
          (ok => tool \notin FileTools) /\ Return(t, <<>>, calls[t], tool, ok)
    <3>1. "fs.delete" \in Tool /\ "shell.exec" \in Tool /\ "shell.exec" \notin FileTools
      BY DEF WriteTools, FileTools, KnownTools, Tool
    <3> QED
      BY <1>8, <3>1 DEF CheckRefuses, Timeout, ShellReturns
  <2>2. /\ SameWork /\ UNCHANGED <<n, calls, transcript>>
        /\ pc[t] = "check" \/ \E j \in jobs : j.turn = t /\ j.tool = "shell.exec" /\ Awaited(j)
    BY <1>8 DEF CheckRefuses, AfterCheck, Timeout, ShellReturns, SameWork
  <2> DEFINE result == ToolResult(calls[t], tool, ok)
  <2>3. result \in Event
    BY <1>0, EventTypes
  <2>4. Emit(t, <<>> \o <<result>>) /\ pc' = [pc EXCEPT ![t] = "run"]
    BY <2>1 DEF Return
  <2>5. Streams(t, <<result>>, "run") /\ RequestTypes'
    <3> HIDE DEF result
    <3>1. <<result>> \in Seq(Event) /\ <<>> \o <<result>> = <<result>>
      BY <2>3, Singles
    <3>2. "run" \in InFlight \union {"sent"} /\ n' \in [Turn -> Nat] /\ calls' \in [Turn -> Nat]
      BY <1>0, <2>2 DEF InFlight, RequestTypes
    <3>3. Emit(t, <<result>>)
      BY <2>4, <3>1
    <3> QED
      BY <1>2, <2>4, <3>1, <3>2, <3>3
  <2> QED
    BY <2>1, <2>2, <2>5 DEF Fails
<1>9. CASE CheckPasses(t)
  <2>1. /\ pc[t] = "check" /\ jobs' = jobs \union {Job(t, calls[t], "fs.delete")}
        /\ pc' = [pc EXCEPT ![t] = "job"] /\ UNCHANGED <<n, calls, transcript, events, effects>>
    BY <1>9 DEF CheckPasses, AfterCheck
  <2>2. /\ pc' \in [Turn -> InFlight \union {"idle", "refused", "sent", "lost"}] /\ pc'[t] = "job"
        /\ \A u \in Turn : u # t => pc'[u] = pc[u]
    BY <1>0, <2>1 DEF RequestTypes, InFlight
  <2> QED
    BY <1>0, <1>1, <2>1, <2>2 DEF Passes, RequestTypes, SameRequest
<1>10. CASE NextIteration(t)
  <2>1. /\ pc[t] = "run" /\ SameWork /\ calls' = calls
        /\ n' \in [Turn -> Nat] /\ n'[t] = n[t] + 1 /\ \A u \in Turn : u # t => n'[u] = n[u]
    BY <1>0, <1>10 DEF NextIteration, SameWork, RequestTypes
  <2>2. Says(t)
    <3>1. results[t] \in Said
      BY DEF TypeInv, TalkTypes, Said
    <3> QED
      BY <1>10, <3>1, Speaks DEF NextIteration
  <2>3. CASE pc' = [pc EXCEPT ![t] = "sent"] /\ Emit(t, <<Terminal("done")>>)
    <3>1. <<Terminal("done")>> \in Seq(Event) /\ calls' \in [Turn -> Nat]
      BY <1>0, <2>1, EventTypes, Singles DEF RequestTypes
    <3>2. Streams(t, <<Terminal("done")>>, "sent") /\ RequestTypes'
      BY <1>2, <2>1, <2>3, <3>1
    <3> QED
      BY <2>1, <2>2, <3>2 DEF Iterates
  <2>4. CASE /\ n[t] + 1 # body[t].limit
             /\ pc' = [pc EXCEPT ![t] = "ask"] /\ events' = events
    <3>1. /\ pc' \in [Turn -> InFlight \union {"idle", "refused", "sent", "lost"}] /\ pc'[t] = "ask"
          /\ \A u \in Turn : u # t => pc'[u] = pc[u]
      BY <1>0, <2>4 DEF RequestTypes, InFlight
    <3> QED
      BY <1>0, <1>1, <2>1, <2>2, <2>4, <3>1 DEF Iterates, RequestTypes, SameRequest
  <2> QED
    BY <1>10, <2>3, <2>4 DEF NextIteration
<1> QED
  BY <1>5, <1>6, <1>7, <1>8, <1>9, <1>10 DEF Call, Check

LEMMA JobSteps ==
    ASSUME TypeInv, WorkInv, NEW j \in jobs, JobDone(j) \/ JobFails(j)
    PROVE  Ends(j) /\ RequestTypes'
<1> USE DEF source, request, loop, project
<1>0. /\ RequestTypes /\ j.turn \in Turn /\ j.at \in Nat /\ j.tool \in Tool
  BY DEF TypeInv, RequestTypes, WorkInv, Tool, KnownTools
<1>1. PICK ok \in BOOLEAN : Finish(j, ok) /\ (ok => effects' = effects \union {Effect(j)})
  BY DEF JobDone, JobFails
<1>2. /\ jobs' = jobs \ {j} /\ effects' \in {effects, effects \union {Effect(j)}}
      /\ SameRequest /\ UNCHANGED <<n, calls, transcript>>
  BY DEF JobDone, JobFails, Finish, SameRequest
<1>3. CASE Awaited(j)
  <2> DEFINE result == ToolResult(j.at, j.tool, ok)
  <2>1. result \in Event
    BY <1>0, EventTypes
  <2>2. Emit(j.turn, <<>> \o <<result>>) /\ pc' = [pc EXCEPT ![j.turn] = "run"]
    BY <1>1, <1>3 DEF Finish, Return
  <2>3. /\ Streams(j.turn, <<result>>, "run") /\ events' \in [Turn -> Seq(Event)]
        /\ pc' \in [Turn -> InFlight \union {"idle", "refused", "sent", "lost"}]
    <3> HIDE DEF result
    <3>1. <<result>> \in Seq(Event) /\ <<>> \o <<result>> = <<result>> /\ "run" \in InFlight \union {"sent"}
      BY <2>1, Singles DEF InFlight
    <3>2. Emit(j.turn, <<result>>)
      BY <2>2, <3>1
    <3> QED
      BY <1>0, <1>2, <2>2, <3>1, <3>2, EmitStreams
  <2> QED
    BY <1>0, <1>1, <1>2, <1>3, <2>3 DEF Ends, RequestTypes, SameRequest
<1>4. CASE ~Awaited(j)
  <2>1. UNCHANGED <<pc, events>>
    BY <1>1, <1>4 DEF Finish
  <2> QED
    BY <1>0, <1>2, <1>4, <2>1 DEF Ends, RequestTypes, SameRequest
<1> QED
  BY <1>3, <1>4

LEMMA DropSteps ==
    ASSUME TypeInv, NEW ts \in SUBSET Turn, Drop(ts), SameRequest, calls' = calls, jobs' \subseteq jobs,
           \/ effects' = effects
           \/ \E j \in jobs : j.turn \in ts /\ effects' = effects \union {Effect(j)}
    PROVE  Drops(ts) /\ RequestTypes'
<1>0. RequestTypes /\ <<>> \in Seq(Event)
  BY EmptySeq DEF TypeInv
<1>1. /\ pc' = [t \in Turn |-> IF t \in ts THEN "lost" ELSE pc[t]]
      /\ n' = [t \in Turn |-> IF t \in ts THEN 0 ELSE n[t]]
      /\ events' = [t \in Turn |-> IF t \in ts THEN <<>> ELSE events[t]]
      /\ transcript' = [t \in Turn |-> IF t \in ts THEN <<>> ELSE transcript[t]]
  BY DEF Drop
<1>2. RequestTypes'
  BY <1>0, <1>1 DEF RequestTypes, SameRequest
<1> QED
  BY <1>1, <1>2 DEF Drops

LEMMA Steps ==
    TypeInv /\ RequestInv /\ Labelled /\ WorkInv /\ [Next]_vars => Kinds /\ RequestTypes'
<1> SUFFICES ASSUME TypeInv, RequestInv, Labelled, WorkInv, [Next]_vars PROVE Kinds /\ RequestTypes'
  OBVIOUS
<1> USE DEF source, request, loop, project
<1>1. ASSUME NEW t \in Turn, ReadKey(t) \/ OpenBlob(t) \/ Ask(t) \/ List(t)
      PROVE  Kinds /\ RequestTypes'
  BY <1>1, RequestSteps DEF Kinds
<1>2. ASSUME NEW t \in Turn, Call(t) \/ Check(t) \/ Timeout(t) \/ ShellReturns(t) \/ NextIteration(t)
      PROVE  Kinds /\ RequestTypes'
  BY <1>2, ToolSteps DEF Kinds
<1>3. ASSUME NEW j \in jobs, JobDone(j) \/ JobFails(j)
      PROVE  Kinds /\ RequestTypes'
  BY <1>3, JobSteps DEF Kinds
<1>4. ASSUME NEW t \in Turn, CallBreaks(t) \/ Disconnect(t)
      PROVE  Kinds /\ RequestTypes'
  <2>1. /\ Drop({t}) /\ SameRequest /\ calls' = calls /\ jobs' \subseteq jobs /\ effects' = effects
        /\ {t} \in SUBSET Turn
    BY <1>4 DEF CallBreaks, Disconnect, SameRequest
  <2> QED
    BY <2>1, DropSteps DEF Kinds
<1>5. ASSUME NEW j \in jobs, JobBreaks(j)
      PROVE  Kinds /\ RequestTypes'
  <2>1. /\ Drop({j.turn}) /\ SameRequest /\ calls' = calls /\ jobs' \subseteq jobs
        /\ effects' = effects \union {Effect(j)} /\ j.turn \in {j.turn}
        /\ {j.turn} \in SUBSET Turn
    BY <1>5 DEF JobBreaks, SameRequest, WorkInv
  <2> QED
    BY <2>1, DropSteps DEF Kinds
<1>6. CASE Crash
  <2> DEFINE ts == {t \in Turn : pc[t] \in InFlight}
  <2>1. /\ Drop(ts) /\ SameRequest /\ calls' = calls /\ jobs' \subseteq jobs /\ effects' = effects
        /\ ts \in SUBSET Turn
    BY <1>6 DEF Crash, SameRequest
  <2> HIDE DEF ts
  <2> QED
    BY <2>1, DropSteps DEF Kinds
<1>7. CASE Credentials \/ UserActs \/ UNCHANGED vars
  <2>1. Elsewhere
    BY <1>7 DEF Credentials, UserActs, vars, Elsewhere, SameRequest, SameWork
  <2>2. RequestTypes'
    BY <2>1 DEF Elsewhere, SameRequest, TypeInv, RequestTypes
  <2> QED
    BY <2>1, <2>2 DEF Kinds
<1> QED
  BY <1>1, <1>2, <1>3, <1>4, <1>5, <1>6, <1>7 DEF Next

\* What a step does to the transcripts and results.
LEMMA NextTalk ==
    TypeInv /\ RequestInv /\ Labelled /\ WorkInv /\ [Next]_vars => TalkTypes'
<1> SUFFICES ASSUME TypeInv, RequestInv, Labelled, WorkInv, [Next]_vars PROVE TalkTypes'
  OBVIOUS
<1> USE DEF source, request, loop, project
<1>0. TalkTypes
  BY DEF TypeInv
<1>1. CASE UNCHANGED <<transcript, results>>
  BY <1>0, <1>1 DEF TalkTypes
<1>2. ASSUME NEW t \in Turn, NEW m \in Said, results' = results,
             transcript' = [transcript EXCEPT ![t] = Append(@, m)]
      PROVE  TalkTypes'
  BY <1>0, <1>2, Speaks DEF TalkTypes
<1>3. ASSUME NEW t \in Turn, NEW ok \in BOOLEAN, transcript' = transcript,
             results' = [results EXCEPT ![t] = Append(@, ok)]
      PROVE  TalkTypes'
  <2>1. results[t] \in Seq(BOOLEAN)
    BY <1>0 DEF TalkTypes
  <2>2. Append(results[t], ok) \in Seq(BOOLEAN)
    BY <2>1
  <2> QED
    BY <1>0, <1>3, <2>2 DEF TalkTypes
<1>4. ASSUME NEW ts \in SUBSET Turn, Drop(ts) PROVE TalkTypes'
  <2>1. <<>> \in Seq(Said) /\ <<>> \in Seq(BOOLEAN)
    BY EmptySeq
  <2>2. /\ transcript' = [t \in Turn |-> IF t \in ts THEN <<>> ELSE transcript[t]]
        /\ results' = [t \in Turn |-> IF t \in ts THEN <<>> ELSE results[t]]
    BY <1>4 DEF Drop
  <2> QED
    BY <1>0, <2>1, <2>2 DEF TalkTypes
<1>5. ASSUME NEW t \in Turn, Ask(t) PROVE TalkTypes'
  <2>1. pc[t] = "ask" /\ results' = results
    BY <1>5 DEF Ask, AskCache, AskProvider, AskFails
  <2>2. body[t] \in Body
    BY <2>1 DEF RequestInv, RequestOf, Accepted
  <2>3. CASE AskCache(t)
    <3>1. PICK p \in router[t] : \E e \in Hits(p, Messages(t)) :
            transcript' = [transcript EXCEPT ![t] = Append(@, e.reply)]
      BY <2>3 DEF AskCache
    <3>2. PICK e \in Hits(p, Messages(t)) :
            transcript' = [transcript EXCEPT ![t] = Append(@, e.reply)]
      BY <3>1
    <3>3. e.reply \in Said
      BY <3>2 DEF Hits, Labelled, Said
    <3> QED
      BY <1>2, <2>1, <3>2, <3>3
  <2>4. CASE AskProvider(t)
    <3>1. PICK ps \in SUBSET router[t] : \E p \in ps, answers \in [ps -> RepliesTo[body[t]]] :
            transcript' = [transcript EXCEPT ![t] = Append(@, answers[p])]
      BY <2>4 DEF AskProvider
    <3>2. PICK p \in ps, answers \in [ps -> RepliesTo[body[t]]] :
            transcript' = [transcript EXCEPT ![t] = Append(@, answers[p])]
      BY <3>1
    <3>3. answers[p] \in Said
      BY <2>2, <3>2, AgentTurnAssumption DEF Said
    <3> QED
      BY <1>2, <2>1, <3>2, <3>3
  <2>5. CASE AskFails(t)
    BY <1>1, <2>5 DEF AskFails
  <2> QED
    BY <1>5, <2>3, <2>4, <2>5 DEF Ask
<1>6. ASSUME NEW t \in Turn, Call(t) \/ Check(t) \/ Timeout(t) \/ ShellReturns(t) PROVE TalkTypes'
  <2>1. transcript' = transcript
    BY <1>6 DEF Call, CallFails, CallReads, CallStarts, CallChecks, Begin, Check, CheckRefuses,
                CheckPasses, AfterCheck, Timeout, ShellReturns
  <2>2. results' = results \/ \E ok \in BOOLEAN : results' = [results EXCEPT ![t] = Append(@, ok)]
    BY <1>6 DEF Call, CallFails, CallReads, CallStarts, CallChecks, Check, CheckRefuses,
                CheckPasses, AfterCheck, Timeout, ShellReturns, Return
  <2> QED
    BY <1>1, <1>3, <2>1, <2>2
<1>7. ASSUME NEW j \in jobs, JobDone(j) \/ JobFails(j) PROVE TalkTypes'
  <2>1. transcript' = transcript /\ j.turn \in Turn
    BY <1>7 DEF JobDone, JobFails, Finish, WorkInv
  <2>2. \/ results' = results
        \/ \E ok \in BOOLEAN : results' = [results EXCEPT ![j.turn] = Append(@, ok)]
    BY <1>7 DEF JobDone, JobFails, Finish, Return
  <2> QED
    BY <1>1, <1>3, <2>1, <2>2
<1>8. ASSUME NEW t \in Turn, NextIteration(t) PROVE TalkTypes'
  <2>1. results[t] \in Said /\ <<>> \in Seq(BOOLEAN)
    BY <1>0, EmptySeq DEF TalkTypes, Said
  <2>2. transcript' \in [Turn -> Seq(Said)]
    BY <1>8, <2>1, Speaks DEF NextIteration
  <2>3. results' \in [Turn -> Seq(BOOLEAN)]
    BY <1>0, <1>8, <2>1 DEF NextIteration, TalkTypes
  <2> QED
    BY <2>2, <2>3 DEF TalkTypes
<1>9. ASSUME NEW t \in Turn, ReadKey(t) \/ OpenBlob(t) \/ List(t) PROVE TalkTypes'
  BY <1>1, <1>9 DEF ReadKey, OpenBlob, List, ListModels, ListFails
<1>10. ASSUME NEW t \in Turn, CallBreaks(t) \/ Disconnect(t) PROVE TalkTypes'
  <2>1. Drop({t}) /\ {t} \in SUBSET Turn
    BY <1>10 DEF CallBreaks, Disconnect
  <2> QED
    BY <1>4, <2>1
<1>11. ASSUME NEW j \in jobs, JobBreaks(j) PROVE TalkTypes'
  <2>1. Drop({j.turn}) /\ {j.turn} \in SUBSET Turn
    BY <1>11 DEF JobBreaks, WorkInv
  <2> QED
    BY <1>4, <2>1
<1>12. CASE Crash
  <2> DEFINE ts == {t \in Turn : pc[t] \in InFlight}
  <2>1. Drop(ts) /\ ts \in SUBSET Turn
    BY <1>12 DEF Crash
  <2> HIDE DEF ts
  <2> QED
    BY <1>4, <2>1
<1>13. CASE Credentials \/ UserActs \/ UNCHANGED vars
  BY <1>1, <1>13 DEF Credentials, UserActs, vars
<1> QED
  BY <1>5, <1>6, <1>7, <1>8, <1>9, <1>10, <1>11, <1>12, <1>13 DEF Next

\* What a boot may build.
LEMMA RouterTypes == Routers \subseteq (SUBSET Provider) \union {NoRouter}
<1> SUFFICES ASSUME NEW c \in Config, BuildRouter(c, endpoint)
             PROVE  ReadConfig(c).preferred \in SUBSET Provider
  BY DEF Routers
<1>1. ReadConfig(c) \in File
  BY RouterSourceAssumption DEF ReadConfig
<1>2. ReadConfig(c).preferred \subseteq ReadConfig(c).providers
  BY DEF BuildRouter, Builds, Validates
<1> QED
  BY <1>1, <1>2 DEF File

\* What a step does to the credentials and the cache.
LEMMA NextSource ==
    TypeInv /\ RequestInv /\ Labelled /\ [Next]_vars => SourceTypeOK' /\ Labelled'
<1> SUFFICES ASSUME TypeInv, RequestInv, Labelled, [Next]_vars PROVE SourceTypeOK' /\ Labelled'
  OBVIOUS
<1> USE DEF source
<1>0. SourceTypeOK
  BY DEF TypeInv
<1>1. CASE UNCHANGED source
  BY <1>0, <1>1 DEF SourceTypeOK, Labelled
<1>2. ASSUME NEW ps \in SUBSET Provided, NEW answers \in [ps -> Reply], NEW asked \in Prompt,
             Store(answers, asked), UNCHANGED <<unlocked, endpoint, static>>
      PROVE  SourceTypeOK' /\ Labelled'
  <2>1. \A e \in cache' : e \in cache \/ \E p \in ps : e = Entry(p, asked, answers[p])
    BY <1>2 DEF Store
  <2>2. ASSUME NEW e \in cache'
        PROVE  /\ e.by \in Provided /\ e.asked \in Prompt /\ e.reply \in Reply
               /\ e.key = CacheKey(e.by, e.asked)
    <3>1. CASE e \in cache
      BY <1>0, <3>1 DEF Labelled, SourceTypeOK, Provided
    <3>2. ASSUME NEW p \in ps, e = Entry(p, asked, answers[p])
          PROVE  /\ e.by \in Provided /\ e.asked \in Prompt /\ e.reply \in Reply
                 /\ e.key = CacheKey(e.by, e.asked)
      <4>1. e.by = p /\ e.asked = asked /\ e.reply = answers[p] /\ e.key = CacheKey(p, asked)
        BY <3>2 DEF Entry
      <4> QED
        BY <1>2, <4>1
    <3> QED
      BY <2>1, <3>1, <3>2
  <2> QED
    BY <1>0, <1>2, <2>2 DEF SourceTypeOK, Labelled, Provided
<1>3. ASSUME NEW t \in Turn, Ask(t) PROVE SourceTypeOK' /\ Labelled'
  <2>1. /\ router[t] \subseteq Provided /\ body[t] \in Body /\ Messages(t) \in Prompt
        /\ UNCHANGED <<unlocked, endpoint, static>>
    <3>1. pc[t] = "ask" /\ UNCHANGED <<unlocked, endpoint, static>>
      BY <1>3 DEF Ask, AskCache, AskProvider, AskFails
    <3> QED
      BY <3>1, Prompts DEF RequestInv, RequestOf, Accepted, TypeInv, RequestTypes
  <2>2. PICK ps \in SUBSET router[t] : \E answers \in [ps -> RepliesTo[body[t]]] :
          Store(answers, Messages(t))
    <3>1. CASE AskCache(t)
      <4>1. PICK p \in router[t], ps \in SUBSET router[t] :
              \E answers \in [ps \ {p} -> RepliesTo[body[t]]] : Store(answers, Messages(t))
        BY <3>1 DEF AskCache
      <4>2. ps \ {p} \in SUBSET router[t]
        OBVIOUS
      <4> QED
        BY <4>1, <4>2
    <3>2. CASE AskProvider(t)
      BY <3>2 DEF AskProvider
    <3>3. CASE AskFails(t)
      BY <3>3 DEF AskFails
    <3> QED
      BY <1>3, <3>1, <3>2, <3>3 DEF Ask
  <2>3. PICK answers \in [ps -> RepliesTo[body[t]]] : Store(answers, Messages(t))
    BY <2>2
  <2>4. answers \in [ps -> Reply]
    BY <2>1, <2>3, AgentTurnAssumption
  <2> QED
    BY <1>2, <2>1, <2>2, <2>3, <2>4
<1>4. CASE Credentials
  <2>1. cache' = cache /\ static' = static
    BY <1>4 DEF Credentials, Login, Logout, Replace
  <2>2. unlocked' \in BOOLEAN /\ endpoint' \in Account \union {NoBlob, Raw}
    BY <1>0, <1>4 DEF Credentials, Login, Logout, Replace, SourceTypeOK
  <2> QED
    BY <1>0, <2>1, <2>2 DEF SourceTypeOK, Labelled
<1>5. CASE Crash
  <2>1. /\ UNCHANGED <<endpoint, cache>>
        /\ static' \in (SUBSET Provider) \union {NoRouter} /\ unlocked' \in BOOLEAN
    BY <1>5, RouterTypes DEF Crash, Reboot
  <2> QED
    BY <1>0, <2>1 DEF SourceTypeOK, Labelled
<1>6. UNCHANGED source \/ (\E t \in Turn : Ask(t)) \/ Credentials \/ Crash
  <2>1. ASSUME NEW t \in Turn,
               \/ ReadKey(t) \/ OpenBlob(t) \/ List(t) \/ CallBreaks(t) \/ Timeout(t)
               \/ ShellReturns(t) \/ NextIteration(t) \/ Disconnect(t)
        PROVE  UNCHANGED source
    BY <2>1 DEF ReadKey, OpenBlob, List, ListModels, ListFails, CallBreaks, Timeout,
                ShellReturns, NextIteration, Disconnect
  <2>2. ASSUME NEW t \in Turn, Call(t) PROVE UNCHANGED source
    BY <2>2 DEF Call, CallFails, CallReads, CallStarts, CallChecks, Begin
  <2>3. ASSUME NEW t \in Turn, Check(t) PROVE UNCHANGED source
    BY <2>3 DEF Check, CheckRefuses, CheckPasses, AfterCheck
  <2>4. ASSUME NEW j \in jobs, JobDone(j) \/ JobFails(j) \/ JobBreaks(j)
        PROVE  UNCHANGED source
    BY <2>4 DEF JobDone, JobFails, Finish, JobBreaks
  <2>5. ASSUME UNCHANGED vars \/ UserActs PROVE UNCHANGED source
    BY <2>5 DEF vars, UserActs
  <2> HIDE DEF source
  <2> QED
    BY <2>1, <2>2, <2>3, <2>4, <2>5 DEF Next
<1> QED
  BY <1>1, <1>3, <1>4, <1>5, <1>6
-----------------------------------------------------------------------------
(* RequestInv *)

LEMMA InitRequests == Init => TypeInv /\ RequestInv /\ Labelled /\ WorkInv /\ ToldInv
<1> SUFFICES ASSUME Init PROVE TypeInv /\ RequestInv /\ Labelled /\ WorkInv /\ ToldInv
  OBVIOUS
<1>1. SourceTypeOK /\ Labelled
  BY RouterTypes DEF Init, SourceInit, SourceTypeOK, Labelled
<1>2. /\ <<>> \in Seq(Event) /\ <<>> \in Seq(Said) /\ <<>> \in Seq(BOOLEAN) /\ Len(<<>>) = 0
  BY EmptySeq
<1>3. RequestTypes /\ TalkTypes
  BY <1>2 DEF Init, RequestTypes, TalkTypes, NoBody
<1>4. \A t \in Turn : /\ events[t] = <<>> /\ pc[t] = "idle" /\ n[t] = 0 /\ calls[t] = 0
                     /\ body[t].limit = 0 /\ transcript[t] = <<>>
  BY DEF Init
<1>5. RequestInv
  BY <1>2, <1>4 DEF RequestInv, RequestOf, Accepted, Early
<1>6. WorkInv /\ ToldInv
  BY <1>2, <1>4 DEF Init, WorkInv, ToldInv, Told, OneJob, Awaits, Stream, StreamOf
<1> QED
  BY <1>1, <1>3, <1>5, <1>6 DEF TypeInv

\* A turn that a step leaves alone.
LEMMA RequestStays ==
    ASSUME NEW u \in Turn, RequestOf(u), writeEnabled' = writeEnabled,
           pc'[u] = pc[u], keyed'[u] = keyed[u], router'[u] = router[u], body'[u] = body[u],
           n'[u] = n[u], calls'[u] = calls[u], events'[u] = events[u],
           transcript'[u] = transcript[u]
    PROVE  RequestOf(u)'
BY DEF RequestOf, MayRun

LEMMA NextRequests == TypeInv /\ RequestInv /\ WorkInv /\ Kinds /\ TypeInv' => RequestInv'
<1> SUFFICES ASSUME TypeInv, RequestInv, WorkInv, Kinds, TypeInv', NEW u \in Turn PROVE RequestOf(u)'
  BY DEF RequestInv
<1>0. /\ RequestOf(u) /\ body[u].limit \in Nat /\ n[u] \in Nat /\ calls[u] \in Nat
      /\ n'[u] \in Nat /\ calls'[u] \in Nat
      /\ Len(transcript[u]) \in Nat /\ \A t \in Turn : Says(t) =>
           /\ Len(transcript'[t]) = Len(transcript[t]) + 1
           /\ u # t => transcript'[u] = transcript[u]
  <2>1. \A t \in Turn : transcript[t] \in Seq(Said)
    BY DEF TypeInv, TalkTypes
  <2>2. \A t \in Turn : Says(t) =>
          /\ Len(transcript'[t]) = Len(transcript[t]) + 1
          /\ u # t => transcript'[u] = transcript[u]
    <3> SUFFICES ASSUME NEW t \in Turn, Says(t)
                 PROVE  /\ Len(transcript'[t]) = Len(transcript[t]) + 1
                        /\ u # t => transcript'[u] = transcript[u]
      OBVIOUS
    <3>1. PICK m \in Said : transcript'[t] = Append(transcript[t], m)
      BY DEF Says
    <3>2. Len(Append(transcript[t], m)) = Len(transcript[t]) + 1
      BY <2>1, SaidBefore
    <3> QED
      BY <3>1, <3>2 DEF Says
  <2>3. Len(transcript[u]) \in Nat
    BY <2>1, LenProperties
  <2> QED
    BY <2>2, <2>3, BodyLimits DEF RequestInv, TypeInv, RequestTypes
<1>1. ASSUME NEW t \in Turn, Admits(t) PROVE RequestOf(u)'
  <2>1. CASE u # t
    BY <1>0, <1>1, <2>1, RequestStays DEF Admits
  <2>2. CASE u = t
    <3>1. /\ n'[u] = 0 /\ calls'[u] = 0 /\ events'[u] = <<>> /\ Len(transcript'[u]) = 0
      BY <1>0, <1>1, <2>2 DEF Admits, RequestOf, Early
    <3>2. CASE pc'[u] \in {"open", "refused"}
      BY <1>0, <1>1, <2>2, <3>1, <3>2 DEF Admits, RequestOf, Accepted
    <3>3. CASE pc'[u] \in {"ask", "list"} /\ ~(pc'[u] \in {"open", "refused"})
      <4>1. body'[u] \in Body /\ body'[u].limit \in Nat
        BY <1>1, <2>2, <3>3, AgentTurnAssumption DEF Admits
      <4> QED
        BY <1>1, <2>2, <3>1, <3>3, <4>1 DEF Admits, RequestOf, Early
    <3> QED
      BY <1>1, <2>2, <3>2, <3>3 DEF Admits
  <2> QED
    BY <2>1, <2>2
<1>2. ASSUME NEW t \in Turn, NEW new, NEW to, Streams(t, new, to),
             to \in {"run", "check", "job", "sent"},
             pc[t] \in {"ask", "list", "run", "check", "job"},
             calls'[u] = calls[u] \/ (u = t /\ calls'[u] = calls[u] + 1),
             n'[u] = n[u] \/ (u = t /\ n'[u] = n[u] + 1 /\ pc[u] = "run" /\ to = "sent"),
             to = "check" => calls'[t] >= 1 /\ MayRun(t, "fs.delete"),
             to # "sent" => pc[t] # "list" /\ (pc[t] = "ask" => body[t].route # "dispatch"),
             u # t => transcript'[u] = transcript[u],
             to # "sent" => Len(transcript'[t]) = 2 * n'[t] + 1
      PROVE  RequestOf(u)'
  <2>1. CASE u # t
    BY <1>0, <1>2, <2>1, RequestStays DEF Streams, SameRequest
  <2>2. CASE u = t
    <3>1. /\ keyed'[u] = keyed[u] /\ router'[u] = router[u] /\ body'[u] = body[u] /\ pc'[u] = to
          /\ writeEnabled' = writeEnabled
      BY <1>2, <2>2 DEF Streams, SameRequest
    <3>2. n'[u] <= body[u].limit /\ (to # "sent" => n'[u] < body[u].limit)
      <4>1. to # "sent" => n[u] < body[u].limit
        BY <1>0, <1>2, <2>2 DEF RequestOf
      <4>2. n[u] <= body[u].limit /\ (pc[u] = "run" => n[u] < body[u].limit)
        BY <1>0 DEF RequestOf
      <4> QED
        BY <1>0, <1>2, <4>1, <4>2
    <3> QED
      BY <1>0, <1>2, <2>2, <3>1, <3>2 DEF RequestOf, MayRun, Accepted, Early
  <2> QED
    BY <2>1, <2>2
<1>3. ASSUME NEW t \in Turn, Replies(t) PROVE RequestOf(u)'
  <2>1. PICK new \in Seq(Event) : Streams(t, new, pc'[t])
    BY <1>3 DEF Replies
  <2>2. u # t => transcript'[u] = transcript[u]
    BY <1>0, <1>3 DEF Replies
  <2>3. pc'[t] # "sent" => Len(transcript'[t]) = 2 * n'[t] + 1
    <3>1. pc'[t] # "sent" => Len(transcript'[t]) = Len(transcript[t]) + 1 /\ pc[t] = "ask" /\ n'[t] = n[t]
      BY <1>0, <1>3 DEF Replies
    <3>2. pc[t] = "ask" => Len(transcript[t]) = 2 * n[t]
      BY DEF RequestInv, RequestOf
    <3> QED
      BY <3>1, <3>2
  <2> QED
    BY <1>2, <1>3, <2>1, <2>2, <2>3 DEF Replies
<1>4. ASSUME NEW t \in Turn, Calls1(t) \/ Starts(t) \/ Checks(t) PROVE RequestOf(u)'
  <2>1. PICK new \in Seq(Event), to \in {"run", "job", "check"} :
          Streams(t, new, to) /\ (to = "check" => MayRun(t, "fs.delete"))
    <3>1. \E to \in {"run", "job", "check"} : \E new :
            Streams(t, new, to) /\ (to = "check" => MayRun(t, "fs.delete"))
      BY <1>4 DEF Calls1, Starts, Checks
    <3> QED
      BY <3>1 DEF Streams
  <2>2. Calling(t)
    BY <1>4 DEF Calls1, Starts, Checks
  <2>3. calls'[t] >= 1
    BY <2>2 DEF Calling, TypeInv, RequestTypes
  <2>4. /\ pc[t] = "run" /\ n' = n /\ transcript' = transcript
        /\ calls'[u] = calls[u] \/ (u = t /\ calls'[u] = calls[u] + 1)
    BY <2>2 DEF Calling
  <2>5. Len(transcript'[t]) = 2 * n'[t] + 1
    BY <2>4 DEF RequestInv, RequestOf
  <2> QED
    BY <1>2, <2>1, <2>3, <2>4, <2>5
<1>5. ASSUME NEW t \in Turn, Fails(t) PROVE RequestOf(u)'
  <2>1. pc[t] \in {"check", "job"}
    BY <1>5 DEF Fails, Awaited
  <2>2. PICK tool \in Tool, ok \in BOOLEAN : Streams(t, <<ToolResult(calls[t], tool, ok)>>, "run")
    BY <1>5 DEF Fails
  <2>3. UNCHANGED <<n, calls, transcript>> /\ Len(transcript'[t]) = 2 * n'[t] + 1
    BY <1>5, <2>1 DEF Fails, RequestInv, RequestOf
  <2> QED
    BY <1>2, <2>1, <2>2, <2>3
<1>6. ASSUME NEW t \in Turn, Passes(t) PROVE RequestOf(u)'
  <2>1. CASE u # t
    BY <1>0, <1>6, <2>1, RequestStays DEF Passes, SameRequest
  <2>2. CASE u = t
    BY <1>0, <1>6, <2>2 DEF Passes, SameRequest, RequestOf, Accepted, Early
  <2> QED
    BY <2>1, <2>2
<1>7. ASSUME NEW t \in Turn, Iterates(t) PROVE RequestOf(u)'
  <2>1. /\ pc[t] = "run" /\ calls' = calls /\ n'[t] = n[t] + 1 /\ \A v \in Turn : v # t => n'[v] = n[v]
    BY <1>7 DEF Iterates
  <2>2. CASE Streams(t, <<Terminal("done")>>, "sent")
    <3>1. /\ n'[u] = n[u] \/ (u = t /\ n'[u] = n[u] + 1 /\ pc[u] = "run")
          /\ u # t => transcript'[u] = transcript[u]
      BY <1>0, <1>7, <2>1 DEF Iterates
    <3> QED
      BY <1>2, <2>1, <2>2, <3>1
  <2>3. CASE /\ n[t] + 1 # body[t].limit /\ SameRequest /\ events' = events
             /\ pc'[t] = "ask" /\ \A v \in Turn : v # t => pc'[v] = pc[v]
    <3>1. CASE u # t
      <4>1. transcript'[u] = transcript[u]
        BY <1>0, <1>7, <3>1 DEF Iterates
      <4> QED
        BY <1>0, <2>1, <2>3, <3>1, <4>1, RequestStays DEF SameRequest
    <3>2. CASE u = t
      <4>1. n'[u] < body[u].limit
        BY <1>0, <2>1, <2>3, <3>2 DEF RequestOf
      <4>2. Len(transcript'[u]) = 2 * n'[u]
        <5>1. Len(transcript[u]) = 2 * n[u] + 1 /\ Len(transcript'[u]) = Len(transcript[u]) + 1
          BY <1>0, <1>7, <2>1, <3>2 DEF RequestOf, Iterates
        <5>2. n'[u] = n[u] + 1 /\ n[u] \in Nat
          BY <1>0, <2>1, <3>2
        <5>3. \A k \in Nat : (2 * k + 1) + 1 = 2 * (k + 1)
          OBVIOUS
        <5> QED
          BY <5>1, <5>2, <5>3
      <4> QED
        BY <1>0, <2>1, <2>3, <3>2, <4>1, <4>2 DEF SameRequest, RequestOf, Accepted, Early
    <3> QED
      BY <3>1, <3>2
  <2> QED
    BY <1>7, <2>2, <2>3 DEF Iterates
<1>8. ASSUME NEW j \in jobs, Ends(j) PROVE RequestOf(u)'
  <2>1. j.turn \in Turn /\ UNCHANGED <<n, calls, transcript>>
    BY <1>8 DEF WorkInv, Ends
  <2>2. CASE Awaited(j)
    <3>1. PICK ok \in BOOLEAN : Streams(j.turn, <<ToolResult(j.at, j.tool, ok)>>, "run")
      BY <1>8, <2>2 DEF Ends
    <3>2. pc[j.turn] = "job" /\ Len(transcript'[j.turn]) = 2 * n'[j.turn] + 1
      BY <2>1, <2>2 DEF Awaited, RequestInv, RequestOf
    <3> QED
      BY <1>2, <2>1, <3>1, <3>2
  <2>3. CASE ~Awaited(j)
    BY <1>0, <1>8, <2>1, <2>3, RequestStays DEF Ends, SameRequest
  <2> QED
    BY <2>2, <2>3
<1>9. ASSUME NEW ts \in SUBSET Turn, Drops(ts) PROVE RequestOf(u)'
  <2>1. CASE u \notin ts
    BY <1>0, <1>9, <2>1, RequestStays DEF Drops, SameRequest
  <2>2. CASE u \in ts
    BY <1>0, <1>9, <2>2 DEF Drops, SameRequest, RequestOf, Accepted, Early
  <2> QED
    BY <2>1, <2>2
<1>10. CASE Elsewhere
  BY <1>0, <1>10, RequestStays DEF Elsewhere, SameRequest
<1> QED
  BY <1>1, <1>3, <1>4, <1>5, <1>6, <1>7, <1>8, <1>9, <1>10 DEF Kinds

-----------------------------------------------------------------------------
(* WorkInv *)

LEMMA NextWork == TypeInv /\ RequestInv /\ WorkInv /\ Kinds => WorkInv'
<1> SUFFICES ASSUME TypeInv, RequestInv, WorkInv, Kinds,
                    NEW k \in (jobs \union effects)'
             PROVE  /\ k.turn \in Turn /\ k.at \in 1 .. calls'[k.turn]
                    /\ k.tool \in WriteTools /\ MayRun(k.turn, k.tool)'
  BY DEF WorkInv
<1> DEFINE Goal == /\ k.turn \in Turn /\ k.at \in 1 .. calls'[k.turn]
                   /\ k.tool \in WriteTools /\ MayRun(k.turn, k.tool)'
<1>0. \A t \in Turn : calls[t] \in Nat
  BY DEF TypeInv, RequestTypes
<1>1. ASSUME NEW j \in jobs \union effects, k.turn = j.turn, k.at = j.at, k.tool = j.tool,
             calls'[j.turn] \in {calls[j.turn], calls[j.turn] + 1},
             body'[j.turn] = body[j.turn], writeEnabled' = writeEnabled
      PROVE  Goal
  <2>1. j.turn \in Turn /\ j.at \in 1 .. calls[j.turn] /\ j.tool \in WriteTools /\ MayRun(j.turn, j.tool)
    BY DEF WorkInv
  <2>2. calls'[j.turn] \in Nat /\ calls[j.turn] <= calls'[j.turn]
    BY <1>0, <1>1, <2>1
  <2> QED
    BY <1>0, <1>1, <2>1, <2>2 DEF MayRun
<1>2. ASSUME NEW t \in Turn, Admits(t) PROVE Goal
  <2>1. k \in jobs \union effects /\ calls' = calls /\ writeEnabled' = writeEnabled
    BY <1>2 DEF Admits, SameWork
  <2>2. k.turn \in Turn /\ k.at \in 1 .. calls[k.turn]
    BY <2>1 DEF WorkInv
  <2>3. k.turn # t
    BY <1>2, <2>2 DEF Admits, RequestInv, RequestOf, Early
  <2>4. body'[k.turn] = body[k.turn]
    BY <1>2, <2>2, <2>3 DEF Admits
  <2> QED
    BY <1>1, <2>1, <2>4
<1>3. ASSUME SameWork, SameRequest,
             \A t \in Turn : calls'[t] \in {calls[t], calls[t] + 1}
      PROVE  Goal
  <2>1. k \in jobs \union effects /\ k.turn \in Turn
    BY <1>3 DEF SameWork, WorkInv
  <2> QED
    BY <1>1, <1>3, <2>1 DEF SameRequest
<1>4. ASSUME NEW t \in Turn, Replies(t) \/ Calls1(t) \/ Checks(t) \/ Fails(t) \/ Iterates(t) PROVE Goal
  <2>1. SameWork /\ SameRequest
    BY <1>4 DEF Replies, Calls1, Checks, Fails, Iterates, Streams
  <2>2. \A u \in Turn : calls'[u] \in {calls[u], calls[u] + 1}
    BY <1>4 DEF Replies, Calls1, Checks, Fails, Iterates, Calling
  <2> QED
    BY <1>3, <2>1, <2>2
<1>5. ASSUME NEW t \in Turn, NEW at \in 1 .. calls'[t], NEW tool \in WriteTools,
             jobs' = jobs \union {Job(t, at, tool)}, effects' = effects, MayRun(t, tool), SameRequest,
             \A u \in Turn : calls'[u] \in {calls[u], calls[u] + 1}
      PROVE  Goal
  <2>1. CASE k \in jobs \union effects
    <3>1. k.turn \in Turn
      BY <2>1 DEF WorkInv
    <3> QED
      BY <1>1, <1>5, <2>1, <3>1 DEF SameRequest
  <2>2. CASE k = Job(t, at, tool)
    BY <1>5, <2>2 DEF Job, SameRequest, MayRun
  <2> QED
    BY <1>5, <2>1, <2>2
<1>6. ASSUME NEW t \in Turn, Starts(t) PROVE Goal
  <2>1. PICK tool \in WriteTools : MayRun(t, tool) /\ jobs' = jobs \union {Job(t, calls[t] + 1, tool)}
    BY <1>6 DEF Starts
  <2>2. /\ effects' = effects /\ SameRequest /\ calls'[t] = calls[t] + 1
        /\ \A u \in Turn : calls'[u] \in {calls[u], calls[u] + 1}
    BY <1>6 DEF Starts, Calling, Streams
  <2>3. calls[t] + 1 \in 1 .. calls'[t]
    BY <1>0, <2>2
  <2> QED
    BY <1>5, <2>1, <2>2, <2>3
<1>7. ASSUME NEW t \in Turn, Passes(t) PROVE Goal
  <2>1. /\ calls' = calls /\ effects' = effects /\ SameRequest
        /\ jobs' = jobs \union {Job(t, calls[t], "fs.delete")}
    BY <1>7 DEF Passes
  <2>2. calls[t] >= 1 /\ MayRun(t, "fs.delete")
    BY <1>7 DEF Passes, RequestInv, RequestOf
  <2>3. calls[t] \in 1 .. calls'[t] /\ "fs.delete" \in WriteTools
    BY <1>0, <2>1, <2>2 DEF WriteTools, FileTools
  <2> QED
    BY <1>5, <2>1, <2>2, <2>3
<1>8. ASSUME SameRequest, calls' = calls, jobs' \subseteq jobs,
             effects' = effects \/ \E j \in jobs : effects' = effects \union {Effect(j)}
      PROVE  Goal
  <2>1. CASE k \in jobs \union effects
    BY <1>1, <1>8, <2>1 DEF SameRequest
  <2>2. ASSUME NEW j \in jobs, k = Effect(j) PROVE Goal
    <3>1. k.turn = j.turn /\ k.at = j.at /\ k.tool = j.tool
      BY <2>2 DEF Effect
    <3> QED
      BY <1>1, <1>8, <3>1 DEF SameRequest
  <2> QED
    BY <1>8, <2>1, <2>2
<1>9. ASSUME NEW j \in jobs, Ends(j) PROVE Goal
  BY <1>8, <1>9 DEF Ends, Streams
<1>10. ASSUME NEW ts \in SUBSET Turn, Drops(ts) PROVE Goal
  BY <1>8, <1>10 DEF Drops
<1>11. CASE Elsewhere
  BY <1>3, <1>11 DEF Elsewhere
<1> QED
  BY <1>2, <1>4, <1>6, <1>7, <1>9, <1>10, <1>11 DEF Kinds

-----------------------------------------------------------------------------
(* AnswersFitTurn *)

AnswerTypes == {"iteration", "chunk", "models"}

\* Event ev answers what such a request had said by then, and comes from its walk
\* or from an endpoint of the same name.
Suits(ev, walk, b, said) ==
    /\ 2 * ev.n <= Len(said)
    /\ ev.asked = [route |-> b.route, tools |-> b.tools, said |-> SubSeq(said, 1, 2 * ev.n)]
    /\ \E p \in walk : IF ev.hit THEN ProviderKey(p) = ProviderKey(ev.by) ELSE p = ev.by

\* The answers in t's stream are to the messages of t.
Own(t) ==
    \A i \in 1 .. Len(events[t]) :
        events[t][i].type \in AnswerTypes => Suits(events[t][i], router[t], body[t], transcript[t])

\* What suits a request still does when more is said.
LEMMA SuitsLater ==
    ASSUME NEW ev \in Event, ev.type \in AnswerTypes, NEW walk, NEW b,
           NEW said \in Seq(Said), NEW m \in Said, Suits(ev, walk, b, said)
    PROVE  Suits(ev, walk, b, Append(said, m))
<1>1. ev.n \in Nat
  BY DEF Event, AnswerTypes
<1>2. 2 * ev.n \in 0 .. Len(said) /\ Len(said) \in Nat
  BY <1>1, LenProperties DEF Suits
<1>3. /\ SubSeq(Append(said, m), 1, 2 * ev.n) = SubSeq(said, 1, 2 * ev.n)
      /\ Len(Append(said, m)) = Len(said) + 1
  BY <1>2, SaidBefore
<1>4. 2 * ev.n <= Len(Append(said, m))
  BY <1>2, <1>3
<1> QED
  BY <1>3, <1>4 DEF Suits

LEMMA OwnAnswers ==
    ASSUME TypeInv, RequestInv, \A t \in Turn : Own(t)
    PROVE  AnswersFitTurn
<1> SUFFICES ASSUME NEW t \in Turn, NEW i \in Answers(t)
             PROVE  LET ev == events[t][i] IN
                    /\ router[t] \subseteq IF keyed[t] THEN Account ELSE Provider
                    /\ ev.asked = [Messages(t) EXCEPT !.said = SubSeq(transcript[t], 1, 2 * ev.n)]
                    /\ \E p \in router[t] : IF ev.hit THEN ProviderKey(p) = ProviderKey(ev.by)
                                                     ELSE p = ev.by
  BY DEF AnswersFitTurn
<1>1. i \in 1 .. Len(events[t]) /\ events[t][i].type \in AnswerTypes
  BY LenProperties DEF TypeInv, RequestTypes, Answers, AnswerTypes
<1>2. Suits(events[t][i], router[t], body[t], transcript[t])
  BY <1>1 DEF Own
<1>3. \A s : [Messages(t) EXCEPT !.said = s] = [route |-> body[t].route, tools |-> body[t].tools, said |-> s]
  BY DEF Messages
<1>4. router[t] \subseteq IF keyed[t] THEN Account ELSE Provider
  <2>1. events[t] # <<>>
    BY <1>1, EmptySeq
  <2>2. pc[t] \in Accepted
    <3>1. pc[t] \notin Early \union {"lost"}
      BY <2>1 DEF RequestInv, RequestOf
    <3>2. pc[t] \in InFlight \union {"idle", "refused", "sent", "lost"}
      BY DEF TypeInv, RequestTypes
    <3> QED
      BY <3>1, <3>2 DEF Early, Accepted, InFlight
  <2> QED
    BY <2>2 DEF RequestInv, RequestOf
<1> QED
  BY <1>2, <1>3, <1>4 DEF Suits

LEMMA NextOwn ==
    TypeInv /\ RequestInv /\ WorkInv /\ (\A t \in Turn : Own(t)) /\ Kinds => \A t \in Turn : Own(t)'
<1> SUFFICES ASSUME TypeInv, RequestInv, WorkInv, \A t \in Turn : Own(t), Kinds, NEW u \in Turn
             PROVE  Own(u)'
  OBVIOUS
<1> DEFINE Stays ==
             /\ router'[u] = router[u] /\ body'[u] = body[u]
             /\ \/ transcript'[u] = transcript[u]
                \/ \E m \in Said : transcript'[u] = Append(transcript[u], m)
<1>0. Own(u) /\ RequestOf(u) /\ events[u] \in Seq(Event) /\ transcript[u] \in Seq(Said)
  BY DEF RequestInv, TypeInv, RequestTypes, TalkTypes
<1>a. ASSUME Stays, NEW ev \in Event, ev.type \in AnswerTypes,
             Suits(ev, router[u], body[u], transcript[u])
      PROVE  Suits(ev, router'[u], body'[u], transcript'[u])
  BY <1>0, <1>a, SuitsLater
<1> HIDE DEF Stays
<1>b. \A i \in 1 .. Len(events[u]) : events[u][i] \in Event
  BY <1>0, ElementOfSeq
<1>1. ASSUME events'[u] = events[u], Stays
      PROVE  Own(u)'
  BY <1>0, <1>1, <1>a, <1>b DEF Own
<1>2. ASSUME events'[u] = <<>> PROVE Own(u)'
  <2>1. Len(<<>>) = 0
    BY EmptySeq
  <2> QED
    BY <1>2, <2>1 DEF Own
<1>3. ASSUME NEW t \in Turn, NEW new, NEW to, Streams(t, new, to),
             Says(t) \/ transcript' = transcript,
             \A i \in 1 .. Len(new) :
                new[i].type \in AnswerTypes => Suits(new[i], router[t], body[t], transcript[t])
      PROVE  Own(u)'
  <2>0. Stays
    BY <1>3 DEF Stays, Streams, SameRequest, Says
  <2>1. CASE u # t
    BY <1>1, <1>3, <2>0, <2>1 DEF Streams
  <2>2. CASE u = t
    <3>1. new \in Seq(Event) /\ events'[u] = events[u] \o new
      BY <1>3, <2>2 DEF Streams
    <3>2. /\ \A i \in 1 .. Len(events[u]) : events'[u][i] = events[u][i]
          /\ \A i \in 1 .. Len(new) : events'[u][Len(events[u]) + i] = new[i]
          /\ \A i \in 1 .. Len(events'[u]) :
               i \in 1 .. Len(events[u]) \/ \E k \in 1 .. Len(new) : i = Len(events[u]) + k
      <4> DEFINE old == events[u]
      <4>1. /\ \A i \in 1 .. Len(old) : (old \o new)[i] = old[i]
            /\ \A i \in 1 .. Len(new) : (old \o new)[Len(old) + i] = new[i]
            /\ \A i \in 1 .. Len(old \o new) :
                 i \in 1 .. Len(old) \/ \E k \in 1 .. Len(new) : i = Len(old) + k
        BY <1>0, <3>1, Grown
      <4>2. events'[u] = old \o new
        BY <3>1
      <4> QED
        BY <4>1, <4>2
    <3> SUFFICES ASSUME NEW i \in 1 .. Len(events'[u]), events'[u][i].type \in AnswerTypes
                 PROVE  Suits(events'[u][i], router'[u], body'[u], transcript'[u])
      BY DEF Own
    <3>3. CASE i \in 1 .. Len(events[u])
      BY <1>0, <1>a, <1>b, <2>0, <3>2, <3>3 DEF Own
    <3>4. ASSUME NEW k \in 1 .. Len(new), i = Len(events[u]) + k
          PROVE  Suits(events'[u][i], router'[u], body'[u], transcript'[u])
      <4>1. events'[u][i] = new[k] /\ new[k] \in Event
        BY <3>1, <3>2, <3>4, ElementOfSeq
      <4>2. Suits(new[k], router[u], body[u], transcript[u])
        BY <1>3, <2>2, <3>4, <4>1
      <4> QED
        BY <1>a, <2>0, <4>1, <4>2
    <3> QED
      BY <3>2, <3>3, <3>4
  <2> QED
    BY <2>1, <2>2
<1>4. ASSUME NEW t \in Turn, Admits(t) PROVE Own(u)'
  <2>1. CASE u # t
    BY <1>1, <1>4, <2>1 DEF Admits, Stays
  <2>2. CASE u = t
    BY <1>0, <1>2, <1>4, <2>2 DEF Admits, RequestOf, Early
  <2> QED
    BY <2>1, <2>2
<1>5. ASSUME NEW t \in Turn, Replies(t) PROVE Own(u)'
  <2>1. PICK new \in Seq(Event) : Answered(t, new) /\ Streams(t, new, pc'[t])
    BY <1>5 DEF Replies
  <2>2. Says(t) \/ transcript' = transcript
    BY <1>5 DEF Replies
  <2>3. \A i \in 1 .. Len(new) :
          new[i].type \in AnswerTypes => Suits(new[i], router[t], body[t], transcript[t])
    <3> SUFFICES ASSUME NEW i \in 1 .. Len(new), new[i].type \in AnswerTypes
                 PROVE  Suits(new[i], router[t], body[t], transcript[t])
      OBVIOUS
    <3>1. Fits(t, new[i])
      BY <2>1 DEF Answered, AnswerTypes
    <3>2. /\ transcript[t] \in Seq(Said) /\ Len(transcript[t]) = 2 * n[t] /\ n[t] \in Nat
      BY <1>5 DEF Replies, RequestInv, RequestOf, TypeInv, TalkTypes, RequestTypes
    <3>3. SubSeq(transcript[t], 1, 2 * n[t]) = transcript[t]
      BY <3>2, SubSeqFull
    <3>4. /\ new[i].n = n[t]
          /\ new[i].asked = [route |-> body[t].route, tools |-> body[t].tools, said |-> transcript[t]]
          /\ \E p \in router[t] : IF new[i].hit THEN ProviderKey(p) = ProviderKey(new[i].by)
                                                ELSE p = new[i].by
      BY <3>1 DEF Fits, Messages
    <3>5. 2 * new[i].n <= Len(transcript[t])
      BY <3>2, <3>4
    <3>6. SubSeq(transcript[t], 1, 2 * new[i].n) = transcript[t]
      BY <3>3, <3>4
    <3> QED
      BY <3>4, <3>5, <3>6 DEF Suits
  <2> QED
    BY <1>3, <2>1, <2>2, <2>3
<1>6. ASSUME NEW t \in Turn, NEW a \in Event, NEW to, Streams(t, <<a>>, to),
             Says(t) \/ transcript' = transcript, a.type \notin AnswerTypes
      PROVE  Own(u)'
  <2>1. \A i \in 1 .. Len(<<a>>) : <<a>>[i] = a
    BY Singles
  <2> QED
    BY <1>3, <1>6, <2>1
<1>7. ASSUME NEW at \in Nat, NEW tool \in Tool, NEW ok \in BOOLEAN
      PROVE  ToolResult(at, tool, ok) \in Event /\ ToolResult(at, tool, ok).type \notin AnswerTypes
  BY EventTypes DEF ToolResult, AnswerTypes
<1>8. ASSUME NEW t \in Turn, NEW tool \in Tool
      PROVE  /\ Call1(t, tool) \in Event /\ Call1(t, tool).type \notin AnswerTypes
             /\ calls[t] \in Nat /\ calls[t] + 1 \in Nat
  <2>1. calls[t] \in Nat /\ calls[t] + 1 \in Nat
    BY DEF TypeInv, RequestTypes
  <2> QED
    BY <2>1, EventTypes DEF Call1, AnswerTypes
<1>9. ASSUME NEW t \in Turn, Calls1(t) PROVE Own(u)'
  <2>1. PICK tool \in Tool, ok \in BOOLEAN :
          Streams(t, <<Call1(t, tool), ToolResult(calls[t] + 1, tool, ok)>>, "run")
    BY <1>9 DEF Calls1
  <2> DEFINE a == Call1(t, tool)
             b == ToolResult(calls[t] + 1, tool, ok)
  <2>2. /\ a \in Event /\ a.type \notin AnswerTypes /\ b \in Event /\ b.type \notin AnswerTypes
    BY <1>7, <1>8
  <2> HIDE DEF a, b
  <2>3. \A i \in 1 .. Len(<<a, b>>) : <<a, b>>[i] = a \/ <<a, b>>[i] = b
    BY <2>2, Pairs
  <2>4. transcript' = transcript
    BY <1>9 DEF Calls1, Calling
  <2>5. Streams(t, <<a, b>>, "run")
    BY <2>1 DEF a, b
  <2> QED
    BY <1>3, <2>2, <2>3, <2>4, <2>5
<1>10. ASSUME NEW t \in Turn, Starts(t) \/ Checks(t) PROVE Own(u)'
  <2>1. \E tool \in Tool : \E to : Streams(t, <<Call1(t, tool)>>, to)
    <3>1. WriteTools \subseteq Tool /\ "fs.delete" \in Tool
      BY DEF WriteTools, FileTools, KnownTools, Tool
    <3> QED
      BY <1>10, <3>1 DEF Starts, Checks
  <2>2. transcript' = transcript
    BY <1>10 DEF Starts, Checks, Calling
  <2> QED
    BY <1>6, <1>8, <2>1, <2>2
<1>11. ASSUME NEW t \in Turn, Fails(t) PROVE Own(u)'
  <2>1. transcript' = transcript
    BY <1>11 DEF Fails
  <2>2. PICK tool \in Tool, ok \in BOOLEAN : Streams(t, <<ToolResult(calls[t], tool, ok)>>, "run")
    BY <1>11 DEF Fails
  <2> QED
    BY <1>6, <1>7, <1>8, <2>1, <2>2
<1>12. ASSUME NEW t \in Turn, Passes(t) PROVE Own(u)'
  BY <1>1, <1>12 DEF Passes, SameRequest, Stays
<1>13. ASSUME NEW t \in Turn, Iterates(t) PROVE Own(u)'
  <2>1. CASE Streams(t, <<Terminal("done")>>, "sent")
    <3>1. Terminal("done") \in Event /\ Terminal("done").type \notin AnswerTypes
      BY EventTypes DEF Terminal, AnswerTypes
    <3>2. Says(t)
      BY <1>13 DEF Iterates
    <3> QED
      BY <1>6, <2>1, <3>1, <3>2
  <2>2. CASE SameRequest /\ events' = events
    <3>1. Stays
      BY <1>0, <1>13, <2>2 DEF SameRequest, Iterates, Says, Stays
    <3> QED
      BY <1>1, <2>2, <3>1
  <2> QED
    BY <1>13, <2>1, <2>2 DEF Iterates
<1>14. ASSUME NEW j \in jobs, Ends(j) PROVE Own(u)'
  <2>1. j.turn \in Turn /\ j.at \in Nat /\ j.tool \in Tool /\ transcript' = transcript
    BY <1>14 DEF WorkInv, Tool, KnownTools, Ends
  <2>2. CASE Awaited(j)
    <3>1. PICK ok \in BOOLEAN : Streams(j.turn, <<ToolResult(j.at, j.tool, ok)>>, "run")
      BY <1>14, <2>2 DEF Ends
    <3> QED
      BY <1>6, <1>7, <2>1, <3>1
  <2>3. CASE ~Awaited(j)
    BY <1>1, <1>14, <2>3 DEF Ends, SameRequest, Stays
  <2> QED
    BY <2>2, <2>3
<1>15. ASSUME NEW ts \in SUBSET Turn, Drops(ts) PROVE Own(u)'
  BY <1>1, <1>2, <1>15 DEF Drops, SameRequest, Stays
<1>16. CASE Elsewhere
  BY <1>1, <1>16 DEF Elsewhere, SameRequest, Stays
<1> QED
  BY <1>4, <1>5, <1>9, <1>10, <1>11, <1>12, <1>13, <1>14, <1>15, <1>16 DEF Kinds

-----------------------------------------------------------------------------
(* EffectsTold *)

\* A stream that grows keeps its results.
LEMMA ResultStays ==
    ASSUME NEW t, events[t] \in Seq(Event), NEW new \in Seq(Event), events'[t] = events[t] \o new,
           NEW at
    PROVE  /\ HasResult(t, at) => HasResult(t, at)'
           /\ \A k \in 1 .. Len(new) :
                new[k].type = "tool_result" /\ new[k].at = at => HasResult(t, at)'
<1> DEFINE old == events[t]
<1>1. /\ Len(old) \in Nat /\ Len(new) \in Nat /\ Len(old \o new) = Len(old) + Len(new)
      /\ \A i \in 1 .. Len(old) : (old \o new)[i] = old[i]
      /\ \A i \in 1 .. Len(new) : (old \o new)[Len(old) + i] = new[i]
  BY Grown
<1>2. /\ Len(events'[t]) = Len(old) + Len(new)
      /\ \A i \in 1 .. Len(old) : events'[t][i] = old[i]
      /\ \A i \in 1 .. Len(new) : events'[t][Len(old) + i] = new[i]
  BY <1>1
<1>3. \A i \in 1 .. Len(new) : Len(old) + i \in 1 .. Len(events'[t])
  BY <1>1, <1>2
<1>4. \A i \in 1 .. Len(old) : i \in 1 .. Len(events'[t])
  BY <1>1, <1>2
<1> HIDE DEF old
<1> QED
  BY <1>2, <1>3, <1>4 DEF HasResult, old

\* Turn u's stream when its events stay.
LEMMA StreamStays ==
    ASSUME NEW u \in Turn, StreamOf(u), events'[u] = events[u], pc'[u] = pc[u], calls'[u] = calls[u],
           effects \subseteq effects'
    PROVE  StreamOf(u)'
BY DEF StreamOf

\* Turn t's stream when it grows.
LEMMA StreamGrows ==
    ASSUME TypeInv, NEW t \in Turn, StreamOf(t), NEW new, NEW to, Streams(t, new, to),
           effects \subseteq effects',
           pc[t] \in {"check", "job"} =>
             Len(new) >= 1 /\ new[1].type = "tool_result" /\ new[1].at = calls[t],
           \A k \in 1 .. Len(new) :
             /\ new[k].type = "tool_call" =>
                  \/ /\ k + 1 \in 1 .. Len(new) /\ new[k + 1].type = "tool_result"
                     /\ new[k + 1].at = new[k].at
                  \/ /\ k = Len(new) /\ to \in {"check", "job"}
                     /\ new[k].at = calls'[t]
             /\ new[k].type = "tool_result" /\ new[k].ok /\ new[k].tool \in FileTools =>
                  \E e \in effects' : e.turn = t /\ e.at = new[k].at
    PROVE  StreamOf(t)'
<1> DEFINE old == events[t]
           L == Len(old)
           s == events'[t]
<1>1. /\ old \in Seq(Event) /\ new \in Seq(Event)
      /\ s = old \o new /\ pc'[t] = to
  BY DEF TypeInv, RequestTypes, Streams
<1>2. /\ L \in Nat /\ Len(new) \in Nat /\ Len(s) = L + Len(new)
      /\ \A i \in 1 .. L : s[i] = old[i]
      /\ \A k \in 1 .. Len(new) : s[L + k] = new[k]
      /\ \A i \in 1 .. Len(s) : i \in 1 .. L \/ \E k \in 1 .. Len(new) : i = L + k
  <2>1. /\ L \in Nat /\ Len(new) \in Nat /\ Len(old \o new) = L + Len(new)
        /\ \A i \in 1 .. L : (old \o new)[i] = old[i]
        /\ \A k \in 1 .. Len(new) : (old \o new)[L + k] = new[k]
        /\ \A i \in 1 .. Len(old \o new) : i \in 1 .. L \/ \E k \in 1 .. Len(new) : i = L + k
    BY <1>1, Grown
  <2> HIDE DEF old, L
  <2> QED
    BY <1>1, <2>1
<1> DEFINE Fine(i) ==
      /\ s[i].type = "tool_call" =>
           \/ /\ i < Len(s) /\ s[i + 1].type = "tool_result"
              /\ s[i + 1].at = s[i].at
           \/ /\ i = Len(s) /\ to \in {"check", "job"}
              /\ s[i].at = calls'[t]
      /\ s[i].type = "tool_result" /\ s[i].ok /\ s[i].tool \in FileTools =>
           \E e \in effects' : e.turn = t /\ e.at = s[i].at
<1>3. ASSUME NEW i \in 1 .. L PROVE Fine(i)
  <2>1. /\ old[i].type = "tool_call" =>
             \/ /\ i < L /\ old[i + 1].type = "tool_result"
                /\ old[i + 1].at = old[i].at
             \/ /\ i = L /\ pc[t] \in {"check", "job"}
                /\ old[i].at = calls[t]
        /\ old[i].type = "tool_result" /\ old[i].ok /\ old[i].tool \in FileTools =>
             \E e \in effects : e.turn = t /\ e.at = old[i].at
    BY <1>3 DEF StreamOf
  <2>2. s[i] = old[i]
    BY <1>2
  <2>4. ASSUME old[i].type = "tool_call", i < L
        PROVE  i < Len(s) /\ s[i + 1] = old[i + 1]
    <3> HIDE DEF s, L, old
    <3>1. i + 1 \in 1 .. L /\ i < Len(s)
      BY <1>2, <1>3, <2>4
    <3> QED
      BY <1>2, <3>1
  <2>5. ASSUME i = L, pc[t] \in {"check", "job"}
        PROVE  i < Len(s) /\ s[i + 1].type = "tool_result" /\ s[i + 1].at = calls[t]
    <3>1. Len(new) >= 1 /\ new[1].type = "tool_result" /\ new[1].at = calls[t]
      BY <2>5
    <3>2. s[L + 1] = new[1]
      BY <1>2, <3>1
    <3> HIDE DEF s, L
    <3> QED
      BY <1>2, <2>5, <3>1, <3>2
  <2> HIDE DEF s, L, old
  <2>6. s[i].type = "tool_call" =>
           \/ /\ i < Len(s) /\ s[i + 1].type = "tool_result"
              /\ s[i + 1].at = s[i].at
           \/ /\ i = Len(s) /\ to \in {"check", "job"}
              /\ s[i].at = calls'[t]
    BY <2>1, <2>2, <2>4, <2>5
  <2>7. s[i].type = "tool_result" /\ s[i].ok /\ s[i].tool \in FileTools =>
           \E e \in effects' : e.turn = t /\ e.at = s[i].at
    BY <2>1, <2>2
  <2> QED
    BY <2>6, <2>7
<1>4. ASSUME NEW k \in 1 .. Len(new) PROVE Fine(L + k)
  <2> HIDE DEF s, L, old, Fine
  <2>1. s[L + k] = new[k]
    BY <1>2
  <2>2. k \in Nat /\ L \in Nat /\ L + k + 1 = L + (k + 1)
    BY <1>2
  <2>3. k + 1 \in 1 .. Len(new) => s[L + k + 1] = new[k + 1] /\ L + k < Len(s)
    <3>1. k + 1 \in 1 .. Len(new) => s[L + (k + 1)] = new[k + 1]
      BY <1>2
    <3>2. k + 1 \in 1 .. Len(new) => L + k < Len(s)
      BY <1>2
    <3> QED
      BY <2>2, <3>1, <3>2
  <2>4. k = Len(new) => L + k = Len(s)
    BY <1>2
  <2>5. ASSUME s[L + k].type = "tool_call"
        PROVE  \/ /\ L + k < Len(s) /\ s[L + k + 1].type = "tool_result"
                  /\ s[L + k + 1].at = s[L + k].at
               \/ /\ L + k = Len(s) /\ to \in {"check", "job"}
                  /\ s[L + k].at = calls'[t]
    <3>1. \/ /\ k + 1 \in 1 .. Len(new) /\ new[k + 1].type = "tool_result"
             /\ new[k + 1].at = new[k].at
          \/ /\ k = Len(new) /\ to \in {"check", "job"} /\ new[k].at = calls'[t]
      BY <2>1, <2>5
    <3> QED
      BY <2>1, <2>3, <2>4, <3>1
  <2>6. s[L + k].type = "tool_result" /\ s[L + k].ok /\ s[L + k].tool \in FileTools =>
           \E e \in effects' : e.turn = t /\ e.at = s[L + k].at
    BY <2>1
  <2> QED
    BY <2>5, <2>6 DEF Fine
<1>5. \A i \in 1 .. Len(s) : Fine(i)
  <2> HIDE DEF Fine, s, L, old
  <2> QED
    BY <1>2, <1>3, <1>4
<1> QED
  BY <1>1, <1>5 DEF StreamOf

\* Turns of work have their types.
LEMMA WorkPlaces ==
    ASSUME TypeInv, WorkInv, NEW j \in jobs \union effects
    PROVE  /\ j.turn \in Turn /\ calls[j.turn] \in Nat /\ j.at \in Nat
           /\ j.at >= 1 /\ j.at <= calls[j.turn]
<1>1. j.turn \in Turn /\ j.at \in 1 .. calls[j.turn]
  BY DEF WorkInv
<1>2. calls[j.turn] \in Nat
  BY <1>1 DEF TypeInv, RequestTypes
<1> QED
  BY <1>1, <1>2

\* What is told of a turn that does not move.
LEMMA ToldStays ==
    ASSUME NEW u, events'[u] = events[u], pc'[u] = pc[u], calls'[u] = calls[u], NEW at
    PROVE  Waits(u, at) \/ HasResult(u, at) => Waits(u, at)' \/ HasResult(u, at)'
BY DEF Waits, HasResult

\* The call begun last is waited for, or told.
Current(t) == Waits(t, calls[t]) \/ HasResult(t, calls[t])

\* Told, when turn t's stream grows and answers whatever was waited for.
LEMMA ToldGrows ==
    ASSUME TypeInv, WorkInv, Told, NEW t \in Turn, NEW new, NEW to, Streams(t, new, to), pc[t] # "lost",
           \A u \in Turn : u # t => calls'[u] = calls[u],
           pc[t] = "job" => \E k \in 1 .. Len(new) :
                              new[k].type = "tool_result" /\ new[k].at = calls[t],
           \A j \in jobs' \union effects' :
             j \in jobs \union effects \/ (j.turn = t /\ j.at = calls'[t]),
           jobs' \union effects' \subseteq jobs \union effects \/ Current(t)'
    PROVE  Told'
<1> SUFFICES ASSUME NEW j \in jobs' \union effects', pc'[j.turn] # "lost"
             PROVE  Waits(j.turn, j.at)' \/ HasResult(j.turn, j.at)'
  BY DEF Told
<1>1. CASE j \notin jobs \union effects
  <2>1. j.turn = t /\ j.at = calls'[t] /\ Current(t)'
    BY <1>1
  <2> QED
    BY <2>1 DEF Current
<1>2. CASE j \in jobs \union effects
  <2>1. j.turn \in Turn
    BY <1>2, WorkPlaces
  <2>2. CASE j.turn # t
    <3>1. /\ events'[j.turn] = events[j.turn] /\ pc'[j.turn] = pc[j.turn]
          /\ calls'[j.turn] = calls[j.turn]
      BY <2>1, <2>2 DEF Streams
    <3> QED
      BY <1>2, <3>1, ToldStays DEF Told
  <2>3. CASE j.turn = t
    <3>1. /\ events[t] \in Seq(Event) /\ new \in Seq(Event) /\ events'[t] = events[t] \o new
      BY DEF Streams, TypeInv, RequestTypes
    <3>2. /\ HasResult(t, j.at) => HasResult(t, j.at)'
          /\ \A k \in 1 .. Len(new) :
               new[k].type = "tool_result" /\ new[k].at = j.at => HasResult(t, j.at)'
      BY <3>1, ResultStays
    <3>3. Waits(t, j.at) \/ HasResult(t, j.at)
      BY <1>2, <2>3 DEF Told
    <3>4. Waits(t, j.at) => HasResult(t, j.at)'
      BY <3>2 DEF Waits
    <3> QED
      BY <2>3, <3>2, <3>3, <3>4
  <2> QED
    BY <2>2, <2>3
<1> QED
  BY <1>1, <1>2

\* OneJob, when nothing begins.
LEMMA OneJobStays ==
    ASSUME TypeInv, WorkInv, OneJob, jobs' \subseteq jobs,
           \A u \in Turn : pc'[u] = "check" => pc[u] = "check" /\ calls'[u] = calls[u]
    PROVE  OneJob'
<1>1. \A j \in jobs' : j \in jobs /\ j.turn \in Turn
  BY WorkPlaces
<1> QED
  BY <1>1 DEF OneJob

\* The streams of the turns that do not move.
LEMMA OtherStreams ==
    ASSUME Stream, NEW t \in Turn, StreamOf(t)', effects \subseteq effects',
           \A u \in Turn : u # t =>
             events'[u] = events[u] /\ pc'[u] = pc[u] /\ calls'[u] = calls[u]
    PROVE  Stream'
<1>1. ASSUME NEW u \in Turn, u # t PROVE StreamOf(u)'
  <2>1. StreamOf(u)
    BY DEF Stream
  <2> QED
    BY <1>1, <2>1, StreamStays
<1> QED
  BY <1>1 DEF Stream

\* The stream of a turn that has told nothing.
LEMMA EmptyStream ==
    ASSUME NEW u, events'[u] = <<>>
    PROVE  StreamOf(u)'
<1>1. Len(events'[u]) = 0
  BY EmptySeq
<1> QED
  BY <1>1 DEF StreamOf

\* Awaits, when only turn t moves or gets a job.
LEMMA AwaitsStays ==
    ASSUME TypeInv, WorkInv, Awaits, NEW t \in Turn,
           \A u \in Turn : u # t => pc'[u] = pc[u] /\ calls'[u] = calls[u],
           \A j \in jobs' : j \in jobs \/ j.turn = t,
           \A j \in jobs' : j.turn = t /\ j.tool \in FileTools => pc'[t] = "job" /\ calls'[t] = j.at
    PROVE  Awaits'
<1> SUFFICES ASSUME NEW j \in jobs', j.tool \in FileTools, pc'[j.turn] # "lost"
             PROVE  pc'[j.turn] = "job" /\ calls'[j.turn] = j.at
  BY DEF Awaits, Waits
<1>1. CASE j.turn = t
  BY <1>1
<1>2. CASE j.turn # t
  <2>1. j \in jobs /\ j.turn \in Turn
    BY <1>2, WorkPlaces
  <2>2. pc'[j.turn] = pc[j.turn] /\ calls'[j.turn] = calls[j.turn]
    BY <1>2, <2>1
  <2> QED
    BY <2>1, <2>2 DEF Awaits, Waits
<1> QED
  BY <1>1, <1>2

\* The same when t was waiting for nothing and gets no job.
LEMMA AwaitsIdle ==
    ASSUME TypeInv, WorkInv, Awaits, NEW t \in Turn,
           pc[t] \notin {"job", "lost"}, jobs' = jobs,
           \A u \in Turn : u # t => pc'[u] = pc[u] /\ calls'[u] = calls[u]
    PROVE  Awaits'
<1>1. \A j \in jobs' : ~(j.turn = t /\ j.tool \in FileTools)
  BY DEF Awaits, Waits
<1> QED
  BY <1>1, AwaitsStays

Inv == TypeInv /\ RequestInv /\ WorkInv /\ ToldInv

LEMMA AdmitsTold ==
    ASSUME Inv, NEW t \in Turn, Admits(t)
    PROVE  ToldInv'
<1>1. /\ pc[t] \in {"idle", "open"} /\ calls[t] = 0 /\ events[t] = <<>>
      /\ jobs' = jobs /\ effects' = effects /\ calls' = calls /\ events' = events
      /\ \A u \in Turn : u # t => pc'[u] = pc[u]
      /\ pc'[t] \in {"open", "refused", "ask", "list"}
  BY DEF Inv, RequestInv, RequestOf, Early, Admits, SameWork
<1>2. ASSUME NEW j \in jobs \union effects PROVE j.turn \in Turn /\ j.turn # t
  BY <1>1, WorkPlaces DEF Inv
<1>3. Told'
  <2> SUFFICES ASSUME NEW j \in jobs \union effects, pc'[j.turn] # "lost"
               PROVE  Waits(j.turn, j.at)' \/ HasResult(j.turn, j.at)'
    BY <1>1 DEF Told
  <2>1. events'[j.turn] = events[j.turn] /\ pc'[j.turn] = pc[j.turn] /\ calls'[j.turn] = calls[j.turn]
    BY <1>1, <1>2
  <2> QED
    BY <2>1, ToldStays DEF Inv, ToldInv, Told
<1>4. OneJob'
  BY <1>1, OneJobStays DEF Inv, ToldInv
<1>5. Stream'
  <2>1. StreamOf(t)'
    BY <1>1, EmptyStream
  <2> QED
    BY <1>1, <2>1, OtherStreams DEF Inv, ToldInv
<1>6. Awaits'
  BY <1>1, AwaitsIdle DEF Inv, ToldInv
<1> QED
  BY <1>3, <1>4, <1>5, <1>6 DEF ToldInv

LEMMA RepliesTold ==
    ASSUME Inv, NEW t \in Turn, Replies(t)
    PROVE  ToldInv'
<1>1. /\ pc[t] \in {"ask", "list"} /\ jobs' = jobs /\ effects' = effects /\ calls' = calls
      /\ pc'[t] \in {"run", "sent"}
  BY DEF Replies, SameWork
<1>2. PICK new \in Seq(Event) : Answered(t, new) /\ Streams(t, new, pc'[t])
  BY DEF Replies
<1>3. \A k \in 1 .. Len(new) : new[k].type \notin {"tool_call", "tool_result"}
  BY <1>2 DEF Answered
<1>4. \A u \in Turn : u # t => events'[u] = events[u] /\ pc'[u] = pc[u]
  BY <1>2 DEF Streams
<1>5. Told'
  <2>1. /\ jobs' \union effects' \subseteq jobs \union effects
        /\ \A j \in jobs' \union effects' : j \in jobs \union effects
    BY <1>1
  <2>2. pc[t] # "lost" /\ pc[t] # "job" /\ \A u \in Turn : u # t => calls'[u] = calls[u]
    BY <1>1
  <2>3. TypeInv /\ WorkInv /\ Told
    BY DEF Inv, ToldInv
  <2> QED
    BY <1>2, <2>1, <2>2, <2>3, ToldGrows
<1>6. OneJob'
  BY <1>1, <1>4, OneJobStays DEF Inv, ToldInv
<1>7. StreamOf(t)'
  <2>1. StreamOf(t)
    BY DEF Inv, ToldInv, Stream
  <2> QED
    BY <1>1, <1>2, <1>3, <2>1, StreamGrows DEF Inv
<1>8. Stream'
  BY <1>1, <1>4, <1>7, OtherStreams DEF Inv, ToldInv
<1>9. Awaits'
  BY <1>1, <1>4, AwaitsIdle DEF Inv, ToldInv
<1> QED
  BY <1>5, <1>6, <1>8, <1>9 DEF ToldInv

\* The events of a call.
LEMMA CallEvents ==
    ASSUME TypeInv, NEW t \in Turn, NEW at \in Nat, NEW tool \in Tool, NEW ok \in BOOLEAN
    PROVE  /\ Call1(t, tool) \in Event /\ ToolResult(at, tool, ok) \in Event
           /\ Call1(t, tool).type = "tool_call" /\ Call1(t, tool).at = calls[t] + 1
           /\ ToolResult(at, tool, ok).type = "tool_result"
           /\ ToolResult(at, tool, ok).at = at /\ ToolResult(at, tool, ok).ok = ok
           /\ ToolResult(at, tool, ok).tool = tool
<1>1. calls[t] + 1 \in Nat
  BY DEF TypeInv, RequestTypes
<1> QED
  BY <1>1, EventTypes DEF Call1, ToolResult

LEMMA Calls1Told ==
    ASSUME Inv, NEW t \in Turn, Calls1(t)
    PROVE  ToldInv'
<1>1. /\ pc[t] = "run" /\ jobs' = jobs /\ effects' = effects /\ calls'[t] = calls[t] + 1
      /\ \A u \in Turn : u # t => calls'[u] = calls[u]
      /\ calls[t] \in Nat
  BY DEF Calls1, Calling, SameWork, Inv, TypeInv, RequestTypes
<1>2. PICK tool \in Tool, ok \in BOOLEAN :
        /\ ok => tool \notin FileTools
        /\ Streams(t, <<Call1(t, tool), ToolResult(calls[t] + 1, tool, ok)>>, "run")
  BY DEF Calls1
<1> DEFINE call == Call1(t, tool)
           result == ToolResult(calls[t] + 1, tool, ok)
           new == <<call, result>>
<1>3. /\ Len(new) = 2 /\ new[1].type = "tool_call"
      /\ new[1].at = calls[t] + 1 /\ new[2].type = "tool_result" /\ new[2].at = calls[t] + 1
      /\ ~(new[2].ok /\ new[2].tool \in FileTools)
  <2>1. /\ call \in Event /\ result \in Event
        /\ call.type = "tool_call" /\ call.at = calls[t] + 1
        /\ result.type = "tool_result" /\ result.at = calls[t] + 1
        /\ ~(result.ok /\ result.tool \in FileTools)
    <3>1. calls[t] + 1 \in Nat
      BY <1>1
    <3> QED
      BY <1>2, <3>1, CallEvents DEF Inv
  <2> HIDE DEF call, result
  <2>2. Len(new) = 2 /\ new[1] = call /\ new[2] = result
    BY <2>1, Pairs
  <2> QED
    BY <2>1, <2>2
<1>4. Streams(t, new, "run")
  BY <1>2
<1> HIDE DEF new
<1>5. pc'[t] = "run" /\ \A u \in Turn : u # t => events'[u] = events[u] /\ pc'[u] = pc[u]
  BY <1>4 DEF Streams
<1>6. Told'
  <2>1. /\ jobs' \union effects' \subseteq jobs \union effects
        /\ \A j \in jobs' \union effects' : j \in jobs \union effects
    BY <1>1
  <2>2. pc[t] # "lost" /\ pc[t] # "job"
    BY <1>1
  <2>3. TypeInv /\ WorkInv /\ Told
    BY DEF Inv, ToldInv
  <2> QED
    BY <1>1, <1>4, <2>1, <2>2, <2>3, ToldGrows
<1>7. OneJob'
  BY <1>1, <1>5, OneJobStays DEF Inv, ToldInv
<1>8. StreamOf(t)'
  <2>1. StreamOf(t)
    BY DEF Inv, ToldInv, Stream
  <2>3. \A k \in 1 .. Len(new) :
             /\ new[k].type = "tool_call" =>
                  \/ /\ k + 1 \in 1 .. Len(new) /\ new[k + 1].type = "tool_result"
                     /\ new[k + 1].at = new[k].at
                  \/ /\ k = Len(new) /\ "run" \in {"check", "job"}
                     /\ new[k].at = calls'[t]
             /\ new[k].type = "tool_result" /\ new[k].ok /\ new[k].tool \in FileTools =>
                  \E e \in effects' : e.turn = t /\ e.at = new[k].at
    <3>1. \A k \in 1 .. Len(new) : k = 1 \/ k = 2
      BY <1>3
    <3>2. 1 + 1 = 2 /\ 2 \in 1 .. Len(new)
      BY <1>3
    <3> QED
      BY <1>1, <1>3, <3>1, <3>2
  <2> QED
    BY <1>1, <1>4, <2>1, <2>3, StreamGrows DEF Inv
<1>9. Stream'
  BY <1>1, <1>5, <1>8, OtherStreams DEF Inv, ToldInv
<1>10. Awaits'
  BY <1>1, <1>5, AwaitsIdle DEF Inv, ToldInv
<1> QED
  BY <1>6, <1>7, <1>9, <1>10 DEF ToldInv

\* A stream that only grows by the event of a call.
LEMMA CallStream ==
    ASSUME Inv, NEW t \in Turn, Calling(t), NEW tool \in Tool, NEW to \in {"check", "job"},
           Streams(t, <<Call1(t, tool)>>, to), effects' = effects
    PROVE  StreamOf(t)'
<1> DEFINE new == <<Call1(t, tool)>>
<1>1. calls[t] \in Nat /\ pc[t] = "run" /\ calls'[t] = calls[t] + 1
  BY DEF Inv, TypeInv, RequestTypes, Calling
<1>2. Call1(t, tool) \in Event /\ Call1(t, tool).type = "tool_call" /\ Call1(t, tool).at = calls[t] + 1
  <2>1. calls[t] + 1 \in Nat
    BY <1>1
  <2> QED
    BY <2>1, EventTypes DEF Call1
<1>3. Len(new) = 1 /\ new[1].type = "tool_call" /\ new[1].at = calls[t] + 1
  BY <1>2, Singles
<1>4. Streams(t, new, to)
  OBVIOUS
<1> HIDE DEF new
<1>5. \A k \in 1 .. Len(new) :
           /\ new[k].type = "tool_call" =>
                \/ /\ k + 1 \in 1 .. Len(new) /\ new[k + 1].type = "tool_result"
                   /\ new[k + 1].at = new[k].at
                \/ /\ k = Len(new) /\ to \in {"check", "job"}
                   /\ new[k].at = calls'[t]
           /\ new[k].type = "tool_result" /\ new[k].ok /\ new[k].tool \in FileTools =>
                \E e \in effects' : e.turn = t /\ e.at = new[k].at
  <2>1. \A k \in 1 .. Len(new) : k = 1
    BY <1>3
  <2> QED
    BY <1>1, <1>3, <2>1
<1>6. StreamOf(t) /\ TypeInv
  BY DEF Inv, ToldInv, Stream
<1> QED
  BY <1>1, <1>4, <1>5, <1>6, StreamGrows

LEMMA ChecksTold ==
    ASSUME Inv, NEW t \in Turn, Checks(t)
    PROVE  ToldInv'
<1>1. /\ pc[t] = "run" /\ jobs' = jobs /\ effects' = effects /\ calls'[t] = calls[t] + 1
      /\ \A u \in Turn : u # t => calls'[u] = calls[u]
      /\ calls[t] \in Nat /\ Streams(t, <<Call1(t, "fs.delete")>>, "check")
  BY DEF Checks, Calling, SameWork, Inv, TypeInv, RequestTypes
<1>2. pc'[t] = "check" /\ \A u \in Turn : u # t => events'[u] = events[u] /\ pc'[u] = pc[u]
  BY <1>1 DEF Streams
<1>3. Told'
  <2>1. /\ jobs' \union effects' \subseteq jobs \union effects
        /\ \A j \in jobs' \union effects' : j \in jobs \union effects
    BY <1>1
  <2>2. pc[t] # "lost" /\ pc[t] # "job"
    BY <1>1
  <2>3. TypeInv /\ WorkInv /\ Told
    BY DEF Inv, ToldInv
  <2> QED
    BY <1>1, <2>1, <2>2, <2>3, ToldGrows
<1>4. OneJob'
  <2>1. ASSUME NEW j \in jobs, pc'[j.turn] = "check" PROVE j.at # calls'[j.turn]
    <3>1. j.turn \in Turn /\ calls[j.turn] \in Nat /\ j.at \in Nat /\ j.at <= calls[j.turn]
      BY WorkPlaces DEF Inv
    <3>2. CASE j.turn = t
      BY <1>1, <3>1, <3>2
    <3>3. CASE j.turn # t
      BY <1>1, <1>2, <2>1, <3>1, <3>3 DEF Inv, ToldInv, OneJob
    <3> QED
      BY <3>2, <3>3
  <2> QED
    BY <1>1, <2>1 DEF Inv, ToldInv, OneJob
<1>5. StreamOf(t)'
  <2>1. "fs.delete" \in Tool
    BY DEF Tool, KnownTools, WriteTools, FileTools
  <2> QED
    BY <1>1, <2>1, CallStream DEF Checks
<1>6. Stream'
  BY <1>1, <1>2, <1>5, OtherStreams DEF Inv, ToldInv
<1>7. Awaits'
  BY <1>1, <1>2, AwaitsIdle DEF Inv, ToldInv
<1> QED
  BY <1>3, <1>4, <1>6, <1>7 DEF ToldInv

LEMMA StartsTold ==
    ASSUME Inv, NEW t \in Turn, Starts(t)
    PROVE  ToldInv'
<1>1. /\ pc[t] = "run" /\ effects' = effects /\ calls'[t] = calls[t] + 1
      /\ \A u \in Turn : u # t => calls'[u] = calls[u]
      /\ calls[t] \in Nat
  BY DEF Starts, Calling, Inv, TypeInv, RequestTypes
<1>a. PICK tool \in WriteTools :
        jobs' = jobs \union {Job(t, calls[t] + 1, tool)} /\ Streams(t, <<Call1(t, tool)>>, "job")
  BY DEF Starts
<1>2. pc'[t] = "job" /\ \A u \in Turn : u # t => events'[u] = events[u] /\ pc'[u] = pc[u]
  BY <1>a DEF Streams
<1>3. PICK b : jobs' = jobs \union {b} /\ b.turn = t /\ b.at = calls[t] + 1
  <2>1. Job(t, calls[t] + 1, tool).turn = t /\ Job(t, calls[t] + 1, tool).at = calls[t] + 1
    BY DEF Job
  <2> QED
    BY <1>a, <2>1
<1>4. Told'
  <2>1. Current(t)'
    BY <1>2 DEF Current, Waits
  <2>2. \A j \in jobs' \union effects' :
          j \in jobs \union effects \/ (j.turn = t /\ j.at = calls'[t])
    <3>1. b.turn = t /\ b.at = calls'[t]
      BY <1>1, <1>3
    <3>2. \A j \in jobs' \union effects' : j \in jobs \union effects \/ j = b
      BY <1>1, <1>3
    <3> QED
      BY <3>1, <3>2
  <2>3. pc[t] # "lost" /\ pc[t] # "job"
    BY <1>1
  <2>4. TypeInv /\ WorkInv /\ Told
    BY DEF Inv, ToldInv
  <2> QED
    BY <1>1, <1>a, <2>1, <2>2, <2>3, <2>4, ToldGrows
<1>5. ASSUME NEW j \in jobs PROVE j.turn \in Turn /\ (j.turn = t => j.at # calls[t] + 1)
  <2>1. j.turn \in Turn /\ calls[j.turn] \in Nat /\ j.at \in Nat /\ j.at <= calls[j.turn]
    BY WorkPlaces DEF Inv
  <2> QED
    BY <1>1, <2>1
<1>6. OneJob'
  <2>1. ASSUME NEW j \in jobs', NEW k \in jobs', j.turn = k.turn, j.at = k.at PROVE j = k
    BY <1>3, <1>5, <2>1 DEF Inv, ToldInv, OneJob
  <2>2. ASSUME NEW j \in jobs', pc'[j.turn] = "check" PROVE j.at # calls'[j.turn]
    <3>1. j.turn # t
      BY <1>2, <2>2
    <3>2. j \in jobs /\ j.turn \in Turn
      BY <1>3, <1>5, <3>1
    <3> QED
      BY <1>1, <1>2, <2>2, <3>1, <3>2 DEF Inv, ToldInv, OneJob
  <2> QED
    BY <2>1, <2>2 DEF OneJob
<1>7. StreamOf(t)'
  <2>1. tool \in Tool
    BY DEF Tool, KnownTools
  <2> QED
    BY <1>1, <1>a, <2>1, CallStream DEF Starts
<1>8. Stream'
  BY <1>1, <1>2, <1>7, OtherStreams DEF Inv, ToldInv
<1>9. Awaits'
  <2>1. \A j \in jobs : ~(j.turn = t /\ j.tool \in FileTools)
    BY <1>1 DEF Inv, ToldInv, Awaits, Waits
  <2>2. \A j \in jobs' : j.turn = t /\ j.tool \in FileTools => pc'[t] = "job" /\ calls'[t] = j.at
    BY <1>1, <1>2, <1>3, <2>1
  <2>3. \A j \in jobs' : j \in jobs \/ j.turn = t
    BY <1>3
  <2> QED
    BY <1>1, <1>2, <2>2, <2>3, AwaitsStays DEF Inv, ToldInv
<1> QED
  BY <1>4, <1>6, <1>8, <1>9 DEF ToldInv

\* A result that comes for the call begun last.
LEMMA ResultStream ==
    ASSUME Inv, NEW t \in Turn, pc[t] \in {"check", "job"}, NEW tool \in Tool, NEW ok \in BOOLEAN,
           calls' = calls, Streams(t, <<ToolResult(calls[t], tool, ok)>>, "run"), jobs' \subseteq jobs,
           effects \subseteq effects',
           ok /\ tool \in FileTools => \E e \in effects' : e.turn = t /\ e.at = calls[t],
           \A j \in jobs' : ~(j.turn = t /\ j.tool \in FileTools),
           \A j \in jobs' \union effects' :
             j \in jobs \union effects \/ (j.turn = t /\ j.at = calls[t])
    PROVE  ToldInv'
<1> DEFINE result == ToolResult(calls[t], tool, ok)
           new == <<result>>
<1>1. calls[t] \in Nat /\ calls'[t] = calls[t]
  BY DEF Inv, TypeInv, RequestTypes
<1>2. /\ result \in Event /\ result.type = "tool_result"
      /\ result.at = calls[t] /\ result.ok = ok /\ result.tool = tool
  BY <1>1, CallEvents DEF Inv
<1>3. /\ Len(new) = 1 /\ new[1].type = "tool_result" /\ new[1].at = calls[t]
      /\ new[1].ok = ok /\ new[1].tool = tool
  <2> HIDE DEF result
  <2> QED
    BY <1>2, Singles
<1>4. Streams(t, new, "run")
  OBVIOUS
<1> HIDE DEF new
<1>5. pc'[t] = "run" /\ \A u \in Turn : u # t => events'[u] = events[u] /\ pc'[u] = pc[u]
  BY <1>4 DEF Streams
<1>6. 1 \in 1 .. Len(new)
  BY <1>3
<1>7. Current(t)'
  <2>1. events[t] \in Seq(Event) /\ new \in Seq(Event) /\ events'[t] = events[t] \o new
    BY <1>4 DEF Streams, Inv, TypeInv, RequestTypes
  <2>2. HasResult(t, calls[t])'
    <3>1. \A at : \A k \in 1 .. Len(new) :
            new[k].type = "tool_result" /\ new[k].at = at => HasResult(t, at)'
      BY <2>1, ResultStays
    <3>2. \A at : at = calls[t] => HasResult(t, at)'
      BY <1>3, <1>6, <3>1
    <3>3. \A at : HasResult(t, at)' => (at = calls'[t] => HasResult(t, calls[t])')
      BY DEF HasResult
    <3> QED
      BY <1>1, <3>2, <3>3
  <2> QED
    BY <2>2 DEF Current
<1>8. Told'
  <2>1. \A j \in jobs' \union effects' :
          j \in jobs \union effects \/ (j.turn = t /\ j.at = calls'[t])
    BY <1>1
  <2>2. pc[t] # "lost" /\ \A u \in Turn : u # t => calls'[u] = calls[u]
    OBVIOUS
  <2>3. TypeInv /\ WorkInv /\ Told
    BY DEF Inv, ToldInv
  <2>4. \E k \in 1 .. Len(new) : new[k].type = "tool_result" /\ new[k].at = calls[t]
    BY <1>3, <1>6
  <2> QED
    BY <1>4, <1>7, <2>1, <2>2, <2>3, <2>4, ToldGrows
<1>9. OneJob'
  BY <1>5, OneJobStays DEF Inv, ToldInv
<1>10. StreamOf(t)'
  <2>1. \A k \in 1 .. Len(new) :
             /\ new[k].type = "tool_call" =>
                  \/ /\ k + 1 \in 1 .. Len(new) /\ new[k + 1].type = "tool_result"
                     /\ new[k + 1].at = new[k].at
                  \/ /\ k = Len(new) /\ "run" \in {"check", "job"}
                     /\ new[k].at = calls'[t]
             /\ new[k].type = "tool_result" /\ new[k].ok /\ new[k].tool \in FileTools =>
                  \E e \in effects' : e.turn = t /\ e.at = new[k].at
    <3>1. \A k \in 1 .. Len(new) : k = 1
      BY <1>3
    <3> QED
      BY <1>1, <1>3, <3>1
  <2>2. StreamOf(t) /\ TypeInv
    BY DEF Inv, ToldInv, Stream
  <2>3. Len(new) >= 1
    BY <1>3
  <2> QED
    BY <1>1, <1>3, <1>4, <2>1, <2>2, <2>3, StreamGrows
<1>11. Stream'
  BY <1>5, <1>10, OtherStreams DEF Inv, ToldInv
<1>12. Awaits'
  BY <1>5, AwaitsStays DEF Inv, ToldInv
<1> QED
  BY <1>8, <1>9, <1>11, <1>12 DEF ToldInv

LEMMA FailsTold ==
    ASSUME Inv, NEW t \in Turn, Fails(t)
    PROVE  ToldInv'
<1>1. pc[t] \in {"check", "job"}
  BY DEF Fails, Awaited
<1>2. /\ jobs' = jobs /\ effects' = effects /\ calls' = calls
  BY DEF Fails, SameWork
<1>3. PICK tool \in Tool, ok \in BOOLEAN :
        (ok => tool \notin FileTools) /\ Streams(t, <<ToolResult(calls[t], tool, ok)>>, "run")
  BY DEF Fails
<1>4. \A k \in jobs : ~(k.turn = t /\ k.tool \in FileTools)
  <2>1. CASE pc[t] = "check"
    BY <2>1 DEF Inv, ToldInv, Awaits, Waits
  <2>2. CASE \E j \in jobs : j.turn = t /\ j.tool = "shell.exec" /\ Awaited(j)
    <3>1. PICK j \in jobs : j.turn = t /\ j.tool = "shell.exec" /\ pc[t] = "job" /\ calls[t] = j.at
      BY <2>2 DEF Awaited
    <3>2. ASSUME NEW k \in jobs, k.turn = t, k.tool \in FileTools PROVE FALSE
      <4>1. k.at = j.at
        BY <3>1, <3>2 DEF Inv, ToldInv, Awaits, Waits
      <4>2. k = j
        BY <3>1, <3>2, <4>1 DEF Inv, ToldInv, OneJob
      <4> QED
        BY <3>1, <3>2, <4>2 DEF FileTools
    <3> QED
      BY <3>2
  <2> QED
    BY <2>1, <2>2 DEF Fails
<1> QED
  BY <1>1, <1>2, <1>3, <1>4, ResultStream

LEMMA EndsTold ==
    ASSUME Inv, NEW j \in jobs, Ends(j)
    PROVE  ToldInv'
<1> DEFINE t == j.turn
<1>1. /\ t \in Turn /\ calls' = calls /\ jobs' = jobs \ {j}
      /\ effects' \in {effects, effects \union {Effect(j)}}
  BY WorkPlaces DEF Ends, Inv
<1>2. Effect(j).turn = t /\ Effect(j).at = j.at
  BY DEF Effect
<1>3. CASE Awaited(j)
  <2>1. pc[t] = "job" /\ calls[t] = j.at
    BY <1>3 DEF Awaited
  <2>2. PICK ok \in BOOLEAN :
          /\ ok => effects' = effects \union {Effect(j)}
          /\ Streams(t, <<ToolResult(calls[t], j.tool, ok)>>, "run")
    BY <1>3, <2>1 DEF Ends
  <2>3. \A k \in jobs' : ~(k.turn = t /\ k.tool \in FileTools)
    <3> SUFFICES ASSUME NEW k \in jobs', k.turn = t, k.tool \in FileTools PROVE FALSE
      OBVIOUS
    <3>1. k \in jobs /\ k # j
      BY <1>1
    <3>2. k.at = calls[t]
      BY <2>1, <3>1 DEF Inv, ToldInv, Awaits, Waits
    <3> QED
      BY <2>1, <3>1, <3>2 DEF Inv, ToldInv, OneJob
  <2>5. ok => \E e \in effects' : e.turn = t /\ e.at = calls[t]
    BY <1>2, <2>1, <2>2
  <2>6. j.tool \in Tool /\ effects \subseteq effects'
    BY <1>1 DEF Inv, WorkInv, Tool, KnownTools
  <2>4. \A k \in jobs' \union effects' :
          k \in jobs \union effects \/ (k.turn = t /\ k.at = calls[t])
    BY <1>1, <1>2, <2>1
  <2> HIDE DEF t
  <2> QED
    BY <1>1, <2>1, <2>2, <2>3, <2>4, <2>5, <2>6, ResultStream
<1>4. CASE ~Awaited(j)
  <2>1. pc' = pc /\ events' = events /\ calls' = calls
    BY <1>1, <1>4 DEF Ends
  <2>2. \A u, at : Waits(u, at) \/ HasResult(u, at) => Waits(u, at)' \/ HasResult(u, at)'
    BY <2>1, ToldStays
  <2>3. Told'
    <3> SUFFICES ASSUME NEW k \in jobs' \union effects', pc'[k.turn] # "lost"
                 PROVE  Waits(k.turn, k.at)' \/ HasResult(k.turn, k.at)'
      BY DEF Told
    <3>1. CASE k \in jobs \union effects
      BY <2>1, <2>2, <3>1 DEF Inv, ToldInv, Told
    <3>2. CASE k = Effect(j)
      <4>1. k.turn = j.turn /\ k.at = j.at
        BY <1>2, <3>2
      <4>2. pc[j.turn] # "lost"
        BY <2>1, <4>1
      <4>3. Waits(j.turn, j.at) \/ HasResult(j.turn, j.at)
        BY <4>2 DEF Inv, ToldInv, Told
      <4>4. Waits(j.turn, j.at)' \/ HasResult(j.turn, j.at)'
        BY <2>2, <4>3
      <4> QED
        BY <4>1, <4>4
    <3> QED
      BY <1>1, <3>1, <3>2
  <2>4. OneJob'
    BY <1>1, <2>1, OneJobStays DEF Inv, ToldInv
  <2>5. Stream'
    <3>1. ASSUME NEW u \in Turn PROVE StreamOf(u)'
      <4>1. StreamOf(u)
        BY DEF Inv, ToldInv, Stream
      <4> QED
        BY <1>1, <2>1, <4>1, StreamStays
    <3> QED
      BY <3>1 DEF Stream
  <2>6. Awaits'
    BY <1>1, <2>1 DEF Inv, ToldInv, Awaits, Waits
  <2> QED
    BY <2>3, <2>4, <2>5, <2>6 DEF ToldInv
<1> QED
  BY <1>3, <1>4

LEMMA PassesTold ==
    ASSUME Inv, NEW t \in Turn, Passes(t)
    PROVE  ToldInv'
<1>1. /\ pc[t] = "check" /\ pc'[t] = "job" /\ calls' = calls /\ events' = events /\ effects' = effects
      /\ \A u \in Turn : u # t => pc'[u] = pc[u]
  BY DEF Passes
<1>2. PICK b : jobs' = jobs \union {b} /\ b.turn = t /\ b.at = calls[t]
  <2>1. Job(t, calls[t], "fs.delete").turn = t /\ Job(t, calls[t], "fs.delete").at = calls[t]
    BY DEF Job
  <2> QED
    BY <2>1 DEF Passes
<1>3. ASSUME NEW k \in jobs, k.turn = t PROVE k.at # calls[t]
  BY <1>1, <1>3 DEF Inv, ToldInv, OneJob
<1>4. Told'
  <2> SUFFICES ASSUME NEW k \in jobs' \union effects', pc'[k.turn] # "lost"
               PROVE  Waits(k.turn, k.at)' \/ HasResult(k.turn, k.at)'
    BY DEF Told
  <2>1. CASE k \in jobs \union effects
    <3>1. k.turn \in Turn
      BY <2>1, WorkPlaces DEF Inv
    <3>2. CASE k.turn = t
      <4>1. Waits(t, k.at) \/ HasResult(t, k.at)
        BY <1>1, <2>1, <3>2 DEF Inv, ToldInv, Told
      <4>2. HasResult(t, k.at)'
        BY <1>1, <4>1 DEF Waits, HasResult
      <4> QED
        BY <3>2, <4>2
    <3>3. CASE k.turn # t
      <4>1. pc'[k.turn] = pc[k.turn]
        BY <1>1, <3>1, <3>3
      <4> QED
        BY <1>1, <2>1, <4>1, ToldStays DEF Inv, ToldInv, Told
    <3> QED
      BY <3>2, <3>3
  <2>2. CASE k = b
    BY <1>1, <1>2, <2>2 DEF Waits
  <2> QED
    BY <1>1, <1>2, <2>1, <2>2
<1>5. OneJob'
  <2>1. ASSUME NEW j \in jobs', NEW k \in jobs', j.turn = k.turn, j.at = k.at PROVE j = k
    BY <1>2, <1>3, <2>1 DEF Inv, ToldInv, OneJob
  <2>2. ASSUME NEW j \in jobs', pc'[j.turn] = "check" PROVE j.at # calls'[j.turn]
    <3>1. j.turn # t
      BY <1>1, <2>2
    <3>2. j \in jobs
      BY <1>2, <3>1
    <3>3. j.turn \in Turn
      BY <3>2, WorkPlaces DEF Inv
    <3> QED
      BY <1>1, <2>2, <3>1, <3>2, <3>3 DEF Inv, ToldInv, OneJob
  <2> QED
    BY <2>1, <2>2 DEF OneJob
<1>6. StreamOf(t)'
  <2>1. StreamOf(t)
    BY DEF Inv, ToldInv, Stream
  <2> QED
    BY <1>1, <2>1 DEF StreamOf
<1>7. Stream'
  BY <1>1, <1>6, OtherStreams DEF Inv, ToldInv
<1>8. Awaits'
  <2>1. \A j \in jobs : ~(j.turn = t /\ j.tool \in FileTools)
    BY <1>1 DEF Inv, ToldInv, Awaits, Waits
  <2>2. \A j \in jobs' : j.turn = t /\ j.tool \in FileTools => pc'[t] = "job" /\ calls'[t] = j.at
    BY <1>1, <1>2, <2>1
  <2>3. \A j \in jobs' : j \in jobs \/ j.turn = t
    BY <1>2
  <2> QED
    BY <1>1, <2>2, <2>3, AwaitsStays DEF Inv, ToldInv
<1> QED
  BY <1>4, <1>5, <1>7, <1>8 DEF ToldInv

LEMMA IteratesTold ==
    ASSUME Inv, NEW t \in Turn, Iterates(t)
    PROVE  ToldInv'
<1>1. pc[t] = "run" /\ jobs' = jobs /\ effects' = effects /\ calls' = calls
  BY DEF Iterates, SameWork
<1>2. PICK new \in Seq(Event), to \in {"ask", "sent"} :
        /\ Streams(t, new, to)
        /\ \A k \in 1 .. Len(new) : new[k].type \notin {"tool_call", "tool_result"}
  <2>1. CASE Streams(t, <<Terminal("done")>>, "sent")
    <3>1. Terminal("done") \in Event /\ Terminal("done").type = "done"
      BY EventTypes DEF Terminal
    <3>2. /\ <<Terminal("done")>> \in Seq(Event) /\ Len(<<Terminal("done")>>) = 1
          /\ <<Terminal("done")>>[1].type = "done"
      BY <3>1, Singles
    <3>3. \A k \in 1 .. Len(<<Terminal("done")>>) : k = 1
      BY <3>2
    <3> DEFINE m == <<Terminal("done")>>
    <3>4. m \in Seq(Event) /\ Streams(t, m, "sent") /\ m[1].type = "done" /\ \A k \in 1 .. Len(m) : k = 1
      BY <2>1, <3>2, <3>3
    <3> HIDE DEF m
    <3>5. \A k \in 1 .. Len(m) : m[k].type \notin {"tool_call", "tool_result"}
      BY <3>4
    <3> QED
      BY <3>4, <3>5
  <2>2. CASE /\ SameRequest /\ events' = events
             /\ pc'[t] = "ask" /\ \A u \in Turn : u # t => pc'[u] = pc[u]
    <3>1. <<>> \in Seq(Event) /\ Len(<<>>) = 0
      BY EmptySeq
    <3>2. events[t] \in Seq(Event)
      BY DEF Inv, TypeInv, RequestTypes
    <3>3. events[t] \o <<>> = events[t]
      BY <3>2, ConcatEmptySeq
    <3>4. Streams(t, <<>>, "ask")
      BY <2>2, <3>1, <3>3 DEF Streams
    <3>5. \A k \in 1 .. Len(<<>>) : <<>>[k].type \notin {"tool_call", "tool_result"}
      BY <3>1
    <3> QED
      BY <3>1, <3>4, <3>5
  <2> QED
    BY <2>1, <2>2 DEF Iterates
<1>3. \A u \in Turn : u # t => events'[u] = events[u] /\ pc'[u] = pc[u]
  BY <1>2 DEF Streams
<1>4. pc'[t] = to
  BY <1>2 DEF Streams
<1>5. Told'
  <2>1. /\ jobs' \union effects' \subseteq jobs \union effects
        /\ \A j \in jobs' \union effects' : j \in jobs \union effects
    BY <1>1
  <2>2. pc[t] # "lost" /\ pc[t] # "job" /\ \A u \in Turn : u # t => calls'[u] = calls[u]
    BY <1>1
  <2>3. TypeInv /\ WorkInv /\ Told
    BY DEF Inv, ToldInv
  <2> QED
    BY <1>2, <2>1, <2>2, <2>3, ToldGrows
<1>6. OneJob'
  BY <1>1, <1>3, <1>4, OneJobStays DEF Inv, ToldInv
<1>7. StreamOf(t)'
  <2>1. StreamOf(t)
    BY DEF Inv, ToldInv, Stream
  <2> QED
    BY <1>1, <1>2, <2>1, StreamGrows DEF Inv
<1>8. Stream'
  BY <1>1, <1>3, <1>7, OtherStreams DEF Inv, ToldInv
<1>9. Awaits'
  BY <1>1, <1>3, AwaitsIdle DEF Inv, ToldInv
<1> QED
  BY <1>5, <1>6, <1>8, <1>9 DEF ToldInv

LEMMA DropsTold ==
    ASSUME Inv, NEW ts \in SUBSET Turn, Drops(ts)
    PROVE  ToldInv'
<1>1. /\ calls' = calls /\ jobs' \subseteq jobs
      /\ \A t \in Turn : t \in ts => pc'[t] = "lost" /\ events'[t] = <<>>
      /\ \A t \in Turn : t \notin ts => pc'[t] = pc[t] /\ events'[t] = events[t]
  BY DEF Drops
<1>2. effects \subseteq effects' /\ \A k \in effects' : k \in effects \/ k.turn \in ts
  BY DEF Drops, Effect
<1>3. Told'
  <2> SUFFICES ASSUME NEW k \in jobs' \union effects', pc'[k.turn] # "lost"
               PROVE  Waits(k.turn, k.at)' \/ HasResult(k.turn, k.at)'
    BY DEF Told
  <2>1. k.turn \notin ts
    BY <1>1
  <2>2. k \in jobs \union effects
    BY <1>1, <1>2, <2>1
  <2>3. k.turn \in Turn
    BY <2>2, WorkPlaces DEF Inv
  <2>4. pc'[k.turn] = pc[k.turn] /\ events'[k.turn] = events[k.turn] /\ calls'[k.turn] = calls[k.turn]
    BY <1>1, <2>1, <2>3
  <2> QED
    BY <2>2, <2>4, ToldStays DEF Inv, ToldInv, Told
<1>4. OneJob'
  BY <1>1, OneJobStays DEF Inv, ToldInv
<1>5. Stream'
  <2>1. ASSUME NEW u \in Turn PROVE StreamOf(u)'
    <3>1. CASE u \in ts
      BY <1>1, <3>1, EmptyStream
    <3>2. CASE u \notin ts
      <4>1. StreamOf(u)
        BY DEF Inv, ToldInv, Stream
      <4> QED
        BY <1>1, <1>2, <3>2, <4>1, StreamStays
    <3> QED
      BY <3>1, <3>2
  <2> QED
    BY <2>1 DEF Stream
<1>6. Awaits'
  <2> SUFFICES ASSUME NEW j \in jobs', j.tool \in FileTools, pc'[j.turn] # "lost"
               PROVE  pc'[j.turn] = "job" /\ calls'[j.turn] = j.at
    BY DEF Awaits, Waits
  <2>1. j \in jobs /\ j.turn \in Turn /\ j.turn \notin ts
    BY <1>1, WorkPlaces DEF Inv
  <2> QED
    BY <1>1, <2>1 DEF Inv, ToldInv, Awaits, Waits
<1> QED
  BY <1>3, <1>4, <1>5, <1>6 DEF ToldInv

LEMMA NextTold == Inv /\ Kinds => ToldInv'
<1> SUFFICES ASSUME Inv, Kinds PROVE ToldInv'
  OBVIOUS
<1>1. ASSUME NEW t \in Turn,
             \/ Admits(t) \/ Replies(t) \/ Calls1(t) \/ Starts(t) \/ Checks(t)
             \/ Fails(t) \/ Passes(t) \/ Iterates(t)
      PROVE  ToldInv'
  BY <1>1, AdmitsTold, RepliesTold, Calls1Told, StartsTold, ChecksTold, FailsTold, PassesTold,
     IteratesTold
<1>2. CASE Elsewhere
  <2>1. UNCHANGED <<pc, calls, events, jobs, effects>>
    BY <1>2 DEF Elsewhere, SameWork
  <2>2. UNCHANGED <<pc, calls, events, jobs>>
    BY <2>1
  <2>3. Told' /\ OneJob' /\ Awaits'
    BY <2>1 DEF Inv, ToldInv, Told, OneJob, Awaits, Waits, HasResult
  <2>4. Stream'
    BY <2>1 DEF Inv, ToldInv, Stream, StreamOf
  <2> QED
    BY <2>3, <2>4 DEF ToldInv
<1> QED
  BY <1>1, <1>2, EndsTold, DropsTold DEF Kinds

-----------------------------------------------------------------------------
(* The theorems *)

LEMMA InitOwn == Init => \A t \in Turn : Own(t)
<1> SUFFICES ASSUME Init, NEW t \in Turn PROVE Own(t)
  OBVIOUS
<1>1. events[t] = <<>>
  BY DEF Init
<1>2. Len(events[t]) = 0
  BY <1>1, EmptySeq
<1> QED
  BY <1>2 DEF Own

AllInv == Inv /\ Labelled /\ \A t \in Turn : Own(t)

LEMMA NextAll == AllInv /\ [Next]_vars => AllInv'
<1> SUFFICES ASSUME AllInv, [Next]_vars PROVE AllInv'
  OBVIOUS
<1>1. TypeInv /\ RequestInv /\ WorkInv /\ Labelled /\ \A t \in Turn : Own(t)
  BY DEF AllInv, Inv
<1>2. Kinds /\ RequestTypes' /\ TalkTypes' /\ SourceTypeOK' /\ Labelled'
  BY <1>1, Steps, NextTalk, NextSource
<1>3. TypeInv'
  BY <1>2 DEF TypeInv
<1>4. RequestInv' /\ WorkInv' /\ \A t \in Turn : Own(t)'
  BY <1>1, <1>2, <1>3, NextRequests, NextWork, NextOwn
<1>5. ToldInv'
  BY <1>2, NextTold DEF AllInv
<1> QED
  BY <1>2, <1>3, <1>4, <1>5 DEF AllInv, Inv

LEMMA Always == Spec => []AllInv
<1>1. Init => AllInv
  BY InitRequests, InitOwn DEF AllInv, Inv
<1> QED
  BY <1>1, NextAll, PTL DEF Spec

\* The types, that no turn does more iterations than its body asked for, and
\* that whatever is under way or was changed belongs to a call that has begun:
\* execute_calls announces a call before it executes it.
THEOREM TypesHold == Spec => []TypeOK
<1>1. AllInv => TypeOK
  <2> SUFFICES ASSUME AllInv PROVE TypeOK
    OBVIOUS
  <2>1. SourceTypeOK /\ RequestTypes
    BY DEF AllInv, Inv, TypeInv
  <2>2. \A t \in Turn : n[t] <= body[t].limit
    BY DEF AllInv, Inv, RequestInv, RequestOf
  <2>3. \A j \in jobs \union effects : j.turn \in Turn /\ j.at \in 1 .. calls[j.turn]
    BY DEF AllInv, Inv, WorkInv
  <2> QED
    BY <2>1, <2>2, <2>3 DEF TypeOK, RequestTypes, NoBody, Provided
<1> QED
  BY <1>1, Always, PTL

\* Whatever logins, logouts, restarts and other requests come between
\* resolve_router and its last answer, a request is answered by endpoints of the
\* kind it resolved, users' or studio.toml's, and to its own messages as they
\* then were: it keeps its router, an answer of an earlier call is never taken for
\* one of a later call, and an entry of the cache is an answer to these messages
\* by an endpoint of the same name, which is all that its key says.
THEOREM AnswersFit == Spec => []AnswersFitTurn
<1>1. AllInv => AnswersFitTurn
  BY OwnAnswers DEF AllInv, Inv
<1> QED
  BY <1>1, Always, PTL

\* What an agent changes, during its turn or after it, it changes with a writing
\* tool that its request asked for, on a server started with
\* --enable-write-tools: execute_tool asks before each call, and nothing a job
\* does later needs to be asked again as neither the body nor the flag changes.
THEOREM EffectsAreAllowed == Spec => []EffectsAllowed
<1>1. AllInv => EffectsAllowed
  BY DEF AllInv, Inv, WorkInv, MayRun, EffectsAllowed
<1> QED
  BY <1>1, Always, PTL

\* A stream that has come to its end has the result of every call right after it,
\* and a result for every change of its turn, also for those that a command makes
\* after run_shell has given up on it or its shell has exited; writes and deletes
\* have ended by then, and those whose result has no error have been done.  The
\* loop begins no call before the one it waits for is told, a call has one job,
\* and only run_shell returns while its job goes on.
THEOREM EffectsAreTold == Spec => []EffectsTold
<1>1. AllInv => EffectsTold
  <2> SUFFICES ASSUME AllInv, NEW t \in Turn, pc[t] = "sent"
               PROVE  LET Results == {i \in DOMAIN events[t] : events[t][i].type = "tool_result"} IN
                      /\ \A e \in effects : e.turn = t => \E i \in Results : events[t][i].at = e.at
                      /\ \A i \in DOMAIN events[t] : events[t][i].type = "tool_call" =>
                            i + 1 \in Results /\ events[t][i + 1].at = events[t][i].at
                      /\ \A j \in jobs : j.turn = t => j.tool = "shell.exec"
                      /\ \A i \in Results :
                            events[t][i].ok /\ events[t][i].tool \in FileTools =>
                                \E e \in effects : e.turn = t /\ e.at = events[t][i].at
    BY DEF EffectsTold
  <2> DEFINE Results == {i \in DOMAIN events[t] : events[t][i].type = "tool_result"}
  <2>1. DOMAIN events[t] = 1 .. Len(events[t]) /\ Len(events[t]) \in Nat
    BY LenProperties DEF AllInv, Inv, TypeInv, RequestTypes
  <2>2. ASSUME NEW e \in effects, e.turn = t
        PROVE  \E i \in Results : events[t][i].at = e.at
    <3>1. Waits(t, e.at) \/ HasResult(t, e.at)
      BY <2>2 DEF AllInv, Inv, ToldInv, Told
    <3> QED
      BY <2>1, <3>1 DEF Waits, HasResult
  <2>3. StreamOf(t)
    BY DEF AllInv, Inv, ToldInv, Stream
  <2>4. ASSUME NEW i \in DOMAIN events[t], events[t][i].type = "tool_call"
        PROVE  i + 1 \in Results /\ events[t][i + 1].at = events[t][i].at
    <3>1. /\ i \in 1 .. Len(events[t]) /\ i < Len(events[t])
          /\ events[t][i + 1].type = "tool_result" /\ events[t][i + 1].at = events[t][i].at
      BY <2>1, <2>3, <2>4 DEF StreamOf
    <3>2. i + 1 \in 1 .. Len(events[t])
      BY <2>1, <3>1
    <3> QED
      BY <2>1, <3>1, <3>2
  <2>5. ASSUME NEW j \in jobs, j.turn = t PROVE j.tool = "shell.exec"
    <3>1. j.tool \in WriteTools
      BY DEF AllInv, Inv, WorkInv
    <3>2. j.tool \notin FileTools
      BY <2>5 DEF AllInv, Inv, ToldInv, Awaits, Waits
    <3> QED
      BY <3>1, <3>2 DEF WriteTools
  <2>6. ASSUME NEW i \in Results, events[t][i].ok, events[t][i].tool \in FileTools
        PROVE  \E e \in effects : e.turn = t /\ e.at = events[t][i].at
    BY <2>1, <2>3, <2>6 DEF StreamOf
  <2> QED
    BY <2>2, <2>4, <2>5, <2>6
<1> QED
  BY <1>1, Always, PTL
=============================================================================
