----------------------------- MODULE AgentTurn -----------------------------
(***************************************************************************)
(* POST /api/agent-turn, POST /api/dispatch and GET /api/models/session: a  *)
(* request resolves its router or endpoint once and keeps it; a turn then   *)
(* asks the model, executes the tools its reply names and asks again, up to *)
(* a limit.  The events of a turn are collected and streamed when the loop  *)
(* is over; a caller who leaves before that drops the loop, but not the     *)
(* work it has handed out: file operations run on the blocking pool, and a  *)
(* killed shell leaves its children.                                        *)
(*                                                                         *)
(* A request body is a member of Body, a reply the list of what it names as *)
(* tool calls, paths are one file of the project, which git may track.      *)
(* Reading tools have a result and no effect; token counts are left out.    *)
(***************************************************************************)
EXTENDS RouterSource, SequencesExt

CONSTANTS
    Turn,        \* requests
    Body,        \* request bodies
    BodiesOf,    \* which of them each request may have
    Index,       \* the states of the file and of git's index to begin with
    Reply,       \* texts a model may answer
    RepliesTo,   \* which of them it may answer to each body
    Malformed,   \* a tool call that does not deserialise
    Broken,      \* a text whose last '}' comes before its first '{'
    MaxIterations,
    GitFaults    \* whether git ls-files may fail for another reason

ReadTools == {"fs.read", "fs.list", "git.status", "git.diff", "project_tree"}
FileTools == {"fs.write", "fs.delete"}
WriteTools == FileTools \union {"shell.exec"}
KnownTools == ReadTools \union WriteTools
Tool == KnownTools \union {"unknown"}

ASSUME AgentTurnAssumption ==
    /\ Body \subseteq [route : {"agent", "dispatch", "models"}, tools : SUBSET Tool,
                       limit : Nat, wellFormed : BOOLEAN]
    /\ BodiesOf \in [Turn -> SUBSET Body]
    /\ Index \subseteq [there : BOOLEAN, tracked : BOOLEAN]
    /\ Reply \ {Broken} \subseteq Seq(Tool \union {Malformed})
    /\ Broken \notin Seq(Tool \union {Malformed})
    /\ RepliesTo \in [Body -> SUBSET Reply]
    /\ MaxIterations \in Nat \ {0} /\ GitFaults \in BOOLEAN

VARIABLES
    writeEnabled,   \* --enable-write-tools
    pc,             \* where each request stands
    keyed,          \* it found a session key
    router,         \* the endpoints its router walks
    body,           \* its validated body
    transcript,     \* what has been added to the messages since
    n,              \* iterations done
    todo,           \* tool calls of the current reply still to execute
    calls,          \* tool calls begun
    results,        \* outcomes of the calls of this iteration
    events,         \* the events collected
    jobs,           \* file operations and commands that have not ended
    effects,        \* what tools have changed
    there, tracked  \* the file of the project, and git's index

request == <<keyed, router, body>>
loop == <<transcript, n, todo, calls, results, events>>
project == <<jobs, effects, there, tracked>>
vars == <<source, writeEnabled, pc, request, loop, project>>

InFlight == {"open", "ask", "list", "run", "check", "job"}

-----------------------------------------------------------------------------
(* The request: resolve_router, then the body *)

\* normalise_tools_allowed.
ToolsAllowed(b) ==
    /\ b.tools \subseteq KnownTools
    /\ b.tools \cap WriteTools # {} => writeEnabled

\* validate_request of a turn.
AgentValid(b) ==
    /\ b.route = "agent" /\ b.wellFormed
    /\ b.limit \in 1..MaxIterations
    /\ ToolsAllowed(b)

\* into_completion_request: a model, messages with known roles, a plain task tag.
DispatchValid(b) == b.route = "dispatch" /\ b.wellFormed

\* decrypt_session_secret: the list of models is the session's, 400 without one.
ModelsValid(b, walk) == b.route = "models" /\ walk \cap Account # {}

Valid(b, walk) == AgentValid(b) \/ DispatchValid(b) \/ ModelsValid(b, walk)

Refuse(t) ==
    /\ pc' = [pc EXCEPT ![t] = "refused"]
    /\ UNCHANGED <<router, body>>

\* The body was extracted before, but is only looked at with a router in hand.
Accept(t, walk) ==
    \E b \in BodiesOf[t] :
        \/ ~Valid(b, walk) /\ Refuse(t)
        \/ /\ Valid(b, walk)
           /\ pc' = [pc EXCEPT ![t] = IF b.route = "models" THEN "list" ELSE "ask"]
           /\ body' = [body EXCEPT ![t] = b]
           /\ router' = [router EXCEPT ![t] = walk]

\* resolve_router clones the key; without one it is the static router or 503.
ReadKey(t) ==
    /\ pc[t] = "idle"
    /\ keyed' = [keyed EXCEPT ![t] = unlocked]
    /\ \/ /\ unlocked
          /\ pc' = [pc EXCEPT ![t] = "open"]
          /\ UNCHANGED <<router, body>>
       \/ ~unlocked /\ static # NoRouter /\ Accept(t, static)
       \/ ~unlocked /\ static = NoRouter /\ Refuse(t)
    /\ UNCHANGED <<source, writeEnabled, loop, project>>

\* Mutant: without a blob the request falls through to the static router.
OpenBlobOrFall(t) ==
    /\ pc[t] = "open"
    /\ \/ endpoint \in Account /\ Accept(t, {endpoint})
       \/ endpoint \notin Account /\ static # NoRouter /\ Accept(t, static)
       \/ Refuse(t)
    /\ UNCHANGED <<source, writeEnabled, keyed, loop, project>>

\* get_endpoint, then the provider and its router; 503 without a blob, 401 for
\* one the key does not open, 500 when reading or building fails.
OpenBlob(t) ==
    /\ pc[t] = "open"
    /\ \/ endpoint \in Account /\ Accept(t, {endpoint})
       \/ Refuse(t)
    /\ UNCHANGED <<source, writeEnabled, keyed, loop, project>>

-----------------------------------------------------------------------------
(* Asking the model *)

Messages(t) == [route |-> body[t].route, tools |-> body[t].tools, said |-> transcript[t]]

\* parse_agent_directive: items that do not deserialise are left out, and no
\* call at all is a final answer.
Calls(reply) == SelectSeq(reply, LAMBDA c : c # Malformed)

Emit(t, new) == events' = [events EXCEPT ![t] = @ \o new]

\* Who answered which messages, and whether the answer comes from the cache.
AnswerEvent(t, type, by, asked, hit) ==
    [type |-> type, n |-> n[t], by |-> by, asked |-> asked, hit |-> hit]

ToolCall(t, tool) == [type |-> "tool_call", at |-> calls[t] + 1, tool |-> tool]
ToolResult(at, tool, ok) == [type |-> "tool_result", at |-> at, tool |-> tool, ok |-> ok]
Terminal(type) == [type |-> type]

\* The summary after the chunks of a dispatch.
DoneEvent == Terminal("done")

\* A dispatch says how the first entry of the walk failed, a turn only that it did.
ErrorEvent == Terminal("error")

\* phase_to_events: a dispatch streams the text it already has, in at least
\* three frames (split_into_chunks), which count as one here.
OneShot(t, by, asked, hit) ==
    /\ pc' = [pc EXCEPT ![t] = "sent"]
    /\ Emit(t, <<AnswerEvent(t, "chunk", by, asked, hit), DoneEvent>>)
    /\ UNCHANGED todo

\* The loop, or the one call of a dispatch, takes the answer.
Answer(t, by, asked, reply, hit) ==
    LET iteration == AnswerEvent(t, "iteration", by, asked, hit) IN
    IF body[t].route = "dispatch"
    THEN OneShot(t, by, asked, hit)
    ELSE \/ /\ reply = Broken   \* parse_json_value panics on its slice
            /\ pc' = [pc EXCEPT ![t] = "lost"]
            /\ events' = [events EXCEPT ![t] = <<>>]
            /\ UNCHANGED todo
         \/ /\ reply # Broken /\ Calls(reply) = <<>>
            /\ pc' = [pc EXCEPT ![t] = "sent"]
            /\ Emit(t, <<iteration, Terminal("done")>>)
            /\ UNCHANGED todo
         \/ /\ reply # Broken /\ Calls(reply) # <<>>
            /\ pc' = [pc EXCEPT ![t] = "run"]
            /\ Emit(t, <<iteration>>)
            /\ todo' = [todo EXCEPT ![t] = Calls(reply)]

\* The walk comes to an entry that has an answer in the cache.
AskCache(t) ==
    /\ pc[t] = "ask"
    /\ \E p \in router[t], ps \in SUBSET router[t] :
        \E e \in Hits(p, Messages(t)), answers \in [ps \ {p} -> RepliesTo[body[t]]] :
            /\ Answer(t, e.by, e.asked, e.reply, TRUE)
            /\ Store(answers, Messages(t))
            /\ transcript' = [transcript EXCEPT ![t] = Append(@, e.reply)]
    /\ UNCHANGED <<unlocked, endpoint, static, writeEnabled, request, n, calls, results, project>>

\* A miss; or a lookup that came before another request's put.
AskProvider(t) ==
    /\ pc[t] = "ask"
    /\ \E ps \in SUBSET router[t] : \E p \in ps, answers \in [ps -> RepliesTo[body[t]]] :
        /\ Answer(t, p, Messages(t), answers[p], FALSE)
        /\ Store(answers, Messages(t))
        /\ transcript' = [transcript EXCEPT ![t] = Append(@, answers[p])]
    /\ UNCHANGED <<unlocked, endpoint, static, writeEnabled, request, n, calls, results, project>>

\* dispatch_ctx fails; where ledger.append did, the answer is in the cache.
AskFails(t) ==
    /\ pc[t] = "ask"
    /\ pc' = [pc EXCEPT ![t] = "sent"]
    /\ Emit(t, <<ErrorEvent>>)
    /\ \E ps \in SUBSET router[t] : \E answers \in [ps -> RepliesTo[body[t]]] :
        Store(answers, Messages(t))
    /\ UNCHANGED <<unlocked, endpoint, static, writeEnabled, request,
                   transcript, n, todo, calls, results, project>>

-----------------------------------------------------------------------------
(* Listing the models *)

\* list_provider_models; every call asks the endpoint again.
ListModels(t) ==
    /\ pc[t] = "list"
    /\ pc' = [pc EXCEPT ![t] = "sent"]
    /\ \E p \in router[t] : Emit(t, <<AnswerEvent(t, "models", p, Messages(t), FALSE)>>)
    /\ UNCHANGED <<source, writeEnabled, request, transcript, n, todo, calls, results, project>>

\* No answer within twenty seconds, a status that is not 2xx, or no model in it.
ListFails(t) ==
    /\ pc[t] = "list"
    /\ pc' = [pc EXCEPT ![t] = "sent"]
    /\ Emit(t, <<Terminal("error")>>)
    /\ UNCHANGED <<source, writeEnabled, request, transcript, n, todo, calls, results, project>>

-----------------------------------------------------------------------------
(* Executing tools *)

\* Mutant: a tool the server knows is executed, whatever the turn asked for.
MayRunKnown(t, tool) == tool \in KnownTools /\ (tool \in WriteTools => writeEnabled)

MayRun(t, tool) ==
    /\ tool \in KnownTools
    /\ tool \in body[t].tools
    /\ tool \in WriteTools => writeEnabled

\* The result of call number at goes to the stream and to the next prompt.
Return(t, new, at, tool, ok) ==
    /\ Emit(t, new \o <<ToolResult(at, tool, ok)>>)
    /\ results' = [results EXCEPT ![t] = Append(@, ok)]
    /\ pc' = [pc EXCEPT ![t] = "run"]

Begin(t) ==
    /\ pc[t] = "run" /\ todo[t] # <<>>
    /\ todo' = [todo EXCEPT ![t] = Tail(@)]
    /\ calls' = [calls EXCEPT ![t] = @ + 1]
    /\ UNCHANGED <<source, writeEnabled, request, transcript, n, effects, there, tracked>>

\* Refused by a gate, bad input, or an error before anything has changed.
CallFails(t) ==
    /\ Begin(t)
    /\ \E tool \in Tool :
        /\ tool = Head(todo[t])
        /\ Return(t, <<ToolCall(t, tool)>>, calls[t] + 1, tool, FALSE)
    /\ UNCHANGED jobs

CallReads(t) ==
    /\ Begin(t)
    /\ LET tool == Head(todo[t]) IN
        /\ tool \in ReadTools /\ MayRun(t, tool)
        /\ Return(t, <<ToolCall(t, tool)>>, calls[t] + 1, tool, TRUE)
    /\ UNCHANGED jobs

Job(t, at, tool) == [turn |-> t, at |-> at, tool |-> tool]

\* Mutant: a write is handed out and reported at once.
CallStartsDetached(t) ==
    /\ Begin(t)
    /\ LET tool == Head(todo[t]) IN
        /\ tool \in {"fs.write", "shell.exec"} /\ MayRun(t, tool)
        /\ jobs' = jobs \union {Job(t, calls[t] + 1, tool)}
        /\ IF tool = "fs.write"
           THEN Return(t, <<ToolCall(t, tool)>>, calls[t] + 1, tool, TRUE)
           ELSE /\ Emit(t, <<ToolCall(t, tool)>>)
                /\ pc' = [pc EXCEPT ![t] = "job"]
                /\ UNCHANGED results

\* fs.write and shell.exec hand their work out at once.
CallStarts(t) ==
    /\ Begin(t)
    /\ LET tool == Head(todo[t]) IN
        /\ tool \in {"fs.write", "shell.exec"} /\ MayRun(t, tool)
        /\ jobs' = jobs \union {Job(t, calls[t] + 1, tool)}
        /\ Emit(t, <<ToolCall(t, tool)>>)
    /\ pc' = [pc EXCEPT ![t] = "job"]
    /\ UNCHANGED results

\* fs.delete finds the file and asks git about it first.
CallChecks(t) ==
    /\ Begin(t)
    /\ Head(todo[t]) = "fs.delete" /\ MayRun(t, "fs.delete")
    /\ there
    /\ Emit(t, <<ToolCall(t, "fs.delete")>>)
    /\ pc' = [pc EXCEPT ![t] = "check"]
    /\ UNCHANGED <<jobs, results>>

AfterCheck == UNCHANGED <<source, writeEnabled, request, transcript, n, todo, calls,
                          effects, there, tracked>>

\* git knows the file, or could not be started.
CheckRefuses(t) ==
    /\ pc[t] = "check" /\ (tracked \/ GitFaults)
    /\ Return(t, <<>>, calls[t], "fs.delete", FALSE)
    /\ AfterCheck /\ UNCHANGED jobs

\* Any other exit status counts as "not tracked".
CheckPasses(t) ==
    /\ pc[t] = "check" /\ (~tracked \/ GitFaults)
    /\ jobs' = jobs \union {Job(t, calls[t], "fs.delete")}
    /\ pc' = [pc EXCEPT ![t] = "job"]
    /\ AfterCheck /\ UNCHANGED <<events, results>>

Awaited(j) == pc[j.turn] = "job" /\ calls[j.turn] = j.at

\* Whoever still waits for j gets its result.
Finish(j, ok) ==
    /\ jobs' = jobs \ {j}
    /\ IF Awaited(j) THEN Return(j.turn, <<>>, j.at, j.tool, ok) ELSE UNCHANGED <<pc, events, results>>
    /\ UNCHANGED <<source, writeEnabled, request, transcript, n, todo, calls, tracked>>

Effect(j) == [turn |-> j.turn, at |-> j.at, tool |-> j.tool, tracked |-> tracked]

JobDone(j) ==
    /\ j.tool = "fs.delete" => there
    /\ Finish(j, TRUE)
    /\ effects' = effects \union {Effect(j)}
    /\ there' = CASE j.tool = "fs.write" -> TRUE
                  [] j.tool = "fs.delete" -> FALSE
                  [] j.tool = "shell.exec" -> there

\* A write that fails may have truncated the file; a command, not started.
JobFails(j) ==
    /\ Finish(j, FALSE)
    /\ \/ UNCHANGED <<effects, there>>
       \/ /\ j.tool = "fs.write"
          /\ effects' = effects \union {Effect(j)}
          /\ there' = TRUE

\* The future of these requests is dropped, with the events it has collected.
Drop(ts) ==
    LET Reset(f, v) == [t \in Turn |-> IF t \in ts THEN v ELSE f[t]]
    IN  /\ pc' = Reset(pc, "lost")
        /\ transcript' = Reset(transcript, <<>>) /\ n' = Reset(n, 0)
        /\ todo' = Reset(todo, <<>>) /\ results' = Reset(results, <<>>)
        /\ events' = Reset(events, <<>>)

\* truncate_output panics when its cut falls inside a character, of what git ...
CallBreaks(t) ==
    /\ pc[t] = "run" /\ todo[t] # <<>>
    /\ Head(todo[t]) \in {"git.status", "git.diff"} /\ MayRun(t, Head(todo[t]))
    /\ Drop({t})
    /\ UNCHANGED <<source, writeEnabled, request, calls, project>>

\* ... or of what a command has printed.
JobBreaks(j) ==
    /\ j.tool = "shell.exec" /\ Awaited(j)
    /\ jobs' = jobs \ {j}
    /\ effects' = effects \union {Effect(j)}
    /\ Drop({j.turn})
    /\ UNCHANGED <<source, writeEnabled, request, calls, there, tracked>>

\* Mutant: the timeout starts with the command's first output.
TimeoutLate(t) ==
    /\ \E j \in jobs : j.turn = t /\ j.tool = "shell.exec" /\ Awaited(j) /\ Effect(j) \in effects
    /\ Return(t, <<>>, calls[t], "shell.exec", FALSE)
    /\ UNCHANGED <<source, writeEnabled, request, transcript, n, todo, calls, project>>

\* run_shell: the shell is killed, what it has started is not.
Timeout(t) ==
    /\ \E j \in jobs : j.turn = t /\ j.tool = "shell.exec" /\ Awaited(j)
    /\ Return(t, <<>>, calls[t], "shell.exec", FALSE)
    /\ UNCHANGED <<source, writeEnabled, request, transcript, n, todo, calls, project>>

\* sh exits; what it left in the background, with its output elsewhere, goes on.
ShellReturns(t) ==
    /\ \E j \in jobs : j.turn = t /\ j.tool = "shell.exec" /\ Awaited(j)
    /\ Return(t, <<>>, calls[t], "shell.exec", TRUE)
    /\ UNCHANGED <<source, writeEnabled, request, transcript, n, todo, calls, project>>

\* Mutant: the limit is tested before the iteration is counted.
NextIterationPast(t) ==
    /\ pc[t] = "run" /\ todo[t] = <<>>
    /\ n' = [n EXCEPT ![t] = @ + 1]
    /\ transcript' = [transcript EXCEPT ![t] = Append(@, results[t])]
    /\ results' = [results EXCEPT ![t] = <<>>]
    /\ IF n[t] = body[t].limit
       THEN pc' = [pc EXCEPT ![t] = "sent"] /\ Emit(t, <<Terminal("done")>>)
       ELSE pc' = [pc EXCEPT ![t] = "ask"] /\ UNCHANGED events
    /\ UNCHANGED <<source, writeEnabled, request, todo, calls, project>>

\* The tool results are the next message, unless that was the last iteration.
NextIteration(t) ==
    /\ pc[t] = "run" /\ todo[t] = <<>>
    /\ n' = [n EXCEPT ![t] = @ + 1]
    /\ transcript' = [transcript EXCEPT ![t] = Append(@, results[t])]
    /\ results' = [results EXCEPT ![t] = <<>>]
    /\ IF n[t] + 1 = body[t].limit
       THEN pc' = [pc EXCEPT ![t] = "sent"] /\ Emit(t, <<Terminal("done")>>)
       ELSE pc' = [pc EXCEPT ![t] = "ask"] /\ UNCHANGED events
    /\ UNCHANGED <<source, writeEnabled, request, todo, calls, project>>

-----------------------------------------------------------------------------
(* Everybody else *)

Disconnect(t) ==
    /\ pc[t] \in InFlight
    /\ Drop({t})
    /\ UNCHANGED <<source, writeEnabled, request, calls, project>>

\* The pool dies with the server, the children of a shell do not.
Crash ==
    /\ \E t \in Turn : pc[t] \in InFlight
    /\ Drop({t \in Turn : pc[t] \in InFlight})
    /\ jobs' = {j \in jobs : j.tool = "shell.exec"}
    /\ Reboot
    /\ UNCHANGED <<writeEnabled, request, calls, effects, there, tracked>>

\* While a request has not read them; nothing else looks at them.
Credentials ==
    /\ \E t \in Turn : pc[t] \in {"idle", "open"}
    /\ \/ \E a \in Account : Login(a)
       \/ Logout
       \/ \E blob \in {Raw, NoBlob} : Replace(blob)
    /\ UNCHANGED <<writeEnabled, pc, request, loop, project>>

\* Meanwhile the user, or another tool, puts the file back, or git-adds it.
UserActs ==
    /\ \E t \in Turn : pc[t] \in InFlight
    /\ \/ ~there /\ there' = TRUE /\ UNCHANGED tracked
       \/ there /\ ~tracked /\ tracked' = TRUE /\ UNCHANGED there
    /\ UNCHANGED <<source, writeEnabled, pc, request, loop, jobs, effects>>

Ask(t) == AskCache(t) \/ AskProvider(t) \/ AskFails(t)
Call(t) == CallFails(t) \/ CallReads(t) \/ CallStarts(t) \/ CallChecks(t)
Check(t) == CheckRefuses(t) \/ CheckPasses(t)
List(t) == ListModels(t) \/ ListFails(t)

Next ==
    \/ \E t \in Turn : \/ ReadKey(t) \/ OpenBlob(t) \/ Ask(t) \/ List(t) \/ Call(t) \/ Check(t)
                       \/ CallBreaks(t) \/ Timeout(t) \/ ShellReturns(t)
                       \/ NextIteration(t) \/ Disconnect(t)
    \/ \E j \in jobs : JobDone(j) \/ JobFails(j) \/ JobBreaks(j)
    \/ Crash \/ Credentials \/ UserActs

Init ==
    /\ SourceInit
    /\ writeEnabled \in BOOLEAN
    /\ pc = [t \in Turn |-> "idle"]
    /\ keyed = [t \in Turn |-> FALSE]
    /\ router = [t \in Turn |-> {}]
    /\ body = [t \in Turn |-> [route |-> "dispatch", tools |-> {}, limit |-> 0, wellFormed |-> FALSE]]
    /\ transcript = [t \in Turn |-> <<>>]
    /\ n = [t \in Turn |-> 0]
    /\ todo = [t \in Turn |-> <<>>]
    /\ calls = [t \in Turn |-> 0]
    /\ results = [t \in Turn |-> <<>>]
    /\ events = [t \in Turn |-> <<>>]
    /\ jobs = {} /\ effects = {}
    /\ \E f \in Index : there = f.there /\ tracked = f.tracked

Spec == Init /\ [][Next]_vars

\* A model call ends by its own timeouts (RouterDispatch), a list of models by
\* MODEL_LIST_TIMEOUT; git ends unless it hangs, and so do operations of the
\* blocking pool; commands need not.
Fairness ==
    \A t \in Turn :
        /\ WF_vars(OpenBlob(t)) /\ WF_vars(Ask(t)) /\ WF_vars(List(t))
        /\ WF_vars(Call(t)) /\ WF_vars(Check(t))
        /\ WF_vars(Timeout(t)) /\ WF_vars(NextIteration(t))
        /\ WF_vars(\E j \in jobs : /\ j.turn = t /\ j.tool # "shell.exec"
                                   /\ JobDone(j) \/ JobFails(j))

FairSpec == Spec /\ Fairness

-----------------------------------------------------------------------------
(* Properties *)

\* Types; a turn never does more iterations than it asked for, and a result is
\* only outstanding for the call begun last.
TypeOK ==
    /\ SourceTypeOK
    /\ pc \in [Turn -> InFlight \union {"idle", "refused", "sent", "lost"}]
    /\ router \in [Turn -> SUBSET (Account \union Provider)]
    /\ body \in [Turn -> Body \union {[route |-> "dispatch", tools |-> {}, limit |-> 0, wellFormed |-> FALSE]}]
    /\ \A t \in Turn : n[t] <= body[t].limit
    /\ \A j \in jobs \union effects : j.turn \in Turn /\ j.at \in 1..calls[j.turn]

Answers(t) == {i \in DOMAIN events[t] : events[t][i].type \in {"iteration", "chunk", "models"}}

\* A request that found a session key walks endpoints of users only, one without
\* the providers of studio.toml only.  Every answer is to the very messages of its
\* request at that time, and comes from an endpoint the request walks; or from
\* the cache, and then from an endpoint of the same name: this one, an earlier
\* user's, or the provider that studio.toml calls session_provider.
AnswersFitTurn ==
    \A t \in Turn : \A i \in Answers(t) :
        LET ev == events[t][i] IN
        /\ router[t] \subseteq IF keyed[t] THEN Account ELSE Provider
        /\ ev.asked = [Messages(t) EXCEPT !.said = SubSeq(transcript[t], 1, 2 * ev.n)]
        /\ \E p \in router[t] : IF ev.hit THEN ProviderKey(p) = ProviderKey(ev.by) ELSE p = ev.by

\* What an agent changes, at once or after its turn, it changes with a tool the
\* request asked for and, as only writing tools change anything, on a server
\* started with --enable-write-tools.
EffectsAllowed ==
    \A e \in effects : e.tool \in body[e.turn].tools /\ e.tool \in WriteTools /\ writeEnabled

\* A stream that reached its end tells every change of its turn, those that
\* commands make later too: each has a result, and the result of a call follows
\* the call.  What then is still under way is a command, which goes on after its
\* shell was killed or has exited; a write or delete has no error in the stream
\* only once it has been done.
EffectsTold ==
    \A t \in Turn : pc[t] = "sent" =>
        LET Results == {i \in DOMAIN events[t] : events[t][i].type = "tool_result"} IN
        /\ \A e \in effects : e.turn = t => \E i \in Results : events[t][i].at = e.at
        /\ \A i \in DOMAIN events[t] : events[t][i].type = "tool_call" =>
              i + 1 \in Results /\ events[t][i + 1].at = events[t][i].at
        /\ \A j \in jobs : j.turn = t => j.tool = "shell.exec"
        /\ \A i \in Results :
              events[t][i].ok /\ events[t][i].tool \in FileTools =>
                  \E e \in effects : e.turn = t /\ e.at = events[t][i].at

\* A request under way ends: refused, with a terminal event, or because its
\* caller left, the server stopped or the task panicked.
EveryTurnEnds ==
    \A t \in Turn : pc[t] \in InFlight ~>
        \/ pc[t] \in {"refused", "lost"}
        \/ pc[t] = "sent" /\ Last(events[t]).type \in {"done", "error", "models"}

\* ADR-0012: fs.delete refuses to delete git-tracked files.
DeleteSparesTracked == \A e \in effects : e.tool = "fs.delete" => ~e.tracked
=============================================================================
