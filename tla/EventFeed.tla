----------------------------- MODULE EventFeed -----------------------------
(***************************************************************************)
(* From a change of a file under docs/agent to the list a browser shows:    *)
(* a watcher per directory with a bounded queue and a debounce window, one  *)
(* bridge task per directory, the broadcast ring of the EventHub, one SSE   *)
(* stream per page, and pages that list again on every event.              *)
(*                                                                         *)
(* Events only say that something happened; what a page shows comes from    *)
(* the index, to which a create adds its row after its file, and nothing    *)
(* else adds anything.  A list is counted by the rows it has.  The buffers  *)
(* between the stream and the browser are part of the stream.              *)
(***************************************************************************)
EXTENDS Integers, Sequences, FiniteSets, SequencesExt

CONSTANTS
    Dir,        \* the watched directories
    Path,       \* files in them
    DirOf,      \* the directory of each
    Markdown,   \* those that end in .md
    Page,       \* clients of /api/events
    PageDir,    \* the directory whose list each shows, NoDir for other clients
    NoDir,
    Fast,       \* pages that keep reading their stream
    QueueCap,   \* the watcher's channel: 64
    RingCap,    \* SSE_BUFFER_CAP
    MaxEvents,  \* bound: filesystem events in one behaviour
    MaxAsks     \* bound: lists a page has under way

ASSUME EventFeedAssumption ==
    /\ DirOf \in [Path -> Dir] /\ PageDir \in [Page -> Dir \union {NoDir}] /\ NoDir \notin Dir
    /\ Markdown \subseteq Path /\ Fast \subseteq Page
    /\ QueueCap \in Nat \ {0} /\ RingCap \in Nat \ {0}
    /\ MaxEvents \in Nat /\ MaxAsks \in Nat

EventKind == {"create", "modify", "remove"}
RawEvent == [path : Path, kind : EventKind]

Unanswered == -1   \* a list the server has not read yet

VARIABLES
    present,   \* the files there are
    indexing,  \* creates between their file and their row
    rows,      \* rows each directory has in the index
    raised,    \* events so far
    watching,  \* whether the directory's watcher could be set up
    queue,     \* its channel
    recent,    \* events emitted less than DEBOUNCE_WINDOW ago
    feed,      \* all envelopes published while somebody listened
    told,      \* rows each directory had at the last publication about it
    pos,       \* envelopes behind each stream, Off when it is closed
    asks,      \* lists under way, in the order they were asked for
    shown,     \* rows of the list on the page
    loadErr,   \* whether it shows that a list has failed
    missed,    \* whether an envelope about its directory has passed it by
    overtaken  \* whether an answer has come before that of an earlier ask

files == <<present, indexing, rows, raised>>
bridge == <<watching, queue, recent, feed, told>>
pages == <<pos, asks, shown, loadErr, missed, overtaken>>
vars == <<files, bridge, pages>>

Off == -1

-----------------------------------------------------------------------------
(* Files and their events *)

\* Mutant: the channel is unbounded.
RaiseUnbounded(p, kind) ==
    /\ raised < MaxEvents
    /\ raised' = raised + 1
    /\ queue' = [queue EXCEPT ![DirOf[p]] = Append(@, [path |-> p, kind |-> kind])]
    /\ UNCHANGED <<rows, watching, recent, feed, told, pages>>

\* notify's callback: try_send, and a full channel drops the event.
Raise(p, kind) ==
    /\ raised < MaxEvents
    /\ raised' = raised + 1
    /\ LET d == DirOf[p]
           room == watching[d] /\ Len(queue[d]) < QueueCap
       IN  queue' = IF room THEN [queue EXCEPT ![d] = Append(@, [path |-> p, kind |-> kind])]
                            ELSE queue
    /\ UNCHANGED <<rows, watching, recent, feed, told, pages>>

\* A create of the API writes its file and has its row before it.
ApiCreates(p) ==
    /\ p \in Markdown \ present
    /\ present' = present \union {p}
    /\ indexing' = indexing \union {p}
    /\ Raise(p, "create")

UserCreates(p) ==
    /\ p \notin present
    /\ present' = present \union {p}
    /\ Raise(p, "create")
    /\ UNCHANGED indexing

\* One write may be several events.
Modifies(p) == p \in present /\ Raise(p, "modify") /\ UNCHANGED <<present, indexing>>

UserRemoves(p) ==
    /\ p \in present \ indexing
    /\ present' = present \ {p}
    /\ Raise(p, "remove")
    /\ UNCHANGED indexing

\* upsert_index; no event follows it.
RowWritten(p) ==
    /\ p \in indexing
    /\ indexing' = indexing \ {p}
    /\ rows' = [rows EXCEPT ![DirOf[p]] = @ + 1]
    /\ UNCHANGED <<present, raised, bridge, pages>>

-----------------------------------------------------------------------------
(* The stream and the bridge task of a directory *)

\* More than DEBOUNCE_WINDOW has passed since the event was emitted.
WindowEnds(evt) ==
    /\ evt \in recent
    /\ recent' = recent \ {evt}
    /\ UNCHANGED <<files, watching, queue, feed, told, pages>>

Listening == {pg \in Page : pos[pg] # Off}

\* Publishing never waits; without a receiver the envelope is gone.  A page
\* that is not listening will not get it.
Publish(evt) ==
    LET d == DirOf[evt.path]
    IN  /\ feed' = IF Listening = {} THEN feed ELSE Append(feed, evt)
        /\ told' = [told EXCEPT ![d] = rows[d]]
        /\ missed' = [pg \in Page |-> missed[pg] \/ (pos[pg] = Off /\ PageDir[pg] = d)]

\* An event of the same path and kind was emitted within the window.
Suppress(d) ==
    /\ queue[d] # <<>>
    /\ Head(queue[d]) \in recent
    /\ queue' = [queue EXCEPT ![d] = Tail(@)]
    /\ UNCHANGED <<files, watching, recent, feed, told, pages>>

\* What is not markdown is emitted by the stream and dropped by its filter.
Filter(d) ==
    /\ queue[d] # <<>>
    /\ Head(queue[d]) \notin recent
    /\ Head(queue[d]).path \notin Markdown
    /\ recent' = recent \union {Head(queue[d])}
    /\ queue' = [queue EXCEPT ![d] = Tail(@)]
    /\ UNCHANGED <<files, watching, feed, told, pages>>

\* Mutant: the bridge waits until no receiver would lag.
ForwardWaits(d) ==
    /\ queue[d] # <<>>
    /\ Head(queue[d]) \notin recent
    /\ Head(queue[d]).path \in Markdown
    /\ \A pg \in Listening : Len(feed) - pos[pg] < RingCap
    /\ recent' = recent \union {Head(queue[d])}
    /\ queue' = [queue EXCEPT ![d] = Tail(@)]
    /\ Publish(Head(queue[d]))
    /\ UNCHANGED <<files, watching, pos, asks, shown, loadErr, overtaken>>

Forward(d) ==
    /\ queue[d] # <<>>
    /\ Head(queue[d]) \notin recent
    /\ Head(queue[d]).path \in Markdown
    /\ recent' = recent \union {Head(queue[d])}
    /\ queue' = [queue EXCEPT ![d] = Tail(@)]
    /\ Publish(Head(queue[d]))
    /\ UNCHANGED <<files, watching, pos, asks, shown, loadErr, overtaken>>

-----------------------------------------------------------------------------
(* Pages *)

\* Mutant: a refresh is left out while another one is loading.
RefreshIfIdle(pg) ==
    /\ asks' = [asks EXCEPT ![pg] = IF @ = <<>> THEN <<Unanswered>> ELSE @]
    /\ loadErr' = [loadErr EXCEPT ![pg] = FALSE]
    /\ overtaken' = [overtaken EXCEPT ![pg] = @ /\ asks[pg] # <<>>]
    /\ missed' = [missed EXCEPT ![pg] = FALSE]

\* refresh(): another GET, whatever is under way; the error shown is taken away.
Refresh(pg) ==
    /\ Len(asks[pg]) < MaxAsks
    /\ asks' = [asks EXCEPT ![pg] = Append(@, Unanswered)]
    /\ loadErr' = [loadErr EXCEPT ![pg] = FALSE]
    /\ overtaken' = [overtaken EXCEPT ![pg] = @ /\ asks[pg] # <<>>]
    /\ missed' = [missed EXCEPT ![pg] = FALSE]

\* The user opens the page, or one of its creates succeeded.
Ask(pg) ==
    /\ PageDir[pg] # NoDir
    /\ asks[pg] = <<>>
    /\ Refresh(pg)
    /\ UNCHANGED <<files, bridge, pos, shown>>

\* EventSource connects, or connects again: no Last-Event-ID, no new list.
Subscribe(pg) ==
    /\ pos[pg] = Off
    /\ pos' = [pos EXCEPT ![pg] = Len(feed)]
    /\ UNCHANGED <<files, bridge, asks, shown, loadErr, missed, overtaken>>

Unsubscribe(pg) ==
    /\ pos[pg] # Off
    /\ missed' = [missed EXCEPT ![pg] =
                    @ \/ \E i \in (pos[pg] + 1) .. Len(feed) : DirOf[feed[i].path] = PageDir[pg]]
    /\ pos' = [pos EXCEPT ![pg] = Off]
    /\ UNCHANGED <<files, bridge, asks, shown, loadErr, overtaken>>

Lags(pg) == pos[pg] # Off /\ Len(feed) - pos[pg] > RingCap

\* An envelope reaches the page; one about its directory makes it list again.
Deliver(pg) ==
    /\ pos[pg] # Off /\ pos[pg] < Len(feed) /\ ~Lags(pg)
    /\ pos' = [pos EXCEPT ![pg] = @ + 1]
    /\ IF DirOf[feed[pos[pg] + 1].path] = PageDir[pg]
       THEN Refresh(pg)
       ELSE UNCHANGED <<asks, loadErr, missed, overtaken>>
    /\ UNCHANGED <<files, bridge, shown>>

\* Mutant: the error of a lagging receiver does not move it.
SkipNowhere(pg) ==
    /\ Lags(pg)
    /\ UNCHANGED vars

\* The receiver has lagged: it goes on from the oldest envelope of the ring,
\* and the page is not told.
SkipForward(pg) ==
    /\ Lags(pg)
    /\ LET oldest == Len(feed) - RingCap
       IN  /\ pos' = [pos EXCEPT ![pg] = oldest]
           /\ missed' = [missed EXCEPT ![pg] =
                @ \/ \E i \in (pos[pg] + 1) .. oldest : DirOf[feed[i].path] = PageDir[pg]]
    /\ UNCHANGED <<files, bridge, asks, shown, loadErr, overtaken>>

\* The server reads the list ...
ServeList(pg, i) ==
    /\ asks[pg][i] = Unanswered
    /\ asks' = [asks EXCEPT ![pg][i] = rows[PageDir[pg]]]
    /\ UNCHANGED <<files, bridge, pos, shown, loadErr, missed, overtaken>>

\* ... and the page shows it, in the order the answers come in.
ShowList(pg, i) ==
    /\ asks[pg][i] # Unanswered
    /\ shown' = [shown EXCEPT ![pg] = asks[pg][i]]
    /\ asks' = [asks EXCEPT ![pg] = RemoveAt(@, i)]
    /\ overtaken' = [overtaken EXCEPT ![pg] = @ \/ i > 1]
    /\ UNCHANGED <<files, bridge, pos, loadErr, missed>>

\* The store cannot list, or the answer does not arrive: the page keeps the rows
\* it has, under an error.
ListFails(pg, i) ==
    /\ loadErr' = [loadErr EXCEPT ![pg] = TRUE]
    /\ asks' = [asks EXCEPT ![pg] = RemoveAt(@, i)]
    /\ UNCHANGED <<files, bridge, pos, shown, missed, overtaken>>

-----------------------------------------------------------------------------

\* A watcher that cannot be set up leaves an empty stream and no bridge.  The
\* pages are open but have neither listed nor subscribed.
Init ==
    /\ present \in SUBSET Path
    /\ indexing = {}
    /\ rows = [d \in Dir |-> 0]
    /\ raised = 0
    /\ watching \in [Dir -> BOOLEAN]
    /\ queue = [d \in Dir |-> <<>>]
    /\ recent = {}
    /\ feed = <<>>
    /\ told = [d \in Dir |-> 0]
    /\ pos = [pg \in Page |-> Off]
    /\ asks = [pg \in Page |-> <<>>]
    /\ shown = [pg \in Page |-> 0]
    /\ loadErr = [pg \in Page |-> FALSE]
    /\ missed = [pg \in Page |-> FALSE]
    /\ overtaken = [pg \in Page |-> FALSE]

Change(p) ==
    ApiCreates(p) \/ UserCreates(p) \/ Modifies(p) \/ UserRemoves(p) \/ RowWritten(p)

Poll(d) == Suppress(d) \/ Filter(d) \/ Forward(d)

Answer(pg) ==
    \E i \in 1 .. Len(asks[pg]) : ServeList(pg, i) \/ ShowList(pg, i) \/ ListFails(pg, i)

Next ==
    \/ \E p \in Path : Change(p)
    \/ \E evt \in recent : WindowEnds(evt)
    \/ \E d \in Dir : Poll(d)
    \/ \E pg \in Page :
         \/ Ask(pg) \/ Subscribe(pg) \/ Unsubscribe(pg)
         \/ Deliver(pg) \/ SkipForward(pg) \/ Answer(pg)

Spec == Init /\ [][Next]_vars

\* The runtime polls the bridge tasks, and a page that is fast reads its stream
\* and gets an answer or an error for each list.  Nothing is said of the slow ones.
Fairness ==
    /\ \A d \in Dir : WF_vars(Poll(d))
    /\ \A pg \in Fast : WF_vars(Deliver(pg) \/ SkipForward(pg)) /\ WF_vars(Answer(pg))

FairSpec == Spec /\ Fairness

-----------------------------------------------------------------------------
(* Properties *)

\* The shape of the state.
TypeOK ==
    /\ present \subseteq Path /\ indexing \subseteq Path
    /\ rows \in [Dir -> Nat] /\ told \in [Dir -> Nat]
    /\ raised \in 0 .. MaxEvents
    /\ watching \in [Dir -> BOOLEAN]
    /\ queue \in [Dir -> Seq(RawEvent)]
    /\ \A d \in Dir : Len(queue[d]) <= QueueCap
    /\ recent \subseteq RawEvent
    /\ feed \in Seq(RawEvent)
    /\ pos \in [Page -> Nat \union {Off}]
    /\ \A pg \in Page : pos[pg] <= Len(feed)
    /\ asks \in [Page -> Seq(Nat \union {Unanswered})]
    /\ shown \in [Page -> Nat]
    /\ loadErr \in [Page -> BOOLEAN] /\ missed \in [Page -> BOOLEAN] /\ overtaken \in [Page -> BOOLEAN]

\* From the bridge to the browser: a page that has read its stream to the end,
\* has no list under way and shows no error shows every row that was in the
\* index when an event about its directory was last published.  A list that
\* failed leaves old rows, and the error stays until the page lists again, even
\* if an earlier ask is answered after it.  What may leave a page out of date
\* with nothing on it are an envelope that passed it by (closed, or pushed out of
\* the ring by the other directory's events) and answers that overtook one another.
AnnouncedIsShown ==
    \A pg \in Page :
        /\ pos[pg] = Len(feed)
        /\ asks[pg] = <<>>
        /\ PageDir[pg] # NoDir
        /\ ~loadErr[pg]
        /\ ~missed[pg] /\ ~overtaken[pg]
        => shown[pg] >= told[PageDir[pg]]

\* "A slow consumer can't backpressure the watcher thread": the queue of a
\* directory is emptied though pages stop reading.
QueuesAreDrained == \A d \in Dir : queue[d] # <<>> ~> queue[d] = <<>>

\* A page that keeps reading gets to the end of the feed or closes its stream,
\* however far it had fallen behind.
ReadersCatchUp ==
    \A pg \in Fast : pos[pg] # Off ~> pos[pg] = Off \/ pos[pg] = Len(feed)
=============================================================================
