-------------------------- MODULE EventFeedProofs --------------------------
(***************************************************************************)
(* For any number of directories, files and pages, and any capacity of the  *)
(* channels: what the index had when an event was published is on the page  *)
(* that has read its stream to the end and shows no error, unless an        *)
(* envelope has passed it by or answers have overtaken one another.         *)
(***************************************************************************)
EXTENDS EventFeed, TLAPS, SequenceTheorems

-----------------------------------------------------------------------------
(* The inductive invariant *)

\* An envelope about the page's directory lies ahead of it in its stream.
Ahead(pg) ==
    /\ pos[pg] # Off
    /\ \E i \in (pos[pg] + 1) .. Len(feed) : DirOf[feed[i].path] = PageDir[pg]

\* The list asked for last has, or will have, every row announced; with none
\* under way the page shows them.
Fresh(pg) ==
    IF asks[pg] = <<>>
    THEN shown[pg] >= told[PageDir[pg]]
    ELSE asks[pg][Len(asks[pg])] = Unanswered \/ asks[pg][Len(asks[pg])] >= told[PageDir[pg]]

\* Rows are only ever added, so nothing announced is taken back.
RowsStay == \A d \in Dir : told[d] <= rows[d]

PageOf(pg) ==
    PageDir[pg] # NoDir => loadErr[pg] \/ missed[pg] \/ overtaken[pg] \/ Ahead(pg) \/ Fresh(pg)

PageInv == \A pg \in Page : PageOf(pg)

\* Only pages that show a directory's list ask for one.
Askers == \A pg \in Page : asks[pg] # <<>> => PageDir[pg] \in Dir

FeedInv == TypeOK /\ RowsStay /\ PageInv /\ Askers

-----------------------------------------------------------------------------
(* Sequences *)

\* What is left when one element is taken out.
LEMMA Removed ==
    ASSUME NEW S, NEW s \in Seq(S), NEW i \in 1 .. Len(s)
    PROVE  /\ RemoveAt(s, i) \in Seq(S)
           /\ Len(RemoveAt(s, i)) = Len(s) - 1
           /\ i = 1 /\ Len(s) > 1 => RemoveAt(s, i)[Len(s) - 1] = s[Len(s)]
<1> DEFINE front == SubSeq(s, 1, i - 1)
           back == SubSeq(s, i + 1, Len(s))
<1>1. /\ Len(s) \in Nat /\ i \in Int /\ i - 1 \in Int /\ i + 1 \in Int /\ 1 \in Int /\ Len(s) \in Int
      /\ i >= 1 /\ i <= Len(s)
  BY LenProperties
<1>2. /\ \A k \in 1 .. (i - 1) : s[k] \in S
      /\ \A k \in (i + 1) .. Len(s) : s[k] \in S
  <2>1. \A k \in 1 .. Len(s) : s[k] \in S
    BY ElementOfSeq
  <2> QED
    BY <1>1, <2>1
<1>3. /\ front \in Seq(S)
      /\ Len(front) = IF 1 <= i - 1 THEN (i - 1) - 1 + 1 ELSE 0
  BY <1>1, <1>2, SubSeqProperties
<1>4. /\ back \in Seq(S)
      /\ Len(back) = IF i + 1 <= Len(s) THEN Len(s) - (i + 1) + 1 ELSE 0
      /\ \A k \in 1 .. Len(s) - (i + 1) + 1 : back[k] = s[(i + 1) + k - 1]
  BY <1>1, <1>2, SubSeqProperties
<1>5. RemoveAt(s, i) = front \o back
  BY DEF RemoveAt
<1> HIDE DEF front, back
<1>6. Len(front) = i - 1 /\ Len(back) = Len(s) - i
  BY <1>1, <1>3, <1>4
<1>7. /\ front \o back \in Seq(S) /\ Len(front \o back) = Len(front) + Len(back)
      /\ \A k \in 1 .. Len(front) + Len(back) :
           (front \o back)[k] = IF k <= Len(front) THEN front[k] ELSE back[k - Len(front)]
  BY <1>3, <1>4, ConcatProperties
<1>8. ASSUME i = 1, Len(s) > 1
      PROVE  (front \o back)[Len(s) - 1] = s[Len(s)]
  <2>1. Len(front) = 0 /\ Len(back) = Len(s) - 1
    BY <1>1, <1>6, <1>8
  <2>2. (front \o back)[Len(s) - 1] = back[(Len(s) - 1) - 0]
    BY <1>1, <1>7, <1>8, <2>1
  <2>3. (Len(s) - 1) - 0 = Len(s) - 1 /\ (1 + 1) + (Len(s) - 1) - 1 = Len(s)
    BY <1>1
  <2>4. back[Len(s) - 1] = s[(1 + 1) + (Len(s) - 1) - 1]
    BY <1>1, <1>4, <1>8
  <2> QED
    BY <2>2, <2>3, <2>4
<1>9. Len(front) + Len(back) = Len(s) - 1
  BY <1>1, <1>6
<1> QED
  BY <1>5, <1>7, <1>8, <1>9

-----------------------------------------------------------------------------
(* Types *)

LEMMA Raised ==
    ASSUME TypeOK, NEW p \in Path, NEW kind \in EventKind, Raise(p, kind)
    PROVE  /\ raised' \in 0 .. MaxEvents /\ queue' \in [Dir -> Seq(RawEvent)]
           /\ \A d \in Dir : Len(queue'[d]) <= QueueCap
           /\ UNCHANGED <<rows, watching, recent, feed, told, pages>>
<1> DEFINE d == DirOf[p]
           evt == [path |-> p, kind |-> kind]
           q == Append(queue[d], evt)
<1>1. d \in Dir /\ evt \in RawEvent /\ queue[d] \in Seq(RawEvent) /\ Len(queue[d]) \in Nat
  BY EventFeedAssumption, LenProperties DEF RawEvent, TypeOK
<1>2. q \in Seq(RawEvent) /\ Len(q) = Len(queue[d]) + 1
  BY <1>1, AppendProperties
<1>3. \/ queue' = queue
      \/ Len(queue[d]) < QueueCap /\ queue' = [queue EXCEPT ![d] = q]
  BY DEF Raise
<1>4. /\ queue' \in [Dir -> Seq(RawEvent)]
      /\ \A c \in Dir : Len(queue'[c]) <= QueueCap
  <2>1. queue \in [Dir -> Seq(RawEvent)] /\ \A c \in Dir : Len(queue[c]) <= QueueCap
    BY DEF TypeOK
  <2>2. QueueCap \in Nat
    BY EventFeedAssumption
  <2> HIDE DEF q, d
  <2>3. CASE queue' = queue
    BY <2>1, <2>3
  <2>4. CASE Len(queue[d]) < QueueCap /\ queue' = [queue EXCEPT ![d] = q]
    <3>1. Len(q) <= QueueCap
      BY <1>1, <1>2, <2>2, <2>4
    <3> QED
      BY <1>1, <1>2, <2>1, <2>4, <3>1
  <2> QED
    BY <1>3, <2>3, <2>4
<1>5. raised' \in 0 .. MaxEvents
  BY EventFeedAssumption DEF Raise, TypeOK
<1> QED
  BY <1>4, <1>5 DEF Raise

LEMMA ChangeTypes ==
    ASSUME TypeOK, NEW p \in Path, Change(p)
    PROVE  TypeOK'
<1>1. CASE ApiCreates(p) \/ UserCreates(p) \/ Modifies(p) \/ UserRemoves(p)
  <2>1. PICK kind \in EventKind : Raise(p, kind)
    BY <1>1 DEF ApiCreates, UserCreates, Modifies, UserRemoves, EventKind
  <2>2. present' \subseteq Path /\ indexing' \subseteq Path
    BY <1>1 DEF ApiCreates, UserCreates, Modifies, UserRemoves, TypeOK
  <2> QED
    BY <2>1, <2>2, Raised DEF TypeOK, pages
<1>2. CASE RowWritten(p)
  <2>1. DirOf[p] \in Dir /\ rows[DirOf[p]] + 1 \in Nat
    BY EventFeedAssumption DEF TypeOK
  <2> QED
    BY <1>2, <2>1 DEF RowWritten, TypeOK, bridge, pages
<1> QED
  BY <1>1, <1>2 DEF Change

\* The first event of a queue, and the rest.
LEMMA Heads ==
    ASSUME TypeOK, NEW d \in Dir, queue[d] # <<>>
    PROVE  /\ Head(queue[d]) \in RawEvent
           /\ [queue EXCEPT ![d] = Tail(@)] \in [Dir -> Seq(RawEvent)]
           /\ \A c \in Dir : Len([queue EXCEPT ![d] = Tail(@)][c]) <= QueueCap
<1>1. queue \in [Dir -> Seq(RawEvent)] /\ \A c \in Dir : Len(queue[c]) <= QueueCap
  BY DEF TypeOK
<1>2. /\ Head(queue[d]) \in RawEvent /\ Tail(queue[d]) \in Seq(RawEvent)
      /\ Len(Tail(queue[d])) = Len(queue[d]) - 1 /\ Len(queue[d]) \in Nat
  BY <1>1, HeadTailProperties, LenProperties
<1>3. Len(Tail(queue[d])) <= QueueCap
  BY <1>1, <1>2, EventFeedAssumption
<1> QED
  BY <1>1, <1>2, <1>3

LEMMA Published ==
    ASSUME TypeOK, NEW evt \in RawEvent, Publish(evt)
    PROVE  /\ feed' \in Seq(RawEvent) /\ Len(feed) \in Nat
           /\ DirOf[evt.path] \in Dir
           /\ \/ feed' = feed
              \/ Len(feed') = Len(feed) + 1
           /\ \A i \in 1 .. Len(feed) : i \in 1 .. Len(feed') /\ feed'[i] = feed[i]
           /\ Listening # {} => feed'[Len(feed) + 1] = evt /\ Len(feed') = Len(feed) + 1
           /\ told' \in [Dir -> Nat] /\ told'[DirOf[evt.path]] = rows[DirOf[evt.path]]
           /\ \A c \in Dir : c # DirOf[evt.path] => told'[c] = told[c]
           /\ missed' \in [Page -> BOOLEAN]
           /\ \A pg \in Page : missed[pg] => missed'[pg]
           /\ \A pg \in Page : pos[pg] = Off /\ PageDir[pg] = DirOf[evt.path] => missed'[pg]
<1>1. evt.path \in Path /\ DirOf[evt.path] \in Dir
  BY EventFeedAssumption DEF RawEvent
<1>2. feed \in Seq(RawEvent) /\ Len(feed) \in Nat
  BY LenProperties DEF TypeOK
<1>3. /\ Append(feed, evt) \in Seq(RawEvent) /\ Len(Append(feed, evt)) = Len(feed) + 1
      /\ \A i \in 1 .. Len(feed) : Append(feed, evt)[i] = feed[i]
      /\ Append(feed, evt)[Len(feed) + 1] = evt
  BY <1>2, AppendProperties
<1>4. told' = [told EXCEPT ![DirOf[evt.path]] = rows[DirOf[evt.path]]]
  BY DEF Publish
<1>5. /\ told' \in [Dir -> Nat] /\ told'[DirOf[evt.path]] = rows[DirOf[evt.path]]
      /\ \A c \in Dir : c # DirOf[evt.path] => told'[c] = told[c]
  BY <1>1, <1>4 DEF TypeOK
<1>6. missed' = [pg \in Page |-> missed[pg] \/ (pos[pg] = Off /\ PageDir[pg] = DirOf[evt.path])]
  BY DEF Publish
<1>7. /\ missed' \in [Page -> BOOLEAN]
      /\ \A pg \in Page : missed[pg] => missed'[pg]
      /\ \A pg \in Page : pos[pg] = Off /\ PageDir[pg] = DirOf[evt.path] => missed'[pg]
  BY <1>6 DEF TypeOK
<1>8. feed' = IF Listening = {} THEN feed ELSE Append(feed, evt)
  BY DEF Publish
<1>9. CASE Listening = {}
  BY <1>1, <1>2, <1>5, <1>7, <1>8, <1>9
<1>10. CASE Listening # {}
  <2>1. feed' = Append(feed, evt)
    BY <1>8, <1>10
  <2>2. \A i \in 1 .. Len(feed) : i \in 1 .. Len(feed')
    BY <1>2, <1>3, <2>1
  <2> QED
    BY <1>1, <1>2, <1>3, <1>5, <1>7, <2>1, <2>2
<1> QED
  BY <1>9, <1>10

LEMMA PollTypes ==
    ASSUME TypeOK, NEW d \in Dir, Poll(d)
    PROVE  TypeOK'
<1>1. queue[d] # <<>> /\ queue' = [queue EXCEPT ![d] = Tail(@)]
  BY DEF Poll, Suppress, Filter, Forward
<1>2. /\ Head(queue[d]) \in RawEvent /\ queue' \in [Dir -> Seq(RawEvent)]
      /\ \A c \in Dir : Len(queue'[c]) <= QueueCap
  BY <1>1, Heads
<1>3. recent' \subseteq RawEvent
  BY <1>2 DEF Poll, Suppress, Filter, Forward, TypeOK
<1>4. CASE Suppress(d) \/ Filter(d)
  BY <1>2, <1>3, <1>4 DEF Suppress, Filter, files, pages, TypeOK
<1>5. CASE Forward(d)
  <2>1. Publish(Head(queue[d])) /\ UNCHANGED <<files, watching, pos, asks, shown, loadErr, overtaken>>
    BY <1>5 DEF Forward
  <2>2. /\ feed' \in Seq(RawEvent) /\ Len(feed) \in Nat /\ told' \in [Dir -> Nat]
        /\ missed' \in [Page -> BOOLEAN] /\ (feed' = feed \/ Len(feed') = Len(feed) + 1)
    BY <1>2, <2>1, Published
  <2>3. ASSUME NEW pg \in Page PROVE pos'[pg] <= Len(feed')
    <3>1. pos[pg] \in Nat \union {Off} /\ pos[pg] <= Len(feed) /\ pos'[pg] = pos[pg]
      BY <2>1 DEF TypeOK
    <3> QED
      BY <2>2, <3>1 DEF Off
  <2> QED
    BY <1>2, <1>3, <2>1, <2>2, <2>3 DEF files, TypeOK
<1> QED
  BY <1>4, <1>5 DEF Poll

\* A page lists again.
LEMMA Refreshed ==
    ASSUME TypeOK, NEW pg \in Page, Refresh(pg)
    PROVE  /\ asks' \in [Page -> Seq(Nat \union {Unanswered})]
           /\ overtaken' \in [Page -> BOOLEAN] /\ missed' \in [Page -> BOOLEAN]
           /\ loadErr' \in [Page -> BOOLEAN]
           /\ asks'[pg] # <<>> /\ asks'[pg][Len(asks'[pg])] = Unanswered
           /\ \A q \in Page : q # pg =>
                asks'[q] = asks[q] /\ overtaken'[q] = overtaken[q] /\ missed'[q] = missed[q]
                /\ loadErr'[q] = loadErr[q]
<1> DEFINE S == Nat \union {Unanswered}
           s == Append(asks[pg], Unanswered)
<1>1. asks \in [Page -> Seq(S)] /\ Unanswered \in S
  BY DEF TypeOK
<1>2. /\ s \in Seq(S) /\ s # <<>> /\ Len(s) = Len(asks[pg]) + 1
      /\ s[Len(asks[pg]) + 1] = Unanswered
  <2> HIDE DEF S
  <2> QED
    BY <1>1, AppendProperties
<1>3. asks' = [asks EXCEPT ![pg] = s]
  BY DEF Refresh
<1>4. /\ asks' \in [Page -> Seq(S)] /\ asks'[pg] = s
      /\ \A q \in Page : q # pg => asks'[q] = asks[q]
  <2> HIDE DEF S, s
  <2> QED
    BY <1>1, <1>2, <1>3
<1>5. /\ overtaken' \in [Page -> BOOLEAN] /\ missed' \in [Page -> BOOLEAN]
      /\ \A q \in Page : q # pg => overtaken'[q] = overtaken[q] /\ missed'[q] = missed[q]
  BY DEF Refresh, TypeOK
<1>6. /\ loadErr' \in [Page -> BOOLEAN]
      /\ \A q \in Page : q # pg => loadErr'[q] = loadErr[q]
  BY DEF Refresh, TypeOK
<1> QED
  BY <1>2, <1>4, <1>5, <1>6

\* A server reads a list for a page, and the page shows one.
LEMMA Served ==
    ASSUME TypeOK, Askers, NEW pg \in Page, NEW i \in 1 .. Len(asks[pg]), ServeList(pg, i)
    PROVE  /\ asks' \in [Page -> Seq(Nat \union {Unanswered})]
           /\ \A q \in Page : q # pg => asks'[q] = asks[q]
           /\ PageDir[pg] \in Dir
           /\ asks[pg] # <<>> /\ Len(asks[pg]) \in Nat
           /\ Len(asks'[pg]) = Len(asks[pg]) /\ asks'[pg] # <<>>
           /\ \A j \in 1 .. Len(asks[pg]) :
                asks'[pg][j] = IF j = i THEN rows[PageDir[pg]] ELSE asks[pg][j]
<1> DEFINE S == Nat \union {Unanswered}
           a == asks[pg]
           v == rows[PageDir[pg]]
           b == [a EXCEPT ![i] = v]
<1>1. asks \in [Page -> Seq(S)] /\ a \in Seq(S) /\ Len(a) \in Nat
  BY LenProperties DEF TypeOK
<1>2. a # <<>>
  <2>1. Len(<<>>) = 0
    BY EmptySeq
  <2> QED
    BY <1>1, <2>1
<1>3. PageDir[pg] \in Dir /\ v \in S
  BY <1>2 DEF Askers, TypeOK
<1>4. /\ b \in Seq(S) /\ Len(b) = Len(a)
      /\ \A j \in 1 .. Len(a) : b[j] = IF j = i THEN v ELSE a[j]
  <2>1. i \in 1 .. Len(a)
    OBVIOUS
  <2> HIDE DEF S, v, a
  <2> QED
    BY <1>1, <1>3, <2>1, ExceptSeq
<1>5. b # <<>>
  <2>1. Len(<<>>) = 0
    BY EmptySeq
  <2>2. Len(b) >= 1
    BY <1>1, <1>4
  <2> HIDE DEF b
  <2> QED
    BY <2>1, <2>2
<1>6. asks' = [asks EXCEPT ![pg] = b]
  BY DEF ServeList
<1>7. asks' \in [Page -> Seq(S)] /\ asks'[pg] = b /\ \A q \in Page : q # pg => asks'[q] = asks[q]
  <2> HIDE DEF S, b
  <2> QED
    BY <1>1, <1>4, <1>6
<1> QED
  BY <1>1, <1>2, <1>3, <1>4, <1>5, <1>7

LEMMA Showed ==
    ASSUME TypeOK, NEW pg \in Page, NEW i \in 1 .. Len(asks[pg]), ShowList(pg, i)
    PROVE  /\ asks' \in [Page -> Seq(Nat \union {Unanswered})]
           /\ shown' \in [Page -> Nat] /\ overtaken' \in [Page -> BOOLEAN]
           /\ \A q \in Page : q # pg =>
                asks'[q] = asks[q] /\ shown'[q] = shown[q] /\ overtaken'[q] = overtaken[q]
           /\ asks[pg] # <<>> /\ Len(asks[pg]) \in Nat
           /\ Len(asks'[pg]) = Len(asks[pg]) - 1
           /\ i = 1 /\ Len(asks[pg]) > 1 => asks'[pg][Len(asks[pg]) - 1] = asks[pg][Len(asks[pg])]
           /\ asks'[pg] # <<>> => Len(asks[pg]) > 1
           /\ shown'[pg] = asks[pg][i]
           /\ overtaken[pg] => overtaken'[pg]
           /\ i > 1 => overtaken'[pg]
<1> DEFINE S == Nat \union {Unanswered}
           a == asks[pg]
           b == RemoveAt(a, i)
<1>1. asks \in [Page -> Seq(S)] /\ a \in Seq(S) /\ Len(a) \in Nat
  BY LenProperties DEF TypeOK
<1>2. a # <<>>
  <2>1. Len(<<>>) = 0
    BY EmptySeq
  <2> QED
    BY <1>1, <2>1
<1>3. /\ b \in Seq(S) /\ Len(b) = Len(a) - 1
      /\ i = 1 /\ Len(a) > 1 => b[Len(a) - 1] = a[Len(a)]
  <2>1. i \in 1 .. Len(a)
    OBVIOUS
  <2> HIDE DEF S, a
  <2> QED
    BY <1>1, <2>1, Removed
<1>4. asks' = [asks EXCEPT ![pg] = b]
  BY DEF ShowList
<1>5. asks' \in [Page -> Seq(S)] /\ asks'[pg] = b /\ \A q \in Page : q # pg => asks'[q] = asks[q]
  <2> HIDE DEF S, b
  <2> QED
    BY <1>1, <1>3, <1>4
<1>6. b # <<>> => Len(a) > 1
  <2>1. b # <<>> => Len(b) \in Nat \ {0}
    <3> HIDE DEF S, b
    <3> QED
      BY <1>3, EmptySeq
  <2> HIDE DEF b
  <2> QED
    BY <1>1, <1>3, <2>1
<1>7. a[i] \in Nat
  <2>1. a[i] \in S
    <3>1. i \in 1 .. Len(a)
      OBVIOUS
    <3> HIDE DEF S, a
    <3> QED
      BY <1>1, <3>1, ElementOfSeq
  <2>2. a[i] # Unanswered
    BY DEF ShowList
  <2> QED
    BY <2>1, <2>2
<1>8. /\ shown' \in [Page -> Nat] /\ shown'[pg] = a[i]
      /\ \A q \in Page : q # pg => shown'[q] = shown[q]
  BY <1>7 DEF ShowList, TypeOK
<1>9. /\ overtaken' \in [Page -> BOOLEAN]
      /\ overtaken[pg] => overtaken'[pg]
      /\ i > 1 => overtaken'[pg]
      /\ \A q \in Page : q # pg => overtaken'[q] = overtaken[q]
  BY DEF ShowList, TypeOK
<1> HIDE DEF b
<1> QED
  BY <1>1, <1>2, <1>3, <1>5, <1>6, <1>8, <1>9

\* A list fails.
LEMMA Failed ==
    ASSUME TypeOK, NEW pg \in Page, NEW i \in 1 .. Len(asks[pg]), ListFails(pg, i)
    PROVE  /\ asks' \in [Page -> Seq(Nat \union {Unanswered})]
           /\ loadErr' \in [Page -> BOOLEAN] /\ loadErr'[pg]
           /\ asks[pg] # <<>>
           /\ \A q \in Page : q # pg => asks'[q] = asks[q] /\ loadErr'[q] = loadErr[q]
<1> DEFINE S == Nat \union {Unanswered}
           a == asks[pg]
           b == RemoveAt(a, i)
<1>1. asks \in [Page -> Seq(S)] /\ a \in Seq(S) /\ Len(a) \in Nat
  BY LenProperties DEF TypeOK
<1>2. a # <<>>
  <2>1. Len(<<>>) = 0
    BY EmptySeq
  <2> QED
    BY <1>1, <2>1
<1>3. b \in Seq(S)
  <2>1. i \in 1 .. Len(a)
    OBVIOUS
  <2> HIDE DEF S, a
  <2> QED
    BY <1>1, <2>1, Removed
<1>4. asks' = [asks EXCEPT ![pg] = b]
  BY DEF ListFails
<1>5. asks' \in [Page -> Seq(S)] /\ \A q \in Page : q # pg => asks'[q] = asks[q]
  <2> HIDE DEF S, b
  <2> QED
    BY <1>1, <1>3, <1>4
<1>6. /\ loadErr' \in [Page -> BOOLEAN] /\ loadErr'[pg]
      /\ \A q \in Page : q # pg => loadErr'[q] = loadErr[q]
  BY DEF ListFails, TypeOK
<1> QED
  BY <1>2, <1>5, <1>6

\* A stream that moves.
LEMMA Moved ==
    ASSUME TypeOK, NEW pg \in Page, NEW to \in Nat \union {Off}, to <= Len(feed),
           pos' = [pos EXCEPT ![pg] = to]
    PROVE  /\ pos' \in [Page -> Nat \union {Off}] /\ pos'[pg] = to
           /\ \A q \in Page : pos'[q] <= Len(feed)
           /\ \A q \in Page : q # pg => pos'[q] = pos[q]
BY DEF TypeOK

\* Where a stream is.
LEMMA Places ==
    ASSUME TypeOK, NEW pg \in Page, pos[pg] # Off
    PROVE  pos[pg] \in Nat /\ Len(feed) \in Nat /\ pos[pg] <= Len(feed)
BY LenProperties DEF TypeOK

LEMMA PageTypes ==
    ASSUME TypeOK, Askers, NEW pg \in Page,
           \/ Ask(pg) \/ Subscribe(pg) \/ Unsubscribe(pg)
           \/ Deliver(pg) \/ SkipForward(pg) \/ Answer(pg)
    PROVE  TypeOK'
<1>0. Len(feed) \in Nat
  BY LenProperties DEF TypeOK
<1>1. CASE Ask(pg)
  BY <1>1, Refreshed DEF Ask, files, bridge, TypeOK
<1>2. CASE Subscribe(pg)
  BY <1>0, <1>2, Moved DEF Subscribe, files, bridge, TypeOK
<1>3. CASE Unsubscribe(pg)
  <2>1. Off <= Len(feed)
    BY <1>0 DEF Off
  <2>2. /\ pos' \in [Page -> Nat \union {Off}]
        /\ \A q \in Page : pos'[q] <= Len(feed)
    BY <1>3, <2>1, Moved DEF Unsubscribe
  <2>3. missed' \in [Page -> BOOLEAN]
    BY <1>3 DEF Unsubscribe, TypeOK
  <2> QED
    BY <1>3, <2>2, <2>3 DEF Unsubscribe, files, bridge, TypeOK
<1>4. CASE Deliver(pg)
  <2>1. pos[pg] + 1 \in Nat /\ pos[pg] + 1 <= Len(feed) /\ pos' = [pos EXCEPT ![pg] = pos[pg] + 1]
    BY <1>0, <1>4, Places DEF Deliver
  <2>2. /\ pos' \in [Page -> Nat \union {Off}]
        /\ \A q \in Page : pos'[q] <= Len(feed)
    BY <2>1, Moved
  <2>3. /\ asks' \in [Page -> Seq(Nat \union {Unanswered})]
        /\ overtaken' \in [Page -> BOOLEAN] /\ missed' \in [Page -> BOOLEAN]
        /\ loadErr' \in [Page -> BOOLEAN]
    <3>1. CASE Refresh(pg)
      BY <3>1, Refreshed
    <3>2. CASE UNCHANGED <<asks, loadErr, missed, overtaken>>
      BY <3>2 DEF TypeOK
    <3> QED
      BY <1>4, <3>1, <3>2 DEF Deliver
  <2> QED
    BY <1>4, <2>2, <2>3 DEF Deliver, files, bridge, TypeOK
<1>5. CASE SkipForward(pg)
  <2>1. /\ Len(feed) - RingCap \in Nat /\ Len(feed) - RingCap <= Len(feed)
        /\ pos' = [pos EXCEPT ![pg] = Len(feed) - RingCap]
    BY <1>0, <1>5, Places, EventFeedAssumption DEF SkipForward, Lags
  <2>2. /\ pos' \in [Page -> Nat \union {Off}]
        /\ \A q \in Page : pos'[q] <= Len(feed)
    BY <2>1, Moved
  <2>3. missed' \in [Page -> BOOLEAN]
    BY <1>5 DEF SkipForward, TypeOK
  <2> QED
    BY <1>5, <2>2, <2>3 DEF SkipForward, files, bridge, TypeOK
<1>6. ASSUME NEW i \in 1 .. Len(asks[pg]), ServeList(pg, i)
      PROVE  TypeOK'
  BY <1>6, Served DEF ServeList, files, bridge, TypeOK
<1>7. ASSUME NEW i \in 1 .. Len(asks[pg]), ShowList(pg, i)
      PROVE  TypeOK'
  BY <1>7, Showed DEF ShowList, files, bridge, TypeOK
<1>8. ASSUME NEW i \in 1 .. Len(asks[pg]), ListFails(pg, i)
      PROVE  TypeOK'
  BY <1>8, Failed DEF ListFails, files, bridge, TypeOK
<1> QED
  BY <1>1, <1>2, <1>3, <1>4, <1>5, <1>6, <1>7, <1>8 DEF Answer

LEMMA NextTypes == TypeOK /\ Askers /\ [Next]_vars => TypeOK'
<1> SUFFICES ASSUME TypeOK, Askers, [Next]_vars PROVE TypeOK'
  OBVIOUS
<1>1. ASSUME NEW evt \in recent, WindowEnds(evt) PROVE TypeOK'
  BY <1>1 DEF WindowEnds, files, pages, TypeOK
<1>2. CASE UNCHANGED vars
  BY <1>2 DEF vars, files, bridge, pages, TypeOK
<1> QED
  BY <1>1, <1>2, ChangeTypes, PollTypes, PageTypes DEF Next

-----------------------------------------------------------------------------
(* Rows, askers and pages *)

LEMMA NextRows == TypeOK /\ RowsStay /\ [Next]_vars => RowsStay'
<1> SUFFICES ASSUME TypeOK, RowsStay, [Next]_vars PROVE RowsStay'
  OBVIOUS
<1>1. \A d \in Dir : rows[d] \in Nat /\ told[d] \in Nat /\ told[d] <= rows[d]
  BY DEF TypeOK, RowsStay
<1>2. CASE UNCHANGED <<rows, told>>
  BY <1>2 DEF RowsStay
<1>3. ASSUME NEW p \in Path, RowWritten(p) PROVE RowsStay'
  <2>1. told' = told /\ rows' = [rows EXCEPT ![DirOf[p]] = rows[DirOf[p]] + 1]
    BY <1>3 DEF RowWritten, bridge
  <2>2. \A d \in Dir : rows'[d] = rows[d] \/ rows'[d] = rows[d] + 1
    BY <2>1 DEF TypeOK
  <2> QED
    BY <1>1, <2>1, <2>2 DEF RowsStay
<1>4. ASSUME NEW d \in Dir, Forward(d) PROVE RowsStay'
  <2>1. Head(queue[d]) \in RawEvent /\ Publish(Head(queue[d])) /\ rows' = rows
    BY <1>4, Heads DEF Forward, files
  <2>2. \A c \in Dir : told'[c] = told[c] \/ told'[c] = rows[c]
    BY <2>1, Published
  <2> QED
    BY <1>1, <2>1, <2>2 DEF RowsStay
<1>5. ASSUME NEW p \in Path, ApiCreates(p) \/ UserCreates(p) \/ Modifies(p) \/ UserRemoves(p)
      PROVE  UNCHANGED <<rows, told>>
  BY <1>5 DEF ApiCreates, UserCreates, Modifies, UserRemoves, Raise
<1>6. ASSUME NEW d \in Dir, Suppress(d) \/ Filter(d)
      PROVE  UNCHANGED <<rows, told>>
  BY <1>6 DEF Suppress, Filter, files
<1>7. ASSUME NEW pg \in Page,
             \/ Ask(pg) \/ Subscribe(pg) \/ Unsubscribe(pg)
             \/ Deliver(pg) \/ SkipForward(pg) \/ Answer(pg)
      PROVE  UNCHANGED <<rows, told>>
  BY <1>7 DEF Ask, Subscribe, Unsubscribe, Deliver, SkipForward, Answer, ServeList, ShowList,
              ListFails, files, bridge
<1>8. ASSUME NEW evt \in recent, WindowEnds(evt) PROVE UNCHANGED <<rows, told>>
  BY <1>8 DEF WindowEnds, files
<1>9. UNCHANGED vars => UNCHANGED <<rows, told>>
  BY DEF vars, files, bridge
<1> QED
  BY <1>2, <1>3, <1>4, <1>5, <1>6, <1>7, <1>8, <1>9 DEF Next, Change, Poll

\* What a page shows stays as fresh as it was.
LEMMA PageStays ==
    ASSUME NEW pg \in Page, PageOf(pg),
           loadErr[pg] => loadErr'[pg],
           missed[pg] => missed'[pg], overtaken[pg] => overtaken'[pg],
           Ahead(pg) => missed'[pg] \/ Ahead(pg)',
           Fresh(pg) => missed'[pg] \/ overtaken'[pg] \/ Ahead(pg)' \/ Fresh(pg)'
    PROVE  PageOf(pg)'
BY DEF PageOf

\* A page that nothing happens to, and that no envelope is published for.
LEMMA PageRests ==
    ASSUME NEW pg \in Page, PageOf(pg), pos'[pg] = pos[pg], asks'[pg] = asks[pg],
           shown'[pg] = shown[pg], loadErr'[pg] = loadErr[pg],
           missed'[pg] = missed[pg], overtaken'[pg] = overtaken[pg],
           UNCHANGED <<feed, told>>
    PROVE  PageOf(pg)'
BY DEF PageOf, Ahead, Fresh

LEMMA ForwardPages ==
    ASSUME TypeOK, PageInv, NEW d \in Dir, Forward(d), NEW pg \in Page
    PROVE  PageOf(pg)'
<1> DEFINE evt == Head(queue[d])
           home == DirOf[evt.path]
<1>1. evt \in RawEvent /\ Publish(evt) /\ UNCHANGED <<pos, asks, shown, loadErr, overtaken>>
  BY Heads DEF Forward
<1> HIDE DEF evt
<1>2. /\ Len(feed) \in Nat /\ (feed' = feed \/ Len(feed') = Len(feed) + 1)
      /\ \A i \in 1 .. Len(feed) : i \in 1 .. Len(feed') /\ feed'[i] = feed[i]
      /\ Listening # {} => feed'[Len(feed) + 1] = evt /\ Len(feed') = Len(feed) + 1
      /\ \A c \in Dir : c # home => told'[c] = told[c]
      /\ missed[pg] => missed'[pg]
      /\ pos[pg] = Off /\ PageDir[pg] = home => missed'[pg]
  BY <1>1, Published
<1>3. PageOf(pg) /\ PageDir[pg] \in Dir \union {NoDir}
  BY EventFeedAssumption DEF PageInv
<1> HIDE DEF home
<1>4. Ahead(pg) => Ahead(pg)'
  <2> SUFFICES ASSUME pos[pg] # Off, NEW i \in (pos[pg] + 1) .. Len(feed),
                      DirOf[feed[i].path] = PageDir[pg]
               PROVE  Ahead(pg)'
    BY DEF Ahead
  <2>1. pos[pg] \in Nat
    BY Places
  <2>2. i \in 1 .. Len(feed)
    BY <1>2, <2>1
  <2>3. i \in (pos[pg] + 1) .. Len(feed')
    BY <1>2, <2>1, <2>2
  <2> QED
    BY <1>1, <1>2, <2>2, <2>3 DEF Ahead
<1>5. CASE PageDir[pg] = home
  <2>1. CASE pos[pg] = Off
    BY <1>2, <1>5, <2>1 DEF PageOf
  <2>2. CASE pos[pg] # Off
    <3>1. Listening # {}
      BY <2>2 DEF Listening
    <3>2. pos[pg] \in Nat /\ pos[pg] <= Len(feed)
      BY <2>2, Places
    <3>3. Len(feed) + 1 \in (pos[pg] + 1) .. Len(feed')
      BY <1>2, <3>1, <3>2
    <3>4. DirOf[feed'[Len(feed) + 1].path] = PageDir[pg]
      BY <1>2, <1>5, <3>1 DEF home
    <3>5. Ahead(pg)'
      BY <1>1, <2>2, <3>3, <3>4 DEF Ahead
    <3> QED
      BY <3>5 DEF PageOf
  <2> QED
    BY <2>1, <2>2
<1>6. CASE PageDir[pg] # home /\ PageDir[pg] \in Dir
  <2>1. told'[PageDir[pg]] = told[PageDir[pg]]
    BY <1>2, <1>6
  <2>2. Fresh(pg) => Fresh(pg)'
    BY <1>1, <2>1 DEF Fresh
  <2> QED
    BY <1>1, <1>2, <1>3, <1>4, <2>2, PageStays
<1>7. CASE PageDir[pg] = NoDir
  BY <1>7 DEF PageOf
<1> QED
  BY <1>3, <1>5, <1>6, <1>7

LEMMA RefreshPages ==
    ASSUME TypeOK, PageInv, NEW pg \in Page, Refresh(pg), UNCHANGED <<feed, told, shown>>,
           \A u \in Page : u # pg => pos'[u] = pos[u], NEW q \in Page
    PROVE  PageOf(q)'
<1>1. CASE q = pg
  <2>1. asks'[pg] # <<>> /\ asks'[pg][Len(asks'[pg])] = Unanswered
    BY Refreshed
  <2>2. Fresh(pg)'
    BY <2>1 DEF Fresh
  <2> QED
    BY <1>1, <2>2 DEF PageOf
<1>2. CASE q # pg
  <2>1. asks'[q] = asks[q] /\ overtaken'[q] = overtaken[q] /\ missed'[q] = missed[q]
        /\ loadErr'[q] = loadErr[q]
    BY <1>2, Refreshed
  <2>2. PageOf(q)
    BY DEF PageInv
  <2> QED
    BY <1>2, <2>1, <2>2, PageRests
<1> QED
  BY <1>1, <1>2

LEMMA StreamPages ==
    ASSUME TypeOK, PageInv, NEW pg \in Page, Subscribe(pg) \/ Unsubscribe(pg) \/ SkipForward(pg),
           NEW q \in Page
    PROVE  PageOf(q)'
<1>1. UNCHANGED <<feed, told, asks, shown, loadErr, overtaken>>
  BY DEF Subscribe, Unsubscribe, SkipForward, bridge
<1>2. PageOf(q) /\ Len(feed) \in Nat
  BY LenProperties DEF PageInv, TypeOK
<1>3. CASE q # pg
  <2>1. pos'[q] = pos[q] /\ missed'[q] = missed[q]
    BY <1>3 DEF Subscribe, Unsubscribe, SkipForward, TypeOK
  <2> QED
    BY <1>1, <1>2, <2>1, PageRests
<1>4. CASE q = pg
  <2>1. Fresh(pg) => Fresh(pg)'
    BY <1>1 DEF Fresh
  <2>2. missed[pg] => missed'[pg]
    BY DEF Subscribe, Unsubscribe, SkipForward, TypeOK
  <2>3. Ahead(pg) => missed'[pg] \/ Ahead(pg)'
    <3> SUFFICES ASSUME pos[pg] # Off, NEW i \in (pos[pg] + 1) .. Len(feed),
                        DirOf[feed[i].path] = PageDir[pg]
                 PROVE  missed'[pg] \/ Ahead(pg)'
      BY DEF Ahead
    <3>1. CASE Unsubscribe(pg)
      BY <3>1 DEF Unsubscribe, TypeOK
    <3>2. CASE SkipForward(pg)
      <4> DEFINE oldest == Len(feed) - RingCap
      <4>1. pos[pg] \in Nat /\ RingCap \in Nat /\ oldest \in Nat
        BY <1>2, <3>2, Places, EventFeedAssumption DEF SkipForward, Lags
      <4>2. pos' = [pos EXCEPT ![pg] = oldest]
        BY <3>2 DEF SkipForward
      <4>3. pos'[pg] = oldest
        BY <4>2 DEF TypeOK
      <4>4. missed' = [missed EXCEPT ![pg] = missed[pg] \/
                \E k \in (pos[pg] + 1) .. oldest : DirOf[feed[k].path] = PageDir[pg]]
        BY <3>2 DEF SkipForward
      <4> HIDE DEF oldest
      <4>5. CASE i <= oldest
        <5>1. i \in (pos[pg] + 1) .. oldest
          BY <4>1, <4>5
        <5>2. \E k \in (pos[pg] + 1) .. oldest : DirOf[feed[k].path] = PageDir[pg]
          BY <5>1
        <5> QED
          BY <4>4, <5>2 DEF TypeOK
      <4>6. CASE ~(i <= oldest)
        <5>1. i \in (pos'[pg] + 1) .. Len(feed) /\ pos'[pg] # Off
          BY <1>2, <4>1, <4>3, <4>6 DEF Off
        <5> QED
          BY <1>1, <5>1 DEF Ahead
      <4> QED
        BY <4>5, <4>6
    <3>3. ~Subscribe(pg)
      BY DEF Subscribe
    <3> QED
      BY <3>1, <3>2, <3>3
  <2>4. (loadErr[pg] => loadErr'[pg]) /\ (overtaken[pg] => overtaken'[pg])
    BY <1>1
  <2> QED
    BY <1>2, <1>4, <2>1, <2>2, <2>3, <2>4, PageStays
<1> QED
  BY <1>3, <1>4

LEMMA DeliverPages ==
    ASSUME TypeOK, PageInv, NEW pg \in Page, Deliver(pg), NEW q \in Page
    PROVE  PageOf(q)'
<1>1. /\ pos[pg] \in Nat /\ Len(feed) \in Nat /\ pos[pg] < Len(feed)
      /\ pos' = [pos EXCEPT ![pg] = pos[pg] + 1]
      /\ UNCHANGED <<feed, told, shown>>
  BY Places DEF Deliver, bridge
<1>2. pos'[pg] = pos[pg] + 1 /\ \A u \in Page : u # pg => pos'[u] = pos[u]
  BY <1>1 DEF TypeOK
<1>3. CASE Refresh(pg)
  BY <1>1, <1>2, <1>3, RefreshPages
<1>4. CASE /\ DirOf[feed[pos[pg] + 1].path] # PageDir[pg]
           /\ UNCHANGED <<asks, loadErr, missed, overtaken>>
  <2>1. PageOf(q)
    BY DEF PageInv
  <2>2. CASE q # pg
    BY <1>1, <1>2, <1>4, <2>1, <2>2, PageRests
  <2>3. CASE q = pg
    <3>1. Fresh(pg) => Fresh(pg)'
      BY <1>1, <1>4 DEF Fresh
    <3>2. Ahead(pg) => Ahead(pg)'
      <4> SUFFICES ASSUME NEW i \in (pos[pg] + 1) .. Len(feed),
                          DirOf[feed[i].path] = PageDir[pg]
                   PROVE  Ahead(pg)'
        BY DEF Ahead
      <4>1. i # pos[pg] + 1
        BY <1>4
      <4>2. i \in (pos'[pg] + 1) .. Len(feed) /\ pos'[pg] # Off
        BY <1>1, <1>2, <4>1 DEF Off
      <4> QED
        BY <1>1, <4>2 DEF Ahead
    <3> QED
      BY <1>4, <2>1, <2>3, <3>1, <3>2, PageStays
  <2> QED
    BY <2>2, <2>3
<1> QED
  BY <1>3, <1>4 DEF Deliver

LEMMA AnswerPages ==
    ASSUME TypeOK, PageInv, RowsStay, Askers, NEW pg \in Page, Answer(pg), NEW q \in Page
    PROVE  PageOf(q)'
<1>1. PICK i \in 1 .. Len(asks[pg]) : ServeList(pg, i) \/ ShowList(pg, i) \/ ListFails(pg, i)
  BY DEF Answer
<1>2. UNCHANGED <<feed, told, pos, missed>>
  BY <1>1 DEF ServeList, ShowList, ListFails, bridge
<1>3. PageOf(q)
  BY DEF PageInv
<1>4. Ahead(q) => Ahead(q)'
  BY <1>2 DEF Ahead
<1>5. CASE q # pg
  <2>1. asks'[q] = asks[q] /\ shown'[q] = shown[q] /\ overtaken'[q] = overtaken[q]
        /\ loadErr'[q] = loadErr[q]
    <3>1. CASE ServeList(pg, i)
      BY <1>5, <3>1, Served DEF ServeList
    <3>2. CASE ShowList(pg, i)
      BY <1>5, <3>2, Showed DEF ShowList
    <3>3. CASE ListFails(pg, i)
      BY <1>5, <3>3, Failed DEF ListFails
    <3> QED
      BY <1>1, <3>1, <3>2, <3>3
  <2> QED
    BY <1>2, <1>3, <2>1, PageRests
<1>6. CASE q = pg /\ ServeList(pg, i)
  <2>1. /\ PageDir[pg] \in Dir /\ asks[pg] # <<>> /\ Len(asks[pg]) \in Nat
        /\ Len(asks'[pg]) = Len(asks[pg]) /\ asks'[pg] # <<>>
        /\ \A j \in 1 .. Len(asks[pg]) :
             asks'[pg][j] = IF j = i THEN rows[PageDir[pg]] ELSE asks[pg][j]
    BY <1>6, Served
  <2>2. Len(asks[pg]) \in 1 .. Len(asks[pg])
    BY <2>1
  <2>3. told[PageDir[pg]] <= rows[PageDir[pg]] /\ told[PageDir[pg]] \in Nat /\ rows[PageDir[pg]] \in Nat
    BY <2>1 DEF RowsStay, TypeOK
  <2>4. Fresh(pg) => Fresh(pg)'
    BY <1>2, <2>1, <2>2, <2>3 DEF Fresh
  <2>5. overtaken' = overtaken /\ loadErr' = loadErr
    BY <1>6 DEF ServeList
  <2> QED
    BY <1>2, <1>3, <1>4, <1>6, <2>4, <2>5, PageStays
<1>7. CASE q = pg /\ ShowList(pg, i)
  <2>1. /\ asks[pg] # <<>> /\ Len(asks[pg]) \in Nat
        /\ Len(asks'[pg]) = Len(asks[pg]) - 1
        /\ i = 1 /\ Len(asks[pg]) > 1 => asks'[pg][Len(asks[pg]) - 1] = asks[pg][Len(asks[pg])]
        /\ asks'[pg] # <<>> => Len(asks[pg]) > 1
        /\ shown'[pg] = asks[pg][i]
        /\ overtaken[pg] => overtaken'[pg]
        /\ i > 1 => overtaken'[pg]
    BY <1>7, Showed
  <2>2. asks[pg][i] # Unanswered
    BY <1>7 DEF ShowList
  <2>3. ASSUME Fresh(pg), ~(i > 1) PROVE Fresh(pg)'
    <3>1. i = 1
      BY <2>1, <2>3
    <3>2. \/ asks[pg][Len(asks[pg])] = Unanswered
          \/ asks[pg][Len(asks[pg])] >= told[PageDir[pg]]
      BY <2>1, <2>3 DEF Fresh
    <3>3. CASE asks'[pg] # <<>>
      BY <1>2, <2>1, <3>1, <3>2, <3>3 DEF Fresh
    <3>4. CASE asks'[pg] = <<>>
      <4>1. Len(asks'[pg]) = 0
        BY <3>4, EmptySeq
      <4>2. Len(asks[pg]) = 1
        <5>1. Len(asks[pg]) \in Nat /\ Len(asks[pg]) - 1 = 0
          BY <2>1, <4>1
        <5> QED
          BY <5>1
      <4>3. shown'[pg] >= told'[PageDir[pg]]
        BY <1>2, <2>1, <2>2, <3>1, <3>2, <4>2
      <4> QED
        BY <3>4, <4>3 DEF Fresh
    <3> QED
      BY <3>3, <3>4
  <2>4. loadErr' = loadErr
    BY <1>7 DEF ShowList
  <2> QED
    BY <1>2, <1>3, <1>4, <1>7, <2>1, <2>3, <2>4, PageStays
<1>8. CASE q = pg /\ ListFails(pg, i)
  BY <1>8, Failed DEF PageOf
<1> QED
  BY <1>1, <1>5, <1>6, <1>7, <1>8

LEMMA NextPages == FeedInv /\ [Next]_vars => PageInv'
<1> SUFFICES ASSUME FeedInv, [Next]_vars, NEW q \in Page PROVE PageOf(q)'
  BY DEF PageInv
<1>1. TypeOK /\ PageInv /\ RowsStay /\ Askers /\ PageOf(q)
  BY DEF FeedInv, PageInv
<1>2. CASE UNCHANGED <<feed, told, pages>>
  BY <1>1, <1>2, PageRests DEF pages
<1>3. ASSUME NEW p \in Path, Change(p) PROVE UNCHANGED <<feed, told, pages>>
  BY <1>3 DEF Change, ApiCreates, UserCreates, Modifies, UserRemoves, RowWritten, Raise, bridge
<1>4. ASSUME NEW d \in Dir, Suppress(d) \/ Filter(d) PROVE UNCHANGED <<feed, told, pages>>
  BY <1>4 DEF Suppress, Filter
<1>5. ASSUME NEW evt \in recent, WindowEnds(evt) PROVE UNCHANGED <<feed, told, pages>>
  BY <1>5 DEF WindowEnds
<1>6. UNCHANGED vars => UNCHANGED <<feed, told, pages>>
  BY DEF vars, bridge
<1>7. ASSUME NEW d \in Dir, Forward(d) PROVE PageOf(q)'
  BY <1>1, <1>7, ForwardPages
<1>8. ASSUME NEW pg \in Page, Ask(pg) PROVE PageOf(q)'
  BY <1>1, <1>8, RefreshPages DEF Ask, bridge
<1>9. ASSUME NEW pg \in Page, Subscribe(pg) \/ Unsubscribe(pg) \/ SkipForward(pg) PROVE PageOf(q)'
  BY <1>1, <1>9, StreamPages
<1>10. ASSUME NEW pg \in Page, Deliver(pg) \/ Answer(pg) PROVE PageOf(q)'
  BY <1>1, <1>10, DeliverPages, AnswerPages
<1> QED
  BY <1>2, <1>3, <1>4, <1>5, <1>6, <1>7, <1>8, <1>9, <1>10 DEF Next, Poll

LEMMA NextAskers == FeedInv /\ [Next]_vars => Askers'
<1> SUFFICES ASSUME FeedInv, [Next]_vars, NEW q \in Page, asks'[q] # <<>> PROVE PageDir[q] \in Dir
  BY DEF Askers
<1>1. TypeOK /\ Askers
  BY DEF FeedInv
<1>2. CASE asks'[q] = asks[q]
  BY <1>1, <1>2 DEF Askers
<1>3. ASSUME NEW pg \in Page, Refresh(pg), PageDir[pg] \in Dir PROVE PageDir[q] \in Dir
  BY <1>1, <1>2, <1>3, Refreshed
<1>4. ASSUME NEW pg \in Page, Ask(pg) PROVE PageDir[q] \in Dir
  BY <1>3, <1>4, EventFeedAssumption DEF Ask
<1>5. ASSUME NEW pg \in Page, Deliver(pg) PROVE PageDir[q] \in Dir
  <2>1. CASE asks' = asks
    BY <1>2, <2>1
  <2>2. CASE Refresh(pg) /\ DirOf[feed[pos[pg] + 1].path] = PageDir[pg]
    <3>1. pos[pg] + 1 \in 1 .. Len(feed) /\ feed \in Seq(RawEvent)
      BY <1>1, <1>5, Places DEF Deliver, TypeOK
    <3>2. feed[pos[pg] + 1] \in RawEvent
      BY <3>1, ElementOfSeq
    <3>3. PageDir[pg] \in Dir
      BY <2>2, <3>2, EventFeedAssumption DEF RawEvent
    <3> QED
      BY <1>3, <2>2, <3>3
  <2> QED
    BY <1>5, <2>1, <2>2 DEF Deliver
<1>6. ASSUME NEW pg \in Page, Answer(pg) PROVE PageDir[q] \in Dir
  <2>1. PICK i \in 1 .. Len(asks[pg]) : ServeList(pg, i) \/ ShowList(pg, i) \/ ListFails(pg, i)
    BY <1>6 DEF Answer
  <2>2. asks[pg] # <<>> /\ (q # pg => asks'[q] = asks[q])
    BY <1>1, <2>1, Served, Showed, Failed
  <2> QED
    BY <1>1, <1>2, <2>2 DEF Askers
<1>7. ASSUME NEW p \in Path, Change(p) PROVE asks' = asks
  BY <1>7 DEF Change, ApiCreates, UserCreates, Modifies, UserRemoves, RowWritten, Raise, pages
<1>8. ASSUME NEW d \in Dir, Poll(d) PROVE asks' = asks
  BY <1>8 DEF Poll, Suppress, Filter, Forward, pages
<1>9. ASSUME NEW evt \in recent, WindowEnds(evt) PROVE asks' = asks
  BY <1>9 DEF WindowEnds, pages
<1>10. UNCHANGED vars => asks' = asks
  BY DEF vars, pages
<1>11. ASSUME NEW pg \in Page, Subscribe(pg) \/ Unsubscribe(pg) \/ SkipForward(pg) PROVE asks' = asks
  BY <1>11 DEF Subscribe, Unsubscribe, SkipForward
<1> QED
  BY <1>2, <1>4, <1>5, <1>6, <1>7, <1>8, <1>9, <1>10, <1>11 DEF Next

LEMMA InitFeed == Init => FeedInv
<1> SUFFICES ASSUME Init PROVE FeedInv
  OBVIOUS
<1> USE DEF Init
<1>1. \A S : <<>> \in Seq(S) /\ Len(<<>>) = 0
  BY EmptySeq
<1>2. TypeOK
  <2>1. /\ feed \in Seq(RawEvent) /\ Len(feed) = 0
        /\ queue \in [Dir -> Seq(RawEvent)] /\ \A d \in Dir : Len(queue[d]) = 0
        /\ asks \in [Page -> Seq(Nat \union {Unanswered})]
    BY <1>1
  <2>2. 0 <= QueueCap /\ 0 \in 0 .. MaxEvents
    BY EventFeedAssumption
  <2>3. \A pg \in Page : pos[pg] <= Len(feed)
    BY <2>1 DEF Off
  <2> QED
    BY <2>1, <2>2, <2>3 DEF TypeOK
<1>3. RowsStay
  BY DEF RowsStay
<1>4. Askers
  BY DEF Askers
<1>5. PageInv
  <2> SUFFICES ASSUME NEW pg \in Page, PageDir[pg] # NoDir PROVE Fresh(pg)
    BY DEF PageInv, PageOf
  <2>1. PageDir[pg] \in Dir
    BY EventFeedAssumption
  <2> QED
    BY <2>1 DEF Fresh
<1> QED
  BY <1>2, <1>3, <1>4, <1>5 DEF FeedInv

LEMMA Always == Spec => []FeedInv
<1>1. FeedInv /\ [Next]_vars => FeedInv'
  BY NextTypes, NextRows, NextPages, NextAskers DEF FeedInv
<1> QED
  BY <1>1, InitFeed, PTL DEF Spec

-----------------------------------------------------------------------------
(* The theorems *)

\* The types; the channel of a watcher never holds more than its capacity,
\* whatever try_send is given, and no stream is ahead of what was published.
THEOREM TypesHold == Spec => []TypeOK
<1>1. FeedInv => TypeOK
  BY DEF FeedInv
<1> QED
  BY <1>1, Always, PTL

\* A page that has read its stream to the end, with no list under way and no
\* error on it, shows every row the index had when the watcher bridge last
\* published an event of its directory, for any interleaving of watchers, bridges,
\* streams, lists and lists that fail; unless an envelope passed it by, as the
\* Lagged of the broadcast ring or a closed EventSource make it, or the answers to
\* its lists overtook one another.
THEOREM AnnouncementsAreShown == Spec => []AnnouncedIsShown
<1>1. FeedInv => AnnouncedIsShown
  <2> SUFFICES ASSUME FeedInv, NEW pg \in Page, pos[pg] = Len(feed), asks[pg] = <<>>,
                      PageDir[pg] # NoDir, ~loadErr[pg], ~missed[pg], ~overtaken[pg]
               PROVE  shown[pg] >= told[PageDir[pg]]
    BY DEF AnnouncedIsShown
  <2>1. ~Ahead(pg)
    <3>1. Len(feed) \in Nat
      BY LenProperties DEF FeedInv, TypeOK
    <3> QED
      BY <3>1 DEF Ahead
  <2>2. Fresh(pg)
    BY <2>1 DEF FeedInv, PageInv, PageOf
  <2> QED
    BY <2>2 DEF Fresh
<1> QED
  BY <1>1, Always, PTL
=============================================================================
