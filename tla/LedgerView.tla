----------------------------- MODULE LedgerView -----------------------------
(***************************************************************************)
(* The SQLite view of the ledger that GET /api/ledger/recent reads, over    *)
(* the file of LedgerFile.                                                  *)
(*                                                                         *)
(* Store::open fills the view from the file before the server serves; the   *)
(* statements are transactions of their own, and a crash between two leaves *)
(* what the earlier ones did.  Nothing else writes the view: the server     *)
(* never calls LedgerHandle::append or sync_from_jsonl afterwards.  The     *)
(* router's ledger path is taken to be the one the store reads.             *)
(***************************************************************************)
EXTENDS LedgerFile, SequencesExt

CONSTANTS
    DefaultN,  \* entries answered when ?n= is omitted
    MaxN,      \* cap on ?n=
    Ts,        \* the instant each entry is stamped with
    Units,     \* places at which a fraction of a second may end, 1 the last
    Limits     \* bound: values of ?n= that are asked for

ASSUME LedgerViewAssumption ==
    /\ DefaultN \in Nat /\ MaxN \in Nat
    /\ Ts \in [Entry -> Nat]
    /\ Units \subseteq Nat \ {0} /\ 1 \in Units
    /\ \A u, v \in Units : u < v => v % u = 0
    /\ \E w \in Units : \A u \in Units : u <= w
    /\ Limits \subseteq Nat

VARIABLES
    phase,    \* where the server stands: down, in Store::open, or serving
    at,       \* the line sync_from_jsonl imports next
    rows,     \* ledger_view in rowid order
    refused,  \* whether the last Store::open ended in LedgerParse
    removed,  \* whether the user has removed the file since it was imported
    answer,   \* the last answer of /api/ledger/recent
    known     \* entries acknowledged before the last Store::open

viewVars == <<phase, at, rows, refused, removed, answer, known>>
vars == <<fileVars, viewVars>>

Phase == {"down", "read", "clear", "fill", "serve"}

-----------------------------------------------------------------------------
(* Store::open and sync_from_jsonl *)

Boot ==
    /\ phase = "down"
    /\ phase' = "read"
    /\ refused' = FALSE
    /\ known' = acked
    /\ UNCHANGED <<fileVars, at, rows, removed, answer>>

\* There is no file: the view is left as it is.
SyncMissing ==
    /\ phase = "read"
    /\ ~exists
    /\ phase' = "serve"
    /\ UNCHANGED <<fileVars, at, rows, refused, removed, answer, known>>

\* The file is read at once; nothing appends to it while the server boots.
SyncRead ==
    /\ phase = "read"
    /\ exists
    /\ phase' = "clear"
    /\ UNCHANGED <<fileVars, at, rows, refused, removed, answer, known>>

\* Mutant: the view is not emptied before the import.
SyncKeep ==
    /\ phase = "clear"
    /\ at' = 1
    /\ removed' = FALSE
    /\ phase' = "fill"
    /\ UNCHANGED <<fileVars, rows, refused, answer, known>>

SyncClear ==
    /\ phase = "clear"
    /\ rows' = <<>>
    /\ at' = 1
    /\ removed' = FALSE
    /\ phase' = "fill"
    /\ UNCHANGED <<fileVars, refused, answer, known>>

\* Mutant: the end of the file is one further.
NextLinePast(i) ==
    IF \E j \in Starts : j > i
    THEN CHOOSE j \in Starts : j > i /\ \A k \in Starts : k > i => j <= k
    ELSE Len(file) + 2

\* The line after the one that starts at i.
NextLine(i) ==
    IF \E j \in Starts : j > i
    THEN CHOOSE j \in Starts : j > i /\ \A k \in Starts : k > i => j <= k
    ELSE Len(file) + 1

\* Mutant: a line that does not parse is skipped wherever it is.
TrailingAnywhere(i) == TRUE

\* The last line, when no newline ends it.
Trailing(i) == file[Len(file)].upto # Line /\ NextLine(i) = Len(file) + 1

ImportLine ==
    /\ phase = "fill"
    /\ at <= Len(file)
    /\ Parses(at)
    /\ rows' = Append(rows, file[at].entry)
    /\ at' = NextLine(at)
    /\ UNCHANGED <<fileVars, phase, refused, removed, answer, known>>

\* Mutant: no line is forgiven.
SkipNothing ==
    /\ phase = "fill"
    /\ at <= Len(file)
    /\ ~Parses(at)
    /\ Trailing(at)
    /\ refused' = TRUE
    /\ phase' = "down"
    /\ UNCHANGED <<fileVars, at, rows, removed, answer, known>>

SkipTrailing ==
    /\ phase = "fill"
    /\ at <= Len(file)
    /\ ~Parses(at)
    /\ Trailing(at)
    /\ at' = NextLine(at)
    /\ UNCHANGED <<fileVars, phase, rows, refused, removed, answer, known>>

\* LedgerParse: Store::open fails and the server does not start.
RefuseLine ==
    /\ phase = "fill"
    /\ at <= Len(file)
    /\ ~Parses(at)
    /\ ~Trailing(at)
    /\ refused' = TRUE
    /\ phase' = "down"
    /\ UNCHANGED <<fileVars, at, rows, removed, answer, known>>

SyncDone ==
    /\ phase = "fill"
    /\ at > Len(file)
    /\ phase' = "serve"
    /\ UNCHANGED <<fileVars, at, rows, refused, removed, answer, known>>

-----------------------------------------------------------------------------
(* GET /api/ledger/recent *)

\* ?n= as the route clamps it; -1 stands for an omitted n.
Clamped(n) ==
    IF n = -1 THEN DefaultN ELSE IF n < MaxN THEN n ELSE MaxN

\* Mutant: the rows in the order of their rowid.
RecentByRow(n) ==
    SubSeq(Reverse(rows), 1, IF n < Len(rows) THEN n ELSE Len(rows))

\* now_rfc3339 leaves out the trailing zeros of the fraction: the digits of t
\* end at the largest unit that divides it.
Unit(t) ==
    CHOOSE u \in Units : t % u = 0 /\ \A v \in Units : t % v = 0 => v <= u

\* ts is compared as text.  Where one text goes on with a digit or a point, one
\* that has ended has its 'Z', which is greater than both; so t sorts where the
\* last instant does that begins with its digits.
TextEnd(t) == t + Unit(t) - 1

SortsAfter(s, t) ==
    TextEnd(s) > TextEnd(t) \/ (TextEnd(s) = TextEnd(t) /\ Unit(s) > Unit(t))

\* The rows that come before row i in ORDER BY ts DESC, rowid DESC ...
Above(i) ==
    {j \in 1 .. Len(rows) :
        \/ SortsAfter(Ts[rows[j]], Ts[rows[i]])
        \/ Ts[rows[j]] = Ts[rows[i]] /\ j > i}

\* ... LIMIT n: the k-th row is the one with k - 1 before it.
Recent(n) ==
    [k \in 1 .. (IF n < Len(rows) THEN n ELSE Len(rows)) |->
        rows[CHOOSE i \in 1 .. Len(rows) : Cardinality(Above(i)) = k - 1]]

Query(n) ==
    /\ phase = "serve"
    /\ answer' = Recent(Clamped(n))
    /\ UNCHANGED <<fileVars, phase, at, rows, refused, removed, known>>

-----------------------------------------------------------------------------
(* The file under a running, crashing and reopened server *)

Appends(c) == phase = "serve" /\ ClientStep(c) /\ UNCHANGED viewVars

Pool(h) == phase = "serve" /\ PoolStep(h) /\ UNCHANGED viewVars

Crash ==
    /\ phase # "down"
    /\ CrashFile
    /\ phase' = "down"
    /\ answer' = <<>>
    /\ UNCHANGED <<at, rows, refused, removed, known>>

\* The user removes the file while the server is down.
RemoveFile ==
    /\ phase = "down"
    /\ exists
    /\ file' = <<>>
    /\ exists' = FALSE
    /\ removed' = TRUE
    /\ known' = {}
    /\ acked' = {}
    /\ at' = 1
    /\ refused' = FALSE
    /\ UNCHANGED <<clients, handles, made, phase, rows, answer>>

-----------------------------------------------------------------------------

Init ==
    /\ FileInit
    /\ phase = "down"
    /\ at = 1
    /\ rows = <<>>
    /\ refused = FALSE
    /\ removed = FALSE
    /\ answer = <<>>
    /\ known = {}

Next ==
    \/ Boot \/ SyncMissing \/ SyncRead \/ SyncClear
    \/ ImportLine \/ SkipTrailing \/ RefuseLine \/ SyncDone
    \/ \E n \in Limits \union {-1} : Query(n)
    \/ \E c \in Client : Appends(c)
    \/ \E h \in Handle : Pool(h)
    \/ Crash \/ RemoveFile

Spec == Init /\ [][Next]_vars

\* The blocking pool runs what it was given, tokio polls a woken task, and its
\* mutex is a queue.  Starting an append, leaving, asking and booting are free.
Fairness ==
    /\ \A h \in Handle : WF_vars(Pool(h))
    /\ \A c \in Client :
         /\ SF_vars(phase = "serve" /\ Lock(c) /\ UNCHANGED viewVars)
         /\ WF_vars(phase = "serve" /\ (InheritsError(c) \/ Submit(c) \/ Flush(c))
                    /\ UNCHANGED viewVars)

FairSpec == Spec /\ Fairness

-----------------------------------------------------------------------------
(* Properties *)

\* The shape of the state.
TypeOK ==
    /\ FileTypeOK
    /\ phase \in Phase
    /\ at \in 1 .. (Len(file) + 1)
    /\ rows \in Seq(Entry)
    /\ refused \in BOOLEAN /\ removed \in BOOLEAN
    /\ answer \in Seq(Entry)
    /\ known \subseteq Entry

\* What the router acknowledged before a restart is in the view after it:
\* sync_from_jsonl shows every such entry or makes Store::open fail, whoever
\* crashed, was dropped or met a full disk.  (An entry that was shown but never
\* acknowledged can vanish: its text without a newline parses as the trailing
\* line, and is skipped with the torn text a later append adds to it.)
AckedEntriesShown ==
    phase = "serve" => known \subseteq Range(rows)

\* An entry is in the view once, however often Store::open was repeated or
\* interrupted between its statements, and its text is in the file unless the
\* user removed that.
RowsAreLines ==
    /\ \A i, j \in 1 .. Len(rows) : rows[i] = rows[j] => i = j
    /\ phase = "serve" /\ ~removed =>
         \A i \in 1 .. Len(rows) :
            \E k \in 1 .. Len(file) :
               file[k].entry = rows[i] /\ file[k].upto >= Json

\* "Readers must tolerate at most one trailing partial line": Store::open only
\* refuses a file in which something was appended to a torn line.
RefusesOnlyMergedLines == refused => Merged

\* f is not newer than e by a unit of the last digit e's ts has.
NotNewer(f, e) == Ts[f] - Ts[e] < Unit(Ts[e])

\* /api/ledger/recent is newest first as far as the digits of its timestamps
\* reach: what stands below an entry, or is left out of the answer, is newer than
\* it by less than the last digit that is written of the entry's ts, and nothing
\* is newer than an entry that is stamped to the nanosecond.  That holds although
\* appends reach the file in another order than their timestamps, and no entry
\* is answered twice.
NewestFirstToTheDigit ==
    /\ \A i, j \in 1 .. Len(answer) :
         i < j => answer[i] # answer[j] /\ NotNewer(answer[j], answer[i])
    /\ phase = "serve" =>
         \A i \in 1 .. Len(answer), e \in Range(rows) \ Range(answer) :
            NotNewer(e, answer[i])

\* An append ends: a handle's lock is not left behind by a dropped caller, a
\* failed write or an inherited error.
EveryAppendEnds == \A c \in Client : pc[c] = "lock" ~> pc[c] = "idle"
=============================================================================
