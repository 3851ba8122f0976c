----------------------------- MODULE LedgerFile -----------------------------
(***************************************************************************)
(* The token ledger of studio-router: one JSON line per attempt, appended   *)
(* to a file through Ledger handles.                                        *)
(*                                                                         *)
(* The static router of studio.toml is one handle for all its dispatches;   *)
(* a session's dispatch builds a router, and opens the ledger, for itself.  *)
(* A handle is a mutex around a tokio file: write_all hands the line to the *)
(* blocking pool, flush waits for it, and a pool operation outlives the     *)
(* caller that is dropped in between.  O_APPEND and the inode lock make one *)
(* write(2) indivisible; it is short when the disk is full or the process   *)
(* is killed.                                                              *)
(***************************************************************************)
EXTENDS Integers, Sequences, FiniteSets

CONSTANTS
    Client,      \* concurrent dispatches
    Shared,      \* the static router's handle; a client's own handle is itself
    NoClient,    \* a mutex nobody holds
    MaxEntries   \* bound: entries made in one behaviour

ASSUME LedgerFileAssumption ==
    /\ Shared \notin Client
    /\ NoClient \notin Client
    /\ MaxEntries \in Nat

Handle == Client \union {Shared}

\* Entries are numbered in the order they are made; 0 is none.
Entry == 1 .. MaxEntries
NoEntry == 0

\* How much of an entry's line a write has left in the file: part of the JSON
\* text, all of it, or the newline too.
Part == 1
Json == 2
Line == 3
Fragments == [entry : Entry, upto : Part .. Line]

VARIABLES
    pc,        \* where each client stands in append
    entry,     \* the entry it is appending
    handle,    \* the handle it uses
    mutex,     \* who holds each handle's lock
    op,        \* the entry the blocking pool is writing for a handle
    outcome,   \* how the handle's last write ended, if nobody has asked yet
    file,      \* the fragments in the file
    exists,    \* whether the file has been created
    made,      \* entries made so far
    acked      \* entries whose append returned Ok

clients == <<pc, entry, handle>>
handles == <<mutex, op, outcome>>
disk == <<file, exists>>
fileVars == <<clients, handles, disk, made, acked>>

-----------------------------------------------------------------------------
(* Helpers *)

PC == {"idle", "lock", "write", "flush"}

Goto(c, where) == pc' = [pc EXCEPT ![c] = where]

\* The guard is dropped at the end of append, on `?` and with the future.
Unlock(c) ==
    mutex' = [h \in Handle |-> IF mutex[h] = c THEN NoClient ELSE mutex[h]]

\* The file after a write(2) that got as far as n (0: nothing) of e's line.
Wrote(e, n) ==
    IF n = 0 THEN file ELSE Append(file, [entry |-> e, upto |-> n])

-----------------------------------------------------------------------------
(* Ledger::open and Ledger::append *)

\* A dispatch makes its entry, timestamp included, and calls append.  On a
\* handle of its own it has opened the file, which creates it.
StartAppend(c, h) ==
    /\ pc[c] = "idle"
    /\ made < MaxEntries
    /\ h \in {Shared, c}
    /\ h = c => op[c] = NoEntry
    /\ made' = made + 1
    /\ entry' = [entry EXCEPT ![c] = made + 1]
    /\ handle' = [handle EXCEPT ![c] = h]
    /\ exists' = TRUE
    /\ outcome' = IF h = c THEN [outcome EXCEPT ![c] = "none"] ELSE outcome
    /\ Goto(c, "lock")
    /\ UNCHANGED <<mutex, op, file, acked>>

Lock(c) ==
    /\ pc[c] = "lock"
    /\ mutex[handle[c]] = NoClient
    /\ mutex' = [mutex EXCEPT ![handle[c]] = c]
    /\ Goto(c, "write")
    /\ UNCHANGED <<entry, handle, op, outcome, disk, made, acked>>

\* write_all first waits for what a dropped caller left in the pool, and fails
\* in its place when that write failed.
InheritsError(c) ==
    /\ pc[c] = "write"
    /\ op[handle[c]] = NoEntry
    /\ outcome[handle[c]] = "err"
    /\ outcome' = [outcome EXCEPT ![handle[c]] = "none"]
    /\ Goto(c, "idle")
    /\ Unlock(c)
    /\ UNCHANGED <<entry, handle, op, disk, made, acked>>

\* The line goes to the blocking pool.
Submit(c) ==
    /\ pc[c] = "write"
    /\ op[handle[c]] = NoEntry
    /\ outcome[handle[c]] # "err"
    /\ op' = [op EXCEPT ![handle[c]] = entry[c]]
    /\ outcome' = [outcome EXCEPT ![handle[c]] = "none"]
    /\ Goto(c, "flush")
    /\ UNCHANGED <<entry, handle, mutex, disk, made, acked>>

\* The pool writes the whole line.
WriteLine(h) ==
    /\ op[h] # NoEntry
    /\ file' = Wrote(op[h], Line)
    /\ op' = [op EXCEPT ![h] = NoEntry]
    /\ outcome' = [outcome EXCEPT ![h] = "ok"]
    /\ UNCHANGED <<clients, mutex, exists, made, acked>>

\* The disk is full: a prefix is in the file, the rest is refused.
WriteShort(h) ==
    /\ op[h] # NoEntry
    /\ \E n \in 0 .. Json : file' = Wrote(op[h], n)
    /\ op' = [op EXCEPT ![h] = NoEntry]
    /\ outcome' = [outcome EXCEPT ![h] = "err"]
    /\ UNCHANGED <<clients, mutex, exists, made, acked>>

\* flush waits for the pool and returns its result.
Flush(c) ==
    /\ pc[c] = "flush"
    /\ op[handle[c]] = NoEntry
    /\ acked' = IF outcome[handle[c]] = "ok" THEN acked \union {entry[c]}
                                             ELSE acked
    /\ outcome' = [outcome EXCEPT ![handle[c]] = "none"]
    /\ Goto(c, "idle")
    /\ Unlock(c)
    /\ UNCHANGED <<entry, handle, op, disk, made>>

\* Mutant: the lock is released by hand, on the paths that return.
DropLocked(c) ==
    /\ pc[c] # "idle"
    /\ Goto(c, "idle")
    /\ UNCHANGED <<entry, handle, handles, disk, made, acked>>

\* The client has left: its future is dropped, and the guard with it.
DropAppend(c) ==
    /\ pc[c] # "idle"
    /\ Goto(c, "idle")
    /\ Unlock(c)
    /\ UNCHANGED <<entry, handle, op, outcome, disk, made, acked>>

\* The process dies.  One write at most is inside the kernel and may have
\* reached the file in part; the others have not begun.
CrashFile ==
    /\ \/ file' = file
       \/ \E h \in Handle, n \in Part .. Json :
            op[h] # NoEntry /\ file' = Wrote(op[h], n)
    /\ pc' = [c \in Client |-> "idle"]
    /\ mutex' = [h \in Handle |-> NoClient]
    /\ op' = [h \in Handle |-> NoEntry]
    /\ outcome' = [h \in Handle |-> "none"]
    /\ UNCHANGED <<entry, handle, exists, made, acked>>

-----------------------------------------------------------------------------

FileInit ==
    /\ pc = [c \in Client |-> "idle"]
    /\ entry = [c \in Client |-> NoEntry]
    /\ handle = [c \in Client |-> c]
    /\ mutex = [h \in Handle |-> NoClient]
    /\ op = [h \in Handle |-> NoEntry]
    /\ outcome = [h \in Handle |-> "none"]
    /\ file = <<>>
    /\ exists = FALSE
    /\ made = 0
    /\ acked = {}

ClientStep(c) ==
    \/ \E h \in Handle : StartAppend(c, h)
    \/ Lock(c) \/ InheritsError(c) \/ Submit(c) \/ Flush(c) \/ DropAppend(c)

PoolStep(h) == WriteLine(h) \/ WriteShort(h)

FileTypeOK ==
    /\ pc \in [Client -> PC]
    /\ entry \in [Client -> Entry \union {NoEntry}]
    /\ handle \in [Client -> Handle]
    /\ mutex \in [Handle -> Client \union {NoClient}]
    /\ op \in [Handle -> Entry \union {NoEntry}]
    /\ outcome \in [Handle -> {"none", "ok", "err"}]
    /\ file \in Seq(Fragments)
    /\ exists \in BOOLEAN
    /\ made \in 0 .. MaxEntries
    /\ acked \subseteq Entry

\* The lines of the file, by the index of their first fragment.
Starts == {i \in 1 .. Len(file) : i = 1 \/ file[i - 1].upto = Line}

\* serde_json on the line that starts at i: an entry's whole text, with
\* nothing of another entry before the newline or the end of the file.
Parses(i) ==
    \/ file[i].upto = Line
    \/ file[i].upto = Json /\ i = Len(file)

\* A torn fragment that another append has continued.
Merged == \E i \in 1 .. Len(file) : i < Len(file) /\ file[i].upto # Line
=============================================================================
