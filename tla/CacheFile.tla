----------------------------- MODULE CacheFile -----------------------------
(***************************************************************************)
(* The two files behind one cache key of studio-router's Cache: the entry  *)
(* <hex>.json and the temporary <hex>.tmp that every put of the key uses.  *)
(*                                                                         *)
(* Names point at inodes, an open handle keeps its inode whatever happens  *)
(* to the name, and files are written and read block by block.  The        *)
(* clients are dispatches of one process: they get, and put only after a   *)
(* miss.  A process crash loses the clients but not the files (power loss  *)
(* is not modelled: nothing is fsynced, so it may lose anything).          *)
(***************************************************************************)
EXTENDS Integers

CONSTANTS
    Client,     \* dispatches whose cache key is this one
    Answer,     \* completions a client may store
    Inode,
    Blocks,     \* blocks of a stored completion
    Overlap,    \* whether puts of the key may run at the same time
    Absent,     \* what get returns when there is no file
    Garbled,    \* what it makes of a file that is no client's answer
    Nothing,    \* no get yet
    NoFile,     \* a name without a file, a client without an open handle
    Missing     \* a block not written since the file was truncated

Block == 1 .. Blocks
Contents == [Block -> Answer \union {Missing}]

ASSUME CacheFileAssumption ==
    /\ Blocks \in Nat \ {0}
    /\ Overlap \in BOOLEAN
    /\ NoFile \notin Inode
    /\ Missing \notin Answer
    /\ Absent \notin Answer /\ Garbled \notin Answer /\ Nothing \notin Answer
    /\ Absent # Garbled /\ Absent # Nothing /\ Garbled # Nothing

VARIABLES
    pc,       \* where each client stands
    got,      \* what its last get returned
    answer,   \* the completion it is storing, Nothing before the first
    fd,       \* the inode it has open
    pos,      \* the next block it reads or writes
    buf,      \* the blocks it has read
    tmp,      \* the inode <hex>.tmp names
    final,    \* the inode <hex>.json names
    content   \* the blocks of every inode

clients == <<pc, got, answer, fd, pos, buf>>
files == <<tmp, final, content>>
vars == <<clients, files>>

-----------------------------------------------------------------------------
(* Helpers *)

PC == {"idle", "read", "missed", "write", "chmod", "rename", "orphan"}

\* Between the open of the temporary file and the end of the put; an orphan
\* is a write whose caller is gone.
Putting == {"write", "chmod", "rename", "orphan"}

Empty == [b \in Block |-> Missing]
Whole(a) == [b \in Block |-> a]

\* serde_json over what was read.  A mixture of two answers counts as garbled
\* whether or not it happens to parse.
Parsed(blocks) ==
    IF \E a \in Answer : blocks = Whole(a) THEN blocks[1] ELSE Garbled

Referenced == {tmp, final} \union {fd[c] : c \in Client}

Close(c) == fd' = [fd EXCEPT ![c] = NoFile]
Goto(c, where) == pc' = [pc EXCEPT ![c] = where]
Report(c, what) == got' = [got EXCEPT ![c] = what]

-----------------------------------------------------------------------------
(* Cache::get *)

\* tokio::fs::read opens the entry.
GetOpen(c) ==
    /\ pc[c] = "idle"
    /\ final # NoFile
    /\ Goto(c, "read")
    /\ fd' = [fd EXCEPT ![c] = final]
    /\ pos' = [pos EXCEPT ![c] = 1]
    /\ buf' = [buf EXCEPT ![c] = Empty]
    /\ UNCHANGED <<got, answer, files>>

\* There is no entry: the client will call its provider.
GetMiss(c) ==
    /\ pc[c] = "idle"
    /\ final = NoFile
    /\ Goto(c, "missed")
    /\ Report(c, Absent)
    /\ UNCHANGED <<answer, fd, pos, buf, files>>

ReadBlock(c) ==
    /\ pc[c] = "read"
    /\ pos[c] <= Blocks
    /\ buf' = [buf EXCEPT ![c][pos[c]] = content[fd[c]][pos[c]]]
    /\ pos' = [pos EXCEPT ![c] = @ + 1]
    /\ UNCHANGED <<pc, got, answer, fd, files>>

\* The bytes are parsed: an answer, or an error that ends the try.
GetDone(c) ==
    /\ pc[c] = "read"
    /\ pos[c] > Blocks
    /\ Report(c, Parsed(buf[c]))
    /\ Goto(c, "idle")
    /\ Close(c)
    /\ UNCHANGED <<answer, pos, buf, files>>

-----------------------------------------------------------------------------
(* Cache::put *)

\* The provider failed, or the directory or the temporary file could not be
\* opened: nothing is stored.
NoAnswer(c) ==
    /\ pc[c] = "missed"
    /\ Goto(c, "idle")
    /\ UNCHANGED <<got, answer, fd, pos, buf, files>>

\* Mutant: the entry is written in place.
OpenInPlace(c, a) ==
    /\ pc[c] = "missed"
    /\ Overlap \/ \A o \in Client : pc[o] \notin Putting
    /\ Goto(c, "write")
    /\ answer' = [answer EXCEPT ![c] = a]
    /\ pos' = [pos EXCEPT ![c] = 1]
    /\ \E i \in Inode :
         /\ IF final = NoFile THEN i \notin Referenced ELSE i = final
         /\ final' = i
         /\ fd' = [fd EXCEPT ![c] = i]
         /\ content' = [content EXCEPT ![i] = Empty]
    /\ UNCHANGED <<got, buf, tmp>>

\* tokio::fs::write opens the temporary file, creating or truncating it.
OpenTmp(c, a) ==
    /\ pc[c] = "missed"
    /\ Overlap \/ \A o \in Client : pc[o] \notin Putting
    /\ Goto(c, "write")
    /\ answer' = [answer EXCEPT ![c] = a]
    /\ pos' = [pos EXCEPT ![c] = 1]
    /\ \E i \in Inode :
         /\ IF tmp = NoFile THEN i \notin Referenced ELSE i = tmp
         /\ tmp' = i
         /\ fd' = [fd EXCEPT ![c] = i]
         /\ content' = [content EXCEPT ![i] = Empty]
    /\ UNCHANGED <<got, buf, final>>

\* Mutant: write instead of write_all, a short write ends the writing.
WriteOnce(c) ==
    /\ pc[c] \in {"write", "orphan"}
    /\ content' = [content EXCEPT ![fd[c]][pos[c]] = answer[c]]
    /\ pos' = [pos EXCEPT ![c] = @ + 1]
    /\ Goto(c, IF pc[c] = "write" THEN "chmod" ELSE "idle")
    /\ Close(c)
    /\ UNCHANGED <<got, answer, buf, tmp, final>>

\* Mutant: one block too many.
WritePastEnd(c) ==
    /\ pc[c] \in {"write", "orphan"}
    /\ content' = [content EXCEPT ![fd[c]][pos[c]] = answer[c]]
    /\ pos' = [pos EXCEPT ![c] = @ + 1]
    /\ IF pos[c] <= Blocks
       THEN UNCHANGED <<pc, fd>>
       ELSE Goto(c, IF pc[c] = "write" THEN "chmod" ELSE "idle") /\ Close(c)
    /\ UNCHANGED <<got, answer, buf, tmp, final>>

\* One block goes to the open handle, wherever its name is now; the last one
\* closes it.
WriteBlock(c) ==
    /\ pc[c] \in {"write", "orphan"}
    /\ content' = [content EXCEPT ![fd[c]][pos[c]] = answer[c]]
    /\ pos' = [pos EXCEPT ![c] = @ + 1]
    /\ IF pos[c] < Blocks
       THEN UNCHANGED <<pc, fd>>
       ELSE Goto(c, IF pc[c] = "write" THEN "chmod" ELSE "idle") /\ Close(c)
    /\ UNCHANGED <<got, answer, buf, tmp, final>>

\* set_permissions goes by the name, which must still be there.
Chmod(c) ==
    /\ pc[c] = "chmod"
    /\ tmp # NoFile
    /\ Goto(c, "rename")
    /\ UNCHANGED <<got, answer, fd, pos, buf, files>>

\* So does the rename: whatever the temporary name points at becomes the entry.
Rename(c) ==
    /\ pc[c] = "rename"
    /\ tmp # NoFile
    /\ final' = tmp
    /\ tmp' = NoFile
    /\ Goto(c, "idle")
    /\ UNCHANGED <<got, answer, fd, pos, buf, content>>

\* Mutant: the failure path removes the entry, not the temporary file.
FailsAndRemoves(c) ==
    /\ pc[c] \in Putting
    /\ Goto(c, "idle")
    /\ Close(c)
    /\ final' = NoFile
    /\ UNCHANGED <<got, answer, pos, buf, tmp, content>>

\* A step of put fails, as chmod and rename must when another put has taken
\* the temporary file away.  Nothing is cleaned up.
PutFails(c) ==
    /\ pc[c] \in Putting
    /\ Goto(c, "idle")
    /\ Close(c)
    /\ UNCHANGED <<got, answer, pos, buf, files>>

-----------------------------------------------------------------------------
(* Dropped callers and crashes *)

\* The caller is gone.  A write that the blocking pool has started runs to its
\* end, but no later step of put is taken; a rename under way is Rename.
Abandon(c) ==
    /\ pc[c] # "idle" /\ pc[c] # "orphan"
    /\ IF pc[c] = "write" THEN Goto(c, "orphan") /\ UNCHANGED fd
                          ELSE Goto(c, "idle") /\ Close(c)
    /\ Report(c, Nothing)
    /\ UNCHANGED <<answer, pos, buf, files>>

\* The process dies and is started again.
Crash ==
    /\ pc' = [c \in Client |-> "idle"]
    /\ got' = [c \in Client |-> Nothing]
    /\ fd' = [c \in Client |-> NoFile]
    /\ UNCHANGED <<answer, pos, buf, files>>

-----------------------------------------------------------------------------

Init ==
    /\ pc = [c \in Client |-> "idle"]
    /\ got = [c \in Client |-> Nothing]
    /\ answer = [c \in Client |-> Nothing]
    /\ fd = [c \in Client |-> NoFile]
    /\ pos = [c \in Client |-> 1]
    /\ buf = [c \in Client |-> Empty]
    /\ tmp = NoFile
    /\ final = NoFile
    /\ content = [i \in Inode |-> Empty]

Step(c) ==
    \/ GetOpen(c) \/ GetMiss(c) \/ ReadBlock(c) \/ GetDone(c)
    \/ NoAnswer(c)
    \/ \E a \in Answer : OpenTmp(c, a)
    \/ WriteBlock(c) \/ Chmod(c) \/ Rename(c) \/ PutFails(c)
    \/ Abandon(c)

Next == (\E c \in Client : Step(c)) \/ Crash

Spec == Init /\ [][Next]_vars

-----------------------------------------------------------------------------
(* Properties *)

\* The shape of the state.
TypeOK ==
    /\ pc \in [Client -> PC]
    /\ got \in [Client -> Answer \union {Absent, Garbled, Nothing}]
    /\ answer \in [Client -> Answer \union {Nothing}]
    /\ fd \in [Client -> Inode \union {NoFile}]
    /\ pos \in [Client -> 1 .. (Blocks + 1)]
    /\ buf \in [Client -> Contents]
    /\ tmp \in Inode \union {NoFile}
    /\ final \in Inode \union {NoFile}
    /\ content \in [Inode -> Contents]

\* cache.rs's comment on put: "readers never see a partial file".  A get
\* returns some put's whole answer or a miss.
ReadersSeeWholeAnswers == \A c \in Client : got[c] # Garbled

\* The key's entry as an atomic register: a get takes effect when it opens the
\* file, a put when it renames.  `?` and crashes in the middle of a put, the
\* temporary files they leave behind, dropped callers and late readers of a
\* replaced entry are all invisible, as long as puts do not overlap.
Register ==
    INSTANCE AtomicCache WITH
        entry <- IF final = NoFile THEN Absent ELSE Parsed(content[final]),
        got <- [c \in Client |-> IF pc[c] = "read"
                                 THEN Parsed(content[fd[c]]) ELSE got[c]]
ActsAsRegister == Register!Spec

\* Nothing a put, a failed put or a crash does takes an entry away once it is
\* there, so a miss is only ever reported before the first rename.
EntryStays == [][final # NoFile => final' # NoFile]_vars
=============================================================================
