---------------------------- MODULE LedgerProofs ----------------------------
(***************************************************************************)
(* For any number of dispatches and entries: the ledger file holds every    *)
(* entry at most once and every acknowledged one with its newline, and what *)
(* sync_from_jsonl makes of it is that and nothing else, or a refusal that  *)
(* a torn line accounts for.                                                *)
(***************************************************************************)
EXTENDS LedgerView, TLAPS, SequenceTheorems, FiniteSetTheorems, FunctionTheorems, WellFoundedInduction

-----------------------------------------------------------------------------
(* The inductive invariants *)

\* The shape of the state, but for the last answer; who is in append has an
\* entry.
TypeInv ==
    /\ FileTypeOK
    /\ \A c \in Client : pc[c] # "idle" => entry[c] # NoEntry
    /\ phase \in Phase
    /\ at \in 1 .. (Len(file) + 1)
    /\ rows \in Seq(Entry)
    /\ refused \in BOOLEAN /\ removed \in BOOLEAN
    /\ known \subseteq Entry

\* e's line is in the file with its newline.
HasLine(e) == \E k \in 1 .. Len(file) : file[k] = [entry |-> e, upto |-> Line]

\* A handle's lock is held by the client that writes through it, and nobody
\* uses another client's handle.
Owners ==
    \A c \in Client :
        /\ handle[c] \in {Shared, c}
        /\ pc[c] \in {"write", "flush"} => mutex[handle[c]] = c

\* Entries that have been made but not handed to the pool.
Waiting(c) == pc[c] \in {"lock", "write"}

\* Every entry is written once: it is at one place at a time, in a client, in
\* the pool or in the file.
Once ==
    /\ \A c \in Client : entry[c] <= made
    /\ \A h \in Handle : op[h] <= made
    /\ \A i \in 1 .. Len(file) : file[i].entry <= made
    /\ \A c, d \in Client : Waiting(c) /\ Waiting(d) /\ entry[c] = entry[d] => c = d
    /\ \A c \in Client, h \in Handle : Waiting(c) => op[h] # entry[c]
    /\ \A c \in Client, i \in 1 .. Len(file) : Waiting(c) => file[i].entry # entry[c]
    /\ \A h, g \in Handle : op[h] # NoEntry /\ op[h] = op[g] => h = g
    /\ \A h \in Handle, i \in 1 .. Len(file) : op[h] # NoEntry => file[i].entry # op[h]
    /\ \A i, j \in 1 .. Len(file) : file[i].entry = file[j].entry => i = j

\* A client that flushes waits for its own write, or for how that ended.
Flushing ==
    \A c \in Client : pc[c] = "flush" =>
        \/ op[handle[c]] = entry[c]
        \/ op[handle[c]] = NoEntry /\ (outcome[handle[c]] = "ok" => HasLine(entry[c]))

\* What is acknowledged is in the file.
Kept == \A e \in acked \union known : HasLine(e)

\* Nothing is under way before the server serves, or without a file.
Quiet ==
    /\ ~exists => file = <<>>
    /\ ~exists \/ phase # "serve" =>
         (\A c \in Client : pc[c] = "idle") /\ (\A h \in Handle : op[h] = NoEntry)

FileInv == Owners /\ Once /\ Flushing /\ Kept /\ Quiet

\* A row's text is in the file, before position n.
RowBefore(i, n) ==
    \E k \in 1 .. Len(file) : k < n /\ file[k].entry = rows[i] /\ file[k].upto >= Json

\* What the import has done when it has come to line `at`.
Imported ==
    phase = "fill" =>
        /\ ~removed
        /\ \A i \in 1 .. Len(rows) : RowBefore(i, at)
        /\ \A k \in 1 .. Len(file) :
             k < at /\ file[k].upto = Line => \E i \in 1 .. Len(rows) : rows[i] = file[k].entry

RowsOnce == \A i, j \in 1 .. Len(rows) : rows[i] = rows[j] => i = j

RowsInFile == ~removed => \A i \in 1 .. Len(rows) : RowBefore(i, Len(file) + 1)

Shown == phase = "serve" => \A e \in known : \E i \in 1 .. Len(rows) : rows[i] = e

ViewInv == Imported /\ RowsOnce /\ RowsInFile /\ Shown /\ RefusesOnlyMergedLines

-----------------------------------------------------------------------------
(* The file's lines *)

\* A set of numbers has a smallest one.
LEMMA SmallestNumber ==
    ASSUME NEW S, S \subseteq Nat, S # {}
    PROVE  \E n \in S : \A i \in S : n <= i
<1>1. PICK n \in S : \A i \in S : ~ (<<i, n>> \in OpToRel(<, Nat))
  BY NatLessThanWellFounded, WFMin
<1>2. \A i \in S : n <= i
  <2> SUFFICES ASSUME NEW i \in S, i < n PROVE FALSE
    OBVIOUS
  <2> QED
    BY <1>1 DEF OpToRel
<1> QED
  BY <1>2

\* The next line begins after the first newline from i on, if there is more.
LEMMA NextLineFacts ==
    ASSUME file \in Seq(Fragments), NEW i \in 1 .. Len(file)
    PROVE  /\ NextLine(i) \in (i + 1) .. (Len(file) + 1)
           /\ \A k \in i .. (NextLine(i) - 2) : file[k].upto # Line
           /\ file[i].upto = Line => NextLine(i) = i + 1
<1> DEFINE Later == {j \in Starts : j > i}
<1>1. Starts \subseteq 1 .. Len(file) /\ Len(file) \in Nat
  BY LenProperties DEF Starts
<1>2. CASE Later = {}
  <2>1. NextLine(i) = Len(file) + 1
    BY <1>2 DEF NextLine
  <2>2. \A k \in i .. (Len(file) - 1) : file[k].upto # Line
    <3> SUFFICES ASSUME NEW k \in i .. (Len(file) - 1), file[k].upto = Line PROVE FALSE
      OBVIOUS
    <3>1. k + 1 \in 1 .. Len(file) /\ k + 1 > i /\ (k + 1) - 1 = k
      BY <1>1
    <3>2. k + 1 \in Starts
      BY <3>1 DEF Starts
    <3> QED
      BY <1>2, <3>1, <3>2
  <2> QED
    BY <1>1, <2>1, <2>2
<1>3. CASE Later # {}
  <2>1. PICK n \in Later : \A j \in Later : n <= j
    <3>1. Later \subseteq Nat
      <4>1. Later \subseteq Starts
        OBVIOUS
      <4>2. 1 .. Len(file) \subseteq Nat
        BY <1>1
      <4> QED
        BY <1>1, <4>1, <4>2
    <3> HIDE DEF Later
    <3> QED
      BY <1>3, <3>1, SmallestNumber
  <2>2. /\ NextLine(i) \in Starts /\ NextLine(i) > i
        /\ \A k \in Starts : k > i => NextLine(i) <= k
    BY <2>1 DEF NextLine
  <2> DEFINE next == NextLine(i)
  <2>3. \A k \in i .. (next - 2) : file[k].upto # Line
    <3> SUFFICES ASSUME NEW k \in i .. (next - 2), file[k].upto = Line PROVE FALSE
      OBVIOUS
    <3>1. next \in 1 .. Len(file)
      BY <1>1, <2>2
    <3>2. k + 1 \in 1 .. Len(file) /\ k + 1 > i /\ (k + 1) - 1 = k /\ k + 1 < next
      BY <1>1, <3>1
    <3>3. k + 1 \in Starts
      BY <3>2 DEF Starts
    <3> HIDE DEF next
    <3> QED
      BY <2>2, <3>1, <3>2, <3>3 DEF next
  <2>4. next \in (i + 1) .. (Len(file) + 1)
    <3>1. next \in 1 .. Len(file) /\ next > i /\ Len(file) \in Nat
      BY <1>1, <2>2
    <3> HIDE DEF next
    <3> QED
      BY <3>1
  <2>5. file[i].upto = Line => next = i + 1
    <3> HIDE DEF next
    <3> QED
      BY <2>3, <2>4
  <2> QED
    BY <2>3, <2>4, <2>5
<1> QED
  BY <1>2, <1>3

\* What an append leaves alone.
LEMMA AppendedFile ==
    ASSUME FileTypeOK, NEW e \in Entry, NEW n \in Part .. Line,
           file' = Append(file, [entry |-> e, upto |-> n])
    PROVE  /\ file' \in Seq(Fragments) /\ Len(file) \in Nat /\ Len(file') = Len(file) + 1
           /\ \A i \in 1 .. Len(file) : file'[i] = file[i]
           /\ file'[Len(file) + 1] = [entry |-> e, upto |-> n]
<1>1. [entry |-> e, upto |-> n] \in Fragments /\ file \in Seq(Fragments)
  BY DEF Fragments, FileTypeOK
<1> QED
  BY <1>1, AppendProperties, LenProperties

-----------------------------------------------------------------------------
(* TypeInv *)

LEMMA InitTypes == Init => TypeInv
<1> SUFFICES ASSUME Init PROVE TypeInv
  OBVIOUS
<1>1. file \in Seq(Fragments) /\ at \in 1 .. (Len(file) + 1) /\ rows \in Seq(Entry)
  BY EmptySeq DEF Init, FileInit
<1>2. FileTypeOK
  <2>1. /\ pc \in [Client -> PC] /\ entry \in [Client -> Entry \union {NoEntry}]
        /\ handle \in [Client -> Handle]
    BY DEF Init, FileInit, PC, Handle
  <2>2. /\ mutex \in [Handle -> Client \union {NoClient}]
        /\ op \in [Handle -> Entry \union {NoEntry}]
        /\ outcome \in [Handle -> {"none", "ok", "err"}]
    BY DEF Init, FileInit
  <2>3. made \in 0 .. MaxEntries /\ acked \subseteq Entry
    BY LedgerFileAssumption DEF Init, FileInit
  <2>4. exists \in BOOLEAN
    BY DEF Init, FileInit
  <2> QED
    BY <1>1, <2>1, <2>2, <2>3, <2>4 DEF FileTypeOK
<1> QED
  BY <1>1, <1>2 DEF Init, FileInit, TypeInv, Phase

\* A write that got as far as n leaves a file of fragments, no shorter.
LEMMA WroteTypes ==
    ASSUME FileTypeOK, NEW e \in Entry, NEW n \in 0 .. Line, file' = Wrote(e, n)
    PROVE  file' \in Seq(Fragments) /\ Len(file) \in Nat /\ Len(file') \in Nat
           /\ Len(file) <= Len(file')
<1>1. CASE n = 0
  BY <1>1, LenProperties DEF Wrote, FileTypeOK
<1>2. CASE n # 0
  <2>1. n \in Part .. Line
    BY <1>2 DEF Part, Line
  <2> QED
    BY <1>2, <2>1, AppendedFile DEF Wrote
<1> QED
  BY <1>1, <1>2

LEMMA NextTypes == TypeInv /\ [Next]_vars => TypeInv'
<1> SUFFICES ASSUME TypeInv, [Next]_vars PROVE TypeInv'
  OBVIOUS
<1> USE LedgerFileAssumption
<1> USE DEF TypeInv, Phase, fileVars, clients, handles, disk, viewVars
<1>0. FileTypeOK /\ Len(file) \in Nat /\ Len(rows) \in Nat
  BY LenProperties DEF FileTypeOK
<1>1. CASE UNCHANGED vars
  BY <1>1 DEF vars, FileTypeOK
<1>2. ASSUME Boot \/ SyncMissing \/ SyncRead \/ SyncDone \/ RefuseLine
             \/ \E n \in Limits \union {-1} : Query(n)
      PROVE  TypeInv'
  BY <1>0, <1>2 DEF Boot, SyncMissing, SyncRead, SyncDone, RefuseLine, Query, FileTypeOK
<1>3. CASE SyncClear
  <2>1. rows' \in Seq(Entry) /\ at' \in 1 .. (Len(file) + 1)
    BY <1>0, <1>3, EmptySeq DEF SyncClear
  <2> QED
    BY <1>0, <1>3, <2>1 DEF SyncClear, FileTypeOK
<1>4. CASE ImportLine
  <2>1. at \in 1 .. Len(file)
    BY <1>0, <1>4 DEF ImportLine
  <2>2. at' \in 1 .. (Len(file) + 1) /\ file[at].entry \in Entry
    <3>1. file \in Seq(Fragments) /\ file[at] \in Fragments
      BY <1>0, <2>1, ElementOfSeq DEF FileTypeOK
    <3>2. at' \in (at + 1) .. (Len(file) + 1)
      BY <1>4, <2>1, <3>1, NextLineFacts DEF ImportLine
    <3> QED
      BY <1>0, <2>1, <3>1, <3>2 DEF Fragments
  <2> QED
    BY <1>0, <1>4, <2>2, AppendProperties DEF ImportLine, FileTypeOK
<1>5. CASE SkipTrailing
  <2>1. at \in 1 .. Len(file)
    BY <1>0, <1>5 DEF SkipTrailing
  <2>2. at' \in 1 .. (Len(file) + 1)
    BY <1>0, <1>5, <2>1, NextLineFacts DEF SkipTrailing, FileTypeOK
  <2> QED
    BY <1>0, <1>5, <2>2 DEF SkipTrailing, FileTypeOK
<1>6. ASSUME NEW c \in Client, Appends(c) PROVE TypeInv'
  <2>1. FileTypeOK' /\ file' = file
    <3> USE DEF FileTypeOK, Goto, PC, Handle
    <3>1. ASSUME NEW h \in Handle, StartAppend(c, h) PROVE FileTypeOK' /\ file' = file
      BY <3>1 DEF StartAppend, Entry, NoEntry
    <3>2. CASE Lock(c)
      BY <3>2 DEF Lock
    <3>3. CASE InheritsError(c)
      BY <3>3 DEF InheritsError, Unlock
    <3>4. CASE Submit(c)
      BY <3>4 DEF Submit
    <3>5. CASE Flush(c)
      <4>1. entry[c] \in Entry
        BY <3>5 DEF Flush
      <4> QED
        BY <3>5, <4>1 DEF Flush, Unlock
    <3>6. CASE DropAppend(c)
      BY <3>6 DEF DropAppend, Unlock
    <3> QED
      BY <1>6, <3>1, <3>2, <3>3, <3>4, <3>5, <3>6 DEF Appends, ClientStep
  <2>2. \A d \in Client : pc'[d] # "idle" => entry'[d] # NoEntry
    BY <1>0, <1>6 DEF Appends, ClientStep, StartAppend, Lock, InheritsError, Submit, Flush,
                  DropAppend, Goto, FileTypeOK, NoEntry
  <2> QED
    BY <1>6, <2>1, <2>2 DEF Appends
<1>7. ASSUME NEW h \in Handle, Pool(h) PROVE TypeInv'
  <2>1. PICK n \in 0 .. Line : file' = Wrote(op[h], n)
    BY <1>7 DEF Pool, PoolStep, WriteLine, WriteShort, Json, Line
  <2>2. op[h] \in Entry
    BY <1>0, <1>7 DEF Pool, PoolStep, WriteLine, WriteShort, FileTypeOK
  <2>3. file' \in Seq(Fragments) /\ Len(file') \in Nat /\ Len(file) <= Len(file')
    BY <1>0, <2>1, <2>2, WroteTypes
  <2>4. FileTypeOK'
    BY <1>0, <1>7, <2>3 DEF Pool, PoolStep, WriteLine, WriteShort, FileTypeOK
  <2> QED
    BY <1>0, <1>7, <2>3, <2>4 DEF Pool, PoolStep, WriteLine, WriteShort
<1>8. CASE Crash
  <2>1. file' \in Seq(Fragments) /\ Len(file') \in Nat /\ Len(file) <= Len(file')
    <3>1. CASE file' = file
      BY <1>0, <3>1 DEF FileTypeOK
    <3>2. ASSUME NEW h \in Handle, NEW n \in Part .. Json, op[h] # NoEntry, file' = Wrote(op[h], n)
          PROVE  file' \in Seq(Fragments) /\ Len(file') \in Nat /\ Len(file) <= Len(file')
      <4>1. op[h] \in Entry /\ n \in 0 .. Line
        BY <1>0, <3>2 DEF FileTypeOK, Part, Json, Line
      <4> QED
        BY <1>0, <3>2, <4>1, WroteTypes
    <3> QED
      BY <1>8, <3>1, <3>2 DEF Crash, CrashFile
  <2>2. FileTypeOK'
    BY <1>0, <1>8, <2>1 DEF Crash, CrashFile, FileTypeOK, PC
  <2> QED
    BY <1>0, <1>8, <2>1, <2>2 DEF Crash, CrashFile
<1>9. CASE RemoveFile
  <2>1. file' \in Seq(Fragments) /\ at' \in 1 .. (Len(file') + 1)
    BY <1>9, EmptySeq DEF RemoveFile
  <2>2. FileTypeOK'
    BY <1>0, <1>9, <2>1 DEF RemoveFile, FileTypeOK
  <2> QED
    BY <1>0, <1>9, <2>1, <2>2 DEF RemoveFile, FileTypeOK
<1> QED
  BY <1>1, <1>2, <1>3, <1>4, <1>5, <1>6, <1>7, <1>8, <1>9 DEF Next

-----------------------------------------------------------------------------
(* FileInv *)

\* The file as it is, or with a fragment of e's line more.
Grows(e) ==
    \/ file' = file
    \/ \E n \in Part .. Line : file' = Append(file, [entry |-> e, upto |-> n])

LEMMA HasLineStays ==
    ASSUME FileTypeOK, NEW x \in Entry, Grows(x), NEW e, HasLine(e)
    PROVE  HasLine(e)'
<1>1. CASE file' = file
  BY <1>1 DEF HasLine
<1>2. ASSUME NEW n \in Part .. Line, file' = Append(file, [entry |-> x, upto |-> n])
      PROVE  HasLine(e)'
  BY <1>2, AppendedFile DEF HasLine
<1> QED
  BY <1>1, <1>2 DEF Grows

\* The places an entry of the pool can go to.
LEMMA OnceWritten ==
    ASSUME FileTypeOK, Once, NEW h \in Handle, op[h] # NoEntry, Grows(op[h]),
           op' \in [Handle -> {NoEntry} \union Entry],
           op'[h] = NoEntry, \A g \in Handle : op'[g] \in {op[g], NoEntry},
           \A c \in Client : pc[c] # "idle" => entry[c] # NoEntry,
           \A c \in Client : entry'[c] = entry[c] /\ pc'[c] \in {pc[c], "idle"},
           made' = made
    PROVE  Once'
<1> USE LedgerFileAssumption
<1>1. made \in Nat /\ Len(file) \in Nat /\ op[h] \in Entry /\ op[h] \in Nat
  BY LenProperties DEF FileTypeOK, Entry, NoEntry
<1>2. \A c \in Client : entry'[c] = entry[c] /\ (Waiting(c)' => Waiting(c))
  BY DEF Waiting
<1>3. \A i \in 1 .. Len(file') :
        \/ i \in 1 .. Len(file) /\ file'[i].entry = file[i].entry
        \/ i = Len(file) + 1 /\ file'[i].entry = op[h]
  <2>1. CASE file' = file
    BY <2>1
  <2>2. ASSUME NEW n \in Part .. Line, file' = Append(file, [entry |-> op[h], upto |-> n])
        PROVE  \A i \in 1 .. Len(file') :
                 \/ i \in 1 .. Len(file) /\ file'[i].entry = file[i].entry
                 \/ i = Len(file) + 1 /\ file'[i].entry = op[h]
    <3>1. /\ Len(file') = Len(file) + 1
          /\ \A i \in 1 .. Len(file) : file'[i].entry = file[i].entry
          /\ file'[Len(file) + 1].entry = op[h]
      BY <1>1, <2>2, AppendedFile
    <3> QED
      BY <1>1, <3>1
  <2> QED
    BY <2>1, <2>2 DEF Grows
<1>4. /\ \A c \in Client : entry'[c] <= made'
      /\ \A c, d \in Client : Waiting(c)' /\ Waiting(d)' /\ entry'[c] = entry'[d] => c = d
  BY <1>2 DEF Once
<1>5. \A g \in Handle : op'[g] <= made'
  BY <1>1 DEF Once, NoEntry
<1>6. \A i \in 1 .. Len(file') : file'[i].entry <= made'
  BY <1>3 DEF Once
<1>7. \A c \in Client, g \in Handle : Waiting(c)' => op'[g] # entry'[c]
  <2> SUFFICES ASSUME NEW c \in Client, NEW g \in Handle, Waiting(c)', op'[g] = entry'[c]
               PROVE  FALSE
    OBVIOUS
  <2>1. Waiting(c) /\ entry[c] # NoEntry /\ entry'[c] = entry[c]
    BY <1>2 DEF Waiting
  <2> QED
    BY <2>1 DEF Once
<1>8. \A c \in Client, i \in 1 .. Len(file') : Waiting(c)' => file'[i].entry # entry'[c]
  BY <1>2, <1>3 DEF Once
<1>9. \A g, k \in Handle : op'[g] # NoEntry /\ op'[g] = op'[k] => g = k
  BY DEF Once
<1>10. \A g \in Handle, i \in 1 .. Len(file') : op'[g] # NoEntry => file'[i].entry # op'[g]
  BY <1>3 DEF Once
<1>11. \A i, j \in 1 .. Len(file') : file'[i].entry = file'[j].entry => i = j
  <2> SUFFICES ASSUME NEW i \in 1 .. Len(file'), NEW j \in 1 .. Len(file'),
                      file'[i].entry = file'[j].entry
               PROVE  i = j
    OBVIOUS
  <2>1. \A k \in 1 .. Len(file) : file[k].entry # op[h]
    BY DEF Once
  <2> QED
    BY <1>3, <2>1 DEF Once
<1> QED
  BY <1>4, <1>5, <1>6, <1>7, <1>8, <1>9, <1>10, <1>11 DEF Once

LEMMA InitFile == Init => FileInv
<1> SUFFICES ASSUME Init PROVE FileInv
  OBVIOUS
<1>1. Len(file) = 0
  BY EmptySeq DEF Init, FileInit
<1> QED
  BY <1>1 DEF Init, FileInit, FileInv, Owners, Once, Waiting, Flushing, Kept, Quiet, NoEntry

LEMMA NextFile == TypeInv /\ TypeInv' /\ FileInv /\ [Next]_vars => FileInv'
<1> SUFFICES ASSUME TypeInv, TypeInv', FileInv, [Next]_vars PROVE FileInv'
  OBVIOUS
<1> USE LedgerFileAssumption
<1> USE DEF FileInv, fileVars, clients, handles, disk, viewVars
<1>0. /\ FileTypeOK /\ FileTypeOK'
      /\ \A c \in Client : pc[c] # "idle" => entry[c] # NoEntry
  BY DEF TypeInv
<1>1. CASE UNCHANGED vars
  BY <1>1 DEF vars, Owners, Once, Waiting, Flushing, Kept, Quiet, HasLine
<1>2. ASSUME SyncMissing \/ SyncRead \/ SyncClear \/ ImportLine \/ SkipTrailing \/ RefuseLine
             \/ SyncDone \/ \E n \in Limits \union {-1} : Query(n)
      PROVE  FileInv'
  <2>1. /\ UNCHANGED fileVars /\ known' = known
        /\ ~exists \/ phase # "serve" <=> ~exists' \/ phase' # "serve"
           \/ ((~exists \/ phase # "serve") /\ exists /\ phase' = "serve")
    BY <1>2 DEF SyncMissing, SyncRead, SyncClear, ImportLine, SkipTrailing, RefuseLine, SyncDone, Query
  <2>2. Owners' /\ Once' /\ Flushing' /\ Kept'
    BY <2>1 DEF Owners, Once, Waiting, Flushing, Kept, HasLine
  <2>3. Quiet'
    BY <1>2, <2>1 DEF Quiet, SyncMissing, SyncRead, SyncClear, ImportLine, SkipTrailing,
                      RefuseLine, SyncDone, Query
  <2> QED
    BY <2>2, <2>3
<1>3. CASE Boot
  BY <1>3 DEF Boot, Owners, Once, Waiting, Flushing, Kept, HasLine, Quiet
<1>4. ASSUME NEW c \in Client, NEW h \in Handle, Appends(c), StartAppend(c, h) PROVE FileInv'
  <2>1. Owners'
    BY <1>0, <1>4 DEF StartAppend, Goto, Owners, FileTypeOK
  <2>2. Once'
    <3>1. \A i \in 1 .. Len(file) : file[i].entry <= made /\ file[i].entry \in Nat
      <4> SUFFICES ASSUME NEW i \in 1 .. Len(file) PROVE file[i].entry \in Entry
        BY DEF Once, Entry
      <4>1. file[i] \in Fragments
        BY <1>0, ElementOfSeq DEF FileTypeOK
      <4> QED
        BY <4>1 DEF Fragments
    <3> QED
      BY <1>0, <1>4, <3>1 DEF StartAppend, Goto, Once, Waiting, FileTypeOK, Entry, NoEntry
  <2>3. Flushing'
    BY <1>0, <1>4 DEF StartAppend, Goto, Flushing, Owners, HasLine, FileTypeOK
  <2>4. Kept' /\ Quiet'
    BY <1>4 DEF Appends, StartAppend, Goto, Kept, Quiet, HasLine
  <2> QED
    BY <2>1, <2>2, <2>3, <2>4
<1>5. ASSUME NEW c \in Client, Appends(c),
             Lock(c) \/ InheritsError(c) \/ Flush(c) \/ DropAppend(c)
      PROVE  FileInv'
  <2>1. /\ phase = "serve" /\ pc[c] # "idle" /\ UNCHANGED <<entry, handle, op, file, exists, made, viewVars>>
        /\ \/ pc[c] = "lock" /\ pc' = [pc EXCEPT ![c] = "write"]
           \/ pc' = [pc EXCEPT ![c] = "idle"]
    BY <1>5 DEF Appends, Lock, InheritsError, Flush, DropAppend, Goto
  <2>2. Owners'
    <3>1. CASE Lock(c)
      BY <1>0, <2>1, <3>1 DEF Lock, Owners, FileTypeOK
    <3>2. CASE InheritsError(c) \/ Flush(c) \/ DropAppend(c)
      <4>1. pc' = [pc EXCEPT ![c] = "idle"] /\ Unlock(c)
        BY <3>2 DEF InheritsError, Flush, DropAppend, Goto
      <4> QED
        BY <1>0, <2>1, <4>1 DEF Unlock, Owners, FileTypeOK
    <3> QED
      BY <1>5, <3>1, <3>2
  <2>3. Once'
    <3>1. \A d \in Client : pc'[d] \in {"lock", "write"} => pc[d] \in {"lock", "write"}
      BY <1>0, <2>1 DEF FileTypeOK
    <3>2. UNCHANGED <<entry, op, file, made>>
      BY <2>1
    <3> QED
      BY <3>1, <3>2 DEF Once, Waiting
  <2>4. Flushing'
    <3> SUFFICES ASSUME NEW d \in Client, pc'[d] = "flush"
                 PROVE  \/ op[handle[d]] = entry[d]
                        \/ op[handle[d]] = NoEntry /\ (outcome'[handle[d]] = "ok" => HasLine(entry[d]))
      BY <2>1 DEF Flushing, HasLine
    <3>1. d # c /\ pc[d] = "flush"
      BY <1>0, <2>1 DEF FileTypeOK
    <3>2. outcome'[handle[d]] \in {outcome[handle[d]], "none"}
      BY <1>0, <1>5 DEF Lock, InheritsError, Flush, DropAppend, FileTypeOK
    <3> QED
      BY <3>1, <3>2 DEF Flushing
  <2>5. Kept'
    <3>1. acked' = acked \/ (pc[c] = "flush" /\ op[handle[c]] = NoEntry
                             /\ outcome[handle[c]] = "ok" /\ acked' = acked \union {entry[c]})
      BY <1>5 DEF Lock, InheritsError, Flush, DropAppend
    <3>2. \A e \in acked' : HasLine(e)
      BY <1>0, <3>1 DEF Kept, Flushing
    <3> QED
      BY <2>1, <3>2 DEF Kept, HasLine
  <2>6. Quiet'
    BY <1>0, <2>1 DEF Quiet, FileTypeOK
  <2> QED
    BY <2>2, <2>3, <2>4, <2>5, <2>6
<1>6. ASSUME NEW c \in Client, Appends(c), Submit(c) PROVE FileInv'
  <2>1. /\ phase = "serve" /\ exists /\ pc[c] = "write" /\ mutex[handle[c]] = c
        /\ handle[c] \in Handle /\ entry[c] \in Entry
        /\ op[handle[c]] = NoEntry /\ op' = [op EXCEPT ![handle[c]] = entry[c]]
        /\ pc' = [pc EXCEPT ![c] = "flush"]
        /\ outcome' = [outcome EXCEPT ![handle[c]] = "none"]
        /\ UNCHANGED <<entry, handle, mutex, file, exists, made, acked, viewVars>>
    BY <1>0, <1>6 DEF Appends, Submit, Goto, Owners, Quiet, FileTypeOK
  <2>2. Owners'
    BY <1>0, <2>1 DEF Owners, FileTypeOK
  <2>3. Once'
    BY <1>0, <2>1 DEF Once, Waiting, FileTypeOK
  <2>4. Flushing'
    BY <1>0, <2>1 DEF Flushing, Owners, HasLine, FileTypeOK
  <2>5. Kept' /\ Quiet'
    BY <2>1 DEF Kept, Quiet, HasLine
  <2> QED
    BY <2>2, <2>3, <2>4, <2>5
<1>7. ASSUME NEW h \in Handle, Pool(h) PROVE FileInv'
  <2>1. /\ phase = "serve" /\ op[h] \in Entry
        /\ op' = [op EXCEPT ![h] = NoEntry]
        /\ outcome' \in {[outcome EXCEPT ![h] = "ok"], [outcome EXCEPT ![h] = "err"]}
        /\ UNCHANGED <<pc, entry, handle, mutex, exists, made, acked, viewVars>>
    BY <1>0, <1>7 DEF Pool, PoolStep, WriteLine, WriteShort, FileTypeOK
  <2>2. /\ Grows(op[h])
        /\ outcome' = [outcome EXCEPT ![h] = "ok"] =>
             file' = Append(file, [entry |-> op[h], upto |-> Line])
    BY <1>0, <1>7 DEF Pool, PoolStep, WriteLine, WriteShort, Wrote, Grows, Part, Json, Line, FileTypeOK
  <2>3. Owners'
    BY <2>1 DEF Owners
  <2>4. Once'
    <3>1. /\ op[h] # NoEntry /\ op' \in [Handle -> {NoEntry} \union Entry]
          /\ op'[h] = NoEntry /\ \A g \in Handle : op'[g] \in {op[g], NoEntry}
      BY <1>0, <2>1 DEF FileTypeOK, Entry, NoEntry
    <3>2. \A c \in Client : entry'[c] = entry[c] /\ pc'[c] \in {pc[c], "idle"}
      BY <2>1
    <3> QED
      BY <1>0, <2>1, <2>2, <3>1, <3>2, OnceWritten
  <2>5. \A e : HasLine(e) => HasLine(e)'
    BY <1>0, <2>1, <2>2, HasLineStays
  <2>6. outcome' = [outcome EXCEPT ![h] = "ok"] =>
          \E k \in 1 .. Len(file') : file'[k] = [entry |-> op[h], upto |-> Line]
    <3> SUFFICES ASSUME file' = Append(file, [entry |-> op[h], upto |-> Line])
                 PROVE  \E k \in 1 .. Len(file') : file'[k] = [entry |-> op[h], upto |-> Line]
      BY <2>2
    <3>1. /\ Len(file) \in Nat /\ Len(file') = Len(file) + 1
          /\ file'[Len(file) + 1] = [entry |-> op[h], upto |-> Line]
      <4>1. Line \in Part .. Line
        BY DEF Part, Line
      <4> QED
        BY <1>0, <2>1, <4>1, AppendedFile
    <3> QED
      BY <3>1
  <2>7. Flushing'
    <3> SUFFICES ASSUME NEW d \in Client, pc[d] = "flush"
                 PROVE  \/ op'[handle[d]] = entry[d]
                        \/ op'[handle[d]] = NoEntry /\ (outcome'[handle[d]] = "ok" => HasLine(entry[d])')
      BY <2>1 DEF Flushing, HasLine
    <3>1. CASE handle[d] # h
      BY <1>0, <2>1, <2>5, <3>1 DEF Flushing, FileTypeOK
    <3>2. CASE handle[d] = h
      <4>1. op[h] = entry[d] /\ op'[h] = NoEntry
        BY <1>0, <2>1, <3>2 DEF Flushing, FileTypeOK, NoEntry, Entry
      <4>2. outcome'[h] = "ok" => outcome' = [outcome EXCEPT ![h] = "ok"]
        BY <1>0, <2>1 DEF FileTypeOK
      <4>3. outcome'[h] = "ok" => HasLine(entry[d])'
        BY <2>1, <2>6, <4>1, <4>2 DEF HasLine
      <4> QED
        BY <3>2, <4>1, <4>3
    <3> QED
      BY <3>1, <3>2
  <2>8. Kept'
    <3>1. acked' = acked /\ known' = known
      BY <2>1
    <3> QED
      BY <2>5, <3>1 DEF Kept
  <2>9. Quiet'
    <3>1. exists /\ phase = "serve" /\ exists' = exists /\ phase' = phase
      BY <2>1 DEF Quiet, Entry, NoEntry
    <3> QED
      BY <3>1 DEF Quiet
  <2> QED
    BY <2>3, <2>4, <2>7, <2>8, <2>9
<1>8. CASE Crash
  <2>1. /\ \A c \in Client : pc'[c] = "idle"
        /\ \A h \in Handle : op'[h] = NoEntry
        /\ UNCHANGED <<entry, handle, exists, made, acked, known>>
    BY <1>8 DEF Crash, CrashFile
  <2>2. CASE file' = file
    <3>1. Once'
      <4>1. made \in Nat /\ \A c \in Client : ~ Waiting(c)'
        BY <1>0, <2>1 DEF FileTypeOK, Waiting
      <4> QED
        BY <2>1, <2>2, <4>1 DEF Once, NoEntry
    <3>2. Owners' /\ Flushing'
      BY <2>1 DEF Owners, Flushing
    <3>3. Kept' /\ Quiet'
      BY <2>1, <2>2 DEF Kept, Quiet, HasLine
    <3> QED
      BY <3>1, <3>2, <3>3
  <2>3. ASSUME NEW h \in Handle, op[h] # NoEntry, Grows(op[h]) PROVE FileInv'
    <3>1. op[h] \in Entry
      BY <1>0, <2>3 DEF FileTypeOK
    <3>2. Once'
      <4>1. /\ op' \in [Handle -> {NoEntry} \union Entry] /\ op'[h] = NoEntry
            /\ \A g \in Handle : op'[g] \in {op[g], NoEntry}
        BY <1>0, <2>1 DEF FileTypeOK
      <4>2. \A c \in Client : entry'[c] = entry[c] /\ pc'[c] \in {pc[c], "idle"}
        BY <2>1
      <4> QED
        BY <1>0, <2>1, <2>3, <4>1, <4>2, OnceWritten
    <3>3. \A e : HasLine(e) => HasLine(e)'
      BY <1>0, <2>3, <3>1, HasLineStays
    <3>4. Kept'
      <4>1. acked' = acked /\ known' = known
        BY <2>1
      <4> QED
        BY <3>3, <4>1 DEF Kept
    <3>5. exists /\ exists' = exists
      BY <2>1, <2>3 DEF Quiet
    <3> QED
      BY <2>1, <3>2, <3>4, <3>5 DEF Owners, Flushing, Quiet
  <2>4. file' = file \/ \E h \in Handle : op[h] # NoEntry /\ Grows(op[h])
    <3>1. ASSUME NEW h \in Handle, NEW n \in Part .. Json, file' = Wrote(op[h], n)
          PROVE  Grows(op[h])
      <4>1. n \in Part .. Line /\ n # 0
        BY <3>1 DEF Part, Json, Line
      <4> QED
        BY <3>1, <4>1 DEF Grows, Wrote
    <3> QED
      BY <1>8, <3>1 DEF Crash, CrashFile
  <2> QED
    BY <2>2, <2>3, <2>4
<1>9. CASE RemoveFile
  <2>1. Len(file') = 0
    BY <1>9, EmptySeq DEF RemoveFile
  <2> QED
    BY <1>9, <2>1 DEF RemoveFile, Owners, Once, Waiting, Flushing, Kept, Quiet
<1>10. ASSUME NEW c \in Client, Appends(c) PROVE FileInv'
  BY <1>4, <1>5, <1>6, <1>10 DEF Appends, ClientStep
<1> QED
  BY <1>1, <1>2, <1>3, <1>7, <1>8, <1>9, <1>10 DEF Next

-----------------------------------------------------------------------------
(* ViewInv *)

LEMMA InitView == Init => ViewInv
<1> SUFFICES ASSUME Init PROVE ViewInv
  OBVIOUS
<1>1. Len(rows) = 0
  BY EmptySeq DEF Init
<1> QED
  BY <1>1 DEF Init, ViewInv, Imported, RowsOnce, RowsInFile, Shown, RefusesOnlyMergedLines

\* A file that grows keeps the rows' lines and the torn ones.
LEMMA LinesStay ==
    ASSUME FileTypeOK, NEW e \in Entry, file' = file \/ Grows(e)
    PROVE  /\ Merged => Merged'
           /\ \A x : (\E k \in 1 .. Len(file) : k < Len(file) + 1 /\ file[k].entry = x
                                               /\ file[k].upto >= Json)
                => \E k \in 1 .. Len(file') : k < Len(file') + 1 /\ file'[k].entry = x
                                            /\ file'[k].upto >= Json
<1>1. CASE file' = file
  BY <1>1 DEF Merged
<1>2. ASSUME NEW n \in Part .. Line, file' = Append(file, [entry |-> e, upto |-> n])
      PROVE  /\ Len(file) \in Nat /\ Len(file') = Len(file) + 1
             /\ \A i \in 1 .. Len(file) : file'[i] = file[i]
  BY <1>2, AppendedFile
<1>3. CASE /\ Len(file) \in Nat /\ Len(file') = Len(file) + 1
           /\ \A i \in 1 .. Len(file) : file'[i] = file[i]
  <2>1. Merged => Merged'
    BY <1>3 DEF Merged
  <2> QED
    BY <1>3, <2>1
<1> QED
  BY <1>1, <1>2, <1>3 DEF Grows

LEMMA NextView == TypeInv /\ FileInv /\ ViewInv /\ [Next]_vars => ViewInv'
<1> SUFFICES ASSUME TypeInv, FileInv, ViewInv, [Next]_vars PROVE ViewInv'
  OBVIOUS
<1> USE DEF ViewInv, fileVars, clients, handles, disk, viewVars
<1>0. /\ FileTypeOK /\ file \in Seq(Fragments) /\ rows \in Seq(Entry)
      /\ Len(file) \in Nat /\ Len(rows) \in Nat /\ at \in 1 .. (Len(file) + 1)
  BY LenProperties DEF TypeInv, FileTypeOK
<1>1. CASE UNCHANGED vars
  BY <1>1 DEF vars, Imported, RowsOnce, RowsInFile, Shown, RefusesOnlyMergedLines, RowBefore, Merged
<1>2. CASE Boot \/ SyncRead \/ SyncMissing \/ SyncDone \/ \E n \in Limits \union {-1} : Query(n)
  <2>1. /\ UNCHANGED <<file, rows, removed>> /\ phase' # "fill"
        /\ refused' => refused
    BY <1>2 DEF Boot, SyncRead, SyncMissing, SyncDone, Query
  <2>2. Shown'
    <3>1. CASE Boot \/ SyncRead
      BY <3>1 DEF Boot, SyncRead, Shown
    <3>2. CASE \E n \in Limits \union {-1} : Query(n)
      BY <3>2 DEF Query, Shown
    <3>3. CASE SyncMissing
      <4>1. known = {}
        <5>1. Len(file) = 0
          BY <3>3, EmptySeq DEF SyncMissing, FileInv, Quiet
        <5> QED
          BY <5>1 DEF FileInv, Kept, HasLine
      <4> QED
        BY <3>3, <4>1 DEF SyncMissing, Shown
    <3>4. CASE SyncDone
      <4> SUFFICES ASSUME NEW e \in known PROVE \E i \in 1 .. Len(rows) : rows[i] = e
        BY <3>4 DEF SyncDone, Shown
      <4>1. PICK k \in 1 .. Len(file) : file[k] = [entry |-> e, upto |-> Line]
        BY DEF FileInv, Kept, HasLine
      <4>2. k < at /\ phase = "fill"
        BY <1>0, <3>4 DEF SyncDone
      <4> QED
        BY <4>1, <4>2 DEF Imported
    <3> QED
      BY <1>2, <3>1, <3>2, <3>3, <3>4
  <2> QED
    <3>1. Imported' /\ RowsOnce' /\ RowsInFile'
      BY <2>1 DEF Imported, RowsOnce, RowsInFile, RowBefore
    <3>2. RefusesOnlyMergedLines'
      BY <2>1 DEF RefusesOnlyMergedLines, Merged
    <3> QED
      BY <2>2, <3>1, <3>2
<1>3. CASE SyncClear
  <2>1. Len(rows') = 0
    BY <1>3, EmptySeq DEF SyncClear
  <2>2. at' = 1 /\ ~removed' /\ phase' = "fill" /\ UNCHANGED <<file, refused>>
    BY <1>3 DEF SyncClear
  <2>3. Imported'
    BY <1>0, <2>1, <2>2 DEF Imported
  <2> QED
    BY <2>1, <2>2, <2>3 DEF RowsOnce, RowsInFile, Shown, RefusesOnlyMergedLines, Merged
<1>4. CASE ImportLine
  <2>1. /\ phase = "fill" /\ at \in 1 .. Len(file) /\ Parses(at)
        /\ rows' = Append(rows, file[at].entry) /\ at' = NextLine(at)
        /\ UNCHANGED <<file, phase, refused, removed, known>>
    BY <1>0, <1>4 DEF ImportLine
  <2>2. /\ at' \in (at + 1) .. (Len(file) + 1)
        /\ \A k \in at .. (at' - 2) : file[k].upto # Line
        /\ file[at].upto = Line => at' = at + 1
    BY <1>0, <2>1, NextLineFacts
  <2>3. file[at].entry \in Entry /\ file[at].upto \in Part .. Line
    <3>1. file[at] \in Fragments
      BY <1>0, <2>1, ElementOfSeq
    <3> QED
      BY <3>1 DEF Fragments
  <2>4. /\ Len(rows') = Len(rows) + 1
        /\ \A i \in 1 .. Len(rows) : rows'[i] = rows[i]
        /\ rows'[Len(rows) + 1] = file[at].entry
    BY <1>0, <2>1, <2>3, AppendProperties
  <2>5. ~removed /\ \A i \in 1 .. Len(rows) : RowBefore(i, at)
    BY <2>1 DEF Imported
  <2>6. \A i \in 1 .. Len(rows') : i \in 1 .. Len(rows) \/ i = Len(rows) + 1
    BY <1>0, <2>4
  <2>7. \A i \in 1 .. Len(rows') :
          \E k \in 1 .. Len(file) : /\ k < at' /\ k < Len(file) + 1
                                   /\ file[k].entry = rows'[i] /\ file[k].upto >= Json
    <3>1. file[at].upto >= Json
      BY <2>1 DEF Parses, Json, Line
    <3>2. \A i \in 1 .. Len(rows) :
            \E k \in 1 .. Len(file) : /\ k < at
                                     /\ file[k].entry = rows[i] /\ file[k].upto >= Json
      BY <2>5 DEF RowBefore
    <3> SUFFICES ASSUME NEW i \in 1 .. Len(rows')
                 PROVE  \E k \in 1 .. Len(file) : /\ k < at' /\ k < Len(file) + 1
                                                /\ file[k].entry = rows'[i] /\ file[k].upto >= Json
      OBVIOUS
    <3>3. CASE i \in 1 .. Len(rows)
      <4>1. PICK k \in 1 .. Len(file) : /\ k < at
                                      /\ file[k].entry = rows[i] /\ file[k].upto >= Json
        BY <3>2, <3>3
      <4>2. k < at' /\ k < Len(file) + 1
        BY <1>0, <2>2, <4>1
      <4> QED
        BY <2>4, <3>3, <4>1, <4>2
    <3>4. CASE i = Len(rows) + 1
      <4>1. at < at' /\ at < Len(file) + 1
        BY <1>0, <2>1, <2>2
      <4> QED
        BY <2>1, <2>4, <3>1, <3>4, <4>1
    <3> QED
      BY <2>6, <3>3, <3>4
  <2>8. RowsOnce'
    <3>1. \A i \in 1 .. Len(rows) : rows[i] # file[at].entry
      <4> SUFFICES ASSUME NEW i \in 1 .. Len(rows), rows[i] = file[at].entry PROVE FALSE
        OBVIOUS
      <4>1. PICK k \in 1 .. Len(file) : k < at /\ file[k].entry = rows[i]
        BY <2>5 DEF RowBefore
      <4>2. k = at
        BY <2>1, <4>1 DEF FileInv, Once
      <4> QED
        BY <1>0, <4>1, <4>2
    <3> QED
      BY <1>0, <2>4, <2>6, <3>1 DEF RowsOnce
  <2>9. Imported'
    <3>1. ASSUME NEW k \in 1 .. Len(file), k < at', file[k].upto = Line
          PROVE  \E i \in 1 .. Len(rows') : rows'[i] = file[k].entry
      <4>1. CASE k < at
        <5>1. PICK i \in 1 .. Len(rows) : rows[i] = file[k].entry
          BY <2>1, <3>1, <4>1 DEF Imported
        <5> QED
          BY <1>0, <2>4, <5>1
      <4>2. CASE k = at
        BY <1>0, <2>4, <4>2
      <4>3. CASE k > at
        <5>1. file[at].upto # Line
          BY <1>0, <2>2, <3>1, <4>3
        <5>2. at = Len(file)
          BY <2>1, <5>1 DEF Parses
        <5> QED
          BY <1>0, <4>3, <5>2
      <4> QED
        BY <1>0, <4>1, <4>2, <4>3
    <3>2. \A i \in 1 .. Len(rows') : RowBefore(i, at)'
      BY <2>1, <2>7 DEF RowBefore
    <3> QED
      BY <2>1, <2>5, <3>1, <3>2 DEF Imported
  <2>10. RowsInFile'
    BY <2>1, <2>7 DEF RowsInFile, RowBefore
  <2> QED
    BY <2>1, <2>8, <2>9, <2>10 DEF Shown, RefusesOnlyMergedLines, Merged
<1>5. CASE SkipTrailing
  <2>1. /\ phase = "fill" /\ at \in 1 .. Len(file) /\ Trailing(at)
        /\ at' = NextLine(at)
        /\ UNCHANGED <<file, rows, phase, refused, removed, known>>
    BY <1>0, <1>5 DEF SkipTrailing
  <2>2. /\ at' = Len(file) + 1 /\ file[Len(file)].upto # Line
        /\ \A k \in at .. (at' - 2) : file[k].upto # Line
    BY <1>0, <2>1, NextLineFacts DEF Trailing
  <2>3. Imported'
    <3>1. \A i \in 1 .. Len(rows) : RowBefore(i, at)'
      BY <1>0, <2>1, <2>2 DEF Imported, RowBefore
    <3>2. ASSUME NEW k \in 1 .. Len(file), file[k].upto = Line
          PROVE  \E i \in 1 .. Len(rows) : rows[i] = file[k].entry
      <4>1. k < at
        <5> SUFFICES ASSUME k >= at PROVE FALSE
          BY <1>0
        <5>1. k # Len(file)
          BY <2>2, <3>2
        <5>2. k \in at .. (at' - 2)
          BY <1>0, <2>2, <5>1
        <5> QED
          BY <2>2, <3>2, <5>2
      <4> QED
        BY <2>1, <3>2, <4>1 DEF Imported
    <3> QED
      BY <2>1, <3>1, <3>2 DEF Imported
  <2> QED
    BY <2>1, <2>3 DEF RowsOnce, RowsInFile, RowBefore, Shown, RefusesOnlyMergedLines, Merged
<1>6. CASE RefuseLine
  <2>1. /\ phase' = "down" /\ at \in 1 .. Len(file) /\ ~Parses(at) /\ ~Trailing(at)
        /\ UNCHANGED <<file, rows, removed, known>>
    BY <1>0, <1>6 DEF RefuseLine
  <2>2. file[at].upto # Line /\ at # Len(file)
    <3>1. file[at].upto # Line
      BY <2>1 DEF Parses
    <3>2. ASSUME at = Len(file) PROVE FALSE
      <4>1. NextLine(at) \in (at + 1) .. (Len(file) + 1)
        BY <1>0, <2>1, NextLineFacts
      <4>2. NextLine(at) = Len(file) + 1
        BY <1>0, <3>2, <4>1
      <4> QED
        BY <2>1, <3>1, <3>2, <4>2 DEF Trailing
    <3> QED
      BY <3>1, <3>2
  <2>3. Merged'
    BY <1>0, <2>1, <2>2 DEF Merged
  <2> QED
    BY <2>1, <2>3 DEF Imported, RowsOnce, RowsInFile, RowBefore, Shown, RefusesOnlyMergedLines
<1>7. ASSUME NEW e \in Entry, file' = file \/ Grows(e),
             UNCHANGED <<rows, refused, removed, known>>,
             phase' # "fill", phase' = "serve" => phase = "serve"
      PROVE  ViewInv'
  <2>1. /\ Merged => Merged'
        /\ \A x : (\E k \in 1 .. Len(file) : k < Len(file) + 1 /\ file[k].entry = x
                                            /\ file[k].upto >= Json)
             => \E k \in 1 .. Len(file') : k < Len(file') + 1 /\ file'[k].entry = x
                                         /\ file'[k].upto >= Json
    BY <1>0, <1>7, LinesStay
  <2>2. RowsInFile'
    BY <1>7, <2>1 DEF RowsInFile, RowBefore
  <2> QED
    BY <1>7, <2>1, <2>2 DEF Imported, RowsOnce, Shown, RefusesOnlyMergedLines
<1>8. ASSUME file' = file, UNCHANGED <<rows, refused, removed, known>>,
             phase' # "fill", phase' = "serve" => phase = "serve"
      PROVE  ViewInv'
  BY <1>8 DEF Imported, RowsOnce, RowsInFile, RowBefore, Shown, RefusesOnlyMergedLines, Merged
<1>9. ASSUME NEW c \in Client, Appends(c) PROVE ViewInv'
  <2>1. file' = file
    BY <1>9 DEF Appends, ClientStep, StartAppend, Lock, InheritsError, Submit, Flush, DropAppend
  <2> QED
    BY <1>8, <1>9, <2>1 DEF Appends
<1>10. ASSUME NEW h \in Handle, Pool(h) PROVE ViewInv'
  <2>1. op[h] \in Entry
    BY <1>0, <1>10 DEF Pool, PoolStep, WriteLine, WriteShort, FileTypeOK
  <2>2. file' = file \/ Grows(op[h])
    BY <1>10 DEF Pool, PoolStep, WriteLine, WriteShort, Wrote, Grows, Part, Json, Line
  <2> QED
    BY <1>7, <1>10, <2>1, <2>2 DEF Pool
<1>11. CASE Crash
  <2>1. CASE file' = file
    BY <1>8, <1>11, <2>1 DEF Crash
  <2>2. ASSUME NEW h \in Handle, NEW n \in Part .. Json, op[h] # NoEntry, file' = Wrote(op[h], n)
        PROVE  ViewInv'
    <3>1. op[h] \in Entry
      BY <1>0, <2>2 DEF FileTypeOK
    <3>2. Grows(op[h])
      <4>1. n \in Part .. Line /\ n # 0
        BY <2>2 DEF Part, Json, Line
      <4> QED
        BY <2>2, <4>1 DEF Grows, Wrote
    <3> QED
      BY <1>7, <1>11, <3>1, <3>2 DEF Crash
  <2> QED
    BY <1>11, <2>1, <2>2 DEF Crash, CrashFile
<1>12. CASE RemoveFile
  BY <1>12 DEF RemoveFile, Imported, RowsOnce, RowsInFile, Shown, RefusesOnlyMergedLines
<1> QED
  BY <1>1, <1>2, <1>3, <1>4, <1>5, <1>6, <1>9, <1>10, <1>11, <1>12 DEF Next

-----------------------------------------------------------------------------
(* The answer *)

\* The digits of a timestamp end at a unit, and it is the last instant that
\* begins with them if that is the smallest.
LEMMA UnitFacts ==
    ASSUME NEW t \in Nat
    PROVE  Unit(t) \in Nat \ {0} /\ TextEnd(t) \in Nat /\ t <= TextEnd(t)
           /\ TextEnd(t) = t + Unit(t) - 1
<1>1. PICK w \in Units : \A u \in Units : u <= w
  BY LedgerViewAssumption
<1>2. Units \subseteq Nat \ {0} /\ 1 \in Units /\ w \in Nat
  BY LedgerViewAssumption
<1> DEFINE Fits == {u \in Units : t % u = 0}
           S == {w - u : u \in Fits}
<1>3. 1 \in Fits
  BY <1>2
<1>4. S \subseteq Nat /\ S # {}
  BY <1>1, <1>2, <1>3
<1>5. PICK s \in S : \A i \in S : s <= i
  <2> HIDE DEF S
  <2> QED
    BY <1>4, SmallestNumber
<1>6. PICK u \in Fits : s = w - u
  OBVIOUS
<1>7. ASSUME NEW v \in Fits PROVE v <= u
  <2>1. w - u <= w - v
    BY <1>5, <1>6
  <2> QED
    BY <1>2, <2>1
<1>8. Unit(t) \in Units
  BY <1>6, <1>7 DEF Unit
<1>9. Unit(t) \in Nat \ {0}
  BY <1>2, <1>8
<1>10. TextEnd(t) = t + Unit(t) - 1
  BY DEF TextEnd
<1> HIDE DEF Fits, S
<1>11. \A k \in Nat \ {0} : t + k - 1 \in Nat /\ t <= t + k - 1
  OBVIOUS
<1> QED
  BY <1>9, <1>10, <1>11

\* One timestamp's text sorts after the other's unless they are equal; what does
\* not sort after t is later by less than the unit t's digits end at.
LEMMA TextOrder ==
    ASSUME NEW s \in Nat, NEW t \in Nat
    PROVE  /\ SortsAfter(s, t) => ~SortsAfter(t, s) /\ s # t
           /\ SortsAfter(s, t) \/ SortsAfter(t, s) \/ s = t
           /\ ~SortsAfter(s, t) => s - t < Unit(t)
           /\ \A r \in Nat : SortsAfter(r, s) /\ SortsAfter(s, t) => SortsAfter(r, t)
<1>1. /\ Unit(s) \in Nat \ {0} /\ TextEnd(s) \in Nat /\ s <= TextEnd(s)
      /\ TextEnd(s) = s + Unit(s) - 1
  BY UnitFacts
<1>2. /\ Unit(t) \in Nat \ {0} /\ TextEnd(t) \in Nat /\ t <= TextEnd(t)
      /\ TextEnd(t) = t + Unit(t) - 1
  BY UnitFacts
<1>3. SortsAfter(s, t) => ~SortsAfter(t, s)
  BY <1>1, <1>2 DEF SortsAfter
<1>4. SortsAfter(s, t) => s # t
  BY <1>3
<1>5. SortsAfter(s, t) \/ SortsAfter(t, s) \/ s = t
  BY <1>1, <1>2 DEF SortsAfter
<1>6. ~SortsAfter(s, t) => s - t < Unit(t)
  BY <1>1, <1>2 DEF SortsAfter
<1>7. ASSUME NEW r \in Nat, SortsAfter(r, s), SortsAfter(s, t)
      PROVE  SortsAfter(r, t)
  <2>1. Unit(r) \in Nat \ {0} /\ TextEnd(r) \in Nat
    BY UnitFacts
  <2> QED
    BY <1>1, <1>2, <1>7, <2>1 DEF SortsAfter
<1> QED
  BY <1>3, <1>4, <1>5, <1>6, <1>7

\* ORDER BY numbers the rows: k rows come before the (k+1)-st, and of two rows
\* the one whose ts sorts after the other's comes first.
LEMMA RowOrder ==
    ASSUME rows \in Seq(Entry)
    PROVE  /\ \A i \in 1 .. Len(rows) : Cardinality(Above(i)) \in 0 .. (Len(rows) - 1)
           /\ \A i, j \in 1 .. Len(rows) :
                i \in Above(j) => Cardinality(Above(i)) < Cardinality(Above(j))
           /\ \A i, j \in 1 .. Len(rows) :
                Cardinality(Above(i)) = Cardinality(Above(j)) => i = j
           /\ \A k \in 1 .. Len(rows) :
                \E i \in 1 .. Len(rows) : Cardinality(Above(i)) = k - 1
<1> DEFINE n == Len(rows)
           Ix == 1 .. n
           Before(i) == Cardinality(Above(i))
           T(i) == Ts[rows[i]]
<1>0. n \in Nat
  BY LenProperties
<1>1. n \in Nat /\ \A i \in Ix : T(i) \in Nat
  <2>1. \A i \in Ix : rows[i] \in Entry
    BY ElementOfSeq
  <2> QED
    BY <1>0, <2>1, LedgerViewAssumption
<1>2. IsFiniteSet(Ix) /\ Cardinality(Ix) = n
  <2> HIDE DEF n
  <2>1. 1 \in Int /\ n \in Int /\ (1 > n \/ n - 1 + 1 = n)
    BY <1>0
  <2>2. IsFiniteSet(1 .. n) /\ Cardinality(1 .. n) = (IF 1 > n THEN 0 ELSE n - 1 + 1)
    BY <2>1, FS_Interval
  <2> QED
    BY <1>0, <2>2
<1>a. \A i, j \in Ix : j \in Above(i) <=> SortsAfter(T(j), T(i)) \/ (T(j) = T(i) /\ j > i)
  BY DEF Above
<1>b. \A i \in Ix : Above(i) \subseteq Ix
  BY DEF Above
<1> HIDE DEF T
<1>3. \A i \in Ix : IsFiniteSet(Above(i)) /\ Before(i) \in 0 .. (n - 1)
  <2> SUFFICES ASSUME NEW i \in Ix PROVE IsFiniteSet(Above(i)) /\ Before(i) \in 0 .. (n - 1)
    OBVIOUS
  <2>1. Above(i) \in SUBSET (Ix \ {i})
    <3>1. ~(i > i) /\ ~SortsAfter(T(i), T(i))
      BY <1>1, TextOrder
    <3> QED
      BY <1>a, <1>b, <3>1
  <2>2. IsFiniteSet(Ix \ {i}) /\ Cardinality(Ix \ {i}) = n - 1
    BY <1>2, FS_RemoveElement
  <2>3. IsFiniteSet(Above(i)) /\ Cardinality(Above(i)) <= n - 1
    BY <2>1, <2>2, FS_Subset
  <2>4. Cardinality(Above(i)) \in Nat
    BY <2>3, FS_CardinalityType
  <2> QED
    BY <1>1, <2>3, <2>4
<1>4. ASSUME NEW i \in Ix, NEW j \in Ix, i \in Above(j)
      PROVE  Before(i) < Before(j)
  <2>1. i \notin Above(i)
    <3>1. ~(i > i) /\ ~SortsAfter(T(i), T(i))
      BY <1>1, TextOrder
    <3> QED
      BY <1>a, <3>1
  <2>2. ASSUME NEW k \in Ix, k \in Above(i) PROVE k \in Above(j)
    <3>1. SortsAfter(T(k), T(i)) \/ (T(k) = T(i) /\ k > i)
      BY <1>a, <2>2
    <3>2. SortsAfter(T(i), T(j)) \/ (T(i) = T(j) /\ i > j)
      BY <1>a, <1>4
    <3>3. SortsAfter(T(k), T(i)) /\ SortsAfter(T(i), T(j)) => SortsAfter(T(k), T(j))
      BY <1>1, TextOrder
    <3>4. k > i /\ i > j => k > j
      BY <1>1
    <3>5. SortsAfter(T(k), T(j)) \/ (T(k) = T(j) /\ k > j)
      BY <3>1, <3>2, <3>3, <3>4
    <3> QED
      BY <1>a, <3>5
  <2>3. Above(i) \in SUBSET Above(j)
    BY <1>b, <2>2
  <2>4. Before(i) <= Before(j) /\ Before(i) # Before(j)
    BY <1>3, <1>4, <2>1, <2>3, FS_Subset
  <2> QED
    BY <1>1, <1>3, <2>4
<1>5. ASSUME NEW i \in Ix, NEW j \in Ix, Before(i) = Before(j)
      PROVE  i = j
  <2>1. ~(i \in Above(j)) /\ ~(j \in Above(i))
    BY <1>1, <1>3, <1>4, <1>5
  <2>2. SortsAfter(T(i), T(j)) \/ SortsAfter(T(j), T(i)) \/ T(i) = T(j)
    BY <1>1, TextOrder
  <2>3. i > j \/ j > i \/ i = j
    BY <1>1
  <2> QED
    BY <1>a, <2>1, <2>2, <2>3
<1>6. \A k \in Ix : \E i \in Ix : Before(i) = k - 1
  <2> DEFINE rank == [i \in Ix |-> Before(i) + 1]
  <2>1. rank \in [Ix -> Ix]
    BY <1>1, <1>3
  <2>2. \A i, j \in Ix : rank[i] = rank[j] => i = j
    <3>1. \A i \in Ix : rank[i] = Before(i) + 1 /\ Before(i) \in Nat
      BY <1>1, <1>3
    <3> HIDE DEF rank, Before, Ix
    <3> QED
      BY <1>5, <3>1
  <2>3. rank \in Surjection(Ix, Ix)
    <3> HIDE DEF rank, Ix
    <3>1. rank \in Injection(Ix, Ix)
      BY <2>1, <2>2, Fun_IsInj
    <3> QED
      BY <1>2, <3>1, FS_Injection
  <2>4. \A k \in Ix : \E i \in Ix : rank[i] = k
    <3> HIDE DEF rank, Ix
    <3> QED
      BY <2>3, Fun_SurjectionProperties
  <2>5. \A i \in Ix : rank[i] = Before(i) + 1 /\ Before(i) \in Int
    BY <1>1, <1>3
  <2>6. \A k \in Ix : k \in Int
    OBVIOUS
  <2> HIDE DEF rank, Before, Ix
  <2>7. ASSUME NEW k \in Ix PROVE \E i \in Ix : Before(i) = k - 1
    <3>1. PICK i \in Ix : rank[i] = k
      BY <2>4
    <3>2. Before(i) = k - 1
      BY <2>5, <2>6, <3>1
    <3> QED
      BY <3>2
  <2> QED
    BY <2>7
<1> QED
  BY <1>3, <1>4, <1>5, <1>6

\* What recent answers.
LEMMA RecentFacts ==
    ASSUME rows \in Seq(Entry), RowsOnce, NEW n \in Nat
    PROVE  /\ Recent(n) \in Seq(Entry)
           /\ \A i, j \in 1 .. Len(Recent(n)) :
                i < j => Recent(n)[i] # Recent(n)[j] /\ NotNewer(Recent(n)[j], Recent(n)[i])
           /\ \A q \in 1 .. Len(rows), i \in 1 .. Len(Recent(n)) :
                \/ \E k \in 1 .. Len(Recent(n)) : Recent(n)[k] = rows[q]
                \/ NotNewer(rows[q], Recent(n)[i])
<1> DEFINE m == IF n < Len(rows) THEN n ELSE Len(rows)
           Row(k) == CHOOSE i \in 1 .. Len(rows) : Cardinality(Above(i)) = k - 1
<1>1. /\ Len(rows) \in Nat /\ m \in Nat /\ m <= Len(rows)
      /\ \A i \in 1 .. Len(rows) : rows[i] \in Entry
  BY LenProperties, ElementOfSeq
<1>2. \A k \in 1 .. Len(rows) : Row(k) \in 1 .. Len(rows) /\ Cardinality(Above(Row(k))) = k - 1
  BY RowOrder
<1>3. Recent(n) = [k \in 1 .. m |-> rows[Row(k)]]
  BY DEF Recent
<1>4. /\ \A k \in 1 .. m : k \in 1 .. Len(rows) /\ Recent(n)[k] = rows[Row(k)]
      /\ DOMAIN Recent(n) = 1 .. m
  <2> HIDE DEF Row
  <2> QED
    BY <1>1, <1>3
<1>5. Recent(n) \in [1 .. m -> Entry]
  <2> HIDE DEF Row
  <2> QED
    BY <1>1, <1>2, <1>3, <1>4
<1>6. Recent(n) \in Seq(Entry) /\ Len(Recent(n)) = m
  <2> HIDE DEF m
  <2>1. Recent(n) \in Seq(Entry)
    BY <1>1, <1>5, SeqDef
  <2> QED
    BY <1>1, <1>4, <2>1, LenProperties
<1> HIDE DEF Row, m
<1>7. ASSUME NEW i \in 1 .. Len(rows), NEW j \in 1 .. Len(rows),
             Cardinality(Above(i)) < Cardinality(Above(j))
      PROVE  rows[i] # rows[j] /\ NotNewer(rows[j], rows[i])
  <2>1. Cardinality(Above(i)) \in Nat /\ Cardinality(Above(j)) \in Nat
    BY <1>1, RowOrder
  <2>2. j \notin Above(i)
    BY <1>7, <2>1, RowOrder
  <2>3. rows[i] # rows[j]
    BY <1>7, <2>1 DEF RowsOnce
  <2>4. Ts[rows[i]] \in Nat /\ Ts[rows[j]] \in Nat
    BY <1>1, LedgerViewAssumption
  <2>5. ~SortsAfter(Ts[rows[j]], Ts[rows[i]])
    BY <2>2 DEF Above
  <2> QED
    BY <2>3, <2>4, <2>5, TextOrder DEF NotNewer
<1>8. ASSUME NEW i \in 1 .. m, NEW j \in 1 .. m, i < j
      PROVE  Recent(n)[i] # Recent(n)[j] /\ NotNewer(Recent(n)[j], Recent(n)[i])
  <2>1. i \in 1 .. Len(rows) /\ j \in 1 .. Len(rows) /\ i - 1 < j - 1
    BY <1>1, <1>8
  <2>2. rows[Row(i)] # rows[Row(j)] /\ NotNewer(rows[Row(j)], rows[Row(i)])
    BY <1>2, <1>7, <2>1
  <2> QED
    BY <1>4, <2>2
<1>9. ASSUME NEW q \in 1 .. Len(rows), NEW i \in 1 .. m
      PROVE  \/ \E k \in 1 .. m : Recent(n)[k] = rows[q]
             \/ NotNewer(rows[q], Recent(n)[i])
  <2> DEFINE k == Cardinality(Above(q)) + 1
  <2>1. k \in 1 .. Len(rows) /\ k - 1 = Cardinality(Above(q))
    <3>1. Cardinality(Above(q)) \in 0 .. (Len(rows) - 1)
      BY RowOrder
    <3> QED
      BY <1>1, <3>1
  <2>2. Row(k) = q
    BY <1>2, <2>1, RowOrder
  <2>3. CASE k <= m
    BY <1>1, <1>4, <2>1, <2>2, <2>3
  <2>4. CASE k > m
    <3>1. i \in 1 .. Len(rows) /\ i - 1 < k - 1
      BY <1>1, <2>1, <2>4
    <3>2. NotNewer(rows[q], rows[Row(i)])
      BY <1>2, <1>7, <2>1, <2>2, <3>1
    <3> QED
      BY <1>4, <3>2
  <2> QED
    BY <1>1, <2>1, <2>3, <2>4
<1> QED
  BY <1>6, <1>8, <1>9

\* An answer is given while the server serves, and the view does not change
\* then.
AnswerInv ==
    /\ answer \in Seq(Entry)
    /\ phase # "serve" => answer = <<>>
    /\ NewestFirstToTheDigit

LEMMA InitAnswer == Init => AnswerInv
<1> SUFFICES ASSUME Init PROVE AnswerInv
  OBVIOUS
<1>1. answer = <<>> /\ Len(answer) = 0 /\ answer \in Seq(Entry)
  BY EmptySeq DEF Init
<1> QED
  BY <1>1 DEF AnswerInv, NewestFirstToTheDigit

LEMMA NextAnswer == TypeInv /\ ViewInv /\ AnswerInv /\ [Next]_vars => AnswerInv'
<1> SUFFICES ASSUME TypeInv, ViewInv, AnswerInv, [Next]_vars PROVE AnswerInv'
  OBVIOUS
<1> USE DEF viewVars
<1>0. /\ <<>> \in Seq(Entry) /\ Len(<<>>) = 0
      /\ rows \in Seq(Entry) /\ RowsOnce /\ answer \in Seq(Entry)
  BY EmptySeq DEF TypeInv, ViewInv, AnswerInv
<1>1. ASSUME answer' = <<>> PROVE AnswerInv'
  <2>1. answer' \in Seq(Entry) /\ Len(answer') = 0
    BY <1>0, <1>1
  <2> QED
    BY <1>1, <2>1 DEF AnswerInv, NewestFirstToTheDigit
<1>2. ASSUME answer' = answer, phase # "serve" PROVE AnswerInv'
  BY <1>1, <1>2 DEF AnswerInv
<1>3. ASSUME answer' = answer, rows' = rows, phase = "serve", phase' = "serve" PROVE AnswerInv'
  BY <1>3 DEF AnswerInv, NewestFirstToTheDigit
<1>4. CASE UNCHANGED vars
  BY <1>2, <1>3, <1>4 DEF vars
<1>5. CASE Boot \/ SyncMissing \/ SyncRead \/ SyncClear \/ ImportLine \/ SkipTrailing
           \/ RefuseLine \/ SyncDone \/ RemoveFile
  <2>1. answer' = answer /\ phase # "serve"
    BY <1>5 DEF Boot, SyncMissing, SyncRead, SyncClear, ImportLine, SkipTrailing, RefuseLine,
                SyncDone, RemoveFile
  <2> QED
    BY <1>2, <2>1
<1>6. ASSUME NEW n \in Limits \union {-1}, Query(n) PROVE AnswerInv'
  <2>1. Clamped(n) \in Nat
    BY LedgerViewAssumption DEF Clamped
  <2>2. /\ answer' = Recent(Clamped(n)) /\ rows' = rows /\ phase' = "serve"
    BY <1>6 DEF Query
  <2>3. /\ answer' \in Seq(Entry)
        /\ \A i, j \in 1 .. Len(answer') :
             i < j => answer'[i] # answer'[j] /\ NotNewer(answer'[j], answer'[i])
        /\ \A q \in 1 .. Len(rows), i \in 1 .. Len(answer') :
             \/ \E k \in 1 .. Len(answer') : answer'[k] = rows[q]
             \/ NotNewer(rows[q], answer'[i])
    BY <1>0, <2>1, <2>2, RecentFacts
  <2>4. ASSUME NEW i \in 1 .. Len(answer'), NEW e \in Range(rows) \ Range(answer')
        PROVE  NotNewer(e, answer'[i])
    <3>1. /\ DOMAIN answer' = 1 .. Len(answer')
          /\ DOMAIN rows = 1 .. Len(rows)
      BY <1>0, <2>3, LenProperties
    <3>2. PICK q \in 1 .. Len(rows) : rows[q] = e
      BY <2>4, <3>1 DEF Range
    <3>3. ~ \E k \in 1 .. Len(answer') : answer'[k] = rows[q]
      BY <2>4, <3>1, <3>2 DEF Range
    <3> QED
      BY <2>3, <3>2, <3>3
  <2> QED
    BY <2>2, <2>3, <2>4 DEF AnswerInv, NewestFirstToTheDigit, NotNewer
<1>7. ASSUME NEW c \in Client, Appends(c) PROVE AnswerInv'
  BY <1>3, <1>7 DEF Appends
<1>8. ASSUME NEW h \in Handle, Pool(h) PROVE AnswerInv'
  BY <1>3, <1>8 DEF Pool
<1>9. CASE Crash
  BY <1>1, <1>9 DEF Crash
<1> QED
  BY <1>4, <1>5, <1>6, <1>7, <1>8, <1>9 DEF Next

-----------------------------------------------------------------------------
(* What the runs check *)

LEMMA Always == Spec => [](TypeInv /\ FileInv /\ ViewInv /\ AnswerInv)
<1>1. Init => TypeInv /\ FileInv /\ ViewInv /\ AnswerInv
  BY InitTypes, InitFile, InitView, InitAnswer
<1>2. TypeInv /\ FileInv /\ ViewInv /\ AnswerInv /\ [Next]_vars
        => (TypeInv /\ FileInv /\ ViewInv /\ AnswerInv)'
  BY NextTypes, NextFile, NextView, NextAnswer
<1> QED
  BY <1>1, <1>2, PTL DEF Spec

\* Whatever crashed, was dropped or met a full disk before the restart: every
\* entry that LedgerHandle::append acknowledged is in the view that
\* sync_from_jsonl leaves, if Store::open succeeds.
THEOREM AckedSurvives == Spec => []AckedEntriesShown
<1>1. TypeInv /\ ViewInv => AckedEntriesShown
  <2> SUFFICES ASSUME TypeInv, ViewInv, phase = "serve", NEW e \in known PROVE e \in Range(rows)
    BY DEF AckedEntriesShown
  <2>1. PICK i \in 1 .. Len(rows) : rows[i] = e
    BY DEF ViewInv, Shown
  <2>2. DOMAIN rows = 1 .. Len(rows)
    BY LenProperties DEF TypeInv
  <2> QED
    BY <2>1, <2>2 DEF Range
<1> QED
  BY <1>1, Always, PTL

\* However often Store::open is repeated, interrupted between its statements
\* or refused: a row is in ledger_view once, and its text is in the file.
THEOREM RowsAreTheFile == Spec => []RowsAreLines
<1>1. TypeInv /\ ViewInv => RowsAreLines
  BY DEF RowsAreLines, ViewInv, RowsOnce, RowsInFile, RowBefore
<1> QED
  BY <1>1, Always, PTL

\* LedgerParse needs a torn line that a later append has continued; a trailing
\* partial line alone never keeps the server from starting.
THEOREM TrailingIsTolerated == Spec => []RefusesOnlyMergedLines
<1>1. ViewInv => RefusesOnlyMergedLines
  BY DEF ViewInv
<1> QED
  BY <1>1, Always, PTL

\* The state of the file, the view and the route keeps its shape: sync_from_jsonl
\* never points past the file's end, and the answer is made of entries.
THEOREM LedgerTypes == Spec => []TypeOK
<1>1. TypeInv /\ AnswerInv => TypeOK
  BY DEF TypeInv, AnswerInv, TypeOK
<1> QED
  BY <1>1, Always, PTL

\* Whatever order the appends reached the file in: what /api/ledger/recent puts
\* below an entry, or leaves out, is newer than it by less than the last digit of
\* its ts, which now_rfc3339 ends at the last digit that is not zero.
THEOREM AnswersNewestFirst == Spec => []NewestFirstToTheDigit
<1>1. AnswerInv => NewestFirstToTheDigit
  BY DEF AnswerInv
<1> QED
  BY <1>1, Always, PTL
=============================================================================
