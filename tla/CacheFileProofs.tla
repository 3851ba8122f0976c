-------------------------- MODULE CacheFileProofs --------------------------
(***************************************************************************)
(* For any number of clients, answers, inodes and blocks: as long as puts  *)
(* of a key do not overlap, the two files of a cache key act as an atomic  *)
(* register.                                                               *)
(***************************************************************************)
EXTENDS CacheFile, TLAPS

-----------------------------------------------------------------------------
(* The inductive invariants *)

IsWhole(blocks) == \E a \in Answer : blocks = Whole(a)

Writing == {"write", "orphan"}

\* A client at work on a file has it open.
HandleInv(c) ==
    /\ pc[c] = "read" => fd[c] \in Inode
    /\ pc[c] \in Writing =>
         fd[c] \in Inode /\ answer[c] \in Answer /\ pos[c] \in Block

\* Holds however puts overlap.
BaseInv == TypeOK /\ \A c \in Client : HandleInv(c)

\* Only one client is inside put.
Exclusive ==
    \A c, o \in Client : pc[c] \in Putting /\ pc[o] \in Putting => c = o

\* The entry is complete, and no put can reach it through the temporary name.
FinalInv == final # NoFile => final # tmp /\ IsWhole(content[final])

\* A reader keeps a complete inode that no put can reach, replaced or not.
ReaderInv(c) ==
    pc[c] = "read" =>
        /\ fd[c] # tmp
        /\ IsWhole(content[fd[c]])
        /\ \A b \in Block : b < pos[c] => buf[c][b] = content[fd[c]][b]

\* The writer's handle is the temporary file, filled up to its position.
WriterInv(c) ==
    pc[c] \in Writing =>
        /\ fd[c] = tmp
        /\ \A b \in Block : b < pos[c] => content[fd[c]][b] = answer[c]

\* Before the rename the temporary file is complete.
FilledInv(c) ==
    pc[c] \in {"chmod", "rename"} => tmp # NoFile /\ IsWhole(content[tmp])

ClientInv(c) ==
    ReaderInv(c) /\ WriterInv(c) /\ FilledInv(c) /\ got[c] # Garbled

\* Holds while puts do not overlap.
SerialInv == BaseInv /\ Exclusive /\ FinalInv /\ \A c \in Client : ClientInv(c)

-----------------------------------------------------------------------------
(* Facts about the operators *)

LEMMA WholeFacts ==
    /\ Empty \in Contents
    /\ \A a \in Answer : Whole(a) \in Contents
BY DEF Empty, Whole, Contents

\* A complete file parses to the answer it is full of.
LEMMA ParsedWhole ==
    ASSUME NEW blocks, IsWhole(blocks)
    PROVE  /\ Parsed(blocks) \in Answer
           /\ Parsed(blocks) # Garbled
<1>1. PICK a \in Answer : blocks = Whole(a)
  BY DEF IsWhole
<1>2. blocks[1] = a
  BY <1>1, CacheFileAssumption DEF Whole, Block
<1> QED
  BY <1>1, <1>2, CacheFileAssumption DEF Parsed

LEMMA ParsedType ==
    ASSUME NEW blocks
    PROVE  Parsed(blocks) \in Answer \union {Garbled}
<1>1. CASE IsWhole(blocks)
  BY <1>1, ParsedWhole
<1>2. CASE ~IsWhole(blocks)
  BY <1>2 DEF IsWhole, Parsed
<1> QED
  BY <1>1, <1>2

-----------------------------------------------------------------------------
(* Types, whether or not puts overlap *)

LEMMA InitBase == Init => BaseInv
BY WholeFacts, CacheFileAssumption
   DEF Init, BaseInv, TypeOK, HandleInv, PC, Writing

LEMMA ReadBlockBase ==
    ASSUME BaseInv, NEW c \in Client, ReadBlock(c)
    PROVE  BaseInv'
<1> USE DEF BaseInv, TypeOK
<1>1. /\ fd[c] \in Inode
      /\ pos[c] \in Block /\ pos[c] + 1 \in 1 .. (Blocks + 1)
  BY CacheFileAssumption DEF HandleInv, ReadBlock, Block
<1>2. content[fd[c]][pos[c]] \in Answer \union {Missing}
  BY <1>1 DEF Contents
<1>3. [buf[c] EXCEPT ![pos[c]] = content[fd[c]][pos[c]]] \in Contents
  BY <1>2 DEF Contents
<1>4. /\ buf' \in [Client -> Contents]
      /\ pos' \in [Client -> 1 .. (Blocks + 1)]
  BY <1>1, <1>3 DEF ReadBlock
<1>5. \A o \in Client : HandleInv(o)'
  BY DEF HandleInv, ReadBlock, Writing
<1> QED
  BY <1>4, <1>5 DEF ReadBlock, files

LEMMA OpenTmpBase ==
    ASSUME BaseInv, NEW c \in Client, NEW a \in Answer, OpenTmp(c, a)
    PROVE  BaseInv'
<1> USE DEF BaseInv, TypeOK
<1>1. 1 \in Block /\ 1 \in 1 .. (Blocks + 1)
  BY CacheFileAssumption DEF Block
<1>2. PICK i \in Inode : /\ tmp' = i
                         /\ fd' = [fd EXCEPT ![c] = i]
                         /\ content' = [content EXCEPT ![i] = Empty]
  BY DEF OpenTmp
<1>3. TypeOK'
  BY <1>1, <1>2, WholeFacts DEF OpenTmp, Goto, PC
<1>4. \A o \in Client : HandleInv(o)'
  BY <1>1, <1>2 DEF HandleInv, OpenTmp, Goto, Writing
<1> QED
  BY <1>3, <1>4

\* What a block written changes.
LEMMA WriteBlockFacts ==
    ASSUME BaseInv, NEW c \in Client, WriteBlock(c)
    PROVE  /\ content' \in [Inode -> Contents]
           /\ fd[c] \in Inode /\ answer[c] \in Answer /\ pos[c] \in Block
           /\ content'[fd[c]] = [content[fd[c]] EXCEPT ![pos[c]] = answer[c]]
           /\ \A i \in Inode : i # fd[c] => content'[i] = content[i]
           /\ pos' \in [Client -> 1 .. (Blocks + 1)]
           /\ pos'[c] = pos[c] + 1
           /\ pos[c] < Blocks => pc' = pc /\ fd' = fd
           /\ pos[c] >= Blocks =>
                /\ pc'[c] = IF pc[c] = "write" THEN "chmod" ELSE "idle"
                /\ Close(c)
           /\ \A o \in Client \ {c} : pc'[o] = pc[o] /\ fd'[o] = fd[o]
           /\ pc' \in [Client -> PC]
<1> USE DEF BaseInv, TypeOK
<1>1. fd[c] \in Inode /\ answer[c] \in Answer /\ pos[c] \in Block
  BY DEF HandleInv, WriteBlock, Writing
<1>2. [content[fd[c]] EXCEPT ![pos[c]] = answer[c]] \in Contents
  BY <1>1 DEF Contents
<1>3. /\ content' \in [Inode -> Contents]
      /\ content'[fd[c]] = [content[fd[c]] EXCEPT ![pos[c]] = answer[c]]
      /\ \A i \in Inode : i # fd[c] => content'[i] = content[i]
  BY <1>1, <1>2 DEF WriteBlock
<1>4. pos[c] + 1 \in 1 .. (Blocks + 1)
  BY <1>1, CacheFileAssumption DEF Block
<1>5. pos' \in [Client -> 1 .. (Blocks + 1)] /\ pos'[c] = pos[c] + 1
  BY <1>4 DEF WriteBlock
<1>6. /\ pos[c] < Blocks => pc' = pc /\ fd' = fd
      /\ pos[c] >= Blocks =>
           /\ pc'[c] = IF pc[c] = "write" THEN "chmod" ELSE "idle"
           /\ Close(c)
      /\ \A o \in Client \ {c} : pc'[o] = pc[o] /\ fd'[o] = fd[o]
      /\ pc' \in [Client -> PC]
  BY <1>1, CacheFileAssumption DEF WriteBlock, Goto, Close, PC, Block
<1> QED
  BY <1>1, <1>3, <1>5, <1>6

LEMMA WriteBlockBase ==
    ASSUME BaseInv, NEW c \in Client, WriteBlock(c)
    PROVE  BaseInv'
<1>1. /\ content' \in [Inode -> Contents]
      /\ pos' \in [Client -> 1 .. (Blocks + 1)]
      /\ pc' \in [Client -> PC]
      /\ \A o \in Client \ {c} : pc'[o] = pc[o] /\ fd'[o] = fd[o]
  BY WriteBlockFacts
<1>2. fd' \in [Client -> Inode \union {NoFile}]
  BY DEF BaseInv, TypeOK, WriteBlock, Close
<1>3. TypeOK'
  BY <1>1, <1>2 DEF BaseInv, TypeOK, WriteBlock
<1>4. \A o \in Client : o # c => HandleInv(o)'
  <2>1. \A o \in Client \ {c} : pos'[o] = pos[o] /\ answer' = answer
    BY DEF BaseInv, TypeOK, WriteBlock
  <2> QED
    BY <1>1, <2>1 DEF BaseInv, HandleInv
<1>5. HandleInv(c)'
  <2>1. /\ fd[c] \in Inode /\ answer[c] \in Answer /\ pos[c] \in Block
        /\ pos'[c] = pos[c] + 1
        /\ pos[c] < Blocks => pc' = pc /\ fd' = fd
        /\ pos[c] >= Blocks =>
             pc'[c] = IF pc[c] = "write" THEN "chmod" ELSE "idle"
    BY WriteBlockFacts
  <2>2. CASE pos[c] < Blocks
    <3>1. pos[c] + 1 \in Block
      BY <2>1, <2>2, CacheFileAssumption DEF Block
    <3>2. pc[c] # "read" /\ answer' = answer
      BY DEF WriteBlock
    <3> QED
      BY <2>1, <2>2, <3>1, <3>2 DEF HandleInv
  <2>3. CASE pos[c] >= Blocks
    BY <2>1, <2>3 DEF HandleInv, Writing
  <2> QED
    BY <2>1, <2>2, <2>3, CacheFileAssumption DEF Block
<1> QED
  BY <1>3, <1>4, <1>5 DEF BaseInv

LEMMA NextBase == BaseInv /\ [Next]_vars => BaseInv'
<1> SUFFICES ASSUME BaseInv, [Next]_vars PROVE BaseInv'
  OBVIOUS
<1> USE DEF BaseInv, TypeOK, HandleInv, Writing, Putting, PC, Goto, Close,
            Report, files, clients, vars
<1>1. CASE UNCHANGED vars
  BY <1>1
<1>2. CASE Crash
  BY <1>2, CacheFileAssumption DEF Crash
<1>3. ASSUME NEW c \in Client, GetOpen(c) PROVE BaseInv'
  <2>1. 1 \in 1 .. (Blocks + 1)
    BY CacheFileAssumption
  <2> QED
    BY <1>3, <2>1, WholeFacts DEF GetOpen
<1>4. ASSUME NEW c \in Client, GetMiss(c) PROVE BaseInv'
  BY <1>4 DEF GetMiss
<1>5. ASSUME NEW c \in Client, GetDone(c) PROVE BaseInv'
  BY <1>5, ParsedType DEF GetDone
<1>6. ASSUME NEW c \in Client, NoAnswer(c) PROVE BaseInv'
  BY <1>6 DEF NoAnswer
<1>7. ASSUME NEW c \in Client, Chmod(c) PROVE BaseInv'
  BY <1>7 DEF Chmod
<1>8. ASSUME NEW c \in Client, Rename(c) PROVE BaseInv'
  BY <1>8 DEF Rename
<1>9. ASSUME NEW c \in Client, PutFails(c) PROVE BaseInv'
  BY <1>9 DEF PutFails
<1>10. ASSUME NEW c \in Client, Abandon(c) PROVE BaseInv'
  BY <1>10 DEF Abandon
<1> QED
  BY <1>1, <1>2, <1>3, <1>4, <1>5, <1>6, <1>7, <1>8, <1>9, <1>10,
     ReadBlockBase, OpenTmpBase, WriteBlockBase
     DEF Next, Step

-----------------------------------------------------------------------------
(* Puts that do not overlap *)

LEMMA InitSerial == Init => SerialInv
BY InitBase, CacheFileAssumption
   DEF Init, SerialInv, Exclusive, FinalInv, ClientInv, ReaderInv, WriterInv,
       FilledInv, Writing, Putting

LEMMA GetOpenSerial ==
    ASSUME SerialInv, NEW c \in Client, GetOpen(c), BaseInv'
    PROVE  SerialInv'
<1>1. /\ pc' = [pc EXCEPT ![c] = "read"] /\ fd' = [fd EXCEPT ![c] = final]
      /\ pos'[c] = 1 /\ \A o \in Client \ {c} : pos'[o] = pos[o]
      /\ \A o \in Client \ {c} : buf'[o] = buf[o]
      /\ final # tmp /\ IsWhole(content[final])
      /\ pc \in [Client -> PC] /\ fd \in [Client -> Inode \union {NoFile}]
      /\ UNCHANGED <<got, answer, tmp, final, content>>
  BY DEF SerialInv, BaseInv, TypeOK, FinalInv, GetOpen, Goto, files
<1>2. Exclusive'
  BY <1>1 DEF SerialInv, Exclusive, Putting
<1>3. ClientInv(c)'
  <2>1. \A b \in Block : ~(b < 1)
    BY CacheFileAssumption DEF Block
  <2> QED
    BY <1>1, <2>1
       DEF SerialInv, ClientInv, ReaderInv, WriterInv, FilledInv, Writing
<1>4. \A o \in Client \ {c} : ClientInv(o)'
  BY <1>1 DEF SerialInv, ClientInv, ReaderInv, WriterInv, FilledInv
<1> QED
  BY <1>1, <1>2, <1>3, <1>4 DEF SerialInv, FinalInv

LEMMA ReadBlockSerial ==
    ASSUME SerialInv, NEW c \in Client, ReadBlock(c), BaseInv'
    PROVE  SerialInv'
<1>1. /\ pos[c] \in Block
      /\ buf[c] \in [Block -> Answer \union {Missing}]
  BY CacheFileAssumption
     DEF SerialInv, BaseInv, TypeOK, Contents, ReadBlock, Block
<1>2. /\ buf'[c] = [buf[c] EXCEPT ![pos[c]] = content[fd[c]][pos[c]]]
      /\ pos'[c] = pos[c] + 1
      /\ \A o \in Client \ {c} : buf'[o] = buf[o] /\ pos'[o] = pos[o]
      /\ UNCHANGED <<pc, got, answer, fd, tmp, final, content>>
  BY DEF SerialInv, BaseInv, TypeOK, ReadBlock, files
<1>3. ClientInv(c)'
  <2>1. ASSUME NEW b \in Block, b < pos[c] + 1
        PROVE  buf'[c][b] = content[fd[c]][b]
    <3>1. CASE b = pos[c]
      BY <1>1, <1>2, <3>1
    <3>2. CASE b # pos[c]
      <4>1. b < pos[c]
        BY <1>1, <2>1, <3>2, CacheFileAssumption DEF Block
      <4> QED
        BY <1>1, <1>2, <3>2, <4>1
           DEF SerialInv, ClientInv, ReaderInv, ReadBlock
    <3> QED
      BY <3>1, <3>2
  <2> QED
    BY <1>2, <2>1
       DEF SerialInv, ClientInv, ReaderInv, WriterInv, FilledInv, ReadBlock,
           Writing
<1>4. \A o \in Client \ {c} : ClientInv(o)'
  BY <1>2 DEF SerialInv, ClientInv, ReaderInv, WriterInv, FilledInv
<1> QED
  BY <1>2, <1>3, <1>4 DEF SerialInv, FinalInv, Exclusive

\* A reader that is done holds exactly what the inode it opened holds.
LEMMA ReadAll ==
    ASSUME SerialInv, NEW c \in Client, pc[c] = "read", pos[c] > Blocks
    PROVE  buf[c] = content[fd[c]] /\ Parsed(buf[c]) \in Answer
<1>1. /\ buf[c] \in [Block -> Answer \union {Missing}]
      /\ content[fd[c]] \in [Block -> Answer \union {Missing}]
      /\ IsWhole(content[fd[c]])
  BY DEF SerialInv, BaseInv, TypeOK, Contents, HandleInv, ClientInv, ReaderInv
<1>2. \A b \in Block : b < pos[c]
  BY CacheFileAssumption DEF Block, SerialInv, BaseInv, TypeOK
<1>3. \A b \in Block : buf[c][b] = content[fd[c]][b]
  BY <1>2 DEF SerialInv, ClientInv, ReaderInv
<1>4. buf[c] = content[fd[c]]
  BY <1>1, <1>3
<1> QED
  BY <1>1, <1>4, ParsedWhole

LEMMA GetDoneSerial ==
    ASSUME SerialInv, NEW c \in Client, GetDone(c), BaseInv'
    PROVE  SerialInv'
<1>1. Parsed(buf[c]) # Garbled
  BY ReadAll, CacheFileAssumption DEF GetDone
<1>2. /\ pc' = [pc EXCEPT ![c] = "idle"] /\ fd' = [fd EXCEPT ![c] = NoFile]
      /\ got' = [got EXCEPT ![c] = Parsed(buf[c])]
      /\ pc \in [Client -> PC] /\ got \in [Client -> Answer \union
                                             {Absent, Garbled, Nothing}]
      /\ fd \in [Client -> Inode \union {NoFile}]
      /\ UNCHANGED <<answer, pos, buf, tmp, final, content>>
  BY DEF SerialInv, BaseInv, TypeOK, GetDone, Goto, Close, Report, files
<1>3. Exclusive'
  BY <1>2 DEF SerialInv, Exclusive, Putting
<1>4. \A o \in Client : ClientInv(o)'
  BY <1>1, <1>2
     DEF SerialInv, ClientInv, ReaderInv, WriterInv, FilledInv, Writing
<1> QED
  BY <1>2, <1>3, <1>4 DEF SerialInv, FinalInv

\* The open of the temporary file: nobody else is inside put, and the inode it
\* truncates is neither the entry nor any reader's.
LEMMA OpenTmpSerial ==
    ASSUME ~Overlap, SerialInv, NEW c \in Client, NEW a \in Answer,
           OpenTmp(c, a), BaseInv'
    PROVE  SerialInv'
<1>1. PICK i \in Inode : /\ IF tmp = NoFile THEN i \notin Referenced
                                            ELSE i = tmp
                         /\ tmp' = i
                         /\ fd' = [fd EXCEPT ![c] = i]
                         /\ content' = [content EXCEPT ![i] = Empty]
  BY DEF OpenTmp
<1>2. /\ \A o \in Client : pc[o] \notin Putting
      /\ pc' = [pc EXCEPT ![c] = "write"]
      /\ pos'[c] = 1
      /\ \A o \in Client \ {c} : pos'[o] = pos[o]
      /\ pc \in [Client -> PC] /\ fd \in [Client -> Inode \union {NoFile}]
      /\ content \in [Inode -> Contents]
      /\ UNCHANGED <<got, buf, final>>
  BY DEF SerialInv, BaseInv, TypeOK, OpenTmp, Goto
<1>3. final # NoFile => final # i
  BY <1>1 DEF SerialInv, FinalInv, Referenced
<1>4. \A o \in Client : pc[o] = "read" => fd[o] # i /\ fd[o] \in Inode
  BY <1>1 DEF SerialInv, BaseInv, HandleInv, ClientInv, ReaderInv, Referenced
<1>5. FinalInv'
  <2>1. final # NoFile => final \in Inode
    BY DEF SerialInv, BaseInv, TypeOK
  <2> QED
    BY <1>1, <1>2, <1>3, <2>1 DEF SerialInv, FinalInv
<1>6. Exclusive'
  BY <1>2 DEF Exclusive
<1>7. ClientInv(c)'
  <2>1. \A b \in Block : ~(b < 1)
    BY CacheFileAssumption DEF Block
  <2> QED
    BY <1>1, <1>2, <2>1
       DEF SerialInv, ClientInv, ReaderInv, WriterInv, FilledInv
<1>8. \A o \in Client \ {c} : ClientInv(o)'
  BY <1>1, <1>2, <1>4
     DEF SerialInv, ClientInv, ReaderInv, WriterInv, FilledInv, Writing,
         Putting
<1> QED
  BY <1>5, <1>6, <1>7, <1>8 DEF SerialInv

LEMMA WriteBlockSerial ==
    ASSUME SerialInv, NEW c \in Client, WriteBlock(c), BaseInv'
    PROVE  SerialInv'
<1>1. /\ fd[c] \in Inode /\ answer[c] \in Answer /\ pos[c] \in Block
      /\ content'[fd[c]] = [content[fd[c]] EXCEPT ![pos[c]] = answer[c]]
      /\ \A i \in Inode : i # fd[c] => content'[i] = content[i]
      /\ content' \in [Inode -> Contents]
      /\ pos'[c] = pos[c] + 1
      /\ pos[c] < Blocks => pc' = pc /\ fd' = fd
      /\ pos[c] >= Blocks =>
           pc'[c] = IF pc[c] = "write" THEN "chmod" ELSE "idle"
      /\ \A o \in Client \ {c} : pc'[o] = pc[o] /\ fd'[o] = fd[o]
  BY WriteBlockFacts DEF SerialInv
<1>2. /\ pc[c] \in Writing /\ pc[c] \in Putting
      /\ \A o \in Client \ {c} : pos'[o] = pos[o]
      /\ UNCHANGED <<got, answer, buf, tmp, final>>
  BY DEF SerialInv, BaseInv, TypeOK, WriteBlock, Writing, Putting
<1>3. /\ fd[c] = tmp
      /\ \A b \in Block : b < pos[c] => content[fd[c]][b] = answer[c]
  BY <1>2 DEF SerialInv, ClientInv, WriterInv
<1>4. \A o \in Client \ {c} : pc[o] \notin Putting
  BY <1>2 DEF SerialInv, Exclusive
<1>5. FinalInv'
  <2>1. final # NoFile => final \in Inode /\ final # fd[c]
    BY <1>3 DEF SerialInv, BaseInv, TypeOK, FinalInv
  <2> QED
    BY <1>1, <1>2, <2>1 DEF SerialInv, FinalInv
<1>6. Exclusive'
  BY <1>1, <1>4 DEF Exclusive
<1>7. \A b \in Block : b < pos[c] + 1 => content'[fd[c]][b] = answer[c]
  <2>1. content[fd[c]] \in [Block -> Answer \union {Missing}]
    BY <1>1 DEF SerialInv, BaseInv, TypeOK, Contents
  <2>2. \A b \in Block : b < pos[c] + 1 => b < pos[c] \/ b = pos[c]
    BY <1>1, CacheFileAssumption DEF Block
  <2> QED
    BY <1>1, <1>3, <2>1, <2>2
<1>8. ClientInv(c)'
  <2>1. CASE pos[c] < Blocks
    <3>1. /\ pc' = pc /\ fd' = fd /\ pos'[c] = pos[c] + 1 /\ fd[c] = tmp
          /\ UNCHANGED <<got, answer, tmp>>
      BY <1>1, <1>2, <1>3, <2>1
    <3>2. WriterInv(c)'
      BY <1>7, <3>1 DEF WriterInv
    <3>3. ReaderInv(c)' /\ FilledInv(c)'
      BY <1>2, <3>1 DEF ReaderInv, FilledInv, Writing
    <3> QED
      BY <3>1, <3>2, <3>3 DEF SerialInv, ClientInv
  <2>2. CASE pos[c] >= Blocks
    <3>1. \A b \in Block : b < pos[c] + 1
      BY <1>1, <2>2, CacheFileAssumption DEF Block
    <3>2. content'[fd[c]] = Whole(answer[c])
      BY <1>1, <1>7, <3>1 DEF Whole, Contents
    <3>3. IsWhole(content'[tmp]) /\ tmp # NoFile
      BY <1>1, <1>3, <3>2, CacheFileAssumption DEF IsWhole
    <3> QED
      BY <1>1, <1>2, <2>2, <3>3
         DEF SerialInv, ClientInv, ReaderInv, WriterInv, FilledInv, Writing
  <2> QED
    BY <1>1, <2>1, <2>2, CacheFileAssumption DEF Block
<1>9. \A o \in Client \ {c} : ClientInv(o)'
  <2>1. \A o \in Client : pc[o] = "read" => fd[o] \in Inode /\ fd[o] # fd[c]
    BY <1>3 DEF SerialInv, BaseInv, HandleInv, ClientInv, ReaderInv
  <2> QED
    BY <1>1, <1>2, <1>4, <2>1
       DEF SerialInv, ClientInv, ReaderInv, WriterInv, FilledInv, Writing,
           Putting
<1> QED
  BY <1>5, <1>6, <1>8, <1>9 DEF SerialInv

LEMMA RenameSerial ==
    ASSUME SerialInv, NEW c \in Client, Rename(c), BaseInv'
    PROVE  SerialInv'
<1>1. /\ pc' = [pc EXCEPT ![c] = "idle"] /\ pc \in [Client -> PC]
      /\ final' = tmp /\ tmp' = NoFile /\ tmp \in Inode
      /\ IsWhole(content[tmp])
      /\ \A o \in Client \ {c} : pc[o] \notin Putting
      /\ UNCHANGED <<got, answer, fd, pos, buf, content>>
  BY DEF SerialInv, BaseInv, TypeOK, ClientInv, FilledInv, Exclusive, Rename,
         Goto, Putting
<1>2. FinalInv'
  BY <1>1, CacheFileAssumption DEF FinalInv
<1>3. Exclusive'
  BY <1>1 DEF Exclusive, Putting
<1>4. \A o \in Client : ClientInv(o)'
  <2>1. \A o \in Client : pc[o] = "read" => fd[o] # NoFile
    BY CacheFileAssumption DEF SerialInv, BaseInv, HandleInv
  <2> QED
    BY <1>1, <2>1
       DEF SerialInv, ClientInv, ReaderInv, WriterInv, FilledInv, Writing,
           Putting
<1> QED
  BY <1>2, <1>3, <1>4 DEF SerialInv

LEMMA NextSerial ==
    ASSUME ~Overlap
    PROVE  SerialInv /\ [Next]_vars => SerialInv'
<1> SUFFICES ASSUME SerialInv, [Next]_vars PROVE SerialInv'
  OBVIOUS
<1>1. BaseInv'
  BY NextBase DEF SerialInv
<1> DEFINE Quiet == UNCHANGED <<tmp, final, content, buf, pos, answer>>
<1>2. ASSUME Quiet,
             \A o \in Client :
                 /\ pc'[o] # "read" /\ pc'[o] \notin Putting
                 /\ got'[o] # Garbled
      PROVE  SerialInv'
  BY <1>1, <1>2
     DEF SerialInv, Exclusive, FinalInv, ClientInv, ReaderInv, WriterInv,
         FilledInv, Writing, Putting
<1>3. ASSUME NEW c \in Client, Quiet,
             \A o \in Client \ {c} : pc'[o] = pc[o] /\ fd'[o] = fd[o]
                                       /\ got'[o] = got[o],
             pc'[c] # "read", got'[c] # Garbled,
             pc'[c] \in Putting => pc[c] \in Putting,
             WriterInv(c)', FilledInv(c)'
      PROVE  SerialInv'
  <2>1. Exclusive'
    BY <1>3 DEF SerialInv, Exclusive
  <2>2. \A o \in Client \ {c} : ClientInv(o)'
    BY <1>3 DEF SerialInv, ClientInv, ReaderInv, WriterInv, FilledInv
  <2>3. ClientInv(c)'
    BY <1>3 DEF ClientInv, ReaderInv
  <2> QED
    BY <1>1, <1>3, <2>1, <2>2, <2>3 DEF SerialInv, FinalInv
<1>4. TypeOK /\ \A c \in Client : ClientInv(c)
  BY DEF SerialInv, BaseInv
<1> USE DEF Goto, Close, Report, files
<1>5. CASE UNCHANGED vars
  BY <1>1, <1>5
     DEF SerialInv, Exclusive, FinalInv, ClientInv, ReaderInv, WriterInv,
         FilledInv, vars, clients
<1>6. CASE Crash
  BY <1>2, <1>6, CacheFileAssumption DEF Crash, Putting
<1>7. ASSUME NEW c \in Client, GetMiss(c) PROVE SerialInv'
  BY <1>3, <1>4, <1>7, CacheFileAssumption
     DEF GetMiss, TypeOK, Putting, WriterInv, FilledInv, Writing
<1>8. ASSUME NEW c \in Client, NoAnswer(c) PROVE SerialInv'
  BY <1>3, <1>4, <1>8
     DEF NoAnswer, TypeOK, Putting, ClientInv, WriterInv, FilledInv, Writing
<1>9. ASSUME NEW c \in Client, Chmod(c) PROVE SerialInv'
  BY <1>3, <1>4, <1>9
     DEF Chmod, TypeOK, Putting, ClientInv, WriterInv, FilledInv, Writing
<1>10. ASSUME NEW c \in Client, PutFails(c) PROVE SerialInv'
  BY <1>3, <1>4, <1>10
     DEF PutFails, TypeOK, Putting, ClientInv, WriterInv, FilledInv, Writing
<1>11. ASSUME NEW c \in Client, Abandon(c) PROVE SerialInv'
  BY <1>3, <1>4, <1>11, CacheFileAssumption
     DEF Abandon, TypeOK, Putting, ClientInv, WriterInv, FilledInv, Writing
<1> QED
  BY <1>1, <1>5, <1>6, <1>7, <1>8, <1>9, <1>10, <1>11, GetOpenSerial,
     ReadBlockSerial, GetDoneSerial, OpenTmpSerial, WriteBlockSerial,
     RenameSerial
     DEF Next, Step

-----------------------------------------------------------------------------
(* Theorems *)

\* Handles, positions and files keep their types however puts overlap.
THEOREM TypeCorrect == Spec => []TypeOK
<1>1. BaseInv => TypeOK
  BY DEF BaseInv
<1> QED
  BY <1>1, InitBase, NextBase, PTL DEF Spec

\* However puts overlap, fail or crash, an entry that exists is not taken away.
THEOREM EntryIsKept == Spec => EntryStays
<1>1. BaseInv /\ [Next]_vars => [final # NoFile => final' # NoFile]_vars
  BY DEF Next, Step, Crash, GetOpen, GetMiss, ReadBlock, GetDone, NoAnswer,
         OpenTmp, WriteBlock, Chmod, Rename, PutFails, Abandon, files, vars
<1> QED
  BY <1>1, InitBase, NextBase, PTL DEF Spec, EntryStays

\* While puts of the key do not overlap, no get ever sees a partial file.
THEOREM WholeReads ==
    ASSUME ~Overlap
    PROVE  Spec => []ReadersSeeWholeAnswers
<1>1. SerialInv => ReadersSeeWholeAnswers
  BY DEF SerialInv, ClientInv, ReadersSeeWholeAnswers
<1> QED
  BY <1>1, InitSerial, NextSerial, PTL DEF Spec

-----------------------------------------------------------------------------
(* The refinement *)

\* The register's variables, as Register instantiates them.
Entry == IF final = NoFile THEN Absent ELSE Parsed(content[final])
Seen(c) == IF pc[c] = "read" THEN Parsed(content[fd[c]]) ELSE got[c]
AllSeen == [c \in Client |-> Seen(c)]

LEMMA RegisterInit == Init => Register!Init
BY DEF Init, Register!Init

LEMMA RegisterPut ==
    ASSUME Entry' \in Answer, AllSeen' = AllSeen
    PROVE  Register!Next
BY DEF Entry, Seen, AllSeen, Register!Next, Register!Put

LEMMA RegisterGet ==
    ASSUME NEW c \in Client, Entry' = Entry,
           AllSeen' = [AllSeen EXCEPT ![c] = Entry]
    PROVE  Register!Next
BY DEF Entry, Seen, AllSeen, Register!Next, Register!Get

LEMMA RegisterForget ==
    ASSUME NEW gone \in SUBSET Client, Entry' = Entry,
           \A o \in Client : Seen(o)' = IF o \in gone THEN Nothing ELSE Seen(o)
    PROVE  Register!Next
<1>1. AllSeen' = [o \in Client |-> IF o \in gone THEN Nothing ELSE AllSeen[o]]
  BY DEF AllSeen
<1> QED
  BY <1>1 DEF Entry, Seen, AllSeen, Register!Next, Register!Forget

LEMMA RegisterStutter ==
    ASSUME Entry' = Entry, \A o \in Client : Seen(o)' = Seen(o)
    PROVE  UNCHANGED Register!vars
<1>1. AllSeen' = AllSeen
  BY DEF AllSeen
<1> QED
  BY <1>1 DEF Entry, Seen, AllSeen, Register!vars

\* The files a get or a put is working on are invisible until the rename.
LEMMA InvisibleStep ==
    ASSUME ~Overlap, SerialInv, NEW c \in Client,
           \/ ReadBlock(c) \/ GetDone(c) \/ NoAnswer(c)
           \/ \E a \in Answer : OpenTmp(c, a)
           \/ WriteBlock(c) \/ Chmod(c) \/ PutFails(c)
    PROVE  UNCHANGED Register!vars
<1> USE DEF Goto, Close, Report, files, Putting
<1>1. TypeOK
  BY DEF SerialInv, BaseInv
<1>2. CASE ReadBlock(c)
  BY <1>2, RegisterStutter DEF ReadBlock, Entry, Seen
<1>3. CASE GetDone(c)
  <2>1. Parsed(buf[c]) = Parsed(content[fd[c]])
    BY <1>3, ReadAll DEF GetDone
  <2> QED
    BY <1>1, <1>3, <2>1, RegisterStutter DEF GetDone, Entry, Seen, TypeOK
<1>4. CASE NoAnswer(c)
  BY <1>1, <1>4, RegisterStutter DEF NoAnswer, Entry, Seen, TypeOK
<1>5. ASSUME NEW a \in Answer, OpenTmp(c, a)
      PROVE  UNCHANGED Register!vars
  <2>1. PICK i \in Inode : /\ IF tmp = NoFile THEN i \notin Referenced
                                              ELSE i = tmp
                           /\ fd' = [fd EXCEPT ![c] = i]
                           /\ content' = [content EXCEPT ![i] = Empty]
    BY <1>5 DEF OpenTmp
  <2>2. final # i
    BY <2>1 DEF SerialInv, FinalInv, Referenced
  <2>3. \A o \in Client : pc[o] = "read" => fd[o] # i
    BY <2>1 DEF SerialInv, ClientInv, ReaderInv, Referenced
  <2>4. Entry' = Entry
    BY <1>1, <1>5, <2>1, <2>2 DEF OpenTmp, Entry, TypeOK
  <2>5. \A o \in Client : Seen(o)' = Seen(o)
    BY <1>1, <1>5, <2>1, <2>3 DEF OpenTmp, Seen, TypeOK
  <2> QED
    BY <2>4, <2>5, RegisterStutter
<1>6. CASE WriteBlock(c)
  <2>1. /\ \A i \in Inode : i # tmp => content'[i] = content[i]
        /\ \A o \in Client \ {c} : pc'[o] = pc[o] /\ fd'[o] = fd[o]
        /\ pc[c] # "read" /\ pc'[c] # "read"
        /\ UNCHANGED <<got, tmp, final>>
    <3>1. /\ \A i \in Inode : i # fd[c] => content'[i] = content[i]
          /\ \A o \in Client \ {c} : pc'[o] = pc[o] /\ fd'[o] = fd[o]
      BY <1>6, WriteBlockFacts DEF SerialInv
    <3>2. fd[c] = tmp
      BY <1>6 DEF SerialInv, ClientInv, WriterInv, WriteBlock, Writing
    <3>3. pc[c] # "read" /\ pc'[c] # "read" /\ UNCHANGED <<got, tmp, final>>
      BY <1>1, <1>6 DEF WriteBlock, TypeOK
    <3> QED
      BY <3>1, <3>2, <3>3
  <2>2. final # NoFile => final \in Inode /\ final # tmp
    BY <1>1 DEF TypeOK, SerialInv, FinalInv
  <2>3. \A o \in Client : pc[o] = "read" => fd[o] \in Inode /\ fd[o] # tmp
    BY DEF SerialInv, BaseInv, HandleInv, ClientInv, ReaderInv
  <2>4. Entry' = Entry
    BY <2>1, <2>2 DEF Entry
  <2>5. \A o \in Client : Seen(o)' = Seen(o)
    BY <2>1, <2>3 DEF Seen
  <2> QED
    BY <2>4, <2>5, RegisterStutter
<1>7. CASE Chmod(c)
  BY <1>1, <1>7, RegisterStutter DEF Chmod, Entry, Seen, TypeOK
<1>8. CASE PutFails(c)
  BY <1>1, <1>8, RegisterStutter DEF PutFails, Entry, Seen, TypeOK
<1> QED
  BY <1>2, <1>3, <1>4, <1>5, <1>6, <1>7, <1>8

LEMMA RegisterStep ==
    ASSUME ~Overlap
    PROVE  SerialInv /\ [Next]_vars => [Register!Next]_(Register!vars)
<1> SUFFICES ASSUME SerialInv, [Next]_vars
             PROVE  Register!Next \/ UNCHANGED Register!vars
  OBVIOUS
<1> USE DEF Goto, Close, Report, files
<1>1. TypeOK
  BY DEF SerialInv, BaseInv
<1>2. CASE UNCHANGED vars
  BY <1>2, RegisterStutter DEF Entry, Seen, vars, clients
<1>3. CASE Crash
  <2>1. Entry' = Entry /\ \A o \in Client : Seen(o)' = Nothing
    BY <1>3 DEF Crash, Entry, Seen
  <2> QED
    BY <2>1, RegisterForget
<1>4. ASSUME NEW c \in Client, GetOpen(c) PROVE Register!Next
  <2>1. Entry' = Entry /\ Seen(c)' = Entry
    BY <1>1, <1>4 DEF GetOpen, Entry, Seen, TypeOK
  <2>2. \A o \in Client \ {c} : Seen(o)' = Seen(o)
    BY <1>1, <1>4 DEF GetOpen, Seen, TypeOK
  <2>3. AllSeen' = [AllSeen EXCEPT ![c] = Entry]
    BY <2>1, <2>2 DEF AllSeen
  <2> QED
    BY <2>1, <2>3, RegisterGet
<1>5. ASSUME NEW c \in Client, GetMiss(c) PROVE Register!Next
  <2>1. Entry' = Entry /\ Seen(c)' = Entry
    BY <1>1, <1>5 DEF GetMiss, Entry, Seen, TypeOK
  <2>2. \A o \in Client \ {c} : Seen(o)' = Seen(o)
    BY <1>1, <1>5 DEF GetMiss, Seen, TypeOK
  <2>3. AllSeen' = [AllSeen EXCEPT ![c] = Entry]
    BY <2>1, <2>2 DEF AllSeen
  <2> QED
    BY <2>1, <2>3, RegisterGet
<1>6. ASSUME NEW c \in Client, Rename(c) PROVE Register!Next
  <2>1. IsWhole(content[tmp]) /\ tmp # NoFile
    BY <1>6 DEF Rename, SerialInv, ClientInv, FilledInv
  <2>2. Entry' \in Answer
    BY <1>6, <2>1, ParsedWhole DEF Rename, Entry
  <2>3. AllSeen' = AllSeen
    BY <1>1, <1>6 DEF Rename, Seen, AllSeen, TypeOK
  <2> QED
    BY <2>2, <2>3, RegisterPut
<1>7. ASSUME NEW c \in Client, Abandon(c) PROVE Register!Next
  <2>1. /\ Entry' = Entry
        /\ \A o \in Client :
             Seen(o)' = IF o \in {c} THEN Nothing ELSE Seen(o)
    BY <1>1, <1>7 DEF Abandon, Entry, Seen, TypeOK
  <2> QED
    BY <2>1, RegisterForget
<1> QED
  BY <1>2, <1>3, <1>4, <1>5, <1>6, <1>7, InvisibleStep DEF Next, Step

\* While puts of the key do not overlap, the files of a cache key implement an
\* atomic register, whatever fails, crashes or is dropped in the middle.
THEOREM Refinement ==
    ASSUME ~Overlap
    PROVE  Spec => ActsAsRegister
BY RegisterInit, RegisterStep, InitSerial, NextSerial, PTL
   DEF Spec, ActsAsRegister, Register!Spec
=============================================================================
