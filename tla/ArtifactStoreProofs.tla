------------------------ MODULE ArtifactStoreProofs ------------------------
(***************************************************************************)
(* For any drafts, titles, slugs, numbers and edits by users: between one   *)
(* boot and the next edit the index and the directory of either store agree *)
(* in both directions, whatever crashed, failed or ran at once.             *)
(***************************************************************************)
EXTENDS ArtifactStore, TLAPS, SequenceTheorems, WellFoundedInduction

-----------------------------------------------------------------------------
(* The inductive invariants *)

\* The two stores do not mix: ADRs have numbers, findings have slugs.
OwnIds ==
    /\ kind = "adr" =>
         /\ DOMAIN rows \subseteq Number /\ seen \subseteq Number
         /\ \A p \in DOMAIN files : files[p].id \in Number \union {Garbled, Unreadable}
         /\ \A d \in Draft : pc[d] \in InFlight => subject[d] \in Title
    /\ kind = "finding" => \A d \in Draft : subject[d] \in Slug

\* The index is a function, and only a document that parses gets a row.
Indexable ==
    /\ rows = [i \in DOMAIN rows |-> rows[i]]
    /\ \A d \in Draft : pc[d] = "index" => DocumentOf(d).id # Garbled

BaseInv == TypeOK /\ OwnIds /\ Indexable

\* Past the check for its name; writing, or having written, its file.
Named == {"open", "fill", "orphan", "index"}
Written == {"fill", "orphan", "index"}

\* The id a name stands for.
NameId(d) == IF kind = "adr" THEN number[d] ELSE YamlId[subject[d]]

\* What leads to a file: the rows, and the get that has read one.
Links == {<<i, rows[i]>> : i \in DOMAIN rows} \union ({ask} \ {NoAsk})

\* A link leads to its document, or to one that two creates have garbled.
Leads(l) ==
    /\ l[2] \in DOMAIN files
    /\ files[l[2]].id \in {l[1]} \union (IF overlap THEN {Garbled} ELSE {})

\* Nothing is under way while the server does not serve.
Rests == phase # "serve" => ask = NoAsk /\ \A d \in Draft : pc[d] \notin InFlight

Alone == ~overlap => \A d, e \in Draft : pc[d] \in InFlight /\ pc[e] \in InFlight => d = e

\* Who has not opened a file has written none.
Authors ==
    /\ edits = 0 => ~edited
    /\ \A p \in DOMAIN files :
         /\ files[p].by # User => pc[files[p].by] \notin {"new", "check", "open"}
         /\ edits = 0 => files[p].by # User
         /\ edits = 0 /\ kind = "adr" => p[2] \notin Unwalked

\* A create that is under way owns what it has written at its name, and links
\* that lead to its name are about its id.
InPlace(d) ==
    /\ pc[d] \in Written =>
         /\ PathOf(d) \in DOMAIN files
         /\ files[PathOf(d)].id \in {NameId(d), Garbled}
         /\ \A p \in DOMAIN files : files[p].by = d => p = PathOf(d)
    /\ pc[d] = "index" /\ (~overlap \/ files[PathOf(d)].by = d) =>
         files[PathOf(d)] = DocumentOf(d)
    /\ pc[d] \in Named => \A l \in Links : l[2] = PathOf(d) => l[1] = NameId(d)
    /\ ~overlap /\ pc[d] = "open" => PathOf(d) \notin DOMAIN files
    /\ ~overlap /\ pc[d] \in {"fill", "orphan"} => \A l \in Links : l[2] # PathOf(d)

\* A file the index need not have: unreadable, skipped, or of a create that has
\* not come to its row.
Unlisted(p) ==
    \/ ~Parsable(p) \/ p[2] \in Unwalked
    \/ files[p].by # User /\ pc[files[p].by] \in InFlight \union {"failed"}

\* What the walk has seen leads to files, and what it has passed it has seen.
Walked ==
    phase = "walk" =>
        /\ seen \subseteq DOMAIN rows
        /\ ~edited =>
            /\ \A i \in seen : rows[i] \in DOMAIN files /\ files[rows[i]].id = i
            /\ \A p \in DOMAIN files :
                 p \in todo \/ ~Parsable(p) \/ p[2] \in Unwalked \/ files[p].id \in seen

\* The index and the directory agree.
Served ==
    phase = "serve" /\ ~edited =>
        /\ \A l \in Links : Leads(l)
        /\ \A p \in DOMAIN files : Unlisted(p) \/ files[p].id \in DOMAIN rows
        /\ \A d \in Draft : InPlace(d)

ListInv == Rests /\ Alone /\ Authors /\ Walked /\ Served

-----------------------------------------------------------------------------
(* Operators *)

\* What Put changes and what it keeps.
LEMMA PutFacts ==
    ASSUME NEW f, NEW x, NEW y
    PROVE  /\ DOMAIN Put(f, x, y) = DOMAIN f \union {x}
           /\ Put(f, x, y)[x] = y
           /\ \A z \in DOMAIN f \ {x} : Put(f, x, y)[z] = f[z]
BY DEF Put

\* Put keeps a bound on the names and one on what they lead to.
LEMMA PutTyped ==
    ASSUME NEW f, NEW x, NEW y, NEW S, NEW T,
           DOMAIN f \subseteq S, \A z \in DOMAIN f : f[z] \in T,
           x \in S, y \in T
    PROVE  /\ DOMAIN Put(f, x, y) \subseteq S
           /\ \A z \in DOMAIN Put(f, x, y) : Put(f, x, y)[z] \in T
BY DEF Put

\* A set of numbers below a bound has a largest one.
LEMMA LargestNumber ==
    ASSUME NEW m \in Nat, NEW S, S \subseteq 0 .. m, S # {}
    PROVE  \E n \in S : \A i \in S : i <= n
<1> DEFINE T == {k \in 0 .. m : m - k \in S}
<1>1. T \subseteq Nat /\ T # {}
  <2>1. \A i \in S : i \in 0 .. m /\ m - i \in 0 .. m /\ m - (m - i) = i
    OBVIOUS
  <2>2. \A i \in S : m - i \in T
    BY <2>1
  <2>3. T # {}
    <3> HIDE DEF T
    <3> QED
      BY <2>2
  <2>4. 0 .. m \subseteq Nat
    OBVIOUS
  <2> QED
    BY <2>3, <2>4
<1>2. PICK x \in T : \A y \in T : ~ (<<y, x>> \in OpToRel(<, Nat))
  <2> HIDE DEF T
  <2> QED
    BY <1>1, NatLessThanWellFounded, WFMin
<1>3. \A y \in T : x <= y
  <2> SUFFICES ASSUME NEW y \in T, y < x PROVE FALSE
    BY <1>1
  <2> QED
    BY <1>1, <1>2 DEF OpToRel
<1>4. m - x \in S
  OBVIOUS
<1>5. ASSUME NEW i \in S PROVE i <= m - x
  <2>1. m - i \in T
    <3>1. i \in 0 .. m /\ m - i \in 0 .. m /\ m - (m - i) = i
      OBVIOUS
    <3> QED
      BY <3>1
  <2>2. x <= m - i /\ x \in 0 .. m /\ i \in 0 .. m
    BY <1>3, <2>1
  <2> QED
    BY <2>2
<1> QED
  BY <1>4, <1>5

\* The empty index is the only one without an id.
LEMMA NoRows == rows = [i \in DOMAIN rows |-> rows[i]] /\ DOMAIN rows = {} => rows = <<>>
<1> SUFFICES ASSUME rows = [i \in DOMAIN rows |-> rows[i]], DOMAIN rows = {} PROVE rows = <<>>
  OBVIOUS
<1>1. <<>> \in Seq(Path) /\ Len(<<>>) = 0
  BY EmptySeq
<1>2. <<>> \in [1 .. 0 -> Path]
  BY <1>1, LenProperties
<1> QED
  BY <1>2

\* allocate_next_id stays in 32 bits, and is larger than every id of the index
\* unless these are used up.
LEMMA NextIdFacts ==
    ASSUME BaseInv, kind = "adr"
    PROVE  /\ NextId \in Number
           /\ NextId < MaxId => \A i \in DOMAIN rows : i < NextId
<1> USE ArtifactStoreAssumption DEF BaseInv
<1> DEFINE Above(n) == \A i \in DOMAIN rows : i <= n
           largest == IF rows = <<>> THEN 0 ELSE CHOOSE i \in DOMAIN rows : Above(i)
<1>1. DOMAIN rows \subseteq Number
  BY DEF OwnIds
<1>2. largest \in Number /\ Above(largest)
  <2>1. CASE DOMAIN rows = {}
    <3>1. rows = <<>>
      BY <2>1, NoRows DEF Indexable
    <3> QED
      BY <2>1, <3>1 DEF Number
  <2>2. CASE DOMAIN rows # {}
    <3>1. rows # <<>>
      BY <2>2, EmptySeq, LenProperties
    <3>2. \E i \in DOMAIN rows : Above(i)
      BY <1>1, <2>2, LargestNumber DEF Number
    <3> QED
      BY <1>1, <3>1, <3>2
  <2> QED
    BY <2>1, <2>2
<1>3. NextId = LET next == IF largest < MaxId THEN largest + 1 ELSE MaxId
               IN  IF next < MinNewId THEN MinNewId ELSE next
  BY DEF NextId
<1> HIDE DEF largest
<1> QED
  BY <1>1, <1>2, <1>3 DEF Number

-----------------------------------------------------------------------------
(* BaseInv *)

\* A create's own document and name.
LEMMA DraftFacts ==
    ASSUME BaseInv, NEW d \in Draft
    PROVE  /\ PathOf(d) \in Path
           /\ DocumentOf(d) \in Document /\ DocumentOf(d).by = d
           /\ kind = "adr" => DocumentOf(d).id \in Number \union {Garbled}
           /\ DocumentOf(d).id \in Id \union {Garbled}
           /\ [id |-> Garbled, by |-> d] \in Document
<1> USE ArtifactStoreAssumption
    DEF BaseInv, TypeOK, OwnIds, Path, Document, PathOf, DocumentOf, AdrId, FindingId, Id
<1>1. kind = "finding" => YamlId[subject[d]] \in Slug \union {Garbled}
  OBVIOUS
<1> QED
  BY <1>1

\* Documents of one store.
OwnDocument ==
    {doc \in Document : kind = "adr" => doc.id \in Number \union {Garbled, Unreadable}}

LEMMA OwnFiles ==
    ASSUME BaseInv
    PROVE  DOMAIN files \subseteq Path /\ \A p \in DOMAIN files : files[p] \in OwnDocument
BY DEF BaseInv, TypeOK, OwnIds, OwnDocument

\* Ids of one store.
OwnId == IF kind = "adr" THEN Number ELSE Id

LEMMA OwnRows ==
    ASSUME BaseInv
    PROVE  DOMAIN rows \subseteq OwnId /\ \A i \in DOMAIN rows : rows[i] \in Path
BY DEF BaseInv, TypeOK, OwnIds, OwnId

LEMMA InitBase == Init => BaseInv
<1> SUFFICES ASSUME Init PROVE BaseInv
  OBVIOUS
<1> USE ArtifactStoreAssumption DEF Init
<1>1. DOMAIN <<>> = {}
  BY EmptySeq, LenProperties
<1>2. (CHOOSE s \in Slug : TRUE) \in Slug
  OBVIOUS
<1>3. TypeOK
  <2>1. 0 \in Number /\ 0 \in 0 .. MaxEdits
    BY DEF Number
  <2>2. pc \in [Draft -> PC] /\ subject \in [Draft -> Title \union Slug]
    BY <1>2 DEF PC
  <2> QED
    BY <1>1, <2>1, <2>2 DEF TypeOK
<1>4. OwnIds
  BY <1>1, <1>2 DEF OwnIds, InFlight
<1>5. Indexable
  <2>1. rows = [i \in DOMAIN rows |-> rows[i]]
    BY <1>1, NoRows
  <2> QED
    BY <2>1 DEF Indexable
<1> QED
  BY <1>3, <1>4, <1>5 DEF BaseInv

LEMMA NextBase == BaseInv /\ [Next]_vars => BaseInv'
<1> SUFFICES ASSUME BaseInv, [Next]_vars PROVE BaseInv'
  OBVIOUS
<1> USE ArtifactStoreAssumption
<1> USE DEF BaseInv, TypeOK, OwnIds, Indexable, Goto, drafts, walk, users,
            DocumentOf, AdrId, FindingId
<1>1. CASE UNCHANGED vars
  BY <1>1 DEF vars
<1>2. ASSUME NEW d \in Draft, RejectDraft(d) PROVE BaseInv'
  BY <1>2 DEF RejectDraft, Free, PC, InFlight
<1>3. ASSUME NEW d \in Draft, NEW title \in Title, NEW breaks \in BOOLEAN,
             StartAdr(d, title, breaks)
      PROVE  BaseInv'
  <2>1. NextId \in Number
    BY <1>3, NextIdFacts DEF StartAdr
  <2> QED
    BY <1>3, <2>1 DEF StartAdr, Free, PC, InFlight
<1>4. ASSUME NEW d \in Draft, NEW slug \in Slug, NEW breaks \in BOOLEAN,
             StartFinding(d, slug, breaks)
      PROVE  BaseInv'
  BY <1>4 DEF StartFinding, Free, PC, InFlight
<1>5. ASSUME NEW d \in Draft, CheckName(d) PROVE BaseInv'
  BY <1>5 DEF CheckName, PC, InFlight
<1>6. ASSUME NEW d \in Draft, OpenFile(d) PROVE BaseInv'
  <2>1. PathOf(d) \in Path /\ [id |-> Garbled, by |-> d] \in OwnDocument
    BY DraftFacts DEF OwnDocument
  <2>2. /\ DOMAIN files' \subseteq Path
        /\ \A p \in DOMAIN files' : files'[p] \in OwnDocument
    BY <1>6, <2>1, OwnFiles, PutTyped DEF OpenFile
  <2> QED
    BY <1>6, <2>2 DEF OpenFile, PC, InFlight, OwnDocument
<1>7. ASSUME NEW d \in Draft, FillFile(d) PROVE BaseInv'
  <2>1. PathOf(d) \in Path /\ DocumentOf(d) \in OwnDocument
    BY DraftFacts DEF OwnDocument
  <2>2. /\ DOMAIN files' \subseteq Path
        /\ \A p \in DOMAIN files' : files'[p] \in OwnDocument
    <3> HIDE DEF DocumentOf, BaseInv
    <3> QED
      BY <1>7, <2>1, OwnFiles, PutTyped DEF FillFile
  <2>3. TypeOK'
    BY <1>7, <2>2 DEF FillFile, PC, OwnDocument
  <2>4. OwnIds'
    BY <1>7, <2>2 DEF FillFile, InFlight, OwnDocument
  <2>5. Indexable'
    BY <1>7 DEF FillFile, PC
  <2> QED
    BY <2>3, <2>4, <2>5
<1>8. ASSUME NEW d \in Draft, WriteFails(d) PROVE BaseInv'
  BY <1>8 DEF WriteFails, PC, InFlight
<1>9. ASSUME NEW d \in Draft, IndexRow(d) PROVE BaseInv'
  <2>1. rows' = Put(rows, DocumentOf(d).id, PathOf(d))
    BY <1>9 DEF IndexRow, Upserted
  <2>2. /\ DOMAIN rows' \subseteq OwnId /\ \A i \in DOMAIN rows' : rows'[i] \in Path
        /\ rows' = [i \in DOMAIN rows' |-> rows'[i]]
    <3>1. PathOf(d) \in Path /\ DocumentOf(d).id \in OwnId
      BY <1>9, DraftFacts DEF OwnId, IndexRow
    <3> HIDE DEF DocumentOf, BaseInv
    <3>2. /\ DOMAIN rows' \subseteq OwnId
          /\ \A i \in DOMAIN rows' : rows'[i] \in Path
      BY <2>1, <3>1, OwnRows, PutTyped
    <3>4. rows' = [i \in DOMAIN rows' |-> rows'[i]]
      BY <2>1 DEF Put
    <3> QED
      BY <3>2, <3>4
  <2> HIDE DEF DocumentOf
  <2>3. TypeOK'
    BY <1>9, <2>2 DEF IndexRow, PC, OwnId, Id
  <2>4. OwnIds'
    BY <1>9, <2>2 DEF IndexRow, InFlight, OwnId, PC
  <2>5. Indexable'
    BY <1>9, <2>2 DEF IndexRow, DocumentOf
  <2> QED
    BY <2>3, <2>4, <2>5
<1>10. ASSUME NEW d \in Draft, IndexFails(d) PROVE BaseInv'
  BY <1>10 DEF IndexFails, PC, InFlight
<1>11. ASSUME NEW d \in Draft, Disconnect(d) PROVE BaseInv'
  <2>1. \/ rows' = rows
        \/ pc[d] = "index" /\ rows' = Put(rows, DocumentOf(d).id, PathOf(d))
    BY <1>11 DEF Disconnect, Upserted
  <2>2. /\ DOMAIN rows' \subseteq OwnId /\ \A i \in DOMAIN rows' : rows'[i] \in Path
        /\ rows' = [i \in DOMAIN rows' |-> rows'[i]]
    <3>1. PathOf(d) \in Path /\ (pc[d] = "index" => DocumentOf(d).id \in OwnId)
      BY DraftFacts DEF OwnId
    <3>2. rows = [i \in DOMAIN rows |-> rows[i]]
      OBVIOUS
    <3> HIDE DEF DocumentOf, BaseInv
    <3>3. /\ DOMAIN rows' \subseteq OwnId
          /\ \A i \in DOMAIN rows' : rows'[i] \in Path
      BY <2>1, <3>1, OwnRows, PutTyped
    <3>4. rows' = [i \in DOMAIN rows' |-> rows'[i]]
      BY <2>1, <3>2 DEF Put
    <3> QED
      BY <3>3, <3>4
  <2> HIDE DEF DocumentOf
  <2>3. TypeOK'
    BY <1>11, <2>2 DEF Disconnect, PC, OwnId, Id
  <2>4. OwnIds'
    BY <1>11, <2>2 DEF Disconnect, InFlight, OwnId, PC
  <2>5. Indexable'
    BY <1>11, <2>2 DEF Disconnect, DocumentOf
  <2> QED
    BY <2>3, <2>4, <2>5
<1>12. ASSUME NEW id \in DOMAIN rows, GetRow(id) PROVE BaseInv'
  BY <1>12 DEF GetRow
<1>13. CASE GetFile
  BY <1>13 DEF GetFile
<1>14. CASE StartWalk
  <2>1. TypeOK'
    BY <1>14 DEF StartWalk
  <2>2. OwnIds'
    BY <1>14 DEF StartWalk
  <2>3. Indexable'
    BY <1>14 DEF StartWalk, DocumentOf
  <2> QED
    BY <2>1, <2>2, <2>3
<1>15. ASSUME NEW p \in todo, SkipHidden(p) PROVE BaseInv'
  BY <1>15 DEF SkipHidden
<1>16. ASSUME NEW p \in todo, SkipMalformed(p) PROVE BaseInv'
  BY <1>16 DEF SkipMalformed
<1>17. ASSUME NEW p \in todo, IndexFile(p) PROVE BaseInv'
  <2>1. files[p].id \in OwnId /\ p \in Path
    BY <1>17 DEF IndexFile, Parsable, Document, OwnId
  <2>2. /\ DOMAIN rows' \subseteq OwnId /\ \A i \in DOMAIN rows' : rows'[i] \in Path
        /\ rows' = [i \in DOMAIN rows' |-> rows'[i]]
    <3>1. rows' = Put(rows, files[p].id, p)
      BY <1>17 DEF IndexFile, Upserted
    <3> HIDE DEF BaseInv
    <3>2. /\ DOMAIN rows' \subseteq OwnId
          /\ \A i \in DOMAIN rows' : rows'[i] \in Path
      BY <2>1, <3>1, OwnRows, PutTyped
    <3>4. rows' = [i \in DOMAIN rows' |-> rows'[i]]
      BY <3>1 DEF Put
    <3> QED
      BY <3>2, <3>4
  <2> QED
    BY <1>17, <2>1, <2>2 DEF IndexFile, OwnId, Id
<1>18. ASSUME NEW p \in todo, RefuseOpen(p) PROVE BaseInv'
  BY <1>18 DEF RefuseOpen
<1>19. CASE Prune
  BY <1>19 DEF Prune
<1>20. CASE Crash
  BY <1>20 DEF Crash, PC, InFlight
<1>21. ASSUME NEW p \in UserPaths, NEW id \in UserIds, UserWrites(p, id) PROVE BaseInv'
  <2>1. ReadId(id) \in Id \union {Garbled, Unreadable}
    BY DEF ReadId
  <2>2. p \in Path /\ [id |-> ReadId(id), by |-> User] \in OwnDocument
    BY <2>1 DEF UserPaths, UserIds, OwnDocument, Document, ReadId, Id
  <2>3. /\ DOMAIN files' \subseteq Path
        /\ \A q \in DOMAIN files' : files'[q] \in OwnDocument
    BY <1>21, <2>2, OwnFiles, PutTyped DEF UserWrites
  <2> QED
    BY <1>21, <2>3 DEF UserWrites, Edit, OwnDocument
<1>22. ASSUME NEW p \in DOMAIN files, UserRemoves(p) PROVE BaseInv'
  BY <1>22 DEF UserRemoves, Edit
<1>23. ASSUME NEW p \in DOMAIN files, NEW q \in UserPaths, UserMoves(p, q) PROVE BaseInv'
  <2> DEFINE kept == [r \in DOMAIN files \ {p} |-> files[r]]
  <2>1. q \in Path /\ files[p] \in OwnDocument
    BY OwnFiles DEF UserPaths
  <2>2. DOMAIN kept \subseteq Path /\ \A r \in DOMAIN kept : kept[r] \in OwnDocument
    BY OwnFiles
  <2>3. files' = Put(kept, q, files[p])
    BY <1>23 DEF UserMoves
  <2>4. /\ DOMAIN files' \subseteq Path
        /\ \A r \in DOMAIN files' : files'[r] \in OwnDocument
    <3> HIDE DEF kept
    <3> QED
      BY <2>1, <2>2, <2>3, PutTyped
  <2>5. Edit
    BY <1>23 DEF UserMoves
  <2> QED
    BY <2>4, <2>5 DEF Edit, OwnDocument
<1> QED
  BY <1>1, <1>2, <1>3, <1>4, <1>5, <1>6, <1>7, <1>8, <1>9, <1>10, <1>11, <1>12,
     <1>13, <1>14, <1>15, <1>16, <1>17, <1>18, <1>19, <1>20, <1>21, <1>22, <1>23
     DEF Next, Create, Visit

LEMMA AlwaysBase == Spec => []BaseInv
<1> QED
  BY InitBase, NextBase, PTL DEF Spec

-----------------------------------------------------------------------------
(* ListInv *)

LEMMA InitList == Init => ListInv
<1> SUFFICES ASSUME Init PROVE ListInv
  OBVIOUS
<1>1. DOMAIN <<>> = {}
  BY EmptySeq, LenProperties
<1> QED
  BY <1>1 DEF Init, ListInv, Rests, Alone, Authors, Walked, Served, InFlight

LEMMA NextList == BaseInv /\ BaseInv' /\ ListInv /\ [Next]_vars => ListInv'
<1> SUFFICES ASSUME BaseInv, BaseInv', ListInv, [Next]_vars PROVE ListInv'
  OBVIOUS
<1> USE ArtifactStoreAssumption
<1> USE DEF ListInv, Goto, drafts, walk, users, InFlight
<1>0. /\ pc \in [Draft -> PC]
      /\ \A p \in DOMAIN files : files[p].by \in Draft \union {User}
  BY DEF BaseInv, TypeOK, Document
<1>1. CASE UNCHANGED vars
  BY <1>1 DEF vars, Rests, Alone, Authors, Walked, Served, InPlace, Unlisted, Links, Leads,
              NameId, Named, Written, PathOf, Parsable, DocumentOf, AdrId, FindingId
<1>2. ASSUME NEW d \in Draft,
             \/ RejectDraft(d)
             \/ \E title \in Title, breaks \in BOOLEAN : StartAdr(d, title, breaks)
             \/ \E slug \in Slug, breaks \in BOOLEAN : StartFinding(d, slug, breaks)
      PROVE  ListInv'
  <2>1. /\ phase = "serve" /\ pc[d] = "new"
        /\ overlap \/ \A e \in Draft : pc[e] \notin InFlight
        /\ \E where \in {"check", "gone"} : pc' = [pc EXCEPT ![d] = where]
        /\ \A e \in Draft \ {d} : subject'[e] = subject[e] /\ number'[e] = number[e] /\ odd'[e] = odd[e]
        /\ UNCHANGED <<kind, overlap, phase, files, rows, walk, ask, users>>
    BY <1>2 DEF RejectDraft, StartAdr, StartFinding, Free, BaseInv, TypeOK
  <2>2. Rests' /\ Alone' /\ Authors' /\ Walked'
    BY <1>0, <2>1 DEF Rests, Alone, Authors, Walked
  <2>3. \A e \in Draft : InPlace(e) => InPlace(e)'
    BY <1>0, <2>1 DEF InPlace, Links, NameId, Named, Written, PathOf, DocumentOf, AdrId, FindingId
  <2>4. \A p \in DOMAIN files : Unlisted(p) => Unlisted(p)'
    BY <1>0, <2>1 DEF Unlisted, Parsable
  <2>5. Served'
    BY <2>1, <2>3, <2>4 DEF Served, Links, Leads
  <2> QED
    BY <2>2, <2>5
<1>3. ASSUME NEW d \in Draft, CheckName(d) \/ WriteFails(d) \/ IndexFails(d) PROVE ListInv'
  <2>1. /\ phase = "serve"
        /\ \/ /\ pc[d] = "check" /\ PathOf(d) \notin DOMAIN files
              /\ pc' = [pc EXCEPT ![d] = "open"]
           \/ /\ pc[d] \in {"check", "open", "fill", "orphan", "index"}
              /\ pc' = [pc EXCEPT ![d] = "failed"]
        /\ UNCHANGED <<kind, overlap, phase, subject, number, odd, files, rows, walk, ask, users>>
    BY <1>3 DEF CheckName, WriteFails, IndexFails, Rests
  <2>2. Rests' /\ Alone' /\ Authors' /\ Walked'
    BY <1>0, <2>1 DEF Rests, Alone, Authors, Walked
  <2>3. ASSUME Served, ~edited, NEW e \in Draft PROVE InPlace(e)'
    BY <1>0, <2>1, <2>3 DEF Served, Leads, InPlace, Links, NameId, Named, Written, PathOf, DocumentOf, AdrId, FindingId
  <2>4. \A p \in DOMAIN files : Unlisted(p) => Unlisted(p)'
    BY <1>0, <2>1 DEF Unlisted, Parsable
  <2>5. Served'
    BY <2>1, <2>3, <2>4 DEF Served, Links, Leads
  <2> QED
    BY <2>2, <2>5
<1>4. ASSUME NEW d \in Draft, OpenFile(d) PROVE ListInv'
  <2> DEFINE p == PathOf(d)
             blank == [id |-> Garbled, by |-> d]
  <2>1. /\ phase = "serve" /\ pc[d] = "open"
        /\ pc' = [pc EXCEPT ![d] = "fill"]
        /\ UNCHANGED <<kind, overlap, phase, subject, number, odd, rows, walk, ask, users>>
    BY <1>4 DEF OpenFile, Rests
  <2>2. /\ DOMAIN files' = DOMAIN files \union {p}
        /\ files'[p] = blank
        /\ \A q \in DOMAIN files \ {p} : files'[q] = files[q]
    BY <1>4 DEF OpenFile, Put
  <2>3. Rests' /\ Alone' /\ Walked'
    BY <1>0, <2>1 DEF Rests, Alone, Walked
  <2>4. Authors'
    BY <1>0, <2>1, <2>2 DEF Authors, PathOf, BaseInv, OwnIds
  <2>5. ASSUME Served, ~edited, NEW e \in Draft PROVE InPlace(e)'
    BY <1>0, <2>1, <2>2, <2>5 DEF Served, Leads, InPlace, Links, NameId, Named, Written, PathOf, DocumentOf, AdrId, FindingId, Authors, Alone
  <2>6. ASSUME Served, ~edited PROVE \A l \in Links' : Leads(l)'
    BY <1>0, <2>1, <2>2, <2>6 DEF Served, Leads, InPlace, Links, Named
  <2>7. ASSUME Served, ~edited, NEW q \in DOMAIN files'
        PROVE  Unlisted(q)' \/ files'[q].id \in DOMAIN rows
    BY <1>0, <2>1, <2>2, <2>7 DEF Served, Unlisted, Parsable
  <2> QED
    BY <2>1, <2>3, <2>4, <2>5, <2>6, <2>7 DEF Served
<1>5. ASSUME NEW d \in Draft, FillFile(d) PROVE ListInv'
  <2> DEFINE p == PathOf(d)
  <2>1. /\ phase = "serve" /\ pc[d] \in {"fill", "orphan"}
        /\ pc' = [pc EXCEPT ![d] = IF pc[d] = "fill" /\ DocumentOf(d).id # Garbled
                                   THEN "index" ELSE "failed"]
        /\ UNCHANGED <<kind, overlap, phase, subject, number, odd, rows, walk, ask, users>>
    BY <1>5 DEF FillFile, Rests
  <2>2. /\ DOMAIN files' = DOMAIN files
        /\ p \in DOMAIN files => files'[p] = DocumentOf(d)
        /\ \A q \in DOMAIN files \ {p} : files'[q] = files[q]
    BY <1>5 DEF FillFile, Put
  <2>3. Rests' /\ Alone' /\ Walked'
    BY <1>0, <2>1 DEF Rests, Alone, Walked
  <2>4. Authors'
    BY <1>0, <2>1, <2>2 DEF Authors, PathOf, BaseInv, OwnIds, DocumentOf
  <2>5. ASSUME Served, ~edited, NEW e \in Draft PROVE InPlace(e)'
    BY <1>0, <2>1, <2>2, <2>5 DEF Served, Leads, InPlace, Links, NameId, Named, Written, PathOf, DocumentOf, AdrId, FindingId, Authors, Alone
  <2>6. ASSUME Served, ~edited PROVE \A l \in Links' : Leads(l)'
    BY <1>0, <2>1, <2>2, <2>6 DEF Served, Leads, InPlace, Links, Named, Written, NameId, DocumentOf, AdrId, FindingId
  <2>7. ASSUME Served, ~edited, NEW q \in DOMAIN files'
        PROVE  Unlisted(q)' \/ files'[q].id \in DOMAIN rows
    BY <1>0, <2>1, <2>2, <2>7 DEF Served, Unlisted, Parsable, DocumentOf
  <2> QED
    BY <2>1, <2>3, <2>4, <2>5, <2>6, <2>7 DEF Served
<1>6. ASSUME NEW d \in Draft, IndexRow(d) \/ Disconnect(d) PROVE ListInv'
  <2> DEFINE p == PathOf(d)
             id == DocumentOf(d).id
  <2>1. /\ phase = "serve" /\ pc[d] \in InFlight
        /\ \E where \in {"done", "failed", "orphan"} :
             /\ pc' = [pc EXCEPT ![d] = where]
             /\ where = "orphan" <=> pc[d] = "fill"
             /\ where = "done" => pc[d] = "index" /\ rows' = Put(rows, id, p)
        /\ pc[d] # "orphan"
        /\ \/ rows' = rows
           \/ pc[d] = "index" /\ rows' = Put(rows, id, p)
        /\ UNCHANGED <<kind, overlap, phase, subject, number, odd, files, walk, ask, users>>
    BY <1>6 DEF IndexRow, Disconnect, Rests, Upserted
  <2>2. \/ rows' = rows
        \/ /\ pc[d] = "index" /\ DOMAIN rows' = DOMAIN rows \union {id}
           /\ rows'[id] = p
           /\ \A i \in DOMAIN rows \ {id} : rows'[i] = rows[i]
    BY <2>1 DEF Put
  <2>3. Rests' /\ Alone' /\ Walked'
    BY <1>0, <2>1 DEF Rests, Alone, Walked
  <2>4. Authors'
    BY <1>0, <2>1 DEF Authors
  <2>5. DOMAIN rows \subseteq DOMAIN rows'
        /\ \A l \in Links' : l \in Links \/ (pc[d] = "index" /\ l = <<id, p>>)
    <3> HIDE DEF id, p
    <3>1. ask' = ask
      BY <2>1 DEF walk
    <3>2. DOMAIN rows \subseteq DOMAIN rows'
      BY <2>2
    <3>3. \A i \in DOMAIN rows' : \/ i \in DOMAIN rows /\ rows'[i] = rows[i]
                                  \/ pc[d] = "index" /\ i = id /\ rows'[i] = p
      BY <2>2
    <3> QED
      BY <3>1, <3>2, <3>3 DEF Links
  <2>6. ASSUME Served, ~edited, pc[d] = "index"
        PROVE  /\ id = NameId(d) /\ p \in DOMAIN files
               /\ files[p].id \in {id} \union (IF overlap THEN {Garbled} ELSE {})
    <3>1. id # Garbled
      BY <2>6 DEF BaseInv, Indexable
    <3>2. id = NameId(d)
      BY <3>1 DEF NameId, DocumentOf, AdrId, FindingId
    <3>3. /\ p \in DOMAIN files /\ files[p].id \in {NameId(d), Garbled}
          /\ ~overlap => files[p] = DocumentOf(d)
      BY <2>1, <2>6 DEF Served, InPlace, Written
    <3> QED
      BY <3>2, <3>3
  <2>7. ASSUME Served, ~edited, NEW e \in Draft PROVE InPlace(e)'
    BY <1>0, <2>1, <2>5, <2>6, <2>7 DEF Served, InPlace, NameId, Named, Written, PathOf, DocumentOf, AdrId, FindingId, Alone
  <2>8. ASSUME Served, ~edited, NEW l \in Links' PROVE Leads(l)'
    BY <2>1, <2>5, <2>6, <2>8 DEF Served, Leads
  <2>9. ASSUME Served, ~edited, NEW q \in DOMAIN files
        PROVE  Unlisted(q)' \/ files[q].id \in DOMAIN rows'
    <3>1. CASE files[q].by = d /\ pc[d] = "index" /\ pc' = [pc EXCEPT ![d] = "done"]
      <4>1. InPlace(d)
        BY <2>1, <2>9 DEF Served
      <4>2. q = p /\ files[p] = DocumentOf(d)
        BY <3>1, <4>1 DEF InPlace, Written
      <4>3. files[q].id = id /\ rows' = Put(rows, id, p)
        BY <1>0, <2>1, <3>1, <4>2
      <4> QED
        BY <2>1, <4>3 DEF Put
    <3>2. CASE files[q].by = d /\ pc'[d] \in {"failed", "orphan"}
      BY <1>0, <2>1, <3>2 DEF Unlisted
    <3>3. CASE files[q].by # d
      BY <1>0, <2>1, <2>5, <2>9, <3>3 DEF Served, Unlisted, Parsable
    <3> QED
      BY <1>0, <2>1, <3>1, <3>2, <3>3
  <2> QED
    BY <2>1, <2>3, <2>4, <2>7, <2>8, <2>9 DEF Served
<1>7. ASSUME GetFile \/ \E id \in DOMAIN rows : GetRow(id) PROVE ListInv'
  <2>1. /\ phase = "serve" /\ Links' \subseteq Links
        /\ UNCHANGED <<kind, overlap, phase, drafts, files, rows, walk, users>>
    BY <1>7 DEF GetRow, GetFile, Links, Rests
  <2> QED
    BY <2>1 DEF Rests, Alone, Authors, Walked, Served, InPlace, Unlisted, Leads,
              NameId, Named, Written, PathOf, Parsable, DocumentOf, AdrId, FindingId
<1>8. CASE StartWalk
  BY <1>8 DEF StartWalk, Unwalked, Rests, Alone, Authors, Walked, Served
<1>9. ASSUME NEW p \in todo, SkipHidden(p) \/ SkipMalformed(p) PROVE ListInv'
  BY <1>9 DEF SkipHidden, SkipMalformed, Unwalked, Rests, Alone, Authors, Walked, Served, Parsable
<1>10. ASSUME NEW p \in todo, IndexFile(p) PROVE ListInv'
  <2>1. /\ DOMAIN rows' = DOMAIN rows \union {files[p].id}
        /\ rows'[files[p].id] = p
        /\ \A i \in DOMAIN rows \ {files[p].id} : rows'[i] = rows[i]
    BY <1>10 DEF IndexFile, Upserted, Put
  <2>2. Rests' /\ Alone' /\ Authors' /\ Served'
    BY <1>10 DEF IndexFile, Rests, Alone, Authors, Served
  <2>3. Walked'
    BY <1>10, <2>1 DEF IndexFile, Walked, Parsable
  <2> QED
    BY <2>2, <2>3
<1>11. ASSUME NEW p \in todo, RefuseOpen(p) PROVE ListInv'
  BY <1>11 DEF RefuseOpen, Rests, Alone, Authors, Walked, Served
<1>12. CASE Prune
  <2>1. Rests' /\ Alone' /\ Authors' /\ Walked'
    BY <1>12 DEF Prune, Rests, Alone, Authors, Walked
  <2>2. /\ DOMAIN rows' = seen
        /\ \A i \in seen : rows'[i] = rows[i]
    BY <1>12 DEF Prune, Walked
  <2>3. \A l \in Links' : l[1] \in seen /\ l[2] = rows[l[1]]
    BY <1>12, <2>2 DEF Prune, Links, Rests
  <2>4. Served'
    BY <1>12, <2>2, <2>3 DEF Prune, Walked, Served, Leads, Unlisted, Parsable, InPlace, Named, Written, Rests
  <2> QED
    BY <2>1, <2>4
<1>13. CASE Crash
  BY <1>0, <1>13 DEF Crash, Rests, Alone, Authors, Walked, Served
<1>14. ASSUME \/ \E p \in UserPaths, id \in UserIds : UserWrites(p, id)
              \/ \E p \in DOMAIN files : UserRemoves(p)
              \/ \E p \in DOMAIN files, q \in UserPaths : UserMoves(p, q)
       PROVE  ListInv'
  <2>1. Edit /\ edits' # 0
    <3>1. Edit
      BY <1>14 DEF UserWrites, UserRemoves, UserMoves
    <3> QED
      BY <3>1 DEF Edit, BaseInv, TypeOK
  <2>2. \A p \in DOMAIN files' :
          files'[p].by = User \/ \E q \in DOMAIN files : files'[p] = files[q]
    <3>1. CASE \E p \in UserPaths, id \in UserIds : UserWrites(p, id)
      BY <3>1 DEF Put, UserWrites
    <3>2. CASE \E p \in DOMAIN files : UserRemoves(p)
      BY <3>2 DEF UserRemoves
    <3>3. ASSUME NEW p \in DOMAIN files, NEW q \in UserPaths, UserMoves(p, q)
          PROVE  \A r \in DOMAIN files' : \E s \in DOMAIN files : files'[r] = files[s]
      BY <3>3 DEF Put, UserMoves
    <3> QED
      BY <1>14, <3>1, <3>2, <3>3
  <2>3. Authors'
    BY <2>1, <2>2 DEF Authors, Edit
  <2> QED
    BY <2>1, <2>3 DEF Edit, Rests, Alone, Walked, Served
<1> QED
  BY <1>1, <1>2, <1>3, <1>4, <1>5, <1>6, <1>7, <1>8, <1>9, <1>10, <1>11, <1>12,
     <1>13, <1>14 DEF Next, Create, Visit

LEMMA AlwaysList == Spec => [](BaseInv /\ ListInv)
<1>1. Init => BaseInv /\ ListInv
  BY InitBase, InitList
<1>2. (BaseInv /\ ListInv) /\ [Next]_vars => (BaseInv /\ ListInv)'
  BY NextBase, NextList
<1> QED
  BY <1>1, <1>2, PTL DEF Spec

-----------------------------------------------------------------------------
(* The number of a new ADR *)

\* When a create has the store to itself, every document that was finished has
\* its row, so the largest id of the index is that of the directory.
LEMMA FreshAtStart ==
    ASSUME BaseInv, ListInv, kind = "adr", phase = "serve", edits = 0, NextId < MaxId,
           \A d \in Draft : pc[d] \notin InFlight,
           NEW p \in DOMAIN files, files[p].id = NextId
    PROVE  Leftover(p)
<1> USE ArtifactStoreAssumption
<1>1. ~edited /\ files[p].by \in Draft /\ p[2] \notin Unwalked
  BY DEF ListInv, Authors, BaseInv, TypeOK, Document
<1>2. NextId \in Number /\ NextId \notin DOMAIN rows
  BY NextIdFacts DEF Number
<1>3. Parsable(p)
  BY <1>2 DEF Parsable, Id
<1>4. Unlisted(p)
  BY <1>1, <1>2 DEF ListInv, Served
<1>5. pc[files[p].by] = "failed"
  BY <1>1, <1>3, <1>4 DEF Unlisted
<1> QED
  BY <1>1, <1>5 DEF Leftover

LEMMA NextFresh ==
    BaseInv /\ ListInv /\ NumberIsFresh /\ [Next]_vars => NumberIsFresh'
<1> SUFFICES ASSUME BaseInv, ListInv, NumberIsFresh, [Next]_vars,
                    NEW d \in Draft,
                    kind' = "adr", pc'[d] \in InFlight, ~overlap', edits' = 0, number'[d] < MaxId,
                    NEW p \in DOMAIN files', files'[p].id = number'[d]
             PROVE  files'[p].by = d \/ Leftover(p)'
  BY DEF NumberIsFresh
<1> USE ArtifactStoreAssumption
<1> USE DEF Goto, drafts, walk, users, InFlight
<1>0. /\ pc \in [Draft -> PC] /\ number \in [Draft -> Number] /\ edits \in 0 .. MaxEdits
      /\ \A q \in DOMAIN files : files[q].by \in Draft \union {User}
  BY DEF BaseInv, TypeOK, Document
<1>00. \A e \in Draft : pc[e] \in InFlight /\ ~overlap /\ kind = "adr" /\ edits = 0 /\ number[e] < MaxId
          => \A q \in DOMAIN files : files[q].id = number[e] => files[q].by = e \/ Leftover(q)
  BY DEF NumberIsFresh
<1>1. CASE UNCHANGED vars
  BY <1>00, <1>1 DEF vars, Leftover
<1>2. ASSUME NEW e \in Draft, NEW title \in Title, NEW breaks \in BOOLEAN,
             StartAdr(e, title, breaks)
      PROVE  files'[p].by = d \/ Leftover(p)'
  <2>1. /\ phase = "serve" /\ kind = "adr" /\ ~overlap /\ edits = 0 /\ files' = files
        /\ \A c \in Draft : pc[c] \notin InFlight
        /\ pc[e] = "new" /\ pc' = [pc EXCEPT ![e] = "check"]
        /\ number' = [number EXCEPT ![e] = NextId]
    BY <1>2 DEF StartAdr, Free
  <2>2. e = d /\ number'[d] = NextId
    BY <1>0, <2>1
  <2>3. Leftover(p)
    BY <2>1, <2>2, FreshAtStart
  <2> QED
    BY <1>0, <2>1, <2>3 DEF Leftover
<1>3. ASSUME NEW e \in Draft, e # d, pc[d] \in InFlight,
             \/ RejectDraft(e) \/ (\E slug \in Slug, breaks \in BOOLEAN : StartFinding(e, slug, breaks))
             \/ CheckName(e) \/ OpenFile(e) \/ FillFile(e) \/ WriteFails(e)
             \/ IndexRow(e) \/ IndexFails(e) \/ Disconnect(e)
      PROVE  FALSE
  <2>1. kind = "adr" /\ ~overlap
    BY <1>3 DEF RejectDraft, StartFinding, CheckName, OpenFile, FillFile, WriteFails,
                IndexRow, IndexFails, Disconnect
  <2>2. pc[e] \notin InFlight
    BY <1>3, <2>1 DEF ListInv, Alone
  <2> QED
    BY <1>3, <2>1, <2>2 DEF RejectDraft, StartFinding, Free, CheckName, OpenFile, FillFile,
                WriteFails, IndexRow, IndexFails, Disconnect
<1>4. ASSUME OpenFile(d) \/ FillFile(d)
      PROVE  files'[p].by = d \/ Leftover(p)'
  <2>1. /\ kind = "adr" /\ ~overlap /\ edits = 0 /\ number' = number
        /\ pc[d] \in InFlight
        /\ \A c \in Draft \ {d} : pc'[c] = pc[c]
    BY <1>0, <1>4 DEF OpenFile, FillFile
  <2>2. files'[p].by = d \/ (p \in DOMAIN files /\ files'[p] = files[p])
    BY <1>4 DEF OpenFile, FillFile, Put, DocumentOf
  <2>3. CASE p \in DOMAIN files /\ files'[p] = files[p]
    BY <1>0, <1>00, <2>1, <2>3 DEF Leftover
  <2> QED
    BY <2>2, <2>3
<1>5. ASSUME CheckName(d) \/ WriteFails(d) \/ IndexRow(d) \/ IndexFails(d) \/ Disconnect(d)
      PROVE  files'[p].by = d \/ Leftover(p)'
  <2>1. /\ kind = "adr" /\ ~overlap /\ edits = 0 /\ number' = number /\ files' = files
        /\ pc[d] \in InFlight
        /\ \A c \in Draft \ {d} : pc'[c] = pc[c]
    BY <1>0, <1>5 DEF CheckName, WriteFails, IndexRow, IndexFails, Disconnect
  <2> QED
    BY <1>0, <1>00, <2>1 DEF Leftover
<1>6. ASSUME RejectDraft(d) \/ \E slug \in Slug, breaks \in BOOLEAN : StartFinding(d, slug, breaks)
      PROVE  FALSE
  BY <1>0, <1>6 DEF RejectDraft, StartFinding
<1>7. ASSUME \/ GetFile \/ StartWalk \/ Prune
             \/ \E id \in DOMAIN rows : GetRow(id)
             \/ \E q \in todo : Visit(q)
      PROVE  files'[p].by = d \/ Leftover(p)'
  <2>1. UNCHANGED <<kind, overlap, drafts, files, edits>>
    BY <1>7 DEF GetFile, StartWalk, Prune, GetRow, Visit, SkipHidden, SkipMalformed, IndexFile, RefuseOpen
  <2> QED
    BY <1>00, <2>1 DEF Leftover
<1>8. CASE Crash
  BY <1>0, <1>8 DEF Crash
<1>9. ASSUME Edit PROVE FALSE
  BY <1>0, <1>9 DEF Edit
<1>10. ASSUME NEW e \in Draft, Create(e), e # d, pc[d] \notin InFlight PROVE FALSE
  <2>1. pc'[d] = pc[d]
    BY <1>0, <1>10 DEF Create, RejectDraft, StartAdr, StartFinding, CheckName, OpenFile, FillFile,
                       WriteFails, IndexRow, IndexFails, Disconnect
  <2> QED
    BY <1>10, <2>1
<1>11. ASSUME NEW e \in Draft, Create(e) PROVE files'[p].by = d \/ Leftover(p)'
  BY <1>2, <1>3, <1>4, <1>5, <1>6, <1>10, <1>11 DEF Create
<1>12. ASSUME \/ \E q \in UserPaths, id \in UserIds : UserWrites(q, id)
              \/ \E q \in DOMAIN files : UserRemoves(q)
              \/ \E q \in DOMAIN files, r \in UserPaths : UserMoves(q, r)
       PROVE  FALSE
  BY <1>9, <1>12 DEF UserWrites, UserRemoves, UserMoves
<1> QED
  BY <1>1, <1>7, <1>8, <1>11, <1>12 DEF Next

-----------------------------------------------------------------------------
(* The theorems *)

\* Every name, id, row and number stays in its range: in particular the number
\* allocate_next_id gives is a u32, however large the ids in the index are.
THEOREM TypesHold == Spec => []TypeOK
<1>1. BaseInv => TypeOK
  BY DEF BaseInv
<1> QED
  BY <1>1, AlwaysBase, PTL

\* list_adrs and list_findings name files that are there and have the id of
\* their row, until users edit the directory.
THEOREM RowsLead == Spec => []RowsLeadToFiles
<1>1. BaseInv /\ ListInv => RowsLeadToFiles
  <2> SUFFICES ASSUME ListInv, phase = "serve", ~edited, NEW i \in DOMAIN rows
               PROVE  rows[i] \in DOMAIN files /\ (files[rows[i]].id = i \/ overlap)
    BY DEF RowsLeadToFiles
  <2>1. Leads(<<i, rows[i]>>)
    BY DEF ListInv, Served, Links
  <2> QED
    BY <2>1 DEF Leads
<1> QED
  BY <1>1, AlwaysList, PTL

\* reindex and the creates after it leave no document of the directory out.
THEOREM DocumentsAreListed == Spec => []FilesAreListed
<1>1. BaseInv /\ ListInv => FilesAreListed
  BY DEF FilesAreListed, ListInv, Served, Unlisted, Listed
<1> QED
  BY <1>1, AlwaysList, PTL

\* What a create acknowledged with 201 is led to by the list, across restarts,
\* for as long as no overlapping create garbles the file that its row names.
THEOREM AckedStaysListed == Spec => []AckedIsListed
<1> SUFFICES ASSUME BaseInv, ListInv PROVE AckedIsListed
  BY AlwaysList, PTL
<1> SUFFICES ASSUME NEW d \in Draft,
                    phase = "serve", ~edited, pc[d] = "done",
                    PathOf(d) \in DOMAIN files, files[PathOf(d)].by = d, Parsable(PathOf(d)),
                    PathOf(d)[2] \notin Unwalked,
                    \A q \in DOMAIN files \ {PathOf(d)} : files[q].id # files[PathOf(d)].id
             PROVE  LET id == files[PathOf(d)].id
                    IN  /\ id \in DOMAIN rows
                        /\ rows[id] = PathOf(d) \/ (overlap /\ files[rows[id]].id = Garbled)
  BY DEF AckedIsListed, Listed
<1> DEFINE id == files[PathOf(d)].id
<1>1. id \in DOMAIN rows
  BY DEF ListInv, Served, Unlisted, InFlight
<1>2. Leads(<<id, rows[id]>>)
  BY <1>1 DEF ListInv, Served, Links
<1>3. /\ rows[id] \in DOMAIN files
      /\ files[rows[id]].id = id \/ (overlap /\ files[rows[id]].id = Garbled)
  BY <1>2 DEF Leads
<1> QED
  BY <1>1, <1>3

\* Without overlapping creates or edits, and below the largest number, the one
\* allocate_next_id gives is no other finished document's, although it only
\* looks at the index.
THEOREM NewNumberIsFresh == Spec => []NumberIsFresh
<1>1. Init => NumberIsFresh
  BY DEF Init, NumberIsFresh, InFlight
<1>2. BaseInv /\ ListInv /\ NumberIsFresh /\ [Next]_vars => NumberIsFresh'
  BY NextFresh
<1> QED
  BY <1>1, <1>2, AlwaysList, PTL DEF Spec

\* A get that has read its row comes to the document of that id, although the
\* lock on the index is released before the file is read.
THEOREM GetsFindAsked == Spec => []GetFindsAsked
<1>1. BaseInv /\ ListInv => GetFindsAsked
  <2> SUFFICES ASSUME ListInv, ask # NoAsk, ~edited
               PROVE  /\ ask[2] \in DOMAIN files
                      /\ files[ask[2]].id \in {ask[1]} \union (IF overlap THEN {Garbled} ELSE {})
    BY DEF GetFindsAsked
  <2>1. phase = "serve"
    BY DEF ListInv, Rests
  <2>2. Leads(ask)
    BY <2>1 DEF ListInv, Served, Links
  <2> QED
    BY <2>1, <2>2 DEF Leads
<1> QED
  BY <1>1, AlwaysList, PTL
=============================================================================
