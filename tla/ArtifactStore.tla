--------------------------- MODULE ArtifactStore ---------------------------
(***************************************************************************)
(* The markdown artifacts of studio-store: ADRs, numbered by the store, and *)
(* findings, keyed by the slug their author chose.  The files are the       *)
(* truth; a SQLite index of them answers the lists and leads get to a file. *)
(*                                                                         *)
(* A create writes the file, then the index row, in separate steps; the     *)
(* index follows what users do to the directory only at Store::open, which  *)
(* walks it before the server serves.  `kind` says which of the two stores  *)
(* a behaviour is about: they share nothing but the order of their walks.   *)
(* A document is its id and its author; that two writers of one file may    *)
(* leave a mixed body behind is below this model.                           *)
(***************************************************************************)
EXTENDS Integers, FiniteSets

CONSTANTS
    Draft,       \* POST requests
    Title,       \* titles of ADR drafts, as slugify leaves them
    Slug,        \* finding_ids of finding drafts; no two name one file
    YamlId,      \* what `finding_id: <slug>` reads back as
    Hidden,      \* slugs whose file the walk skips: README and _names
    Outside,     \* slugs with a path, ../x, whose file is not in the directory
    MinNewId,    \* MIN_NEW_ADR_ID
    MaxId,       \* u32::MAX
    Garbled,     \* the id of a document that does not parse
    Unreadable,  \* the id of a file that is no UTF-8 text
    User,        \* the author of what the store did not write
    NoAsk,       \* no get is under way
    UserPath,    \* bound: names users write to
    UserId,      \* bound: ids users write
    MaxEdits     \* bound: edits by users in one behaviour

Number == 0 .. MaxId
Id == Number \union Slug

\* File names: <number>-<title>.md for ADRs, <slug>.md for findings.  Nothing
\* looks at what a finding_id consists of before it is joined to the directory.
Path == Number \X (Title \union Slug)

\* What the walk never indexes.
Unwalked == Hidden \union Outside

\* A name that starts with a number is never README.md or _template.md.
ASSUME ArtifactStoreAssumption ==
    /\ MinNewId \in Nat \ {0} /\ MaxId \in Nat /\ MinNewId <= MaxId
    /\ Slug # {} /\ YamlId \in [Slug -> Slug \union {Garbled}]
    /\ Unwalked \subseteq Slug /\ Title \intersect Unwalked = {}
    /\ {Garbled, Unreadable} \intersect Id = {}
    /\ User \notin Draft
    /\ UserPath \subseteq Path
    /\ MaxEdits \in Nat

Document == [id : Id \union {Garbled, Unreadable}, by : Draft \union {User}]

VARIABLES
    kind,      \* "adr" or "finding"
    overlap,   \* whether creates may run at the same time
    phase,     \* down, in the walk of Store::open, or serving
    pc,        \* where each create stands
    subject,   \* the title or slug of its draft
    number,    \* the number allocated to it (0 for findings)
    odd,       \* whether one of its other fields breaks the frontmatter
    files,     \* the directory, and files outside: a function from names
    rows,      \* the index: a function from ids to paths
    todo,      \* the names the walk has still to visit
    seen,      \* the ids it has upserted
    ask,       \* the id and the path of a get between row and file
    edited,    \* whether users edited the directory since the walk began
    edits      \* edits so far

drafts == <<pc, subject, number, odd>>
walk == <<todo, seen>>
users == <<edited, edits>>
vars == <<kind, overlap, phase, drafts, files, rows, walk, ask, users>>

-----------------------------------------------------------------------------
(* Helpers *)

PC == {"new", "check", "open", "fill", "orphan", "index", "done", "failed", "gone"}

InFlight == {"check", "open", "fill", "orphan", "index"}

Goto(d, where) == pc' = [pc EXCEPT ![d] = where]

PathOf(d) == <<number[d], subject[d]>>

Put(f, x, y) == [z \in DOMAIN f \union {x} |-> IF z = x THEN y ELSE f[z]]

Upserted(id, path) == Put(rows, id, path)

\* list_adrs, list_findings: the rows alone, no file is read.
Listed == rows

Parsable(p) == files[p].id \notin {Garbled, Unreadable}

-----------------------------------------------------------------------------
(* What the two creates write *)

\* Mutant: the sum is not saturated.
NextIdWraps ==
    LET Above(n) == \A i \in DOMAIN rows : i <= n
        n == IF rows = <<>> THEN 0 ELSE CHOOSE i \in DOMAIN rows : Above(i)
    IN  IF n + 1 < MinNewId THEN MinNewId ELSE n + 1

\* Mutant: the largest id itself.
NextIdIsMax ==
    LET Above(n) == \A i \in DOMAIN rows : i <= n
        n == IF rows = <<>> THEN 0 ELSE CHOOSE i \in DOMAIN rows : Above(i)
    IN  IF n < MinNewId THEN MinNewId ELSE n

\* allocate_next_id: after the largest id of the index, not of the directory.
NextId ==
    LET Above(n) == \A i \in DOMAIN rows : i <= n
        n == IF rows = <<>> THEN 0 ELSE CHOOSE i \in DOMAIN rows : Above(i)
        next == IF n < MaxId THEN n + 1 ELSE MaxId
    IN  IF next < MinNewId THEN MinNewId ELSE next

\* The number is quoted; a title, a status or a date may still break the
\* frontmatter, the title because only a few of its characters are escaped.
AdrId(d) == IF odd[d] THEN Garbled ELSE number[d]

\* The slug is written unquoted: `finding_id: 12` is no string and does not
\* parse, `finding_id: a #b` is the id a.  The other fields are raw as well.
FindingId(d) == IF odd[d] THEN Garbled ELSE YamlId[subject[d]]

\* What the id a user wrote reads back as: an adr_id may be quoted or not, but
\* has to fit in 32 bits.
ReadId(id) == IF id \in Id \union {Unreadable} THEN id ELSE Garbled

DocumentOf(d) == [id |-> IF kind = "adr" THEN AdrId(d) ELSE FindingId(d), by |-> d]

-----------------------------------------------------------------------------
(* POST /api/adr and POST /api/finding *)

Free(d) ==
    /\ phase = "serve"
    /\ pc[d] = "new"
    /\ overlap \/ \A e \in Draft : pc[e] \notin InFlight

\* An empty title or finding_id, or a body that is not the expected JSON.
RejectDraft(d) ==
    /\ Free(d)
    /\ Goto(d, "gone")
    /\ UNCHANGED <<kind, overlap, phase, subject, number, odd, files, rows, walk, ask, users>>

StartAdr(d, title, breaks) ==
    /\ kind = "adr"
    /\ Free(d)
    /\ subject' = [subject EXCEPT ![d] = title]
    /\ odd' = [odd EXCEPT ![d] = breaks]
    /\ number' = [number EXCEPT ![d] = NextId]
    /\ Goto(d, "check")
    /\ UNCHANGED <<kind, overlap, phase, files, rows, walk, ask, users>>

StartFinding(d, slug, breaks) ==
    /\ kind = "finding"
    /\ Free(d)
    /\ subject' = [subject EXCEPT ![d] = slug]
    /\ odd' = [odd EXCEPT ![d] = breaks]
    /\ Goto(d, "check")
    /\ UNCHANGED <<kind, overlap, phase, number, files, rows, walk, ask, users>>

\* try_exists: AlreadyExists, 409.
CheckName(d) ==
    /\ pc[d] = "check"
    /\ Goto(d, IF PathOf(d) \in DOMAIN files THEN "failed" ELSE "open")
    /\ UNCHANGED <<kind, overlap, phase, subject, number, odd, files, rows, walk, ask, users>>

\* tokio::fs::write in the blocking pool: the name is created or truncated ...
OpenFile(d) ==
    /\ pc[d] = "open"
    /\ files' = Put(files, PathOf(d), [id |-> Garbled, by |-> d])
    /\ Goto(d, "fill")
    /\ UNCHANGED <<kind, overlap, phase, subject, number, odd, rows, walk, ask, users>>

\* ... and filled, also after the caller has left.  The document is parsed
\* again from memory, and an id that did not survive is an error that leaves
\* the file behind.
FillFile(d) ==
    /\ pc[d] \in {"fill", "orphan"}
    /\ files' = IF PathOf(d) \in DOMAIN files
                THEN Put(files, PathOf(d), DocumentOf(d))
                ELSE files
    /\ Goto(d, IF pc[d] = "fill" /\ DocumentOf(d).id # Garbled THEN "index" ELSE "failed")
    /\ UNCHANGED <<kind, overlap, phase, subject, number, odd, rows, walk, ask, users>>

\* The file cannot be created, or not be written to its end.
WriteFails(d) ==
    /\ pc[d] \in {"open", "fill", "orphan"}
    /\ Goto(d, "failed")
    /\ UNCHANGED <<kind, overlap, phase, subject, number, odd, files, rows, walk, ask, users>>

\* upsert_index, then 201.
IndexRow(d) ==
    /\ pc[d] = "index"
    /\ rows' = Upserted(DocumentOf(d).id, PathOf(d))
    /\ Goto(d, "done")
    /\ UNCHANGED <<kind, overlap, phase, subject, number, odd, files, walk, ask, users>>

\* Mutant: the result of the statement is not looked at.
IndexUnchecked(d) ==
    /\ pc[d] = "index"
    /\ Goto(d, "done")
    /\ UNCHANGED <<kind, overlap, phase, subject, number, odd, files, rows, walk, ask, users>>

\* SQLite refuses the row; the file stays.
IndexFails(d) ==
    /\ pc[d] = "index"
    /\ Goto(d, "failed")
    /\ UNCHANGED <<kind, overlap, phase, subject, number, odd, files, rows, walk, ask, users>>

\* The client leaves.  What the blocking pool or SQLite's thread has been
\* given is done all the same; nothing after it is.
Disconnect(d) ==
    /\ pc[d] \in InFlight \ {"orphan"}
    /\ Goto(d, IF pc[d] = "fill" THEN "orphan" ELSE "failed")
    /\ rows' \in {rows} \union
         (IF pc[d] = "index" THEN {Upserted(DocumentOf(d).id, PathOf(d))} ELSE {})
    /\ UNCHANGED <<kind, overlap, phase, subject, number, odd, files, walk, ask, users>>

-----------------------------------------------------------------------------
(* GET /api/adr/:id *)

\* The row says where the document is ...
GetRow(id) ==
    /\ phase = "serve"
    /\ ask = NoAsk
    /\ id \in DOMAIN rows
    /\ ask' = <<id, rows[id]>>
    /\ UNCHANGED <<kind, overlap, phase, drafts, files, rows, walk, users>>

\* ... and the file, what it is: a document, an error, or not found.
GetFile ==
    /\ ask # NoAsk
    /\ ask' = NoAsk
    /\ UNCHANGED <<kind, overlap, phase, drafts, files, rows, walk, users>>

-----------------------------------------------------------------------------
(* Store::open: reindex *)

\* read_dir of the directory, and of no other.
StartWalk ==
    /\ phase = "down"
    /\ phase' = "walk"
    /\ todo' = {p \in DOMAIN files : p[2] \notin Outside}
    /\ seen' = {}
    /\ edited' = FALSE
    /\ UNCHANGED <<kind, overlap, drafts, files, rows, ask, edits>>

\* README.md and _template.md are skipped, whatever is in them.
SkipHidden(p) ==
    /\ phase = "walk"
    /\ p \in todo
    /\ p[2] \in Hidden
    /\ todo' = todo \ {p}
    /\ UNCHANGED <<kind, overlap, phase, drafts, files, rows, seen, ask, users>>

\* Mutant: a document that does not parse ends the walk.
SkipRest(p) ==
    /\ phase = "walk"
    /\ p \in todo \ {q \in todo : q[2] \in Hidden}
    /\ p \in DOMAIN files
    /\ files[p].id = Garbled
    /\ todo' = {}
    /\ UNCHANGED <<kind, overlap, phase, drafts, files, rows, seen, ask, users>>

\* So are documents that do not parse.
SkipMalformed(p) ==
    /\ phase = "walk"
    /\ p \in todo \ {q \in todo : q[2] \in Hidden}
    /\ p \in DOMAIN files
    /\ files[p].id = Garbled
    /\ todo' = todo \ {p}
    /\ UNCHANGED <<kind, overlap, phase, drafts, files, rows, seen, ask, users>>

\* Mutant: an ADR is indexed under the number in its name.
IndexByName(p) ==
    /\ phase = "walk"
    /\ p \in todo \ {q \in todo : q[2] \in Hidden}
    /\ p \in DOMAIN files
    /\ Parsable(p)
    /\ LET id == IF kind = "adr" THEN p[1] ELSE files[p].id
       IN  rows' = Upserted(id, p) /\ seen' = seen \union {id}
    /\ todo' = todo \ {p}
    /\ UNCHANGED <<kind, overlap, phase, drafts, files, ask, users>>

\* The others are upserted; of two that have one id the later one wins.
IndexFile(p) ==
    /\ phase = "walk"
    /\ p \in todo \ {q \in todo : q[2] \in Hidden}
    /\ p \in DOMAIN files
    /\ Parsable(p)
    /\ rows' = Upserted(files[p].id, p)
    /\ seen' = seen \union {files[p].id}
    /\ todo' = todo \ {p}
    /\ UNCHANGED <<kind, overlap, phase, drafts, files, ask, users>>

\* A file that cannot be read, or went away since read_dir, is an error:
\* Store::open fails and the server does not start.
RefuseOpen(p) ==
    /\ phase = "walk"
    /\ p \in todo \ {q \in todo : q[2] \in Hidden}
    /\ p \in DOMAIN files => files[p].id = Unreadable
    /\ phase' = "down"
    /\ UNCHANGED <<kind, overlap, drafts, files, rows, walk, ask, users>>

\* Mutant: rows without a file are kept.
PruneNothing ==
    /\ phase = "walk"
    /\ todo = {}
    /\ phase' = "serve"
    /\ seen' = {}
    /\ UNCHANGED <<kind, overlap, drafts, files, rows, todo, ask, users>>

\* prune_index: the rows of ids that were not seen.
Prune ==
    /\ phase = "walk"
    /\ todo = {}
    /\ rows' = [i \in DOMAIN rows \intersect seen |-> rows[i]]
    /\ phase' = "serve"
    /\ seen' = {}
    /\ UNCHANGED <<kind, overlap, drafts, files, todo, ask, users>>

\* The process dies, or a statement of Store::open fails.
Crash ==
    /\ phase # "down"
    /\ phase' = "down"
    /\ pc' = [d \in Draft |-> IF pc[d] \in {"new", "done"} THEN pc[d] ELSE "gone"]
    /\ ask' = NoAsk
    /\ UNCHANGED <<kind, overlap, subject, number, odd, files, rows, walk, users>>

-----------------------------------------------------------------------------
(* Users and their tools *)

Edit ==
    /\ edits < MaxEdits
    /\ edits' = edits + 1
    /\ edited' = TRUE
    /\ UNCHANGED <<kind, overlap, phase, drafts, rows, walk, ask>>

UserWrites(p, id) == Edit /\ files' = Put(files, p, [id |-> ReadId(id), by |-> User])

UserRemoves(p) ==
    /\ Edit
    /\ p \in DOMAIN files
    /\ files' = [q \in DOMAIN files \ {p} |-> files[q]]

UserMoves(p, q) ==
    /\ Edit
    /\ p \in DOMAIN files /\ q # p
    /\ files' = LET kept == [r \in DOMAIN files \ {p} |-> files[r]]
                IN  Put(kept, q, files[p])

-----------------------------------------------------------------------------

Init ==
    /\ kind \in {"adr", "finding"}
    /\ overlap \in BOOLEAN
    /\ phase = "down"
    /\ pc = [d \in Draft |-> "new"]
    /\ subject = [d \in Draft |-> CHOOSE s \in Slug : TRUE]
    /\ number = [d \in Draft |-> 0]
    /\ odd = [d \in Draft |-> FALSE]
    /\ files = <<>>
    /\ rows = <<>>
    /\ todo = {}
    /\ seen = {}
    /\ ask = NoAsk
    /\ edited = FALSE
    /\ edits = 0

Create(d) ==
    \/ RejectDraft(d)
    \/ \E title \in Title, breaks \in BOOLEAN : StartAdr(d, title, breaks)
    \/ \E slug \in Slug, breaks \in BOOLEAN : StartFinding(d, slug, breaks)
    \/ CheckName(d) \/ OpenFile(d) \/ FillFile(d) \/ WriteFails(d)
    \/ IndexRow(d) \/ IndexFails(d) \/ Disconnect(d)

Visit(p) == SkipHidden(p) \/ SkipMalformed(p) \/ IndexFile(p) \/ RefuseOpen(p)

UserPaths == {p \in UserPath : (p[1] = 0) = (kind = "finding")}
UserIds == {i \in UserId : i \in {Garbled, Unreadable} \/ (i \in Slug) = (kind = "finding")}

Next ==
    \/ \E d \in Draft : Create(d)
    \/ \E id \in DOMAIN rows : GetRow(id)
    \/ GetFile
    \/ StartWalk \/ (\E p \in todo : Visit(p)) \/ Prune \/ Crash
    \/ \E p \in UserPaths, id \in UserIds : UserWrites(p, id)
    \/ \E p \in DOMAIN files : UserRemoves(p)
    \/ \E p \in DOMAIN files, q \in UserPaths : UserMoves(p, q)

Spec == Init /\ [][Next]_vars

-----------------------------------------------------------------------------
(* Properties *)

\* The shape of the state.
TypeOK ==
    /\ kind \in {"adr", "finding"} /\ overlap \in BOOLEAN
    /\ phase \in {"down", "walk", "serve"}
    /\ pc \in [Draft -> PC]
    /\ subject \in [Draft -> Title \union Slug]
    /\ number \in [Draft -> Number]
    /\ odd \in [Draft -> BOOLEAN]
    /\ DOMAIN files \subseteq Path
    /\ \A p \in DOMAIN files : files[p] \in Document
    /\ DOMAIN rows \subseteq Id
    /\ \A i \in DOMAIN rows : rows[i] \in Path
    /\ todo \subseteq Path
    /\ seen \subseteq Id
    /\ ask \in (Id \X Path) \union {NoAsk}
    /\ edited \in BOOLEAN
    /\ edits \in 0 .. MaxEdits

\* Until users edit the directory again, every row of the list leads to a file
\* with that id, after whatever crashes, failed creates and edits before the
\* boot, and creates never truncate a listed file unless two run at once.
RowsLeadToFiles ==
    phase = "serve" /\ ~edited =>
        \A i \in DOMAIN rows :
            /\ rows[i] \in DOMAIN files
            /\ files[rows[i]].id = i \/ overlap

\* And every document of the directory is in the list, but for the names the
\* walk skips and for creates that have not come to their row or failed since
\* the boot.  Files outside the directory are in no list that a boot has made.
FilesAreListed ==
    phase = "serve" /\ ~edited =>
        \A p \in DOMAIN files :
            \/ ~Parsable(p) \/ p[2] \in Unwalked
            \/ files[p].by # User /\ pc[files[p].by] \in InFlight \union {"failed"}
            \/ files[p].id \in DOMAIN Listed

\* A create that answered 201 leads the list's row of its id, across restarts,
\* as long as its file is there, in the directory and not skipped by the walk,
\* and no other file claims the id.  (A third create with the id, and one that
\* then garbles its file, may leave the row at that file.)
AckedIsListed ==
    \A d \in Draft :
        LET p == PathOf(d)
        IN  /\ phase = "serve" /\ ~edited
            /\ pc[d] = "done"
            /\ p \in DOMAIN files /\ files[p].by = d /\ Parsable(p)
            /\ p[2] \notin Unwalked
            /\ \A q \in DOMAIN files \ {p} : files[q].id # files[p].id
            => /\ files[p].id \in DOMAIN Listed
               /\ \/ Listed[files[p].id] = p
                  \/ overlap /\ files[Listed[files[p].id]].id = Garbled

\* What a create has left behind without its row.
Leftover(p) == files[p].by # User /\ pc[files[p].by] \in {"failed", "gone"}

\* The number allocated to an ADR belongs to no other document, if creates do
\* not overlap, users have not edited, no failed create left a file, and the
\* numbers are not used up.
NumberIsFresh ==
    \A d \in Draft :
        kind = "adr" /\ pc[d] \in InFlight /\ ~overlap /\ edits = 0 /\ number[d] < MaxId =>
            \A p \in DOMAIN files :
                files[p].id = number[d] => files[p].by = d \/ Leftover(p)

\* "Creating with an already-used adr_id must surface a StoreError": no two
\* creates that were acknowledged have one number.
AckedNumbersAreUnique ==
    kind = "adr" /\ edits = 0 =>
        \A d, e \in Draft :
            pc[d] = "done" /\ pc[e] = "done" /\ number[d] = number[e] => d = e

\* Between its row and its file a get does not come to another document:
\* get(id) answers the document with that id or, when two creates write one
\* name, an error.
GetFindsAsked ==
    ask # NoAsk /\ ~edited =>
        /\ ask[2] \in DOMAIN files
        /\ files[ask[2]].id \in {ask[1]} \union (IF overlap THEN {Garbled} ELSE {})
=============================================================================
