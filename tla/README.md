# Cobrust Studio in TLA+

This directory holds TLA+ models of Cobrust Studio (`crates/`, and the list
pages of the web UI), the TLC configurations that check them on small instances,
and proofs of the main properties for the TLA+ proof system.

## 1. The system

Studio is one server process (`studio-server`) over two libraries
(`studio-router`, `studio-store`), used by a web UI. Everything is async Rust on
tokio: each HTTP request is a task of its own, and state is shared through
`AppState`.

| component | state it keeps | operations | what is hard |
|---|---|---|---|
| **LLM router** (`studio-router/src/router.rs`) | preferred list, EWMA latency tracker, handles on cache and ledger | `dispatch_ctx` | retries within two budgets, early returns on I/O errors, concurrent dispatches, callers that disconnect |
| **Completion cache** (`cache.rs`) | one file per key | `get`, `put` | temp file shared by all writers of a key, process crash |
| **Token ledger file** (`studio-router/src/ledger.rs`) | JSONL file; a mutex and a write buffer per handle | `open`, `append` | several handles on one file, dropped callers, short writes, torn lines |
| **Ledger view** (`studio-store/src/ledger.rs`) | SQLite rows mirrored from the JSONL | `sync_from_jsonl`, `recent` | clear and refill are not one transaction; partial trailing line |
| **Session** (`routes/login.rs`, `routes/auth.rs`, `lib.rs`, `persist.rs`, `secret.rs`, `studio-store/src/session.rs`) | in-memory key, sealed endpoint blob in SQLite, passphrase in a keychain entry or a file | login, logout (`purge`), set-endpoint, auto-unlock, `--dev-api-key` | three stores changed one after the other with no lock around the sequence; crash between them |
| **ADR store** (`studio-store/src/adr.rs`) | Markdown files and their SQLite index | create, get, list, reindex | number allocation, file and row written separately, edits by users |
| **Finding store** (`finding.rs`) | the same, keyed by slug | create, get, list, reindex | ids that read back differently |
| **Watcher, event hub, SSE** (`watch.rs`, `sse.rs`, the bridge in `lib.rs`, `routes/events.rs`) | bounded queue, debounce map, broadcast ring | notify callback, bridge task, subscribers | full queue, hidden changes, lagging subscribers |
| **Agent loop** (`agent_loop.rs`, `routes/agent_turn.rs`, `routes/dispatch.rs`, `routes/models.rs`) | transcript, iteration counter, collected events | model turn, tool call, one-shot dispatch, list of models | gates, timeouts, work that outlives its request, credentials resolved once |
| **Router construction** (`router_init.rs`, `config.rs`, `resolve_router`) | the static router | read the configuration, register, build | which credential is used when |
| **Wire adapters** (`anthropic.rs`, `openai.rs`) | HTTP client | `complete` | what the cache key must contain |
| Web UI, HTTP shell, CLI, embedded files, Tauri shell | none of their own | routing, rendering | the pages' subscription |

How they meet: a request resolves a router (a fresh one from the decrypted
session blob, or the static one from `studio.toml`), runs `dispatch_ctx`, and
streams the answer as SSE; a turn does so up to sixteen times and executes tools
in between. All routers share one cache directory. The router appends to the
JSONL ledger, which the store mirrors into SQLite when it is opened. Creates and
editors change files under `docs/agent`; the watchers feed that through the
bridges into the event hub, and pages list again.

## 2. What makes each component correct

* Router: attempts stay within the retry policy; permanent failures are not
  retried; the ledger misses no attempt in the middle of a try; answers are
  served under the entry that produced them; every dispatch ends.
* Cache: a reader sees a whole answer or none, whoever writes and crashes.
* Wire adapters: requests that share a cache key would have been sent alike.
* Ledger: what was acknowledged is in the view after a restart, once; the server
  refuses to start only where something was appended to a torn line; the newest
  entries are answered first; no lock is left behind.
* Session: an authenticated server can open the stored blob; a stored
  passphrase opens it too, so auto-unlock survives a restart; after a logout
  with purge nothing is left to unlock with; no login takes an endpoint over.
* ADR and finding stores: list and directory agree; what was acknowledged stays
  listed; a number is handed out once; a get finds what was asked for.
* Watcher and events: what was announced is shown, or the page shows an error; a
  slow client delays nobody.
* Agent loop: answers are to the messages asked and come from the endpoint that
  was resolved, or from one of its name; tools stay inside the gates; every effect
  has its result; every request ends.

## 3. Modules, and how they follow the code

| module | what it is |
|---|---|
| `RouterDispatch` | the router: `dispatch_ctx`, `order_preferred`, `dispatch_ordered`, `try_provider` |
| `RouterDispatchProofs` | its theorems |
| `CacheFile` | one cache key as names, inodes and blocks: `Cache::get`, `Cache::put` |
| `AtomicCache` | what a cache key promises: an atomic register |
| `CacheFileProofs` | its theorems, the refinement of `AtomicCache` among them |
| `WireAdapters` | the bodies sent, the outcomes of an exchange, the cache key; its theorem |
| `LedgerFile` | the JSONL file, its handles and the blocking pool: `Ledger::open`, `append` |
| `LedgerView` | the SQLite view over `LedgerFile`: `Store::open`, `GET /api/ledger/recent` |
| `LedgerProofs` | theorems about both |
| `ArtifactStore` | ADRs and findings: create, get, list, reindex, edits by users |
| `ArtifactStoreProofs` | its theorems |
| `EventFeed` | watchers, bridges, event hub, SSE streams and the pages that list |
| `EventFeedProofs` | its theorems |
| `RouterSource` | where a request's router comes from, and the cache routers share |
| `AgentTurn` | agent turns, dispatches and lists of models over `RouterSource` |
| `AgentTurnProofs` | theorems about both |
| `Session` | login, logout, set-endpoint, dispatch's key path, persist backends, boot |
| `SessionProofs` | its theorems |
| `MC...` | instances for TLC, one `.cfg` per run |

A step of every module is the code between two awaits, or between two effects
that another task, a crash or a dropped future can separate. Operators marked
`Mutant:` are plausible mistakes in the code next to them; replacing the
definition they follow by the mutant makes a checked property fail.

**RouterDispatch.** `pc[d]` is the await dispatch `d` has reached: the cache
lookup, the provider call (`waiting`), the cache write (`put`), a ledger line
(`recordHit`, `recordOk`, `recordErr`) or the sleep before a retry (`backoff`).
`try[d]` holds `try_provider`'s locals, `order[d]` and `at[d]` the walk of
`dispatch_ordered`, `ledger` and `calls` the lines written and the calls issued
per dispatch and position. Each `?` of `try_provider` is an alternative that
falls through to the next entry. `Cancel`, `CancelDuringPut` and
`CancelDuringRecord` drop the future when the SSE client leaves; in the latter
two the file operation `tokio::fs` already started still happens. Time is in
ticks of the retry budget.

**CacheFile.** `final` and `tmp` are the inodes behind `<hex>.json` and
`<hex>.tmp`, `content` their blocks, `fd` and `pos` each client's handle. Both
names of a key are fixed by the key, so all writers of one key share `tmp`.
`Abandon` drops a client's future (a write in progress completes block by
block: `orphan`), `Crash` drops all of them. `Overlap` says whether two puts may
be under way at once. `AtomicCache` has two actions, put and get, and forgets
what a client read when the client is gone; `Register` in `CacheFile` maps to it
the parsed entry and what each client has seen.

**Session.** `key` is `AppState.session_key`, `blob` the row of `session_kv`,
`persist` what the backend keeps, `up` the phase of a boot. `pc[c]` splits login
at its effects: read and check the blob (`LoginStart`, `LoginRejected`), write it
(`LoginStore`), set the key (`LoginKey`), save the passphrase (`Save...`); a
dispatch or a status request clones the key and then reads the blob. The file
backend truncates in place and then writes, so `SaveOpen` and `SaveWrite` are two
steps with a crash or a purge between them. Argon2id and AES-GCM are ideal: a key
is its passphrase and salt. `touched` records that something else than a login
(set-endpoint, a deleted row, `--dev-api-key`) changed the blob; the properties
that relate key, blob and stored passphrase are about the time before that.
`Overlap` says whether logins and logouts may overlap each other; dispatches
always do.

**WireAdapters** has no state. `KeyMaterial` is what `CacheKey::compute` hashes,
`AnthropicBody` and `OpenAiBody` what `build_body` makes of the same request, and
`Failures` the errors `complete` returns for an exchange. `MCRouterDispatch`
extends it beside `RouterDispatch`: the bodies `RouterDispatch` keeps apart are
the requests with different key material, and its error kinds are the failures.

**LedgerFile.** `pc[c]` is where a dispatch stands in `append`: before the mutex,
before the write, or in `flush`. `op[h]` is the write a handle has given to the
blocking pool, which outlives its caller; `outcome[h]` is its result until
somebody asks, and a later caller may get it (`InheritsError`). The file is a
sequence of fragments, each as far as one `write(2)` got: `Part`, `Json` (all but
the newline) or `Line`.

**LedgerView** EXTENDS it and adds `phase`, the steps of `sync_from_jsonl`, and
the query. Clearing, each insert and the end are separate steps, between which a
crash may come. `removed` is the user's removal of the file. `Recent` is the query:
the k-th row is the one with k - 1 rows before it in its order. `ts` is compared
as text: `now_rfc3339` drops the trailing zeros of the fraction, so a stamp is as
long as `Unit` says, its last digit, and its `Z` is greater than the digits a
longer one has there. `TextEnd` is the instant up to which a text sorts: `.12Z`
comes after `.125Z`, with `.129Z` and before `.13Z`.

**ArtifactStore.** `files` maps names to documents, `rows` ids to names; `kind`
says which of the two stores a behaviour is about. `pc[d]` walks through a create:
name check, open, fill (an `orphan` when the caller has left), row. `StartWalk` to
`Prune` are `reindex`. A draft is `odd` when one of its fields breaks the
frontmatter it is written into; `YamlId` is what an unquoted slug reads back as. A
`finding_id` is joined to the directory as it is: slugs in `Outside` (`../x`,
`sub/x`) name a file that the walk does not meet. Two slugs name two files; `a`
and `./a`, which name one, are not modelled. The assumption says that a name that
begins with a number is never one the walk skips (`README.md`, `_template.md`) and
that an id differs from the marks of a file that does not parse.

**EventFeed.** One queue and one set of recent events per directory, one `feed`
of published envelopes, one position per stream; the ring is the last `RingCap`
of the feed. A page keeps the lists it is waiting for in `asks` and what it shows
in `shown`, both counted by the rows they have. A list may fail at the server or
on its way (`ListFails`): the page then keeps its rows and sets `loadErr`, which it
shows above them until it lists again (`Refresh`).

**RouterSource and AgentTurn.** `source` abstracts `Session` (a login is one
step, and which account the blob is sealed for is all that matters) and
`RouterDispatch` (a call answers from the cache, from the provider, or fails).
`pc[t]` follows a request through `resolve_router` (`idle`, `open`), the loop
(`ask`, `run`, `check`, `job`) or the list of models (`list`) to its stream
(`sent`). `jobs` are operations of the blocking pool and commands; they outlive
the request (`Disconnect`, `Timeout`), and commands the server (`Crash`).
`effects` records what tools have changed. `shell.exec` ends with its shell
(`ShellReturns`, `Timeout`): the job goes on if the shell left something behind.
`Namesake` is the provider that `studio.toml` calls `session_provider`, if any; it
shares its cache keys with every session. `Drop` is what dropping the future, or a
panic in it, does.

## 4. Runs

| run | instance | what it shows |
|---|---|---|
| `RouterRetry` | one dispatch, two entries, all error kinds, 3 attempts, budget 3, Retry-After 5, I/O faults, garbled files | `TypeOK`, `LedgerMissesOnlyLastCall`, `OnlyTransientIsRetried`, `AttemptsWithinPolicy`; with fairness `EveryDispatchEnds` |
| `RouterConcurrent` | two dispatches, two models of one provider, in list order and by latency, I/O faults | `OkLineIffAnswered`, `CacheServesOwnAnswers` |
| `CacheSerial` | three clients, two answers, four inodes, two blocks, no overlap of puts | `TypeOK`, `ReadersSeeWholeAnswers`, `ActsAsRegister` (the refinement of `AtomicCache`), `EntryStays` |
| `CacheSharedTmp` | two clients whose puts overlap | counterexample to `ReadersSeeWholeAnswers` |
| `SessionSerial` | two requests, two passphrases, four salts, every backend, every kind of foreign blob, rotation, dev boots, I/O faults; logins do not overlap | `TypeOK`, `KeyOpensBlob`, `PersistOpensBlob`, `RememberedUnlocks`, `PurgeForgets`, `LoginKeepsPassphrase` |
| `SessionShared` | two overlapping requests after an enrolment, file backend, foreign blobs, rotation, I/O faults | `DispatchDecrypts`, `SomePassphraseWorks` |
| `Ledger` | two dispatches on a shared and on their own handles, three entries, short writes, dropped callers, crashes in any phase, removal of the file, queries of 0, 3 and the default; stamps that end in .119, .12 and .125 | `TypeOK`, `AckedEntriesShown`, `RowsAreLines`, `RefusesOnlyMergedLines`, `NewestFirstToTheDigit`; with fairness `EveryAppendEnds` |
| `Artifacts` | two creates, apart or at once, in either store; two titles, four slugs (one that reads back as another, one the walk skips, one outside the directory), numbers 7 to 9, two edits by users, crashes in any phase | `TypeOK`, `RowsLeadToFiles`, `FilesAreListed`, `AckedIsListed`, `NumberIsFresh`, `GetFindsAsked` |
| `ArtifactsClash` | the same | counterexample to `AckedNumbersAreUnique` |
| `Events` | two directories, three files (one no markdown), a page and a client that may stop reading, queue and ring of one, two filesystem events, lists that fail | `TypeOK`, `AnnouncedIsShown`; with fairness `QueuesAreDrained`, `ReadersCatchUp` |
| `Turn` | a request of each kind and a second dispatch, two accounts, five configurations, one with a provider called `session_provider`, five replies, two iterations, git that may fail | `TypeOK`, `AnswersFitTurn`, `EffectsAllowed`, `EffectsTold`; with fairness `EveryTurnEnds` |
| `TurnDelete` | the same, with a file git tracks | counterexample to `DeleteSparesTracked` |

The `ASSUME`s of `MCRouterDispatch` check `SameKeySameBody` on small requests, the
converse for OpenAI, and that the adapters fail in exactly the five ways the
router runs use.

Why the bounds are enough. Router: two entries give one fall-through, three
attempts a first, a middle and a last one; the dispatches meet only in the cache
and the tracker, so two reach every conflict of a key. Cache: a file of two blocks
has a beginning and an end; three clients are two writers and a reader; two inodes
can be named and one held open by each reader, four leave one free. Session: two
requests are a login and whatever races it; two passphrases are the right one and
a wrong one; four salts leave a new one for every login (`FreshSalts` excludes
those still in use). Ledger: three entries are a torn line, one appended to it and
one after that, or an older, a middle and a newest; two clients meet on a handle,
or on the file through three; .12 and .125 are the shortest pair whose text order
is not that of time, .119 is older than both. Artifacts: two creates are a clash,
or a create and the next; number 9 is the largest there is, so a user's file at it
makes the next one saturate; two edits put a file in place and move or remove it.
Events: with a queue and a ring of one every second event meets a full one, and an
envelope of one directory pushes out one of the other; `MaxAsks` lets one list of
a page fail while another is under way. Turn: two requests are a turn and whoever
shares its cache; with two iterations one answer follows a tool result; a reply
has no call, one beside a malformed one, two of which the second depends on the
first, two of which the turn may not use the second, or panics the parser.
`RepliesTo` gives each kind of request the replies that make a difference to it:
the text of a dispatch makes none.

Symmetry is used only where no property and no definition names an element; no
liveness run uses it. Deadlock is checked except in `Artifacts`,
`ArtifactsClash`, `Turn` and `TurnDelete`, where each draft and each request is
made once, so a behaviour ends when they are done and the bounded edits are used
up. Elsewhere the router stutters in `AllEnded` and the others never stop.

**Fairness.**

* `RouterDispatch`: weak fairness of each started dispatch's own steps: file
  operations return, both adapters build their HTTP client with a two-minute
  timeout, and tokio polls a woken task.
* `LedgerView`: weak fairness of the blocking pool and of a client past the
  mutex; strong fairness of `Lock`, because tokio's mutex is a first-come queue.
* `EventFeed`: weak fairness of the bridge tasks, and of delivery and answers for
  the pages in `Fast`. Nothing is assumed of a page that stops reading, and
  `QueuesAreDrained` does not need it.
* `AgentTurn`: weak fairness of a request's own steps. A model call ends by
  `RouterDispatch`'s `EveryDispatchEnds`, a list of models by its twenty seconds,
  a command by its timeout; commands themselves need not end, nor their shell
  exit (`ShellReturns` has no fairness). git is assumed to
  return: `git_tracks_path` has no timeout, and a git that hangs holds its turn.

Starting, disconnecting, crashing, asking and editing are never forced.
`CacheFile`, `Session` and `ArtifactStore` state safety only.

## 5. Proofs

All theorems hold for every value of the constants that meets the module's named
assumption; where a theorem needs more, it is in its `ASSUME`. Every invariant and
every action property of the passing runs is stated by a theorem.

* `RouterDispatchProofs`: `IInv` is inductive (`Inductive`). It strengthens the
  checked invariants by what links `pc` to the locals: the calls issued at the
  current position equal the attempt counter from the call on; positions behind
  the walk are closed and ahead of it untouched; a line not yet written belongs
  to the last call. `TypeCorrect`, `LedgerGaps`, `RetriesAreTransient`,
  `OkLines` and `RetryBudget` follow from it. `ServesOwnAnswers` needs one more,
  `CacheInv`: what a key holds was given by the provider and model in the key to
  the body in the key. A hit makes use of it and `put` keeps it, because both
  compute the key after the model has been replaced by the entry's.
* `CacheFileProofs`: `BaseInv` (types, open handles) holds however puts overlap
  and gives `TypeCorrect` and `EntryIsKept`. `SerialInv` adds, under `~Overlap`,
  that one client at a time is inside put, that the entry's inode is complete and
  not the temporary one, and that a reader's inode is complete and out of every
  writer's reach; it gives `WholeReads` and `Refinement`: every step of
  `CacheFile` is a step or a stutter of `AtomicCache`.
* `SessionProofs`: `BaseInv` (types, who holds a key, a sealed blob carries its
  key's salt) holds however requests overlap: `TypeCorrect`. `SerialInv` adds,
  under `~Overlap`: one login or logout at a time; a login about to seal uses the
  key the blob is sealed under, if it is sealed; before the blob is touched, the
  key in memory, the keys that requests hold and the stored passphrase all open
  it; after a purge nothing is stored and no save is on its way. It gives
  `KeyFits`, `StoredPassphraseFits`, `RestartUnlocks`, `PurgesForget` and
  `NoTakeover`. Two theorems are about requests that overlap. `OpensWhatItReads`
  assumes that somebody has logged in before, or that logins do not overlap: in
  the first case `OneKey` says that all keys at work are the one that sealed the
  blob, since a login tries the key it derives on the blob. Without the
  assumption TLC finds two first logins with two salts. `NobodyLockedOut` assumes
  no `--dev-api-key` and no long foreign blob of the current scheme: then only
  users' keys seal. With either, TLC finds a blob no passphrase opens.
* `LedgerProofs`: `FileInv` says that an entry is at one place at a time (a
  client, the blocking pool, the file), that the lock's holder is the writer, and
  that a client in `flush` waits for its own write or for how that ended; so what
  is acknowledged has a whole line (`Kept`). `ViewInv` says that what the import
  has passed has its rows, and only that. `AckedSurvives`, `RowsAreTheFile` and
  `TrailingIsTolerated` follow; a refusal is traced to two fragments between two
  newlines. `AnswersNewestFirst` numbers each row by how many come before it: the
  rows are distinct and `SortsAfter` orders them, so that is an injection of a
  finite set into itself, hence onto, and every position of the answer has its
  row. What sorts after an entry is then newer by less than the entry's `Unit`,
  for any stamps and any units of which each divides the next.
* `ArtifactStoreProofs`: `BaseInv` keeps the two stores' ids apart. `ListInv`
  says what a create owns at each of its steps (`InPlace`), what the walk has
  covered (`Walked`) and what holds while the server serves (`Served`): every
  link, a row or a get that has read one, leads to a document of its id, and
  every document has a row or belongs to a create on its way. `RowsLead`,
  `DocumentsAreListed`, `AckedStaysListed`, `GetsFindAsked` and, with the largest
  number in the index, `NewNumberIsFresh` follow. The proof of `AckedStaysListed`
  failed at first with more than two drafts, rightly: a third create with the
  same id that two have garbled may leave the row at their file. With three
  drafts TLC finds it too, and `AckedIsListed` names that case.
* `EventFeedProofs`: `PageInv` says of a page that shows a directory: it has
  missed an envelope, or answers overtook each other, or an envelope of its
  directory lies ahead in its stream, or the page shows an error, or its last list
  has every row announced. With `RowsStay` (rows are never fewer than announced)
  it is inductive and gives `AnnouncementsAreShown`.
* `AgentTurnProofs`: every step is first shown to be of one of a few kinds
  (`Kinds`), and each invariant is proved over those. `RequestInv` links `pc` to
  what the request has resolved; `Labelled` says that an entry of the cache is an
  answer to the messages in its key by an endpoint of the name in its key. With
  them `Own`, for each request, ties each answer in a stream to the router and the
  part of the transcript it was asked with, which later messages only extend:
  `AnswersFit`. `WorkInv` says that all work, past or under way, belongs to a call
  that was allowed: neither body nor flag changes, so `EffectsAreAllowed`.
  `ToldInv` says that every job and change of a turn has its result in the stream
  unless the turn still waits for it; that a file operation under way is waited
  for; and that a call is followed by its result or is the one under way:
  `EffectsAreTold`. A command needs no such case: it may go on after its result.
* `WireAdapters`: `SameKeySameBody`, for requests with any number of messages and
  stop sequences: equal key material makes equal bodies at both adapters, because
  the canonical parameters determine which fields are given and their values.

Only model-checked: the liveness properties (`EveryDispatchEnds`,
`EveryAppendEnds`, `QueuesAreDrained`, `ReadersCatchUp`, `EveryTurnEnds`), which
are out of the prover's reach, as is what a recursive computation returns; and
the three counterexamples.

## 6. Disagreements met while modelling

Shown by a run:

* `CacheSharedTmp`: two puts of one key share the temporary file, so a reader may
  see a partial one (`cache.rs:193-197`).
* `ArtifactsClash`: two creates at once are acknowledged with one number, and the
  later row replaces the earlier (`adr.rs:379`).
* `TurnDelete`: `fs.delete` removes a tracked file when `git ls-files` fails, or
  when the file is added between the check and the removal (`agent_loop.rs:465`).

Shown by the models, without a run that is kept:

* The ledger misses an attempt when a file operation fails (`router.rs:456`
  against `router.rs:257-258`): state "one line per attempt" over
  `RouterDispatch` with `IoFaults`.
* Two first logins at once may leave a key that does not open the blob
  (`login.rs:264`): `KeyOpensBlob` with `Overlap = TRUE`.
* A save may follow a purge that reported success (`login.rs:283` against
  `login.rs:308`): `PurgeForgets` with `Overlap = TRUE`.
* A garbled cache entry is an error of every later get and is never replaced.
* `/api/ledger/recent` is not newest first, as `studio-store/src/ledger.rs:103-104`
  has it: the view compares `ts` as text (`ledger.rs:111`) and `now_rfc3339` drops
  trailing zeros, so of two entries within a second the older may come first
  (`05Z` sorts after `05.9Z`), and a limit may cut off the newer. State
  `Ts[answer[i]] >= Ts[answer[j]]` for `i < j` over `Ledger`.
  `NewestFirstToTheDigit` is what holds.
* Two providers may share a cache entry, against `cache.rs:23-24`: every session's
  is called `session_provider` (`dispatch.rs:140-149`, `dispatch.rs:249-277`), and
  `studio.toml` may declare one of that name too (`config.rs:185-197`). So after a
  login to another account, or a logout, an answer to the same messages by a model
  of the same name may be the other endpoint's, although "auth and rate budgets are
  per-provider". State `ev.by \in router[t]` for every answer over `Turn`.
  `AnswersFitTurn` is what holds.
* A `shell.exec` that ends without an error may leave a child in the background
  that goes on changing the project, as may one that was killed
  (`agent_loop.rs:411-430`): state that no job of a turn is under way when its
  stream ends.

Seen while reading, by component:

* **Router and adapters.** `is_provider_fault` is documented to drive the
  fall-through, but the router never calls it. The adapters never read
  Retry-After and always report 0, although `provider.rs` describes it; only the
  trait's contract lets `RouterRetry` use longer ones. An OpenAI answer without
  choices or content becomes an empty answer, which is cached; an Anthropic
  message with a block that is no text is a decode error as a whole.
  `complete_stream` has no caller. `Cache::new` says that existing directories
  are not narrowed, and sets their mode all the same (`cache.rs:97-109`).
* **Session.** `logout` without purge is documented to allow a login without the
  passphrase, but `login` refuses an empty one. ADR-0009 promises no stale entry
  after a rotation, but a failed save is only logged; the next boot finds out and
  clears the entry. `dispatch.rs:310` and `state.rs` promise 401 `no_session`; the
  code answers 503.
* **Configuration.** A provider without a credential is "skipped", but then
  `RouterBuilder::build` refuses the configuration that declares it. A
  `studio.toml` that does not parse hides a good `cobrust-studio.toml`.
* **Boot.** Reindexing, refilling the ledger view, clearing a stored passphrase
  and `--dev-api-key` happen before the port is bound, so a second start on one
  project changes what a running server reads (ADR-0009 assumes one instance).
* **Ledger.** `studio-store/src/ledger.rs` describes an `append` the server never
  calls, so the view is only as new as the last boot. The router's default path
  is not the file the store imports; the model takes them to be one. A torn line
  followed by another append makes every later `Store::open` fail. An entry that
  was shown but never acknowledged can vanish, and a removed file leaves its rows,
  although the import "replaces the view contents". Timestamps are documented with
  milliseconds, but have up to nine digits without trailing zeros
  (`studio-router/src/ledger.rs:224-231`).
* **ADRs and findings.** A number is shared after a failed create or between
  overlapping ones. A finding named like a file the walk skips is acknowledged
  and gone after the next boot. A field that breaks the frontmatter fails the
  create and leaves its file. A slug with ` #` reads back shorter. A
  `finding_id` is not validated but for being empty (`routes/finding.rs:118`,
  `finding.rs:372-374`): `../x` writes outside the directory, is acknowledged and
  listed, and its row is gone after the next boot. Edits by users
  are not indexed until the next boot.
* **Events.** A lagging client is only logged, although `sse.rs:4-6` announces a
  `lagged` event. A list that fails is not asked for again by itself: the page
  shows the error over its old rows until the next event. The debounce lets the
  first of several changes through and hides the last. A page lists before it
  subscribes and does not list again when its stream reconnects. A create's row
  follows its file's event. Renames are reported as modifications, where the
  documentation says removals.
* **Agent loop.** Events are streamed when the loop is over, so a caller who
  leaves earlier is not told what was changed. `parse_json_value` and
  `truncate_output` can panic on a slice, which loses the turn. A turn that is
  sent again gets its answers from the cache and executes their tool calls again.

## 7. Not modelled, and the plan

Not modelled:

* The HTTP shell, the CLI, the embedded files and the Tauri shell: routing,
  argument parsing and static answers without state of their own.
* The web UI but for the subscription of its list pages.
* HTTP itself, `complete_stream`, TOML and YAML parsing beyond their outcomes.
* File modes and symlink checks, which are failures of an operation here; power
  loss; a second server on the same directories.
* The contents of documents, answers and tool results, and findings whose ids differ
  but name one file (`a`, `./a`).

Bounds of the models that the code does not have: `MaxEntries`, `Limits` and the
stamps (`Ts`, with `Units` of 1, 10 and 100) of `LedgerView`, `MaxEdits`, `UserPath`
and `UserId` (`ArtifactStore`), `MaxEvents` and `MaxAsks` (`EventFeed`),
`BodiesOf` and `RepliesTo` (`AgentTurn`); `MaxId`, `QueueCap`, `RingCap`, `MaxN` and
`MaxIterations` stand for larger numbers of the code.

Planned:

1. `RouterSource` abstracts `Session`, and no run or proof says so yet: a mapping
   under which `Session` implements the login, logout and reboot of `RouterSource`,
   first as a run and then step by step.
2. `ArtifactStore`: `AckedNumbersAreUnique` for creates that do not overlap, and
   as long as numbers are left.
3. `LedgerFile`: which attempts the file misses when `flush` inherits an error of
   a dropped caller.
4. Properties for the hazards that have none: the garbled entry that is never
   replaced, the long blob no passphrase opens, the turn that is sent again.
