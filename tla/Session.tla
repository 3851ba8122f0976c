------------------------------ MODULE Session ------------------------------
(***************************************************************************)
(* The credentials of a Studio server: the session key in memory, the      *)
(* sealed endpoint blob in SQLite's session_kv, and the passphrase a       *)
(* persist backend keeps for the next boot.  Login, logout, set-endpoint,  *)
(* dispatch and status requests run concurrently on tokio's worker         *)
(* threads; a crash and a boot may come at any time.                       *)
(*                                                                         *)
(* A step is the code between two awaits, or between two effects another   *)
(* thread can see.  Argon2id and AES-GCM are ideal: a key is its           *)
(* passphrase and salt, and it opens exactly the blobs it sealed.          *)
(***************************************************************************)
EXTENDS FiniteSets

CONSTANTS
    Client,     \* requests under way at the same time
    Pass,       \* passphrases users choose
    DevPass,    \* the fixed passphrase behind --dev-api-key
    Salt,
    NoKey,      \* no session key
    NoPass,     \* no stored passphrase
    Spoiled,    \* a passphrase file that is empty, cut short or a mix of two
    Backends,   \* the choices for --persist-session
    Foreign,    \* the kinds of blob POST /api/auth/set-endpoint stores
    DevKey,     \* whether a boot may have --dev-api-key
    Rotation,   \* whether the operator may delete the blob's row
    IoFaults,   \* whether SQLite and the persist backend may fail
    Overlap,    \* whether logins and logouts may run at the same time
    Enrolled    \* whether somebody has logged in before

KeyOf == [pass : Pass \union {DevPass}, salt : Salt]

\* "raw": another scheme or no room for a salt; "short": the right scheme, but
\* below MIN_BLOB_LEN; "junk": long enough, but sealed by no key here.
Blob == [kind : {"none", "sealed", "raw", "short", "junk"},
         salt : Salt, by : KeyOf \union {NoKey}]

ASSUME SessionAssumption ==
    /\ NoKey \notin KeyOf
    /\ NoPass \notin Pass /\ Spoiled \notin Pass /\ NoPass # Spoiled
    /\ DevPass \notin Pass
    /\ Backends \subseteq {"none", "keychain", "file"}
    /\ Foreign \subseteq {"raw", "short", "junk"}
    /\ DevKey \in BOOLEAN /\ Rotation \in BOOLEAN /\ IoFaults \in BOOLEAN
    /\ Overlap \in BOOLEAN /\ Enrolled \in BOOLEAN

VARIABLES
    backend,     \* --persist-session, the same on every boot
    up,          \* "boot", "dev" (before inject_dev_key) or "serving"
    key,         \* AppState.session_key
    blob,        \* the "endpoint" slot of session_kv
    persist,     \* what the persist backend holds
    pc,          \* where each request stands
    mine,        \* the key a login derived or a dispatch cloned
    outcome,     \* how each client's last request ended
    remembered,  \* history: the last save that began has succeeded
    forgotten,   \* history: a purge succeeded after the last login
    touched      \* history: something else than a login changed the blob

requests == <<pc, mine, outcome>>
history == <<remembered, forgotten, touched>>
vars == <<backend, up, key, blob, persist, requests, history>>

-----------------------------------------------------------------------------
(* Helpers *)

PC == {"idle", "open", "loginStore", "loginKey", "save", "saveWrite",
       "saveLost", "purge"}

\* Requests that change credentials and have not returned.
Busy == PC \ {"idle", "open"}

Quiet == \A c \in Client : pc[c] \notin Busy

\* SessionKey::open succeeds.
Opens(k, b) == b.kind = "sealed" /\ b.by = k

\* The blob has the current scheme and a salt to derive from.
HasSalt(b) == b.kind \in {"sealed", "short", "junk"}

\* A salt from OsRng is new.
FreshSalts ==
    Salt \ ({blob.salt} \union {k.salt : k \in {key, blob.by} \ {NoKey}}
              \union {mine[c].salt : c \in {o \in Client : mine[o] # NoKey}})

\* Mutant: seal packs a salt of its own.
SealedOtherSalt(k) ==
    [kind |-> "sealed", salt |-> CHOOSE s \in Salt : s # k.salt, by |-> k]

\* SessionKey::seal packs the salt the key was derived with.
Sealed(k) == [kind |-> "sealed", salt |-> k.salt, by |-> k]

Goto(c, where) == pc' = [pc EXCEPT ![c] = where]

Finish(c, how) ==
    /\ Goto(c, "idle")
    /\ mine' = [mine EXCEPT ![c] = NoKey]
    /\ outcome' = [outcome EXCEPT ![c] = how]

Admitted(c) == up = "serving" /\ pc[c] = "idle" /\ (Overlap \/ Quiet)

-----------------------------------------------------------------------------
(* POST /api/login *)

\* validate_login_request: there is no passphrase in the body.
LoginInvalid(c) ==
    /\ Admitted(c)
    /\ Finish(c, "invalid")
    /\ UNCHANGED <<backend, up, key, blob, persist, history>>

\* Mutant: the stored blob is not asked.
LoginUnchecked(c, p) ==
    /\ Admitted(c)
    /\ \E s \in IF HasSalt(blob) THEN {blob.salt} ELSE FreshSalts :
         mine' = [mine EXCEPT ![c] = [pass |-> p, salt |-> s]]
    /\ Goto(c, "loginStore")
    /\ UNCHANGED <<backend, up, key, blob, persist, outcome, history>>

\* Mutant: every login draws a new salt once the passphrase is checked.
LoginNewSalt(c, p) ==
    /\ Admitted(c)
    /\ HasSalt(blob) => \/ blob.kind = "short"
                        \/ Opens([pass |-> p, salt |-> blob.salt], blob)
    /\ \E s \in FreshSalts :
         mine' = [mine EXCEPT ![c] = [pass |-> p, salt |-> s]]
    /\ Goto(c, "loginStore")
    /\ UNCHANGED <<backend, up, key, blob, persist, outcome, history>>

\* The blob is read; a key derived from its salt must open it (a blob too short
\* to be opened passes), or a new salt is drawn.
LoginStart(c, p) ==
    /\ Admitted(c)
    /\ \/ /\ HasSalt(blob)
          /\ \/ blob.kind = "short"
             \/ Opens([pass |-> p, salt |-> blob.salt], blob)
          /\ mine' = [mine EXCEPT ![c] = [pass |-> p, salt |-> blob.salt]]
       \/ /\ ~HasSalt(blob)
          /\ \E s \in FreshSalts :
               mine' = [mine EXCEPT ![c] = [pass |-> p, salt |-> s]]
    /\ Goto(c, "loginStore")
    /\ UNCHANGED <<backend, up, key, blob, persist, outcome, history>>

\* 400 wrong_passphrase.
LoginRejected(c, p) ==
    /\ Admitted(c)
    /\ HasSalt(blob) /\ blob.kind # "short"
    /\ ~Opens([pass |-> p, salt |-> blob.salt], blob)
    /\ Finish(c, "wrongPassphrase")
    /\ UNCHANGED <<backend, up, key, blob, persist, history>>

\* set_endpoint with the freshly sealed blob.
LoginStore(c) ==
    /\ pc[c] = "loginStore"
    /\ blob' = Sealed(mine[c])
    /\ Goto(c, "loginKey")
    /\ UNCHANGED <<backend, up, key, persist, mine, outcome, history>>

\* *session_key.write().await = Some(key).
LoginKey(c) ==
    /\ pc[c] = "loginKey"
    /\ key' = mine[c]
    /\ forgotten' = FALSE
    /\ Goto(c, "save")
    /\ UNCHANGED <<backend, up, blob, persist, mine, outcome, remembered,
                   touched>>

-----------------------------------------------------------------------------
(* PersistStore::save, called by login.  It blocks the worker thread, but     *)
(* other threads run. *)

\* NullStore.
SaveNothing(c) ==
    /\ pc[c] = "save"
    /\ backend = "none"
    /\ Finish(c, "ok")
    /\ UNCHANGED <<backend, up, key, blob, persist, history>>

\* KeychainStore: set_password.
SaveKeychain(c) ==
    /\ pc[c] = "save"
    /\ backend = "keychain"
    /\ persist' = mine[c].pass
    /\ remembered' = TRUE
    /\ Finish(c, "ok")
    /\ UNCHANGED <<backend, up, key, blob, forgotten, touched>>

\* FileStore: the file is opened and truncated, ...
SaveOpen(c) ==
    /\ pc[c] = "save"
    /\ backend = "file"
    /\ persist' = Spoiled
    /\ remembered' = FALSE
    /\ Goto(c, "saveWrite")
    /\ UNCHANGED <<backend, up, key, blob, mine, outcome, forgotten, touched>>

\* ... and written.  Over a passphrase that another save wrote since, the end
\* of the longer one remains.
SaveWrite(c) ==
    /\ pc[c] = "saveWrite"
    /\ \/ persist' = mine[c].pass /\ remembered' = TRUE
       \/ /\ persist \in Pass /\ persist # mine[c].pass
          /\ persist' = Spoiled /\ UNCHANGED remembered
    /\ Finish(c, "ok")
    /\ UNCHANGED <<backend, up, key, blob, forgotten, touched>>

\* A purge removed the file under the open handle.
SaveLost(c) ==
    /\ pc[c] = "saveLost"
    /\ Finish(c, "ok")
    /\ UNCHANGED <<backend, up, key, blob, persist, history>>

\* The error is logged and the login succeeds all the same.
SaveFails(c) ==
    /\ pc[c] \in {"save", "saveWrite"}
    /\ IoFaults /\ backend # "none"
    /\ \/ UNCHANGED persist
       \/ pc[c] = "saveWrite" /\ persist' = mine[c].pass  \* sync or chmod fails
    /\ Finish(c, "ok")
    /\ UNCHANGED <<backend, up, key, blob, history>>

-----------------------------------------------------------------------------
(* POST /api/logout *)

Logout(c) ==
    /\ Admitted(c)
    /\ key' = NoKey
    /\ Finish(c, "ok")
    /\ UNCHANGED <<backend, up, blob, persist, history>>

\* Mutant: purge is skipped when nobody is logged in.
LogoutPurgeIfActive(c) ==
    /\ Admitted(c)
    /\ key' = NoKey
    /\ IF key = NoKey
       THEN Finish(c, "ok") /\ forgotten' = TRUE
       ELSE Goto(c, "purge") /\ UNCHANGED <<mine, outcome, forgotten>>
    /\ UNCHANGED <<backend, up, blob, persist, remembered, touched>>

\* With ?purge=true the key goes first, ...
LogoutPurge(c) ==
    /\ Admitted(c)
    /\ key' = NoKey
    /\ Goto(c, "purge")
    /\ UNCHANGED <<backend, up, blob, persist, mine, outcome, history>>

\* ... then persist.clear(), which unlinks the file under any save.
Purge(c) ==
    /\ pc[c] = "purge"
    /\ persist' = NoPass
    /\ remembered' = FALSE /\ forgotten' = TRUE
    /\ pc' = [o \in Client |-> IF o = c THEN "idle"
                               ELSE IF pc[o] = "saveWrite" THEN "saveLost"
                               ELSE pc[o]]
    /\ outcome' = [outcome EXCEPT ![c] = "ok"]
    /\ UNCHANGED <<backend, up, key, blob, mine, touched>>

\* 500 persist_purge_failed.
PurgeFails(c) ==
    /\ pc[c] = "purge"
    /\ IoFaults /\ backend # "none"
    /\ Finish(c, "error")
    /\ UNCHANGED <<backend, up, key, blob, persist, history>>

-----------------------------------------------------------------------------
(* Other requests *)

\* POST /api/auth/set-endpoint stores any bytes under any scheme.
SetEndpoint(c) ==
    /\ Admitted(c)
    /\ \E kind \in Foreign, s \in Salt :
         blob' = [kind |-> kind, salt |-> s, by |-> NoKey]
    /\ Finish(c, "ok")
    /\ touched' = TRUE
    /\ UNCHANGED <<backend, up, key, persist, remembered, forgotten>>

\* resolve_router and session_status clone the key, ...
DispatchKey(c) ==
    /\ up = "serving" /\ pc[c] = "idle"
    /\ key # NoKey
    /\ mine' = [mine EXCEPT ![c] = key]
    /\ Goto(c, "open")
    /\ UNCHANGED <<backend, up, key, blob, persist, outcome, history>>

\* What opening a blob may come to; the scheme is not looked at.
OpenOutcomes(k, b) ==
    CASE b.kind = "none" -> {"noEndpoint"}
      [] b.kind = "short" -> {"error"}
      [] b.kind = "raw" -> {"error", "decryptFailed"}
      [] OTHER -> IF Opens(k, b) THEN {"opened"} ELSE {"decryptFailed"}

\* ... then read the blob and open it.
DispatchOpen(c) ==
    /\ pc[c] = "open"
    /\ \E how \in OpenOutcomes(mine[c], blob) : Finish(c, how)
    /\ UNCHANGED <<backend, up, key, blob, persist, history>>

\* SQLite fails to read the blob, or to write it, under a request.
StoreFails(c) ==
    /\ IoFaults
    /\ Admitted(c) \/ pc[c] \in {"loginStore", "open"}
    /\ Finish(c, "error")
    /\ UNCHANGED <<backend, up, key, blob, persist, history>>

\* The client disconnects: the handler is dropped at its await.  (Statements
\* sqlx has sent still run: LoginStore, and the drop after it.)
Disconnect(c) ==
    /\ pc[c] \in {"loginStore", "loginKey", "open"}
    /\ Finish(c, "none")
    /\ UNCHANGED <<backend, up, key, blob, persist, history>>

\* The documented rotation: the operator deletes the row with sqlite3.
DeleteBlob ==
    /\ Rotation
    /\ blob' = [blob EXCEPT !.kind = "none", !.by = NoKey]
    /\ touched' = TRUE
    /\ UNCHANGED <<backend, up, key, persist, requests, remembered, forgotten>>

-----------------------------------------------------------------------------
(* Crash and boot *)

Crash ==
    /\ up' = "boot"
    /\ key' = NoKey
    /\ pc' = [c \in Client |-> "idle"]
    /\ mine' = [c \in Client |-> NoKey]
    /\ outcome' = [c \in Client |-> "none"]
    /\ UNCHANGED <<backend, blob, persist, history>>

\* What comes after auto_unlock_on_boot.
Booted == up' \in IF DevKey THEN {"dev", "serving"} ELSE {"serving"}

\* load finds a passphrase; none is Ok(None), which is no error.
Stored == persist # NoPass

\* The file is no regular one of mode 0600, does not read as UTF-8, or the
\* keychain fails.
LoadFails == persist = Spoiled \/ IoFaults

\* The key auto_unlock_on_boot derives; the empty file is a passphrase as well.
BootKey == [pass |-> persist, salt |-> blob.salt]

\* Mutant: the derived key is not tried on the blob.
BootUnverified ==
    /\ up = "boot"
    /\ persist # NoPass /\ HasSalt(blob)
    /\ key' = BootKey
    /\ Booted
    /\ UNCHANGED <<backend, blob, persist, requests, history>>

BootUnlocks ==
    /\ up = "boot"
    /\ Stored /\ HasSalt(blob) /\ Opens(BootKey, blob)
    /\ key' = BootKey
    /\ Booted
    /\ UNCHANGED <<backend, blob, persist, requests, history>>

\* The stored passphrase does not fit the blob, or there is no blob.
BootClears ==
    /\ up = "boot"
    /\ Stored
    /\ blob.kind = "none" \/ (HasSalt(blob) /\ ~Opens(BootKey, blob))
    /\ \/ persist' = NoPass
       \/ IoFaults /\ UNCHANGED persist
    /\ Booted
    /\ UNCHANGED <<backend, key, blob, requests, history>>

\* Nothing is stored, or the blob has another scheme or cannot be read.
BootLocked ==
    /\ up = "boot"
    /\ ~Stored \/ LoadFails \/ blob.kind = "raw" \/ IoFaults
    /\ Booted
    /\ UNCHANGED <<backend, key, blob, persist, requests, history>>

\* inject_dev_key: a failing set_endpoint is logged, and the key is set.
InjectDevKey ==
    /\ up = "dev"
    /\ \E s \in FreshSalts :
         LET k == [pass |-> DevPass, salt |-> s]
         IN  /\ key' = k
             /\ blob' = Sealed(k) \/ (IoFaults /\ UNCHANGED blob)
    /\ up' = "serving"
    /\ touched' = TRUE
    /\ UNCHANGED <<backend, persist, requests, remembered, forgotten>>

-----------------------------------------------------------------------------

Init ==
    /\ backend \in Backends
    /\ up = "boot"
    /\ key = NoKey
    /\ \E p \in Pass, s \in Salt :
         blob = IF Enrolled THEN Sealed([pass |-> p, salt |-> s])
                ELSE [kind |-> "none", salt |-> s, by |-> NoKey]
    /\ persist = NoPass
    /\ pc = [c \in Client |-> "idle"]
    /\ mine = [c \in Client |-> NoKey]
    /\ outcome = [c \in Client |-> "none"]
    /\ remembered = FALSE /\ forgotten = FALSE /\ touched = FALSE

Request(c) ==
    \/ LoginInvalid(c)
    \/ \E p \in Pass : LoginStart(c, p) \/ LoginRejected(c, p)
    \/ LoginStore(c) \/ LoginKey(c)
    \/ SaveNothing(c) \/ SaveKeychain(c) \/ SaveOpen(c) \/ SaveWrite(c)
    \/ SaveLost(c) \/ SaveFails(c)
    \/ Logout(c) \/ LogoutPurge(c) \/ Purge(c) \/ PurgeFails(c)
    \/ SetEndpoint(c)
    \/ DispatchKey(c) \/ DispatchOpen(c)
    \/ StoreFails(c) \/ Disconnect(c)

Next ==
    \/ \E c \in Client : Request(c)
    \/ DeleteBlob
    \/ Crash \/ BootUnlocks \/ BootClears \/ BootLocked \/ InjectDevKey

Spec == Init /\ [][Next]_vars

-----------------------------------------------------------------------------
(* Properties *)

Outcomes == {"none", "ok", "invalid", "wrongPassphrase", "error", "noEndpoint",
             "opened", "decryptFailed"}

\* The shape of the state.
TypeOK ==
    /\ backend \in Backends
    /\ up \in {"boot", "dev", "serving"}
    /\ key \in KeyOf \union {NoKey}
    /\ blob \in Blob
    /\ persist \in Pass \union {NoPass, Spoiled}
    /\ pc \in [Client -> PC]
    /\ mine \in [Client -> KeyOf \union {NoKey}]
    /\ outcome \in [Client -> Outcomes]
    /\ remembered \in BOOLEAN /\ forgotten \in BOOLEAN /\ touched \in BOOLEAN

\* state.rs on session_key: "Some(key) -> authenticated; dispatch decrypts the
\* session_kv blob".  Once no login or logout is under way, the key in memory
\* opens the stored blob, although the two are changed one after the other, a
\* login may stop between them, and a boot derives the key anew.
KeyOpensBlob == Quiet /\ key # NoKey /\ ~touched => Opens(key, blob)

\* A dispatch never answers 401 session_decrypt_failed while only logins change
\* the blob: the one it reads after the key is still one that key opens,
\* whoever logged in meanwhile.
DispatchDecrypts == ~touched => \A c \in Client : outcome[c] # "decryptFailed"

\* ADR-0009 on a changed passphrase: "No stale-entry drift".  A passphrase in
\* the persist backend is the one the stored blob is sealed under, at every
\* instant at which a crash may come.
PersistOpensBlob ==
    persist \in Pass /\ blob.kind = "sealed" /\ ~touched
        => persist = blob.by.pass

\* A restart after a login whose save succeeded needs no login: the passphrase
\* is there, and with the salt in the blob's header it gives the key that
\* sealed the blob.
RememberedUnlocks ==
    remembered /\ ~touched => HasSalt(blob) /\ Opens(BootKey, blob)

\* login.rs on purge: "fully forget this credential".  After a purge that
\* reported success the server is logged in again by a later login only: while
\* it is not, nothing is stored that the next boot would unlock with.
PurgeForgets == Quiet /\ forgotten /\ key = NoKey => persist = NoPass

\* A login never takes over an endpoint: while logins do not overlap, whatever
\* set-endpoint, a rotation or a crash did before, a blob sealed under one
\* passphrase is resealed under another by --dev-api-key only.
LoginKeepsPassphrase ==
    [][blob.kind = "sealed" /\ blob'.kind = "sealed" /\ up # "dev"
         => blob'.by.pass = blob.by.pass]_vars

\* Nobody is locked out: however logins, rotations, crashes and blobs too short
\* to check follow each other, some passphrase gets past the login's check.
SomePassphraseWorks ==
    HasSalt(blob) /\ blob.kind # "short"
      => \E p \in Pass : Opens([pass |-> p, salt |-> blob.salt], blob)
=============================================================================
