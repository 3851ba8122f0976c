--------------------------- MODULE SessionProofs ---------------------------
(***************************************************************************)
(* For any number of requests, passphrases and salts, every backend and    *)
(* every kind of foreign blob: as long as logins and logouts do not        *)
(* overlap, the key in memory, the blob in SQLite and the stored           *)
(* passphrase fit each other at every step, and a purge forgets.           *)
(***************************************************************************)
EXTENDS Session, TLAPS

-----------------------------------------------------------------------------
(* The inductive invariants *)

\* The key a user's passphrase gives.
UserKey == [pass : Pass, salt : Salt]

\* Where a login has derived its key, and where the key opens the blob.
LoggingIn == {"loginStore", "loginKey", "save", "saveWrite", "saveLost"}
HoldsOpener == {"loginKey", "save", "saveWrite", "saveLost", "open"}

HeldKey(c) ==
    /\ pc[c] \in LoggingIn => mine[c] \in UserKey
    /\ pc[c] = "open" => mine[c] \in KeyOf

SealedByKey ==
    blob.kind = "sealed" => blob.by \in KeyOf /\ blob.by.salt = blob.salt

\* Holds however requests overlap.
BaseInv == TypeOK /\ SealedByKey /\ \A c \in Client : HeldKey(c)

\* One login or logout at a time.
Alone == \A c, o \in Client : pc[c] \in Busy /\ pc[o] \in Busy => c = o

\* No request is under way before the server serves.
Rests == up # "serving" => Quiet

\* While only logins change the blob, every key at work opens it.
KeysFit ==
    /\ blob.kind \in {"none", "sealed"}
    /\ key # NoKey => Opens(key, blob)
    /\ \A c \in Client : pc[c] \in HoldsOpener => Opens(mine[c], blob)

\* ... and so does the passphrase the backend holds.
PassFits ==
    /\ persist \in Pass => Opens(BootKey, blob)
    /\ remembered => persist \in Pass

\* A login that is about to seal uses the key the blob is sealed under.
Reseals(c) == pc[c] = "loginStore" /\ blob.kind = "sealed" => blob.by = mine[c]

\* After a purge nothing is stored, and no save is on its way.
Forgets ==
    forgotten => /\ persist = NoPass
                 /\ \A c \in Client : pc[c] \notin {"save", "saveWrite"}

\* Holds while logins and logouts do not overlap.
SerialInv ==
    /\ BaseInv
    /\ Alone /\ Rests
    /\ \A c \in Client : Reseals(c)
    /\ ~touched => KeysFit /\ PassFits
    /\ Forgets

\* A step that only ends a request.
Returns(c) ==
    /\ \E how \in Outcomes : Finish(c, how)
    /\ UNCHANGED <<backend, up, key, blob, persist, history>>

-----------------------------------------------------------------------------
(* Which steps only end a request *)

LEMMA ReturnSteps ==
    ASSUME NEW c \in Client,
           \/ LoginInvalid(c) \/ (\E p \in Pass : LoginRejected(c, p))
           \/ SaveNothing(c) \/ SaveLost(c) \/ PurgeFails(c)
           \/ DispatchOpen(c) \/ StoreFails(c) \/ Disconnect(c)
    PROVE  Returns(c)
BY DEF LoginInvalid, LoginRejected, SaveNothing, SaveLost, PurgeFails,
       DispatchOpen, OpenOutcomes, StoreFails, Disconnect, Returns, Outcomes

-----------------------------------------------------------------------------
(* BaseInv *)

LEMMA InitBase == Init => BaseInv
<1> SUFFICES ASSUME Init PROVE BaseInv
  OBVIOUS
<1> USE SessionAssumption DEF Init
<1>1. blob \in Blob /\ SealedByKey
  BY DEF Sealed, Blob, KeyOf, SealedByKey
<1>2. TypeOK
  BY <1>1 DEF TypeOK, PC, Outcomes
<1>3. \A c \in Client : HeldKey(c)
  BY DEF HeldKey, LoggingIn
<1> QED
  BY <1>1, <1>2, <1>3 DEF BaseInv

LEMMA NextBase == BaseInv /\ [Next]_vars => BaseInv'
<1> SUFFICES ASSUME BaseInv, [Next]_vars PROVE BaseInv'
  OBVIOUS
<1> USE SessionAssumption
<1> USE DEF BaseInv, TypeOK, HeldKey, SealedByKey, Goto, Finish, LoggingIn, PC,
            KeyOf, UserKey, history, requests
<1>1. CASE UNCHANGED vars
  BY <1>1 DEF vars
<1>2. ASSUME NEW c \in Client, Returns(c) PROVE BaseInv'
  BY <1>2 DEF Returns
<1>3. ASSUME NEW c \in Client, NEW p \in Pass, LoginStart(c, p) PROVE BaseInv'
  BY <1>3 DEF LoginStart, FreshSalts, Opens, HasSalt, Blob
<1>4. ASSUME NEW c \in Client, LoginStore(c) PROVE BaseInv'
  BY <1>4 DEF LoginStore, Sealed, Blob
<1>5. ASSUME NEW c \in Client, LoginKey(c) PROVE BaseInv'
  BY <1>5 DEF LoginKey
<1>6. ASSUME NEW c \in Client, SaveKeychain(c) PROVE BaseInv'
  BY <1>6 DEF SaveKeychain, Outcomes
<1>7. ASSUME NEW c \in Client, SaveOpen(c) PROVE BaseInv'
  BY <1>7 DEF SaveOpen
<1>8. ASSUME NEW c \in Client, SaveWrite(c) PROVE BaseInv'
  <2>1. mine[c].pass \in Pass
    BY <1>8 DEF SaveWrite
  <2>2. persist' \in Pass \union {NoPass, Spoiled}
    BY <1>8, <2>1 DEF SaveWrite
  <2> QED
    BY <1>8, <2>2 DEF SaveWrite, Outcomes
<1>9. ASSUME NEW c \in Client, SaveFails(c) PROVE BaseInv'
  <2>1. mine[c].pass \in Pass
    BY <1>9 DEF SaveFails
  <2>2. persist' \in Pass \union {NoPass, Spoiled}
    BY <1>9, <2>1 DEF SaveFails
  <2> QED
    BY <1>9, <2>2 DEF SaveFails, Outcomes
<1>10. ASSUME NEW c \in Client, Logout(c) PROVE BaseInv'
  BY <1>10 DEF Logout, Outcomes
<1>11. ASSUME NEW c \in Client, LogoutPurge(c) PROVE BaseInv'
  BY <1>11 DEF LogoutPurge
<1>12. ASSUME NEW c \in Client, Purge(c) PROVE BaseInv'
  BY <1>12 DEF Purge, Outcomes
<1>13. ASSUME NEW c \in Client, SetEndpoint(c) PROVE BaseInv'
  BY <1>13 DEF SetEndpoint, Blob, Outcomes
<1>14. ASSUME NEW c \in Client, DispatchKey(c) PROVE BaseInv'
  BY <1>14 DEF DispatchKey
<1>15. CASE DeleteBlob
  BY <1>15 DEF DeleteBlob, Blob
<1>16. CASE Crash
  BY <1>16 DEF Crash, Outcomes
<1>17. CASE BootUnlocks
  BY <1>17 DEF BootUnlocks, Booted, Opens
<1>18. CASE BootClears
  BY <1>18 DEF BootClears, Booted
<1>19. CASE BootLocked
  BY <1>19 DEF BootLocked, Booted
<1>20. CASE InjectDevKey
  BY <1>20 DEF InjectDevKey, FreshSalts, Sealed, Blob
<1> QED
  BY <1>1, <1>2, <1>3, <1>4, <1>5, <1>6, <1>7, <1>8, <1>9, <1>10, <1>11,
     <1>12, <1>13, <1>14, <1>15, <1>16, <1>17, <1>18, <1>19, <1>20, ReturnSteps
     DEF Next, Request

-----------------------------------------------------------------------------
(* SerialInv *)

LEMMA InitSerial == Init => SerialInv
<1> SUFFICES ASSUME Init PROVE SerialInv
  OBVIOUS
<1>1. BaseInv
  BY InitBase
<1> QED
  BY <1>1, SessionAssumption
     DEF Init, SerialInv, Alone, Rests, Quiet, Reseals, KeysFit, PassFits,
         Forgets, Sealed, Busy, HoldsOpener

\* What a login that is saving stores gives back its key.
LEMMA SavedKey ==
    ASSUME SerialInv, ~touched, NEW c \in Client, pc[c] \in {"save", "saveWrite"}
    PROVE  /\ mine[c].pass \in Pass
           /\ [pass |-> mine[c].pass, salt |-> blob.salt] = mine[c]
           /\ Opens(mine[c], blob)
<1>1. Opens(mine[c], blob)
  BY DEF SerialInv, KeysFit, HoldsOpener
<1>2. mine[c] \in UserKey
  BY DEF SerialInv, BaseInv, HeldKey, LoggingIn
<1>3. blob.salt = mine[c].salt
  BY <1>1 DEF SerialInv, BaseInv, SealedByKey, Opens
<1> QED
  BY <1>1, <1>2, <1>3 DEF UserKey

LEMMA NextSerial ==
    ASSUME ~Overlap
    PROVE  SerialInv /\ [Next]_vars => SerialInv'
<1> SUFFICES ASSUME SerialInv, [Next]_vars PROVE SerialInv'
  OBVIOUS
<1>b. BaseInv /\ BaseInv'
  BY NextBase DEF SerialInv
<1> USE SessionAssumption, <1>b
<1> USE DEF SerialInv, Alone, Rests, Quiet, Reseals, KeysFit, PassFits, Forgets,
            Goto, Finish, Busy, HoldsOpener, PC, history, requests
<1>1. CASE UNCHANGED vars
  BY <1>1 DEF vars, BootKey
<1>2. ASSUME NEW c \in Client, Returns(c) PROVE SerialInv'
  BY <1>2 DEF Returns, BootKey, BaseInv, TypeOK
<1>3. ASSUME NEW c \in Client, NEW p \in Pass, LoginStart(c, p) PROVE SerialInv'
  BY <1>3 DEF LoginStart, Admitted, Opens, HasSalt, BootKey, BaseInv, TypeOK
<1>4. ASSUME NEW c \in Client, LoginStore(c) PROVE SerialInv'
  BY <1>4 DEF LoginStore, Sealed, Opens, BootKey, BaseInv, TypeOK
<1>5. ASSUME NEW c \in Client, LoginKey(c) PROVE SerialInv'
  BY <1>5 DEF LoginKey, Opens, BootKey, BaseInv, TypeOK
<1>6. ASSUME NEW c \in Client, SaveKeychain(c) PROVE SerialInv'
  <2>1. Alone' /\ Rests' /\ (\A o \in Client : Reseals(o)') /\ Forgets'
    BY <1>6 DEF SaveKeychain, BaseInv, TypeOK
  <2>2. ASSUME ~touched' PROVE KeysFit' /\ PassFits'
    <3>1. ~touched /\ UNCHANGED blob
      BY <1>6, <2>2 DEF SaveKeychain
    <3>2. KeysFit'
      BY <1>6, <3>1 DEF SaveKeychain, Opens, BaseInv, TypeOK
    <3>3. persist' = mine[c].pass => BootKey' = mine[c]
      BY <1>6, <3>1, SavedKey DEF SaveKeychain, BootKey
    <3>4. BootKey' = BootKey \/ persist' = mine[c].pass \/ persist' = Spoiled
      BY <1>6, <3>1 DEF SaveKeychain, BootKey
    <3>5. PassFits'
      BY <1>6, <3>1, <3>3, <3>4, SavedKey DEF SaveKeychain, Opens
    <3> QED
      BY <3>2, <3>5
  <2> QED
    BY <2>1, <2>2
<1>7. ASSUME NEW c \in Client, SaveOpen(c) PROVE SerialInv'
  BY <1>7 DEF SaveOpen, Opens, BaseInv, TypeOK
<1>8. ASSUME NEW c \in Client, SaveWrite(c) PROVE SerialInv'
  <2>1. Alone' /\ Rests' /\ (\A o \in Client : Reseals(o)') /\ Forgets'
    BY <1>8 DEF SaveWrite, BaseInv, TypeOK
  <2>2. ASSUME ~touched' PROVE KeysFit' /\ PassFits'
    <3>1. ~touched /\ UNCHANGED blob
      BY <1>8, <2>2 DEF SaveWrite
    <3>2. KeysFit'
      BY <1>8, <3>1 DEF SaveWrite, Opens, BaseInv, TypeOK
    <3>3. persist' = mine[c].pass => BootKey' = mine[c]
      BY <1>8, <3>1, SavedKey DEF SaveWrite, BootKey
    <3>4. persist \in Pass => persist = mine[c].pass
      BY <1>8, <3>1, SavedKey DEF SaveWrite, BootKey, Opens
    <3>5. persist' = mine[c].pass
      BY <1>8, <3>4 DEF SaveWrite
    <3>6. PassFits'
      BY <1>8, <3>1, <3>3, <3>5, SavedKey DEF SaveWrite, Opens
    <3> QED
      BY <3>2, <3>6
  <2> QED
    BY <2>1, <2>2
<1>9. ASSUME NEW c \in Client, SaveFails(c) PROVE SerialInv'
  <2>1. Alone' /\ Rests' /\ (\A o \in Client : Reseals(o)') /\ Forgets'
    BY <1>9 DEF SaveFails, BaseInv, TypeOK
  <2>2. ASSUME ~touched' PROVE KeysFit' /\ PassFits'
    <3>1. ~touched /\ UNCHANGED blob
      BY <1>9, <2>2 DEF SaveFails
    <3>2. KeysFit'
      BY <1>9, <3>1 DEF SaveFails, Opens, BaseInv, TypeOK
    <3>3. persist' = mine[c].pass => BootKey' = mine[c]
      BY <1>9, <3>1, SavedKey DEF SaveFails, BootKey
    <3>4. BootKey' = BootKey \/ persist' = mine[c].pass \/ persist' = Spoiled
      BY <1>9, <3>1 DEF SaveFails, BootKey
    <3>5. PassFits'
      BY <1>9, <3>1, <3>3, <3>4, SavedKey DEF SaveFails, Opens
    <3> QED
      BY <3>2, <3>5
  <2> QED
    BY <2>1, <2>2
<1>10. ASSUME NEW c \in Client, Logout(c) PROVE SerialInv'
  BY <1>10 DEF Logout, Admitted, Opens, BootKey, BaseInv, TypeOK
<1>11. ASSUME NEW c \in Client, LogoutPurge(c) PROVE SerialInv'
  BY <1>11 DEF LogoutPurge, Admitted, Opens, BootKey, BaseInv, TypeOK
<1>12. ASSUME NEW c \in Client, Purge(c) PROVE SerialInv'
  BY <1>12 DEF Purge, Opens, BaseInv, TypeOK
<1>13. ASSUME NEW c \in Client, SetEndpoint(c) PROVE SerialInv'
  BY <1>13 DEF SetEndpoint, Admitted, BaseInv, TypeOK
<1>14. ASSUME NEW c \in Client, DispatchKey(c) PROVE SerialInv'
  BY <1>14 DEF DispatchKey, Opens, BootKey, BaseInv, TypeOK
<1>15. CASE DeleteBlob
  BY <1>15 DEF DeleteBlob, BaseInv, TypeOK
<1>16. CASE Crash
  BY <1>16 DEF Crash, Opens, BootKey, BaseInv, TypeOK
<1>17. CASE BootUnlocks
  BY <1>17 DEF BootUnlocks, Booted, Opens, BootKey, BaseInv, TypeOK
<1>18. CASE BootClears
  BY <1>18 DEF BootClears, Booted, Opens, BootKey, HasSalt, BaseInv, TypeOK
<1>19. CASE BootLocked
  BY <1>19 DEF BootLocked, Booted, Opens, BootKey, BaseInv, TypeOK
<1>20. CASE InjectDevKey
  <2>1. touched' /\ UNCHANGED <<persist, requests, forgotten>>
    BY <1>20 DEF InjectDevKey
  <2>2. \A c \in Client : Reseals(c)'
    BY <1>20, <2>1 DEF InjectDevKey
  <2> QED
    BY <1>20, <2>1, <2>2 DEF InjectDevKey
<1> QED
  BY <1>1, <1>2, <1>3, <1>4, <1>5, <1>6, <1>7, <1>8, <1>9, <1>10, <1>11,
     <1>12, <1>13, <1>14, <1>15, <1>16, <1>17, <1>18, <1>19, <1>20, ReturnSteps
     DEF Next, Request

-----------------------------------------------------------------------------
(* Theorems *)

LEMMA BaseAlways == Spec => []BaseInv
BY InitBase, NextBase, PTL DEF Spec

LEMMA SerialAlways ==
    ASSUME ~Overlap
    PROVE  Spec => []SerialInv
BY InitSerial, NextSerial, PTL DEF Spec

\* Every variable keeps its type, however requests overlap.
THEOREM TypeCorrect == Spec => []TypeOK
<1>1. BaseInv => TypeOK
  BY DEF BaseInv
<1> QED
  BY <1>1, BaseAlways, PTL

\* While logins and logouts do not overlap and only logins change the blob, the
\* key in memory opens it.
THEOREM KeyFits ==
    ASSUME ~Overlap
    PROVE  Spec => []KeyOpensBlob
<1>1. SerialInv => KeyOpensBlob
  BY DEF SerialInv, KeysFit, KeyOpensBlob
<1> QED
  BY <1>1, SerialAlways, PTL

\* ... and a stored passphrase is the one it is sealed under, ...
THEOREM StoredPassphraseFits ==
    ASSUME ~Overlap
    PROVE  Spec => []PersistOpensBlob
<1>1. SerialInv => PersistOpensBlob
  BY DEF SerialInv, PassFits, PersistOpensBlob, Opens, BootKey
<1> QED
  BY <1>1, SerialAlways, PTL

\* ... so that a restart after a successful save unlocks.
THEOREM RestartUnlocks ==
    ASSUME ~Overlap
    PROVE  Spec => []RememberedUnlocks
<1>1. SerialInv => RememberedUnlocks
  BY DEF SerialInv, PassFits, RememberedUnlocks, Opens, HasSalt
<1> QED
  BY <1>1, SerialAlways, PTL

\* While logins and logouts do not overlap, nothing is left to unlock with after
\* a purge, whatever else happens to the blob.
THEOREM PurgesForget ==
    ASSUME ~Overlap
    PROVE  Spec => []PurgeForgets
<1>1. SerialInv => PurgeForgets
  BY DEF SerialInv, Forgets, PurgeForgets
<1> QED
  BY <1>1, SerialAlways, PTL

\* While logins and logouts do not overlap, no login reseals an endpoint under
\* another passphrase.
THEOREM NoTakeover ==
    ASSUME ~Overlap
    PROVE  Spec => LoginKeepsPassphrase
<1>1. SerialInv /\ [Next]_vars =>
        [blob.kind = "sealed" /\ blob'.kind = "sealed" /\ up # "dev"
           => blob'.by.pass = blob.by.pass]_vars
  <2> SUFFICES ASSUME SerialInv, Next, blob.kind = "sealed",
                      blob'.kind = "sealed", up # "dev", blob' # blob
               PROVE  blob'.by.pass = blob.by.pass
    BY DEF vars
  <2>1. ASSUME NEW c \in Client, LoginStore(c)
        PROVE  blob'.by.pass = blob.by.pass
    BY <2>1 DEF LoginStore, SerialInv, Reseals, Sealed
  <2>2. ~DeleteBlob /\ ~InjectDevKey
    <3>1. blob \in Blob
      BY DEF SerialInv, BaseInv, TypeOK
    <3> QED
      BY <3>1 DEF DeleteBlob, InjectDevKey, Blob
  <2>3. \A c \in Client : ~SetEndpoint(c)
    BY SessionAssumption DEF SetEndpoint
  <2> QED
    BY <2>1, <2>2, <2>3, ReturnSteps
       DEF Next, Request, Returns, LoginStart, LoginKey, SaveKeychain, SaveOpen,
           SaveWrite, SaveFails, Logout, LogoutPurge, Purge, DispatchKey, Crash,
           BootUnlocks, BootClears, BootLocked
<1> QED
  BY <1>1, SerialAlways, PTL DEF Spec, LoginKeepsPassphrase

-----------------------------------------------------------------------------
(* However logins overlap: requests find a key that opens the blob *)

\* Once somebody has logged in, every key at work is the one that sealed the
\* blob: a login derives it from the stored salt and tries it on the blob, so
\* that logins that overlap all seal under the same key.
OneKey ==
    /\ blob.kind = "sealed"
    /\ key # NoKey => key = blob.by
    /\ \A c \in Client : pc[c] \in LoggingIn \union {"open"} => mine[c] = blob.by

EnrolledInv == BaseInv /\ (~touched => OneKey)

NoneFailed == \A c \in Client : outcome[c] # "decryptFailed"

LEMMA InitEnrolled ==
    ASSUME Enrolled
    PROVE  Init => EnrolledInv
<1> SUFFICES ASSUME Init PROVE EnrolledInv
  OBVIOUS
<1>1. BaseInv
  BY InitBase
<1> QED
  BY <1>1 DEF Init, EnrolledInv, OneKey, Sealed, LoggingIn

\* Nothing makes up for a blob that something else than a login replaced.
LEMMA TouchedStays == [Next]_vars /\ touched => touched'
BY ReturnSteps
   DEF vars, history, Next, Request, Returns, LoginStart, LoginStore,
       LoginKey, SaveKeychain, SaveOpen, SaveWrite, SaveFails, Logout,
       LogoutPurge, Purge, SetEndpoint, DispatchKey, DeleteBlob, Crash,
       BootUnlocks, BootClears, BootLocked, InjectDevKey

\* A derived key that opens the blob is the one that sealed it, and boots and
\* logins take no other.
LEMMA NextEnrolled == EnrolledInv /\ [Next]_vars => EnrolledInv'
<1> SUFFICES ASSUME EnrolledInv, [Next]_vars, ~touched' PROVE OneKey'
  BY NextBase DEF EnrolledInv
<1>b. BaseInv /\ BaseInv'
  BY NextBase DEF EnrolledInv
<1>k. ~touched /\ OneKey
  <2>1. ~touched
    BY TouchedStays
  <2> QED
    BY <2>1 DEF EnrolledInv
<1> USE SessionAssumption, <1>b, <1>k
<1> USE DEF OneKey, BaseInv, TypeOK, LoggingIn, Goto, Finish, history, requests
<1>1. CASE UNCHANGED vars
  BY <1>1 DEF vars
<1>2. ASSUME NEW c \in Client, Returns(c) PROVE OneKey'
  BY <1>2 DEF Returns
<1>3. ASSUME NEW c \in Client, NEW p \in Pass, LoginStart(c, p) PROVE OneKey'
  BY <1>3 DEF LoginStart, Opens, HasSalt
<1>4. ASSUME NEW c \in Client, LoginStore(c) PROVE OneKey'
  BY <1>4 DEF LoginStore, Sealed
<1>5. ASSUME NEW c \in Client, LoginKey(c) PROVE OneKey'
  BY <1>5 DEF LoginKey
<1>6. ASSUME NEW c \in Client,
             \/ SaveKeychain(c) \/ SaveOpen(c) \/ SaveWrite(c) \/ SaveFails(c)
      PROVE  OneKey'
  BY <1>6 DEF SaveKeychain, SaveOpen, SaveWrite, SaveFails
<1>7. ASSUME NEW c \in Client, Logout(c) \/ LogoutPurge(c) PROVE OneKey'
  BY <1>7 DEF Logout, LogoutPurge
<1>8. ASSUME NEW c \in Client, Purge(c) PROVE OneKey'
  BY <1>8 DEF Purge
<1>9. ASSUME NEW c \in Client, DispatchKey(c) PROVE OneKey'
  BY <1>9 DEF DispatchKey
<1>10. CASE Crash
  BY <1>10 DEF Crash
<1>11. CASE BootUnlocks \/ BootClears \/ BootLocked
  BY <1>11 DEF BootUnlocks, BootClears, BootLocked, Opens
<1>12. CASE (\E c \in Client : SetEndpoint(c)) \/ DeleteBlob \/ InjectDevKey
  BY <1>12 DEF SetEndpoint, DeleteBlob, InjectDevKey
<1> QED
  BY <1>1, <1>2, <1>3, <1>4, <1>5, <1>6, <1>7, <1>8, <1>9, <1>10, <1>11,
     <1>12, ReturnSteps
     DEF Next, Request

\* A step leaves a request with 401 session_decrypt_failed only by opening a
\* blob of another key.
LEMMA FailsByOpening ==
    ASSUME BaseInv, [Next]_vars, NoneFailed,
           \A c \in Client : pc[c] = "open" => Opens(mine[c], blob)
    PROVE  NoneFailed'
<1> USE DEF NoneFailed, BaseInv, TypeOK, Goto, Finish, requests
<1>1. ASSUME NEW c \in Client, NEW how \in Outcomes \ {"decryptFailed"},
             Finish(c, how)
      PROVE  NoneFailed'
  BY <1>1
<1>2. ASSUME NEW c \in Client, DispatchOpen(c) PROVE NoneFailed'
  <2>1. OpenOutcomes(mine[c], blob) = {"opened"}
    BY <1>2 DEF DispatchOpen, OpenOutcomes, Opens
  <2> QED
    BY <1>1, <1>2, <2>1 DEF DispatchOpen, Outcomes
<1>3. ASSUME NEW c \in Client,
             \/ LoginInvalid(c) \/ (\E p \in Pass : LoginRejected(c, p))
             \/ SaveNothing(c) \/ SaveKeychain(c) \/ SaveWrite(c)
             \/ SaveLost(c) \/ SaveFails(c) \/ Logout(c) \/ PurgeFails(c)
             \/ SetEndpoint(c) \/ StoreFails(c) \/ Disconnect(c)
      PROVE  NoneFailed'
  <2>1. \E how \in Outcomes \ {"decryptFailed"} : Finish(c, how)
    BY <1>3
       DEF LoginInvalid, LoginRejected, SaveNothing, SaveKeychain, SaveWrite,
           SaveLost, SaveFails, Logout, PurgeFails, SetEndpoint, StoreFails,
           Disconnect, Outcomes
  <2> QED
    BY <1>1, <2>1
<1>4. ASSUME NEW c \in Client,
             \/ (\E p \in Pass : LoginStart(c, p)) \/ LoginStore(c)
             \/ LoginKey(c) \/ SaveOpen(c) \/ LogoutPurge(c) \/ Purge(c)
             \/ DispatchKey(c)
      PROVE  NoneFailed'
  BY <1>4
     DEF LoginStart, LoginStore, LoginKey, SaveOpen, LogoutPurge, Purge,
         DispatchKey
<1>5. CASE \/ UNCHANGED vars \/ DeleteBlob \/ Crash \/ BootUnlocks
           \/ BootClears \/ BootLocked \/ InjectDevKey
  BY <1>5
     DEF vars, DeleteBlob, Crash, BootUnlocks, BootClears, BootLocked,
         InjectDevKey
<1> QED
  BY <1>2, <1>3, <1>4, <1>5 DEF Next, Request

\* As long as a login has sealed an endpoint before, or logins do not overlap,
\* no dispatch and no status request answers session_decrypt_failed unless the
\* blob was replaced by something else than a login.  (Two first logins that
\* overlap draw two salts, and the key of one may stay with the blob of the
\* other.)
THEOREM OpensWhatItReads ==
    ASSUME Enrolled \/ ~Overlap
    PROVE  Spec => []DispatchDecrypts
<1> DEFINE Fits == /\ BaseInv
                   /\ ~touched => \A c \in Client :
                        pc[c] = "open" => Opens(mine[c], blob)
<1>1. Init => DispatchDecrypts
  BY DEF Init, DispatchDecrypts
<1>2. Spec => []Fits
  <2>1. CASE Enrolled
    <3>1. EnrolledInv => Fits
      BY DEF EnrolledInv, OneKey, Opens
    <3>2. Init => EnrolledInv
      BY <2>1, InitEnrolled
    <3> QED
      BY <3>1, <3>2, NextEnrolled, PTL DEF Spec
  <2>2. CASE ~Overlap
    <3>1. SerialInv => Fits
      BY DEF SerialInv, KeysFit, HoldsOpener
    <3>2. SerialInv /\ [Next]_vars => SerialInv'
      BY <2>2, NextSerial
    <3> QED
      BY <3>1, <3>2, InitSerial, PTL DEF Spec
  <2> QED
    BY <2>1, <2>2
<1>3. Fits /\ DispatchDecrypts /\ [Next]_vars => DispatchDecrypts'
  BY FailsByOpening, TouchedStays DEF DispatchDecrypts, NoneFailed
<1> HIDE DEF Fits
<1> QED
  BY <1>1, <1>2, <1>3, PTL DEF Spec

\* Every long blob of the current scheme was sealed by a user's key.
UserSealed ==
    /\ BaseInv
    /\ up # "dev"
    /\ blob.kind # "junk"
    /\ blob.kind = "sealed" => blob.by \in UserKey

\* As long as the server never ran with --dev-api-key, which seals the blob
\* under a passphrase of its own, and nobody stored a long blob of the current
\* scheme that no key sealed, some passphrase passes the login's check: neither
\* logins that overlap, fail or stop half way, nor rotations, crashes and short
\* blobs leave a server nobody can log in to.
THEOREM NobodyLockedOut ==
    ASSUME ~DevKey, "junk" \notin Foreign
    PROVE  Spec => []SomePassphraseWorks
<1>1. Init => UserSealed
  BY InitBase DEF Init, UserSealed, Sealed, UserKey
<1>2. UserSealed /\ [Next]_vars => UserSealed'
  <2> SUFFICES ASSUME UserSealed, [Next]_vars PROVE UserSealed'
    OBVIOUS
  <2>b. BaseInv /\ BaseInv'
    BY NextBase DEF UserSealed
  <2> USE SessionAssumption, <2>b DEF UserSealed, Booted
  <2>1. ASSUME NEW c \in Client, LoginStore(c) PROVE UserSealed'
    BY <2>1 DEF LoginStore, Sealed, BaseInv, HeldKey, LoggingIn
  <2>2. ASSUME NEW c \in Client, SetEndpoint(c) PROVE UserSealed'
    BY <2>2 DEF SetEndpoint
  <2>3. CASE DeleteBlob
    BY <2>3 DEF DeleteBlob, BaseInv, TypeOK, Blob
  <2>4. CASE Crash \/ BootUnlocks \/ BootClears \/ BootLocked
    BY <2>4 DEF Crash, BootUnlocks, BootClears, BootLocked
  <2>5. ~InjectDevKey
    BY DEF InjectDevKey
  <2>6. ASSUME UNCHANGED <<up, blob>> PROVE UserSealed'
    BY <2>6
  <2> QED
    BY <2>1, <2>2, <2>3, <2>4, <2>5, <2>6, ReturnSteps
       DEF vars, Next, Request, Returns, LoginStart, LoginKey, SaveKeychain,
           SaveOpen, SaveWrite, SaveFails, Logout, LogoutPurge, Purge,
           DispatchKey
<1>3. UserSealed => SomePassphraseWorks
  <2> SUFFICES ASSUME UserSealed, HasSalt(blob), blob.kind # "short"
               PROVE  \E p \in Pass :
                        Opens([pass |-> p, salt |-> blob.salt], blob)
    BY DEF SomePassphraseWorks
  <2>1. blob.kind = "sealed" /\ blob.by \in UserKey /\ blob.by.salt = blob.salt
    BY DEF UserSealed, HasSalt, BaseInv, SealedByKey
  <2>2. [pass |-> blob.by.pass, salt |-> blob.salt] = blob.by
    BY <2>1 DEF UserKey
  <2> QED
    BY <2>1, <2>2 DEF Opens, UserKey
<1> QED
  BY <1>1, <1>2, <1>3, PTL DEF Spec
=============================================================================
