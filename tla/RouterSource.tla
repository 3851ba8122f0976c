---------------------------- MODULE RouterSource ----------------------------
(***************************************************************************)
(* Where a request gets its router from: the endpoint sealed in session_kv  *)
(* while a session key is in memory, else the router the last boot built    *)
(* from studio.toml; and the completion cache that all routers share.       *)
(*                                                                         *)
(* Session has the steps inside a login and what a key opens; here a login  *)
(* is one step, the key fits every blob a login stored, and only which      *)
(* account is sealed matters.  RouterDispatch has the steps inside a call.  *)
(***************************************************************************)
EXTENDS Naturals, Sequences, FiniteSets

CONSTANTS
    Account,   \* endpoints users log in to
    NoBlob,    \* session_kv is empty
    Raw,       \* a blob of another scheme, whose bytes are text
    Config,    \* what the two configuration files of the project may hold
    Namesake   \* the provider that studio.toml calls session_provider, if any

\* The providers of studio.toml, by where their credential comes from.
Provider == {"synthetic", "env", "keyless"}
Tag == Provider \union {"undeclared", "malformed"}   \* of router.preferred
File == [state : {"absent", "bad", "good"}, providers : SUBSET Provider, preferred : SUBSET Tag]

ASSUME RouterSourceAssumption ==
    /\ Account \cap Provider = {}
    /\ {NoBlob, Raw} \cap Account = {} /\ NoBlob # Raw
    /\ Namesake \subseteq Provider
    /\ Config \subseteq [primary : File, alternate : File]

VARIABLES
    unlocked,   \* a session key is in memory
    endpoint,   \* what session_kv holds
    static,     \* the providers the boot's router walks, or NoRouter
    cache       \* answers kept on disk

source == <<unlocked, endpoint, static, cache>>

-----------------------------------------------------------------------------
(* The router of studio.toml *)

\* The first of the two names that exists, whatever is in it.
ReadConfig(c) == IF c.primary.state = "absent" THEN c.alternate ELSE c.primary

\* The blob's bytes are a key of last resort if they are text; a sealed one is not.
HasCredential(p, blob) == p \in {"synthetic", "env"} \/ blob = Raw

\* Every tag parses, and names a declared provider.
Validates(file) == file.preferred \subseteq file.providers

\* RouterBuilder::build: the configuration holds together, and nothing it
\* declares is left unregistered.
Builds(file, registered) == Validates(file) /\ file.providers \subseteq registered

\* build_inner: a provider without a credential is skipped, but then build
\* refuses the configuration because it declares that provider.
BuildRouter(c, blob) ==
    LET file == ReadConfig(c)
        registered == {p \in file.providers : HasCredential(p, blob)}
    IN  file.state = "good" /\ registered # {} /\ Builds(file, registered)

\* Not a set of providers: the boot has built no router.
NoRouter == {"none"}

\* What a boot may end up with: Cache::new and Ledger::open may refuse their paths.
Routers == {NoRouter} \union
           {ReadConfig(c).preferred : c \in {c \in Config : BuildRouter(c, endpoint)}}

-----------------------------------------------------------------------------
(* Credentials *)

\* A login seals its account under the passphrase in use.
Login(a) ==
    /\ endpoint' = a
    /\ unlocked' = TRUE
    /\ UNCHANGED <<static, cache>>

Logout ==
    /\ unlocked' = FALSE
    /\ UNCHANGED <<endpoint, static, cache>>

\* POST /api/auth/set-endpoint, and the operator's DELETE of the row.
Replace(blob) ==
    /\ endpoint' = blob
    /\ UNCHANGED <<unlocked, static, cache>>

\* A restart rereads the configuration; auto_unlock_on_boot may find a passphrase.
Reboot ==
    /\ static' \in Routers
    /\ \E found \in BOOLEAN : unlocked' = (found /\ endpoint \in Account)
    /\ UNCHANGED <<endpoint, cache>>

-----------------------------------------------------------------------------
(* The cache *)

\* Every router built from a session calls its provider session_provider.
ProviderKey(who) == IF who \in Account \union Namesake THEN "session_provider" ELSE who

\* Mutant: the key is made of the body alone.
KeyOfBody(who, body) == <<"any", body>>

\* Keys hold the model's name too; here all providers serve one of that name.
CacheKey(who, body) == <<ProviderKey(who), body>>

Hits(who, body) == {e \in cache : e.key = CacheKey(who, body)}

Entry(who, body, reply) ==
    [key |-> CacheKey(who, body), by |-> who, asked |-> body, reply |-> reply]

\* Cache::put replaces the file of the key; one request may store an answer of
\* each provider it walks, as an answer whose ledger line fails is passed over.
Store(answers, body) ==
    LET new == {Entry(p, body, answers[p]) : p \in DOMAIN answers}
    IN  cache' = {e \in cache : \A f \in new : e.key # f.key} \union new

SourceInit ==
    /\ unlocked = FALSE
    /\ endpoint \in Account \union {NoBlob}
    /\ static \in Routers
    /\ cache = {}

SourceTypeOK ==
    /\ unlocked \in BOOLEAN
    /\ static \in (SUBSET Provider) \union {NoRouter}
    /\ endpoint \in Account \union {NoBlob, Raw}
    /\ \A e \in cache : e.by \in Account \union Provider
=============================================================================
