---------------------------- MODULE WireAdapters ----------------------------
(***************************************************************************)
(* What a router's call of a provider comes to: the body the two HTTP       *)
(* adapters build from a CompletionRequest, what they make of the exchange, *)
(* and the key under which the completion cache keeps the answer.           *)
(*                                                                         *)
(* The router calls complete only; the adapters' complete_stream has no     *)
(* caller.  BLAKE3 is ideal, so a key is the material that is hashed, and   *)
(* JSON is the value it writes.                                             *)
(***************************************************************************)
EXTENDS Integers, Sequences, TLAPS

CONSTANTS
    Text,     \* contents of messages and stop sequences
    Name,     \* providers and models
    Amount,   \* values of a sampling parameter
    Unset     \* a parameter the caller left out

ASSUME WireAssumption == 1024 \in Amount /\ Unset \notin Amount

Role == {"system", "user", "assistant"}
Message == [role : Role, content : Text]

Scalar == {"max_tokens", "temperature", "top_p"}
SamplingParams == [max_tokens : Amount \union {Unset}, temperature : Amount \union {Unset},
                   top_p : Amount \union {Unset}, stop : Seq(Text)]

Question == [model : Name, messages : Seq(Message), params : SamplingParams]

-----------------------------------------------------------------------------
(* The key of the cache *)

\* An empty list of stop sequences is left out like an unset number.
Given(p) == {f \in Scalar : p[f] # Unset} \union (IF p.stop = <<>> THEN {} ELSE {"stop"})

CanonicalParams(p) == [f \in Given(p) |-> p[f]]

CanonicalMessages(ms) == [i \in DOMAIN ms |-> <<ms[i].role, ms[i].content>>]

KeyMaterial(provider, q) ==
    <<provider, q.model, CanonicalParams(q.params), CanonicalMessages(q.messages)>>

-----------------------------------------------------------------------------
(* What is sent *)

SystemOf(talk) == SelectSeq(talk, LAMBDA m : m[1] = "system")
ConversationOf(talk) == SelectSeq(talk, LAMBDA m : m[1] # "system")

\* The optional fields, as far as the caller has set them.
Optional(p, fields) == [f \in Given(p) \intersect fields |-> p[f]]

\* Anthropic wants a limit, and what the system says apart from the others; it
\* is joined into one text, which is left out here.
AnthropicBody(q) ==
    LET talk == CanonicalMessages(q.messages)
        limit == q.params.max_tokens
    IN  [model |-> q.model,
         system |-> SystemOf(talk),
         messages |-> ConversationOf(talk),
         max_tokens |-> IF limit = Unset THEN 1024 ELSE limit,
         others |-> Optional(q.params, {"temperature", "top_p", "stop"})]

OpenAiBody(q) ==
    [model |-> q.model,
     messages |-> CanonicalMessages(q.messages),
     others |-> Optional(q.params, Scalar \union {"stop"})]

-----------------------------------------------------------------------------
(* What comes back *)

\* The bodies of a success, by what the two decoders tell apart: an answer
\* with a text; one with no block or choice at all; a text without the usage; a
\* block or a message that has no text; anything else.
Payload == {"text", "empty", "noUsage", "noText", "junk"}

\* Of an exchange that did not come to its end nothing but that is known.
Exchange == [complete : BOOLEAN, status : 100 .. 599, payload : Payload]

\* The kinds of RouterDispatch: server errors are transient like "transport".
\* A 429 is "rateLimit" without the Retry-After header it may have.
ClassifyStatus(status) ==
    CASE status \in {401, 403} -> "auth"
      [] status = 429 -> "rateLimit"
      [] status \in 400 .. 499 \ {401, 403, 429} -> "badRequest"
      [] OTHER -> "transport"

\* The usage is required, and a block that is no text fails the whole message.
AnthropicDecoded(payload) ==
    CASE payload = "text" -> "text"
      [] payload = "empty" -> "noText"
      [] OTHER -> "decode"

\* Everything has a default: what has no text is an empty answer.
OpenAiDecoded(payload) ==
    CASE payload \in {"text", "noUsage"} -> "text"
      [] payload \in {"empty", "noText"} -> "noText"
      [] OTHER -> "decode"

AnthropicComplete(x) ==
    IF ~x.complete THEN "transport"
    ELSE IF x.status \in 200 .. 299 THEN AnthropicDecoded(x.payload)
    ELSE ClassifyStatus(x.status)

OpenAiComplete(x) ==
    IF ~x.complete THEN "transport"
    ELSE IF x.status \in 200 .. 299 THEN OpenAiDecoded(x.payload)
    ELSE ClassifyStatus(x.status)

Completions == {"text", "noText"}

\* The failures the router gets to see.
Failures == ({AnthropicComplete(x) : x \in Exchange} \union {OpenAiComplete(x) : x \in Exchange})
                \ Completions

-----------------------------------------------------------------------------
(* Requests that share a key *)

\* Equal canonical parameters are given for the same fields, and have the same
\* values there.
LEMMA CanonicalFields ==
    ASSUME NEW p \in SamplingParams, NEW r \in SamplingParams,
           CanonicalParams(p) = CanonicalParams(r)
    PROVE  /\ Given(p) = Given(r)
           /\ \A f \in Given(p) : p[f] = r[f]
<1>1. Given(p) = DOMAIN CanonicalParams(p) /\ Given(r) = DOMAIN CanonicalParams(r)
  BY DEF CanonicalParams
<1>2. Given(p) = Given(r)
  BY <1>1
<1>3. ASSUME NEW f \in Given(p) PROVE p[f] = r[f]
  <2>1. CanonicalParams(p)[f] = p[f]
    BY DEF CanonicalParams
  <2>2. CanonicalParams(r)[f] = r[f]
    BY <1>2 DEF CanonicalParams
  <2> QED BY <2>1, <2>2
<1> QED BY <1>2, <1>3

\* So they become the same optional fields of a body.
LEMMA SameOptional ==
    ASSUME NEW p \in SamplingParams, NEW r \in SamplingParams,
           CanonicalParams(p) = CanonicalParams(r), NEW fields
    PROVE  Optional(p, fields) = Optional(r, fields)
<1>1. Given(p) = Given(r) /\ \A f \in Given(p) : p[f] = r[f]
  BY CanonicalFields
<1> QED BY <1>1 DEF Optional

\* And the limit Anthropic is given is the same.
LEMMA SameLimit ==
    ASSUME NEW p \in SamplingParams, NEW r \in SamplingParams,
           CanonicalParams(p) = CanonicalParams(r)
    PROVE  p.max_tokens = r.max_tokens
<1>1. Given(p) = Given(r) /\ \A f \in Given(p) : p[f] = r[f]
  BY CanonicalFields
<1>2. "max_tokens" \in Given(p) <=> p.max_tokens # Unset
  BY DEF Given, Scalar
<1>3. "max_tokens" \in Given(r) <=> r.max_tokens # Unset
  BY DEF Given, Scalar
<1>4. CASE "max_tokens" \in Given(p)
  BY <1>1, <1>4
<1>5. CASE "max_tokens" \notin Given(p)
  BY <1>1, <1>2, <1>3, <1>5
<1> QED BY <1>4, <1>5

\* CacheKey::compute leaves nothing out that a provider gets to see: of two
\* requests with one key, each adapter would have sent the same body to the
\* same provider, so that one's answer may be served to the other.
THEOREM SameKeySameBody ==
    ASSUME NEW q \in Question, NEW r \in Question,
           NEW provider \in Name, NEW other \in Name,
           KeyMaterial(provider, q) = KeyMaterial(other, r)
    PROVE  /\ provider = other
           /\ AnthropicBody(q) = AnthropicBody(r)
           /\ OpenAiBody(q) = OpenAiBody(r)
<1>1. /\ provider = other
      /\ q.model = r.model
      /\ CanonicalParams(q.params) = CanonicalParams(r.params)
      /\ CanonicalMessages(q.messages) = CanonicalMessages(r.messages)
  BY DEF KeyMaterial
<1>2. q.params \in SamplingParams /\ r.params \in SamplingParams
  BY DEF Question
<1>3. AnthropicBody(q) = AnthropicBody(r)
  <2>1. q.params.max_tokens = r.params.max_tokens
    BY <1>1, <1>2, SameLimit
  <2>2. Optional(q.params, {"temperature", "top_p", "stop"})
           = Optional(r.params, {"temperature", "top_p", "stop"})
    BY <1>1, <1>2, SameOptional
  <2> QED BY <1>1, <2>1, <2>2 DEF AnthropicBody
<1>4. OpenAiBody(q) = OpenAiBody(r)
  <2>1. Optional(q.params, Scalar \union {"stop"}) = Optional(r.params, Scalar \union {"stop"})
    BY <1>1, <1>2, SameOptional
  <2> QED BY <1>1, <2>1 DEF OpenAiBody
<1> QED BY <1>1, <1>3, <1>4

=============================================================================
