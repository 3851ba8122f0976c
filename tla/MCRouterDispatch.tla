-------------------------- MODULE MCRouterDispatch --------------------------
(* Instances of RouterDispatch for TLC, with what the wire adapters send and  *)
(* return on the other side of its provider calls. *)
EXTENDS RouterDispatch, WireAdapters

Opus == [provider |-> "anthropic", model |-> "opus"]
Sonnet == [provider |-> "anthropic", model |-> "sonnet"]

Strategies(list) ==
    {[strategy |-> s, preferred |-> list] : s \in {"quality", "latency"}}

\* One provider with two models, and the empty list.
SharedProvider ==
    Strategies(<<Opus, Sonnet>>)
        \union {[strategy |-> "quality", preferred |-> <<>>]}

OneOrder ==
    {[strategy |-> "quality", preferred |-> <<Opus, Sonnet>>],
     [strategy |-> "quality", preferred |-> <<>>]}

Maybe == {Unset, 1024}
SmallParams == [max_tokens : Maybe, temperature : Maybe, top_p : Maybe,
                stop : {<<>>} \union {<<t>> : t \in Text}]
SmallQuestions == [model : Name, messages : UNION {[1 .. n -> Message] : n \in 0 .. 2},
                   params : SmallParams]

\* SameKeySameBody on small requests, and a key tells apart what OpenAI is sent.
ASSUME KeysTellBodiesApart ==
    \A q, r \in SmallQuestions :
        /\ KeyMaterial("p", q) = KeyMaterial("p", r) => AnthropicBody(q) = AnthropicBody(r)
        /\ KeyMaterial("p", q) = KeyMaterial("p", r) <=> OpenAiBody(q) = OpenAiBody(r)

\* The router is checked with every error the adapters make of an HTTP exchange.
ASSUME AdaptersFailAsChecked ==
    Failures = {"transport", "rateLimit", "auth", "badRequest", "decode"}
=============================================================================
