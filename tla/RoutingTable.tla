---------------------------- MODULE RoutingTable ----------------------------
(***************************************************************************)
(* The tables built from the environment: the initial queue of the chain   *)
(* (src/providers/chain-routing.ts buildRoutingEntries(), extras.ts), the  *)
(* models that /v1/models advertises and those a request may name          *)
(* (src/gateway/model-list.ts).                                            *)
(*                                                                         *)
(* A configuration is a record: has, the providers with a key (the local   *)
(* ones: that are enabled); models, per provider its models, the primary   *)
(* first, none when the primary is blank; keys, how many OpenRouter keys;  *)
(* force, FORCE_FREE.  A model is a name and whether it is tagged, that    *)
(* is, exempt from the suffix ":free" or bearing one.                      *)
(***************************************************************************)
EXTENDS Naturals, Sequences, SequencesExt

ExtraProviderOrder ==
  <<"unorouter", "groq", "sambanova", "mistral", "gemini", "cline", "cloudflare">>
RemoteOrder ==
  <<"zai", "openrouter", "openai", "tokenrouter", "opencodego", "opencode">> \o ExtraProviderOrder
LocalOrder == <<"local", "lmstudio", "laptop">>
ProviderOrder == RemoteOrder \o LocalOrder

WithFree(model, force) == IF force THEN [model EXCEPT !.tagged = TRUE] ELSE model

RoutingEntry(provider, model, index) == [provider |-> provider, model |-> model, attemptIndex |-> index]

\* The first of equal models stays.
Deduped(models) ==
  LET firsts == { i \in DOMAIN models : \A j \in 1..(i - 1) : models[j] # models[i] }
  IN  [n \in 1..Cardinality(firsts) |->
         models[CHOOSE i \in firsts : Cardinality({ j \in firsts : j < i }) = n - 1]]

OpenRouterEntries(config) ==
  FlattenSeq([m \in DOMAIN config.models["openrouter"] |->
                [k \in 1..config.keys |->
                   RoutingEntry("openrouter", WithFree(config.models["openrouter"][m], config.force), k - 1)]])

\* An extra with several models has index 0 throughout.
ExtraRoutingEntries(config, provider) ==
  LET models == Deduped(config.models[provider])
  IN  [m \in DOMAIN models |-> RoutingEntry(provider, models[m], 0)]

\* A second model of zai or opencodego has index 1.
SingleKeyEntries(config, provider) ==
  [m \in DOMAIN config.models[provider] |-> RoutingEntry(provider, config.models[provider][m], m - 1)]

EntriesOfProvider(config, provider) ==
  CASE provider \notin config.has -> <<>>
    [] provider = "openrouter" -> OpenRouterEntries(config)
    [] provider \in ToSet(ExtraProviderOrder) -> ExtraRoutingEntries(config, provider)
    [] OTHER -> SingleKeyEntries(config, provider)

BuildRoutingEntries(config) ==
  FlattenSeq([p \in DOMAIN ProviderOrder |-> EntriesOfProvider(config, ProviderOrder[p])])

(***************************************************************************)
(* Which models a client sees and may name.                                *)
(***************************************************************************)
ModelsOf(config, providers) == UNION { ToSet(config.models[p]) : p \in providers }

\* OpenRouter's are advertised with or without a key.
Advertised(config) == ModelsOf(config, config.has \cup {"openrouter"})

\* resolveModel(): of OpenRouter the primary only, of the other built-in
\* providers the models with or without a key, of the extras those of the walk.
Known(config) ==
  LET extras == ToSet(ExtraProviderOrder)
  IN  ModelsOf(config, ToSet(ProviderOrder) \ (extras \cup {"openrouter"}))
        \cup ModelsOf(config, config.has \cap extras)
        \cup {config.models["openrouter"][1]}

(***************************************************************************)
(* What must hold of the tables of a configuration.                        *)
(***************************************************************************)
\* No remote entry stands behind a local one: the tail is what remains when the
\* rest of a walk fails ("Local providers (llama-server, LM Studio) come LAST").
TailComesLast(config) ==
  LET table == BuildRoutingEntries(config)
  IN  \A i, j \in DOMAIN table :
        table[i].provider \in ToSet(LocalOrder) /\ i < j => table[j].provider \in ToSet(LocalOrder)

\* No entry stands twice in the queue, unless OPENROUTER_MODELS repeats a model.
EntriesDistinct(config) ==
  LET table  == BuildRoutingEntries(config)
      models == config.models["openrouter"]
  IN  IsInjective([m \in DOMAIN models |-> WithFree(models[m], config.force)]) => IsInjective(table)

\* A model that is advertised may be named, except the additional models of
\* OpenRouter, which resolveModel() does not know and sends on the alias walk.
AdvertisedIsKnown(config) ==
  Advertised(config) \ Known(config) \subseteq ToSet(Tail(config.models["openrouter"]))
=============================================================================
