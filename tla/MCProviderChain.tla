-------------------------- MODULE MCProviderChain --------------------------
(***************************************************************************)
(* Small queues for ProviderChain, built as the router builds them; an     *)
(* entry is its position in the table.  Then, for small configurations,    *)
(* what must hold of the tables, and the demote loops of failure-axes.ts   *)
(* against the relation the chain uses.                                    *)
(***************************************************************************)
EXTENDS ProviderChain, Sequences, TLC

Tables == INSTANCE RoutingTable

NoModels == [p \in { Tables!ProviderOrder[i] : i \in DOMAIN Tables!ProviderOrder } |-> <<>>]
Plain(name) == [name |-> name, tagged |-> FALSE]
Of(table, field(_)) == [e \in DOMAIN table |-> field(table[e])]
ProviderIn(entry) == entry.provider
ModelIn(entry) == entry.model.name

\* One model on two OpenRouter keys, another account, the tail.
Keys == Tables!BuildRoutingEntries(
  [has |-> {"openrouter", "openai", "local"}, keys |-> 2, force |-> TRUE,
   models |-> [NoModels EXCEPT !["openrouter"] = <<Plain("or")>>, !["openai"] = <<Plain("gpt")>>,
                               !["local"] = <<Plain("qwen")>>]])
KeysEntry == DOMAIN Keys
KeysQueue == [i \in KeysEntry |-> i]
KeysProviderOf == Of(Keys, ProviderIn)
KeysModelOf == Of(Keys, ModelIn)

\* One account with two models, the tail.
Models == Tables!BuildRoutingEntries(
  [has |-> {"zai", "local"}, keys |-> 0, force |-> FALSE,
   models |-> [NoModels EXCEPT !["zai"] = <<Plain("glm"), Plain("glm2")>>,
                               !["local"] = <<Plain("qwen")>>]])
ModelsEntry == DOMAIN Models
ModelsQueue == [i \in ModelsEntry |-> i]
ModelsProviderOf == Of(Models, ProviderIn)
ModelsModelOf == Of(Models, ModelIn)

\* Any of five providers; one or two models of OpenRouter, and of an extra.
Names == {"a", "b"}
Additional == {<<>>} \cup { <<[name |-> n, tagged |-> t]>> : n \in Names, t \in BOOLEAN }
Configs ==
  { [has |-> has, keys |-> keys, force |-> force,
     models |-> [NoModels EXCEPT !["openrouter"] = <<Plain("a")>> \o more,
                                 !["groq"] = <<Plain("g"), Plain("g")>> \o extra,
                                 !["zai"] = <<Plain("z")>>, !["local"] = <<Plain("l")>>,
                                 !["laptop"] = <<Plain("t")>>]]
    : has \in SUBSET {"openrouter", "groq", "zai", "local", "laptop"}, keys \in 0..2,
      force \in BOOLEAN, more \in Additional, extra \in Additional }

ASSUME TablesInOrder ==
  \A config \in Configs :
    Tables!TailComesLast(config) /\ Tables!EntriesDistinct(config) /\ Tables!AdvertisedIsKnown(config)

Loops == INSTANCE RotationQueue
MaxLength == 4
QueuesOf(S) == { q \in [1..Cardinality(S) -> S] : \A i, j \in DOMAIN q : q[i] = q[j] => i = j }

ASSUME LoopMovesToTail ==
  \A n \in 1..MaxLength :
    \A q \in QueuesOf(1..n), S \in SUBSET (1..n) :
      OrderOf(Loops!DemoteEach(q, S)) = MoveToTail(OrderOf(q), S, 1..n)

RequestSymmetry == Permutations(Request)
=============================================================================
