---------------------------- MODULE DurableStore ----------------------------
(***************************************************************************)
(* What the users store promises (src/admin/userStore.ts), whoever calls   *)
(* it: changes are made in memory, one save at a time takes a version of   *)
(* the document there and puts it, whole, in the place of the durable one, *)
(* and a change is acknowledged only when the durable document has it.     *)
(* save(): "a slow write can never be overtaken by a newer one".  A        *)
(* document says in by which changes it contains.                          *)
(***************************************************************************)
CONSTANTS Change, InitialDoc
VARIABLES
  memory,   \* the document the process works on
  draft,    \* the version being saved, or else the durable one
  durable,  \* the document a restart begins with
  told      \* the changes that were acknowledged

StoreInit == memory = InitialDoc /\ draft = InitialDoc /\ durable = InitialDoc /\ told = {}

MakeChange ==
  /\ \E c \in Change : memory'.by = memory.by \cup {c}
  /\ UNCHANGED <<draft, durable, told>>

TakeVersion == draft' = memory /\ UNCHANGED <<memory, durable, told>>
Replace == durable' = draft /\ UNCHANGED <<memory, draft, told>>
GiveUp == draft' = durable /\ UNCHANGED <<memory, durable, told>>

Acknowledge ==
  /\ \E c \in durable.by : told' = told \cup {c}
  /\ UNCHANGED <<memory, draft, durable>>

Lose == memory' = durable /\ draft' = durable /\ UNCHANGED <<durable, told>>

StoreNext == MakeChange \/ TakeVersion \/ Replace \/ GiveUp \/ Acknowledge \/ Lose
Durability == StoreInit /\ [][StoreNext]_<<memory, draft, durable, told>>
=============================================================================
