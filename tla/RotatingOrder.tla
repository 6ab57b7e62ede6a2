--------------------------- MODULE RotatingOrder ---------------------------
(***************************************************************************)
(* What a queue of the router promises, whoever uses it: it holds every    *)
(* item in one line, and a step either leaves the line alone or moves some *)
(* items behind all the others, keeping the order on both sides.  "Any     *)
(* item that fails is moved to the tail" (src/providers/rotation.ts).      *)
(***************************************************************************)
EXTENDS FailoverQueue

CONSTANTS Items, InitialLine
VARIABLE line

LineUp == line = InitialLine
MoveSome == \E S \in SUBSET Items : line' = MoveToTail(line, S, Items)

Rotation == LineUp /\ [][MoveSome]_line
=============================================================================
