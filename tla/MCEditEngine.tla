---------------------------- MODULE MCEditEngine ----------------------------
(* EditEngine on small instances: each file is an area of its own; bad is   *)
(* not valid UTF-8, and new does not exist yet.                             *)
EXTENDS EditEngine

CONSTANTS probe, f, g, bad, new, outside, loop

MCContent == [a \in Areas |-> {a} \cap Files]

MCPosition == [p \in Existing |-> IF p = f THEN 1 ELSE IF p = g THEN 2 ELSE 3]
=============================================================================
