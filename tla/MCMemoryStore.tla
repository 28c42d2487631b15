--------------------------- MODULE MCMemoryStore ---------------------------
(* MemoryStore with two facts that differ in case only and a third one.     *)
EXTENDS MemoryStore

CONSTANTS name, NAME, age, t1, t2

MCKey == [f \in Facts |-> IF f = age THEN "age" ELSE "name"]

(* "My name is ...", and a message with a name and an age. *)
MCExtracted == {<<>>, <<NAME>>, <<name, age>>}
=============================================================================
