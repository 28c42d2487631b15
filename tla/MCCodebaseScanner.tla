-------------------------- MODULE MCCodebaseScanner --------------------------
(* Small trees for TLC: four files to pack, of which two fit behind the     *)
(* first one in one way and not in the other.                               *)
EXTENDS CodebaseScanner, TLC

CONSTANTS a, b, c, d, text, old

MCPosition == a :> 1 @@ b :> 2 @@ c :> 3 @@ d :> 4 @@ text :> 5 @@ old :> 6
MCHeader == [f \in Files |-> 3]
MCContent == a :> 7 @@ b :> 13 @@ c :> 3 @@ d :> 2 @@ text :> 5 @@ old :> 1
=============================================================================
