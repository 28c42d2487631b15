------------------------------ MODULE FactStore ------------------------------
(***************************************************************************)
(* What MemoryStore promises to the threads of one server while it runs: a  *)
(* list of facts, oldest first, that changes by one fact in a step and      *)
(* never holds two that are equal up to case (MemoryStore.h:30-41).         *)
(***************************************************************************)
EXTENDS Naturals, Sequences

CONSTANTS
    Fact,    \* fact texts
    KeyOf    \* the lower-case form of a fact: equal keys, equal facts

VARIABLE known

Has(f) == \E i \in DOMAIN known : KeyOf[known[i]] = KeyOf[f]

Init == known = <<>>

Add(f) ==
    /\ ~Has(f)
    /\ known' = Append(known, f)

(* The one fact that equals f goes, and the order of the others stays.      *)
Remove(f) ==
    \E i \in DOMAIN known :
        /\ KeyOf[known[i]] = KeyOf[f]
        /\ known' = SubSeq(known, 1, i - 1) \o SubSeq(known, i + 1, Len(known))

Next == \E f \in Fact : Add(f) \/ Remove(f)

Spec == Init /\ [][Next]_known

=============================================================================
