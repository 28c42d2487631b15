----------------------------- MODULE AreaSearch -----------------------------
(***************************************************************************)
(* What the engines promise about a run, without queues, models or clocks:  *)
(* areas are discovered, one of them at a time is explored, none is ever    *)
(* explored twice, at most Limit are explored at all, and the run stops.    *)
(* README.md:40-42: "Surviving directions re-enter the queue; areas are     *)
(* never revisited. The loop continues until the queue drains, an iteration *)
(* cap is hit, or a wall-clock budget runs out."                            *)
(***************************************************************************)
EXTENDS Integers, FiniteSets

CONSTANTS
    Area,   \* what can be explored
    Limit   \* how many areas a run may explore

VARIABLES
    frontier,  \* discovered, not begun
    current,   \* being explored: {} or one area
    explored,  \* done with
    stopped

vars == <<frontier, current, explored, stopped>>

Init ==
    /\ frontier = {}
    /\ current = {}
    /\ explored = {}
    /\ stopped = FALSE

Discover(a) ==
    /\ ~stopped
    /\ a \notin frontier \cup current \cup explored
    /\ frontier' = frontier \cup {a}
    /\ UNCHANGED <<current, explored, stopped>>

Begin(a) ==
    /\ ~stopped
    /\ current = {}
    /\ a \in frontier
    /\ Cardinality(explored) < Limit
    /\ frontier' = frontier \ {a}
    /\ current' = {a}
    /\ UNCHANGED <<explored, stopped>>

Complete ==
    /\ ~stopped
    /\ current # {}
    /\ explored' = explored \cup current
    /\ current' = {}
    /\ UNCHANGED <<frontier, stopped>>

Stop ==
    /\ ~stopped
    /\ stopped' = TRUE
    /\ UNCHANGED <<frontier, current, explored>>

Next ==
    \/ \E a \in Area : Discover(a) \/ Begin(a)
    \/ Complete
    \/ Stop

Spec == Init /\ [][Next]_vars /\ WF_vars(Stop)

SafeSpec == Init /\ [][Next]_vars

=============================================================================
