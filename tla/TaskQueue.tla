------------------------------ MODULE TaskQueue ------------------------------
(***************************************************************************)
(* TaskQueue (src/src/TaskQueue.cpp, src/include/cppcoder/TaskQueue.h):     *)
(* the FIFO of pending tasks with its two membership sets, the areas        *)
(* already investigated and the areas of the queued tasks.  It is a passive *)
(* object owned by one engine run: the modules that EXTEND this one call    *)
(* its operations inside their own actions.                                 *)
(*                                                                          *)
(* A task is any record with a field targetArea; both branches of Push      *)
(* (repeatable or not) test and update the same sets, so one operator       *)
(* stands for the two.                                                      *)
(***************************************************************************)
EXTENDS Naturals, Sequences

VARIABLES
    queue,        \* the deque, head first
    queuedAreas,  \* target areas of the tasks in queue
    visited       \* target areas marked visited

queueVars == <<queue, queuedAreas, visited>>

(* The target areas of a sequence of tasks or directions. *)
AreasOf(s) == {s[i].targetArea : i \in DOMAIN s}

InitQueue ==
    /\ queue = <<>>
    /\ queuedAreas = {}
    /\ visited = {}

(* Mutants of Accepts: one of the two sets is forgotten. *)
AcceptsUnlessVisited(t) == t.targetArea \notin visited
AcceptsUnlessQueued(t) == t.targetArea \notin queuedAreas

(* What Push tests; its return value. *)
Accepts(t) == t.targetArea \notin visited \cup queuedAreas

(* Mutant of Enqueue: push_front. *)
EnqueueInFront(t) ==
    /\ Accepts(t)
    /\ queue' = <<t>> \o queue
    /\ queuedAreas' = queuedAreas \cup {t.targetArea}
    /\ UNCHANGED visited

Enqueue(t) ==
    /\ Accepts(t)
    /\ queue' = Append(queue, t)
    /\ queuedAreas' = queuedAreas \cup {t.targetArea}
    /\ UNCHANGED visited

Push(t) == Enqueue(t) \/ (~Accepts(t) /\ UNCHANGED queueVars)

(* Pop forgets the area of the task it returns: until MarkVisited is called *)
(* that area is in neither set.                                             *)
Pop ==
    /\ queue # <<>>
    /\ queue' = Tail(queue)
    /\ queuedAreas' = queuedAreas \ {Head(queue).targetArea}
    /\ UNCHANGED visited

(* Mutant of MarkVisited. *)
MarkNothing(a) == UNCHANGED queueVars

MarkVisited(a) ==
    /\ visited' = visited \cup {a}
    /\ UNCHANGED <<queue, queuedAreas>>

=============================================================================
