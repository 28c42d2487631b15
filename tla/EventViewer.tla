---------------------------- MODULE EventViewer ----------------------------
(***************************************************************************)
(* The visualizer (src/web/index.html) fed with the events of a run of      *)
(* ResearchEngine.  Each step of the engine is joined to what the page      *)
(* makes of the events the step emits; as the page applies an event log     *)
(* from front to back, a state of this module is a run as far as it has     *)
(* been played.                                                             *)
(*                                                                          *)
(* Abstractions: labels, layout, drawing, the code tree and the pipeline's  *)
(* highlights are left out; playing, stepping and loading only decide when  *)
(* the next event is applied.                                               *)
(***************************************************************************)
EXTENDS ResearchEngine

VARIABLES
    nodes,      \* state.nodes: parent, depth and status by id
    callout,    \* the task named as current, or NoTaskShown
    bar,        \* the status bar
    found       \* history: tasks of the answer_progress events

viewVars == <<nodes, callout, bar, found>>

NoTaskShown == -2

(* "__question__"; it is what an empty parent_id is replaced by. *)
Question == -1

Statuses == {"root", "queued", "current", "explored", "answer", "rejected"}

-----------------------------------------------------------------------------
(* applyEvent. *)

(* state.nodes.set. *)
With(ns, id, node) == [n \in DOMAIN ns \cup {id} |-> IF n = id THEN node ELSE ns[n]]

(* Mutant of AddNode: every node is a child of the question. *)
AddNodeAtRoot(ns, id, parent, status) ==
    IF id \in DOMAIN ns
      THEN [ns EXCEPT ![id].status = status]
      ELSE With(ns, id, [parent |-> parent, depth |-> 0, status |-> status])

(* A node that exists only changes its status. *)
AddNode(ns, id, parent, status) ==
    IF id \in DOMAIN ns
      THEN [ns EXCEPT ![id].status = status]
      ELSE With(ns, id, [parent |-> parent,
                         depth  |-> IF parent \in DOMAIN ns THEN ns[parent].depth + 1 ELSE 0,
                         status |-> status])

TaskQueued(t) ==
    /\ nodes' = AddNode(nodes, t.id, t.parent, "queued")
    /\ UNCHANGED <<callout, bar, found>>

TaskStarted(t) ==
    /\ nodes' = [nodes EXCEPT ![t.id].status = "current"]
    /\ callout' = t.id
    /\ UNCHANGED <<bar, found>>

(* The directions of the worker_result event that the judge_result event    *)
(* does not list, compared by id.                                           *)
Pruned(raw, kept) == raw \ kept

WithStubs(ns, ids, parent) ==
    [n \in DOMAIN ns \cup ids |->
        IF n \in ids THEN AddNode(ns, n, parent, "rejected")[n] ELSE ns[n]]

JudgeResult(id, raw, kept) ==
    /\ nodes' = WithStubs([nodes EXCEPT ![id].status = "explored"], Pruned(raw, kept), id)
    /\ UNCHANGED <<callout, bar, found>>

(* A node and its ancestors. *)
Lineage(ns, id) ==
    LET up[n \in DOMAIN ns] ==
            IF ns[n].parent \in DOMAIN ns THEN {n} \cup up[ns[n].parent] ELSE {n}
    IN  up[id]

(* ... below the question. *)
Path(id) == {n \in Lineage(nodes, id) : nodes[n].status # "root"}

(* Mutant of Greened: only the node of the event. *)
GreenedAlone(id) == {id}

Greened(id) == Path(id)

AnswerProgress(id) ==
    /\ nodes' = [n \in DOMAIN nodes |->
                    IF n \in Greened(id) THEN [nodes[n] EXCEPT !.status = "answer"] ELSE nodes[n]]
    /\ found' = found \cup {id}
    /\ UNCHANGED <<callout, bar>>

(* answer_found, if any, and complete. *)
Complete ==
    /\ callout' = NoTaskShown
    /\ bar' = "done"
    /\ UNCHANGED <<nodes, found>>

-----------------------------------------------------------------------------
(* The events of each step of the engine. *)

IdsOf(dirs) == {dirs[i].id : i \in DOMAIN dirs}

ViewInit ==
    /\ Init
    /\ nodes = [n \in {Question} |-> [parent |-> NoTaskShown, depth |-> -1, status |-> "root"]]
    /\ callout = NoTaskShown
    /\ bar = "running"
    /\ found = {}

Seeded == SeedProbe /\ TaskQueued(Head(queue'))

Started == StartTask /\ TaskStarted(task')

Judged ==
    /\ JudgePasses \/ JudgePrunes
    /\ JudgeResult(task.id, IdsOf(finding.dirs), IdsOf(finding'.dirs))

Succeeded == RecordSuccess /\ AnswerProgress(task.id)

Pushed ==
    /\ PushDirection
    /\ IF announced' # announced THEN TaskQueued(DirectionTask(Head(pending)))
                                 ELSE UNCHANGED viewVars

Completed == (NothingMatches \/ Finish) /\ Complete

Silent ==
    /\ \/ QueueDrained \/ OutOfIterations \/ OutOfTime
       \/ ScanFindsNothing \/ ModelFails \/ ModelAnswers \/ PromptNotSerializable
       \/ RecordPartial \/ RecordNothing \/ DirectionsPushed \/ Tick
    /\ UNCHANGED viewVars

ViewNext == Seeded \/ Started \/ Judged \/ Succeeded \/ Pushed \/ Completed \/ Silent

ViewSpec == ViewInit /\ [][ViewNext]_<<vars, viewVars>> /\ WF_vars(EngineStep)

-----------------------------------------------------------------------------
(* Properties. *)

Shown == {n \in DOMAIN nodes : nodes[n].status \notin {"root", "rejected"}}

(* What the page draws is the run: but for the question and the red stubs,  *)
(* which share one id space with the tasks and never become one, the nodes  *)
(* are the announced tasks, each below its parent and at its depth, drawn   *)
(* as queued or current exactly while it is, and the run is shown as over   *)
(* exactly if it ended with a complete event (web/index.html:537-550,       *)
(* 737-835).                                                                *)
GraphMirrorsRun ==
    /\ Shown = {t.id : t \in announced}
    /\ \A t \in announced : LET n == nodes[t.id] IN
          /\ n.parent = t.parent
          /\ n.depth = t.depth
          /\ n.status = "queued" <=> t.targetArea \in queuedAreas
          /\ n.status = "current" <=> t.targetArea \in Current /\ pc # "record"
          /\ callout = t.id => t.id = task.id \/ t.targetArea \in visited
    /\ pc = "done" <=> bar = "done" /\ callout = NoTaskShown

(* A node is green exactly if an answer was found at it or below it,        *)
(* whatever is judged or queued after that (web/index.html:801-812).        *)
GreenMeansFound ==
    \A n \in Shown : nodes[n].status = "answer" <=> \E m \in found : n \in Path(m)

=============================================================================
