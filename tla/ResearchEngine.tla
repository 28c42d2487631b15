--------------------------- MODULE ResearchEngine ---------------------------
(***************************************************************************)
(* One run of ResearchEngine::Research (src/src/ResearchEngine.cpp) with    *)
(* the Worker and the Judge it calls and the TaskQueue it owns.             *)
(*                                                                          *)
(* The program is sequential; what is nondeterministic is what it calls:    *)
(* the language model (any outcome, any directions, any answer of the       *)
(* judge, or no usable answer) and the clock, which may advance between any *)
(* two steps.  One step of the engine is the code between two such calls.   *)
(*                                                                          *)
(* Abstractions: an area is an element of Areas; a summary is "text" or     *)
(* "empty"; goals, criteria, prompts, logging and timing are left out; the  *)
(* order of the sorted list of probe targets is any order.                  *)
(***************************************************************************)
EXTENDS TaskQueue, Integers, FiniteSets

CONSTANTS
    Areas,          \* target-area strings, Probe among them
    Probe,          \* the seed's umbrella name "(keyword probe: N files)"
    Files,          \* files some keyword can match
    Readable,       \* areas whose scan includes at least one file
    Undumpable,     \* ... of which some file is not valid UTF-8
    MaxIterations,  \* EngineConfig::maxIterations
    MaxWallClock,   \* EngineConfig::maxWallClock, in ticks
    MaxSeeds,       \* the 25 of SeedInitialTasks
    MaxDirections,  \* bound: directions in one response of the worker's model
    MaxKeep,        \* bound: indices in one response of the judge's model
    Horizon,        \* bound: ticks of the clock
    SizeModulus     \* 2^64, the modulus of std::size_t

ASSUME EngineAssumption ==
    /\ Probe \in Areas
    /\ Files \subseteq Areas \ {Probe}
    /\ Undumpable \subseteq Readable
    /\ Readable \subseteq Areas \ {Probe}

ASSUME BoundAssumption ==
    /\ MaxIterations \in Int
    /\ MaxWallClock \in Int
    /\ MaxSeeds \in Nat
    /\ MaxDirections \in Nat
    /\ MaxKeep \in Nat
    /\ Horizon \in Nat
    /\ SizeModulus \in Nat \ {0}

VARIABLES
    pc,          \* where Research is
    task,        \* the popped task
    rest,        \* areas the worker has still to investigate for it
    finding,     \* the worker's finding, then the judge's
    pending,     \* kept directions not yet offered to the queue
    iterations,
    successes,   \* successfulFindings
    reason,      \* terminationReason
    answered,
    rejected,    \* rejected_count of the last judge_result event
    counter,     \* the static counter of TaskCounter
    clock,       \* time since engineStart
    announced,   \* history: tasks of the task_queued events
    leads,       \* history: areas of directions kept in partial findings
    scans        \* history: how often each area was scanned

loopVars == <<task, rest, finding, pending, rejected>>
resultVars == <<iterations, successes, reason, answered>>
historyVars == <<announced, leads, scans>>
vars == <<queueVars, pc, loopVars, resultVars, counter, clock, historyVars>>

Outcomes == {"success", "none", "partial"}

(* "pruned" is the empty string too, put there because the judge called the *)
(* summary irrelevant.                                                      *)
Summaries == {"text", "empty", "pruned"}

SeedTask(targets) ==
    [id |-> 0, targetArea |-> Probe, targets |-> targets, depth |-> 0, parent |-> -1]

NoTask == SeedTask(<<>>)

NoFinding == [outcome |-> "none", summary |-> "empty", dirs |-> <<>>]

-----------------------------------------------------------------------------
(* Keywords and seeding.  Whether the model or the fallback produced the    *)
(* keywords, what matters is which files they match.                        *)

(* Mutant of SeedLists: no std::unique. *)
SeedListsRepeating == UNION {[1..n -> Files] : n \in 1..MaxSeeds}

(* Whatever list of matches the keywords give, it reaches the seed sorted,  *)
(* without repetitions and cut to MaxSeeds.                                 *)
SeedLists == {s \in UNION {[1..n -> Files] : n \in 1..MaxSeeds} :
                \A i, j \in DOMAIN s : s[i] = s[j] => i = j}

NothingMatches ==
    /\ pc = "keywords"
    /\ pc' = "done"
    /\ reason' = "no direction"
    /\ UNCHANGED <<queueVars, loopVars, iterations, successes, answered, counter,
                   clock, historyVars>>

SeedProbe ==
    /\ pc = "keywords"
    /\ \E targets \in SeedLists :
          /\ Push(SeedTask(targets))
          /\ announced' = {SeedTask(targets)}
    /\ pc' = "head"
    /\ UNCHANGED <<loopVars, resultVars, counter, clock, leads, scans>>

-----------------------------------------------------------------------------
(* The head of the loop. *)

(* Mutant of CapReached. *)
CapExceeded == iterations > MaxIterations

CapReached == iterations >= MaxIterations

QueueDrained ==
    /\ pc = "head"
    /\ queue = <<>>
    /\ pc' = "finish"
    /\ UNCHANGED <<queueVars, loopVars, resultVars, counter, clock, historyVars>>

OutOfIterations ==
    /\ pc = "head"
    /\ queue # <<>>
    /\ CapReached
    /\ pc' = "finish"
    /\ reason' = "iterations"
    /\ UNCHANGED <<queueVars, loopVars, iterations, successes, answered, counter,
                   clock, historyVars>>

OutOfTime ==
    /\ pc = "head"
    /\ queue # <<>>
    /\ ~CapReached
    /\ clock >= MaxWallClock
    /\ pc' = "finish"
    /\ reason' = "wall clock"
    /\ UNCHANGED <<queueVars, loopVars, iterations, successes, answered, counter,
                   clock, historyVars>>

(* Mutant of SubAreas: only a repeatable task has areas. *)
SubAreasOfProbe(t) == t.targets

(* The areas the worker investigates for a task, in order. *)
SubAreas(t) == IF t.targets = <<>> THEN <<t.targetArea>> ELSE t.targets

StartTask ==
    /\ pc = "head"
    /\ ~CapReached
    /\ clock < MaxWallClock
    /\ Pop
    /\ pc' = "work"
    /\ task' = Head(queue)
    /\ rest' = SubAreas(Head(queue))
    /\ UNCHANGED <<finding, pending, rejected, resultVars, counter, clock, historyVars>>

-----------------------------------------------------------------------------
(* The worker: one step per area it investigates. *)

(* Worker::Execute's merge of a sub-area's finding into the umbrella's. *)
Merge(m, s) ==
    IF s.outcome = "none" THEN m
    ELSE [outcome |-> IF "success" \in {m.outcome, s.outcome} THEN "success" ELSE "partial",
          summary |-> IF "text" \in {m.summary, s.summary} THEN "text" ELSE "empty",
          dirs    |-> m.dirs \o s.dirs]

(* The first area of rest has been scanned and sub was found there. *)
Investigated(sub) ==
    /\ pc = "work"
    /\ scans' = [scans EXCEPT ![Head(rest)] = @ + 1]
    /\ finding' = IF task.targets = <<>> THEN sub ELSE Merge(finding, sub)
    /\ rest' = Tail(rest)
    /\ pc' = IF Len(rest) = 1 THEN "judge" ELSE "work"
    /\ UNCHANGED <<queueVars, task, pending, rejected, resultVars, clock, announced, leads>>

ScanFindsNothing ==
    /\ Investigated(NoFinding)
    /\ Head(rest) \notin Readable
    /\ UNCHANGED counter

(* The call fails, or its response holds no JSON object. *)
ModelFails ==
    /\ Investigated(NoFinding)
    /\ Head(rest) \in Readable \ Undumpable
    /\ UNCHANGED counter

(* Which n of the minted directions are kept. *)
Kept(n, minted) ==
    {number \in [1..n -> 1..minted] : \A i, j \in 1..n : i < j => number[i] < number[j]}

(* The response lists minted directions, each of which takes the next task  *)
(* number; those of areas have both a target and a goal and are kept.  An   *)
(* exception half-way leaves the outcome "none" and the directions read     *)
(* before it.                                                               *)
ModelAnswers ==
    /\ \E minted \in 0..MaxDirections : \E n \in 0..minted :
       \E areas \in [1..n -> Areas], number \in Kept(n, minted),
          outcome \in Outcomes, summary \in {"text", "empty"} :
          /\ Investigated([outcome |-> outcome, summary |-> summary,
                           dirs |-> [i \in 1..n |-> [id |-> counter + number[i],
                                                     targetArea |-> areas[i]]]])
          /\ counter' = counter + minted
    /\ Head(rest) \in Readable \ Undumpable

(* The prompt quotes the files; body.dump() throws on bytes that are not    *)
(* UTF-8 and nothing between it and main catches that.                      *)
PromptNotSerializable ==
    /\ pc = "work"
    /\ Head(rest) \in Undumpable
    /\ scans' = [scans EXCEPT ![Head(rest)] = @ + 1]
    /\ pc' = "aborted"
    /\ UNCHANGED <<queueVars, loopVars, resultVars, counter, clock, announced, leads>>

-----------------------------------------------------------------------------
(* The judge. *)

(* Nothing to prune, or no usable response: the finding passes unchanged. *)
JudgePasses ==
    /\ pc = "judge"
    /\ pc' = "record"
    /\ rejected' = 0
    /\ UNCHANGED <<queueVars, task, rest, finding, pending, resultVars, counter,
                   clock, historyVars>>

(* ApplyJudgeResponse: indices out of range are skipped; those in range are *)
(* taken in the order, and as often as, the response lists them.            *)
JudgePrunes ==
    /\ pc = "judge"
    /\ finding.outcome # "none"
    /\ \E k \in 0..MaxKeep, summary \in Summaries :
       \E index \in [1..k -> DOMAIN finding.dirs] :
          /\ finding' = [outcome |-> IF finding.outcome = "partial" /\ summary # "text" /\ k = 0
                                     THEN "none" ELSE finding.outcome,
                         summary |-> summary,
                         dirs    |-> [j \in 1..k |-> finding.dirs[index[j]]]]
          /\ rejected' = (Len(finding.dirs) - k) % SizeModulus
    /\ pc' = "record"
    /\ UNCHANGED <<queueVars, task, rest, pending, resultVars, counter, clock, historyVars>>

-----------------------------------------------------------------------------
(* The rest of the loop's body: the area becomes visited, then the outcome  *)
(* is acted on.  Locals of an iteration are reset when it is over.          *)

EndIteration ==
    /\ pc' = "head"
    /\ task' = NoTask

CountIteration ==
    /\ pc = "record"
    /\ MarkVisited(task.targetArea)
    /\ iterations' = iterations + 1
    /\ finding' = NoFinding
    /\ rejected' = 0
    /\ UNCHANGED <<rest, reason, answered, counter, clock, announced, scans>>

(* A success drops the directions that came with it. *)
RecordSuccess ==
    /\ finding.outcome = "success"
    /\ CountIteration
    /\ EndIteration
    /\ successes' = Append(successes, finding.summary)
    /\ UNCHANGED <<pending, leads>>

RecordPartial ==
    /\ finding.outcome = "partial"
    /\ CountIteration
    /\ pc' = "push"
    /\ pending' = finding.dirs
    /\ leads' = leads \cup AreasOf(finding.dirs)
    /\ UNCHANGED <<task, successes>>

RecordNothing ==
    /\ finding.outcome = "none"
    /\ CountIteration
    /\ EndIteration
    /\ UNCHANGED <<pending, successes, leads>>

(* Mutant of DirectionTask: the depth keeps its default. *)
DirectionTaskAtRoot(d) ==
    [id |-> d.id, targetArea |-> d.targetArea, targets |-> <<>>,
     depth |-> 0, parent |-> task.id]

DirectionTask(d) ==
    [id |-> d.id, targetArea |-> d.targetArea, targets |-> <<>>,
     depth |-> task.depth + 1, parent |-> task.id]

(* Mutant of AfterPush: a refused direction ends the loop. *)
StopWhenRefused(t) == IF Accepts(t) THEN Tail(pending) ELSE <<>>

(* Accepted or refused, the direction has been dealt with. *)
AfterPush(t) == Tail(pending)

PushDirection ==
    /\ pc = "push"
    /\ pending # <<>>
    /\ LET t == DirectionTask(Head(pending)) IN
          /\ Push(t)
          /\ announced' = announced \cup (IF Accepts(t) THEN {t} ELSE {})
          /\ pending' = AfterPush(t)
    /\ UNCHANGED <<pc, task, rest, finding, rejected, resultVars, counter, clock, leads, scans>>

DirectionsPushed ==
    /\ pc = "push"
    /\ pending = <<>>
    /\ EndIteration
    /\ UNCHANGED <<queueVars, rest, finding, pending, rejected, resultVars, counter,
                   clock, historyVars>>

-----------------------------------------------------------------------------
(* After the loop. *)

(* Mutant of DrainReason. *)
DrainReasonAlways == "drained"

DrainReason == IF successes # <<>> THEN "drained" ELSE "drained without success"

Finish ==
    /\ pc = "finish"
    /\ pc' = "done"
    /\ answered' = (successes # <<>>)
    /\ reason' = IF reason # "" THEN reason ELSE DrainReason
    /\ UNCHANGED <<queueVars, loopVars, iterations, successes, counter, clock, historyVars>>

Tick ==
    /\ pc \notin {"done", "aborted"}
    /\ clock < Horizon
    /\ clock' = clock + 1
    /\ UNCHANGED <<queueVars, pc, loopVars, resultVars, counter, historyVars>>

Init ==
    /\ InitQueue
    /\ pc = "keywords"
    /\ task = NoTask
    /\ rest = <<>>
    /\ finding = NoFinding
    /\ pending = <<>>
    /\ rejected = 0
    /\ iterations = 0
    /\ successes = <<>>
    /\ reason = ""
    /\ answered = FALSE
    /\ counter = 0
    /\ clock = 0
    /\ announced = {}
    /\ leads = {}
    /\ scans = [a \in Areas |-> 0]

EngineStep ==
    \/ NothingMatches \/ SeedProbe
    \/ QueueDrained \/ OutOfIterations \/ OutOfTime \/ StartTask
    \/ ScanFindsNothing \/ ModelFails \/ ModelAnswers \/ PromptNotSerializable
    \/ JudgePasses \/ JudgePrunes
    \/ RecordSuccess \/ RecordPartial \/ RecordNothing
    \/ PushDirection \/ DirectionsPushed
    \/ Finish

Next == EngineStep \/ Tick

(* The engine's thread keeps running and every call it makes returns (the   *)
(* HTTP client has timeouts); the clock owes it nothing.                    *)
Spec == Init /\ [][Next]_vars /\ WF_vars(EngineStep)

-----------------------------------------------------------------------------
(* Properties. *)

Directions == [id : Nat, targetArea : Areas]
Tasks == [id : Nat, targetArea : Areas, targets : Seq(Files), depth : Nat, parent : Int]
Findings == [outcome : Outcomes, summary : Summaries, dirs : Seq(Directions)]

(* The area being worked on: popped, not yet marked visited. *)
Current == IF pc \in {"work", "judge", "record", "aborted"} THEN {task.targetArea} ELSE {}

Taken == visited \cup queuedAreas \cup Current

Ended == pc \in {"done", "aborted"}

(* Every variable holds a value of its C++ type, and the worker is never    *)
(* started on an empty list of areas.                                       *)
TypeOK ==
    /\ queue \in Seq(Tasks)
    /\ queuedAreas \subseteq Areas
    /\ visited \subseteq Areas
    /\ pc \in {"keywords", "head", "work", "judge", "record", "push", "finish",
               "done", "aborted"}
    /\ task \in Tasks
    /\ rest \in Seq(Areas)
    /\ pc = "work" => rest # <<>>
    /\ finding \in Findings
    /\ pending \in Seq(Directions)
    /\ iterations \in Nat
    /\ successes \in Seq(Summaries)
    /\ reason \in {"", "no direction", "iterations", "wall clock", "drained",
                   "drained without success"}
    /\ answered \in BOOLEAN
    /\ rejected \in Nat /\ rejected < SizeModulus
    /\ counter \in Nat
    /\ clock \in Nat /\ clock <= Horizon
    /\ announced \subseteq Tasks
    /\ leads \subseteq Areas
    /\ scans \in [Areas -> Nat]

(* An area is in one place at most: queued once, being worked on, or        *)
(* visited; and queuedAreas is exactly the areas of the queue.  Push and    *)
(* Pop (TaskQueue.cpp:5-30) keep two containers in step by hand, and        *)
(* between Pop and MarkVisited (ResearchEngine.cpp:214-240) the area is in  *)
(* neither set: nothing may be pushed in that window.                       *)
OnePlace ==
    /\ queuedAreas = AreasOf(queue)
    /\ \A i, j \in DOMAIN queue : queue[i].targetArea = queue[j].targetArea => i = j
    /\ queuedAreas \cap visited = {}
    /\ Current \cap (queuedAreas \cup visited) = {}

(* The tasks announced by task_queued events, which web/index.html draws as *)
(* a tree keyed by id, are a tree: no id and no area occurs twice whatever  *)
(* indices the judge repeats, a task's parent was announced before it,      *)
(* with a smaller id and one level up, and had its area visited; and every  *)
(* queued task was announced (ResearchEngine.cpp:188-198, 253-268).         *)
SearchTree ==
    /\ \A s, t \in announced : s.id = t.id \/ s.targetArea = t.targetArea => s = t
    /\ \A t \in announced : t.id # 0 =>
          \E p \in announced : /\ p.id = t.parent
                               /\ p.id < t.id
                               /\ t.depth = p.depth + 1
                               /\ p.targetArea \in visited
    /\ \A i \in DOMAIN queue : queue[i] \in announced

(* Nothing is announced and then forgotten: an announced area is queued,    *)
(* being worked on or visited, and the other way round.                     *)
NoTaskLost == {t.targetArea : t \in announced} = Taken

(* The search is breadth first: the queue is ordered by distance from the   *)
(* question and spans two levels at most, seen from the task at hand too    *)
(* (the FIFO of TaskQueue.cpp with depth = task.depth + 1).                 *)
BreadthFirst ==
    /\ \A i, j \in DOMAIN queue :
          i <= j => queue[j].depth \in queue[i].depth..(queue[i].depth + 1)
    /\ pc \in {"work", "judge", "record", "push"} =>
          \A i \in DOMAIN queue : queue[i].depth \in task.depth..(task.depth + 1)

(* No lead the judge kept is dropped, although Push refuses directions: a   *)
(* refused one leads where the search has been or is going.  So when the    *)
(* queue drains every lead has been followed (README.md:40-42).             *)
LeadsFollowed ==
    /\ leads \subseteq Taken \cup AreasOf(pending)
    /\ reason \in {"drained", "drained without success"} => leads \subseteq visited

(* An iteration marks exactly one new area visited, so that the iteration   *)
(* cap caps the number of areas (ResearchEngine.cpp:205, 240-241).          *)
OneVisitPerIteration ==
    /\ iterations = Cardinality(visited)
    /\ iterations > 0 => iterations <= MaxIterations

(* The termination reason of the complete event is the true one, and        *)
(* answered goes with it (ResearchEngine.cpp:174-187, 203-212, 277-284).    *)
ReasonHonest ==
    pc = "done" =>
       /\ answered <=> successes # <<>>
       /\ reason = "no direction" => announced = {}
       /\ reason = "iterations" => queue # <<>> /\ iterations >= MaxIterations
       /\ reason = "wall clock" => /\ queue # <<>>
                                   /\ iterations < MaxIterations
                                   /\ clock >= MaxWallClock
       /\ reason = "drained" => queue = <<>> /\ answered
       /\ reason = "drained without success" => queue = <<>> /\ ~answered
       /\ reason # ""

Probed == UNION {{t.targets[i] : i \in DOMAIN t.targets} : t \in announced}

(* What visited does guarantee about the files read: an area is scanned at  *)
(* most once as a task of its own and once more if the probe listed it      *)
(* (Worker.cpp:145-184 scans the probe's areas without marking them, which  *)
(* README.md:40-41 "areas are never revisited" leaves out).                 *)
ScanBudget ==
    \A a \in Areas : scans[a] <= (IF a \in Probed THEN 1 ELSE 0)
                                 + (IF a \in visited \cup Current THEN 1 ELSE 0)

(* The engine implements the abstract search, the queue being its frontier: *)
(* it moves areas as the search does, never beyond the cap, and it stops,   *)
(* whatever the model answers: with a complete event or, when a prompt      *)
(* cannot be serialized, by an abort, which README.md:40-42 does not list   *)
(* among the ends of a run.                                                 *)
Search == INSTANCE AreaSearch WITH
             Area <- Areas, Limit <- MaxIterations,
             frontier <- queuedAreas, current <- Current, explored <- visited,
             stopped <- Ended

ImplementsAreaSearch == Search!Spec

(* Judge.h:8-9 "Its only job is pruning": what it keeps and what the        *)
(* judge_result event reports as rejected add up to what was proposed.      *)
KeptAndRejectedAddUp ==
    [][pc = "judge" => rejected' + Len(finding'.dirs) = Len(finding.dirs)]_vars

(* README.md:38-39 the judge discards "anything unrelated to the original   *)
(* question": a run is not answered by findings all of which the judge      *)
(* called irrelevant.                                                       *)
AnswerRestsOnEvidence ==
    answered => \E i \in DOMAIN successes : successes[i] # "pruned"
=============================================================================
