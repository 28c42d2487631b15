----------------------------- MODULE EditEngine -----------------------------
(***************************************************************************)
(* One run of EditEngine::Run (src/src/EditEngine.cpp) with the Editor and  *)
(* the PatchApplier it calls, the TaskQueue it owns and the files it reads  *)
(* and overwrites.                                                          *)
(*                                                                          *)
(* The content of a file is its version, the number of times it was written *)
(* to in this run.  An edit carries a whole new content; what matters of it *)
(* is the version its author, the model, was shown: base, or NotSeen when   *)
(* the file was not in the scanned area.  Task ids, depths and summaries    *)
(* decide nothing here and are left out (ResearchEngine has them).          *)
(***************************************************************************)
EXTENDS TaskQueue, Integers, FiniteSets

CONSTANTS
    Areas,          \* target-area strings, Probe among them
    Probe,          \* the seed's umbrella name
    Files,          \* paths under the codebase root
    Existing,       \* ... that exist when the run starts
    Position,       \* their places in the order of std::sort
    Escaping,       \* paths PatchApplier must reject
    Unresolvable,   \* paths weakly_canonical throws on (a name too long, looping links)
    Content,        \* the files below an area
    Undumpable,     \* files that are not valid UTF-8 at the start
    MaxIterations,  \* EditEngineConfig::maxIterations
    MaxSeeds,       \* the 25 of SeedInitialTasks
    Paths,          \* bound: what the model may answer as the path of an edit
    MaxEdits,       \* bound: edits in one response of the model
    MaxDirections   \* bound: directions in one response of the model

ASSUME EditAssumption ==
    /\ Probe \in Areas
    /\ Existing \subseteq Files
    /\ Position \in [Existing -> Nat]
    /\ Files \subseteq Areas
    /\ Files \cap (Escaping \cup Unresolvable) = {}
    /\ Escaping \cap Unresolvable = {}
    /\ Content \in [Areas -> SUBSET Files]
    /\ Content[Probe] = {}
    /\ \A f \in Files : Content[f] = {f}
    /\ Undumpable \subseteq Existing

ASSUME EditBoundAssumption ==
    /\ Paths \subseteq Files \cup Escaping \cup Unresolvable
    /\ MaxIterations \in Int
    /\ MaxSeeds \in Nat /\ MaxEdits \in Nat /\ MaxDirections \in Nat

VARIABLES
    apply,       \* config_.apply, fixed for the run
    pc,          \* where Run is
    task,        \* the popped task
    rest,        \* areas the editor has still to consider for it
    finding,     \* the editor's finding
    edits,       \* its edits not yet applied or proposed
    pending,     \* its directions not yet offered to the queue
    iterations,
    reason,      \* terminationReason
    applied,     \* ApplyOutcome of the call of Apply under way: how often each list has a path
    report,      \* the engine's applyOutcome and proposedEdits, which events follow
    disk,        \* the files
    produced,    \* history: how many edits of each path the findings acted on had
    touched      \* history: files the current task has written to

loopVars == <<task, rest, finding, edits, applied, pending>>
resultVars == <<iterations, reason, report>>
diskVars == <<disk, touched>>
vars == <<apply, queueVars, pc, loopVars, resultVars, diskVars, produced>>

Outcomes == {"success", "none", "partial"}

NotSeen == -1

SeedTask(targets) == [targetArea |-> Probe, targets |-> targets]

NoTask == SeedTask(<<>>)

Kinds == {"written", "rejected", "errors", "proposed"}

NoPaths == [p \in Paths |-> 0]

Nothing == [kind \in Kinds |-> NoPaths]

NoFinding == [outcome |-> "none", edits |-> <<>>, dirs |-> <<>>]

-----------------------------------------------------------------------------
(* Seeding and the head of the loop, as in ResearchEngine. *)

(* The matches, sorted, without repetitions and cut to MaxSeeds. *)
SeedLists == {s \in UNION {[1..n -> Existing] : n \in 1..MaxSeeds} :
                \A i, j \in DOMAIN s : i < j => Position[s[i]] < Position[s[j]]}

NothingMatches ==
    /\ pc = "keywords"
    /\ pc' = "done"
    /\ reason' = "no target"
    /\ UNCHANGED <<apply, queueVars, loopVars, iterations, report, diskVars, produced>>

SeedProbe ==
    /\ pc = "keywords"
    /\ \E targets \in SeedLists : Push(SeedTask(targets))
    /\ pc' = "head"
    /\ UNCHANGED <<apply, loopVars, resultVars, diskVars, produced>>

(* Mutant of CapReached. *)
CapExceeded == iterations > MaxIterations

CapReached == iterations >= MaxIterations

LeaveLoop(why) ==
    /\ pc = "head"
    /\ pc' = "finish"
    /\ reason' = why
    /\ UNCHANGED <<apply, queueVars, loopVars, iterations, report, diskVars, produced>>

QueueDrained == queue = <<>> /\ LeaveLoop("")

OutOfIterations == queue # <<>> /\ CapReached /\ LeaveLoop("iterations")

(* The clock is read here only, and the run is over once the budget is:     *)
(* that it is exhausted by now is always possible.                          *)
OutOfTime ==
    /\ queue # <<>>
    /\ ~CapReached
    /\ LeaveLoop("wall clock")

(* Mutant of SubAreas. *)
SubAreasOfProbe(t) == t.targets

SubAreas(t) == IF t.targets = <<>> THEN <<t.targetArea>> ELSE t.targets

StartTask ==
    /\ pc = "head"
    /\ ~CapReached
    /\ Pop
    /\ pc' = "work"
    /\ task' = Head(queue)
    /\ rest' = SubAreas(Head(queue))
    /\ touched' = {}
    /\ UNCHANGED <<apply, finding, edits, applied, pending, resultVars, disk, produced>>

-----------------------------------------------------------------------------
(* The editor. *)

(* Files of an area a scan reads. *)
Scanned(a) == {f \in Content[a] : disk[f].state # "absent"}

(* The prompt can be built from what is on disk: a file overwritten in this *)
(* run has the valid UTF-8 of a JSON string,                                *)
Serializable(a) == \A f \in Scanned(a) \cap Undumpable : disk[f].version > 0

(* ... unless the write was cut off, perhaps inside of a character.         *)
CutOff(a) == \E f \in Scanned(a) : disk[f].state = "torn"

(* Editor::Execute's merge. *)
Merge(m, s) ==
    IF s.outcome = "none" THEN m
    ELSE [outcome |-> IF "success" \in {m.outcome, s.outcome} THEN "success" ELSE "partial",
          edits   |-> m.edits \o s.edits,
          dirs    |-> m.dirs \o s.dirs]

Considered(sub) ==
    /\ pc = "work"
    /\ finding' = IF task.targets = <<>> THEN sub ELSE Merge(finding, sub)
    /\ rest' = Tail(rest)
    /\ pc' = IF Len(rest) = 1 THEN "record" ELSE "work"
    /\ UNCHANGED <<apply, queueVars, task, edits, applied, pending, resultVars, diskVars,
                   produced>>

ScanFindsNothing ==
    /\ Considered(NoFinding)
    /\ Scanned(Head(rest)) = {}

ModelFails ==
    /\ Considered(NoFinding)
    /\ Scanned(Head(rest)) # {} /\ Serializable(Head(rest))

(* Mutant of ShownVersion: scans are remembered from the start of the run. *)
FirstVersion(p, a) == IF p \in Scanned(a) THEN 0 ELSE NotSeen

(* The version of path p that a prompt for area a shows. *)
ShownVersion(p, a) == IF p \in Scanned(a) THEN disk[p].version ELSE NotSeen

(* Entries without a path, or without a target and a goal, are dropped when *)
(* the response is read; an exception half-way leaves the outcome "none".   *)
ModelAnswers ==
    /\ \E n \in 0..MaxEdits, k \in 0..MaxDirections, outcome \in Outcomes :
       \E paths \in [1..n -> Paths], areas \in [1..k -> Areas] :
          Considered([outcome |-> outcome,
                      edits |-> [i \in 1..n |->
                                   [path |-> paths[i],
                                    base |-> ShownVersion(paths[i], Head(rest))]],
                      dirs |-> [i \in 1..k |-> [targetArea |-> areas[i]]]])
    /\ Scanned(Head(rest)) # {} /\ Serializable(Head(rest))

Abort ==
    /\ pc' = "aborted"
    /\ UNCHANGED <<apply, queueVars, loopVars, resultVars, diskVars, produced>>

(* body.dump() throws and nothing catches it. *)
PromptNotSerializable ==
    /\ pc = "work"
    /\ ~Serializable(Head(rest)) \/ CutOff(Head(rest))
    /\ Abort

-----------------------------------------------------------------------------
(* The area becomes visited, then the edits are acted on one by one. *)

ActedOn(f) == IF f.outcome = "none" THEN <<>> ELSE f.edits

(* How many of a list of edits are of path p. *)
EditsOf(p, es) == Cardinality({i \in DOMAIN es : es[i].path = p})

Record ==
    /\ pc = "record"
    /\ MarkVisited(task.targetArea)
    /\ iterations' = iterations + 1
    /\ edits' = ActedOn(finding)
    /\ pending' = IF finding.outcome = "partial" THEN finding.dirs ELSE <<>>
    /\ produced' = [p \in Paths |-> produced[p] + EditsOf(p, ActedOn(finding))]
    /\ finding' = NoFinding
    /\ pc' = "edit"
    /\ UNCHANGED <<apply, task, rest, applied, reason, report, diskVars>>

(* Mutant of AfterEdit: a failed edit ends the loop. *)
GiveUpAfter(kind) == IF kind = "errors" THEN <<>> ELSE Tail(edits)

(* Every path through the body of a loop over edits goes on with the next. *)
AfterEdit(kind) == Tail(edits)

(* The path of the first of edits joins the list of its kind. *)
Listed(kind) ==
    /\ pc = "edit"
    /\ edits # <<>>
    /\ applied' = [applied EXCEPT ![kind][Head(edits).path] = @ + 1]
    /\ edits' = AfterEdit(kind)
    /\ UNCHANGED <<apply, queueVars, pc, task, rest, finding, pending, resultVars,
                   produced>>

(* Mutant of DryRun: config_.apply is not looked at. *)
NeverDry == FALSE

DryRun == ~apply

Propose ==
    /\ DryRun
    /\ Listed("proposed")
    /\ UNCHANGED diskVars

RejectEdit ==
    /\ ~DryRun
    /\ Listed("rejected")
    /\ Head(edits).path \in Escaping
    /\ UNCHANGED diskVars

(* The path of the first edit is opened with trunc and written. *)
Overwrite(state) ==
    LET p == Head(edits).path IN
       /\ disk' = [disk EXCEPT ![p] = [state |-> state, version |-> @.version + 1]]
       /\ touched' = touched \cup {p}

InRoot == ~DryRun /\ edits # <<>> /\ Head(edits).path \in Files

(* No directory, or the file does not open: it keeps its content. *)
CannotOpen ==
    /\ Listed("errors")
    /\ InRoot
    /\ UNCHANGED diskVars

(* The stream fails while the content is inserted: the file was truncated. *)
WriteFails ==
    /\ InRoot
    /\ Listed("errors")
    /\ Overwrite("torn")

WriteSucceeds ==
    /\ InRoot
    /\ Listed("written")
    /\ Overwrite("whole")

(* The content still fits the stream's buffer when the state is tested; the *)
(* write that fails is the destructor's.                                    *)
FlushFails ==
    /\ InRoot
    /\ Listed("written")
    /\ Overwrite("torn")

(* Nothing catches what weakly_canonical throws: what Apply has done stays  *)
(* done, its outcome is lost.                                               *)
PathCheckThrows ==
    /\ pc = "edit"
    /\ edits # <<>>
    /\ ~DryRun
    /\ Head(edits).path \in Unresolvable
    /\ Abort

(* Mutant of Merged: the outcome of the last call replaces the others. *)
LastOnly(kind) == applied[kind]

Merged(kind) == [p \in Paths |-> report[kind][p] + applied[kind][p]]

EditsDone ==
    /\ pc = "edit"
    /\ edits = <<>>
    /\ pc' = "push"
    /\ report' = [kind \in Kinds |-> Merged(kind)]
    /\ applied' = Nothing
    /\ UNCHANGED <<apply, queueVars, task, rest, finding, edits, pending, iterations, reason,
                   diskVars, produced>>

-----------------------------------------------------------------------------
(* Directions, and the end of the run. *)

DirectionTask(d) == [targetArea |-> d.targetArea, targets |-> <<>>]

AfterPush(t) == Tail(pending)

PushDirection ==
    /\ pc = "push"
    /\ pending # <<>>
    /\ Push(DirectionTask(Head(pending)))
    /\ pending' = AfterPush(DirectionTask(Head(pending)))
    /\ UNCHANGED <<apply, pc, task, rest, finding, edits, applied, resultVars, diskVars,
                   produced>>

DirectionsPushed ==
    /\ pc = "push"
    /\ pending = <<>>
    /\ pc' = "head"
    /\ task' = NoTask
    /\ touched' = {}
    /\ UNCHANGED <<apply, queueVars, rest, finding, edits, applied, pending, resultVars,
                   disk, produced>>

Finish ==
    /\ pc = "finish"
    /\ pc' = "done"
    /\ reason' = IF reason = "" THEN "drained" ELSE reason
    /\ UNCHANGED <<apply, queueVars, loopVars, iterations, report, diskVars, produced>>

InitialDisk ==
    [f \in Files |-> [state |-> IF f \in Existing THEN "whole" ELSE "absent", version |-> 0]]

Init ==
    /\ apply \in BOOLEAN
    /\ InitQueue
    /\ pc = "keywords"
    /\ task = NoTask
    /\ rest = <<>>
    /\ finding = NoFinding
    /\ edits = <<>>
    /\ pending = <<>>
    /\ iterations = 0
    /\ reason = ""
    /\ applied = Nothing
    /\ report = Nothing
    /\ disk = InitialDisk
    /\ produced = NoPaths
    /\ touched = {}

Next ==
    \/ NothingMatches \/ SeedProbe
    \/ QueueDrained \/ OutOfIterations \/ OutOfTime \/ StartTask
    \/ ScanFindsNothing \/ ModelFails \/ ModelAnswers \/ PromptNotSerializable
    \/ Record
    \/ Propose \/ RejectEdit \/ CannotOpen \/ WriteFails \/ WriteSucceeds \/ FlushFails
    \/ PathCheckThrows \/ EditsDone
    \/ PushDirection \/ DirectionsPushed
    \/ Finish

(* As for ResearchEngine: the engine keeps running, its calls return. *)
Spec == Init /\ [][Next]_vars /\ WF_vars(Next)

-----------------------------------------------------------------------------
(* Properties. *)

Edits == [path : Paths, base : Nat \cup {NotSeen}]
Directions == [targetArea : Areas]
Tasks == [targetArea : Areas, targets : Seq(Files)]

Current == IF pc \in {"work", "record"} \/ (pc = "aborted" /\ task.targetArea \notin visited)
           THEN {task.targetArea} ELSE {}

Ended == pc \in {"done", "aborted"}

(* Every variable holds a value of its C++ type; the editor is never        *)
(* started on an empty list of areas.                                       *)
TypeOK ==
    /\ apply \in BOOLEAN
    /\ queue \in Seq(Tasks)
    /\ queuedAreas \subseteq Areas
    /\ visited \subseteq Areas
    /\ pc \in {"keywords", "head", "work", "record", "edit", "push", "finish", "done",
               "aborted"}
    /\ task \in Tasks
    /\ rest \in Seq(Areas)
    /\ pc = "work" => rest # <<>>
    /\ finding \in [outcome : Outcomes, edits : Seq(Edits), dirs : Seq(Directions)]
    /\ edits \in Seq(Edits)
    /\ pending \in Seq(Directions)
    /\ iterations \in Nat
    /\ reason \in {"", "no target", "iterations", "wall clock", "drained"}
    /\ applied \in [Kinds -> [Paths -> Nat]]
    /\ report \in [Kinds -> [Paths -> Nat]]
    /\ disk \in [Files -> [state : {"absent", "whole", "torn"}, version : Nat]]
    /\ produced \in [Paths -> Nat]
    /\ touched \subseteq Files

(* How often the lists of an outcome name path p: all of them, and those a  *)
(* path that was overwritten goes to.                                       *)
Listings(lists, p) ==
    lists["written"][p] + lists["rejected"][p] + lists["errors"][p] + lists["proposed"][p]

Overwritings(lists, p) == lists["written"][p] + lists["errors"][p]

(* Every edit of a finding acted on is reported once under its path:        *)
(* written, rejected, failed or proposed, whatever becomes of the ones      *)
(* before it; and the edits of a finding without a change are not acted on  *)
(* (EditEngine.cpp:197-232, PatchApplier.cpp:27-80).                        *)
EditsAccounted ==
    \A p \in Paths :
        produced[p] = Listings(report, p) + Listings(applied, p) + EditsOf(p, edits)

(* README.md:331 "Nothing is written to disk unless you pass --apply"; and  *)
(* a run that applies proposes nothing.                                     *)
DryRunWritesNothing ==
    IF apply THEN report["proposed"] = NoPaths
    ELSE disk = InitialDisk /\ report["written"] = NoPaths /\ report["errors"] = NoPaths

(* The report names each file as often as it was overwritten, as a path     *)
(* written or an error: README.md:335-336 "the run report lists what was    *)
(* written, rejected, or hit an I/O error".  While a batch is applied, and  *)
(* for good when a path that throws ends the run there (its events are what *)
(* is left of the report then), only files that this batch has written to   *)
(* may be missing, and no more often than the lost outcome of the call      *)
(* names them (EditEngine.cpp:201-221, PatchApplier.cpp:27-80).             *)
ReportCoversDisk ==
    \A f \in Files : disk[f].version > 0 =>
        /\ f \in Paths
        /\ \/ disk[f].version <= Overwritings(report, f)
           \/ /\ pc \in {"edit", "aborted"}
              /\ f \in touched
              /\ disk[f].version <= Overwritings(report, f) + Overwritings(applied, f)

(* EditEngine.h:36-38: a task sees what the tasks before it wrote.  So an   *)
(* edit of a file its author was shown replaces the very version shown,     *)
(* unless another edit of the same task has just replaced that one: the     *)
(* areas of one task are all scanned before any of its edits is applied     *)
(* (README.md:332-335 says that they see each other's).                     *)
EditsReplaceWhatWasShown ==
    [][\A f \in Files : disk'[f] # disk[f] =>
          \/ Head(edits).base \in {disk[f].version, NotSeen}
          \/ f \in touched]_vars

Search == INSTANCE AreaSearch WITH
             Area <- Areas, Limit <- MaxIterations,
             frontier <- queuedAreas, current <- Current, explored <- visited,
             stopped <- Ended

(* The loop shared with ResearchEngine implements the same abstract search, *)
(* its end included.                                                        *)
ImplementsAreaSearch == Search!Spec

(* PatchApplier.h:11-15: writtenPaths lists what was written, errors the    *)
(* I/O failures: a path joins writtenPaths only with its content on disk.   *)
WrittenIsOnDisk ==
    [][\A p \in Paths :
          applied'["written"][p] > applied["written"][p] => disk'[p].state = "whole"]_vars
=============================================================================
