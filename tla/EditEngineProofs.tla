-------------------------- MODULE EditEngineProofs --------------------------
(***************************************************************************)
(* Theorems about EditEngine for every value of its constants.              *)
(***************************************************************************)
EXTENDS EditEngine, TaskQueueProofs, FiniteSetTheorems

-----------------------------------------------------------------------------
(* Type correctness. *)

Findings == [outcome : Outcomes, edits : Seq(Edits), dirs : Seq(Directions)]

LEMMA EditBounds ==
    MaxIterations \in Int /\ MaxSeeds \in Nat /\ MaxEdits \in Nat /\ MaxDirections \in Nat
  BY EditBoundAssumption

LEMMA SomeFinding ==
    ASSUME NEW o \in Outcomes, NEW es \in Seq(Edits), NEW ds \in Seq(Directions)
    PROVE  [outcome |-> o, edits |-> es, dirs |-> ds] \in Findings
  BY DEF Findings

LEMMA NoFindingType == NoFinding \in Findings
<1>1. <<>> \in Seq(Edits) /\ <<>> \in Seq(Directions)
  BY EmptySeq
<1>2. QED
  BY <1>1 DEF NoFinding, Findings, Outcomes

LEMMA NoTaskType == NoTask \in Tasks
<1>1. <<>> \in Seq(Files)
  BY EmptySeq
<1>2. QED
  BY <1>1, EditAssumption DEF NoTask, SeedTask, Tasks

LEMMA NothingType == NoPaths \in [Paths -> Nat] /\ Nothing \in [Kinds -> [Paths -> Nat]]
  BY DEF Nothing, NoPaths

LEMMA SeedType ==
    ASSUME NEW targets \in SeedLists
    PROVE  SeedTask(targets) \in Tasks
<1>1. PICK n \in 1..MaxSeeds : targets \in [1..n -> Existing]
  BY DEF SeedLists
<1>2. n \in Nat /\ targets \in [1..n -> Files]
  BY <1>1, EditBounds, EditAssumption
<1>3. targets \in Seq(Files)
  BY <1>2, IsASeq
<1>4. QED
  BY <1>3, EditAssumption DEF SeedTask, Tasks

LEMMA SubAreasType ==
    ASSUME NEW t \in Tasks
    PROVE  SubAreas(t) \in Seq(Areas) /\ SubAreas(t) # <<>>
<1>1. t.targets \in Seq(Files) /\ t.targetArea \in Areas
  BY DEF Tasks
<1>2. t.targets \in Seq(Areas)
  BY <1>1, EditAssumption, SeqMonotonic
<1>3. <<t.targetArea>> \in Seq(Areas) /\ <<t.targetArea>> # <<>>
  BY <1>1
<1>4. QED
  BY <1>2, <1>3 DEF SubAreas

LEMMA MergeType ==
    ASSUME NEW m \in Findings, NEW s \in Findings
    PROVE  Merge(m, s) \in Findings
<1>1. m.edits \o s.edits \in Seq(Edits) /\ m.dirs \o s.dirs \in Seq(Directions)
  BY ConcatProperties DEF Findings
<1>2. QED
  BY <1>1 DEF Merge, Findings, Outcomes

LEMMA ConsideredType ==
    ASSUME TypeOK, NEW sub \in Findings, Considered(sub)
    PROVE  TypeOK'
<1>1. rest # <<>> /\ rest \in Seq(Areas)
  BY DEF TypeOK, Considered
<1>2. /\ Tail(rest) \in Seq(Areas)
      /\ Len(Tail(rest)) = Len(rest) - 1
      /\ Len(rest) \in Nat
  BY <1>1, HeadTailProperties, LenProperties
<1>3. rest' \in Seq(Areas) /\ (pc' = "work" => rest' # <<>>)
  <2>1. rest' = Tail(rest) /\ (pc' = "work" => Len(rest) # 1)
    BY DEF Considered
  <2>2. Tail(rest) = <<>> <=> Len(Tail(rest)) = 0
    BY <1>2, EmptySeq
  <2>3. QED
    BY <1>2, <2>1, <2>2
<1>4. finding' \in Findings
  <2>1. finding \in Findings
    BY DEF TypeOK, Findings
  <2>2. QED
    BY <2>1, MergeType DEF Considered
<1>5. QED
  BY <1>3, <1>4 DEF TypeOK, Considered, queueVars, resultVars, diskVars, Findings

(* What a prompt shows of a path. *)
LEMMA ShownType ==
    ASSUME TypeOK, NEW p, NEW a \in Areas
    PROVE  ShownVersion(p, a) \in Nat \cup {NotSeen}
<1>1. CASE p \in Scanned(a)
  <2>1. p \in Files
    BY <1>1, EditAssumption DEF Scanned
  <2>2. disk[p].version \in Nat
    BY <2>1 DEF TypeOK
  <2>3. QED
    BY <1>1, <2>2 DEF ShownVersion
<1>2. CASE p \notin Scanned(a)
  BY <1>2 DEF ShownVersion
<1>3. QED
  BY <1>1, <1>2

(* An answer of the model: its edits are of paths, each with the version    *)
(* that the prompt for the area showed.                                     *)
LEMMA Answer ==
    ASSUME TypeOK, ModelAnswers
    PROVE  \E sub \in Findings :
              /\ Considered(sub)
              /\ \A i \in DOMAIN sub.edits :
                    sub.edits[i].base = ShownVersion(sub.edits[i].path, Head(rest))
<1>1. PICK n \in 0..MaxEdits, k \in 0..MaxDirections, outcome \in Outcomes :
       \E paths \in [1..n -> Paths], areas \in [1..k -> Areas] :
          Considered([outcome |-> outcome,
                      edits |-> [i \in 1..n |->
                                   [path |-> paths[i],
                                    base |-> ShownVersion(paths[i], Head(rest))]],
                      dirs |-> [i \in 1..k |-> [targetArea |-> areas[i]]]])
  BY DEF ModelAnswers
<1>2. PICK paths \in [1..n -> Paths], areas \in [1..k -> Areas] :
          Considered([outcome |-> outcome,
                      edits |-> [i \in 1..n |->
                                   [path |-> paths[i],
                                    base |-> ShownVersion(paths[i], Head(rest))]],
                      dirs |-> [i \in 1..k |-> [targetArea |-> areas[i]]]])
  BY <1>1
<1> DEFINE es == [i \in 1..n |-> [path |-> paths[i],
                                  base |-> ShownVersion(paths[i], Head(rest))]]
           ds == [i \in 1..k |-> [targetArea |-> areas[i]]]
           sub == [outcome |-> outcome, edits |-> es, dirs |-> ds]
<1>3. n \in Nat /\ k \in Nat
  BY EditBounds
<1>4. Head(rest) \in Areas
  BY <1>2, HeadTailProperties DEF TypeOK, Considered
<1>5. es \in [1..n -> Edits]
  <2>1. \A i \in 1..n : paths[i] \in Paths
                        /\ ShownVersion(paths[i], Head(rest)) \in Nat \cup {NotSeen}
    BY <1>4, ShownType
  <2>2. QED
    BY <2>1 DEF Edits
<1>6. ds \in [1..k -> Directions]
  BY DEF Directions
<1>7. es \in Seq(Edits) /\ ds \in Seq(Directions)
  <2> HIDE DEF es, ds
  <2> QED BY <1>3, <1>5, <1>6, IsASeq
<1>8. \A i \in DOMAIN es : es[i].base = ShownVersion(es[i].path, Head(rest))
  OBVIOUS
<1>9. Considered(sub)
  BY <1>2
<1>10. sub \in Findings /\ sub.edits = es
  <2> HIDE DEF es, ds
  <2> QED BY <1>7, SomeFinding
<1> HIDE DEF es, sub
<1>11. QED
  BY <1>8, <1>9, <1>10

(* Listing an edit adds its path to one list, once. *)
LEMMA ListsOnePath ==
    ASSUME TypeOK, NEW kind \in Kinds, Listed(kind)
    PROVE  \E p \in Paths :
              /\ p = Head(edits).path
              /\ applied' = [applied EXCEPT ![kind][p] = @ + 1]
              /\ edits \in Seq(Edits) /\ edits # <<>> /\ edits' = Tail(edits)
<1>1. edits \in Seq(Edits) /\ edits # <<>>
  BY DEF TypeOK, Listed
<1>2. Head(edits) \in Edits
  BY <1>1, HeadTailProperties
<1>3. Head(edits).path \in Paths
  BY <1>2 DEF Edits
<1>4. QED
  BY <1>1, <1>3 DEF Listed, AfterEdit

LEMMA ListedType ==
    ASSUME TypeOK, NEW kind \in Kinds, Listed(kind)
    PROVE  applied' \in [Kinds -> [Paths -> Nat]] /\ edits' \in Seq(Edits)
<1>1. PICK p \in Paths :
         /\ applied' = [applied EXCEPT ![kind][p] = @ + 1]
         /\ edits \in Seq(Edits) /\ edits # <<>> /\ edits' = Tail(edits)
  BY ListsOnePath
<1>2. applied \in [Kinds -> [Paths -> Nat]]
  BY DEF TypeOK
<1>3. applied[kind] \in [Paths -> Nat] /\ applied[kind][p] + 1 \in Nat
  BY <1>2
<1>4. applied' \in [Kinds -> [Paths -> Nat]]
  BY <1>1, <1>2, <1>3
<1>5. QED
  BY <1>1, <1>4, HeadTailProperties

(* How many edits of a path a list has: none when it is empty, and one less *)
(* behind an edit of that path.                                             *)
Spots(p, es) == {i \in DOMAIN es : es[i].path = p}

LEMMA SpotsFinite ==
    ASSUME NEW es \in Seq(Edits), NEW p
    PROVE  /\ IsFiniteSet(Spots(p, es))
           /\ EditsOf(p, es) = Cardinality(Spots(p, es))
           /\ EditsOf(p, es) \in Nat
<1>1. Len(es) \in Nat /\ DOMAIN es = 1..Len(es)
  BY LenProperties
<1>2. IsFiniteSet(1..Len(es)) /\ Spots(p, es) \subseteq 1..Len(es)
  BY <1>1, FS_Interval DEF Spots
<1>3. IsFiniteSet(Spots(p, es))
  BY <1>2, FS_Subset
<1>4. QED
  BY <1>3, FS_CardinalityType DEF EditsOf, Spots

LEMMA EditsOfNone ==
    ASSUME NEW p
    PROVE  EditsOf(p, <<>>) = 0
<1>1. {i \in DOMAIN <<>> : <<>>[i].path = p} = {}
  OBVIOUS
<1>2. QED
  BY <1>1, FS_EmptySet DEF EditsOf

LEMMA EditsOfTail ==
    ASSUME NEW es \in Seq(Edits), es # <<>>, NEW p
    PROVE  EditsOf(p, es) = EditsOf(p, Tail(es)) + (IF Head(es).path = p THEN 1 ELSE 0)
<1> DEFINE S == Spots(p, es)
           T == Spots(p, Tail(es))
           f == [i \in T |-> i + 1]
<1>1. /\ Tail(es) \in Seq(Edits) /\ Head(es) = es[1]
      /\ Len(Tail(es)) = Len(es) - 1
      /\ \A i \in 1..Len(Tail(es)) : Tail(es)[i] = es[i + 1]
  BY HeadTailProperties
<1>2. /\ Len(es) \in Nat /\ Len(es) > 0
      /\ DOMAIN es = 1..Len(es) /\ DOMAIN Tail(es) = 1..(Len(es) - 1)
  BY <1>1, LenProperties, EmptySeq
<1>3. /\ IsFiniteSet(S) /\ EditsOf(p, es) = Cardinality(S) /\ Cardinality(S) \in Nat
      /\ IsFiniteSet(T) /\ EditsOf(p, Tail(es)) = Cardinality(T) /\ Cardinality(T) \in Nat
  BY <1>1, SpotsFinite
<1>4. 1 \in S <=> Head(es).path = p
  BY <1>1, <1>2 DEF Spots
<1>5. Cardinality(S \ {1}) = Cardinality(T)
  <2>1. \A i : i \in T <=> i \in 1..(Len(es) - 1) /\ es[i + 1].path = p
    BY <1>1, <1>2 DEF Spots
  <2>2. \A i : i \in S \ {1} <=> i \in 2..Len(es) /\ es[i].path = p
    BY <1>2 DEF Spots
  <2>3. \A i \in T : i \in Nat /\ i + 1 \in S \ {1}
    BY <1>2, <2>1, <2>2
  <2>4. \A j \in S \ {1} : j - 1 \in T /\ (j - 1) + 1 = j
    BY <1>2, <2>1, <2>2
  <2> HIDE DEF S, T
  <2>5. f \in [T -> S \ {1}] /\ (\A i, j \in T : f[i] = f[j] => i = j)
    BY <2>3
  <2>6. \A j \in S \ {1} : \E i \in T : f[i] = j
    BY <2>4
  <2> HIDE DEF f
  <2>7. f \in Bijection(T, S \ {1})
    BY <2>5, <2>6 DEF Bijection, Injection, Surjection, IsInjective
  <2>8. QED
    BY <1>3, <2>7, FS_Bijection DEF ExistsBijection
<1>6. Cardinality(S \ {1}) = IF 1 \in S THEN Cardinality(S) - 1 ELSE Cardinality(S)
  BY <1>3, FS_RemoveElement
<1> HIDE DEF S, T, f
<1>7. QED
  BY <1>3, <1>4, <1>5, <1>6

LEMMA OverwriteType ==
    ASSUME TypeOK, InRoot, NEW state \in {"whole", "torn"}, Overwrite(state)
    PROVE  /\ disk' \in [Files -> [state : {"absent", "whole", "torn"}, version : Nat]]
           /\ touched' \subseteq Files
<1>1. PICK p \in Files : p = Head(edits).path
  BY DEF InRoot
<1>2. /\ disk' = [disk EXCEPT ![p] = [state |-> state, version |-> @.version + 1]]
      /\ touched' = touched \cup {p}
  BY <1>1 DEF Overwrite
<1>3. disk \in [Files -> [state : {"absent", "whole", "torn"}, version : Nat]]
  BY DEF TypeOK
<1>4. [state |-> state, version |-> disk[p].version + 1]
         \in [state : {"absent", "whole", "torn"}, version : Nat]
  <2>1. disk[p].version + 1 \in Nat
    BY <1>3
  <2>2. QED
    BY <2>1
<1>5. QED
  BY <1>2, <1>3, <1>4 DEF TypeOK

LEMMA PushType ==
    ASSUME TypeOK, NEW t \in Tasks, Push(t)
    PROVE  /\ queue' \in Seq(Tasks)
           /\ queuedAreas' \subseteq Areas
           /\ visited' \subseteq Areas
<1>1. t.targetArea \in Areas
  BY DEF Tasks
<1>2. Append(queue, t) \in Seq(Tasks)
  BY AppendProperties DEF TypeOK
<1>3. QED
  BY <1>1, <1>2 DEF TypeOK, Push, Enqueue, queueVars

(* The steps that act on one edit. *)
OneEdit ==
    Propose \/ RejectEdit \/ CannotOpen \/ WriteFails \/ WriteSucceeds \/ FlushFails

LEMMA OneEditKinds ==
    ASSUME OneEdit
    PROVE  \E kind \in Kinds :
              /\ Listed(kind)
              /\ \/ UNCHANGED diskVars
                 \/ /\ InRoot /\ kind \in {"written", "errors"}
                    /\ \E state \in {"whole", "torn"} : Overwrite(state)
              /\ IF DryRun THEN kind = "proposed" /\ UNCHANGED diskVars
                           ELSE kind # "proposed"
  BY DEF OneEdit, Propose, RejectEdit, CannotOpen, WriteFails, WriteSucceeds, FlushFails,
         Kinds, InRoot

LEMMA TypeStep ==
    ASSUME TypeOK, [Next]_vars
    PROVE  TypeOK'
<1> USE DEF queueVars, loopVars, resultVars, diskVars
<1>1. CASE NothingMatches
  BY <1>1 DEF TypeOK, NothingMatches
<1>2. CASE SeedProbe
  <2>1. PICK targets \in SeedLists : Push(SeedTask(targets))
    BY <1>2 DEF SeedProbe
  <2>2. /\ queue' \in Seq(Tasks)
        /\ queuedAreas' \subseteq Areas
        /\ visited' \subseteq Areas
    BY <2>1, SeedType, PushType
  <2>3. QED
    BY <1>2, <2>2 DEF TypeOK, SeedProbe
<1>3. CASE QueueDrained \/ OutOfIterations \/ OutOfTime
  <2>1. PICK why \in {"", "iterations", "wall clock"} : LeaveLoop(why)
    BY <1>3 DEF QueueDrained, OutOfIterations, OutOfTime
  <2>2. QED
    BY <2>1 DEF TypeOK, LeaveLoop
<1>4. CASE StartTask
  <2>1. Head(queue) \in Tasks /\ Tail(queue) \in Seq(Tasks)
    BY <1>4, HeadTailProperties DEF TypeOK, StartTask, Pop
  <2>2. SubAreas(Head(queue)) \in Seq(Areas) /\ SubAreas(Head(queue)) # <<>>
    BY <2>1, SubAreasType
  <2>3. QED
    BY <1>4, <2>1, <2>2 DEF TypeOK, StartTask, Pop
<1>5. CASE ScanFindsNothing \/ ModelFails
  BY <1>5, NoFindingType, ConsideredType DEF ScanFindsNothing, ModelFails
<1>6. CASE ModelAnswers
  BY <1>6, Answer, ConsideredType
<1>7. CASE PromptNotSerializable \/ PathCheckThrows
  BY <1>7 DEF TypeOK, PromptNotSerializable, PathCheckThrows, Abort
<1>8. CASE Record
  <2>1. task.targetArea \in Areas /\ NoFinding \in Findings
    BY NoFindingType DEF TypeOK, Tasks
  <2>2. ActedOn(finding) \in Seq(Edits) /\ finding.dirs \in Seq(Directions)
    BY EmptySeq DEF TypeOK, ActedOn
  <2>3. <<>> \in Seq(Directions)
    BY EmptySeq
  <2>4. iterations' \in Nat /\ produced' \in [Paths -> Nat]
    <3>1. iterations \in Nat /\ produced \in [Paths -> Nat]
      BY DEF TypeOK
    <3>2. \A p \in Paths : EditsOf(p, ActedOn(finding)) \in Nat
      BY <2>2, SpotsFinite
    <3>3. \A p \in Paths : produced[p] + EditsOf(p, ActedOn(finding)) \in Nat
      BY <3>1, <3>2
    <3>4. QED
      BY <1>8, <3>1, <3>3 DEF Record
  <2>5. QED
    BY <1>8, <2>1, <2>2, <2>3, <2>4 DEF TypeOK, Record, MarkVisited, Findings
<1>9. CASE OneEdit
  <2>1. PICK kind \in Kinds :
           /\ Listed(kind)
           /\ \/ UNCHANGED diskVars
              \/ InRoot /\ \E state \in {"whole", "torn"} : Overwrite(state)
    BY <1>9, OneEditKinds
  <2>2. applied' \in [Kinds -> [Paths -> Nat]] /\ edits' \in Seq(Edits)
    BY <2>1, ListedType
  <2>3. /\ disk' \in [Files -> [state : {"absent", "whole", "torn"}, version : Nat]]
        /\ touched' \subseteq Files
    BY <2>1, OverwriteType DEF TypeOK
  <2>4. QED
    BY <2>1, <2>2, <2>3 DEF TypeOK, Listed
<1>10. CASE EditsDone
  <2>1. report' \in [Kinds -> [Paths -> Nat]]
    <3>1. report \in [Kinds -> [Paths -> Nat]] /\ applied \in [Kinds -> [Paths -> Nat]]
      BY DEF TypeOK
    <3>2. \A kind \in Kinds, p \in Paths : report[kind][p] + applied[kind][p] \in Nat
      BY <3>1
    <3>3. \A kind \in Kinds : Merged(kind) \in [Paths -> Nat]
      BY <3>2 DEF Merged
    <3>4. QED
      BY <1>10, <3>3 DEF EditsDone
  <2>2. QED
    BY <1>10, <2>1, NothingType DEF TypeOK, EditsDone
<1>11. CASE PushDirection
  <2>1. Head(pending) \in Directions /\ Tail(pending) \in Seq(Directions)
    BY <1>11, HeadTailProperties DEF TypeOK, PushDirection
  <2>2. DirectionTask(Head(pending)) \in Tasks
    <3>1. <<>> \in Seq(Files)
      BY EmptySeq
    <3>2. QED
      BY <2>1, <3>1 DEF DirectionTask, Directions, Tasks
  <2>3. /\ queue' \in Seq(Tasks)
        /\ queuedAreas' \subseteq Areas
        /\ visited' \subseteq Areas
    BY <1>11, <2>2, PushType DEF PushDirection
  <2>4. QED
    BY <1>11, <2>1, <2>3 DEF TypeOK, PushDirection, AfterPush
<1>12. CASE DirectionsPushed
  BY <1>12, NoTaskType DEF TypeOK, DirectionsPushed
<1>13. CASE Finish
  BY <1>13 DEF TypeOK, Finish
<1>14. CASE UNCHANGED vars
  BY <1>14 DEF TypeOK, vars
<1>15. QED
  BY <1>1, <1>2, <1>3, <1>4, <1>5, <1>6, <1>7, <1>8, <1>9, <1>10, <1>11, <1>12, <1>13,
     <1>14 DEF Next, OneEdit

(* Every reachable state is well typed, and the editor is never started on  *)
(* an empty list of areas.                                                  *)
THEOREM TypeCorrect == Spec => []TypeOK
<1>1. Init => TypeOK
  <2>1. InitialDisk \in [Files -> [state : {"absent", "whole", "torn"}, version : Nat]]
    BY DEF InitialDisk
  <2>2. /\ <<>> \in Seq(Tasks)
        /\ <<>> \in Seq(Areas)
        /\ <<>> \in Seq(Edits)
        /\ <<>> \in Seq(Directions)
    BY EmptySeq
  <2>3. NoFinding \in [outcome : Outcomes, edits : Seq(Edits), dirs : Seq(Directions)]
    BY NoFindingType DEF Findings
  <2> SUFFICES ASSUME Init PROVE TypeOK
    OBVIOUS
  <2>4. queue = <<>> /\ queuedAreas = {} /\ visited = {}
    BY DEF Init, InitQueue
  <2>5. apply \in BOOLEAN
    BY Zenon DEF Init
  <2>6. QED
    BY <2>1, <2>2, <2>3, <2>4, <2>5, NoTaskType, NothingType DEF Init, TypeOK
<1>2. TypeOK /\ [Next]_vars => TypeOK'
  BY TypeStep
<1>3. QED
  BY <1>1, <1>2, PTL DEF Spec

-----------------------------------------------------------------------------
(* The accounts. *)

(* A step that is none of the editing ones: it leaves the edits, what is    *)
(* reported of them and the files alone.                                    *)
Aside ==
    /\ UNCHANGED <<apply, edits, applied, report, disk, produced>>
    /\ pc \in {"edit", "aborted"} => pc' \in {"edit", "aborted"}

LEMMA EditSteps ==
    ASSUME [Next]_vars
    PROVE  Aside \/ Record \/ OneEdit \/ EditsDone
<1> USE DEF queueVars, loopVars, resultVars, diskVars, Aside
<1>1. CASE NothingMatches \/ SeedProbe \/ StartTask
  BY <1>1 DEF NothingMatches, SeedProbe, StartTask
<1>2. CASE QueueDrained \/ OutOfIterations \/ OutOfTime
  BY <1>2 DEF QueueDrained, OutOfIterations, OutOfTime, LeaveLoop
<1>3. CASE ScanFindsNothing \/ ModelFails \/ ModelAnswers
  <2>1. PICK sub : Considered(sub)
    BY <1>3 DEF ScanFindsNothing, ModelFails, ModelAnswers
  <2>2. QED
    BY <2>1 DEF Considered
<1>4. CASE PromptNotSerializable \/ PathCheckThrows
  BY <1>4 DEF PromptNotSerializable, PathCheckThrows, Abort
<1>5. CASE PushDirection \/ DirectionsPushed \/ Finish
  BY <1>5 DEF PushDirection, DirectionsPushed, Finish
<1>6. CASE UNCHANGED vars
  BY <1>6 DEF vars
<1>7. QED
  BY <1>1, <1>2, <1>3, <1>4, <1>5, <1>6 DEF Next, OneEdit

(* Between two batches of edits there is none left over and none counted. *)
Settled == pc \notin {"edit", "aborted"} => edits = <<>> /\ applied = Nothing

LEMMA SettledStep ==
    ASSUME Settled, [Next]_vars
    PROVE  Settled'
<1>1. CASE Aside
  BY <1>1 DEF Settled, Aside
<1>2. CASE Record
  BY <1>2 DEF Settled, Record
<1>3. CASE OneEdit
  <2>1. pc = "edit" /\ pc' = pc
    BY <1>3, OneEditKinds DEF Listed
  <2>2. QED
    BY <2>1 DEF Settled
<1>4. CASE EditsDone
  BY <1>4 DEF Settled, EditsDone
<1>5. QED
  BY <1>1, <1>2, <1>3, <1>4, EditSteps

(* Every list has a number for every path. *)
LEMMA CountsType ==
    ASSUME NEW lists \in [Kinds -> [Paths -> Nat]], NEW p \in Paths
    PROVE  /\ lists["written"][p] \in Nat /\ lists["rejected"][p] \in Nat
           /\ lists["errors"][p] \in Nat /\ lists["proposed"][p] \in Nat
           /\ Listings(lists, p) \in Nat /\ Overwritings(lists, p) \in Nat
<1>1. "written" \in Kinds /\ "rejected" \in Kinds /\ "errors" \in Kinds /\ "proposed" \in Kinds
  BY DEF Kinds
<1>2. /\ lists["written"][p] \in Nat /\ lists["rejected"][p] \in Nat
      /\ lists["errors"][p] \in Nat /\ lists["proposed"][p] \in Nat
  BY <1>1
<1>3. QED
  BY <1>2 DEF Listings, Overwritings

LEMMA NothingListed ==
    ASSUME NEW p \in Paths
    PROVE  Listings(Nothing, p) = 0 /\ Overwritings(Nothing, p) = 0
<1>1. \A kind \in Kinds : Nothing[kind][p] = 0
  BY DEF Nothing, NoPaths
<1>2. "written" \in Kinds /\ "rejected" \in Kinds /\ "errors" \in Kinds /\ "proposed" \in Kinds
  BY DEF Kinds
<1>3. QED
  BY <1>1, <1>2 DEF Listings, Overwritings

(* One more path of a kind. *)
LEMMA CountOne ==
    ASSUME TypeOK, NEW kind \in Kinds, Listed(kind)
    PROVE  /\ applied' \in [Kinds -> [Paths -> Nat]]
           /\ \A other \in Kinds : other # kind => applied'[other] = applied[other]
           /\ \A p \in Paths :
                 applied'[kind][p]
                    = applied[kind][p] + (IF p = Head(edits).path THEN 1 ELSE 0)
<1>1. PICK p \in Paths :
         /\ p = Head(edits).path
         /\ applied' = [applied EXCEPT ![kind][p] = @ + 1]
  BY ListsOnePath
<1>2. applied \in [Kinds -> [Paths -> Nat]] /\ applied[kind] \in [Paths -> Nat]
  BY DEF TypeOK
<1>3. /\ applied'[kind] = [applied[kind] EXCEPT ![p] = @ + 1]
      /\ \A other \in Kinds : other # kind => applied'[other] = applied[other]
  BY <1>1, <1>2
<1>4. \A q \in Paths :
         applied'[kind][q] = applied[kind][q] + (IF q = p THEN 1 ELSE 0)
  <2>1. \A q \in Paths : applied[kind][q] \in Nat
    BY <1>2
  <2>2. QED
    BY <1>2, <1>3, <2>1
<1>5. applied' \in [Kinds -> [Paths -> Nat]]
  BY ListedType
<1>6. QED
  BY <1>1, <1>3, <1>4, <1>5

(* Listing an edit moves it from the edits to the lists of its path. *)
LEMMA ListingCounts ==
    ASSUME TypeOK, NEW kind \in Kinds, Listed(kind), NEW p \in Paths
    PROVE  /\ Listings(applied', p)
                 = Listings(applied, p) + (IF p = Head(edits).path THEN 1 ELSE 0)
           /\ EditsOf(p, edits)
                 = EditsOf(p, edits') + (IF p = Head(edits).path THEN 1 ELSE 0)
<1> DEFINE one == IF p = Head(edits).path THEN 1 ELSE 0
<1>1. /\ applied[kind][p] \in Nat
      /\ applied["written"][p] \in Nat /\ applied["rejected"][p] \in Nat
      /\ applied["errors"][p] \in Nat /\ applied["proposed"][p] \in Nat
  BY CountsType DEF TypeOK
<1>2. /\ \A other \in Kinds : other # kind => applied'[other][p] = applied[other][p]
      /\ applied'[kind][p] = applied[kind][p] + one
  BY CountOne
<1>3. one \in Nat
  OBVIOUS
<1>4. kind \in {"written", "rejected", "errors", "proposed"}
  BY DEF Kinds
<1>5. Listings(applied', p) = Listings(applied, p) + one
  <2> HIDE DEF one
  <2> QED BY <1>1, <1>2, <1>3, <1>4 DEF Listings, Kinds
<1>6. EditsOf(p, edits) = EditsOf(p, edits') + one
  <2>1. edits \in Seq(Edits) /\ edits # <<>> /\ edits' = Tail(edits)
    BY ListsOnePath
  <2>2. QED
    BY <2>1, EditsOfTail
<1>7. QED
  BY <1>5, <1>6

(* Merging a call's lists moves them from one account to the other. *)
LEMMA MoveCounts ==
    ASSUME TypeOK, EditsDone
    PROVE  /\ applied' = Nothing
           /\ \A kind \in Kinds, p \in Paths :
                 report'[kind][p] = report[kind][p] + applied[kind][p]
           /\ \A p \in Paths :
                 /\ Listings(report', p) = Listings(report, p) + Listings(applied, p)
                 /\ Overwritings(report', p) = Overwritings(report, p) + Overwritings(applied, p)
<1>1. /\ applied' = Nothing
      /\ report' = [kind \in Kinds |-> [p \in Paths |-> report[kind][p] + applied[kind][p]]]
  BY DEF EditsDone, Merged
<1>2. \A kind \in Kinds, p \in Paths : report'[kind][p] = report[kind][p] + applied[kind][p]
  BY <1>1
<1>3. "written" \in Kinds /\ "rejected" \in Kinds /\ "errors" \in Kinds /\ "proposed" \in Kinds
  BY DEF Kinds
<1>4. \A p \in Paths :
         /\ Listings(report', p) = Listings(report, p) + Listings(applied, p)
         /\ Overwritings(report', p) = Overwritings(report, p) + Overwritings(applied, p)
  <2> TAKE p \in Paths
  <2>1. /\ report["written"][p] \in Nat /\ report["rejected"][p] \in Nat
        /\ report["errors"][p] \in Nat /\ report["proposed"][p] \in Nat
        /\ applied["written"][p] \in Nat /\ applied["rejected"][p] \in Nat
        /\ applied["errors"][p] \in Nat /\ applied["proposed"][p] \in Nat
    BY CountsType DEF TypeOK
  <2>2. QED
    BY <1>2, <1>3, <2>1 DEF Listings, Overwritings
<1>5. QED
  BY <1>1, <1>2, <1>4

LEMMA AccountStep ==
    ASSUME TypeOK, Settled, EditsAccounted, [Next]_vars
    PROVE  EditsAccounted'
<1> SUFFICES ASSUME NEW p \in Paths
             PROVE  produced'[p] = Listings(report', p) + Listings(applied', p)
                                   + EditsOf(p, edits')
  BY DEF EditsAccounted, Listings, EditsOf
<1>1. produced[p] = Listings(report, p) + Listings(applied, p) + EditsOf(p, edits)
  BY DEF EditsAccounted
<1>2. /\ produced[p] \in Nat /\ Listings(report, p) \in Nat /\ Listings(applied, p) \in Nat
      /\ EditsOf(p, edits) \in Nat
  <2>1. EditsOf(p, edits) \in Nat
    BY SpotsFinite DEF TypeOK
  <2>2. QED
    BY <2>1, CountsType DEF TypeOK
<1>3. CASE Aside
  BY <1>1, <1>3 DEF Aside
<1>4. CASE Record
  <2>1. /\ edits = <<>> /\ edits' = ActedOn(finding)
        /\ produced'[p] = produced[p] + EditsOf(p, ActedOn(finding))
        /\ report' = report /\ applied' = applied
    BY <1>4 DEF Record, Settled
  <2>2. EditsOf(p, edits') \in Nat
    <3>1. ActedOn(finding) \in Seq(Edits)
      BY EmptySeq DEF TypeOK, ActedOn
    <3>2. QED
      BY <2>1, <3>1, SpotsFinite
  <2>3. EditsOf(p, edits) = 0
    BY <2>1, EditsOfNone
  <2>4. QED
    BY <1>1, <1>2, <2>1, <2>2, <2>3
<1>5. CASE OneEdit
  <2>1. PICK kind \in Kinds : Listed(kind)
    BY <1>5, OneEditKinds
  <2>2. produced' = produced /\ report' = report /\ edits' \in Seq(Edits)
    BY <2>1, ListedType DEF Listed, resultVars
  <2>3. EditsOf(p, edits') \in Nat
    BY <2>2, SpotsFinite
  <2>4. QED
    BY <1>1, <1>2, <2>1, <2>2, <2>3, ListingCounts
<1>6. CASE EditsDone
  <2>1. produced' = produced /\ edits' = edits
    BY <1>6 DEF EditsDone
  <2>2. /\ Listings(applied', p) = 0
        /\ Listings(report', p) = Listings(report, p) + Listings(applied, p)
    BY <1>6, MoveCounts, NothingListed
  <2>3. QED
    BY <1>1, <1>2, <2>1, <2>2
<1>7. QED
  BY <1>3, <1>4, <1>5, <1>6, EditSteps

LEMMA InitSettled == Init => Settled
  BY DEF Init, Settled

(* Every edit acted on is reported once under its path, for any number of   *)
(* edits, in any order of failures.                                         *)
THEOREM EveryEditReported == Spec => []EditsAccounted
<1>1. Init => EditsAccounted
  <2> SUFFICES ASSUME Init, NEW p \in Paths
               PROVE  produced[p] = Listings(report, p) + Listings(applied, p) + EditsOf(p, edits)
    BY DEF EditsAccounted
  <2>1. produced[p] = 0 /\ edits = <<>> /\ report = Nothing /\ applied = Nothing
    BY DEF Init, NoPaths
  <2>2. Listings(Nothing, p) = 0 /\ EditsOf(p, <<>>) = 0
    BY NothingListed, EditsOfNone
  <2>3. QED
    BY <2>1, <2>2
<1>2. Settled /\ [Next]_vars => Settled'
  BY SettledStep
<1>3. TypeOK /\ Settled /\ EditsAccounted /\ [Next]_vars => EditsAccounted'
  BY AccountStep
<1>4. QED
  BY <1>1, <1>2, <1>3, InitSettled, TypeCorrect, PTL DEF Spec

-----------------------------------------------------------------------------
(* What reaches the disk. *)

(* DryRunWritesNothing with the call of Apply under way. *)
DryInv ==
    /\ apply => report["proposed"] = NoPaths /\ applied["proposed"] = NoPaths
    /\ ~apply => /\ disk = InitialDisk
                 /\ report["written"] = NoPaths /\ report["errors"] = NoPaths
                 /\ applied["written"] = NoPaths /\ applied["errors"] = NoPaths

LEMMA DryStep ==
    ASSUME TypeOK, DryInv, [Next]_vars
    PROVE  DryInv'
<1>0. "written" \in Kinds /\ "errors" \in Kinds /\ "proposed" \in Kinds
  BY DEF Kinds
<1>1. CASE Aside
  BY <1>1, Zenon DEF Aside, DryInv, InitialDisk, NoPaths
<1>2. CASE Record
  <2>1. UNCHANGED <<apply, applied, report, disk>>
    BY <1>2 DEF Record, diskVars
  <2>2. QED
    BY <2>1, Zenon DEF DryInv, InitialDisk, NoPaths
<1>3. CASE OneEdit
  <2>1. PICK kind \in Kinds :
           /\ Listed(kind)
           /\ IF DryRun THEN kind = "proposed" /\ UNCHANGED diskVars ELSE kind # "proposed"
    BY <1>3, OneEditKinds
  <2>2. apply' = apply /\ report' = report
    BY <2>1 DEF Listed, resultVars
  <2>3. CASE apply
    <3>1. kind # "proposed"
      BY <2>1, <2>3 DEF DryRun
    <3>2. applied'["proposed"] = applied["proposed"]
      BY <1>0, <2>1, <3>1, CountOne
    <3>3. QED
      BY <2>2, <2>3, <3>2, Zenon DEF DryInv, NoPaths
  <2>4. CASE ~apply
    <3>1. kind = "proposed" /\ disk' = disk
      BY <2>1, <2>4 DEF DryRun, diskVars
    <3>2. applied'["written"] = applied["written"] /\ applied'["errors"] = applied["errors"]
      BY <1>0, <2>1, <3>1, CountOne
    <3>3. QED
      BY <2>2, <2>4, <3>1, <3>2, Zenon DEF DryInv, InitialDisk, NoPaths
  <2>5. QED
    BY <2>3, <2>4
<1>4. CASE EditsDone
  <2>1. apply' = apply /\ disk' = disk
    BY <1>4 DEF EditsDone, diskVars
  <2>2. \A kind \in Kinds :
           report[kind] = NoPaths /\ applied[kind] = NoPaths => report'[kind] = NoPaths
    <3>1. \A kind \in Kinds :
             report'[kind] = [p \in Paths |-> report[kind][p] + applied[kind][p]]
      BY <1>4 DEF EditsDone, Merged
    <3>2. \A p \in Paths : NoPaths[p] + NoPaths[p] = 0
      BY DEF NoPaths
    <3>3. QED
      BY <3>1, <3>2 DEF NoPaths
  <2>3. \A kind \in Kinds : applied'[kind] = NoPaths
    BY <1>4 DEF EditsDone, Nothing
  <2>4. QED
    BY <1>0, <2>1, <2>2, <2>3, Zenon DEF DryInv, InitialDisk, NoPaths
<1>5. QED
  BY <1>1, <1>2, <1>3, <1>4, EditSteps

(* Without --apply no file changes and none is reported written; with it    *)
(* nothing is merely proposed.                                              *)
THEOREM DryRunIsDry == Spec => []DryRunWritesNothing
<1>1. Init => DryInv
  <2> SUFFICES ASSUME Init PROVE DryInv
    OBVIOUS
  <2>1. disk = InitialDisk /\ report = Nothing /\ applied = Nothing
    BY DEF Init
  <2>2. /\ Nothing["proposed"] = NoPaths /\ Nothing["written"] = NoPaths
        /\ Nothing["errors"] = NoPaths
    BY DEF Nothing, Kinds
  <2>3. QED
    BY <2>1, <2>2, Zenon DEF DryInv
<1>2. TypeOK /\ DryInv /\ [Next]_vars => DryInv'
  BY DryStep
<1>3. DryInv => DryRunWritesNothing
  BY Zenon DEF DryInv, DryRunWritesNothing
<1>4. QED
  BY <1>1, <1>2, <1>3, TypeCorrect, PTL DEF Spec

(* A step that does not write: it writes to no file, and forgets which ones *)
(* the task has written to only between two batches of edits.               *)
LEMMA TouchedSteps ==
    ASSUME [Next]_vars
    PROVE  \/ OneEdit
           \/ /\ disk' = disk
              /\ \/ touched' = touched
                 \/ pc \in {"head", "push"} /\ touched' = {}
<1> USE DEF queueVars, loopVars, resultVars, diskVars
<1>1. CASE NothingMatches \/ SeedProbe \/ StartTask \/ Record
  BY <1>1 DEF NothingMatches, SeedProbe, StartTask, Record
<1>2. CASE QueueDrained \/ OutOfIterations \/ OutOfTime
  BY <1>2 DEF QueueDrained, OutOfIterations, OutOfTime, LeaveLoop
<1>3. CASE ScanFindsNothing \/ ModelFails \/ ModelAnswers
  <2>1. PICK sub : Considered(sub)
    BY <1>3 DEF ScanFindsNothing, ModelFails, ModelAnswers
  <2>2. QED
    BY <2>1 DEF Considered
<1>4. CASE PromptNotSerializable \/ PathCheckThrows
  BY <1>4 DEF PromptNotSerializable, PathCheckThrows, Abort
<1>5. CASE EditsDone \/ PushDirection \/ DirectionsPushed \/ Finish
  BY <1>5 DEF EditsDone, PushDirection, DirectionsPushed, Finish
<1>6. CASE UNCHANGED vars
  BY <1>6 DEF vars
<1>7. QED
  BY <1>1, <1>2, <1>3, <1>4, <1>5, <1>6 DEF Next, OneEdit

(* What makes ReportCoversDisk inductive: the lists of the report and of    *)
(* the call under way name a file as often as it was overwritten, and those *)
(* of the report alone do unless the current task has written to it.        *)
CoveredFile(f) ==
    disk[f].version > 0 =>
        /\ f \in Paths
        /\ disk[f].version <= Overwritings(report, f) + Overwritings(applied, f)
        /\ f \notin touched => disk[f].version <= Overwritings(report, f)

Covered == \A f \in Files : CoveredFile(f)

LEMMA CoveredStep ==
    ASSUME TypeOK, Settled, Covered, [Next]_vars
    PROVE  Covered'
<1> SUFFICES ASSUME NEW f \in Files PROVE CoveredFile(f)'
  BY DEF Covered
<1>1. CoveredFile(f) /\ disk[f].version \in Nat
  BY DEF Covered, TypeOK
<1>2. f \in Paths => /\ Overwritings(report, f) \in Nat
                     /\ Overwritings(applied, f) \in Nat
  BY CountsType DEF TypeOK
<1>3. CASE OneEdit
  <2>1. PICK kind \in Kinds :
           /\ Listed(kind)
           /\ \/ UNCHANGED diskVars
              \/ /\ InRoot /\ kind \in {"written", "errors"}
                 /\ \E state \in {"whole", "torn"} : Overwrite(state)
    BY <1>3, OneEditKinds
  <2>2. report' = report
    BY <2>1 DEF Listed, resultVars
  <2>3. f \in Paths => /\ Overwritings(applied', f) \in Nat
                       /\ Overwritings(applied', f) >= Overwritings(applied, f)
                       /\ (kind \in {"written", "errors"} /\ f = Head(edits).path
                             => Overwritings(applied', f) = Overwritings(applied, f) + 1)
    <3> SUFFICES ASSUME f \in Paths
                 PROVE  /\ Overwritings(applied', f) \in Nat
                        /\ Overwritings(applied', f) >= Overwritings(applied, f)
                        /\ (kind \in {"written", "errors"} /\ f = Head(edits).path
                              => Overwritings(applied', f) = Overwritings(applied, f) + 1)
      OBVIOUS
    <3>1. /\ applied["written"][f] \in Nat /\ applied["errors"][f] \in Nat
          /\ "written" \in Kinds /\ "errors" \in Kinds /\ "written" # "errors"
      BY CountsType DEF TypeOK, Kinds
    <3>2. /\ \A other \in Kinds : other # kind => applied'[other] = applied[other]
          /\ applied'[kind][f] = applied[kind][f] + (IF f = Head(edits).path THEN 1 ELSE 0)
      BY <2>1, CountOne
    <3>3. CASE kind = "written"
      BY <3>1, <3>2, <3>3 DEF Overwritings
    <3>4. CASE kind = "errors"
      BY <3>1, <3>2, <3>4 DEF Overwritings
    <3>5. CASE kind \notin {"written", "errors"}
      BY <3>1, <3>2, <3>5 DEF Overwritings
    <3>6. QED
      BY <3>3, <3>4, <3>5
  <2>4. CASE disk'[f] = disk[f] /\ (f \notin touched' => f \notin touched)
    BY <1>1, <1>2, <2>2, <2>3, <2>4 DEF CoveredFile, Overwritings
  <2>5. CASE ~(disk'[f] = disk[f] /\ (f \notin touched' => f \notin touched))
    <3>1. PICK state \in {"whole", "torn"} : InRoot /\ Overwrite(state)
      BY <2>1, <2>5 DEF diskVars
    <3>2. PICK p \in Files :
             /\ p = Head(edits).path
             /\ disk' = [disk EXCEPT ![p] = [state |-> state, version |-> @.version + 1]]
             /\ touched' = touched \cup {p}
      BY <3>1 DEF InRoot, Overwrite
    <3>3. disk \in [Files -> [state : {"absent", "whole", "torn"}, version : Nat]]
      BY DEF TypeOK
    <3>4. f = p /\ f \in touched' /\ kind \in {"written", "errors"}
      BY <2>1, <2>5, <3>2, <3>3 DEF diskVars
    <3>5. disk'[f].version = disk[f].version + 1
      BY <3>2, <3>3, <3>4
    <3>6. f \in Paths
      BY <2>1, <3>2, <3>4, ListsOnePath
    <3>7. disk'[f].version <= Overwritings(report', f) + Overwritings(applied', f)
      <4>1. Overwritings(applied', f) = Overwritings(applied, f) + 1
        BY <2>3, <3>2, <3>4, <3>6
      <4>2. disk[f].version <= Overwritings(report, f) + Overwritings(applied, f)
        BY <1>1, <1>2, <3>6 DEF CoveredFile
      <4>3. QED
        BY <1>1, <1>2, <2>2, <3>5, <3>6, <4>1, <4>2
    <3>8. QED
      BY <3>4, <3>6, <3>7 DEF CoveredFile, Overwritings
  <2>6. QED
    BY <2>4, <2>5
<1>4. CASE EditsDone
  <2>1. disk' = disk /\ touched' = touched
    BY <1>4 DEF EditsDone, diskVars
  <2>2. f \in Paths => /\ Overwritings(applied', f) = 0
                       /\ Overwritings(report', f)
                             = Overwritings(report, f) + Overwritings(applied, f)
    BY <1>4, MoveCounts, NothingListed
  <2>3. disk'[f].version > 0 =>
           /\ f \in Paths
           /\ disk'[f].version <= Overwritings(report', f) + Overwritings(applied', f)
           /\ disk'[f].version <= Overwritings(report', f)
    BY <1>1, <1>2, <2>1, <2>2 DEF CoveredFile
  <2>4. QED
    BY <2>3 DEF CoveredFile, Overwritings
<1>5. CASE ~OneEdit /\ ~EditsDone
  <2>1. UNCHANGED <<report, applied>> /\ disk' = disk
    BY <1>5, EditSteps DEF Aside, Record, diskVars
  <2>2. CASE touched' = touched
    BY <1>1, <2>1, <2>2 DEF CoveredFile, Overwritings
  <2>3. CASE touched' # touched
    <3>1. pc \in {"head", "push"}
      BY <1>5, <2>3, TouchedSteps
    <3>2. f \in Paths => Overwritings(applied, f) = 0
      BY <3>1, NothingListed DEF Settled
    <3>3. disk[f].version > 0 =>
             f \in Paths /\ disk[f].version <= Overwritings(report, f)
      BY <1>1, <1>2, <3>2 DEF CoveredFile
    <3>4. disk'[f].version > 0 =>
             /\ f \in Paths
             /\ disk'[f].version <= Overwritings(report', f) + Overwritings(applied', f)
             /\ disk'[f].version <= Overwritings(report', f)
      BY <1>1, <1>2, <2>1, <3>2, <3>3 DEF Overwritings
    <3>5. QED
      BY <3>4 DEF CoveredFile, Overwritings
  <2>4. QED
    BY <2>2, <2>3
<1>6. QED
  BY <1>3, <1>4, <1>5

(* The report names every file under its own path as often as it was        *)
(* overwritten, whatever failed on the way.  A run that a path check ends   *)
(* inside a batch loses at most what that batch has written.                *)
THEOREM ReportIsComplete == Spec => []ReportCoversDisk
<1>1. Init => Covered
  <2> SUFFICES ASSUME Init PROVE Covered
    OBVIOUS
  <2>1. disk = InitialDisk
    BY DEF Init
  <2>2. \A f \in Files : disk[f].version = 0
    BY <2>1 DEF InitialDisk
  <2>3. QED
    BY <2>2 DEF Covered, CoveredFile
<1>2. TypeOK /\ Settled /\ Covered /\ [Next]_vars => Covered'
  BY CoveredStep
<1>3. TypeOK /\ Covered /\ Settled => ReportCoversDisk
  <2> SUFFICES ASSUME TypeOK, Covered, Settled, NEW f \in Files, disk[f].version > 0
               PROVE  /\ f \in Paths
                      /\ \/ disk[f].version <= Overwritings(report, f)
                         \/ /\ pc \in {"edit", "aborted"}
                            /\ f \in touched
                            /\ disk[f].version <= Overwritings(report, f)
                                                   + Overwritings(applied, f)
    BY DEF ReportCoversDisk
  <2>1. CoveredFile(f) /\ disk[f].version \in Nat
    BY DEF Covered, TypeOK
  <2>2. f \in Paths /\ Overwritings(report, f) \in Nat
    BY <2>1, CountsType DEF CoveredFile, TypeOK
  <2>3. CASE pc \in {"edit", "aborted"}
    BY <2>1, <2>2, <2>3 DEF CoveredFile
  <2>4. CASE pc \notin {"edit", "aborted"}
    <3>1. Overwritings(applied, f) = 0
      BY <2>2, <2>4, NothingListed DEF Settled
    <3>2. QED
      BY <2>1, <2>2, <3>1 DEF CoveredFile
  <2>5. QED
    BY <2>3, <2>4
<1>4. Settled /\ [Next]_vars => Settled'
  BY SettledStep
<1>5. QED
  BY <1>1, <1>2, <1>3, <1>4, InitSettled, TypeCorrect, PTL DEF Spec

-----------------------------------------------------------------------------
(* What an edit replaces. *)

Elements(s) == {s[i] : i \in DOMAIN s}

LEMMA ElementsOfTail ==
    ASSUME NEW S, NEW s \in Seq(S), s # <<>>
    PROVE  Head(s) \in Elements(s) /\ Elements(Tail(s)) \subseteq Elements(s)
<1>1. /\ Tail(s) \in Seq(S)
      /\ Len(Tail(s)) = Len(s) - 1
      /\ \A i \in 1..Len(Tail(s)) : Tail(s)[i] = s[i + 1]
  BY HeadTailProperties
<1>2. /\ Len(s) \in Nat /\ Len(s) > 0
      /\ DOMAIN s = 1..Len(s) /\ DOMAIN Tail(s) = 1..(Len(s) - 1)
  BY <1>1, LenProperties, EmptySeq
<1>3. \A i \in 1..(Len(s) - 1) : i + 1 \in 1..Len(s)
  BY <1>2
<1>4. Head(s) = s[1] /\ 1 \in 1..Len(s)
  BY <1>2
<1>5. QED
  BY <1>1, <1>2, <1>3, <1>4 DEF Elements

LEMMA ElementsOfConcat ==
    ASSUME NEW S, NEW s \in Seq(S), NEW t \in Seq(S)
    PROVE  Elements(s \o t) \subseteq Elements(s) \cup Elements(t)
<1>1. /\ s \o t \in Seq(S)
      /\ Len(s \o t) = Len(s) + Len(t)
      /\ \A i \in 1..(Len(s) + Len(t)) :
            (s \o t)[i] = IF i <= Len(s) THEN s[i] ELSE t[i - Len(s)]
  BY ConcatProperties
<1>2. /\ Len(s) \in Nat /\ DOMAIN s = 1..Len(s)
      /\ Len(t) \in Nat /\ DOMAIN t = 1..Len(t)
      /\ DOMAIN (s \o t) = 1..(Len(s) + Len(t))
  BY <1>1, LenProperties
<1>3. \A i \in 1..(Len(s) + Len(t)) :
         IF i <= Len(s) THEN i \in 1..Len(s) ELSE i - Len(s) \in 1..Len(t)
  BY <1>2
<1>4. QED
  BY <1>1, <1>2, <1>3 DEF Elements

LEMMA NoElements == Elements(<<>>) = {}
<1>1. DOMAIN <<>> = {}
  OBVIOUS
<1>2. QED
  BY <1>1 DEF Elements

(* The edits found and not yet acted on. *)
Waiting == Elements(finding.edits) \cup Elements(edits)

(* An edit of a file in the root carries the version now on disk, none, or  *)
(* its file has been written to by an edit of the same task.                *)
UpToDate(e) ==
    e.path \in Files => \/ e.base \in {NotSeen, disk[e.path].version}
                       \/ e.path \in touched

ShownInv ==
    /\ pc \notin {"work", "record", "aborted"} => finding = NoFinding
    /\ \A e \in Waiting : UpToDate(e)

LEMMA ConsideredEdits ==
    ASSUME TypeOK, NEW sub \in Findings, Considered(sub)
    PROVE  Waiting' \subseteq Waiting \cup Elements(sub.edits)
<1>1. finding \in Findings /\ edits' = edits
  BY DEF TypeOK, Findings, Considered, loopVars
<1>2. finding' = sub \/ finding' = Merge(finding, sub)
  BY DEF Considered
<1>3. Elements(finding'.edits) \subseteq Elements(finding.edits) \cup Elements(sub.edits)
  <2>1. finding.edits \in Seq(Edits) /\ sub.edits \in Seq(Edits)
    BY <1>1 DEF Findings
  <2>2. \/ finding'.edits = sub.edits \/ finding'.edits = finding.edits
        \/ finding'.edits = finding.edits \o sub.edits
    <3>1. Merge(finding, sub) = finding \/ Merge(finding, sub).edits = finding.edits \o sub.edits
      BY DEF Merge
    <3>2. QED
      BY <1>2, <3>1
  <2>3. QED
    BY <2>1, <2>2, ElementsOfConcat
<1>4. QED
  BY <1>1, <1>3 DEF Waiting, Elements

(* As long as no file changes, edits stay up to date. *)
LEMMA StillUpToDate ==
    ASSUME NEW e, UpToDate(e), disk' = disk, touched \subseteq touched'
    PROVE  UpToDate(e)'
  BY DEF UpToDate

(* A step of the editor, or one that leaves its finding alone. *)
LEMMA FindingSteps ==
    ASSUME [Next]_vars
    PROVE  \/ ScanFindsNothing \/ ModelFails \/ ModelAnswers
           \/ Record \/ OneEdit
           \/ /\ UNCHANGED <<finding, edits, disk>>
              /\ \/ touched' = touched
                 \/ pc \in {"head", "push"} /\ edits = edits'
              /\ pc \in {"work", "record"} => pc' \in {"work", "record", "aborted"}
              /\ pc = "aborted" => pc' = "aborted"
<1> USE DEF queueVars, loopVars, resultVars, diskVars
<1>1. CASE NothingMatches \/ SeedProbe \/ StartTask
  BY <1>1 DEF NothingMatches, SeedProbe, StartTask
<1>2. CASE QueueDrained \/ OutOfIterations \/ OutOfTime
  BY <1>2 DEF QueueDrained, OutOfIterations, OutOfTime, LeaveLoop
<1>3. CASE PromptNotSerializable \/ PathCheckThrows
  BY <1>3 DEF PromptNotSerializable, PathCheckThrows, Abort
<1>4. CASE EditsDone
  BY <1>4 DEF EditsDone
<1>5. CASE PushDirection \/ DirectionsPushed \/ Finish
  BY <1>5 DEF PushDirection, DirectionsPushed, Finish
<1>6. CASE UNCHANGED vars
  BY <1>6 DEF vars
<1>7. QED
  BY <1>1, <1>2, <1>3, <1>4, <1>5, <1>6 DEF Next, OneEdit

LEMMA ShownStep ==
    ASSUME TypeOK, Settled, ShownInv, [Next]_vars
    PROVE  ShownInv'
<1>1. CASE ScanFindsNothing \/ ModelFails \/ ModelAnswers
  <2>1. \E sub \in Findings :
           /\ Considered(sub)
           /\ \A e \in Elements(sub.edits) : UpToDate(e)
    <3>1. CASE ScanFindsNothing \/ ModelFails
      <4>1. Considered(NoFinding) /\ Elements(NoFinding.edits) = {}
        BY <3>1, NoElements DEF ScanFindsNothing, ModelFails, NoFinding
      <4>2. QED
        BY <4>1, NoFindingType
    <3>2. CASE ModelAnswers
      <4>1. PICK sub \in Findings :
               /\ Considered(sub)
               /\ \A i \in DOMAIN sub.edits :
                     sub.edits[i].base = ShownVersion(sub.edits[i].path, Head(rest))
        BY <3>2, Answer
      <4>2. \A e \in Elements(sub.edits) : e.base = ShownVersion(e.path, Head(rest))
        BY <4>1 DEF Elements
      <4>3. \A e \in Elements(sub.edits) : UpToDate(e)
        BY <4>2 DEF UpToDate, ShownVersion
      <4>4. QED
        BY <4>1, <4>3
    <3>3. QED
      BY <1>1, <3>1, <3>2
  <2>2. PICK sub \in Findings :
           /\ Considered(sub)
           /\ \A e \in Elements(sub.edits) : UpToDate(e)
    BY <2>1
  <2>3. /\ disk' = disk /\ touched' = touched
        /\ pc' \in {"work", "record"}
    BY <2>2 DEF Considered, diskVars
  <2>4. \A e \in Waiting' : UpToDate(e)
    BY <2>2, ConsideredEdits DEF ShownInv
  <2>5. \A e \in Waiting' : UpToDate(e)'
    BY <2>3, <2>4, StillUpToDate
  <2>6. QED
    BY <2>3, <2>5 DEF ShownInv
<1>2. CASE Record
  <2>1. /\ disk' = disk /\ touched' = touched /\ finding' = NoFinding
        /\ edits' = finding.edits \/ edits' = <<>>
    BY <1>2 DEF Record, diskVars, ActedOn
  <2>2. Waiting' \subseteq Waiting
    <3>1. Elements(finding'.edits) = {}
      BY <2>1, NoElements DEF NoFinding
    <3>2. Elements(edits') \subseteq Elements(finding.edits)
      BY <2>1, NoElements
    <3>3. QED
      BY <3>1, <3>2 DEF Waiting, Elements
  <2>3. \A e \in Waiting' : UpToDate(e)'
    BY <2>1, <2>2, StillUpToDate DEF ShownInv
  <2>4. QED
    BY <2>1, <2>3 DEF ShownInv
<1>3. CASE OneEdit
  <2>1. PICK kind \in Kinds :
           /\ Listed(kind)
           /\ \/ UNCHANGED diskVars
              \/ InRoot /\ \E state \in {"whole", "torn"} : Overwrite(state)
    BY <1>3, OneEditKinds
  <2>2. /\ finding' = finding /\ pc = "edit" /\ edits # <<>> /\ edits' = Tail(edits)
        /\ edits \in Seq(Edits)
    BY <2>1 DEF Listed, AfterEdit, TypeOK
  <2>3. Waiting' \subseteq Waiting
    <3>1. Elements(edits') \subseteq Elements(edits)
      BY <2>2, ElementsOfTail
    <3>2. QED
      BY <2>2, <3>1 DEF Waiting, Elements
  <2>4. \A e \in Waiting : UpToDate(e)'
    <3>1. CASE UNCHANGED diskVars
      BY <3>1, StillUpToDate DEF diskVars, ShownInv
    <3>2. CASE InRoot /\ \E state \in {"whole", "torn"} : Overwrite(state)
      <4>1. PICK state \in {"whole", "torn"}, p \in Files :
               /\ disk' = [disk EXCEPT ![p] = [state |-> state, version |-> @.version + 1]]
               /\ touched' = touched \cup {p}
        BY <3>2 DEF InRoot, Overwrite
      <4>2. \A q \in Files : q # p => disk'[q] = disk[q]
        BY <4>1 DEF TypeOK
      <4>3. QED
        BY <4>1, <4>2 DEF UpToDate, ShownInv
    <3>3. QED
      BY <2>1, <3>1, <3>2
  <2>5. pc' \notin {"work", "record", "aborted"} => finding' = NoFinding
    BY <2>2 DEF ShownInv
  <2>6. QED
    BY <2>3, <2>4, <2>5 DEF ShownInv
<1>4. CASE /\ UNCHANGED <<finding, edits, disk>>
           /\ \/ touched' = touched
              \/ pc \in {"head", "push"} /\ edits = edits'
           /\ pc \in {"work", "record"} => pc' \in {"work", "record", "aborted"}
           /\ pc = "aborted" => pc' = "aborted"
  <2>1. Waiting' = Waiting
    BY <1>4 DEF Waiting, Elements
  <2>2. pc' \notin {"work", "record", "aborted"} => finding' = NoFinding
    BY <1>4 DEF ShownInv
  <2>3. CASE touched' = touched
    <3>1. \A e \in Waiting' : UpToDate(e)'
      BY <1>4, <2>1, <2>3, StillUpToDate DEF ShownInv
    <3>2. QED
      BY <2>2, <3>1 DEF ShownInv
  <2>4. CASE pc \in {"head", "push"}
    <3>1. edits = <<>> /\ finding = NoFinding
      BY <2>4 DEF Settled, ShownInv
    <3>2. Waiting = {}
      BY <3>1, NoElements DEF Waiting, NoFinding
    <3>3. QED
      BY <2>1, <2>2, <3>2 DEF ShownInv
  <2>5. QED
    BY <1>4, <2>3, <2>4
<1>5. QED
  BY <1>1, <1>2, <1>3, <1>4, FindingSteps

LEMMA ReplacesShown ==
    ASSUME TypeOK, ShownInv, [Next]_vars, NEW f \in Files, disk'[f] # disk[f]
    PROVE  Head(edits).base \in {disk[f].version, NotSeen} \/ f \in touched
<1>1. OneEdit /\ disk' # disk
  BY EditSteps DEF Aside, Record, EditsDone, diskVars
<1>2. PICK kind \in Kinds :
         /\ Listed(kind)
         /\ \/ UNCHANGED diskVars
            \/ InRoot /\ \E state \in {"whole", "torn"} : Overwrite(state)
  BY <1>1, OneEditKinds
<1>3. PICK state \in {"whole", "torn"} : InRoot /\ Overwrite(state)
  BY <1>1, <1>2 DEF diskVars
<1>4. f = Head(edits).path
  BY <1>3 DEF Overwrite, TypeOK
<1>5. Head(edits) \in Waiting
  <2>1. edits \in Seq(Edits) /\ edits # <<>>
    BY <1>2 DEF Listed, TypeOK
  <2>2. QED
    BY <2>1, ElementsOfTail DEF Waiting
<1>6. QED
  BY <1>4, <1>5 DEF ShownInv, UpToDate

(* No edit replaces a version its author was not shown, other than one the  *)
(* same task has just written, in any order of tasks and edits.             *)
THEOREM ShownBeforeReplaced == Spec => EditsReplaceWhatWasShown
<1>1. Init => ShownInv
  <2> SUFFICES ASSUME Init PROVE ShownInv
    OBVIOUS
  <2>1. finding = NoFinding /\ edits = <<>>
    BY DEF Init
  <2>2. Waiting = {}
    BY <2>1, NoElements DEF Waiting, NoFinding
  <2>3. QED
    BY <2>1, <2>2 DEF ShownInv
<1>2. Settled /\ [Next]_vars => Settled'
  BY SettledStep
<1>3. TypeOK /\ Settled /\ ShownInv /\ [Next]_vars => ShownInv'
  BY ShownStep
<1>4. TypeOK /\ ShownInv /\ [Next]_vars =>
         [\A f \in Files : disk'[f] # disk[f] =>
             \/ Head(edits).base \in {disk[f].version, NotSeen}
             \/ f \in touched]_vars
  BY ReplacesShown
<1>5. QED
  BY <1>1, <1>2, <1>3, <1>4, InitSettled, TypeCorrect, PTL DEF Spec, EditsReplaceWhatWasShown

-----------------------------------------------------------------------------
(* The refinement. *)

(* Where an area is: queued once, being worked on, or visited, never two of *)
(* these; and the area whose edits are acted on is visited already.         *)
Places ==
    /\ queuedAreas = AreasOf(queue)
    /\ DistinctAreas(queue)
    /\ queuedAreas \cap visited = {}
    /\ Current \cap (queuedAreas \cup visited) = {}
    /\ pc = "edit" => task.targetArea \in visited

(* A step the abstract search does not see, but for the end of the run.     *)
Quiet ==
    /\ UNCHANGED queueVars
    /\ Current' = Current
    /\ iterations' = iterations
    /\ pc' = "edit" => pc = "edit" /\ task' = task

LEMMA SearchSteps ==
    ASSUME TypeOK, Places, [Next]_vars
    PROVE  Quiet \/ SeedProbe \/ StartTask \/ Record \/ PushDirection
<1> USE DEF queueVars, loopVars, resultVars, diskVars, Quiet, Current
<1>1. CASE NothingMatches \/ QueueDrained \/ OutOfIterations \/ OutOfTime \/ Finish
  BY <1>1 DEF NothingMatches, QueueDrained, OutOfIterations, OutOfTime, LeaveLoop, Finish
<1>2. CASE ScanFindsNothing \/ ModelFails \/ ModelAnswers
  <2>1. PICK sub : Considered(sub)
    BY <1>2 DEF ScanFindsNothing, ModelFails, ModelAnswers
  <2>2. QED
    BY <2>1 DEF Considered
<1>3. CASE PromptNotSerializable
  <2>1. task.targetArea \notin visited
    BY <1>3 DEF PromptNotSerializable, Places
  <2>2. QED
    BY <1>3, <2>1 DEF PromptNotSerializable, Abort
<1>4. CASE PathCheckThrows
  BY <1>4 DEF PathCheckThrows, Abort, Places
<1>5. CASE OneEdit
  <2>1. PICK kind \in Kinds : Listed(kind)
    BY <1>5, OneEditKinds
  <2>2. QED
    BY <2>1 DEF Listed
<1>6. CASE EditsDone \/ DirectionsPushed
  BY <1>6 DEF EditsDone, DirectionsPushed
<1>7. CASE UNCHANGED vars
  BY <1>7 DEF vars
<1>8. QED
  BY <1>1, <1>2, <1>3, <1>4, <1>5, <1>6, <1>7 DEF Next, OneEdit

LEMMA RecordEnds ==
    ASSUME Record
    PROVE  /\ visited' = visited \cup {task.targetArea}
           /\ UNCHANGED <<queue, queuedAreas>>
           /\ Current = {task.targetArea} /\ Current' = {}
           /\ iterations' = iterations + 1
           /\ pc = "record" /\ pc' = "edit" /\ task' = task
  BY DEF Record, MarkVisited, Current

LEMMA PushPlaces ==
    ASSUME TypeOK, Places, NEW t \in Tasks, Push(t), Current = {}, Current' = {},
           pc' # "edit"
    PROVE  Places'
<1>1. CASE Enqueue(t)
  <2>1. /\ t.targetArea \notin visited \cup queuedAreas
        /\ queue' = Append(queue, t)
        /\ queuedAreas' = queuedAreas \cup {t.targetArea}
        /\ visited' = visited
    BY <1>1 DEF Enqueue, Accepts
  <2>2. queue \in Seq(Tasks) /\ DistinctAreas(queue) /\ queuedAreas = AreasOf(queue)
    BY DEF TypeOK, Places
  <2>3. AreasOf(queue') = queuedAreas'
    BY <2>1, <2>2, AreasOfAppend
  <2>4. DistinctAreas(queue')
    BY <2>1, <2>2, DistinctAppend
  <2>5. queuedAreas' \cap visited' = {}
    BY <2>1 DEF Places
  <2>6. QED
    BY <2>3, <2>4, <2>5 DEF Places
<1>2. CASE ~Accepts(t) /\ UNCHANGED queueVars
  BY <1>2 DEF Places, queueVars, AreasOf, DistinctAreas
<1>3. QED
  BY <1>1, <1>2 DEF Push

(* Pop moves the head's area out of the queue and the set. *)
LEMMA StartsTask ==
    ASSUME TypeOK, Places, StartTask
    PROVE  \E a \in Areas :
              /\ a \in queuedAreas
              /\ Current = {} /\ Current' = {a}
              /\ queuedAreas' = queuedAreas \ {a} /\ queuedAreas' = AreasOf(queue')
              /\ DistinctAreas(queue')
              /\ visited' = visited /\ iterations' = iterations
              /\ pc = "head" /\ pc' = "work"
<1>1. /\ queue # <<>>
      /\ queue' = Tail(queue)
      /\ queuedAreas' = queuedAreas \ {Head(queue).targetArea}
      /\ visited' = visited /\ iterations' = iterations
      /\ Current = {} /\ Current' = {Head(queue).targetArea}
      /\ pc = "head" /\ pc' = "work"
  BY DEF StartTask, Pop, Current, resultVars
<1>2. queue \in Seq(Tasks) /\ DistinctAreas(queue) /\ queuedAreas = AreasOf(queue)
  BY DEF TypeOK, Places
<1>3. DistinctAreas(queue') /\ Head(queue).targetArea \notin AreasOf(queue')
  BY <1>1, <1>2, DistinctTail
<1>4. AreasOf(queue) = {Head(queue).targetArea} \cup AreasOf(queue')
  BY <1>1, <1>2, AreasOfTail
<1>5. queuedAreas' = AreasOf(queue')
  BY <1>1, <1>2, <1>3, <1>4
<1>6. Head(queue).targetArea \in queuedAreas /\ Head(queue).targetArea \in Areas
  BY <1>2, <1>4 DEF TypeOK
<1>7. QED
  BY <1>1, <1>3, <1>5, <1>6

(* The task a direction becomes; nothing is worked on while it is pushed.   *)
LEMMA PushesTask ==
    ASSUME TypeOK, SeedProbe \/ PushDirection
    PROVE  /\ \E t \in Tasks : Push(t)
           /\ Current = {} /\ Current' = {} /\ pc' # "edit"
           /\ Ended = FALSE /\ Ended' = FALSE
           /\ iterations' = iterations
<1>1. CASE SeedProbe
  <2>1. PICK targets \in SeedLists : Push(SeedTask(targets))
    BY <1>1 DEF SeedProbe
  <2>2. SeedTask(targets) \in Tasks
    BY SeedType
  <2>3. QED
    BY <1>1, <2>1, <2>2 DEF SeedProbe, Current, Ended, resultVars
<1>2. CASE PushDirection
  <2>1. Head(pending) \in Directions
    BY <1>2, HeadTailProperties DEF TypeOK, PushDirection
  <2>2. DirectionTask(Head(pending)) \in Tasks
    <3>1. <<>> \in Seq(Files)
      BY EmptySeq
    <3>2. QED
      BY <2>1, <3>1 DEF DirectionTask, Tasks, Directions
  <2>3. QED
    BY <1>2, <2>2 DEF PushDirection, Current, Ended, resultVars
<1>3. QED
  BY <1>1, <1>2

LEMMA PlacesStep ==
    ASSUME TypeOK, Places, [Next]_vars
    PROVE  Places'
<1>1. CASE Quiet
  BY <1>1 DEF Places, Quiet, queueVars, AreasOf, DistinctAreas
<1>2. CASE SeedProbe \/ PushDirection
  BY <1>2, PushesTask, PushPlaces
<1>3. CASE StartTask
  BY <1>3, StartsTask DEF Places
<1>4. CASE Record
  BY <1>4, RecordEnds DEF Places, AreasOf, DistinctAreas
<1>5. QED
  BY <1>1, <1>2, <1>3, <1>4, SearchSteps

(* Each iteration visits one new area, so that the cap caps the areas.      *)
Counted == IsFiniteSet(visited) /\ iterations = Cardinality(visited)

LEMMA CountedStep ==
    ASSUME TypeOK, Places, Counted, [Next]_vars
    PROVE  Counted'
<1>1. visited' = visited /\ iterations' = iterations => Counted'
  BY DEF Counted
<1>2. CASE Quiet
  BY <1>1, <1>2 DEF Quiet, queueVars
<1>3. CASE SeedProbe \/ PushDirection
  BY <1>1, <1>3, PushesTask DEF Push, Enqueue, queueVars
<1>4. CASE StartTask
  BY <1>1, <1>4, StartsTask
<1>5. CASE Record
  <2>1. task.targetArea \notin visited
    BY <1>5, RecordEnds DEF Places
  <2>2. IsFiniteSet(visited') /\ Cardinality(visited') = Cardinality(visited) + 1
    BY <1>5, <2>1, RecordEnds, FS_AddElement DEF Counted
  <2>3. QED
    BY <1>5, <2>2, RecordEnds DEF Counted
<1>6. QED
  BY <1>2, <1>3, <1>4, <1>5, SearchSteps

LEMMA SimulationStep ==
    ASSUME TypeOK, Places, Counted, [Next]_vars
    PROVE  [Search!Next]_(Search!vars)
<1>1. Ended => UNCHANGED vars
  <2> SUFFICES ASSUME Next PROVE ~Ended
    OBVIOUS
  <2>1. CASE ScanFindsNothing \/ ModelFails \/ ModelAnswers
    <3>1. PICK sub : Considered(sub)
      BY <2>1 DEF ScanFindsNothing, ModelFails, ModelAnswers
    <3>2. QED
      BY <3>1 DEF Considered, Ended
  <2>2. CASE OneEdit
    <3>1. PICK kind \in Kinds : Listed(kind)
      BY <2>2, OneEditKinds
    <3>2. QED
      BY <3>1 DEF Listed, Ended
  <2>3. CASE NothingMatches \/ SeedProbe \/ QueueDrained \/ OutOfIterations \/ OutOfTime \/ StartTask
    BY <2>3 DEF NothingMatches, SeedProbe, QueueDrained, OutOfIterations, OutOfTime, LeaveLoop,
                StartTask, Ended
  <2>4. CASE PromptNotSerializable \/ Record \/ PathCheckThrows \/ EditsDone
    BY <2>4 DEF PromptNotSerializable, Record, PathCheckThrows, EditsDone, Ended
  <2>5. CASE PushDirection \/ DirectionsPushed \/ Finish
    BY <2>5 DEF PushDirection, DirectionsPushed, Finish, Ended
  <2>6. QED
    BY <2>1, <2>2, <2>3, <2>4, <2>5 DEF Next, OneEdit
<1>2. CASE Quiet
  <2>1. CASE Ended' = Ended
    BY <1>2, <2>1 DEF Quiet, queueVars, Search!vars
  <2>2. CASE Ended' # Ended
    <3>1. ~Ended /\ Ended'
      BY <1>1, <2>2 DEF Ended, vars
    <3>2. Search!Stop
      BY <1>2, <3>1 DEF Quiet, queueVars, Search!Stop
    <3>3. QED
      BY <3>2 DEF Search!Next
  <2>3. QED
    BY <2>1, <2>2
<1>3. CASE SeedProbe \/ PushDirection
  <2>1. PICK t \in Tasks : Push(t)
    BY <1>3, PushesTask
  <2>2. t.targetArea \in Areas
    BY DEF Tasks
  <2>3. CASE Enqueue(t)
    <3>1. Search!Discover(t.targetArea)
      BY <1>3, <2>3, PushesTask DEF Enqueue, Accepts, Search!Discover
    <3>2. QED
      BY <2>2, <3>1 DEF Search!Next
  <2>4. CASE UNCHANGED queueVars
    BY <1>3, <2>4, PushesTask DEF queueVars, Search!vars
  <2>5. QED
    BY <2>1, <2>3, <2>4 DEF Push
<1>4. CASE StartTask
  <2>1. PICK a \in Areas :
              /\ a \in queuedAreas
              /\ Current = {} /\ Current' = {a}
              /\ queuedAreas' = queuedAreas \ {a}
              /\ visited' = visited
              /\ pc = "head" /\ pc' = "work"
    BY <1>4, StartsTask
  <2>2. Cardinality(visited) < MaxIterations
    <3>1. iterations = Cardinality(visited) /\ iterations \in Nat
      BY DEF Counted, TypeOK
    <3>2. ~CapReached
      BY <1>4 DEF StartTask
    <3>3. QED
      BY <3>1, <3>2, EditBounds DEF CapReached
  <2>3. Search!Begin(a)
    <3>1. Search!Cardinality(visited) = Cardinality(visited)
      BY DEF Search!Cardinality, Cardinality
    <3>2. Ended = FALSE /\ Ended' = FALSE
      BY <2>1 DEF Ended
    <3>3. QED
      BY <2>1, <2>2, <3>1, <3>2 DEF Search!Begin
  <2>4. QED
    BY <2>3 DEF Search!Next
<1>5. CASE Record
  <2>1. Search!Complete
    BY <1>5, RecordEnds DEF Search!Complete, Ended
  <2>2. QED
    BY <2>1 DEF Search!Next
<1>6. QED
  BY <1>2, <1>3, <1>4, <1>5, SearchSteps

(* Whatever the constants, an editing run too is a run of the abstract      *)
(* search: no area is edited twice, none that was not queued, and at most   *)
(* MaxIterations, also when an edit fails or a path check throws.  (That it *)
(* stops is left to TLC.)                                                   *)
THEOREM EngineImplementsSearch == Spec => Search!SafeSpec
<1>1. Init => Search!Init /\ Places /\ Counted
  <2> SUFFICES ASSUME Init PROVE Search!Init /\ Places /\ Counted
    OBVIOUS
  <2>1. queue = <<>> /\ queuedAreas = {} /\ visited = {} /\ pc = "keywords" /\ iterations = 0
    BY DEF Init, InitQueue
  <2>2. Current = {} /\ Ended = FALSE
    BY <2>1 DEF Current, Ended
  <2>3. Places
    BY <2>1, <2>2, EmptyAreas DEF Places, DistinctAreas
  <2>4. Counted
    BY <2>1, FS_EmptySet DEF Counted
  <2>5. Search!Init
    BY <2>1, <2>2 DEF Search!Init
  <2>6. QED
    BY <2>3, <2>4, <2>5
<1>2. TypeOK /\ Places /\ Counted /\ [Next]_vars => [Search!Next]_(Search!vars)
  BY SimulationStep
<1>3. TypeOK /\ Places /\ Counted /\ [Next]_vars => Places' /\ Counted'
  BY PlacesStep, CountedStep
<1>4. QED
  BY <1>1, <1>2, <1>3, TypeCorrect, PTL DEF Spec, Search!SafeSpec

-----------------------------------------------------------------------------
(* The way to the end. *)

(* The stages of an iteration and of the run, the last ones lowest. *)
Stage ==
    CASE pc = "keywords" -> 7
      [] pc = "edit" -> 6
      [] pc = "push" -> 5
      [] pc = "head" -> 4
      [] pc = "work" -> 3
      [] pc = "record" -> 2
      [] pc = "finish" -> 1
      [] OTHER -> 0

IterationsLeft == IF iterations < MaxIterations THEN MaxIterations - iterations ELSE 0

(* Areas to consider, edits to act on, or directions to offer to the queue. *)
Todo ==
    CASE pc = "work" -> Len(rest)
      [] pc = "edit" -> Len(edits)
      [] pc = "push" -> Len(pending)
      [] OTHER -> 0

Countdown == <<IterationsLeft, <<Stage, Todo>>>>

CountdownType == IterationsLeft \in Nat /\ Stage \in Nat /\ Todo \in Nat

LEMMA CountdownParts == TypeOK => CountdownType
<1> SUFFICES ASSUME TypeOK PROVE CountdownType
  OBVIOUS
<1>1. /\ iterations \in Nat /\ rest \in Seq(Areas)
      /\ edits \in Seq(Edits) /\ pending \in Seq(Directions)
  BY DEF TypeOK
<1>2. IterationsLeft \in Nat
  BY <1>1, EditBounds DEF IterationsLeft
<1>3. Stage \in Nat
  BY DEF Stage
<1>4. Todo \in Nat
  BY <1>1, LenProperties DEF Todo
<1>5. QED
  BY <1>2, <1>3, <1>4 DEF CountdownType

(* What goes down when the engine takes a step. *)
Descends ==
    \/ IterationsLeft' < IterationsLeft
    \/ IterationsLeft' = IterationsLeft /\ Stage' < Stage
    \/ IterationsLeft' = IterationsLeft /\ Stage' = Stage /\ Todo' < Todo

(* The same iteration and a later stage. *)
LEMMA LaterStage ==
    ASSUME iterations' = iterations,
           \/ pc = "keywords" /\ pc' \in {"head", "done"}
           \/ pc = "head" /\ pc' \in {"work", "finish"}
           \/ pc = "work" /\ pc' \in {"record", "aborted"}
           \/ pc = "edit" /\ pc' \in {"push", "aborted"}
           \/ pc = "push" /\ pc' = "head"
           \/ pc = "finish" /\ pc' = "done"
    PROVE  Descends
<1>1. IterationsLeft' = IterationsLeft
  BY DEF IterationsLeft
<1>2. Stage' < Stage
  BY DEF Stage
<1>3. QED
  BY <1>1, <1>2 DEF Descends

(* The same stage and one thing less to do there. *)
LEMMA OneLess ==
    ASSUME iterations' = iterations, pc' = pc, NEW S,
           \/ pc = "work" /\ rest \in Seq(S) /\ rest # <<>> /\ rest' = Tail(rest)
           \/ pc = "edit" /\ edits \in Seq(S) /\ edits # <<>> /\ edits' = Tail(edits)
           \/ /\ pc = "push" /\ pending \in Seq(S) /\ pending # <<>>
              /\ pending' = Tail(pending)
    PROVE  Descends
<1>1. \A s \in Seq(S) : s # <<>> => Len(Tail(s)) = Len(s) - 1 /\ Len(s) \in Nat
  BY HeadTailProperties, LenProperties
<1>2. Todo' < Todo
  BY <1>1 DEF Todo
<1>3. IterationsLeft' = IterationsLeft /\ Stage' = Stage
  BY DEF IterationsLeft, Stage
<1>4. QED
  BY <1>2, <1>3 DEF Descends

(* A started task has room under the cap until it is recorded. *)
Room == pc \in {"work", "record"} => iterations < MaxIterations

LEMMA RoomStep ==
    ASSUME TypeOK, Room, [Next]_vars
    PROVE  Room'
<1> USE DEF queueVars, loopVars, resultVars, diskVars, Room
<1>1. CASE StartTask
  <2>1. iterations \in Nat /\ iterations' = iterations /\ ~(iterations >= MaxIterations)
    BY <1>1 DEF StartTask, TypeOK, CapReached
  <2>2. QED
    BY <2>1, EditBounds
<1>2. CASE ScanFindsNothing \/ ModelFails \/ ModelAnswers
  <2>1. PICK sub : Considered(sub)
    BY <1>2 DEF ScanFindsNothing, ModelFails, ModelAnswers
  <2>2. QED
    BY <2>1 DEF Considered
<1>3. CASE NothingMatches \/ SeedProbe \/ QueueDrained \/ OutOfIterations \/ OutOfTime
  BY <1>3 DEF NothingMatches, SeedProbe, QueueDrained, OutOfIterations, OutOfTime, LeaveLoop
<1>4. CASE PromptNotSerializable \/ PathCheckThrows
  BY <1>4 DEF PromptNotSerializable, PathCheckThrows, Abort
<1>5. CASE Record
  BY <1>5, RecordEnds
<1>6. CASE OneEdit
  <2>1. PICK kind \in Kinds : Listed(kind)
    BY <1>6, OneEditKinds
  <2>2. QED
    BY <2>1 DEF Listed
<1>7. CASE EditsDone \/ PushDirection \/ DirectionsPushed \/ Finish
  BY <1>7 DEF EditsDone, PushDirection, DirectionsPushed, Finish
<1>8. CASE UNCHANGED vars
  BY <1>8 DEF vars
<1>9. QED
  BY <1>1, <1>2, <1>3, <1>4, <1>5, <1>6, <1>7, <1>8 DEF Next, OneEdit

LEMMA EngineDescends ==
    ASSUME TypeOK, Room, Next
    PROVE  Descends
<1> USE DEF queueVars, loopVars, resultVars, diskVars
<1>1. CASE NothingMatches \/ SeedProbe
  BY <1>1, LaterStage DEF NothingMatches, SeedProbe
<1>2. CASE QueueDrained \/ OutOfIterations \/ OutOfTime \/ StartTask
  BY <1>2, LaterStage DEF QueueDrained, OutOfIterations, OutOfTime, LeaveLoop, StartTask
<1>3. CASE ScanFindsNothing \/ ModelFails \/ ModelAnswers
  <2>1. PICK sub : Considered(sub)
    BY <1>3 DEF ScanFindsNothing, ModelFails, ModelAnswers
  <2>2. /\ pc = "work" /\ rest # <<>> /\ rest \in Seq(Areas)
        /\ rest' = Tail(rest) /\ iterations' = iterations
        /\ pc' \in {"record", "work"}
    BY <2>1 DEF TypeOK, Considered
  <2>3. CASE pc' = "record"
    BY <2>2, <2>3, LaterStage
  <2>4. CASE pc' = "work"
    BY <2>2, <2>4, OneLess
  <2>5. QED
    BY <2>2, <2>3, <2>4
<1>4. CASE PromptNotSerializable \/ PathCheckThrows
  BY <1>4, LaterStage DEF PromptNotSerializable, PathCheckThrows, Abort
<1>5. CASE Record
  <2>1. iterations' = iterations + 1 /\ iterations < MaxIterations /\ iterations \in Nat
    BY <1>5, RecordEnds DEF Room, TypeOK
  <2>2. IterationsLeft' < IterationsLeft
    BY <2>1, EditBounds DEF IterationsLeft
  <2>3. QED
    BY <2>2 DEF Descends
<1>6. CASE OneEdit
  <2>1. PICK kind \in Kinds : Listed(kind)
    BY <1>6, OneEditKinds
  <2>2. /\ pc = "edit" /\ pc' = pc /\ iterations' = iterations
        /\ edits \in Seq(Edits) /\ edits # <<>> /\ edits' = Tail(edits)
    BY <2>1 DEF Listed, AfterEdit, TypeOK
  <2>3. QED
    BY <2>2, OneLess
<1>7. CASE EditsDone
  BY <1>7, LaterStage DEF EditsDone
<1>8. CASE PushDirection
  <2>1. /\ pc = "push" /\ pc' = pc /\ iterations' = iterations
        /\ pending \in Seq(Directions) /\ pending # <<>> /\ pending' = Tail(pending)
    BY <1>8 DEF PushDirection, AfterPush, TypeOK
  <2>2. QED
    BY <2>1, OneLess
<1>9. CASE DirectionsPushed
  BY <1>9, LaterStage DEF DirectionsPushed
<1>10. CASE Finish
  BY <1>10, LaterStage DEF Finish
<1>11. QED
  BY <1>1, <1>2, <1>3, <1>4, <1>5, <1>6, <1>7, <1>8, <1>9, <1>10 DEF Next, OneEdit

(* Each step of an editing run takes it down an order without infinite      *)
(* descent: however many edits and directions the model lists and whichever *)
(* of them fail, the run takes finitely many steps (EditEngine.cpp:121-268).*)
THEOREM EditingCountsDown ==
    /\ IsWellFoundedOn(Below, Countdowns)
    /\ Spec => /\ [](Countdown \in Countdowns)
               /\ [][Next => <<Countdown', Countdown>> \in Below]_vars
<1>1. TypeOK => Countdown \in Countdowns
  BY CountdownParts DEF CountdownType, Countdown, Countdowns
<1>2. TypeOK' => CountdownType'
  BY CountdownParts, PTL
<1>3. ASSUME TypeOK, TypeOK', Room, Next
      PROVE  <<Countdown', Countdown>> \in Below
  <2>1. /\ IterationsLeft \in Nat /\ Stage \in Nat /\ Todo \in Nat
        /\ IterationsLeft' \in Nat /\ Stage' \in Nat /\ Todo' \in Nat
    BY <1>2, <1>3, CountdownParts DEF CountdownType
  <2>2. Descends
    BY <1>3, EngineDescends
  <2>3. QED
    BY <2>1, <2>2, CountsDown DEF Countdown, Descends
<1>4. Init => Room
  BY DEF Init, Room
<1>5. TypeOK /\ Room /\ [Next]_vars => Room'
  BY RoomStep
<1>6. Spec => /\ [](Countdown \in Countdowns)
              /\ [][Next => <<Countdown', Countdown>> \in Below]_vars
  BY <1>1, <1>3, <1>4, <1>5, TypeCorrect, PTL DEF Spec
<1>7. QED
  BY <1>6, NoEndlessCountdown
=============================================================================
