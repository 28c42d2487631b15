------------------------ MODULE ResearchEngineProofs ------------------------
(***************************************************************************)
(* Theorems about ResearchEngine for every value of its constants, in this  *)
(* order: types; the places of an area; the leads; the iterations; the      *)
(* abstract search; the reason a run ends with; the order of the search;    *)
(* its scans; the tree of its tasks; its way to the end.                    *)
(***************************************************************************)
EXTENDS ResearchEngine, TaskQueueProofs, FiniteSetTheorems

-----------------------------------------------------------------------------
(* Type correctness. *)

(* The bounds are numbers. *)
LEMMA Bounds ==
    /\ MaxIterations \in Int /\ MaxWallClock \in Int
    /\ MaxSeeds \in Nat /\ MaxDirections \in Nat /\ MaxKeep \in Nat
    /\ Horizon \in Nat
    /\ SizeModulus \in Nat /\ SizeModulus > 0
  BY BoundAssumption

(* What one investigated area contributes has the type of a finding. *)
LEMMA MergeType ==
    ASSUME NEW m \in Findings, NEW s \in Findings
    PROVE  Merge(m, s) \in Findings
<1>1. m.dirs \o s.dirs \in Seq(Directions)
  BY ConcatProperties DEF Findings
<1>2. QED
  BY <1>1 DEF Merge, Findings, Outcomes, Summaries

LEMMA NoFindingType == NoFinding \in Findings
<1>1. <<>> \in Seq(Directions)
  BY EmptySeq
<1>2. QED
  BY <1>1 DEF NoFinding, Findings, Outcomes, Summaries

(* A probe's targets are a sequence of files. *)
LEMMA SeedListType ==
    ASSUME NEW targets \in SeedLists
    PROVE  targets \in Seq(Files) /\ SeedTask(targets) \in Tasks
<1>1. PICK n \in 1..MaxSeeds : targets \in [1..n -> Files]
  BY DEF SeedLists
<1>2. targets \in Seq(Files)
  BY <1>1, IsASeq, Bounds
<1>3. QED
  BY <1>2, EngineAssumption DEF SeedTask, Tasks

LEMMA NoTaskType == NoTask \in Tasks
<1>1. <<>> \in Seq(Files)
  BY EmptySeq
<1>2. QED
  BY <1>1, EngineAssumption DEF NoTask, SeedTask, Tasks

(* The areas of a task: at least one, each of them an area. *)
LEMMA SubAreasType ==
    ASSUME NEW t \in Tasks
    PROVE  SubAreas(t) \in Seq(Areas) /\ SubAreas(t) # <<>>
<1>1. t.targets \in Seq(Files) /\ t.targetArea \in Areas
  BY DEF Tasks
<1>2. t.targets \in Seq(Areas)
  BY <1>1, EngineAssumption, SeqMonotonic
<1>3. <<t.targetArea>> \in Seq(Areas) /\ <<t.targetArea>> # <<>>
  BY <1>1
<1>4. QED
  BY <1>2, <1>3 DEF SubAreas

LEMMA DirectionTaskType ==
    ASSUME TypeOK, NEW d \in Directions
    PROVE  DirectionTask(d) \in Tasks
<1>1. task.id \in Nat /\ task.depth \in Nat
  BY DEF TypeOK, Tasks
<1>2. <<>> \in Seq(Files)
  BY EmptySeq
<1>3. QED
  BY <1>1, <1>2 DEF DirectionTask, Directions, Tasks

(* Push and Pop keep the queue's types. *)
LEMMA PushType ==
    ASSUME TypeOK, NEW t \in Tasks, Push(t)
    PROVE  /\ queue' \in Seq(Tasks)
           /\ queuedAreas' \subseteq Areas
           /\ visited' \subseteq Areas
<1>1. t.targetArea \in Areas
  BY DEF Tasks
<1>2. Append(queue, t) \in Seq(Tasks)
  BY AppendProperties DEF TypeOK
<1>3. QED
  BY <1>1, <1>2 DEF TypeOK, Push, Enqueue, queueVars

(* A step of the worker whose finding has the right type keeps every type   *)
(* but that of the counter, which it leaves to its caller.                  *)
LEMMA InvestigatedType ==
    ASSUME TypeOK, NEW sub \in Findings, Investigated(sub), counter' \in Nat
    PROVE  TypeOK'
<1>1. rest # <<>> /\ rest \in Seq(Areas)
  BY DEF TypeOK, Investigated
<1>2. /\ Head(rest) \in Areas
      /\ Tail(rest) \in Seq(Areas)
      /\ Len(Tail(rest)) = Len(rest) - 1
      /\ Len(rest) \in Nat
  BY <1>1, HeadTailProperties, LenProperties
<1>3. rest' \in Seq(Areas) /\ (pc' = "work" => rest' # <<>>)
  <2>1. rest' = Tail(rest) /\ (pc' = "work" => Len(rest) # 1)
    BY DEF Investigated
  <2>2. Len(rest) # 1 => Tail(rest) # <<>>
    <3>1. Tail(rest) = <<>> <=> Len(Tail(rest)) = 0
      BY <1>2, EmptySeq
    <3>2. QED
      BY <1>2, <3>1
  <2>3. QED
    BY <1>2, <2>1, <2>2
<1>4. finding' \in Findings
  BY MergeType DEF Investigated, TypeOK
<1>5. scans' \in [Areas -> Nat]
  <2>1. scans \in [Areas -> Nat] /\ scans' = [scans EXCEPT ![Head(rest)] = @ + 1]
    BY DEF Investigated, TypeOK
  <2>2. scans[Head(rest)] + 1 \in Nat
    BY <1>2, <2>1
  <2>3. QED
    BY <1>2, <2>1, <2>2
<1>6. QED
  BY <1>3, <1>4, <1>5 DEF TypeOK, Investigated, queueVars, resultVars

LEMMA ModelAnswersType ==
    ASSUME TypeOK, ModelAnswers
    PROVE  TypeOK'
<1>1. PICK minted \in 0..MaxDirections, n \in 0..MaxDirections :
       \E areas \in [1..n -> Areas], number \in Kept(n, minted),
          outcome \in Outcomes, summary \in {"text", "empty"} :
          /\ Investigated([outcome |-> outcome, summary |-> summary,
                           dirs |-> [i \in 1..n |-> [id |-> counter + number[i],
                                                     targetArea |-> areas[i]]]])
          /\ counter' = counter + minted
  <2>1. \A minted \in 0..MaxDirections : 0..minted \subseteq 0..MaxDirections
    BY Bounds
  <2>2. QED
    BY <2>1 DEF ModelAnswers
<1>2. PICK areas \in [1..n -> Areas], number \in Kept(n, minted),
           outcome \in Outcomes, summary \in {"text", "empty"} :
          /\ Investigated([outcome |-> outcome, summary |-> summary,
                           dirs |-> [i \in 1..n |-> [id |-> counter + number[i],
                                                     targetArea |-> areas[i]]]])
          /\ counter' = counter + minted
  BY <1>1
<1> DEFINE dirs == [i \in 1..n |-> [id |-> counter + number[i], targetArea |-> areas[i]]]
           sub == [outcome |-> outcome, summary |-> summary, dirs |-> dirs]
<1>3. n \in Nat /\ minted \in Nat /\ counter \in Nat
  <2>1. counter \in Nat
    BY DEF TypeOK
  <2>2. QED
    BY <2>1, Bounds
<1>4. number \in [1..n -> 1..minted]
  BY DEF Kept
<1>5. dirs \in [1..n -> Directions]
  <2>1. \A i \in 1..n : number[i] \in 1..minted /\ areas[i] \in Areas
    BY <1>4
  <2>2. \A i \in 1..n : counter + number[i] \in Nat
    BY <2>1, <1>3
  <2>3. QED
    BY <2>1, <2>2 DEF Directions
<1>6. dirs \in Seq(Directions)
  <2> HIDE DEF dirs
  <2> QED BY <1>3, <1>5, IsASeq
<1>7. sub \in Findings
  <2> HIDE DEF dirs
  <2> QED BY <1>6 DEF Findings, Summaries
<1>8. Investigated(sub)
  BY <1>2
<1>9. counter' \in Nat
  BY <1>2, <1>3
<1> HIDE DEF sub
<1>10. QED
  BY <1>7, <1>8, <1>9, InvestigatedType

LEMMA JudgePrunesType ==
    ASSUME TypeOK, JudgePrunes
    PROVE  TypeOK'
<1>1. PICK k \in 0..MaxKeep, summary \in Summaries :
       \E index \in [1..k -> DOMAIN finding.dirs] :
          /\ finding' = [outcome |-> IF finding.outcome = "partial" /\ summary # "text" /\ k = 0
                                     THEN "none" ELSE finding.outcome,
                         summary |-> summary,
                         dirs    |-> [j \in 1..k |-> finding.dirs[index[j]]]]
          /\ rejected' = (Len(finding.dirs) - k) % SizeModulus
  BY DEF JudgePrunes
<1>2. PICK index \in [1..k -> DOMAIN finding.dirs] :
          /\ finding' = [outcome |-> IF finding.outcome = "partial" /\ summary # "text" /\ k = 0
                                     THEN "none" ELSE finding.outcome,
                         summary |-> summary,
                         dirs    |-> [j \in 1..k |-> finding.dirs[index[j]]]]
          /\ rejected' = (Len(finding.dirs) - k) % SizeModulus
  BY <1>1
<1> DEFINE kept == [j \in 1..k |-> finding.dirs[index[j]]]
<1>3. k \in Nat
  BY Bounds
<1>4. finding.dirs \in Seq(Directions) /\ finding.outcome \in Outcomes
  BY DEF TypeOK, Findings
<1>5. kept \in [1..k -> Directions]
  <2>1. \A i \in DOMAIN finding.dirs : finding.dirs[i] \in Directions
    BY <1>4, ElementOfSeq, LenProperties
  <2>2. QED
    BY <2>1
<1>6. kept \in Seq(Directions)
  <2> HIDE DEF kept
  <2> QED BY <1>3, <1>5, IsASeq
<1>7. finding' \in Findings
  <2>1. finding' = [outcome |-> IF finding.outcome = "partial" /\ summary # "text" /\ k = 0
                                THEN "none" ELSE finding.outcome,
                    summary |-> summary, dirs |-> kept]
    BY <1>2
  <2> HIDE DEF kept
  <2> QED BY <2>1, <1>4, <1>6 DEF Findings, Outcomes
<1>8. rejected' \in Nat /\ rejected' < SizeModulus
  <2>1. Len(finding.dirs) \in Nat
    BY <1>4, LenProperties
  <2>2. \A x \in Int : x % SizeModulus \in Nat /\ x % SizeModulus < SizeModulus
    BY Bounds
  <2>3. Len(finding.dirs) - k \in Int
    BY <1>3, <2>1
  <2>4. QED
    BY <1>2, <2>2, <2>3
<1>9. QED
  BY <1>7, <1>8 DEF TypeOK, JudgePrunes, queueVars, resultVars, historyVars

LEMMA CountIterationType ==
    ASSUME TypeOK, CountIteration
    PROVE  /\ queue' \in Seq(Tasks)
           /\ queuedAreas' \subseteq Areas
           /\ visited' \subseteq Areas
           /\ iterations' \in Nat
           /\ finding' \in Findings
           /\ rejected' \in Nat /\ rejected' < SizeModulus
<1>1. task.targetArea \in Areas
  BY DEF TypeOK, Tasks
<1>2. /\ rejected' \in Nat /\ rejected' < SizeModulus
      /\ iterations' \in Nat
  <2>1. iterations \in Nat
    BY DEF TypeOK
  <2>2. iterations' = iterations + 1 /\ rejected' = 0
    BY DEF CountIteration
  <2>3. QED
    BY <2>1, <2>2, Bounds
<1>3. QED
  BY <1>1, <1>2, NoFindingType DEF TypeOK, CountIteration, MarkVisited

LEMMA TypeStep ==
    ASSUME TypeOK, [Next]_vars
    PROVE  TypeOK'
<1> USE DEF queueVars, loopVars, resultVars, historyVars
<1>1. CASE NothingMatches
  BY <1>1 DEF TypeOK, NothingMatches
<1>2. CASE SeedProbe
  <2>1. PICK targets \in SeedLists : /\ Push(SeedTask(targets))
                                     /\ announced' = {SeedTask(targets)}
    BY <1>2 DEF SeedProbe
  <2>2. SeedTask(targets) \in Tasks
    BY SeedListType
  <2>3. /\ queue' \in Seq(Tasks)
        /\ queuedAreas' \subseteq Areas
        /\ visited' \subseteq Areas
    BY <2>1, <2>2, PushType
  <2>4. QED
    BY <1>2, <2>1, <2>2, <2>3 DEF TypeOK, SeedProbe
<1>3. CASE QueueDrained
  BY <1>3 DEF TypeOK, QueueDrained
<1>4. CASE OutOfIterations
  BY <1>4 DEF TypeOK, OutOfIterations
<1>5. CASE OutOfTime
  BY <1>5 DEF TypeOK, OutOfTime
<1>6. CASE StartTask
  <2>1. Head(queue) \in Tasks /\ Tail(queue) \in Seq(Tasks)
    BY <1>6, HeadTailProperties DEF TypeOK, StartTask, Pop
  <2>2. SubAreas(Head(queue)) \in Seq(Areas) /\ SubAreas(Head(queue)) # <<>>
    BY <2>1, SubAreasType
  <2>3. QED
    BY <1>6, <2>1, <2>2 DEF TypeOK, StartTask, Pop
<1>7. CASE ScanFindsNothing
  BY <1>7, NoFindingType, InvestigatedType DEF ScanFindsNothing, TypeOK
<1>8. CASE ModelFails
  BY <1>8, NoFindingType, InvestigatedType DEF ModelFails, TypeOK
<1>9. CASE ModelAnswers
  BY <1>9, ModelAnswersType
<1>10. CASE PromptNotSerializable
  <2>1. Head(rest) \in Areas
    BY <1>10, EngineAssumption DEF PromptNotSerializable
  <2>2. scans' \in [Areas -> Nat]
    <3>1. scans \in [Areas -> Nat] /\ scans' = [scans EXCEPT ![Head(rest)] = @ + 1]
      BY <1>10 DEF PromptNotSerializable, TypeOK
    <3>2. scans[Head(rest)] + 1 \in Nat
      BY <2>1, <3>1
    <3>3. QED
      BY <2>1, <3>1, <3>2
  <2>3. QED
    BY <1>10, <2>2 DEF TypeOK, PromptNotSerializable
<1>11. CASE JudgePasses
  BY <1>11, Bounds DEF TypeOK, JudgePasses
<1>12. CASE JudgePrunes
  BY <1>12, JudgePrunesType
<1>13. CASE RecordSuccess
  <2>1. Append(successes, finding.summary) \in Seq(Summaries)
    BY AppendProperties DEF TypeOK, Findings
  <2>2. QED
    BY <1>13, <2>1, CountIterationType, NoTaskType
       DEF TypeOK, RecordSuccess, CountIteration, EndIteration
<1>14. CASE RecordPartial
  <2>1. finding.dirs \in Seq(Directions)
    BY DEF TypeOK, Findings
  <2>2. AreasOf(finding.dirs) \subseteq Areas
    <3>1. \A i \in DOMAIN finding.dirs : finding.dirs[i] \in Directions
      BY <2>1, ElementOfSeq, LenProperties
    <3>2. QED
      BY <3>1 DEF AreasOf, Directions
  <2>3. QED
    BY <1>14, <2>1, <2>2, CountIterationType DEF TypeOK, RecordPartial, CountIteration
<1>15. CASE RecordNothing
  BY <1>15, CountIterationType, NoTaskType
     DEF TypeOK, RecordNothing, CountIteration, EndIteration
<1>16. CASE PushDirection
  <2> DEFINE t == DirectionTask(Head(pending))
  <2>1. Head(pending) \in Directions /\ Tail(pending) \in Seq(Directions)
    BY <1>16, HeadTailProperties DEF TypeOK, PushDirection
  <2>2. t \in Tasks
    BY <2>1, DirectionTaskType
  <2>3. /\ Push(t)
        /\ announced' = announced \cup (IF Accepts(t) THEN {t} ELSE {})
        /\ pending' = Tail(pending)
    BY <1>16 DEF PushDirection, AfterPush
  <2> HIDE DEF t
  <2>4. /\ queue' \in Seq(Tasks)
        /\ queuedAreas' \subseteq Areas
        /\ visited' \subseteq Areas
    BY <2>2, <2>3, PushType
  <2>5. announced' \subseteq Tasks
    BY <2>2, <2>3 DEF TypeOK
  <2>6. QED
    BY <1>16, <2>1, <2>3, <2>4, <2>5 DEF TypeOK, PushDirection
<1>17. CASE DirectionsPushed
  BY <1>17, NoTaskType DEF TypeOK, DirectionsPushed, EndIteration
<1>18. CASE Finish
  BY <1>18 DEF TypeOK, Finish, DrainReason
<1>19. CASE Tick
  <2>1. clock' \in Nat /\ clock' <= Horizon
    <3>1. clock \in Nat
      BY DEF TypeOK
    <3>2. clock < Horizon /\ clock' = clock + 1
      BY <1>19 DEF Tick
    <3>3. QED
      BY <3>1, <3>2, Bounds
  <2>2. QED
    BY <1>19, <2>1 DEF TypeOK, Tick
<1>20. CASE UNCHANGED vars
  BY <1>20 DEF TypeOK, vars
<1>21. QED
  BY <1>1, <1>2, <1>3, <1>4, <1>5, <1>6, <1>7, <1>8, <1>9, <1>10, <1>11, <1>12,
     <1>13, <1>14, <1>15, <1>16, <1>17, <1>18, <1>19, <1>20 DEF Next, EngineStep

(* Every reachable state is well typed, and the worker is never started on  *)
(* an empty list of areas.                                                  *)
THEOREM TypeCorrect == Spec => []TypeOK
<1>1. Init => TypeOK
  <2>1. [a \in Areas |-> 0] \in [Areas -> Nat]
    OBVIOUS
  <2>2. /\ <<>> \in Seq(Tasks)
        /\ <<>> \in Seq(Areas)
        /\ <<>> \in Seq(Directions)
        /\ <<>> \in Seq(Summaries)
    BY EmptySeq
  <2>3. 0 \in Nat /\ 0 < SizeModulus /\ 0 <= Horizon
    BY Bounds
  <2>4. QED
    BY <2>1, <2>2, <2>3, NoTaskType, NoFindingType DEF Init, InitQueue, TypeOK
<1>2. TypeOK /\ [Next]_vars => TypeOK'
  BY TypeStep
<1>3. QED
  BY <1>1, <1>2, PTL DEF Spec

-----------------------------------------------------------------------------
(* The queue and the places of an area. *)

(* A step that leaves the queue, the visited areas, the area worked on, the *)
(* count of iterations and what was announced or found to lead on alone.    *)
Quiet ==
    /\ UNCHANGED queueVars
    /\ Current' = Current
    /\ iterations' = iterations
    /\ UNCHANGED <<announced, leads>>

Record == RecordSuccess \/ RecordPartial \/ RecordNothing

(* Only four kinds of step are not quiet. *)
LEMMA SearchSteps ==
    ASSUME TypeOK, [Next]_vars
    PROVE  Quiet \/ SeedProbe \/ StartTask \/ Record \/ PushDirection
<1> USE DEF queueVars, loopVars, resultVars, historyVars, Quiet, Current
<1>1. CASE NothingMatches
  BY <1>1 DEF NothingMatches
<1>2. CASE QueueDrained
  BY <1>2 DEF QueueDrained
<1>3. CASE OutOfIterations
  BY <1>3 DEF OutOfIterations
<1>4. CASE OutOfTime
  BY <1>4 DEF OutOfTime
<1>5. CASE ScanFindsNothing \/ ModelFails \/ ModelAnswers
  <2>1. CASE ScanFindsNothing \/ ModelFails
    BY <2>1 DEF ScanFindsNothing, ModelFails, Investigated
  <2>2. CASE ModelAnswers
    BY <2>2 DEF ModelAnswers, Investigated
  <2>3. QED
    BY <1>5, <2>1, <2>2
<1>6. CASE PromptNotSerializable
  BY <1>6 DEF PromptNotSerializable
<1>7. CASE JudgePasses
  BY <1>7 DEF JudgePasses
<1>8. CASE JudgePrunes
  BY <1>8 DEF JudgePrunes
<1>9. CASE Record
  BY <1>9
<1>10. CASE DirectionsPushed
  BY <1>10 DEF DirectionsPushed, EndIteration
<1>11. CASE Finish
  BY <1>11 DEF Finish
<1>12. CASE Tick
  BY <1>12 DEF Tick
<1>13. CASE UNCHANGED vars
  BY <1>13 DEF vars
<1>14. QED
  BY <1>1, <1>2, <1>3, <1>4, <1>5, <1>6, <1>7, <1>8, <1>9, <1>10, <1>11, <1>12,
     <1>13 DEF Next, EngineStep, Record

(* A recorded iteration has put its area among the visited ones. *)
LEMMA RecordEnds ==
    ASSUME Record
    PROVE  /\ CountIteration
           /\ visited' = visited \cup {task.targetArea}
           /\ UNCHANGED <<queue, queuedAreas>>
           /\ Current' = {}
           /\ Current = {task.targetArea}
           /\ iterations' = iterations + 1
<1>1. CountIteration /\ pc' \in {"head", "push"}
  BY DEF Record, RecordSuccess, RecordPartial, RecordNothing, EndIteration
<1>2. QED
  BY <1>1 DEF CountIteration, MarkVisited, Current

(* Push keeps every area in one place, as long as nothing is worked on. *)
LEMMA PushOnePlace ==
    ASSUME TypeOK, OnePlace, NEW t \in Tasks, Push(t), Current = {}, Current' = {}
    PROVE  OnePlace'
<1>1. CASE Enqueue(t)
  <2>1. /\ t.targetArea \notin visited \cup queuedAreas
        /\ queue' = Append(queue, t)
        /\ queuedAreas' = queuedAreas \cup {t.targetArea}
        /\ visited' = visited
    BY <1>1 DEF Enqueue, Accepts
  <2>2. queue \in Seq(Tasks) /\ DistinctAreas(queue) /\ queuedAreas = AreasOf(queue)
    BY DEF TypeOK, OnePlace, DistinctAreas
  <2>3. AreasOf(queue') = queuedAreas'
    BY <2>1, <2>2, AreasOfAppend
  <2>4. DistinctAreas(queue')
    BY <2>1, <2>2, DistinctAppend
  <2>5. queuedAreas' \cap visited' = {}
    BY <2>1 DEF OnePlace
  <2>6. QED
    BY <2>3, <2>4, <2>5 DEF OnePlace, DistinctAreas
<1>2. CASE ~Accepts(t) /\ UNCHANGED queueVars
  BY <1>2 DEF OnePlace, queueVars, AreasOf
<1>3. QED
  BY <1>1, <1>2 DEF Push

LEMMA OnePlaceStep ==
    ASSUME TypeOK, OnePlace, [Next]_vars
    PROVE  OnePlace'
<1>1. CASE Quiet
  BY <1>1 DEF OnePlace, Quiet, queueVars, AreasOf
<1>2. CASE SeedProbe
  <2>1. PICK targets \in SeedLists : Push(SeedTask(targets))
    BY <1>2 DEF SeedProbe
  <2>2. SeedTask(targets) \in Tasks
    BY SeedListType
  <2>3. Current = {} /\ Current' = {}
    BY <1>2 DEF SeedProbe, Current
  <2>4. QED
    BY <2>1, <2>2, <2>3, PushOnePlace
<1>3. CASE StartTask
  <2>1. /\ queue # <<>>
        /\ queue' = Tail(queue)
        /\ queuedAreas' = queuedAreas \ {Head(queue).targetArea}
        /\ visited' = visited
        /\ Current' = {Head(queue).targetArea}
    BY <1>3 DEF StartTask, Pop, Current
  <2>2. queue \in Seq(Tasks) /\ DistinctAreas(queue) /\ queuedAreas = AreasOf(queue)
    BY DEF TypeOK, OnePlace, DistinctAreas
  <2>3. /\ DistinctAreas(queue')
        /\ Head(queue).targetArea \notin AreasOf(queue')
    BY <2>1, <2>2, DistinctTail
  <2>4. AreasOf(queue) = {Head(queue).targetArea} \cup AreasOf(queue')
    BY <2>1, <2>2, AreasOfTail
  <2>5. queuedAreas' = AreasOf(queue')
    BY <2>1, <2>2, <2>3, <2>4
  <2>6. Head(queue).targetArea \notin visited
    BY <2>2, <2>4 DEF OnePlace
  <2>7. QED
    BY <2>1, <2>2, <2>3, <2>5, <2>6 DEF OnePlace, DistinctAreas
<1>4. CASE Record
  BY <1>4, RecordEnds DEF OnePlace, AreasOf
<1>5. CASE PushDirection
  <2> DEFINE t == DirectionTask(Head(pending))
  <2>1. Head(pending) \in Directions
    BY <1>5, HeadTailProperties DEF TypeOK, PushDirection
  <2>2. t \in Tasks
    BY <2>1, DirectionTaskType
  <2>3. Push(t) /\ Current = {} /\ Current' = {}
    BY <1>5 DEF PushDirection, Current
  <2> HIDE DEF t
  <2>4. QED
    BY <2>2, <2>3, PushOnePlace
<1>6. QED
  BY <1>1, <1>2, <1>3, <1>4, <1>5, SearchSteps

(* An area is queued once, worked on or visited, never two of these, and    *)
(* queuedAreas mirrors the queue, in every reachable state.                 *)
THEOREM AreasInOnePlace == Spec => []OnePlace
<1>1. Init => OnePlace
  BY EmptyAreas DEF Init, InitQueue, OnePlace, Current
<1>2. TypeOK /\ OnePlace /\ [Next]_vars => OnePlace'
  BY OnePlaceStep
<1>3. QED
  BY <1>1, <1>2, TypeCorrect, PTL DEF Spec

-----------------------------------------------------------------------------
(* Nothing announced is lost, and no lead is dropped. *)

(* NoTaskLost needs to know that the seed is the first announcement.        *)
Remembered ==
    /\ NoTaskLost
    /\ pc = "keywords" => announced = {}

(* A pushed task is announced if it was accepted, and then it is queued; a  *)
(* refused one was queued or visited already.                               *)
LEMMA PushTakes ==
    ASSUME NEW t, Push(t), Current = {}, Current' = {}
    PROVE  /\ Taken' = Taken \cup {t.targetArea}
           /\ ~Accepts(t) => t.targetArea \in Taken
<1>1. CASE Enqueue(t)
  BY <1>1 DEF Enqueue, Taken
<1>2. CASE ~Accepts(t) /\ UNCHANGED queueVars
  BY <1>2 DEF Accepts, Taken, queueVars
<1>3. QED
  BY <1>1, <1>2 DEF Push, Accepts, Taken

(* Starting a task and recording it only move its area. *)
LEMMA StartKeepsTaken ==
    ASSUME TypeOK, OnePlace, StartTask
    PROVE  Taken' = Taken
<1>1. /\ queue # <<>>
      /\ queuedAreas' = queuedAreas \ {Head(queue).targetArea}
      /\ visited' = visited
      /\ Current = {}
      /\ Current' = {Head(queue).targetArea}
  BY DEF StartTask, Pop, Current
<1>2. Head(queue).targetArea \in queuedAreas
  <2>1. queue \in Seq(Tasks) /\ queuedAreas = AreasOf(queue)
    BY DEF TypeOK, OnePlace
  <2>2. QED
    BY <1>1, <2>1, AreasOfTail
<1>3. QED
  BY <1>1, <1>2 DEF Taken

LEMMA RecordKeepsTaken ==
    ASSUME Record
    PROVE  Taken' = Taken
  BY RecordEnds DEF Taken

(* No step of the loop leads back to the keywords. *)
LEMMA KeywordsOnce ==
    ASSUME [Next]_vars, pc' = "keywords"
    PROVE  pc = "keywords" /\ announced' = announced
<1> USE DEF queueVars, loopVars, resultVars, historyVars
<1>1. CASE Tick \/ UNCHANGED vars
  BY <1>1 DEF Tick, vars
<1>2. CASE ScanFindsNothing \/ ModelFails \/ ModelAnswers
  BY <1>2 DEF ScanFindsNothing, ModelFails, ModelAnswers, Investigated
<1>3. CASE JudgePasses \/ JudgePrunes \/ Record
  BY <1>3 DEF JudgePasses, JudgePrunes, Record, RecordSuccess, RecordPartial, RecordNothing,
              EndIteration
<1>4. CASE NothingMatches \/ SeedProbe \/ QueueDrained \/ OutOfIterations \/ OutOfTime
           \/ StartTask
  BY <1>4 DEF NothingMatches, SeedProbe, QueueDrained, OutOfIterations, OutOfTime, StartTask
<1>5. CASE PromptNotSerializable \/ PushDirection \/ DirectionsPushed \/ Finish
  BY <1>5 DEF PromptNotSerializable, PushDirection, DirectionsPushed, EndIteration, Finish
<1>6. QED
  BY <1>1, <1>2, <1>3, <1>4, <1>5 DEF Next, EngineStep, Record

LEMMA NoTaskLostStep ==
    ASSUME TypeOK, OnePlace, Remembered, [Next]_vars
    PROVE  NoTaskLost'
<1> DEFINE areas == {t.targetArea : t \in announced}
<1>0. areas = Taken
  BY DEF Remembered, NoTaskLost
<1>1. CASE Quiet
  BY <1>0, <1>1 DEF Quiet, queueVars, NoTaskLost, Taken
<1>2. CASE SeedProbe
  <2>1. PICK targets \in SeedLists : /\ Push(SeedTask(targets))
                                     /\ announced' = {SeedTask(targets)}
    BY <1>2 DEF SeedProbe
  <2>2. Current = {} /\ Current' = {} /\ announced = {}
    BY <1>2 DEF SeedProbe, Current, Remembered
  <2>3. Taken' = Taken \cup {SeedTask(targets).targetArea}
    BY <2>1, <2>2, PushTakes
  <2>4. Taken = {}
    BY <1>0, <2>2
  <2>5. QED
    BY <2>1, <2>3, <2>4 DEF NoTaskLost
<1>3. CASE StartTask
  BY <1>0, <1>3, StartKeepsTaken DEF StartTask, historyVars, NoTaskLost
<1>4. CASE Record
  <2>1. announced' = announced
    BY <1>4, RecordEnds DEF CountIteration
  <2>2. QED
    BY <1>0, <1>4, <2>1, RecordKeepsTaken DEF NoTaskLost
<1>5. CASE PushDirection
  <2> DEFINE t == DirectionTask(Head(pending))
  <2>1. /\ Push(t) /\ Current = {} /\ Current' = {}
        /\ announced' = announced \cup (IF Accepts(t) THEN {t} ELSE {})
    BY <1>5 DEF PushDirection, Current
  <2> HIDE DEF t
  <2>2. Taken' = Taken \cup {t.targetArea} /\ (~Accepts(t) => t.targetArea \in Taken)
    BY <2>1, PushTakes
  <2>3. CASE Accepts(t)
    BY <1>0, <2>1, <2>2, <2>3 DEF NoTaskLost
  <2>4. CASE ~Accepts(t)
    BY <1>0, <2>1, <2>2, <2>4 DEF NoTaskLost
  <2>5. QED
    BY <2>3, <2>4
<1>6. QED
  BY <1>1, <1>2, <1>3, <1>4, <1>5, SearchSteps

(* Whatever the answers, an announced area is queued, worked on or visited, *)
(* and every such area was announced, in every reachable state.             *)
THEOREM NothingLost == Spec => []NoTaskLost
<1>1. Init => Remembered
  <2> SUFFICES ASSUME Init PROVE Remembered
    OBVIOUS
  <2>1. queuedAreas = {} /\ visited = {} /\ pc = "keywords" /\ announced = {}
    BY DEF Init, InitQueue
  <2>2. QED
    BY <2>1 DEF Remembered, NoTaskLost, Taken, Current
<1>2. TypeOK /\ OnePlace /\ Remembered /\ [Next]_vars => Remembered'
  <2> SUFFICES ASSUME TypeOK, OnePlace, Remembered, [Next]_vars
               PROVE  Remembered'
    OBVIOUS
  <2>1. NoTaskLost'
    BY NoTaskLostStep
  <2>2. pc' = "keywords" => announced' = {}
    BY KeywordsOnce DEF Remembered
  <2>3. QED
    BY <2>1, <2>2 DEF Remembered
<1>3. Remembered => NoTaskLost
  BY DEF Remembered
<1>4. QED
  BY <1>1, <1>2, <1>3, TypeCorrect, AreasInOnePlace, PTL DEF Spec

(* LeadsFollowed speaks of the reason; it holds because the queue and the   *)
(* pending directions are empty whenever "drained" can be the reason.       *)
Followed ==
    /\ LeadsFollowed
    /\ pc # "push" => pending = <<>>
    /\ pc \notin {"finish", "done", "aborted"} => reason = ""
    /\ pc = "finish" /\ reason = "" => queue = <<>>
    /\ reason \in {"drained", "drained without success"} => pc = "done"

(* The part of Followed that concerns one step of the program's control.    *)
LEMMA ControlStep ==
    ASSUME TypeOK, Followed, [Next]_vars
    PROVE  /\ pc' # "push" => pending' = <<>>
           /\ pc' \notin {"finish", "done", "aborted"} => reason' = ""
           /\ pc' = "finish" /\ reason' = "" => queue' = <<>>
           /\ reason' \in {"drained", "drained without success"} => pc' = "done"
<1> USE DEF queueVars, loopVars, resultVars, historyVars, Followed
<1>1. CASE Tick \/ UNCHANGED vars
  BY <1>1 DEF Tick, vars
<1>2. CASE ScanFindsNothing \/ ModelFails \/ ModelAnswers
  <2>1. /\ pc = "work" /\ pc' \in {"work", "judge"}
        /\ pending' = pending /\ reason' = reason
    BY <1>2 DEF ScanFindsNothing, ModelFails, ModelAnswers, Investigated
  <2>2. QED
    BY <2>1
<1>3. CASE JudgePasses \/ JudgePrunes
  BY <1>3 DEF JudgePasses, JudgePrunes
<1>4. CASE RecordSuccess \/ RecordNothing
  BY <1>4 DEF RecordSuccess, RecordNothing, CountIteration, EndIteration
<1>5. CASE RecordPartial
  BY <1>5 DEF RecordPartial, CountIteration
<1>6. CASE NothingMatches \/ SeedProbe
  BY <1>6 DEF NothingMatches, SeedProbe
<1>7. CASE QueueDrained \/ OutOfIterations \/ OutOfTime \/ StartTask
  BY <1>7 DEF QueueDrained, OutOfIterations, OutOfTime, StartTask
<1>8. CASE PromptNotSerializable \/ PushDirection \/ DirectionsPushed
  BY <1>8 DEF PromptNotSerializable, PushDirection, DirectionsPushed, EndIteration
<1>9. CASE Finish
  BY <1>9 DEF Finish
<1>10. QED
  BY <1>1, <1>2, <1>3, <1>4, <1>5, <1>6, <1>7, <1>8, <1>9 DEF Next, EngineStep

(* The directions pending change only when an iteration is recorded and     *)
(* when one of them is pushed.                                              *)
LEMMA QuietPending ==
    ASSUME [Next]_vars
    PROVE  pending' = pending \/ Record \/ PushDirection
<1> USE DEF queueVars, loopVars, resultVars, historyVars
<1>1. CASE Tick \/ UNCHANGED vars
  BY <1>1 DEF Tick, vars
<1>2. CASE ScanFindsNothing \/ ModelFails \/ ModelAnswers
  BY <1>2 DEF ScanFindsNothing, ModelFails, ModelAnswers, Investigated
<1>3. CASE JudgePasses \/ JudgePrunes
  BY <1>3 DEF JudgePasses, JudgePrunes
<1>4. CASE NothingMatches \/ SeedProbe \/ QueueDrained \/ OutOfIterations \/ OutOfTime
           \/ StartTask
  BY <1>4 DEF NothingMatches, SeedProbe, QueueDrained, OutOfIterations, OutOfTime, StartTask
<1>5. CASE PromptNotSerializable \/ DirectionsPushed \/ Finish
  BY <1>5 DEF PromptNotSerializable, DirectionsPushed, Finish
<1>6. QED
  BY <1>1, <1>2, <1>3, <1>4, <1>5 DEF Next, EngineStep, Record

LEMMA LeadsStep ==
    ASSUME TypeOK, OnePlace, Followed, [Next]_vars
    PROVE  leads' \subseteq Taken' \cup AreasOf(pending')
<1>0. leads \subseteq Taken \cup AreasOf(pending)
  BY DEF Followed, LeadsFollowed
<1>1. CASE Quiet /\ pending' = pending
  BY <1>0, <1>1 DEF Quiet, queueVars, Taken, AreasOf
<1>2. CASE SeedProbe
  <2>1. PICK targets \in SeedLists : Push(SeedTask(targets))
    BY <1>2 DEF SeedProbe
  <2>2. /\ Current = {} /\ Current' = {}
        /\ leads' = leads /\ AreasOf(pending') = AreasOf(pending)
    BY <1>2 DEF SeedProbe, Current, loopVars, AreasOf
  <2>3. Taken \subseteq Taken'
    BY <2>1, <2>2, PushTakes
  <2>4. QED
    BY <1>0, <2>2, <2>3
<1>3. CASE StartTask
  <2>1. leads' = leads /\ AreasOf(pending') = AreasOf(pending)
    BY <1>3 DEF StartTask, historyVars, AreasOf
  <2>2. QED
    BY <1>0, <1>3, <2>1, StartKeepsTaken
<1>4. CASE Record
  <2>1. AreasOf(pending) = {}
    BY <1>4, RecordEnds, EmptyAreas DEF Followed, CountIteration
  <2>2. leads' \subseteq leads \cup AreasOf(pending')
    BY <1>4 DEF Record, RecordSuccess, RecordPartial, RecordNothing, AreasOf
  <2>3. QED
    BY <1>0, <1>4, <2>1, <2>2, RecordKeepsTaken
<1>5. CASE PushDirection
  <2> DEFINE t == DirectionTask(Head(pending))
  <2>1. /\ Push(t) /\ Current = {} /\ Current' = {}
        /\ pending # <<>> /\ pending' = Tail(pending)
        /\ leads' = leads
    BY <1>5 DEF PushDirection, AfterPush, Current
  <2>2. t.targetArea = Head(pending).targetArea
    BY DEF DirectionTask
  <2> HIDE DEF t
  <2>3. Taken' = Taken \cup {Head(pending).targetArea}
    BY <2>1, <2>2, PushTakes
  <2>4. AreasOf(pending) = {Head(pending).targetArea} \cup AreasOf(pending')
    <3>1. pending \in Seq(Directions)
      BY DEF TypeOK
    <3>2. QED
      BY <2>1, <3>1, AreasOfTail
  <2>5. QED
    BY <1>0, <2>1, <2>3, <2>4
<1>6. QED
  BY <1>1, <1>2, <1>3, <1>4, <1>5, SearchSteps, QuietPending

LEMMA FollowedStep ==
    ASSUME TypeOK, OnePlace, Followed, [Next]_vars
    PROVE  Followed'
<1>1. leads' \subseteq Taken' \cup AreasOf(pending')
  BY LeadsStep
<1>2. reason' \in {"drained", "drained without success"} => leads' \subseteq visited'
  <2>1. CASE Finish
    <3>1. /\ pc = "finish"
          /\ leads' = leads /\ visited' = visited
          /\ reason # "" => reason' = reason
      BY <2>1 DEF Finish, queueVars, historyVars
    <3>2. CASE reason # ""
      BY <3>1, <3>2 DEF Followed
    <3>3. CASE reason = ""
      <4>1. queuedAreas = {} /\ Current = {} /\ AreasOf(pending) = {}
        BY <3>1, <3>3, EmptyAreas DEF Followed, OnePlace, Current
      <4>2. leads \subseteq visited
        BY <4>1 DEF Followed, LeadsFollowed, Taken
      <4>3. QED
        BY <3>1, <4>2
    <3>4. QED
      BY <3>2, <3>3
  <2>2. CASE ~Finish
    <3>1. reason' = reason \/ reason' \in {"no direction", "iterations", "wall clock"}
      BY <2>2 DEF Next, EngineStep, vars, resultVars, NothingMatches, SeedProbe, QueueDrained,
           OutOfIterations, OutOfTime, StartTask, ScanFindsNothing, ModelFails, ModelAnswers,
           Investigated, PromptNotSerializable, JudgePasses, JudgePrunes, RecordSuccess,
           RecordPartial, RecordNothing, CountIteration, PushDirection, DirectionsPushed, Tick
    <3>2. CASE reason' = reason /\ reason \in {"drained", "drained without success"}
      <4>1. pc = "done"
        BY <3>2 DEF Followed
      <4>2. leads' = leads /\ visited' = visited
        BY <4>1, SearchSteps, RecordEnds
           DEF Quiet, queueVars, SeedProbe, StartTask, CountIteration, PushDirection
      <4>3. QED
        BY <3>2, <4>2 DEF Followed, LeadsFollowed
    <3>3. QED
      BY <3>1, <3>2
  <2>3. QED
    BY <2>1, <2>2
<1>3. QED
  BY <1>1, <1>2, ControlStep DEF Followed, LeadsFollowed

(* Whatever the answers, no lead kept by the judge is dropped, and when the *)
(* queue drains every lead has been followed.                               *)
THEOREM EveryLeadFollowed == Spec => []LeadsFollowed
<1>1. Init => Followed
  <2> SUFFICES ASSUME Init PROVE Followed
    OBVIOUS
  <2>1. pc = "keywords" /\ pending = <<>> /\ reason = "" /\ leads = {}
    BY DEF Init
  <2>2. QED
    BY <2>1 DEF Followed, LeadsFollowed
<1>2. TypeOK /\ OnePlace /\ Followed /\ [Next]_vars => Followed'
  BY FollowedStep
<1>3. Followed => LeadsFollowed
  BY DEF Followed
<1>4. QED
  BY <1>1, <1>2, <1>3, TypeCorrect, AreasInOnePlace, PTL DEF Spec

-----------------------------------------------------------------------------
(* Iterations and visited areas. *)

(* OneVisitPerIteration is not inductive: a started task must still have    *)
(* room under the cap.                                                      *)
Counted ==
    /\ IsFiniteSet(visited)
    /\ OneVisitPerIteration
    /\ pc \in {"work", "judge", "record"} => iterations < MaxIterations

LEMMA InitCounted == Init => Counted
<1> SUFFICES ASSUME Init PROVE Counted
  OBVIOUS
<1>1. visited = {} /\ iterations = 0 /\ pc = "keywords"
  BY DEF Init, InitQueue
<1>2. IsFiniteSet({}) /\ Cardinality({}) = 0
  BY FS_EmptySet
<1>3. ~(0 > 0)
  OBVIOUS
<1>4. QED
  BY <1>1, <1>2, <1>3 DEF Counted, OneVisitPerIteration

LEMMA RoomForTask ==
    ASSUME TypeOK, Counted, [Next]_vars, pc' \in {"work", "judge", "record"}
    PROVE  iterations' < MaxIterations
<1> USE DEF queueVars, loopVars, resultVars, historyVars, Counted
<1>1. CASE StartTask
  <2>1. iterations \in Int /\ ~(iterations >= MaxIterations) /\ iterations' = iterations
    <3>1. iterations \in Int
      <4>1. iterations \in Nat
        BY DEF TypeOK
      <4>2. QED
        BY <4>1
    <3>2. ~CapReached /\ iterations' = iterations
      BY <1>1 DEF StartTask
    <3>3. QED
      BY <3>1, <3>2 DEF CapReached
  <2>2. QED
    BY <2>1, Bounds
<1>2. CASE ScanFindsNothing \/ ModelFails \/ ModelAnswers
  BY <1>2 DEF ScanFindsNothing, ModelFails, ModelAnswers, Investigated
<1>3. CASE JudgePasses \/ JudgePrunes
  BY <1>3 DEF JudgePasses, JudgePrunes
<1>4. CASE Tick
  BY <1>4 DEF Tick
<1>5. CASE UNCHANGED vars
  BY <1>5 DEF vars
<1>6. CASE NothingMatches \/ SeedProbe \/ QueueDrained \/ OutOfIterations \/ OutOfTime
           \/ PromptNotSerializable \/ PushDirection \/ DirectionsPushed \/ Finish
  BY <1>6 DEF NothingMatches, SeedProbe, QueueDrained, OutOfIterations, OutOfTime,
       PromptNotSerializable, PushDirection, DirectionsPushed, EndIteration, Finish
<1>7. CASE RecordSuccess \/ RecordPartial \/ RecordNothing
  BY <1>7 DEF RecordSuccess, RecordPartial, RecordNothing, EndIteration
<1>8. QED
  BY <1>1, <1>2, <1>3, <1>4, <1>5, <1>6, <1>7 DEF Next, EngineStep

LEMMA CountedStep ==
    ASSUME TypeOK, OnePlace, Counted, [Next]_vars
    PROVE  Counted'
<1>1. visited' = visited /\ iterations' = iterations => Counted'
  BY RoomForTask DEF Counted, OneVisitPerIteration
<1>2. CASE Quiet
  BY <1>1, <1>2 DEF Quiet, queueVars
<1>3. CASE SeedProbe
  BY <1>1, <1>3 DEF SeedProbe, Push, Enqueue, queueVars, resultVars
<1>4. CASE StartTask
  BY <1>1, <1>4 DEF StartTask, Pop, resultVars
<1>5. CASE PushDirection
  BY <1>1, <1>5 DEF PushDirection, Push, Enqueue, queueVars, resultVars
<1>6. CASE Record
  <2>1. /\ visited' = visited \cup {task.targetArea}
        /\ Current = {task.targetArea}
        /\ iterations' = iterations + 1
        /\ pc = "record"
    BY <1>6, RecordEnds DEF CountIteration
  <2>2. task.targetArea \notin visited
    BY <2>1 DEF OnePlace
  <2>3. IsFiniteSet(visited') /\ Cardinality(visited') = Cardinality(visited) + 1
    BY <2>1, <2>2, FS_AddElement DEF Counted
  <2>4. iterations < MaxIterations /\ iterations = Cardinality(visited) /\ iterations \in Nat
    BY <2>1 DEF Counted, OneVisitPerIteration, TypeOK
  <2>5. OneVisitPerIteration'
    BY <2>1, <2>3, <2>4, Bounds DEF OneVisitPerIteration
  <2>6. QED
    BY <2>3, <2>5, RoomForTask DEF Counted
<1>7. QED
  BY <1>2, <1>3, <1>4, <1>5, <1>6, SearchSteps

(* The iterations counted are the areas visited, and the cap holds, in      *)
(* every reachable state.                                                   *)
THEOREM VisitsCounted == Spec => []OneVisitPerIteration
<1>1. Init => Counted
  BY InitCounted
<1>2. TypeOK /\ OnePlace /\ Counted /\ [Next]_vars => Counted'
  BY CountedStep
<1>3. Counted => OneVisitPerIteration
  BY DEF Counted
<1>4. QED
  BY <1>1, <1>2, <1>3, TypeCorrect, AreasInOnePlace, PTL DEF Spec

-----------------------------------------------------------------------------
(* The engine's steps are steps of the abstract search. *)

LEMMA PushDiscovers ==
    ASSUME TypeOK, NEW t \in Tasks, Push(t), Current = {}, Current' = {},
           Ended = FALSE, Ended' = FALSE
    PROVE  [Search!Next]_(Search!vars)
<1>1. t.targetArea \in Areas
  BY DEF Tasks
<1>2. CASE Enqueue(t)
  <2>1. Search!Discover(t.targetArea)
    BY <1>2 DEF Enqueue, Accepts, Search!Discover
  <2>2. QED
    BY <1>1, <2>1 DEF Search!Next
<1>3. CASE UNCHANGED queueVars
  BY <1>3 DEF queueVars, Search!vars
<1>4. QED
  BY <1>2, <1>3 DEF Push

LEMMA SimulationStep ==
    ASSUME TypeOK, OnePlace, Counted, [Next]_vars
    PROVE  [Search!Next]_(Search!vars)
<1>1. Ended => UNCHANGED vars
  BY DEF Ended, Next, EngineStep, NothingMatches, SeedProbe, QueueDrained, OutOfIterations,
        OutOfTime, StartTask, ScanFindsNothing, ModelFails, ModelAnswers, Investigated,
        PromptNotSerializable, JudgePasses, JudgePrunes, RecordSuccess, RecordPartial,
        RecordNothing, CountIteration, PushDirection, DirectionsPushed, Finish, Tick
<1>2. CASE Quiet
  <2>1. CASE Ended' = Ended
    BY <1>2, <2>1 DEF Quiet, queueVars, Search!vars
  <2>2. CASE Ended' # Ended
    <3>1. ~Ended /\ Ended'
      BY <1>1, <2>2 DEF Ended, vars
    <3>2. Search!Stop
      BY <1>2, <3>1 DEF Quiet, queueVars, Search!Stop
    <3>3. QED
      BY <3>2 DEF Search!Next
  <2>3. QED
    BY <2>1, <2>2
<1>3. CASE SeedProbe
  <2>1. PICK targets \in SeedLists : Push(SeedTask(targets))
    BY <1>3 DEF SeedProbe
  <2>2. SeedTask(targets) \in Tasks
    BY SeedListType
  <2>3. Current = {} /\ Current' = {} /\ Ended = FALSE /\ Ended' = FALSE
    BY <1>3 DEF SeedProbe, Current, Ended
  <2>4. QED
    BY <2>1, <2>2, <2>3, PushDiscovers
<1>4. CASE StartTask
  <2>0. PICK a : a = Head(queue).targetArea
    OBVIOUS
  <2>1. /\ Current = {} /\ Current' = {a}
        /\ Ended = FALSE /\ Ended' = FALSE
        /\ queuedAreas' = queuedAreas \ {a}
        /\ visited' = visited
        /\ queue # <<>>
        /\ ~CapReached
    BY <1>4, <2>0 DEF StartTask, Pop, Current, Ended
  <2>2. a \in queuedAreas
    <3>1. queue \in Seq(Tasks) /\ queuedAreas = AreasOf(queue)
      BY DEF TypeOK, OnePlace
    <3>2. QED
      BY <2>0, <2>1, <3>1, AreasOfTail
  <2>3. a \in Areas
    BY <2>2 DEF TypeOK
  <2>4. Cardinality(visited) < MaxIterations
    <3>1. iterations = Cardinality(visited) /\ iterations \in Nat
      BY DEF Counted, OneVisitPerIteration, TypeOK
    <3>2. QED
      BY <2>1, <3>1, Bounds DEF CapReached
  <2>5. Search!Begin(a)
    <3>1. Search!Cardinality(visited) = Cardinality(visited)
      BY DEF Search!Cardinality, Cardinality
    <3>2. QED
      BY <2>1, <2>2, <2>4, <3>1 DEF Search!Begin
  <2>6. QED
    BY <2>3, <2>5 DEF Search!Next
<1>5. CASE Record
  <2>1. pc' \in {"head", "push"} /\ pc = "record"
    BY <1>5 DEF Record, RecordSuccess, RecordPartial, RecordNothing, EndIteration,
                CountIteration
  <2>2. Search!Complete
    BY <1>5, <2>1, RecordEnds DEF Search!Complete, Ended
  <2>3. QED
    BY <2>2 DEF Search!Next
<1>6. CASE PushDirection
  <2> DEFINE t == DirectionTask(Head(pending))
  <2>1. Head(pending) \in Directions
    BY <1>6, HeadTailProperties DEF TypeOK, PushDirection
  <2>2. t \in Tasks
    BY <2>1, DirectionTaskType
  <2>3. Push(t) /\ Current = {} /\ Current' = {} /\ Ended = FALSE /\ Ended' = FALSE
    BY <1>6 DEF PushDirection, Current, Ended
  <2> HIDE DEF t
  <2>4. QED
    BY <2>2, <2>3, PushDiscovers
<1>7. QED
  BY <1>2, <1>3, <1>4, <1>5, <1>6, SearchSteps

(* Whatever the constants, a run of the engine is a run of the abstract     *)
(* search with the queue as its frontier: no area is begun twice, none is   *)
(* begun that was not discovered, and at most MaxIterations are explored.   *)
(* (That it stops is left to TLC.)                                          *)
THEOREM EngineImplementsSearch == Spec => Search!SafeSpec
<1>1. Init => Search!Init
  <2> SUFFICES ASSUME Init PROVE Search!Init
    OBVIOUS
  <2>1. queuedAreas = {} /\ visited = {} /\ pc = "keywords"
    BY DEF Init, InitQueue
  <2>2. Current = {} /\ Ended = FALSE
    BY <2>1 DEF Current, Ended
  <2>3. QED
    BY <2>1, <2>2 DEF Search!Init
<1>2. TypeOK /\ OnePlace /\ Counted /\ [Next]_vars => [Search!Next]_(Search!vars)
  BY SimulationStep
<1>3. Init => Counted
  BY InitCounted
<1>4. TypeOK /\ OnePlace /\ Counted /\ [Next]_vars => Counted'
  BY CountedStep
<1>5. QED
  BY <1>1, <1>2, <1>3, <1>4, TypeCorrect, AreasInOnePlace, PTL DEF Spec, Search!SafeSpec

-----------------------------------------------------------------------------
(* The reason. *)

TimeUp == clock >= MaxWallClock

LEMMA RoomBelowCap ==
    ASSUME TypeOK, ~CapReached
    PROVE  iterations < MaxIterations
<1>1. iterations \in Nat /\ MaxIterations \in Int
  BY Bounds DEF TypeOK
<1>2. QED
  BY <1>1 DEF CapReached

LEMMA TimeStaysUp ==
    ASSUME TypeOK, TimeUp, Tick
    PROVE  TimeUp'
<1>1. clock \in Nat /\ MaxWallClock \in Int
  BY Bounds DEF TypeOK
<1>2. clock' = clock + 1 /\ clock >= MaxWallClock
  BY DEF Tick, TimeUp
<1>3. QED
  BY <1>1, <1>2 DEF TimeUp

(* The reason: one is given only on the way out of the loop, and the state  *)
(* that gave it is kept.                                                    *)
ReasonInv ==
    /\ pc = "keywords" => announced = {}
    /\ pc \notin {"finish", "done"} => reason = ""
    /\ pc = "finish" => reason \in {"", "iterations", "wall clock"}
    /\ pc = "finish" /\ reason = "" => queue = <<>>
    /\ pc = "done" =>
          /\ reason # ""
          /\ reason = "no direction" => announced = {}
          /\ reason = "drained" => queue = <<>> /\ successes # <<>>
          /\ reason = "drained without success" => queue = <<>> /\ successes = <<>>
    /\ reason = "iterations" => queue # <<>> /\ iterations >= MaxIterations
    /\ reason = "wall clock" => /\ queue # <<>>
                                /\ iterations < MaxIterations
                                /\ TimeUp

(* The verdict. *)
AnsweredInv ==
    /\ pc = "keywords" => successes = <<>>
    /\ pc = "done" => (answered <=> successes # <<>>)
    /\ pc # "done" => ~answered

LEMMA ReasonStep ==
    ASSUME TypeOK, ReasonInv, Next
    PROVE  ReasonInv'
<1> USE DEF queueVars, loopVars, resultVars, historyVars, ReasonInv
<1>0. iterations \in Nat /\ MaxIterations \in Int
  BY Bounds DEF TypeOK
<1>1. ASSUME pc \notin {"keywords", "finish", "done"}, pc' \notin {"keywords", "finish", "done"},
             reason' = reason
      PROVE  ReasonInv'
  BY <1>1
<1>2. CASE NothingMatches
  BY <1>2 DEF NothingMatches
<1>3. CASE SeedProbe
  BY <1>3 DEF SeedProbe
<1>4. CASE QueueDrained
  BY <1>4 DEF QueueDrained
<1>5. CASE OutOfIterations
  BY <1>0, <1>5 DEF OutOfIterations, CapReached
<1>6. CASE OutOfTime
  <2>1. TimeUp'
    BY <1>6 DEF OutOfTime, TimeUp
  <2>2. /\ pc' = "finish" /\ reason' = "wall clock"
        /\ queue # <<>> /\ queue' = queue
        /\ ~CapReached /\ iterations' = iterations
    BY <1>6, Zenon DEF OutOfTime
  <2>3. iterations' < MaxIterations
    BY <2>2, RoomBelowCap, Zenon
  <2>4. QED
    BY <2>1, <2>2, <2>3
<1>7. CASE StartTask
  BY <1>1, <1>7 DEF StartTask
<1>8. CASE ScanFindsNothing \/ ModelFails \/ ModelAnswers \/ PromptNotSerializable
  <2>1. pc = "work" /\ pc' \in {"work", "judge", "aborted"} /\ reason' = reason
    BY <1>8
    DEF ScanFindsNothing, ModelFails, ModelAnswers, PromptNotSerializable, Investigated
  <2>2. QED
    BY <1>1, <2>1
<1>9. CASE JudgePasses \/ JudgePrunes
  BY <1>1, <1>9 DEF JudgePasses, JudgePrunes
<1>10. CASE RecordSuccess \/ RecordPartial \/ RecordNothing
  BY <1>1, <1>10
  DEF RecordSuccess, RecordPartial, RecordNothing, CountIteration, EndIteration
<1>11. CASE PushDirection \/ DirectionsPushed
  BY <1>1, <1>11 DEF PushDirection, DirectionsPushed, EndIteration
<1>12. CASE Finish
  <2>1. TimeUp => TimeUp'
    BY <1>12 DEF Finish, TimeUp
  <2>2. QED
    BY <1>12, <2>1 DEF Finish, DrainReason
<1>13. CASE Tick
  <2>1. TimeUp => TimeUp'
    BY <1>13, TimeStaysUp
  <2>2. QED
    BY <1>13, <2>1 DEF Tick
<1>14. QED
  BY <1>2, <1>3, <1>4, <1>5, <1>6, <1>7, <1>8, <1>9, <1>10, <1>11, <1>12, <1>13
  DEF Next, EngineStep

LEMMA AnsweredStep ==
    ASSUME AnsweredInv, Next
    PROVE  AnsweredInv'
<1> USE DEF queueVars, loopVars, resultVars, historyVars, AnsweredInv
<1>1. ASSUME pc # "done", pc' \notin {"keywords", "done"}, answered' = answered
      PROVE  AnsweredInv'
  BY <1>1, Zenon
<1>2. CASE NothingMatches
  BY <1>2, Zenon DEF NothingMatches
<1>3. CASE SeedProbe \/ QueueDrained \/ OutOfIterations \/ OutOfTime \/ StartTask
  <2>1. pc # "done" /\ pc' \notin {"keywords", "done"} /\ answered' = answered
    BY <1>3 DEF SeedProbe, QueueDrained, OutOfIterations, OutOfTime, StartTask
  <2>2. QED
    BY <1>1, <2>1, Zenon
<1>4. CASE ScanFindsNothing \/ ModelFails \/ ModelAnswers \/ PromptNotSerializable
  <2>1. pc # "done" /\ pc' \notin {"keywords", "done"} /\ answered' = answered
    BY <1>4
    DEF ScanFindsNothing, ModelFails, ModelAnswers, PromptNotSerializable, Investigated
  <2>2. QED
    BY <1>1, <2>1, Zenon
<1>5. CASE JudgePasses \/ JudgePrunes
  <2>1. pc # "done" /\ pc' \notin {"keywords", "done"} /\ answered' = answered
    BY <1>5 DEF JudgePasses, JudgePrunes
  <2>2. QED
    BY <1>1, <2>1, Zenon
<1>6. CASE RecordSuccess \/ RecordPartial \/ RecordNothing
  <2>1. pc # "done" /\ pc' \notin {"keywords", "done"} /\ answered' = answered
    BY <1>6
    DEF RecordSuccess, RecordPartial, RecordNothing, CountIteration, EndIteration
  <2>2. QED
    BY <1>1, <2>1, Zenon
<1>7. CASE PushDirection \/ DirectionsPushed
  <2>1. pc # "done" /\ pc' \notin {"keywords", "done"} /\ answered' = answered
    BY <1>7 DEF PushDirection, DirectionsPushed, EndIteration
  <2>2. QED
    BY <1>1, <2>1, Zenon
<1>8. CASE Finish
  BY <1>8, Zenon DEF Finish
<1>9. CASE Tick
  BY <1>9, Zenon DEF Tick
<1>10. QED
  BY <1>2, <1>3, <1>4, <1>5, <1>6, <1>7, <1>8, <1>9 DEF Next, EngineStep

(* The reason in the complete event is the one that ended the loop, and     *)
(* answered says whether anything was found, whatever the bounds.           *)
THEOREM ReasonIsHonest == Spec => []ReasonHonest
<1>1. Init => ReasonInv /\ AnsweredInv
  BY DEF Init, ReasonInv, AnsweredInv
<1>2. TypeOK /\ ReasonInv /\ [Next]_vars => ReasonInv'
  <2>1. ReasonInv /\ UNCHANGED vars => ReasonInv'
    BY DEF vars, queueVars, loopVars, resultVars, historyVars, ReasonInv, TimeUp
  <2>2. QED
    BY <2>1, ReasonStep
<1>3. AnsweredInv /\ [Next]_vars => AnsweredInv'
  <2>1. AnsweredInv /\ UNCHANGED vars => AnsweredInv'
    BY DEF vars, resultVars, AnsweredInv
  <2>2. QED
    BY <2>1, AnsweredStep
<1>4. ReasonInv /\ AnsweredInv => ReasonHonest
  BY Zenon DEF ReasonInv, AnsweredInv, ReasonHonest, TimeUp
<1>5. QED
  BY <1>1, <1>2, <1>3, <1>4, TypeCorrect, PTL DEF Spec

-----------------------------------------------------------------------------
(* The order. *)

Ordered(s) ==
    \A i, j \in DOMAIN s : i <= j => s[j].depth \in s[i].depth..(s[i].depth + 1)

Within(s, d) == \A i \in DOMAIN s : s[i].depth \in d..(d + 1)

(* A task one level below the one at hand may be appended. *)
LEMMA OrderedAppend ==
    ASSUME NEW s \in Seq(Tasks), NEW t \in Tasks, NEW d \in Nat,
           Ordered(s), Within(s, d), t.depth = d + 1
    PROVE  Ordered(Append(s, t)) /\ Within(Append(s, t), d)
<1>1. /\ Append(s, t) \in Seq(Tasks)
      /\ Len(Append(s, t)) = Len(s) + 1
      /\ \A i \in 1..Len(s) : Append(s, t)[i] = s[i]
      /\ Append(s, t)[Len(s) + 1] = t
  BY AppendProperties
<1>2. Len(s) \in Nat /\ DOMAIN s = 1..Len(s) /\ DOMAIN Append(s, t) = 1..(Len(s) + 1)
  BY <1>1, LenProperties
<1>3. \A i \in 1..(Len(s) + 1) : i \in 1..Len(s) \/ i = Len(s) + 1
  BY <1>2
<1>4. \A i \in 1..Len(s) : s[i].depth \in d..(d + 1)
  BY <1>2 DEF Within
<1>5. Within(Append(s, t), d)
  BY <1>1, <1>2, <1>3, <1>4 DEF Within
<1>6. Ordered(Append(s, t))
  <2> SUFFICES ASSUME NEW i \in 1..(Len(s) + 1), NEW j \in 1..(Len(s) + 1), i <= j
               PROVE  Append(s, t)[j].depth
                         \in Append(s, t)[i].depth..(Append(s, t)[i].depth + 1)
    BY <1>2 DEF Ordered
  <2>1. CASE j \in 1..Len(s)
    <3>1. i \in 1..Len(s)
      BY <1>2, <2>1
    <3>2. QED
      BY <1>1, <1>2, <2>1, <3>1 DEF Ordered
  <2>2. CASE j = Len(s) + 1
    <3>1. Append(s, t)[j].depth = d + 1
      BY <1>1, <2>2
    <3>2. Append(s, t)[i].depth \in d..(d + 1)
      BY <1>2, <1>5 DEF Within
    <3>3. QED
      BY <3>1, <3>2
  <2>3. QED
    BY <1>3, <2>1, <2>2
<1>7. QED
  BY <1>5, <1>6

(* The rest of the queue, seen from its first task. *)
LEMMA OrderedTail ==
    ASSUME NEW s \in Seq(Tasks), s # <<>>, Ordered(s)
    PROVE  Ordered(Tail(s)) /\ Within(Tail(s), Head(s).depth)
<1>1. /\ Tail(s) \in Seq(Tasks)
      /\ Len(Tail(s)) = Len(s) - 1
      /\ \A i \in 1..Len(Tail(s)) : Tail(s)[i] = s[i + 1]
  BY HeadTailProperties
<1>2. /\ Len(s) \in Nat /\ Len(s) > 0
      /\ DOMAIN s = 1..Len(s) /\ DOMAIN Tail(s) = 1..(Len(s) - 1)
  BY <1>1, LenProperties, EmptySeq
<1>3. Head(s) = s[1] /\ 1 \in 1..Len(s)
  BY <1>2
<1>4. \A i \in 1..(Len(s) - 1) : i + 1 \in 1..Len(s) /\ 1 <= i + 1 /\ Tail(s)[i] = s[i + 1]
  BY <1>1, <1>2
<1>5. Within(Tail(s), Head(s).depth)
  BY <1>2, <1>3, <1>4 DEF Within, Ordered
<1>6. Ordered(Tail(s))
  <2> SUFFICES ASSUME NEW i \in 1..(Len(s) - 1), NEW j \in 1..(Len(s) - 1), i <= j
               PROVE  Tail(s)[j].depth \in Tail(s)[i].depth..(Tail(s)[i].depth + 1)
    BY <1>2 DEF Ordered
  <2>1. i + 1 <= j + 1
    OBVIOUS
  <2>2. QED
    BY <1>2, <1>4, <2>1 DEF Ordered
<1>7. QED
  BY <1>5, <1>6

AtWork == pc \in {"work", "judge", "record", "push"}

(* A task is at hand from the step that starts it on. *)
LEMMA TaskAtHand ==
    ASSUME [Next]_vars, AtWork', ~StartTask
    PROVE  AtWork /\ task' = task
<1> USE DEF queueVars, loopVars, resultVars, historyVars, AtWork
<1>1. CASE Tick \/ UNCHANGED vars
  BY <1>1 DEF Tick, vars
<1>2. CASE ScanFindsNothing \/ ModelFails \/ ModelAnswers
  BY <1>2 DEF ScanFindsNothing, ModelFails, ModelAnswers, Investigated
<1>3. CASE JudgePasses \/ JudgePrunes
  BY <1>3 DEF JudgePasses, JudgePrunes
<1>4. CASE Record
  BY <1>4 DEF Record, RecordSuccess, RecordPartial, RecordNothing, CountIteration,
              EndIteration
<1>5. CASE NothingMatches \/ SeedProbe \/ QueueDrained \/ OutOfIterations \/ OutOfTime
  BY <1>5 DEF NothingMatches, SeedProbe, QueueDrained, OutOfIterations, OutOfTime
<1>6. CASE PromptNotSerializable \/ PushDirection \/ DirectionsPushed \/ Finish
  BY <1>6 DEF PromptNotSerializable, PushDirection, DirectionsPushed, EndIteration, Finish
<1>7. QED
  BY <1>1, <1>2, <1>3, <1>4, <1>5, <1>6 DEF Next, EngineStep, Record

(* BreadthFirst, once the seed is known to find the queue empty. *)
OrderInv ==
    /\ Ordered(queue)
    /\ AtWork => Within(queue, task.depth)
    /\ pc = "keywords" => queue = <<>>

LEMMA OrderStep ==
    ASSUME TypeOK, OrderInv, [Next]_vars
    PROVE  OrderInv'
<1>0. queue \in Seq(Tasks) /\ task.depth \in Nat
  BY DEF TypeOK, Tasks
<1>1. pc' = "keywords" => queue' = <<>>
  <2> SUFFICES ASSUME pc' = "keywords" PROVE queue' = <<>>
    OBVIOUS
  <2>1. pc = "keywords"
    BY KeywordsOnce
  <2>2. Quiet
    BY <2>1, SearchSteps, RecordEnds
       DEF SeedProbe, StartTask, PushDirection, CountIteration
  <2>3. QED
    BY <2>1, <2>2 DEF OrderInv, Quiet, queueVars
<1>2. CASE queue' = queue /\ ~StartTask
  <2>1. Ordered(queue')
    BY <1>2 DEF OrderInv
  <2>2. AtWork' => Within(queue', task'.depth)
    BY <1>2, TaskAtHand DEF OrderInv
  <2>3. QED
    BY <1>1, <2>1, <2>2 DEF OrderInv, Ordered, Within
<1>3. CASE SeedProbe
  <2>1. PICK targets \in SeedLists : Push(SeedTask(targets))
    BY <1>3 DEF SeedProbe
  <2>2. SeedTask(targets) \in Tasks /\ SeedTask(targets).depth = 0
    BY SeedListType DEF SeedTask
  <2> DEFINE t == SeedTask(targets)
  <2> HIDE DEF t
  <2>3. queue = <<>> /\ pc' = "head"
    BY <1>3 DEF SeedProbe, OrderInv
  <2>4. queue' = <<>> \/ queue' = <<t>>
    BY <2>1, <2>3 DEF Push, Enqueue, queueVars, t
  <2>5. Ordered(<<>>) /\ Ordered(<<t>>)
    BY <2>2 DEF Ordered, t
  <2>6. Ordered(queue')
    BY <2>4, <2>5
  <2>7. QED
    BY <2>3, <2>6 DEF OrderInv, AtWork, Ordered, Within
<1>4. CASE StartTask
  <2>1. queue # <<>> /\ queue' = Tail(queue) /\ task' = Head(queue) /\ Ordered(queue)
    BY <1>4 DEF StartTask, Pop, OrderInv
  <2>2. Ordered(queue') /\ Within(queue', task'.depth)
    BY <1>0, <2>1, OrderedTail
  <2>3. QED
    BY <1>1, <2>2 DEF OrderInv, Ordered, Within
<1>5. CASE PushDirection
  <2> DEFINE t == DirectionTask(Head(pending))
  <2>1. Head(pending) \in Directions
    BY <1>5, HeadTailProperties DEF TypeOK, PushDirection
  <2>2. t \in Tasks /\ t.depth = task.depth + 1
    BY <2>1, DirectionTaskType DEF DirectionTask
  <2>3. Push(t) /\ task' = task /\ Ordered(queue) /\ Within(queue, task.depth)
    BY <1>5 DEF PushDirection, OrderInv, AtWork
  <2> HIDE DEF t
  <2>4. queue' = queue \/ queue' = Append(queue, t)
    BY <2>3 DEF Push, Enqueue, queueVars
  <2>5. Ordered(queue') /\ Within(queue', task'.depth)
    BY <1>0, <2>2, <2>3, <2>4, OrderedAppend
  <2>6. QED
    BY <1>1, <2>5 DEF OrderInv, Ordered, Within
<1>6. QED
  <2>1. Quiet \/ Record => queue' = queue
    BY RecordEnds DEF Quiet, queueVars
  <2>2. QED
    BY <1>2, <1>3, <1>4, <1>5, <2>1, SearchSteps

(* The search is breadth first, for any numbers of directions and areas.    *)
THEOREM SearchIsBreadthFirst == Spec => []BreadthFirst
<1>1. Init => OrderInv
  <2>1. ASSUME Init PROVE queue = <<>> /\ pc = "keywords"
    BY <2>1 DEF Init, InitQueue
  <2>2. Ordered(<<>>)
    BY DEF Ordered
  <2>3. QED
    BY <2>1, <2>2 DEF OrderInv, AtWork
<1>2. TypeOK /\ OrderInv /\ [Next]_vars => OrderInv'
  BY OrderStep
<1>3. OrderInv => BreadthFirst
  BY DEF OrderInv, BreadthFirst, Ordered, Within, AtWork
<1>4. QED
  BY <1>1, <1>2, <1>3, TypeCorrect, PTL DEF Spec

-----------------------------------------------------------------------------
(* The scans. *)

(* A step that scans the first of the areas to investigate. *)
ScanStep ==
    /\ pc = "work" /\ pc' \in {"work", "judge", "aborted"}
    /\ scans' = [scans EXCEPT ![Head(rest)] = @ + 1]
    /\ UNCHANGED <<queue, queuedAreas, visited, task, announced>>
    /\ pc' = "work" => rest' = Tail(rest) /\ Len(rest) # 1

(* Any other step scans nothing, and leaves the areas of a task alone       *)
(* unless it starts the task.                                               *)
LEMMA OnlyScansScan ==
    ASSUME [Next]_vars
    PROVE  \/ ScanStep
           \/ /\ scans' = scans
              /\ StartTask \/ (pc' = "work" => /\ pc = "work"
                                              /\ UNCHANGED <<task, rest>>)
<1> USE DEF queueVars, loopVars, resultVars, historyVars
<1>1. CASE Tick \/ UNCHANGED vars
  BY <1>1 DEF Tick, vars
<1>2. CASE ScanFindsNothing \/ ModelFails \/ ModelAnswers
  <2>1. PICK sub : Investigated(sub)
    BY <1>2 DEF ScanFindsNothing, ModelFails, ModelAnswers
  <2>2. QED
    BY <2>1 DEF Investigated, ScanStep
<1>3. CASE PromptNotSerializable
  BY <1>3 DEF PromptNotSerializable, ScanStep
<1>4. CASE JudgePasses \/ JudgePrunes
  BY <1>4 DEF JudgePasses, JudgePrunes
<1>5. CASE RecordSuccess \/ RecordPartial \/ RecordNothing
  BY <1>5 DEF RecordSuccess, RecordPartial, RecordNothing, CountIteration, EndIteration
<1>6. CASE NothingMatches \/ SeedProbe \/ QueueDrained \/ OutOfIterations \/ OutOfTime
  BY <1>6 DEF NothingMatches, SeedProbe, QueueDrained, OutOfIterations, OutOfTime
<1>7. CASE PushDirection \/ DirectionsPushed \/ Finish
  BY <1>7 DEF PushDirection, DirectionsPushed, EndIteration, Finish
<1>8. CASE StartTask
  BY <1>8 DEF StartTask
<1>9. QED
  BY <1>1, <1>2, <1>3, <1>4, <1>5, <1>6, <1>7, <1>8 DEF Next, EngineStep

(* Between two tasks, and after the last, the only way on is a new task. *)
LEMMA Waits ==
    ASSUME [Next]_vars, pc \in {"head", "finish", "done"}, ~StartTask
    PROVE  pc' \in {"head", "finish", "done"}
<1> USE DEF queueVars, loopVars, resultVars, historyVars
<1>1. CASE Tick \/ UNCHANGED vars
  BY <1>1 DEF Tick, vars
<1>2. CASE QueueDrained \/ OutOfIterations \/ OutOfTime \/ Finish
  BY <1>2 DEF QueueDrained, OutOfIterations, OutOfTime, Finish
<1>3. QED
  BY <1>1, <1>2
  DEF Next, EngineStep, NothingMatches, SeedProbe, ScanFindsNothing, ModelFails, ModelAnswers,
      Investigated, PromptNotSerializable, JudgePasses, JudgePrunes, RecordSuccess,
      RecordPartial, RecordNothing, CountIteration, PushDirection, DirectionsPushed

Worked == visited \cup Current

Due(a) == IF a \in Probed THEN 1 ELSE 0

Allowed(a) == Due(a) + (IF a \in Worked THEN 1 ELSE 0)

LEMMA AllowedGrows ==
    ASSUME TypeOK, [Next]_vars, pc = "keywords" => announced = {}
    PROVE  /\ Probed \subseteq Probed' /\ Worked \subseteq Worked'
           /\ \A a : Due(a) <= Due(a)' /\ Allowed(a) <= Allowed(a)'
<1>1. announced \subseteq announced'
  <2>1. CASE Quiet
    BY <2>1 DEF Quiet
  <2>2. CASE SeedProbe
    BY <2>2 DEF SeedProbe
  <2>3. CASE StartTask \/ Record \/ PushDirection
    BY <2>3, RecordEnds DEF StartTask, CountIteration, PushDirection, historyVars
  <2>4. QED
    BY <2>1, <2>2, <2>3, SearchSteps
<1>2. Worked \subseteq Worked'
  <2>1. CASE Quiet
    BY <2>1 DEF Quiet, queueVars, Worked
  <2>2. CASE SeedProbe \/ PushDirection
    <3>1. Current = {} /\ Current' = {} /\ visited' = visited
      BY <2>2 DEF SeedProbe, PushDirection, Push, Enqueue, queueVars, Current
    <3>2. QED
      BY <3>1 DEF Worked
  <2>3. CASE StartTask
    BY <2>3 DEF StartTask, Pop, Current, Worked
  <2>4. CASE Record
    BY <2>4, RecordEnds DEF Worked
  <2>5. QED
    BY <2>1, <2>2, <2>3, <2>4, SearchSteps
<1>3. Probed \subseteq Probed'
  BY <1>1 DEF Probed
<1>4. QED
  BY <1>2, <1>3 DEF Due, Allowed

(* The list of a probe: distinct areas the probe announced. *)
Listed(s) ==
    /\ \A i \in DOMAIN s : s[i] \in Probed
    /\ \A i, j \in DOMAIN s : s[i] = s[j] => i = j

Plain == \A i \in DOMAIN queue : queue[i].targets = <<>>

(* The probe waits in the queue alone, and nothing has been scanned. *)
ProbeWaits ==
    /\ pc \in {"head", "finish", "done"}
    /\ queue # <<>> /\ Tail(queue) = <<>>
    /\ Listed(Head(queue).targets)
    /\ \A a \in Areas : scans[a] = 0

(* The areas still to be scanned for the task at hand. *)
RestInv ==
    IF task.targets = <<>>
      THEN rest = <<task.targetArea>> /\ scans[task.targetArea] <= Due(task.targetArea)
      ELSE Listed(rest) /\ \A i \in DOMAIN rest : scans[rest[i]] = 0

(* ScanBudget alone is not inductive: that the probe is the only task with  *)
(* a list, and the first to run, keeps what it lists unscanned until then.  *)
ScanInv ==
    /\ \A a \in Areas : scans[a] <= Allowed(a)
    /\ Plain \/ ProbeWaits
    /\ pc = "work" => RestInv
    /\ pc = "keywords" => announced = {} /\ \A a \in Areas : scans[a] = 0

LEMMA BudgetOnScan ==
    ASSUME TypeOK, ScanInv, [Next]_vars, ScanStep
    PROVE  /\ \A a \in Areas : scans'[a] <= Allowed(a)'
           /\ pc' = "work" => RestInv'
<1>1. /\ pc = "work" /\ RestInv
      /\ rest \in Seq(Areas) /\ rest # <<>>
      /\ scans \in [Areas -> Nat]
  BY DEF ScanStep, ScanInv, TypeOK
<1>2. /\ Head(rest) = rest[1] /\ Head(rest) \in Areas
      /\ Tail(rest) \in Seq(Areas)
      /\ Len(Tail(rest)) = Len(rest) - 1
      /\ \A i \in 1..Len(Tail(rest)) : Tail(rest)[i] = rest[i + 1]
  BY <1>1, HeadTailProperties
<1>3. /\ Len(rest) \in Nat /\ Len(rest) > 0
      /\ DOMAIN rest = 1..Len(rest) /\ DOMAIN Tail(rest) = 1..(Len(rest) - 1)
  BY <1>1, <1>2, LenProperties, EmptySeq
<1>4. PICK x \in Areas : x = rest[1]
  BY <1>2
<1>5. scans' = [scans EXCEPT ![x] = @ + 1]
  BY <1>2, <1>4 DEF ScanStep
<1>6. /\ scans'[x] = scans[x] + 1
      /\ \A a \in Areas : a # x => scans'[a] = scans[a]
  BY <1>1, <1>5
<1>7. /\ Probed' = Probed /\ task' = task
      /\ task.targetArea \in Worked'
  BY DEF ScanStep, Probed, Worked, Current
<1>8. \A a \in Areas : a # x => scans'[a] <= Allowed(a)'
  <2>1. \A a \in Areas : scans[a] <= Allowed(a) /\ Allowed(a) <= Allowed(a)'
    BY <1>1, AllowedGrows DEF ScanInv
  <2>2. \A a \in Areas : scans[a] \in Nat /\ Allowed(a) \in Nat /\ Allowed(a)' \in Nat
    BY <1>1 DEF Allowed, Due
  <2>3. QED
    BY <1>6, <2>1, <2>2
<1>9. CASE task.targets = <<>>
  <2>1. rest = <<task.targetArea>> /\ scans[x] <= Due(x) /\ x = task.targetArea
    BY <1>1, <1>4, <1>9 DEF RestInv
  <2>2. Allowed(x)' = Due(x) + 1 /\ Due(x) \in Nat /\ scans[x] \in Nat
    BY <1>1, <1>7, <2>1 DEF Allowed, Due
  <2>3. scans'[x] <= Allowed(x)'
    BY <1>6, <2>1, <2>2
  <2>4. pc' # "work"
    BY <2>1 DEF ScanStep
  <2>5. QED
    BY <1>8, <2>3, <2>4
<1>10. CASE task.targets # <<>>
  <2>1. Listed(rest) /\ \A i \in 1..Len(rest) : scans[rest[i]] = 0
    BY <1>1, <1>3, <1>10 DEF RestInv
  <2>2. x \in Probed /\ scans[x] = 0
    BY <1>3, <1>4, <2>1 DEF Listed
  <2>3. scans'[x] <= Allowed(x)'
    BY <1>6, <1>7, <2>2 DEF Allowed, Due
  <2>4. \A i \in 1..(Len(rest) - 1) :
           /\ Tail(rest)[i] = rest[i + 1] /\ rest[i + 1] # rest[1]
           /\ i + 1 \in 1..Len(rest) /\ rest[i + 1] \in Areas
    BY <1>1, <1>2, <1>3, <2>1 DEF Listed
  <2>5. Listed(Tail(rest))
    <3>1. \A i \in 1..(Len(rest) - 1) : Tail(rest)[i] \in Probed
      BY <1>3, <2>1, <2>4 DEF Listed
    <3>2. ASSUME NEW i \in 1..(Len(rest) - 1), NEW j \in 1..(Len(rest) - 1),
                 Tail(rest)[i] = Tail(rest)[j]
          PROVE  i = j
      <4>1. i + 1 = j + 1
        BY <1>3, <2>1, <2>4, <3>2 DEF Listed
      <4>2. QED
        BY <4>1
    <3>3. QED
      BY <1>3, <3>1, <3>2 DEF Listed
  <2>6. \A i \in 1..(Len(rest) - 1) : scans'[Tail(rest)[i]] = 0
    BY <1>4, <1>6, <2>1, <2>4
  <2>7. pc' = "work" => RestInv'
    <3> SUFFICES ASSUME pc' = "work" PROVE RestInv'
      OBVIOUS
    <3>1. rest' = Tail(rest)
      BY DEF ScanStep
    <3>2. Listed(rest)' /\ (\A i \in DOMAIN rest : scans[rest[i]] = 0)'
      BY <1>3, <1>7, <2>5, <2>6, <3>1 DEF Listed
    <3>3. QED
      BY <1>7, <1>10, <3>2 DEF RestInv
  <2>8. QED
    BY <1>8, <2>3, <2>7
<1>11. QED
  BY <1>9, <1>10

(* A task that is started has not been scanned as a task of its own. *)
LEMMA RestOnStart ==
    ASSUME TypeOK, OnePlace, ScanInv, StartTask, [Next]_vars
    PROVE  RestInv' /\ Plain'
<1>1. /\ queue # <<>> /\ queue' = Tail(queue)
      /\ task' = Head(queue) /\ rest' = SubAreas(Head(queue))
      /\ scans' = scans /\ Probed' = Probed /\ Current = {}
  BY DEF StartTask, Pop, historyVars, Probed, Current
<1>2. /\ queue \in Seq(Tasks) /\ Head(queue) \in Tasks /\ Head(queue) = queue[1]
      /\ Tail(queue) \in Seq(Tasks)
      /\ Len(Tail(queue)) = Len(queue) - 1
      /\ \A i \in 1..Len(Tail(queue)) : Tail(queue)[i] = queue[i + 1]
  <2>1. queue \in Seq(Tasks) /\ queue # <<>>
    BY <1>1 DEF TypeOK
  <2>2. QED
    BY <2>1, HeadTailProperties
<1>3. /\ Len(queue) \in Nat /\ Len(queue) > 0
      /\ DOMAIN queue = 1..Len(queue) /\ DOMAIN Tail(queue) = 1..(Len(queue) - 1)
  BY <1>1, <1>2, LenProperties, EmptySeq
<1>4. PICK h \in Tasks : h = Head(queue)
  BY <1>2
<1>5. /\ h.targetArea \in Areas /\ h.targetArea \notin Worked
      /\ h.targets \in Seq(Files)
  <2>1. h.targetArea \in queuedAreas
    BY <1>1, <1>2, <1>4, AreasOfTail DEF OnePlace
  <2>2. QED
    BY <1>1, <1>4, <2>1 DEF OnePlace, Worked, Tasks
<1>6. CASE h.targets = <<>>
  <2>1. rest' = <<h.targetArea>> /\ task' = h
    BY <1>1, <1>4, <1>6 DEF SubAreas
  <2>2. scans[h.targetArea] <= Due(h.targetArea)
    <3>1. Allowed(h.targetArea) = Due(h.targetArea)
      BY <1>5 DEF Allowed, Due
    <3>2. QED
      BY <1>5, <3>1 DEF ScanInv
  <2>3. RestInv'
    BY <1>1, <1>6, <2>1, <2>2 DEF RestInv, Due
  <2>4. CASE Plain
    <3>1. \A i \in 1..(Len(queue) - 1) : i + 1 \in 1..Len(queue)
      BY <1>3
    <3>2. QED
      BY <1>1, <1>2, <1>3, <2>3, <2>4, <3>1 DEF Plain
  <2>5. CASE ProbeWaits
    BY <1>1, <2>3, <2>5 DEF ProbeWaits, Plain
  <2>6. QED
    BY <2>4, <2>5 DEF ScanInv
<1>7. CASE h.targets # <<>>
  <2>1. ProbeWaits
    <3>1. ~Plain
      BY <1>2, <1>3, <1>4, <1>7 DEF Plain
    <3>2. QED
      BY <3>1 DEF ScanInv
  <2>2. rest' = h.targets /\ task' = h /\ Listed(h.targets)
    BY <1>1, <1>4, <1>7, <2>1 DEF SubAreas, ProbeWaits
  <2>3. \A i \in DOMAIN h.targets : scans[h.targets[i]] = 0
    <3>1. \A i \in DOMAIN h.targets : h.targets[i] \in Areas
      BY <1>5, ElementOfSeq, LenProperties, EngineAssumption
    <3>2. QED
      BY <2>1, <3>1 DEF ProbeWaits
  <2>4. RestInv'
    <3>1. Listed(rest)'
      BY <1>1, <2>2 DEF Listed
    <3>2. QED
      BY <1>1, <1>7, <2>2, <2>3, <3>1 DEF RestInv
  <2>5. Plain'
    BY <1>1, <2>1 DEF ProbeWaits, Plain
  <2>6. QED
    BY <2>4, <2>5
<1>8. QED
  BY <1>6, <1>7

LEMMA PlainOrWaiting ==
    ASSUME TypeOK, OnePlace, OrderInv, ScanInv, [Next]_vars
    PROVE  (Plain \/ ProbeWaits)'
<1>1. CASE queue' = queue /\ announced' = announced /\ ~StartTask
  <2>1. Plain => Plain'
    BY <1>1 DEF Plain
  <2>2. ProbeWaits => ProbeWaits'
    <3> SUFFICES ASSUME ProbeWaits PROVE ProbeWaits'
      OBVIOUS
    <3>1. pc \in {"head", "finish", "done"}
      BY DEF ProbeWaits
    <3>2. pc' \in {"head", "finish", "done"} /\ scans' = scans
      BY <1>1, <3>1, Waits, OnlyScansScan DEF ScanStep
    <3>3. Probed' = Probed
      BY <1>1 DEF Probed
    <3>4. QED
      BY <1>1, <3>2, <3>3 DEF ProbeWaits, Listed
  <2>3. QED
    BY <2>1, <2>2 DEF ScanInv
<1>2. CASE SeedProbe
  <2>1. PICK targets \in SeedLists : /\ Push(SeedTask(targets))
                                     /\ announced' = {SeedTask(targets)}
    BY <1>2 DEF SeedProbe
  <2> DEFINE t == SeedTask(targets)
  <2>2. t.targets = targets /\ queue = <<>> /\ pc' = "head" /\ scans' = scans
    BY <1>2 DEF SeedProbe, SeedTask, OrderInv
  <2>3. Listed(targets)'
    <3>1. \A i \in DOMAIN targets : targets[i] \in Probed'
      BY <2>1, <2>2 DEF Probed
    <3>2. \A i, j \in DOMAIN targets : targets[i] = targets[j] => i = j
      BY DEF SeedLists
    <3>3. QED
      BY <3>1, <3>2 DEF Listed
  <2>4. t \in Tasks
    BY SeedListType
  <2> HIDE DEF t
  <2>5. CASE queue' = <<>>
    BY <2>5 DEF Plain
  <2>6. CASE queue' = <<t>>
    <3>1. Head(queue') = t /\ Tail(queue') = <<>> /\ queue' # <<>>
      BY <2>4, <2>6
    <3>2. \A a \in Areas : scans'[a] = 0
      BY <1>2, <2>2 DEF SeedProbe, ScanInv
    <3>3. QED
      BY <2>2, <2>3, <3>1, <3>2 DEF ProbeWaits
  <2>7. QED
    BY <2>1, <2>2, <2>5, <2>6 DEF Push, Enqueue, queueVars, t
<1>3. CASE StartTask
  BY <1>3, RestOnStart
<1>4. CASE PushDirection
  <2> DEFINE t == DirectionTask(Head(pending))
  <2>1. Head(pending) \in Directions
    BY <1>4, HeadTailProperties DEF TypeOK, PushDirection
  <2>2. t \in Tasks /\ t.targets = <<>>
    BY <2>1, DirectionTaskType DEF DirectionTask
  <2>3. Push(t) /\ Plain /\ queue \in Seq(Tasks)
    BY <1>4 DEF PushDirection, ScanInv, ProbeWaits, TypeOK
  <2> HIDE DEF t
  <2>4. CASE queue' = queue
    BY <2>3, <2>4 DEF Plain
  <2>5. CASE queue' = Append(queue, t)
    <3>1. /\ Len(Append(queue, t)) = Len(queue) + 1
          /\ \A i \in 1..Len(queue) : Append(queue, t)[i] = queue[i]
          /\ Append(queue, t)[Len(queue) + 1] = t
          /\ Append(queue, t) \in Seq(Tasks)
      BY <2>2, <2>3, AppendProperties
    <3>2. /\ Len(queue) \in Nat /\ DOMAIN queue = 1..Len(queue)
          /\ DOMAIN queue' = 1..(Len(queue) + 1)
      BY <2>3, <2>5, <3>1, LenProperties
    <3>3. \A i \in 1..(Len(queue) + 1) : i \in 1..Len(queue) \/ i = Len(queue) + 1
      BY <3>2
    <3>4. QED
      BY <2>2, <2>3, <2>5, <3>1, <3>2, <3>3 DEF Plain
  <2>6. QED
    BY <2>3, <2>4, <2>5 DEF Push, Enqueue, queueVars
<1>5. QED
  <2>1. Quiet \/ Record => queue' = queue /\ announced' = announced
    BY RecordEnds DEF Quiet, queueVars, CountIteration
  <2>2. QED
    BY <1>1, <1>2, <1>3, <1>4, <2>1, SearchSteps

LEMMA ScanInvStep ==
    ASSUME TypeOK, OnePlace, OrderInv, ScanInv, [Next]_vars
    PROVE  ScanInv'
<1>1. (Plain \/ ProbeWaits)'
  BY PlainOrWaiting
<1>2. pc' = "keywords" => announced' = {} /\ \A a \in Areas : scans'[a] = 0
  <2> SUFFICES ASSUME pc' = "keywords" PROVE announced' = {} /\ \A a \in Areas : scans'[a] = 0
    OBVIOUS
  <2>1. pc = "keywords" /\ announced' = announced
    BY KeywordsOnce
  <2>2. scans' = scans
    BY <2>1, OnlyScansScan DEF ScanStep
  <2>3. QED
    BY <2>1, <2>2 DEF ScanInv
<1>3. CASE ScanStep
  <2>1. (\A a \in Areas : scans[a] <= Allowed(a))'
    BY <1>3, BudgetOnScan
  <2>2. QED
    BY <1>1, <1>2, <1>3, <2>1, BudgetOnScan DEF ScanInv
<1>4. CASE scans' = scans
  <2>1. (\A a \in Areas : scans[a] <= Allowed(a))'
    <3>1. \A a \in Areas : scans[a] <= Allowed(a) /\ Allowed(a) <= Allowed(a)'
      BY AllowedGrows DEF ScanInv
    <3>2. \A a \in Areas : scans[a] \in Nat /\ Allowed(a) \in Nat /\ Allowed(a)' \in Nat
      <4>1. scans \in [Areas -> Nat]
        BY DEF TypeOK
      <4>2. QED
        BY <4>1 DEF Allowed, Due
    <3>3. QED
      BY <1>4, <3>1, <3>2
  <2>2. pc' = "work" => RestInv'
    <3>1. CASE StartTask
      BY <3>1, RestOnStart
    <3>2. CASE ~StartTask
      <4> SUFFICES ASSUME pc' = "work", ~ScanStep PROVE RestInv'
        BY <1>2, BudgetOnScan
      <4>1. pc = "work" /\ task' = task /\ rest' = rest
        BY <3>2, OnlyScansScan
      <4>2. announced' = announced
        BY <4>1, <3>2, SearchSteps, RecordEnds
           DEF Quiet, SeedProbe, PushDirection, CountIteration
      <4>3. RestInv /\ Probed' = Probed
        BY <4>1, <4>2 DEF ScanInv, Probed
      <4>4. QED
        BY <1>4, <4>1, <4>3 DEF RestInv, Listed, Due
    <3>3. QED
      BY <3>1, <3>2
  <2>3. QED
    BY <1>1, <1>2, <2>1, <2>2 DEF ScanInv
<1>5. QED
  BY <1>3, <1>4, OnlyScansScan

(* A file is read at most twice, once in the probe and once as an area of   *)
(* its own, whatever the keywords match and the answers say.                *)
THEOREM ScansBounded == Spec => []ScanBudget
<1>1. Init => ScanInv /\ OrderInv
  <2>1. ASSUME Init
        PROVE  queue = <<>> /\ pc = "keywords" /\ announced = {}
               /\ \A a \in Areas : scans[a] = 0
    BY <2>1 DEF Init, InitQueue
  <2>2. \A a : 0 <= Allowed(a)
    BY DEF Allowed, Due
  <2>3. Ordered(<<>>)
    BY DEF Ordered
  <2>4. QED
    BY <2>1, <2>2, <2>3 DEF ScanInv, Plain, OrderInv, AtWork
<1>2. TypeOK /\ OrderInv /\ [Next]_vars => OrderInv'
  BY OrderStep
<1>3. TypeOK /\ OnePlace /\ OrderInv /\ ScanInv /\ [Next]_vars => ScanInv'
  BY ScanInvStep
<1>4. ScanInv => ScanBudget
  BY DEF ScanInv, ScanBudget, Allowed, Due, Worked
<1>5. QED
  BY <1>1, <1>2, <1>3, <1>4, TypeCorrect, AreasInOnePlace, PTL DEF Spec

-----------------------------------------------------------------------------
(* The tree. *)

Elements(s) == {s[i] : i \in DOMAIN s}

LEMMA ElementsOfTail ==
    ASSUME NEW S, NEW s \in Seq(S), s # <<>>
    PROVE  Head(s) \in Elements(s) /\ Elements(Tail(s)) \subseteq Elements(s)
<1>1. /\ Tail(s) \in Seq(S)
      /\ Len(Tail(s)) = Len(s) - 1
      /\ \A i \in 1..Len(Tail(s)) : Tail(s)[i] = s[i + 1]
  BY HeadTailProperties
<1>2. /\ Len(s) \in Nat /\ Len(s) > 0
      /\ DOMAIN s = 1..Len(s) /\ DOMAIN Tail(s) = 1..(Len(s) - 1)
  BY <1>1, LenProperties, EmptySeq
<1>3. \A i \in 1..(Len(s) - 1) : i + 1 \in 1..Len(s)
  BY <1>2
<1>4. Head(s) = s[1] /\ 1 \in 1..Len(s)
  BY <1>2
<1>5. QED
  BY <1>1, <1>2, <1>3, <1>4 DEF Elements

LEMMA ElementsOfAppend ==
    ASSUME NEW S, NEW s \in Seq(S), NEW t \in S
    PROVE  Elements(Append(s, t)) \subseteq Elements(s) \cup {t}
<1>1. /\ Append(s, t) \in Seq(S)
      /\ Len(Append(s, t)) = Len(s) + 1
      /\ \A i \in 1..Len(s) : Append(s, t)[i] = s[i]
      /\ Append(s, t)[Len(s) + 1] = t
  BY AppendProperties
<1>2. Len(s) \in Nat /\ DOMAIN s = 1..Len(s) /\ DOMAIN Append(s, t) = 1..(Len(s) + 1)
  BY <1>1, LenProperties
<1>3. \A i \in 1..(Len(s) + 1) : i \in 1..Len(s) \/ i = Len(s) + 1
  BY <1>2
<1>4. QED
  BY <1>1, <1>2, <1>3 DEF Elements

LEMMA ElementsOfConcat ==
    ASSUME NEW S, NEW s \in Seq(S), NEW t \in Seq(S)
    PROVE  Elements(s \o t) \subseteq Elements(s) \cup Elements(t)
<1>1. /\ s \o t \in Seq(S)
      /\ Len(s \o t) = Len(s) + Len(t)
      /\ \A i \in 1..(Len(s) + Len(t)) :
            (s \o t)[i] = IF i <= Len(s) THEN s[i] ELSE t[i - Len(s)]
  BY ConcatProperties
<1>2. /\ Len(s) \in Nat /\ DOMAIN s = 1..Len(s)
      /\ Len(t) \in Nat /\ DOMAIN t = 1..Len(t)
      /\ DOMAIN (s \o t) = 1..(Len(s) + Len(t))
  BY <1>1, LenProperties
<1>3. \A i \in 1..(Len(s) + Len(t)) :
         IF i <= Len(s) THEN i \in 1..Len(s) ELSE i - Len(s) \in 1..Len(t)
  BY <1>2
<1>4. QED
  BY <1>1, <1>2, <1>3 DEF Elements

LEMMA NoElements == Elements(<<>>) = {}
<1>1. DOMAIN <<>> = {}
  OBVIOUS
<1>2. QED
  BY <1>1 DEF Elements

(* The directions of the finding at hand and those not yet offered. *)
Proposals == Elements(finding.dirs) \cup Elements(pending)

Idle ==
    /\ pc \notin {"work", "judge", "record", "aborted"} => finding = NoFinding
    /\ pc # "push" => pending = <<>>

LEMMA IdleStep ==
    ASSUME Idle, [Next]_vars
    PROVE  Idle'
<1> USE DEF queueVars, loopVars, resultVars, historyVars, Idle
<1>1. CASE Tick \/ UNCHANGED vars
  BY <1>1 DEF Tick, vars
<1>2. CASE ScanFindsNothing \/ ModelFails \/ ModelAnswers
  <2>1. PICK sub : Investigated(sub)
    BY <1>2 DEF ScanFindsNothing, ModelFails, ModelAnswers
  <2>2. pc = "work" /\ pc' \in {"work", "judge"} /\ pending' = pending
    BY <2>1 DEF Investigated
  <2>3. QED
    BY <2>2
<1>3. CASE PromptNotSerializable \/ JudgePasses
  BY <1>3 DEF PromptNotSerializable, JudgePasses
<1>4. CASE JudgePrunes
  <2>1. pc = "judge" /\ pc' = "record" /\ pending' = pending
    BY <1>4 DEF JudgePrunes
  <2>2. QED
    BY <2>1
<1>5. CASE RecordSuccess \/ RecordPartial \/ RecordNothing
  BY <1>5 DEF RecordSuccess, RecordPartial, RecordNothing, CountIteration, EndIteration
<1>6. CASE NothingMatches \/ SeedProbe \/ QueueDrained \/ OutOfIterations \/ OutOfTime
           \/ StartTask
  BY <1>6 DEF NothingMatches, SeedProbe, QueueDrained, OutOfIterations, OutOfTime, StartTask
<1>7. CASE PushDirection \/ DirectionsPushed \/ Finish
  BY <1>7 DEF PushDirection, DirectionsPushed, EndIteration, Finish
<1>8. QED
  BY <1>1, <1>2, <1>3, <1>4, <1>5, <1>6, <1>7 DEF Next, EngineStep

(* Merging a finding adds its directions at most. *)
LEMMA MergedDirs ==
    ASSUME NEW m \in Findings, NEW s \in Findings
    PROVE  Elements(Merge(m, s).dirs) \subseteq Elements(m.dirs) \cup Elements(s.dirs)
<1>1. m.dirs \in Seq(Directions) /\ s.dirs \in Seq(Directions)
  BY DEF Findings
<1>2. Merge(m, s).dirs = m.dirs \/ Merge(m, s).dirs = m.dirs \o s.dirs
  BY DEF Merge
<1>3. QED
  BY <1>1, <1>2, ElementsOfConcat

LEMMA InvestigatedDirs ==
    ASSUME TypeOK, NEW sub \in Findings, Investigated(sub)
    PROVE  Proposals' \subseteq Proposals \cup Elements(sub.dirs)
<1>1. finding \in Findings /\ pending' = pending
  BY DEF TypeOK, Investigated
<1>2. finding' = sub \/ finding' = Merge(finding, sub)
  BY DEF Investigated
<1>3. Elements(finding'.dirs) \subseteq Elements(finding.dirs) \cup Elements(sub.dirs)
  BY <1>1, <1>2, MergedDirs
<1>4. Elements(pending)' = Elements(pending)
  BY <1>1 DEF Elements
<1>5. Elements(finding.dirs)' = Elements(finding'.dirs)
  BY DEF Elements
<1>6. QED
  BY <1>3, <1>4, <1>5 DEF Proposals

(* The model's directions carry numbers no task and no direction has had,   *)
(* and no two of them the same.                                             *)
Numbered(D) ==
    /\ \A d \in D : d.id \in (counter + 1)..counter'
    /\ \A d, e \in D : d.id = e.id => d = e

LEMMA NewDirections ==
    ASSUME TypeOK, ModelAnswers
    PROVE  /\ counter' >= counter
           /\ \E D : Numbered(D) /\ Proposals' \subseteq Proposals \cup D
<1>1. PICK minted \in 0..MaxDirections, n \in 0..MaxDirections :
       \E areas \in [1..n -> Areas], number \in Kept(n, minted),
          outcome \in Outcomes, summary \in {"text", "empty"} :
          /\ Investigated([outcome |-> outcome, summary |-> summary,
                           dirs |-> [i \in 1..n |-> [id |-> counter + number[i],
                                                     targetArea |-> areas[i]]]])
          /\ counter' = counter + minted
  <2>1. \A minted \in 0..MaxDirections : 0..minted \subseteq 0..MaxDirections
    BY Bounds
  <2>2. QED
    BY <2>1 DEF ModelAnswers
<1>2. PICK areas \in [1..n -> Areas], number \in Kept(n, minted),
           outcome \in Outcomes, summary \in {"text", "empty"} :
          /\ Investigated([outcome |-> outcome, summary |-> summary,
                           dirs |-> [i \in 1..n |-> [id |-> counter + number[i],
                                                     targetArea |-> areas[i]]]])
          /\ counter' = counter + minted
  BY <1>1
<1> DEFINE dirs == [i \in 1..n |-> [id |-> counter + number[i], targetArea |-> areas[i]]]
           sub == [outcome |-> outcome, summary |-> summary, dirs |-> dirs]
<1>3. n \in Nat /\ minted \in Nat /\ counter \in Nat
  <2>1. counter \in Nat
    BY DEF TypeOK
  <2>2. QED
    BY <2>1, Bounds
<1>4. /\ number \in [1..n -> 1..minted]
      /\ \A i, j \in 1..n : i < j => number[i] < number[j]
  BY DEF Kept
<1>5. \A i \in 1..n : /\ number[i] \in 1..minted /\ areas[i] \in Areas
                      /\ dirs[i] = [id |-> counter + number[i], targetArea |-> areas[i]]
  BY <1>4
<1>6. \A i \in 1..n : dirs[i] \in Directions /\ dirs[i].id \in (counter + 1)..(counter + minted)
  <2>1. \A i \in 1..n : /\ counter + number[i] \in Nat
                        /\ counter + number[i] \in (counter + 1)..(counter + minted)
    BY <1>3, <1>5
  <2>2. QED
    BY <1>5, <2>1 DEF Directions
<1>7. \A i, j \in 1..n : dirs[i].id = dirs[j].id => i = j
  <2> SUFFICES ASSUME NEW i \in 1..n, NEW j \in 1..n, dirs[i].id = dirs[j].id
               PROVE  i = j
    OBVIOUS
  <2>1. counter + number[i] = counter + number[j]
    BY <1>5
  <2>2. number[i] = number[j] /\ number[i] \in Nat
    BY <1>3, <1>5, <2>1
  <2>3. ~(i < j) /\ ~(j < i)
    BY <1>4, <2>2
  <2>4. QED
    BY <1>3, <2>3
<1>8. dirs \in Seq(Directions) /\ DOMAIN dirs = 1..n
  <2>1. dirs \in [1..n -> Directions]
    BY <1>6
  <2> HIDE DEF dirs
  <2>2. QED
    BY <1>3, <2>1, IsASeq
<1>9. Numbered(Elements(dirs)) /\ counter' >= counter
  <2>1. counter' = counter + minted
    BY <1>2
  <2> HIDE DEF dirs
  <2>2. QED
    BY <1>3, <1>6, <1>7, <1>8, <2>1 DEF Numbered, Elements
<1>10. sub \in Findings /\ sub.dirs = dirs
  <2> HIDE DEF dirs
  <2> QED BY <1>8 DEF Findings, Summaries
<1>11. Investigated(sub)
  BY <1>2
<1>12. Proposals' \subseteq Proposals \cup Elements(dirs)
  <2> HIDE DEF sub, dirs
  <2> QED BY <1>10, <1>11, InvestigatedDirs
<1>13. QED
  <2> HIDE DEF dirs
  <2> QED BY <1>9, <1>12

(* Any other step proposes nothing new. *)
LEMMA OldDirections ==
    ASSUME TypeOK, Idle, [Next]_vars, ~ModelAnswers
    PROVE  Proposals' \subseteq Proposals /\ counter' = counter
<1> USE DEF queueVars, loopVars, resultVars, historyVars
<1>1. ASSUME finding' = finding, pending' = pending
      PROVE  Proposals' \subseteq Proposals
  BY <1>1 DEF Proposals, Elements
<1>2. CASE Tick \/ UNCHANGED vars
  BY <1>1, <1>2 DEF Tick, vars
<1>3. CASE ScanFindsNothing \/ ModelFails
  <2>1. Investigated(NoFinding) /\ counter' = counter
    BY <1>3 DEF ScanFindsNothing, ModelFails
  <2>2. Elements(NoFinding.dirs) = {}
    BY NoElements DEF NoFinding
  <2>3. QED
    BY <2>1, <2>2, NoFindingType, InvestigatedDirs
<1>4. CASE JudgePrunes
  <2>1. Elements(finding'.dirs) \subseteq Elements(finding.dirs)
    <3>1. PICK k \in 0..MaxKeep : \E index \in [1..k -> DOMAIN finding.dirs] :
                 finding'.dirs = [j \in 1..k |-> finding.dirs[index[j]]]
      BY <1>4 DEF JudgePrunes
    <3>2. QED
      BY <3>1 DEF Elements
  <2>2. pending' = pending /\ counter' = counter
    BY <1>4 DEF JudgePrunes
  <2>3. QED
    BY <2>1, <2>2 DEF Proposals, Elements
<1>5. CASE Record
  <2>1. /\ finding' = NoFinding /\ counter' = counter
        /\ pending' = pending \/ pending' = finding.dirs
    BY <1>5, RecordEnds
    DEF CountIteration, Record, RecordSuccess, RecordPartial, RecordNothing
  <2>2. Elements(finding'.dirs) = {}
    BY <2>1, NoElements DEF NoFinding
  <2>3. Elements(pending') \subseteq Elements(pending) \cup Elements(finding.dirs)
    BY <2>1
  <2>4. QED
    BY <2>1, <2>2, <2>3 DEF Proposals, Elements
<1>6. CASE PushDirection
  <2>1. /\ finding' = finding /\ counter' = counter
        /\ pending # <<>> /\ pending' = Tail(pending)
        /\ pending \in Seq(Directions)
    BY <1>6 DEF PushDirection, AfterPush, TypeOK
  <2>2. Elements(pending') \subseteq Elements(pending)
    BY <2>1, ElementsOfTail
  <2>3. QED
    BY <2>1, <2>2 DEF Proposals, Elements
<1>7. CASE PromptNotSerializable \/ JudgePasses
  BY <1>1, <1>7 DEF PromptNotSerializable, JudgePasses
<1>8. CASE NothingMatches \/ SeedProbe \/ QueueDrained \/ OutOfIterations \/ OutOfTime
           \/ StartTask
  BY <1>1, <1>8
  DEF NothingMatches, SeedProbe, QueueDrained, OutOfIterations, OutOfTime, StartTask
<1>9. CASE DirectionsPushed \/ Finish
  BY <1>1, <1>9 DEF DirectionsPushed, EndIteration, Finish
<1>10. QED
  BY <1>2, <1>3, <1>4, <1>5, <1>6, <1>7, <1>8, <1>9 DEF Next, EngineStep, Record

(* Numbers tell directions apart, also from the tasks announced, and grow   *)
(* from a task to what it leads to.                                         *)
Sound ==
    /\ \A d \in Proposals : 0 < d.id /\ d.id <= counter /\ (AtWork => task.id < d.id)
    /\ \A d \in Proposals, t \in announced : d.id = t.id => d.targetArea = t.targetArea
    /\ \A d, e \in Proposals : d.id = e.id => d.targetArea = e.targetArea

(* What SearchTree needs to be inductive. *)
TreeInv ==
    /\ Idle
    /\ pc = "keywords" => announced = {}
    /\ AtWork => task \in announced
    /\ pc = "push" => task.targetArea \in visited
    /\ \A t \in announced : t.id <= counter
    /\ Sound

LEMMA NoProposals ==
    ASSUME Idle, pc \notin {"work", "judge", "record", "aborted", "push"}
    PROVE  Proposals = {}
<1>1. finding = NoFinding /\ pending = <<>>
  BY DEF Idle
<1>2. QED
  BY <1>1, NoElements DEF Proposals, NoFinding

LEMMA ProposalsType ==
    ASSUME TypeOK
    PROVE  Proposals \subseteq Directions
<1>1. finding.dirs \in Seq(Directions) /\ pending \in Seq(Directions)
  BY DEF TypeOK, Findings
<1>2. QED
  BY <1>1, ElementOfSeq, LenProperties DEF Proposals, Elements

(* What one step announces: the seed, or the direction it pushes. *)
LEMMA Announces ==
    ASSUME TypeOK, [Next]_vars
    PROVE  announced' = announced \/ SeedProbe \/ PushDirection
  BY SearchSteps, RecordEnds DEF Quiet, StartTask, CountIteration, historyVars

LEMMA PushedTask ==
    ASSUME TypeOK, TreeInv, PushDirection
    PROVE  \E d \in Proposals :
              /\ d \in Directions
              /\ DirectionTask(d) \in Tasks
              /\ Push(DirectionTask(d))
              /\ announced' = announced \cup (IF Accepts(DirectionTask(d))
                                               THEN {DirectionTask(d)} ELSE {})
<1>1. pending \in Seq(Directions) /\ pending # <<>>
  BY DEF TypeOK, PushDirection
<1>2. Head(pending) \in Proposals /\ Head(pending) \in Directions
  BY <1>1, ElementsOfTail, HeadTailProperties DEF Proposals
<1>3. QED
  BY <1>2, DirectionTaskType DEF PushDirection

LEMMA SoundStep ==
    ASSUME TypeOK, TreeInv, [Next]_vars
    PROVE  Sound'
<1>1. /\ counter \in Nat /\ task.id \in Nat
      /\ \A d \in Proposals : d.id \in Nat
      /\ \A t \in announced : t.id \in Nat /\ t.id <= counter
  <2>1. counter \in Nat /\ task.id \in Nat /\ \A t \in announced : t.id \in Nat
    BY DEF TypeOK, Tasks
  <2>2. QED
    BY <2>1, ProposalsType DEF Directions, TreeInv
<1>2. CASE ModelAnswers
  <2>1. PICK D : Numbered(D) /\ Proposals' \subseteq Proposals \cup D
    BY <1>2, NewDirections
  <2>2. /\ announced' = announced /\ task' = task
        /\ counter' >= counter /\ counter' \in Nat
        /\ task \in announced /\ AtWork
    <3>1. /\ announced' = announced /\ task' = task /\ pc = "work"
      BY <1>2 DEF ModelAnswers, Investigated
    <3>2. counter' \in Nat
      BY TypeStep DEF TypeOK
    <3>3. QED
      BY <1>2, <3>1, <3>2, NewDirections DEF TreeInv, AtWork
  <2>3. \A d \in Proposals' : \/ d \in Proposals /\ d.id \in Nat
                              \/ d \in D /\ d.id \in Nat /\ counter < d.id /\ d.id <= counter'
    BY <1>1, <2>1, <2>2 DEF Numbered
  <2>4. \A d \in Proposals' : 0 < d.id /\ d.id <= counter' /\ task.id < d.id
    <3>1. task.id <= counter
      BY <1>1, <2>2
    <3>2. \A d \in Proposals : 0 < d.id /\ d.id <= counter /\ task.id < d.id
      BY <2>2 DEF TreeInv, Sound
    <3>3. QED
      BY <1>1, <2>2, <2>3, <3>1, <3>2
  <2>5. \A d \in Proposals', t \in announced : d.id = t.id => d.targetArea = t.targetArea
    BY <1>1, <2>3 DEF TreeInv, Sound
  <2>6. \A d, e \in Proposals' : d.id = e.id => d.targetArea = e.targetArea
    <3> SUFFICES ASSUME NEW d \in Proposals', NEW e \in Proposals', d.id = e.id
                 PROVE  d.targetArea = e.targetArea
      OBVIOUS
    <3>1. \A f \in Proposals : f.id <= counter
      BY DEF TreeInv, Sound
    <3>2. CASE d \in Proposals /\ e \in Proposals
      BY <3>2 DEF TreeInv, Sound
    <3>3. CASE d \in D /\ e \in D
      BY <2>1, <3>3 DEF Numbered
    <3>4. QED
      BY <1>1, <2>3, <3>1, <3>2, <3>3
  <2>7. QED
    BY <2>2, <2>4, <2>5, <2>6 DEF Sound
<1>3. CASE ~ModelAnswers
  <2>0. Proposals' \subseteq Proposals /\ counter' = counter
    BY <1>3, OldDirections DEF TreeInv
  <2>1. CASE SeedProbe \/ StartTask
    <3>1. Proposals = {}
      BY <2>1, NoProposals DEF SeedProbe, StartTask, TreeInv
    <3>2. QED
      BY <2>0, <3>1 DEF Sound
  <2>2. CASE ~SeedProbe /\ ~StartTask
    <3>1. \A d \in Proposals' : 0 < d.id /\ d.id <= counter' /\ (AtWork' => task'.id < d.id)
      BY <2>0, <2>2, TaskAtHand DEF TreeInv, Sound
    <3>2. \A d, e \in Proposals' : d.id = e.id => d.targetArea = e.targetArea
      BY <2>0 DEF TreeInv, Sound
    <3>3. \A d \in Proposals', t \in announced' : d.id = t.id => d.targetArea = t.targetArea
      <4>1. CASE announced' = announced
        BY <2>0, <4>1 DEF TreeInv, Sound
      <4>2. CASE PushDirection
        <5>1. PICK p \in Proposals :
                 announced' = announced \cup (IF Accepts(DirectionTask(p))
                                              THEN {DirectionTask(p)} ELSE {})
          BY <4>2, PushedTask
        <5>2. DirectionTask(p).id = p.id /\ DirectionTask(p).targetArea = p.targetArea
          BY DEF DirectionTask
        <5>3. \A t \in announced' :
                 \/ t \in announced
                 \/ t.id = p.id /\ t.targetArea = p.targetArea
          BY <5>1, <5>2
        <5>4. QED
          BY <2>0, <5>3 DEF TreeInv, Sound
      <4>3. QED
        BY <2>2, <4>1, <4>2, Announces
    <3>4. QED
      BY <3>1, <3>2, <3>3 DEF Sound
  <2>3. QED
    BY <2>1, <2>2
<1>4. QED
  BY <1>2, <1>3

LEMMA VisitedGrows ==
    ASSUME TypeOK, [Next]_vars
    PROVE  visited \subseteq visited'
  BY SearchSteps, RecordEnds
  DEF Quiet, queueVars, SeedProbe, PushDirection, Push, Enqueue, StartTask, Pop

(* Directions are pushed after the area that led to them was recorded. *)
LEMMA PushingStarts ==
    ASSUME [Next]_vars, pc' = "push"
    PROVE  pc = "push" \/ Record
<1> USE DEF queueVars, loopVars, resultVars, historyVars
<1>1. CASE Tick \/ UNCHANGED vars
  BY <1>1 DEF Tick, vars
<1>2. CASE ScanFindsNothing \/ ModelFails \/ ModelAnswers
  BY <1>2 DEF ScanFindsNothing, ModelFails, ModelAnswers, Investigated
<1>3. QED
  BY <1>1, <1>2
  DEF Next, EngineStep, Record, NothingMatches, SeedProbe, QueueDrained, OutOfIterations,
      OutOfTime, StartTask, PromptNotSerializable, JudgePasses, JudgePrunes, PushDirection,
      DirectionsPushed, EndIteration, Finish

LEMMA TreeInvStep ==
    ASSUME TypeOK, SearchTree, TreeInv, [Next]_vars
    PROVE  TreeInv'
<1>1. Idle' /\ Sound'
  BY IdleStep, SoundStep DEF TreeInv
<1>2. pc' = "keywords" => announced' = {}
  BY KeywordsOnce DEF TreeInv
<1>3. announced \subseteq announced'
  <2>1. SeedProbe => announced = {}
    BY DEF SeedProbe, TreeInv
  <2>2. PushDirection => announced \subseteq announced'
    BY DEF PushDirection
  <2>3. QED
    BY <2>1, <2>2, Announces
<1>4. AtWork' => task' \in announced'
  <2>1. CASE StartTask
    <3>1. queue # <<>> /\ queue \in Seq(Tasks) /\ task' = Head(queue)
      BY <2>1 DEF StartTask, Pop, TypeOK
    <3>2. Head(queue) \in Elements(queue)
      BY <3>1, ElementsOfTail
    <3>3. QED
      BY <1>3, <3>1, <3>2 DEF SearchTree, Elements
  <2>2. CASE ~StartTask
    BY <1>3, <2>2, TaskAtHand DEF TreeInv
  <2>3. QED
    BY <2>1, <2>2
<1>5. pc' = "push" => task'.targetArea \in visited'
  <2> SUFFICES ASSUME pc' = "push" PROVE task'.targetArea \in visited'
    OBVIOUS
  <2>1. task' = task
    <3>1. ~StartTask
      BY DEF StartTask
    <3>2. QED
      BY <3>1, TaskAtHand DEF AtWork
  <2>2. QED
    BY <2>1, PushingStarts, VisitedGrows, RecordEnds DEF TreeInv
<1>6. \A t \in announced' : t.id <= counter'
  <2>1. /\ counter \in Nat /\ counter' \in Nat /\ counter' >= counter
        /\ \A t \in announced : t.id \in Nat /\ t.id <= counter
    <3>1. counter \in Nat /\ \A t \in announced : t.id \in Nat
      BY DEF TypeOK, Tasks
    <3>2. counter' \in Nat
      BY TypeStep DEF TypeOK
    <3>3. counter' >= counter
      BY <3>1, NewDirections, OldDirections DEF TreeInv
    <3>4. QED
      BY <3>1, <3>2, <3>3 DEF TreeInv
  <2>2. CASE announced' = announced
    BY <2>1, <2>2
  <2>3. CASE SeedProbe
    <3>1. \A t \in announced' : t.id = 0
      BY <2>3 DEF SeedProbe, SeedTask
    <3>2. QED
      BY <2>1, <3>1
  <2>4. CASE PushDirection
    <3>1. PICK p \in Proposals :
             /\ p \in Directions
             /\ announced' = announced \cup (IF Accepts(DirectionTask(p))
                                             THEN {DirectionTask(p)} ELSE {})
      BY <2>4, PushedTask
    <3>2. DirectionTask(p).id = p.id /\ p.id \in Nat /\ p.id <= counter
      BY <3>1 DEF DirectionTask, Directions, TreeInv, Sound
    <3>3. \A t \in announced' : t \in announced \/ t.id = p.id
      BY <3>1, <3>2
    <3>4. QED
      BY <2>1, <3>2, <3>3
  <2>5. QED
    BY <2>2, <2>3, <2>4, Announces
<1>7. QED
  BY <1>1, <1>2, <1>4, <1>5, <1>6 DEF TreeInv

LEMMA SearchTreeStep ==
    ASSUME TypeOK, OnePlace, NoTaskLost, OrderInv, SearchTree, TreeInv, [Next]_vars
    PROVE  SearchTree'
<1>1. visited \subseteq visited'
  BY VisitedGrows
<1>2. queue \in Seq(Tasks) /\ \A t \in Elements(queue) : t \in announced
  BY DEF TypeOK, SearchTree, Elements
<1>3. CASE Quiet \/ StartTask \/ Record
  <2>1. announced' = announced
    BY <1>3, RecordEnds DEF Quiet, StartTask, CountIteration, historyVars
  <2>2. queue' = queue \/ (queue # <<>> /\ queue' = Tail(queue))
    BY <1>3, RecordEnds DEF Quiet, queueVars, StartTask, Pop
  <2>3. Elements(queue') \subseteq Elements(queue)
    BY <1>2, <2>2, ElementsOfTail
  <2>4. \A i \in DOMAIN queue' : queue'[i] \in announced'
    BY <1>2, <2>1, <2>3 DEF Elements
  <2>5. QED
    BY <1>1, <2>1, <2>4 DEF SearchTree
<1>4. CASE SeedProbe
  <2>1. PICK targets \in SeedLists : /\ Push(SeedTask(targets))
                                     /\ announced' = {SeedTask(targets)}
    BY <1>4 DEF SeedProbe
  <2> DEFINE t == SeedTask(targets)
  <2>2. t.id = 0 /\ queue = <<>>
    BY <1>4 DEF SeedTask, SeedProbe, OrderInv
  <2> HIDE DEF t
  <2>3. queue' = <<>> \/ queue' = <<t>>
    BY <2>1, <2>2 DEF Push, Enqueue, queueVars, t
  <2>4. \A i \in DOMAIN queue' : queue'[i] \in announced'
    BY <2>1, <2>3 DEF t
  <2>5. announced' = {t}
    BY <2>1 DEF t
  <2>6. QED
    BY <2>2, <2>4, <2>5 DEF SearchTree
<1>5. CASE PushDirection
  <2>1. PICK p \in Proposals :
           /\ p \in Directions
           /\ DirectionTask(p) \in Tasks
           /\ Push(DirectionTask(p))
           /\ announced' = announced \cup (IF Accepts(DirectionTask(p))
                                            THEN {DirectionTask(p)} ELSE {})
    BY <1>5, PushedTask
  <2> DEFINE t == DirectionTask(p)
  <2>2. /\ t.id = p.id /\ t.targetArea = p.targetArea
        /\ t.depth = task.depth + 1 /\ t.parent = task.id
    BY DEF DirectionTask
  <2>3. t \in Tasks /\ Push(t)
    BY <2>1
  <2>4. announced' = announced \cup (IF Accepts(t) THEN {t} ELSE {})
    BY <2>1
  <2> HIDE DEF t
  <2>5. CASE ~Accepts(t)
    <3>1. announced' = announced /\ queue' = queue
      BY <2>3, <2>4, <2>5 DEF Push, Enqueue, queueVars
    <3>2. QED
      BY <1>1, <3>1 DEF SearchTree
  <2>6. CASE Accepts(t)
    <3>1. announced' = announced \cup {t} /\ queue' = Append(queue, t)
      BY <2>3, <2>4, <2>6 DEF Push, Enqueue
    <3>2. /\ task \in announced /\ task.id < p.id /\ 0 < p.id
          /\ task.targetArea \in visited
      BY <1>5 DEF PushDirection, TreeInv, Sound, AtWork
    <3>3. \A s \in announced : s.targetArea # t.targetArea /\ s.id # t.id
      <4>1. t.targetArea \notin Taken
        <5>1. Current = {}
          BY <1>5 DEF PushDirection, Current
        <5>2. QED
          BY <2>6, <5>1 DEF Accepts, Taken
      <4>2. \A s \in announced : s.targetArea # t.targetArea
        BY <4>1 DEF NoTaskLost
      <4>3. QED
        BY <2>2, <4>2 DEF TreeInv, Sound
    <3>4. \A s, u \in announced' : s.id = u.id \/ s.targetArea = u.targetArea => s = u
      BY <3>1, <3>3 DEF SearchTree
    <3>5. \A u \in announced' : u.id # 0 =>
             \E q \in announced' : /\ q.id = u.parent
                                   /\ q.id < u.id
                                   /\ u.depth = q.depth + 1
                                   /\ q.targetArea \in visited'
      <4>1. \E q \in announced : /\ q.id = t.parent
                                 /\ q.id < t.id
                                 /\ t.depth = q.depth + 1
                                 /\ q.targetArea \in visited
        BY <2>2, <3>2
      <4>2. \A u \in announced : u.id # 0 =>
               \E q \in announced : /\ q.id = u.parent
                                    /\ q.id < u.id
                                    /\ u.depth = q.depth + 1
                                    /\ q.targetArea \in visited
        BY DEF SearchTree
      <4>3. QED
        BY <1>1, <3>1, <4>1, <4>2
    <3>6. \A i \in DOMAIN queue' : queue'[i] \in announced'
      <4>1. Elements(queue') \subseteq Elements(queue) \cup {t}
        BY <1>2, <2>3, <3>1, ElementsOfAppend
      <4>2. QED
        BY <1>2, <3>1, <4>1 DEF Elements
    <3>7. QED
      BY <3>4, <3>5, <3>6 DEF SearchTree
  <2>7. QED
    BY <2>5, <2>6
<1>6. QED
  BY <1>3, <1>4, <1>5, SearchSteps

LEMMA TreeInvariant == Spec => [](SearchTree /\ TreeInv /\ OrderInv)
<1>1. Init => SearchTree /\ TreeInv /\ OrderInv
  <2>1. ASSUME Init
        PROVE  /\ queue = <<>> /\ pc = "keywords" /\ announced = {}
               /\ finding = NoFinding /\ pending = <<>>
    BY <2>1 DEF Init, InitQueue
  <2>2. Ordered(<<>>)
    BY DEF Ordered
  <2>3. ASSUME Init PROVE Idle /\ Proposals = {}
    <3>1. Idle
      BY <2>1, <2>3 DEF Idle
    <3>2. QED
      BY <2>1, <2>3, <3>1, NoProposals
  <2>4. QED
    BY <2>1, <2>2, <2>3 DEF SearchTree, TreeInv, Sound, OrderInv, AtWork
<1>2. TypeOK /\ OrderInv /\ [Next]_vars => OrderInv'
  BY OrderStep
<1>3. TypeOK /\ SearchTree /\ TreeInv /\ [Next]_vars => TreeInv'
  BY TreeInvStep
<1>4. /\ TypeOK /\ OnePlace /\ NoTaskLost /\ OrderInv /\ SearchTree /\ TreeInv
      /\ [Next]_vars
      => SearchTree'
  BY SearchTreeStep
<1>5. QED
  BY <1>1, <1>2, <1>3, <1>4, TypeCorrect, AreasInOnePlace, NothingLost, PTL DEF Spec

(* Whatever indices the judge repeats and however many directions the model *)
(* lists, the tasks announced form a tree with the parents first.           *)
THEOREM AnnouncedAreATree == Spec => []SearchTree
  BY TreeInvariant, PTL

-----------------------------------------------------------------------------
(* Its way to the end. *)

(* The stages of an iteration and of the run, the last ones lowest. *)
Stage ==
    CASE pc = "keywords" -> 7
      [] pc = "push" -> 6
      [] pc = "head" -> 5
      [] pc = "work" -> 4
      [] pc = "judge" -> 3
      [] pc = "record" -> 2
      [] pc = "finish" -> 1
      [] OTHER -> 0

IterationsLeft == IF iterations < MaxIterations THEN MaxIterations - iterations ELSE 0

(* Areas to investigate, or directions to offer to the queue. *)
Todo == IF pc = "work" THEN Len(rest) ELSE IF pc = "push" THEN Len(pending) ELSE 0

Countdown == <<IterationsLeft, <<Stage, Todo>>>>

CountdownType == IterationsLeft \in Nat /\ Stage \in Nat /\ Todo \in Nat

LEMMA CountdownParts == TypeOK => CountdownType
<1> SUFFICES ASSUME TypeOK PROVE CountdownType
  OBVIOUS
<1>1. iterations \in Nat /\ rest \in Seq(Areas) /\ pending \in Seq(Directions)
  BY DEF TypeOK
<1>2. IterationsLeft \in Nat
  BY <1>1, Bounds DEF IterationsLeft
<1>3. Stage \in Nat
  BY DEF Stage
<1>4. Todo \in Nat
  BY <1>1, LenProperties DEF Todo
<1>5. QED
  BY <1>2, <1>3, <1>4 DEF CountdownType

(* What goes down when the engine takes a step. *)
Descends ==
    \/ IterationsLeft' < IterationsLeft
    \/ IterationsLeft' = IterationsLeft /\ Stage' < Stage
    \/ IterationsLeft' = IterationsLeft /\ Stage' = Stage /\ Todo' < Todo

(* The same iteration and a later stage. *)
LEMMA LaterStage ==
    ASSUME iterations' = iterations,
           \/ pc = "keywords" /\ pc' \in {"head", "done"}
           \/ pc = "head" /\ pc' \in {"work", "finish"}
           \/ pc = "work" /\ pc' \in {"judge", "aborted"}
           \/ pc = "judge" /\ pc' = "record"
           \/ pc = "push" /\ pc' = "head"
           \/ pc = "finish" /\ pc' = "done"
    PROVE  Descends
<1>1. IterationsLeft' = IterationsLeft
  BY DEF IterationsLeft
<1>2. Stage' < Stage
  BY DEF Stage
<1>3. QED
  BY <1>1, <1>2 DEF Descends

LEMMA InvestigatedDescends ==
    ASSUME TypeOK, NEW sub, Investigated(sub)
    PROVE  Descends
<1>1. /\ pc = "work" /\ rest # <<>> /\ rest \in Seq(Areas)
      /\ rest' = Tail(rest) /\ iterations' = iterations
      /\ pc' = IF Len(rest) = 1 THEN "judge" ELSE "work"
  BY DEF TypeOK, Investigated, resultVars
<1>2. Len(rest') = Len(rest) - 1 /\ Len(rest) \in Nat
  BY <1>1, HeadTailProperties, LenProperties
<1>3. CASE Len(rest) = 1
  BY <1>1, <1>3, LaterStage
<1>4. CASE Len(rest) # 1
  <2>1. Todo = Len(rest) /\ Todo' = Len(rest) - 1
    BY <1>1, <1>2, <1>4 DEF Todo
  <2>2. QED
    BY <1>1, <1>2, <1>4, <2>1 DEF Descends, IterationsLeft, Stage
<1>5. QED
  BY <1>3, <1>4

LEMMA EngineDescends ==
    ASSUME TypeOK, Counted, EngineStep
    PROVE  Descends
<1> USE DEF queueVars, loopVars, resultVars, historyVars
<1>1. CASE NothingMatches \/ SeedProbe
  BY <1>1, LaterStage DEF NothingMatches, SeedProbe
<1>2. CASE QueueDrained \/ OutOfIterations \/ OutOfTime \/ StartTask
  BY <1>2, LaterStage DEF QueueDrained, OutOfIterations, OutOfTime, StartTask
<1>3. CASE ScanFindsNothing \/ ModelFails \/ ModelAnswers
  <2>1. PICK sub : Investigated(sub)
    BY <1>3 DEF ScanFindsNothing, ModelFails, ModelAnswers
  <2>2. QED
    BY <2>1, InvestigatedDescends
<1>4. CASE PromptNotSerializable
  BY <1>4, LaterStage DEF PromptNotSerializable
<1>5. CASE JudgePasses \/ JudgePrunes
  BY <1>5, LaterStage DEF JudgePasses, JudgePrunes
<1>6. CASE Record
  <2>1. iterations' = iterations + 1 /\ iterations < MaxIterations /\ iterations \in Nat
    BY <1>6, RecordEnds DEF CountIteration, Counted, TypeOK
  <2>2. IterationsLeft' < IterationsLeft
    BY <2>1, Bounds DEF IterationsLeft
  <2>3. QED
    BY <2>2 DEF Descends
<1>7. CASE PushDirection
  <2>1. /\ pc = "push" /\ pc' = "push" /\ iterations' = iterations
        /\ pending # <<>> /\ pending' = Tail(pending)
    BY <1>7 DEF PushDirection, AfterPush
  <2>2. Len(pending') = Len(pending) - 1 /\ Len(pending) \in Nat
    BY <2>1, HeadTailProperties, LenProperties DEF TypeOK
  <2>3. Todo = Len(pending) /\ Todo' = Len(pending) - 1
    BY <2>1, <2>2 DEF Todo
  <2>4. QED
    BY <2>1, <2>2, <2>3 DEF Descends, IterationsLeft, Stage
<1>8. CASE DirectionsPushed
  BY <1>8, LaterStage DEF DirectionsPushed, EndIteration
<1>9. CASE Finish
  BY <1>9, LaterStage DEF Finish
<1>10. QED
  BY <1>1, <1>2, <1>3, <1>4, <1>5, <1>6, <1>7, <1>8, <1>9 DEF EngineStep, Record

(* Each step of the engine takes it down an order without infinite descent, *)
(* and the passing of time leaves it where it is: a run of Research takes   *)
(* finitely many steps, however many directions the model lists and         *)
(* whatever the clock does (ResearchEngine.cpp:163-294).                    *)
THEOREM ResearchCountsDown ==
    /\ IsWellFoundedOn(Below, Countdowns)
    /\ Spec => /\ [](Countdown \in Countdowns)
               /\ [][/\ EngineStep => <<Countdown', Countdown>> \in Below
                     /\ Tick => Countdown' = Countdown]_vars
<1>1. TypeOK => Countdown \in Countdowns
  BY CountdownParts DEF CountdownType, Countdown, Countdowns
<1>2. TypeOK' => CountdownType'
  BY CountdownParts, PTL
<1>3. ASSUME TypeOK, TypeOK', Counted, EngineStep
      PROVE  <<Countdown', Countdown>> \in Below
  <2>1. /\ IterationsLeft \in Nat /\ Stage \in Nat /\ Todo \in Nat
        /\ IterationsLeft' \in Nat /\ Stage' \in Nat /\ Todo' \in Nat
    BY <1>2, <1>3, CountdownParts DEF CountdownType
  <2>2. Descends
    BY <1>3, EngineDescends
  <2>3. QED
    BY <2>1, <2>2, CountsDown DEF Countdown, Descends
<1>4. Tick => Countdown' = Countdown
  BY DEF Tick, Countdown, IterationsLeft, Todo, Stage, resultVars, loopVars
<1>5. Init => Counted
  BY InitCounted
<1>6. TypeOK /\ OnePlace /\ Counted /\ [Next]_vars => Counted'
  BY CountedStep
<1>7. Spec => /\ [](Countdown \in Countdowns)
              /\ [][/\ EngineStep => <<Countdown', Countdown>> \in Below
                    /\ Tick => Countdown' = Countdown]_vars
  BY <1>1, <1>3, <1>4, <1>5, <1>6, TypeCorrect, AreasInOnePlace, PTL DEF Spec
<1>8. QED
  BY <1>7, NoEndlessCountdown
=============================================================================
