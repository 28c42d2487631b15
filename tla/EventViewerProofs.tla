------------------------- MODULE EventViewerProofs -------------------------
(***************************************************************************)
(* Theorems about EventViewer: what holds of a run holds of a run that the  *)
(* page draws; what it draws is the run; and green means found.             *)
(***************************************************************************)
EXTENDS EventViewer, ResearchEngineProofs

-----------------------------------------------------------------------------
(* The visualizer is a spectator. *)

LEMMA ViewStepIsStep ==
    ASSUME [ViewNext]_<<vars, viewVars>>
    PROVE  [Next]_vars
<1>1. CASE Seeded \/ Started \/ Succeeded \/ Pushed
  BY <1>1 DEF Seeded, Started, Succeeded, Pushed, Next, EngineStep
<1>2. CASE Judged \/ Completed
  BY <1>2 DEF Judged, Completed, Next, EngineStep
<1>3. CASE Silent
  BY <1>3 DEF Silent, Next, EngineStep
<1>4. CASE UNCHANGED <<vars, viewVars>>
  BY <1>4
<1>5. QED
  BY <1>1, <1>2, <1>3, <1>4 DEF ViewNext

(* The page neither starts a step of the engine nor holds one up: a run     *)
(* with its drawing is a run, fairness included.                            *)
THEOREM DrawnRunIsRun == ViewSpec => Spec
<1>1. ViewInit => Init
  BY DEF ViewInit
<1>2. [ViewNext]_<<vars, viewVars>> => [Next]_vars
  BY ViewStepIsStep
<1>3. QED
  BY <1>1, <1>2, PTL DEF ViewSpec, Spec

(* So the tasks the page draws as a tree are one.                           *)
THEOREM DrawnTree == ViewSpec => []SearchTree
  BY DrawnRunIsRun, AnnouncedAreATree, PTL

-----------------------------------------------------------------------------
(* The nodes of the page, as a structure of their own. *)

Nodes == [parent : Int, depth : Int, status : Statuses]

(* Nodes hang from the question, each one level below its parent. *)
Rooted(ns) ==
    /\ ns \in [DOMAIN ns -> Nodes]
    /\ DOMAIN ns \subseteq Nat \cup {Question}
    /\ Question \in DOMAIN ns
    /\ ns[Question].depth = -1
    /\ ns[Question].parent = NoTaskShown
    /\ \A n \in DOMAIN ns : ns[n].status = "root" <=> n = Question
    /\ \A n \in DOMAIN ns \ {Question} :
          /\ ns[n].parent \in DOMAIN ns
          /\ ns[n].depth \in Nat
          /\ ns[n].depth = ns[ns[n].parent].depth + 1

(* The nodes of ns are found in ms, in their places. *)
Grown(ns, ms) ==
    /\ DOMAIN ns \subseteq DOMAIN ms
    /\ \A n \in DOMAIN ns : ms[n].parent = ns[n].parent /\ ms[n].depth = ns[n].depth

(* One node more. *)
Added(ns, ms, id, node) ==
    /\ DOMAIN ms = DOMAIN ns \cup {id}
    /\ ms[id] = node
    /\ \A n \in DOMAIN ns : ms[n] = ns[n]
    /\ Rooted(ms)
    /\ Grown(ns, ms)

LEMMA AddedNode ==
    ASSUME NEW ns, Rooted(ns), NEW id \in Nat, id \notin DOMAIN ns,
           NEW parent \in DOMAIN ns, NEW status \in Statuses \ {"root"}
    PROVE  Added(ns, AddNode(ns, id, parent, status), id,
                 [parent |-> parent, depth |-> ns[parent].depth + 1, status |-> status])
<1> DEFINE ms == AddNode(ns, id, parent, status)
           new == [parent |-> parent, depth |-> ns[parent].depth + 1, status |-> status]
<1>1. ms = [n \in DOMAIN ns \cup {id} |-> IF n \in DOMAIN ns THEN ns[n] ELSE new]
  BY DEF AddNode, With
<1> HIDE DEF ms
<1>2. /\ DOMAIN ms = DOMAIN ns \cup {id}
      /\ ms[id] = new
      /\ \A n \in DOMAIN ns : ms[n] = ns[n]
  BY <1>1
<1>3. ns[parent] \in Nodes /\ ns[parent].depth \in Int /\ (ns[parent].depth = -1 \/ ns[parent].depth \in Nat)
  BY DEF Rooted, Nodes
<1>4. parent \in Int /\ parent # id
  BY DEF Rooted, Question
<1>5. new \in Nodes /\ new.depth \in Nat /\ new.status # "root" /\ new.parent = parent
  BY <1>3, <1>4 DEF Nodes
<1> HIDE DEF new
<1>6. ms \in [DOMAIN ms -> Nodes]
  BY <1>1, <1>2, <1>5 DEF Rooted
<1>7. Rooted(ms)
  <2>1. /\ DOMAIN ms \subseteq Nat \cup {Question}
        /\ Question \in DOMAIN ms
        /\ ms[Question].depth = -1
        /\ ms[Question].parent = NoTaskShown
    BY <1>2 DEF Rooted
  <2>2. \A n \in DOMAIN ms : ms[n].status = "root" <=> n = Question
    BY <1>2, <1>5 DEF Rooted, Question
  <2>3. \A n \in DOMAIN ms \ {Question} :
          /\ ms[n].parent \in DOMAIN ms
          /\ ms[n].depth \in Nat
          /\ ms[n].depth = ms[ms[n].parent].depth + 1
    BY <1>2, <1>5 DEF Rooted, new
  <2>4. QED
    BY <1>2, <1>6, <2>1, <2>2, <2>3 DEF Rooted
<1>8. Added(ns, ms, id, new)
  BY <1>2, <1>7 DEF Grown, Added
<1>9. QED
  BY <1>8 DEF ms, new

(* What a judgement makes of the nodes: the stubs of ids and nothing else.  *)
Stubbed(ns, ms, ids) ==
    /\ DOMAIN ms = DOMAIN ns \cup ids
    /\ \A n \in ids : ms[n].status = "rejected"
    /\ \A n \in DOMAIN ns : ms[n] = ns[n]
    /\ Rooted(ms)
    /\ Grown(ns, ms)

(* The stubs of one judgement hang from the task that was judged. *)
LEMMA AddedStubs ==
    ASSUME NEW ns, Rooted(ns), NEW ids \in SUBSET Nat, \A n \in ids : n \notin DOMAIN ns,
           NEW parent \in DOMAIN ns
    PROVE  Stubbed(ns, WithStubs(ns, ids, parent), ids)
<1> DEFINE ms == WithStubs(ns, ids, parent)
<1> DEFINE stub == [parent |-> parent, depth |-> ns[parent].depth + 1, status |-> "rejected"]
<1>1. \A n \in ids : AddNode(ns, n, parent, "rejected")[n] = stub
  <2>1. ASSUME NEW n \in ids
        PROVE  AddNode(ns, n, parent, "rejected")[n] = stub
    <3>1. n \in Nat /\ n \notin DOMAIN ns /\ "rejected" \in Statuses \ {"root"}
      BY DEF Statuses
    <3>2. QED
      BY <3>1 DEF AddNode, With
  <2>2. QED
    BY <2>1
<1>2. ns[parent] \in Nodes /\ (ns[parent].depth = -1 \/ ns[parent].depth \in Nat)
  BY DEF Rooted, Nodes
<1>3. parent \in Int
  BY DEF Rooted, Question
<1>4. /\ stub \in Nodes /\ stub.depth \in Nat /\ stub.status = "rejected"
      /\ stub.parent = parent /\ stub.depth = ns[parent].depth + 1
  BY <1>2, <1>3 DEF Nodes, Statuses
<1> HIDE DEF stub
<1>5. ms = [n \in DOMAIN ns \cup ids |-> IF n \in ids THEN stub ELSE ns[n]]
  BY <1>1 DEF WithStubs
<1> HIDE DEF ms
<1>6. /\ DOMAIN ms = DOMAIN ns \cup ids
      /\ \A n \in ids : ms[n] = stub
      /\ \A n \in DOMAIN ns : ms[n] = ns[n]
  BY <1>5
<1>7. ms \in [DOMAIN ms -> Nodes]
  BY <1>4, <1>5, <1>6 DEF Rooted
<1>8. Rooted(ms)
  <2>1. /\ DOMAIN ms \subseteq Nat \cup {Question}
        /\ Question \in DOMAIN ms
        /\ ms[Question].depth = -1
        /\ ms[Question].parent = NoTaskShown
    BY <1>6 DEF Rooted
  <2>2. \A n \in DOMAIN ms : ms[n].status = "root" <=> n = Question
    BY <1>4, <1>6 DEF Rooted, Question
  <2>3. \A n \in DOMAIN ms \ {Question} :
          /\ ms[n].parent \in DOMAIN ms
          /\ ms[n].depth \in Nat
          /\ ms[n].depth = ms[ms[n].parent].depth + 1
    BY <1>4, <1>6 DEF Rooted
  <2>4. QED
    BY <1>6, <1>7, <2>1, <2>2, <2>3 DEF Rooted
<1>9. Stubbed(ns, ms, ids)
  BY <1>4, <1>6, <1>8 DEF Grown, Stubbed
<1>10. QED
  BY <1>9 DEF ms

(* Other colours, the same tree. *)
LEMMA Recoloured ==
    ASSUME NEW ns, Rooted(ns), NEW ms \in [DOMAIN ns -> Nodes], Grown(ns, ms),
           \A n \in DOMAIN ms : ms[n].status = "root" <=> n = Question
    PROVE  Rooted(ms)
<1>1. DOMAIN ms = DOMAIN ns
  OBVIOUS
<1>2. QED
  BY <1>1 DEF Rooted, Grown

-----------------------------------------------------------------------------
(* Lineage is a recursive function: it is the smallest set with the node    *)
(* that is closed under parents, and nothing else as depths descend.        *)

Closed(ns, C) == \A n \in C : ns[n].parent \in DOMAIN ns => ns[n].parent \in C

Chain(ns, id) ==
    {x \in DOMAIN ns : \A C \in SUBSET DOMAIN ns : id \in C /\ Closed(ns, C) => x \in C}

Ups(ns, up) ==
    up = [n \in DOMAIN ns |->
             IF ns[n].parent \in DOMAIN ns THEN {n} \cup up[ns[n].parent] ELSE {n}]

LEMMA ChainIsClosed ==
    ASSUME NEW ns, NEW id \in DOMAIN ns
    PROVE  id \in Chain(ns, id) /\ Closed(ns, Chain(ns, id))
  BY DEF Chain, Closed

LEMMA ChainStep ==
    ASSUME NEW ns, NEW id \in DOMAIN ns
    PROVE  Chain(ns, id) = IF ns[id].parent \in DOMAIN ns
                             THEN {id} \cup Chain(ns, ns[id].parent) ELSE {id}
<1>1. CASE ns[id].parent \notin DOMAIN ns
  <2>1. Closed(ns, {id}) /\ {id} \in SUBSET DOMAIN ns
    BY <1>1 DEF Closed
  <2>2. QED
    BY <1>1, <2>1, ChainIsClosed DEF Chain
<1>2. CASE ns[id].parent \in DOMAIN ns
  <2> DEFINE p == ns[id].parent
             C == {id} \cup Chain(ns, p)
  <2>1. C \in SUBSET DOMAIN ns
    BY DEF Chain
  <2>2. Closed(ns, C)
    BY <1>2, ChainIsClosed DEF Closed
  <2>3. Chain(ns, id) \subseteq C
    BY <2>1, <2>2 DEF Chain
  <2>4. id \in Chain(ns, id)
    BY ChainIsClosed
  <2>5. ASSUME NEW x \in Chain(ns, p)
        PROVE  x \in Chain(ns, id)
    <3> SUFFICES ASSUME NEW D \in SUBSET DOMAIN ns, id \in D, Closed(ns, D)
                 PROVE  x \in D
      BY DEF Chain
    <3>1. p \in D
      BY <1>2 DEF Closed
    <3>2. QED
      BY <3>1 DEF Chain
  <2>6. QED
    BY <1>2, <2>3, <2>4, <2>5
<1>3. QED
  BY <1>1, <1>2

LEMMA ChainUps == \A ns : Ups(ns, [n \in DOMAIN ns |-> Chain(ns, n)])
<1> SUFFICES ASSUME NEW ns PROVE Ups(ns, [n \in DOMAIN ns |-> Chain(ns, n)])
  OBVIOUS
<1>1. \A n \in DOMAIN ns : Chain(ns, n) = IF ns[n].parent \in DOMAIN ns
                             THEN {n} \cup Chain(ns, ns[n].parent) ELSE {n}
  BY ChainStep
<1>2. QED
  BY <1>1 DEF Ups

(* Two such functions would differ at a node of the least depth, and then   *)
(* at its parent.                                                           *)
LEMMA OneUps ==
    ASSUME NEW ns, Rooted(ns), NEW up, Ups(ns, up), NEW vp, Ups(ns, vp),
           NEW id \in DOMAIN ns
    PROVE  up[id] = vp[id]
<1> DEFINE Failing == {d \in Nat : \E n \in DOMAIN ns : ns[n].depth + 1 = d /\ up[n] # vp[n]}
<1>1. SUFFICES ASSUME up[id] # vp[id] PROVE FALSE
  OBVIOUS
<1>2. \A n \in DOMAIN ns : ns[n].depth + 1 \in Nat
  BY DEF Rooted
<1>3. PICK d \in Failing : \A e \in Failing : ~(<<e, d>> \in OpToRel(<, Nat))
  <2>1. Failing # {} /\ Failing \subseteq Nat
    BY <1>1, <1>2
  <2> HIDE DEF Failing
  <2>2. QED
    BY <2>1, NatLessThanWellFounded, WFMin
<1>4. PICK n \in DOMAIN ns : ns[n].depth + 1 = d /\ up[n] # vp[n]
  BY <1>3
<1> DEFINE p == ns[n].parent
<1>5. p \in DOMAIN ns /\ up[p] # vp[p]
  <2>1. up[n] = IF p \in DOMAIN ns THEN {n} \cup up[p] ELSE {n}
    BY DEF Ups
  <2>2. vp[n] = IF p \in DOMAIN ns THEN {n} \cup vp[p] ELSE {n}
    BY DEF Ups
  <2> HIDE DEF p
  <2>3. QED
    BY <1>4, <2>1, <2>2
<1>6. ns[n].depth = ns[p].depth + 1 /\ n # Question
  <2>1. NoTaskShown \notin DOMAIN ns
    BY DEF Rooted, NoTaskShown, Question
  <2>2. n # Question
    BY <1>5, <2>1 DEF Rooted
  <2>3. QED
    BY <2>2 DEF Rooted
<1> DEFINE e == ns[p].depth + 1
<1>7. e \in Failing /\ e < d
  <2>1. e \in Nat /\ d = e + 1
    BY <1>2, <1>4, <1>5, <1>6
  <2>2. QED
    BY <1>5, <2>1
<1>8. <<e, d>> \in OpToRel(<, Nat)
  <2>1. e \in Nat /\ d \in Nat
    BY <1>7
  <2> HIDE DEF e
  <2>2. <<e, d>> \in Nat \X Nat /\ <<e, d>>[1] = e /\ <<e, d>>[2] = d
    BY <2>1
  <2>3. QED
    BY <1>7, <2>2 DEF OpToRel
<1>9. QED
  BY <1>3, <1>7, <1>8

LEMMA LineageIsChain ==
    ASSUME NEW ns, Rooted(ns), NEW id \in DOMAIN ns
    PROVE  Lineage(ns, id) = Chain(ns, id)
<1> DEFINE up == CHOOSE f : Ups(ns, f)
           chain == [n \in DOMAIN ns |-> Chain(ns, n)]
<1>1. Ups(ns, up) /\ Ups(ns, chain)
  BY ChainUps
<1>2. Lineage(ns, id) = up[id]
  BY DEF Lineage, Ups
<1>3. up[id] = chain[id]
  <2> HIDE DEF up, chain
  <2>1. QED
    BY <1>1, OneUps
<1>4. QED
  BY <1>2, <1>3

(* What the proofs below need of it. *)
LEMMA LineageWithin ==
    ASSUME NEW ns, Rooted(ns), NEW C \in SUBSET DOMAIN ns, Closed(ns, C), NEW id \in C
    PROVE  Lineage(ns, id) \subseteq C /\ id \in Lineage(ns, id)
<1>1. Lineage(ns, id) = Chain(ns, id) /\ id \in DOMAIN ns
  BY LineageIsChain
<1>2. QED
  BY <1>1, ChainIsClosed DEF Chain

LEMMA LineageKept ==
    ASSUME NEW ns, NEW ms, Rooted(ns), Rooted(ms), Grown(ns, ms), NEW id \in DOMAIN ns
    PROVE  Lineage(ms, id) = Lineage(ns, id) /\ Lineage(ns, id) \subseteq DOMAIN ns
<1>1. /\ Lineage(ns, id) = Chain(ns, id)
      /\ Lineage(ms, id) = Chain(ms, id)
      /\ DOMAIN ns \subseteq DOMAIN ms
  BY LineageIsChain DEF Grown
<1>2. \A n \in DOMAIN ns : /\ ms[n].parent = ns[n].parent
                           /\ ns[n].parent \in DOMAIN ms <=> ns[n].parent \in DOMAIN ns
  <2>1. NoTaskShown \notin DOMAIN ms /\ NoTaskShown \notin DOMAIN ns
    BY DEF Rooted, NoTaskShown, Question
  <2>2. QED
    BY <1>1, <2>1 DEF Rooted, Grown
<1>3. ASSUME NEW x \in Chain(ms, id)
      PROVE  x \in Chain(ns, id)
  <2>1. Closed(ms, DOMAIN ns) /\ DOMAIN ns \in SUBSET DOMAIN ms
    BY <1>1, <1>2 DEF Closed
  <2>2. x \in DOMAIN ns
    BY <2>1 DEF Chain
  <2>3. ASSUME NEW C \in SUBSET DOMAIN ns, id \in C, Closed(ns, C)
        PROVE  x \in C
    <3>1. C \in SUBSET DOMAIN ms /\ Closed(ms, C)
      BY <1>1, <1>2, <2>3 DEF Closed
    <3>2. QED
      BY <2>3, <3>1 DEF Chain
  <2>4. QED
    BY <2>2, <2>3 DEF Chain
<1>4. ASSUME NEW x \in Chain(ns, id)
      PROVE  x \in Chain(ms, id)
  <2>1. x \in DOMAIN ms
    BY <1>1 DEF Chain
  <2>2. ASSUME NEW C \in SUBSET DOMAIN ms, id \in C, Closed(ms, C)
        PROVE  x \in C
    <3> DEFINE D == C \cap DOMAIN ns
    <3>1. D \in SUBSET DOMAIN ns /\ id \in D /\ Closed(ns, D)
      BY <1>1, <1>2, <2>2 DEF Closed
    <3>2. QED
      BY <3>1 DEF Chain
  <2>3. QED
    BY <2>1, <2>2 DEF Chain
<1>5. QED
  BY <1>1, <1>3, <1>4 DEF Chain

(* One node of another colour. *)
Recolour(ns, id, colour) == [ns EXCEPT ![id].status = colour]

Painted(ns, ms, id, colour) ==
    /\ DOMAIN ms = DOMAIN ns
    /\ ms[id].status = colour
    /\ \A n \in DOMAIN ns \ {id} : ms[n] = ns[n]
    /\ Rooted(ms)
    /\ Grown(ns, ms)

LEMMA RecolouredOne ==
    ASSUME NEW ns, Rooted(ns), NEW id \in DOMAIN ns \ {Question},
           NEW colour \in Statuses \ {"root"}
    PROVE  Painted(ns, Recolour(ns, id, colour), id, colour)
<1> DEFINE ms == Recolour(ns, id, colour)
<1>1. ns \in [DOMAIN ns -> Nodes] /\ ns[id] \in Nodes
  BY DEF Rooted
<1>2. /\ DOMAIN ms = DOMAIN ns
      /\ ms[id] = [ns[id] EXCEPT !.status = colour]
      /\ \A n \in DOMAIN ns \ {id} : ms[n] = ns[n]
  BY <1>1 DEF Recolour
<1> HIDE DEF ms
<1>3. /\ ms[id].status = colour /\ ms[id].parent = ns[id].parent
      /\ ms[id].depth = ns[id].depth /\ ms[id] \in Nodes
  BY <1>1, <1>2 DEF Nodes
<1>4. ms \in [DOMAIN ns -> Nodes]
  BY <1>1, <1>2, <1>3 DEF ms, Recolour
<1>5. Grown(ns, ms)
  BY <1>2, <1>3 DEF Grown
<1>6. \A n \in DOMAIN ms : ms[n].status = "root" <=> n = Question
  BY <1>2, <1>3 DEF Rooted
<1>7. Rooted(ms)
  BY <1>4, <1>5, <1>6, Recoloured
<1>8. Painted(ns, ms, id, colour)
  BY <1>2, <1>3, <1>5, <1>7 DEF Painted
<1>9. QED
  BY <1>8 DEF ms

(* A judgement recolours its task and hangs the stubs below it. *)
LEMMA JudgedNodes ==
    ASSUME NEW ns, Rooted(ns), NEW id \in DOMAIN ns \ {Question},
           NEW ids \in SUBSET Nat, \A n \in ids : n \notin DOMAIN ns
    PROVE  LET rs == Recolour(ns, id, "explored") IN
              /\ Painted(ns, rs, id, "explored")
              /\ Stubbed(rs, WithStubs(rs, ids, id), ids)
<1> DEFINE rs == Recolour(ns, id, "explored")
<1>1. "explored" \in Statuses \ {"root"}
  BY DEF Statuses
<1>2. Painted(ns, rs, id, "explored")
  BY <1>1, RecolouredOne
<1> HIDE DEF rs
<1>3. Rooted(rs) /\ id \in DOMAIN rs /\ \A n \in ids : n \notin DOMAIN rs
  BY <1>2 DEF Painted
<1>4. Stubbed(rs, WithStubs(rs, ids, id), ids)
  BY <1>3, AddedStubs
<1>5. QED
  BY <1>2, <1>4 DEF rs

(* An answer turns a set of nodes green. *)
LEMMA GreenedNodes ==
    ASSUME NEW ns, Rooted(ns), NEW G \in SUBSET (DOMAIN ns \ {Question})
    PROVE  \A ms : ms = [n \in DOMAIN ns |->
                           IF n \in G THEN [ns[n] EXCEPT !.status = "answer"] ELSE ns[n]] =>
              /\ DOMAIN ms = DOMAIN ns
              /\ \A n \in G : ms[n].status = "answer"
              /\ \A n \in DOMAIN ns \ G : ms[n] = ns[n]
              /\ Rooted(ms)
              /\ Grown(ns, ms)
<1> SUFFICES ASSUME NEW ms, ms = [n \in DOMAIN ns |->
                           IF n \in G THEN [ns[n] EXCEPT !.status = "answer"] ELSE ns[n]]
             PROVE  /\ DOMAIN ms = DOMAIN ns
                    /\ \A n \in G : ms[n].status = "answer"
                    /\ \A n \in DOMAIN ns \ G : ms[n] = ns[n]
                    /\ Rooted(ms)
                    /\ Grown(ns, ms)
  OBVIOUS
<1>1. ns \in [DOMAIN ns -> Nodes] /\ \A n \in DOMAIN ns : ns[n] \in Nodes
  BY DEF Rooted
<1>2. \A n \in DOMAIN ns : LET g == [ns[n] EXCEPT !.status = "answer"] IN
         /\ g \in Nodes
         /\ g.status = "answer"
         /\ g.parent = ns[n].parent
         /\ g.depth = ns[n].depth
  BY <1>1 DEF Nodes, Statuses
<1>3. /\ DOMAIN ms = DOMAIN ns
      /\ \A n \in G : ms[n] = [ns[n] EXCEPT !.status = "answer"]
      /\ \A n \in DOMAIN ns \ G : ms[n] = ns[n]
  OBVIOUS
<1>4. \A n \in G : ms[n].status = "answer"
  BY <1>2, <1>3
<1>5. ms \in [DOMAIN ns -> Nodes]
  BY <1>1, <1>2
<1>6. Grown(ns, ms)
  BY <1>2, <1>3 DEF Grown
<1>7. \A n \in DOMAIN ms : ms[n].status = "root" <=> n = Question
  BY <1>3, <1>4 DEF Rooted
<1>8. QED
  BY <1>3, <1>4, <1>5, <1>6, <1>7, Recoloured

-----------------------------------------------------------------------------
(* The invariant. *)

EngineInv == TypeOK /\ OnePlace /\ NoTaskLost /\ SearchTree /\ TreeInv /\ OrderInv

TaskIds == {t.id : t \in announced}

(* The area the page shows as current. *)
Busy == IF pc \in {"work", "judge", "aborted"} THEN {task.targetArea} ELSE {}

(* The numbers of the nodes: those to come are fresh, and a stub's is never *)
(* offered to the queue.                                                    *)
KeyInv ==
    /\ \A n \in DOMAIN nodes : n <= counter
    /\ \A d \in Proposals : d.id \in DOMAIN nodes => nodes[d.id].status # "rejected"
    /\ pc \in {"work", "judge"} => \A d \in Proposals : d.id \notin DOMAIN nodes
    /\ pc = "keywords" => DOMAIN nodes = {Question}

GraphInv ==
    /\ Rooted(nodes)
    /\ Shown = TaskIds
    /\ \A t \in announced :
          /\ nodes[t.id].parent = t.parent
          /\ nodes[t.id].depth = t.depth
          /\ t.id = 0 => t.parent = Question
          /\ nodes[t.id].status = "queued" <=> t.targetArea \in queuedAreas
          /\ nodes[t.id].status = "current" <=> t.targetArea \in Busy

CalloutInv ==
    /\ callout \in TaskIds \cup {NoTaskShown}
    /\ \A t \in announced : callout = t.id => t.id = task.id \/ t.targetArea \in visited
    /\ pc = "done" <=> bar = "done" /\ callout = NoTaskShown

GreenInv ==
    /\ found \subseteq TaskIds
    /\ GreenMeansFound

ViewInv == KeyInv /\ GraphInv /\ CalloutInv /\ GreenInv

LEMMA EngineFacts ==
    ASSUME EngineInv
    PROVE  /\ counter \in Nat
           /\ \A t \in announced : t \in Tasks /\ t.id \in Nat /\ t.id <= counter
           /\ \A s, t \in announced : s.id = t.id \/ s.targetArea = t.targetArea => s = t
           /\ AtWork => task \in announced
           /\ {t.targetArea : t \in announced} = Taken
           /\ \A d \in Proposals : d.id \in Nat /\ 0 < d.id /\ d.id <= counter
           /\ TaskIds \subseteq Nat
<1>1. /\ counter \in Nat
      /\ \A t \in announced : t \in Tasks /\ t.id \in Nat
  BY DEF EngineInv, TypeOK, Tasks
<1>2. \A d \in Proposals : d.id \in Nat
  BY ProposalsType DEF EngineInv, Directions
<1>3. QED
  BY <1>1, <1>2 DEF EngineInv, TreeInv, Sound, SearchTree, NoTaskLost, TaskIds

(* Every task announced has its node. *)
LEMMA NodeOfTask ==
    ASSUME EngineInv, GraphInv, NEW t \in announced
    PROVE  /\ t.id \in Shown
           /\ t.id \in DOMAIN nodes \ {Question}
<1>1. t.id \in TaskIds /\ t.id \in Nat
  BY EngineFacts DEF TaskIds
<1>2. QED
  BY <1>1 DEF GraphInv, Shown, Question

LEMMA BelowQuestion ==
    ASSUME NEW ns, Rooted(ns), NEW L \in SUBSET DOMAIN ns
    PROVE  {n \in L : ns[n].status # "root"} = L \ {Question}
<1>1. \A n \in L : ns[n].status = "root" <=> n = Question
  BY DEF Rooted
<1>2. QED
  BY <1>1

LEMMA PathKept ==
    ASSUME Rooted(nodes), Rooted(nodes'), Grown(nodes, nodes'), NEW m \in DOMAIN nodes
    PROVE  Path(m)' = Path(m) /\ Path(m) \subseteq DOMAIN nodes \ {Question}
<1>1. /\ Lineage(nodes', m) = Lineage(nodes, m)
      /\ Lineage(nodes, m) \in SUBSET DOMAIN nodes
      /\ DOMAIN nodes \subseteq DOMAIN nodes'
  BY LineageKept DEF Grown
<1>2. Path(m) = Lineage(nodes, m) \ {Question}
  BY <1>1, BelowQuestion DEF Path
<1>3. Path(m)' = Lineage(nodes', m) \ {Question}
  <2>1. Path(m)' = {n \in Lineage(nodes', m) : nodes'[n].status # "root"}
    BY DEF Path
  <2>2. Lineage(nodes', m) \in SUBSET DOMAIN nodes'
    BY <1>1
  <2>3. QED
    BY <2>1, <2>2, BelowQuestion
<1>4. QED
  BY <1>1, <1>2, <1>3

(* Green stays green as long as no step touches a green node or makes one.  *)
LEMMA GreenKept ==
    ASSUME EngineInv, GraphInv, GreenInv, Rooted(nodes'), Grown(nodes, nodes'),
           found' = found, announced \subseteq announced',
           \A n \in Shown' :
              \/ n \in Shown /\ (nodes'[n].status = "answer" <=> nodes[n].status = "answer")
              \/ n \notin DOMAIN nodes /\ nodes'[n].status # "answer"
    PROVE  GreenInv'
<1>1. \A m \in found : m \in DOMAIN nodes
  BY DEF GreenInv, GraphInv, Shown
<1>2. \A m \in found : Path(m)' = Path(m) /\ Path(m) \subseteq DOMAIN nodes
  BY <1>1, PathKept DEF GraphInv
<1>3. \A n \in Shown : nodes[n].status = "answer" <=> \E m \in found : n \in Path(m)
  BY DEF GreenInv, GreenMeansFound
<1>4. ASSUME NEW n \in Shown'
      PROVE  nodes'[n].status = "answer" <=> \E m \in found : n \in Path(m)
  <2>1. CASE n \in Shown /\ (nodes'[n].status = "answer" <=> nodes[n].status = "answer")
    BY <1>3, <2>1
  <2>2. CASE n \notin DOMAIN nodes /\ nodes'[n].status # "answer"
    <3>1. \A m \in found : Path(m) \subseteq DOMAIN nodes
      BY <1>2
    <3>2. QED
      BY <2>2, <3>1
  <2>3. QED
    BY <2>1, <2>2
<1>5. GreenMeansFound'
  <2>1. \A n \in Shown' : nodes'[n].status = "answer" <=> \E m \in found' : n \in Path(m)'
    BY <1>2, <1>4
  <2>2. QED
    BY <2>1 DEF GreenMeansFound
<1>6. (found \subseteq TaskIds)'
  BY DEF GreenInv, TaskIds
<1>7. QED
  BY <1>5, <1>6 DEF GreenInv

-----------------------------------------------------------------------------
(* A task is queued: its node is new, below that of the task at hand or     *)
(* below the question.                                                      *)

NewTask(t) ==
    /\ t \in Tasks
    /\ announced' = announced \cup {t}
    /\ t.id \notin DOMAIN nodes
    /\ t.id <= counter /\ counter' = counter
    /\ t.parent \in DOMAIN nodes
    /\ t.depth = nodes[t.parent].depth + 1
    /\ t.id = 0 => t.parent = Question
    /\ TaskQueued(t)
    /\ t.targetArea \notin queuedAreas \cup visited
    /\ queuedAreas' = queuedAreas \cup {t.targetArea}
    /\ visited' = visited /\ task' = task
    /\ pc \in {"keywords", "push"} /\ pc' \in {"head", "push"}
    /\ Proposals' \subseteq Proposals

LEMMA SeededIsNew ==
    ASSUME EngineInv, EngineInv', ViewInv, Seeded
    PROVE  \E t : NewTask(t)
<1>1. PICK targets \in SeedLists : /\ Push(SeedTask(targets))
                                  /\ announced' = {SeedTask(targets)}
  BY DEF Seeded, SeedProbe
<1> DEFINE t == SeedTask(targets)
<1>2. t \in Tasks /\ t.id = 0 /\ t.depth = 0 /\ t.parent = Question
  BY SeedListType DEF SeedTask, Question
<1>3. /\ pc = "keywords" /\ pc' = "head" /\ announced = {} /\ queue = <<>>
      /\ counter' = counter /\ task' = task
      /\ finding' = finding /\ pending' = pending
      /\ DOMAIN nodes = {Question}
  BY DEF Seeded, SeedProbe, EngineInv, TreeInv, OrderInv, ViewInv, KeyInv, loopVars
<1>4. queuedAreas = {} /\ visited = {}
  BY <1>3 DEF EngineInv, NoTaskLost, Taken
<1> HIDE DEF t
<1>5. queue' = Append(queue, t) /\ queuedAreas' = {t.targetArea} /\ visited' = {}
  BY <1>1, <1>4 DEF Push, Enqueue, Accepts, t
<1>6. Head(queue') = t
  BY <1>3, <1>5
<1>7. TaskQueued(t)
  BY <1>6 DEF Seeded
<1>8. nodes[Question].depth = -1 /\ counter \in Nat
  BY EngineFacts DEF ViewInv, GraphInv, Rooted
<1>9. Proposals' = Proposals
  BY <1>3 DEF Proposals, Elements
<1>10. NewTask(t)
  BY <1>1, <1>2, <1>3, <1>4, <1>5, <1>7, <1>8, <1>9 DEF NewTask, Question, t
<1>11. QED
  BY <1>10

(* What Pushed does if the direction is refused. *)
Unseen ==
    /\ UNCHANGED viewVars
    /\ UNCHANGED <<announced, queuedAreas, visited, task>>
    /\ pc' = pc

LEMMA PushedIsNew ==
    ASSUME EngineInv, EngineInv', ViewInv, Pushed
    PROVE  Unseen \/ \E t : NewTask(t)
<1> DEFINE d == Head(pending)
           t == DirectionTask(d)
<1>1. /\ pc = "push" /\ pc' = "push" /\ pending # <<>> /\ pending \in Seq(Directions)
      /\ Push(t) /\ announced' = announced \cup (IF Accepts(t) THEN {t} ELSE {})
      /\ counter' = counter /\ task' = task /\ finding' = finding /\ pending' = Tail(pending)
  BY DEF Pushed, PushDirection, AfterPush, EngineInv, TypeOK
<1>2. d \in Proposals /\ d \in Directions
  BY <1>1, ElementsOfTail, HeadTailProperties DEF Proposals
<1>3. /\ t \in Tasks /\ t.id = d.id /\ t.targetArea = d.targetArea
      /\ t.depth = task.depth + 1 /\ t.parent = task.id
  BY <1>2, DirectionTaskType DEF DirectionTask, EngineInv
<1>4. Pushed => IF announced' # announced THEN TaskQueued(t) ELSE UNCHANGED viewVars
  BY DEF Pushed
<1> HIDE DEF t, d
<1>5. CASE ~Accepts(t)
  BY <1>1, <1>4, <1>5 DEF Unseen, Push, Enqueue, queueVars
<1>6. CASE Accepts(t)
  <2>1. /\ t.targetArea \notin queuedAreas \cup visited
        /\ queuedAreas' = queuedAreas \cup {t.targetArea} /\ visited' = visited
        /\ announced' = announced \cup {t}
    BY <1>1, <1>6 DEF Push, Enqueue, Accepts
  <2>2. \A s \in announced : s.targetArea # t.targetArea /\ s.id # t.id
    <3>1. t.targetArea \notin Taken
      BY <1>1, <2>1 DEF Taken, Current
    <3>2. \A s \in announced : s.targetArea # t.targetArea
      BY <3>1 DEF EngineInv, NoTaskLost
    <3>3. \A s \in announced : d.id = s.id => d.targetArea = s.targetArea
      BY <1>2 DEF EngineInv, TreeInv, Sound
    <3>4. QED
      BY <1>3, <3>2, <3>3
  <2>3. t.id \notin DOMAIN nodes
    <3>1. t.id \notin Shown
      BY <2>2 DEF ViewInv, GraphInv, TaskIds
    <3>2. d.id \in DOMAIN nodes => nodes[d.id].status # "rejected"
      BY <1>2 DEF ViewInv, KeyInv
    <3>3. d.id # Question
      BY <1>2, EngineFacts DEF Question
    <3>4. d.id \in DOMAIN nodes => nodes[d.id].status # "root"
      BY <3>3 DEF ViewInv, GraphInv, Rooted
    <3>5. QED
      BY <1>3, <3>1, <3>2, <3>4 DEF Shown
  <2>4. TaskQueued(t)
    BY <1>4, <2>1, <2>2
  <2>5. task.id \in DOMAIN nodes /\ nodes[task.id].depth = task.depth
    <3>1. task \in announced
      BY <1>1, EngineFacts DEF AtWork
    <3>2. QED
      BY <3>1, NodeOfTask DEF ViewInv, GraphInv
  <2>6. t.id <= counter /\ t.id # 0
    BY <1>2, <1>3, EngineFacts
  <2>7. Proposals' \subseteq Proposals
    <3>1. Elements(Tail(pending)) \subseteq Elements(pending)
      BY <1>1, ElementsOfTail
    <3>2. Elements(pending') = Elements(Tail(pending)) /\ Elements(finding'.dirs) = Elements(finding.dirs)
      BY <1>1 DEF Elements
    <3>3. QED
      BY <3>1, <3>2 DEF Proposals, Elements
  <2>8. NewTask(t)
    BY <1>1, <1>3, <2>1, <2>3, <2>4, <2>5, <2>6, <2>7 DEF NewTask
  <2>9. QED
    BY <2>8
<1>7. QED
  BY <1>5, <1>6

LEMMA NewTaskStep ==
    ASSUME EngineInv, EngineInv', ViewInv, NEW t, NewTask(t)
    PROVE  ViewInv'
<1>1. /\ t.id \in Nat /\ t.id # Question /\ t.id \notin DOMAIN nodes
      /\ t.parent \in DOMAIN nodes /\ t.depth = nodes[t.parent].depth + 1
      /\ nodes' = AddNode(nodes, t.id, t.parent, "queued")
      /\ callout' = callout /\ bar' = bar /\ found' = found
      /\ announced' = announced \cup {t}
  BY DEF NewTask, TaskQueued, Tasks, Question
<1>2. Rooted(nodes) /\ "queued" \in Statuses \ {"root"}
  BY DEF ViewInv, GraphInv, Statuses
<1>3. /\ DOMAIN nodes' = DOMAIN nodes \cup {t.id}
      /\ nodes'[t.id] = [parent |-> t.parent, depth |-> nodes[t.parent].depth + 1,
                         status |-> "queued"]
      /\ \A n \in DOMAIN nodes : nodes'[n] = nodes[n]
      /\ Rooted(nodes')
      /\ Grown(nodes, nodes')
    <2>1. Added(nodes, AddNode(nodes, t.id, t.parent, "queued"), t.id,
              [parent |-> t.parent, depth |-> nodes[t.parent].depth + 1, status |-> "queued"])
    BY <1>1, <1>2, AddedNode
  <2>2. QED
    BY <1>1, <2>1 DEF Added
<1>4. /\ nodes'[t.id].status = "queued" /\ nodes'[t.id].parent = t.parent
      /\ nodes'[t.id].depth = t.depth
  BY <1>1, <1>3
<1>5. \A s \in announced : /\ s.id \in DOMAIN nodes
                           /\ nodes'[s.id] = nodes[s.id]
                           /\ s.targetArea # t.targetArea
  <2>1. \A s \in announced : s.id \in DOMAIN nodes
    BY NodeOfTask DEF ViewInv
  <2>2. t.targetArea \notin Taken
    BY DEF NewTask, Taken, Current
  <2>3. \A s \in announced : s.targetArea # t.targetArea
    BY <2>2, EngineFacts
  <2>4. QED
    BY <1>3, <2>1, <2>3
<1>6. KeyInv'
  <2>1. /\ counter' = counter /\ t.id <= counter /\ Proposals' \subseteq Proposals
        /\ pc' \notin {"work", "judge", "keywords"}
    BY DEF NewTask
  <2>2. \A n \in DOMAIN nodes' : n <= counter'
    BY <1>3, <2>1 DEF ViewInv, KeyInv
  <2>3. \A d \in Proposals' : d.id \in DOMAIN nodes' => nodes'[d.id].status # "rejected"
    BY <1>3, <1>4, <2>1 DEF ViewInv, KeyInv
  <2>4. QED
    BY <2>1, <2>2, <2>3 DEF KeyInv
<1>7. Shown' = Shown \cup {t.id}
  BY <1>1, <1>3, <1>4 DEF Shown
<1>8. GraphInv'
  <2>1. Busy = {} /\ Busy' = {}
    BY DEF NewTask, Busy
  <2>2. Shown' = TaskIds'
    BY <1>1, <1>7 DEF ViewInv, GraphInv, TaskIds
  <2>3. queuedAreas' = queuedAreas \cup {t.targetArea}
    BY DEF NewTask
  <2>4. ASSUME NEW s \in announced'
        PROVE  /\ nodes'[s.id].parent = s.parent
               /\ nodes'[s.id].depth = s.depth
               /\ s.id = 0 => s.parent = Question
               /\ nodes'[s.id].status = "queued" <=> s.targetArea \in queuedAreas'
               /\ nodes'[s.id].status = "current" <=> s.targetArea \in Busy'
    <3>1. CASE s \in announced
      BY <1>5, <2>1, <2>3, <3>1 DEF ViewInv, GraphInv
    <3>2. CASE s = t
      BY <1>4, <2>1, <2>3, <3>2 DEF NewTask
    <3>3. QED
      BY <1>1, <3>1, <3>2
  <2>5. QED
    BY <1>3, <2>2, <2>4 DEF GraphInv
<1>9. CalloutInv'
  <2>1. callout # t.id
    <3>1. callout \in TaskIds \cup {NoTaskShown} /\ TaskIds = Shown
      BY DEF ViewInv, CalloutInv, GraphInv
    <3>2. QED
      BY <1>1, <3>1 DEF Shown, NoTaskShown
  <2>2. /\ visited' = visited /\ task' = task
        /\ pc # "done" /\ pc' # "done"
    BY DEF NewTask
  <2>3. QED
    BY <1>1, <2>1, <2>2 DEF ViewInv, CalloutInv, TaskIds
<1>10. GreenInv'
  <2>1. ASSUME NEW n \in Shown'
        PROVE  \/ n \in Shown /\ (nodes'[n].status = "answer" <=> nodes[n].status = "answer")
               \/ n \notin DOMAIN nodes /\ nodes'[n].status # "answer"
    <3>1. CASE n \in Shown
      BY <1>3, <3>1 DEF Shown
    <3>2. CASE n = t.id
      BY <1>1, <1>4, <3>2
    <3>3. QED
      BY <1>7, <3>1, <3>2
  <2>2. announced \subseteq announced'
    BY <1>1
  <2>3. QED
    BY <1>1, <1>3, <2>1, <2>2, GreenKept DEF ViewInv
<1>11. QED
  BY <1>6, <1>8, <1>9, <1>10 DEF ViewInv

-----------------------------------------------------------------------------
(* A task is started: its node was queued and becomes the current one.      *)

LEMMA StartedStep ==
    ASSUME EngineInv, EngineInv', ViewInv, Started
    PROVE  ViewInv'
<1> DEFINE t == Head(queue)
<1>1. /\ pc = "head" /\ pc' = "work" /\ queue # <<>> /\ task' = t
      /\ queuedAreas' = queuedAreas \ {t.targetArea} /\ visited' = visited
      /\ counter' = counter /\ announced' = announced
      /\ finding' = finding /\ pending' = pending
  BY DEF Started, StartTask, Pop, historyVars
<1>2. /\ nodes' = [nodes EXCEPT ![t.id].status = "current"]
      /\ callout' = t.id /\ bar' = bar /\ found' = found
  BY <1>1 DEF Started, TaskStarted
<1>3. t \in announced /\ t.targetArea \in queuedAreas
  <2>1. t \in Elements(queue) /\ queuedAreas = AreasOf(queue)
    BY <1>1, ElementsOfTail DEF EngineInv, TypeOK, OnePlace
  <2>2. t \in announced
    BY <2>1 DEF EngineInv, SearchTree, Elements
  <2>3. t.targetArea \in AreasOf(queue)
    BY <2>1 DEF Elements, AreasOf
  <2>4. QED
    BY <2>1, <2>2, <2>3
<1> HIDE DEF t
<1>4. t.id \in DOMAIN nodes \ {Question} /\ t.id \in Shown /\ t.id \in Nat
  BY <1>3, NodeOfTask, EngineFacts DEF ViewInv
<1>5. Rooted(nodes) /\ "current" \in Statuses \ {"root"}
  BY DEF ViewInv, GraphInv, Statuses
<1>6. /\ DOMAIN nodes' = DOMAIN nodes
      /\ nodes'[t.id].status = "current"
      /\ \A n \in DOMAIN nodes \ {t.id} : nodes'[n] = nodes[n]
      /\ Rooted(nodes')
      /\ Grown(nodes, nodes')
    <2>1. Painted(nodes, Recolour(nodes, t.id, "current"), t.id, "current")
    BY <1>4, <1>5, RecolouredOne
  <2>2. nodes' = Recolour(nodes, t.id, "current")
    BY <1>2 DEF Recolour
  <2>3. QED
    BY <2>1, <2>2 DEF Painted
<1>7. Shown' = Shown
  BY <1>4, <1>6 DEF Shown
<1>8. KeyInv'
  <2>1. Proposals = {}
    BY <1>1, NoProposals DEF EngineInv, TreeInv
  <2>2. Proposals' = {}
    BY <1>1, <2>1 DEF Proposals, Elements
  <2>3. QED
    BY <1>1, <1>6, <2>2 DEF ViewInv, KeyInv
<1>9. GraphInv'
  <2>1. Busy = {} /\ Busy' = {t.targetArea}
    BY <1>1 DEF Busy
  <2>2. Shown' = TaskIds'
    BY <1>1, <1>7 DEF ViewInv, GraphInv, TaskIds
  <2>3. ASSUME NEW s \in announced'
        PROVE  /\ nodes'[s.id].parent = s.parent
               /\ nodes'[s.id].depth = s.depth
               /\ s.id = 0 => s.parent = Question
               /\ nodes'[s.id].status = "queued" <=> s.targetArea \in queuedAreas'
               /\ nodes'[s.id].status = "current" <=> s.targetArea \in Busy'
    <3>0. s \in announced
      BY <1>1
    <3>1. s.id \in DOMAIN nodes
      BY <3>0, NodeOfTask DEF ViewInv
    <3>2. nodes'[s.id].parent = nodes[s.id].parent /\ nodes'[s.id].depth = nodes[s.id].depth
      BY <1>6, <3>1 DEF Grown
    <3>3. CASE s = t
      BY <1>1, <1>6, <2>1, <3>0, <3>2, <3>3 DEF ViewInv, GraphInv
    <3>4. CASE s # t
      <4>1. s.id # t.id /\ s.targetArea # t.targetArea
        BY <1>3, <3>0, <3>4, EngineFacts
      <4>2. QED
        BY <1>1, <1>6, <2>1, <3>0, <3>1, <3>2, <4>1 DEF ViewInv, GraphInv
    <3>5. QED
      BY <3>3, <3>4
  <2>4. QED
    BY <1>6, <2>2, <2>3 DEF GraphInv
<1>10. CalloutInv'
  <2>1. callout' \in TaskIds' /\ callout' # NoTaskShown
    BY <1>1, <1>2, <1>3, <1>4 DEF TaskIds, NoTaskShown
  <2>2. QED
    BY <1>1, <1>2, <2>1 DEF CalloutInv
<1>11. GreenInv'
  <2>1. ASSUME NEW n \in Shown'
        PROVE  n \in Shown /\ (nodes'[n].status = "answer" <=> nodes[n].status = "answer")
    <3>1. nodes[t.id].status = "queued"
      BY <1>3 DEF ViewInv, GraphInv
    <3>2. QED
      BY <1>6, <1>7, <3>1 DEF Shown
  <2>2. announced \subseteq announced'
    BY <1>1
  <2>3. QED
    BY <1>2, <1>6, <2>1, <2>2, GreenKept DEF ViewInv
<1>12. QED
  BY <1>8, <1>9, <1>10, <1>11 DEF ViewInv

-----------------------------------------------------------------------------
(* A finding is judged: its task is explored, and what the judge left out   *)
(* becomes stubs.                                                           *)

LEMMA JudgedStep ==
    ASSUME EngineInv, EngineInv', ViewInv, Judged
    PROVE  ViewInv'
<1>0. PICK S : S = Pruned(IdsOf(finding.dirs), IdsOf(finding'.dirs))
  OBVIOUS
<1>1. /\ pc = "judge" /\ pc' = "record" /\ task' = task
      /\ queuedAreas' = queuedAreas /\ visited' = visited
      /\ counter' = counter /\ announced' = announced /\ pending' = pending
  BY DEF Judged, JudgePasses, JudgePrunes, queueVars, historyVars
<1>2. /\ nodes' = WithStubs([nodes EXCEPT ![task.id].status = "explored"], S, task.id)
      /\ callout' = callout /\ bar' = bar /\ found' = found
  BY <1>0 DEF Judged, JudgeResult
<1>3. Proposals' \subseteq Proposals
  <2>1. [Next]_vars /\ ~ModelAnswers
    BY DEF Judged, Next, EngineStep, JudgePasses, JudgePrunes, ModelAnswers, Investigated
  <2>2. QED
    BY <2>1, OldDirections DEF EngineInv, TreeInv
<1>4. /\ Proposals = Elements(finding.dirs)
      /\ Proposals' = Elements(finding'.dirs)
  <2>1. pending = <<>> /\ pending' = <<>>
    BY <1>1 DEF EngineInv, TreeInv, Idle
  <2>2. Elements(pending) = {} /\ Elements(pending') = {}
    BY <2>1, NoElements
  <2>3. QED
    BY <2>2 DEF Proposals, Elements
<1>5. /\ IdsOf(finding.dirs) = {d.id : d \in Proposals}
      /\ IdsOf(finding'.dirs) = {d.id : d \in Proposals'}
  BY <1>4 DEF IdsOf, Elements
<1>6. /\ S \in SUBSET Nat
      /\ \A n \in S : n \notin DOMAIN nodes
      /\ \A n \in S : n <= counter
      /\ \A d \in Proposals' : d.id \notin S
  BY <1>0, <1>1, <1>3, <1>5, EngineFacts DEF ViewInv, KeyInv, Pruned
<1>7. /\ task \in announced /\ task.id \in DOMAIN nodes \ {Question}
      /\ task.id \in Shown
  BY <1>1, NodeOfTask, EngineFacts DEF ViewInv, AtWork
<1>8. Rooted(nodes)
  BY DEF ViewInv, GraphInv
<1>9. /\ DOMAIN nodes' = DOMAIN nodes \cup S
      /\ nodes'[task.id].status = "explored"
      /\ \A n \in S : nodes'[n].status = "rejected"
      /\ \A n \in DOMAIN nodes \ {task.id} : nodes'[n] = nodes[n]
      /\ Rooted(nodes')
      /\ Grown(nodes, nodes')
  <2> DEFINE rs == Recolour(nodes, task.id, "explored")
  <2>1. nodes' = WithStubs(rs, S, task.id)
    BY <1>2 DEF Recolour
  <2>2. /\ Painted(nodes, rs, task.id, "explored")
        /\ Stubbed(rs, WithStubs(rs, S, task.id), S)
    BY <1>6, <1>7, <1>8, JudgedNodes
  <2> HIDE DEF rs
  <2>3. Stubbed(rs, nodes', S)
    BY <2>1, <2>2
  <2>4. QED
    BY <1>7, <2>2, <2>3 DEF Painted, Stubbed, Grown
<1>10. Shown' = Shown
  BY <1>6, <1>7, <1>9 DEF Shown
<1>11. KeyInv'
  <2>1. \A n \in DOMAIN nodes' : n <= counter'
    BY <1>1, <1>6, <1>9 DEF ViewInv, KeyInv
  <2>2. \A d \in Proposals' : d.id \notin DOMAIN nodes'
    BY <1>1, <1>3, <1>6, <1>9 DEF ViewInv, KeyInv
  <2>3. QED
    BY <1>1, <2>1, <2>2 DEF KeyInv
<1>12. GraphInv'
  <2>1. Busy = {task.targetArea} /\ Busy' = {} /\ task.targetArea \notin queuedAreas
    BY <1>1 DEF Busy, EngineInv, OnePlace, Current
  <2>2. Shown' = TaskIds'
    BY <1>1, <1>10 DEF ViewInv, GraphInv, TaskIds
  <2>3. ASSUME NEW s \in announced'
        PROVE  /\ nodes'[s.id].parent = s.parent
               /\ nodes'[s.id].depth = s.depth
               /\ s.id = 0 => s.parent = Question
               /\ nodes'[s.id].status = "queued" <=> s.targetArea \in queuedAreas'
               /\ nodes'[s.id].status = "current" <=> s.targetArea \in Busy'
    <3>0. s \in announced
      BY <1>1
    <3>1. s.id \in DOMAIN nodes
      BY <3>0, NodeOfTask DEF ViewInv
    <3>2. nodes'[s.id].parent = nodes[s.id].parent /\ nodes'[s.id].depth = nodes[s.id].depth
      BY <1>9, <3>1 DEF Grown
    <3>3. CASE s = task
      BY <1>1, <1>9, <2>1, <3>0, <3>2, <3>3 DEF ViewInv, GraphInv
    <3>4. CASE s # task
      <4>1. s.id # task.id /\ s.targetArea # task.targetArea
        BY <1>7, <3>0, <3>4, EngineFacts
      <4>2. QED
        BY <1>1, <1>9, <2>1, <3>0, <3>1, <3>2, <4>1 DEF ViewInv, GraphInv
    <3>5. QED
      BY <3>3, <3>4
  <2>4. QED
    BY <1>9, <2>2, <2>3 DEF GraphInv
<1>13. CalloutInv'
  BY <1>1, <1>2 DEF ViewInv, CalloutInv, TaskIds
<1>14. GreenInv'
  <2>1. ASSUME NEW n \in Shown'
        PROVE  n \in Shown /\ (nodes'[n].status = "answer" <=> nodes[n].status = "answer")
    <3>1. nodes[task.id].status = "current"
      BY <1>1, <1>7 DEF ViewInv, GraphInv, Busy
    <3>2. QED
      BY <1>9, <1>10, <3>1 DEF Shown
  <2>2. announced \subseteq announced'
    BY <1>1
  <2>3. QED
    BY <1>2, <1>9, <2>1, <2>2, GreenKept DEF ViewInv
<1>15. QED
  BY <1>11, <1>12, <1>13, <1>14 DEF ViewInv

-----------------------------------------------------------------------------
(* A success: its node and those above it, none of which can be queued or   *)
(* current any more, turn green.                                            *)

LEMMA SucceededStep ==
    ASSUME EngineInv, EngineInv', ViewInv, Succeeded
    PROVE  ViewInv'
<1>0. PICK m0 : m0 = task.id
  OBVIOUS
<1> DEFINE G == Path(m0)
           Past == {t \in announced : t.targetArea \in visited \cup {task.targetArea}}
           C == {Question} \cup {t.id : t \in Past}
<1>1. /\ pc = "record" /\ pc' = "head"
      /\ visited' = visited \cup {task.targetArea} /\ queuedAreas' = queuedAreas
      /\ counter' = counter /\ announced' = announced
  BY DEF Succeeded, RecordSuccess, CountIteration, EndIteration, MarkVisited, historyVars
<1>2. /\ nodes' = [n \in DOMAIN nodes |->
                     IF n \in G THEN [nodes[n] EXCEPT !.status = "answer"] ELSE nodes[n]]
      /\ callout' = callout /\ bar' = bar /\ found' = found \cup {m0}
  BY <1>0 DEF Succeeded, AnswerProgress, Greened
<1>3. Proposals' \subseteq Proposals
  <2>1. [Next]_vars /\ ~ModelAnswers
    BY <1>1 DEF Succeeded, Next, EngineStep, ModelAnswers, Investigated
  <2>2. QED
    BY <2>1, OldDirections DEF EngineInv, TreeInv
<1>4. Rooted(nodes)
  BY DEF ViewInv, GraphInv
<1>5. task \in announced /\ task \in Past
  BY <1>1, EngineFacts DEF AtWork
<1>6. C \in SUBSET DOMAIN nodes /\ C \ {Question} \subseteq Shown
  <2>1. \A t \in announced : t.id \in DOMAIN nodes /\ t.id \in Shown
    BY NodeOfTask DEF ViewInv
  <2>2. QED
    BY <1>4, <2>1 DEF Rooted
<1>7. Closed(nodes, C)
  <2>1. nodes[Question].parent \notin DOMAIN nodes
    BY <1>4 DEF Rooted, NoTaskShown, Question
  <2>2. \A t \in Past : nodes[t.id].parent \in C
    <3> SUFFICES ASSUME NEW t \in Past PROVE nodes[t.id].parent \in C
      OBVIOUS
    <3>1. nodes[t.id].parent = t.parent /\ (t.id = 0 => t.parent = Question)
      BY DEF ViewInv, GraphInv
    <3>2. t.id # 0 => \E p \in announced : p.id = t.parent /\ p.targetArea \in visited
      BY DEF EngineInv, SearchTree
    <3>3. QED
      BY <3>1, <3>2
  <2> HIDE DEF Past
  <2>3. QED
    BY <2>1, <2>2 DEF Closed
<1>8. m0 \in C
  BY <1>0, <1>5
<1>9. G \in SUBSET (C \ {Question})
  <2>1. G = {n \in Lineage(nodes, m0) : nodes[n].status # "root"}
    BY DEF Path
  <2> HIDE DEF C, G
  <2>2. Lineage(nodes, m0) \subseteq C
    BY <1>4, <1>6, <1>7, <1>8, LineageWithin
  <2>3. Lineage(nodes, m0) \in SUBSET DOMAIN nodes
    BY <1>6, <2>2
  <2>4. G = Lineage(nodes, m0) \ {Question}
    BY <1>4, <2>1, <2>3, BelowQuestion
  <2>5. QED
    BY <2>2, <2>4
<1>10. G \in SUBSET (DOMAIN nodes \ {Question}) /\ G \subseteq Shown
  BY <1>6, <1>9
<1>11. \A s \in announced : s.id \in G => s.targetArea \notin queuedAreas
  <2>1. \A t \in Past : t.targetArea \notin queuedAreas
    BY <1>1 DEF EngineInv, OnePlace, Current
  <2>2. ASSUME NEW s \in announced, s.id \in G
        PROVE  s \in Past
    <3>1. s.id # Question /\ s.id \in C
      BY <1>9, <2>2
    <3>2. PICK t \in Past : t.id = s.id
      BY <3>1
    <3>3. t = s
      BY <3>2, EngineFacts
    <3>4. QED
      BY <3>2, <3>3
  <2>3. QED
    BY <2>1, <2>2
<1> HIDE DEF G, C, Past
<1>12. /\ DOMAIN nodes' = DOMAIN nodes
       /\ \A n \in G : nodes'[n].status = "answer"
       /\ \A n \in DOMAIN nodes \ G : nodes'[n] = nodes[n]
       /\ Rooted(nodes')
       /\ Grown(nodes, nodes')
  <2>1. \A ms : ms = [n \in DOMAIN nodes |->
                        IF n \in G THEN [nodes[n] EXCEPT !.status = "answer"] ELSE nodes[n]] =>
              /\ DOMAIN ms = DOMAIN nodes
              /\ \A n \in G : ms[n].status = "answer"
              /\ \A n \in DOMAIN nodes \ G : ms[n] = nodes[n]
              /\ Rooted(ms)
              /\ Grown(nodes, ms)
    BY <1>4, <1>10, GreenedNodes
  <2>2. QED
    BY <1>2, <2>1
<1>13. Shown' = Shown
  BY <1>10, <1>12 DEF Shown
<1>14. KeyInv'
  BY <1>1, <1>3, <1>12 DEF ViewInv, KeyInv
<1>15. GraphInv'
  <2>1. Busy = {} /\ Busy' = {}
    BY <1>1 DEF Busy
  <2>2. Shown' = TaskIds'
    BY <1>1, <1>13 DEF ViewInv, GraphInv, TaskIds
  <2>3. ASSUME NEW s \in announced'
        PROVE  /\ nodes'[s.id].parent = s.parent
               /\ nodes'[s.id].depth = s.depth
               /\ s.id = 0 => s.parent = Question
               /\ nodes'[s.id].status = "queued" <=> s.targetArea \in queuedAreas'
               /\ nodes'[s.id].status = "current" <=> s.targetArea \in Busy'
    <3>0. s \in announced
      BY <1>1
    <3>1. s.id \in DOMAIN nodes
      BY <3>0, NodeOfTask DEF ViewInv
    <3>2. nodes'[s.id].parent = nodes[s.id].parent /\ nodes'[s.id].depth = nodes[s.id].depth
      BY <1>12, <3>1 DEF Grown
    <3>3. CASE s.id \in G
      BY <1>1, <1>11, <1>12, <2>1, <3>0, <3>2, <3>3 DEF ViewInv, GraphInv
    <3>4. CASE s.id \notin G
      BY <1>1, <1>12, <2>1, <3>0, <3>1, <3>2, <3>4 DEF ViewInv, GraphInv
    <3>5. QED
      BY <3>3, <3>4
  <2>4. QED
    BY <1>12, <2>2, <2>3 DEF GraphInv
<1>16. CalloutInv'
  <2>1. ASSUME NEW t \in announced, callout = t.id
        PROVE  t.targetArea \in visited'
    <3>1. t.id = task.id \/ t.targetArea \in visited
      BY <2>1 DEF ViewInv, CalloutInv
    <3>2. t.id = task.id => t = task
      BY <1>5, EngineFacts
    <3>3. QED
      BY <1>1, <3>1, <3>2
  <2>2. QED
    BY <1>1, <1>2, <2>1 DEF ViewInv, CalloutInv, TaskIds
<1>17. GreenInv'
  <2>1. \A m \in found : m \in DOMAIN nodes
    BY DEF ViewInv, GreenInv, GraphInv, Shown
  <2>2. m0 \in DOMAIN nodes
    BY <1>0, <1>5, NodeOfTask DEF ViewInv
  <2>3. \A m \in DOMAIN nodes : Path(m)' = Path(m)
    BY <1>4, <1>12, PathKept
  <2>4. \A n \in Shown : nodes[n].status = "answer" <=> \E m \in found : n \in Path(m)
    BY DEF ViewInv, GreenInv, GreenMeansFound
  <2>5. ASSUME NEW n \in Shown'
        PROVE  nodes'[n].status = "answer" <=> \E m \in found' : n \in Path(m)'
    <3>1. n \in Shown /\ n \in DOMAIN nodes
      BY <1>13, <2>5 DEF Shown
    <3>2. (\E m \in found' : n \in Path(m)') <=> (\E m \in found : n \in Path(m)) \/ n \in G
      <4>1. \A m \in found' : m \in found \/ m = m0
        BY <1>2
      <4>2. m0 \in found' /\ found \subseteq found'
        BY <1>2
      <4>3. Path(m0)' = G
        BY <2>2, <2>3 DEF G
      <4>4. \A m \in found : Path(m)' = Path(m)
        BY <2>1, <2>3
      <4>5. QED
        BY <4>1, <4>2, <4>3, <4>4 DEF G
    <3>3. QED
      BY <1>12, <2>4, <3>1, <3>2
  <2>6. GreenMeansFound'
    BY <2>5 DEF GreenMeansFound
  <2>7. (found \subseteq TaskIds)'
    BY <1>0, <1>1, <1>2, <1>5 DEF ViewInv, GreenInv, TaskIds
  <2>8. QED
    BY <2>6, <2>7 DEF GreenInv
<1>18. QED
  BY <1>14, <1>15, <1>16, <1>17 DEF ViewInv

-----------------------------------------------------------------------------
(* The other steps leave the nodes alone. *)

LEMMA SameNodes ==
    ASSUME EngineInv, EngineInv', ViewInv,
           nodes' = nodes, found' = found, callout' \in {callout, NoTaskShown},
           announced' = announced, queuedAreas' = queuedAreas, visited \subseteq visited',
           counter' >= counter,
           \A d \in Proposals' : d \in Proposals \/ d.id > counter,
           Busy' = Busy,
           pc' = "keywords" => pc = "keywords",
           pc' \in {"work", "judge"} => pc \in {"work", "judge"},
           task' = task \/ (task \in announced /\ task.targetArea \in visited'),
           pc' = "done" <=> bar' = "done" /\ callout' = NoTaskShown
    PROVE  ViewInv'
<1>1. /\ counter \in Nat /\ counter' \in Nat
      /\ \A n \in DOMAIN nodes : n \in Int
      /\ \A d \in Proposals' : d.id \in Nat
  <2>1. counter \in Nat /\ counter' \in Nat
    BY DEF EngineInv, TypeOK
  <2>2. \A n \in DOMAIN nodes : n \in Int
    BY DEF ViewInv, GraphInv, Rooted, Question
  <2>3. \A d \in Proposals' : d.id \in Nat
    <3>1. finding'.dirs \in Seq(Directions) /\ pending' \in Seq(Directions)
      BY DEF EngineInv, TypeOK, Findings
    <3>2. Elements(finding'.dirs) \subseteq Directions /\ Elements(pending') \subseteq Directions
      BY <3>1, ElementOfSeq, LenProperties DEF Elements
    <3>3. Proposals' = Elements(finding'.dirs) \cup Elements(pending')
      BY DEF Proposals, Elements
    <3>4. QED
      BY <3>2, <3>3 DEF Directions
  <2>4. QED
    BY <2>1, <2>2, <2>3
<1>2. KeyInv'
  <2>1. \A n \in DOMAIN nodes : n <= counter /\ n <= counter'
    BY <1>1 DEF ViewInv, KeyInv
  <2>2. \A d \in Proposals' : d \notin Proposals => d.id \notin DOMAIN nodes
    BY <1>1, <2>1
  <2>3. QED
    BY <2>1, <2>2 DEF ViewInv, KeyInv
<1>3. GraphInv'
  BY DEF ViewInv, GraphInv, Shown, TaskIds
<1>4. CalloutInv'
  <2>1. callout' \in TaskIds' \cup {NoTaskShown}
    BY DEF ViewInv, CalloutInv, TaskIds
  <2>2. ASSUME NEW t \in announced, callout' = t.id
        PROVE  t.id = task'.id \/ t.targetArea \in visited'
    <3>1. t.id # NoTaskShown
      BY EngineFacts DEF NoTaskShown
    <3>2. t.id = task.id \/ t.targetArea \in visited
      BY <2>2, <3>1 DEF ViewInv, CalloutInv
    <3>3. t.id = task.id /\ task \in announced => t = task
      BY EngineFacts
    <3>4. QED
      BY <3>2, <3>3
  <2>3. QED
    BY <2>1, <2>2 DEF CalloutInv
<1>5. GreenInv'
  <2>1. Rooted(nodes') /\ Grown(nodes, nodes')
    BY DEF ViewInv, GraphInv, Grown
  <2>2. Shown' = Shown
    BY DEF Shown
  <2>3. QED
    BY <2>1, <2>2, GreenKept DEF ViewInv
<1>6. QED
  BY <1>2, <1>3, <1>4, <1>5 DEF ViewInv

(* No step of those whose events change the nodes. *)
Others ==
    /\ ~SeedProbe /\ ~StartTask /\ ~PushDirection
    /\ ~JudgePasses /\ ~JudgePrunes
    /\ ~RecordSuccess

(* What the other steps do to the engine. *)
LEMMA SilentFacts ==
    ASSUME EngineInv, EngineInv', [Next]_vars, Others
    PROVE  /\ announced' = announced /\ queuedAreas' = queuedAreas
           /\ visited \subseteq visited'
           /\ counter' >= counter
           /\ \A d \in Proposals' : d \in Proposals \/ d.id > counter
           /\ Busy' = Busy
           /\ pc' = "keywords" => pc = "keywords"
           /\ pc' \in {"work", "judge"} => pc \in {"work", "judge"}
           /\ task' = task \/ (task \in announced /\ task.targetArea \in visited')
<1>1. announced' = announced
  BY Announces DEF EngineInv, Others
<1>2. queuedAreas' = queuedAreas
  BY SearchSteps, RecordEnds DEF EngineInv, Others, Quiet, queueVars, Record
<1>3. visited \subseteq visited'
  BY VisitedGrows DEF EngineInv
<1>4. counter' >= counter /\ \A d \in Proposals' : d \in Proposals \/ d.id > counter
  <2>0. counter \in Nat
    BY DEF EngineInv, TypeOK
  <2>1. CASE ModelAnswers
    <3>1. PICK D : Numbered(D) /\ Proposals' \subseteq Proposals \cup D
      BY <2>1, NewDirections DEF EngineInv
    <3>2. counter' \in Nat /\ counter' >= counter
      BY <2>1, NewDirections DEF EngineInv, TypeOK
    <3>3. QED
      BY <2>0, <3>1, <3>2 DEF Numbered
  <2>2. CASE ~ModelAnswers
    <3>1. Proposals' \subseteq Proposals /\ counter' = counter
      BY <2>2, OldDirections DEF EngineInv, TreeInv
    <3>2. QED
      BY <2>0, <3>1
  <2>3. QED
    BY <2>1, <2>2
<1> USE DEF queueVars, loopVars, resultVars, historyVars, Busy
<1>5. /\ Busy' = Busy
      /\ pc' = "keywords" => pc = "keywords"
      /\ pc' \in {"work", "judge"} => pc \in {"work", "judge"}
      /\ task' = task \/ (AtWork /\ (pc # "push" => visited' = visited \cup {task.targetArea}))
  <2>1. CASE Tick \/ UNCHANGED vars
    BY <2>1 DEF Tick, vars
  <2>2. CASE ScanFindsNothing \/ ModelFails \/ ModelAnswers
    BY <2>2 DEF ScanFindsNothing, ModelFails, ModelAnswers, Investigated
  <2>3. CASE PromptNotSerializable
    BY <2>3 DEF PromptNotSerializable
  <2>4. CASE RecordPartial \/ RecordNothing
    BY <2>4 DEF RecordPartial, RecordNothing, CountIteration, EndIteration, MarkVisited, AtWork
  <2>5. CASE NothingMatches \/ QueueDrained \/ OutOfIterations \/ OutOfTime
    BY <2>5 DEF NothingMatches, QueueDrained, OutOfIterations, OutOfTime
  <2>6. CASE DirectionsPushed \/ Finish
    BY <2>6 DEF DirectionsPushed, EndIteration, Finish, AtWork
  <2>7. QED
    BY <2>1, <2>2, <2>3, <2>4, <2>5, <2>6 DEF Next, EngineStep, Others
<1>6. AtWork => task \in announced
  BY EngineFacts
<1>7. pc = "push" => task.targetArea \in visited
  BY DEF EngineInv, TreeInv
<1>8. QED
  BY <1>1, <1>2, <1>3, <1>4, <1>5, <1>6, <1>7

LEMMA SilentStep ==
    ASSUME EngineInv, EngineInv', ViewInv, Silent
    PROVE  ViewInv'
<1> USE DEF queueVars, loopVars, resultVars, historyVars
<1>1. [Next]_vars
  BY DEF Silent, Next, EngineStep
<1>2. (pc' = "done" <=> pc = "done")
  <2>1. CASE ScanFindsNothing \/ ModelFails \/ ModelAnswers
    BY <2>1 DEF ScanFindsNothing, ModelFails, ModelAnswers, Investigated
  <2>2. CASE QueueDrained \/ OutOfIterations \/ OutOfTime \/ PromptNotSerializable \/ Tick
    BY <2>2 DEF QueueDrained, OutOfIterations, OutOfTime, PromptNotSerializable, Tick
  <2>3. CASE RecordPartial \/ RecordNothing \/ DirectionsPushed
    BY <2>3 DEF RecordPartial, RecordNothing, DirectionsPushed, CountIteration, EndIteration
  <2>4. QED
    BY <2>1, <2>2, <2>3 DEF Silent
<1>3. Others
  <2> USE DEF Others, SeedProbe, StartTask, JudgePasses, JudgePrunes, RecordSuccess,
              CountIteration, PushDirection
  <2>1. CASE ScanFindsNothing \/ ModelFails \/ ModelAnswers \/ PromptNotSerializable
    <3>1. pc = "work"
      BY <2>1 DEF ScanFindsNothing, ModelFails, ModelAnswers, PromptNotSerializable, Investigated
    <3>2. QED
      BY <3>1
  <2>2. CASE QueueDrained \/ OutOfIterations \/ OutOfTime
    <3>1. pc = "head" /\ pc' = "finish"
      BY <2>2 DEF QueueDrained, OutOfIterations, OutOfTime
    <3>2. QED
      BY <3>1
  <2>3. CASE Tick
    <3>0. clock \in Nat
      BY DEF EngineInv, TypeOK
    <3>1. clock' = clock + 1 /\ clock' # clock
      BY <2>3, <3>0 DEF Tick
    <3>2. QED
      BY <3>1
  <2>4. CASE RecordPartial \/ RecordNothing
    <3>1. pc = "record" /\ finding.outcome # "success"
      BY <2>4 DEF RecordPartial, RecordNothing, CountIteration
    <3>2. QED
      BY <3>1
  <2>5. CASE DirectionsPushed
    <3>1. pc = "push" /\ pc' = "head"
      BY <2>5 DEF DirectionsPushed, EndIteration
    <3>2. QED
      BY <3>1
  <2>6. QED
    BY <2>1, <2>2, <2>3, <2>4, <2>5 DEF Silent
<1>4. nodes' = nodes /\ found' = found /\ callout' = callout /\ bar' = bar
  BY DEF Silent, viewVars
<1>5. pc' = "done" <=> bar' = "done" /\ callout' = NoTaskShown
  BY <1>2, <1>4 DEF ViewInv, CalloutInv
<1>6. QED
  BY <1>1, <1>3, <1>4, <1>5, SilentFacts, SameNodes

LEMMA CompletedStep ==
    ASSUME EngineInv, EngineInv', ViewInv, Completed
    PROVE  ViewInv'
<1>1. [Next]_vars /\ pc \in {"keywords", "finish"} /\ pc' = "done"
  BY DEF Completed, Next, EngineStep, NothingMatches, Finish
<1>2. Others
  BY <1>1 DEF Others, SeedProbe, StartTask, JudgePasses, JudgePrunes, RecordSuccess,
              CountIteration, PushDirection
<1>3. nodes' = nodes /\ found' = found /\ callout' = NoTaskShown /\ bar' = "done"
  BY DEF Completed, Complete
<1>4. QED
  BY <1>1, <1>2, <1>3, SilentFacts, SameNodes

LEMMA UnseenStep ==
    ASSUME EngineInv, EngineInv', ViewInv, PushDirection, Unseen
    PROVE  ViewInv'
<1>1. Proposals' \subseteq Proposals /\ counter' = counter
  <2>1. [Next]_vars /\ ~ModelAnswers
    BY DEF PushDirection, Next, EngineStep, ModelAnswers, Investigated
  <2>2. QED
    BY <2>1, OldDirections DEF EngineInv, TreeInv
<1>2. Busy' = Busy
  BY DEF Unseen, Busy
<1>3. counter \in Nat
  BY DEF EngineInv, TypeOK
<1>4. pc' = "done" <=> bar' = "done" /\ callout' = NoTaskShown
  BY DEF Unseen, viewVars, ViewInv, CalloutInv
<1>5. QED
  BY <1>1, <1>2, <1>3, <1>4, SameNodes DEF Unseen, viewVars

LEMMA ViewInvStep ==
    ASSUME EngineInv, EngineInv', ViewInv, [ViewNext]_<<vars, viewVars>>
    PROVE  ViewInv'
<1>1. CASE Seeded
  BY <1>1, SeededIsNew, NewTaskStep
<1>2. CASE Pushed
  <2>1. PushDirection
    BY <1>2 DEF Pushed
  <2>2. QED
    BY <1>2, <2>1, PushedIsNew, NewTaskStep, UnseenStep
<1>3. CASE UNCHANGED <<vars, viewVars>>
  BY <1>3 DEF vars, viewVars, queueVars, loopVars, resultVars, historyVars, ViewInv, KeyInv,
              GraphInv, CalloutInv, GreenInv, GreenMeansFound, Shown, TaskIds, Busy, Path,
              Proposals, Elements
<1>4. QED
  BY <1>1, <1>2, <1>3, StartedStep, JudgedStep, SucceededStep, CompletedStep, SilentStep
  DEF ViewNext

LEMMA ViewInvInit ==
    ASSUME ViewInit
    PROVE  ViewInv
<1>1. /\ pc = "keywords" /\ announced = {} /\ queuedAreas = {} /\ counter = 0
      /\ finding = NoFinding /\ pending = <<>>
      /\ DOMAIN nodes = {Question}
      /\ nodes[Question] = [parent |-> NoTaskShown, depth |-> -1, status |-> "root"]
      /\ callout = NoTaskShown /\ bar = "running" /\ found = {}
  BY DEF ViewInit, Init, InitQueue
<1>2. Shown = {} /\ TaskIds = {} /\ Proposals = {}
  <2>1. Shown = {} /\ TaskIds = {}
    BY <1>1 DEF Shown, TaskIds
  <2>2. Proposals = {}
    BY <1>1, NoElements DEF Proposals, NoFinding
  <2>3. QED
    BY <2>1, <2>2
<1>3. Rooted(nodes)
  <2>1. nodes[Question] \in Nodes
    BY <1>1 DEF Nodes, Statuses, NoTaskShown
  <2>2. nodes \in [DOMAIN nodes -> Nodes]
    BY <1>1, <2>1 DEF ViewInit
  <2>3. QED
    BY <1>1, <2>2 DEF Rooted
<1>4. KeyInv
  BY <1>1, <1>2 DEF KeyInv, Question
<1>5. QED
  BY <1>1, <1>2, <1>3, <1>4 DEF ViewInv, GraphInv, CalloutInv, GreenInv, GreenMeansFound

LEMMA GraphInvMirrors ==
    ASSUME EngineInv, ViewInv
    PROVE  GraphMirrorsRun
<1>1. ASSUME NEW t \in announced
      PROVE  /\ nodes[t.id].parent = t.parent
             /\ nodes[t.id].depth = t.depth
             /\ nodes[t.id].status = "queued" <=> t.targetArea \in queuedAreas
             /\ nodes[t.id].status = "current" <=> t.targetArea \in Current /\ pc # "record"
             /\ callout = t.id => t.id = task.id \/ t.targetArea \in visited
  BY DEF ViewInv, GraphInv, CalloutInv, Busy, Current
<1>2. QED
  BY <1>1 DEF GraphMirrorsRun, ViewInv, GraphInv, CalloutInv, TaskIds

LEMMA ViewInvariant == ViewSpec => [](EngineInv /\ ViewInv)
<1>1. ViewInit => ViewInv
  BY ViewInvInit
<1>2. EngineInv /\ EngineInv' /\ ViewInv /\ [ViewNext]_<<vars, viewVars>> => ViewInv'
  BY ViewInvStep
<1>3. TypeOK /\ OnePlace /\ NoTaskLost /\ SearchTree /\ TreeInv /\ OrderInv => EngineInv
  BY DEF EngineInv
<1>4. ViewSpec => []EngineInv
  BY <1>3, DrawnRunIsRun, TypeCorrect, AreasInOnePlace, NothingLost, TreeInvariant, PTL
<1>5. QED
  BY <1>1, <1>2, <1>4, PTL DEF ViewSpec

(* The page mirrors the run it is fed, for any answers of the model and any *)
(* indices the judge repeats.                                               *)
THEOREM GraphIsRun == ViewSpec => []GraphMirrorsRun
<1>1. EngineInv /\ ViewInv => GraphMirrorsRun
  BY GraphInvMirrors
<1>2. QED
  BY <1>1, ViewInvariant, PTL

(* Green marks the ways from the question to an answer and nothing else.    *)
THEOREM GreenIsFound == ViewSpec => []GreenMeansFound
<1>1. ViewInv => GreenMeansFound
  BY DEF ViewInv, GreenInv
<1>2. QED
  BY <1>1, ViewInvariant, PTL

=============================================================================
