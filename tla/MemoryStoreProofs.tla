------------------------- MODULE MemoryStoreProofs -------------------------
(***************************************************************************)
(* Theorems about MemoryStore for any number of threads, facts, requests    *)
(* and crashes.                                                             *)
(***************************************************************************)
EXTENDS MemoryStore, SequenceTheorems, WellFoundedInduction, TLAPS

-----------------------------------------------------------------------------
(* Removing a fact. *)

(* The search of RemoveFact stops at the first of the facts that are equal  *)
(* up to case.                                                              *)
LEMMA FirstIndex ==
    ASSUME NEW s \in Seq(Facts), NEW k \in KeysOf(s)
    PROVE  \E i \in DOMAIN s : Key[s[i]] = k /\ \A j \in 1..(i - 1) : Key[s[j]] # k
<1> DEFINE T == {i \in DOMAIN s : Key[s[i]] = k}
           R == OpToRel(<, Nat)
<1>1. DOMAIN s = 1..Len(s) /\ Len(s) \in Nat
  BY LenProperties
<1>2. T \subseteq Nat /\ T # {}
  BY <1>1 DEF KeysOf
<1>3. IsWellFoundedOn(R, Nat)
  BY NatLessThanWellFounded
<1>4. \A i, j \in Nat : i < j => <<i, j>> \in R
  BY DEF OpToRel
<1> HIDE DEF R
<1>5. PICK i \in T : \A j \in T : ~ (<<j, i>> \in R)
  <2> HIDE DEF T
  <2>1. QED
    BY <1>2, <1>3, WFMin
<1>6. ASSUME NEW j \in 1..(i - 1)
      PROVE  Key[s[j]] # k
  <2>1. i \in DOMAIN s /\ i \in Nat /\ j \in Nat /\ j < i /\ j \in DOMAIN s
    BY <1>1, <1>2
  <2>2. j \notin T
    BY <1>4, <1>5, <2>1
  <2>3. QED
    BY <2>1, <2>2
<1>7. QED
  BY <1>5, <1>6

(* Of a sequence that has the key, one fact of that key is left out.        *)
LEMMA WithoutOne ==
    ASSUME NEW s \in Seq(Facts), NEW k \in KeysOf(s)
    PROVE  \E i \in DOMAIN s :
              /\ Key[s[i]] = k
              /\ Without(s, k) = SubSeq(s, 1, i - 1) \o SubSeq(s, i + 1, Len(s))
  BY FirstIndex DEF Without

LEMMA CutType ==
    ASSUME NEW s \in Seq(Facts), NEW i \in DOMAIN s
    PROVE  SubSeq(s, 1, i - 1) \o SubSeq(s, i + 1, Len(s)) \in Seq(Facts)
<1>1. DOMAIN s = 1..Len(s) /\ Len(s) \in Nat
  BY LenProperties
<1>2. i \in Int /\ i - 1 \in Int /\ i + 1 \in Int /\ Len(s) \in Int
  BY <1>1
<1>3. \A j \in 1..(i - 1) : s[j] \in Facts
  BY <1>1, ElementOfSeq
<1>4. \A j \in (i + 1)..Len(s) : s[j] \in Facts
  BY <1>1, ElementOfSeq
<1>5. SubSeq(s, 1, i - 1) \in Seq(Facts)
  BY <1>2, <1>3, SubSeqProperties
<1>6. SubSeq(s, i + 1, Len(s)) \in Seq(Facts)
  BY <1>2, <1>4, SubSeqProperties
<1>7. QED
  BY <1>5, <1>6, ConcatProperties

LEMMA WithoutType ==
    ASSUME NEW s \in Seq(Facts), NEW k \in KeysOf(s)
    PROVE  Without(s, k) \in Seq(Facts)
  BY WithoutOne, CutType

-----------------------------------------------------------------------------
(* Type correctness. *)

Ops == [kind : {"add", "remove"}, fact : Facts]

Keys == {Key[f] : f \in Facts}

LEMMA RequestType == Requests \subseteq Seq(Ops)
<1> SUFFICES ASSUME NEW r \in Requests
             PROVE  r \in Seq(Ops)
  OBVIOUS
<1>1. \A f \in Facts : Op("add", f) \in Ops /\ Op("remove", f) \in Ops
  BY DEF Op, Ops
<1>2. CASE r = <<>>
  BY <1>2, EmptySeq
<1>3. ASSUME NEW f \in Facts, r = <<Op("add", f)>> \/ r = <<Op("remove", f)>>
      PROVE  r \in Seq(Ops)
  BY <1>1, <1>3
<1>4. ASSUME NEW s \in Extracted, r = [i \in DOMAIN s |-> Op("add", s[i])]
      PROVE  r \in Seq(Ops)
  <2>1. s \in Seq(Facts)
    BY MemoryAssumption
  <2>2. DOMAIN s = 1..Len(s) /\ Len(s) \in Nat
    BY <2>1, LenProperties
  <2>3. \A i \in 1..Len(s) : s[i] \in Facts
    BY <2>1, ElementOfSeq
  <2>4. r \in [1..Len(s) -> Ops]
    BY <1>1, <1>4, <2>2, <2>3
  <2>5. QED
    BY <2>2, <2>4, SeqDef
<1>5. QED
  BY <1>2, <1>3, <1>4 DEF Requests

(* What makes TypeOK inductive: a thread with a request may still answer    *)
(* one, and a thread that saves has the operation it saves for.             *)
BusyThreads ==
    \A t \in Threads :
        /\ pc[t] # "idle" => served[t] < MaxRequests
        /\ pc[t] \in {"save", "write"} => todo[t] # <<>>

TypeInv == TypeOK /\ BusyThreads

LEMMA ReturnType ==
    ASSUME TypeInv, NEW t \in Threads, pc[t] \in {"save", "write"}, Return(t),
           snapshot' \in [Threads -> Seq(Facts)],
           file' \in [complete : BOOLEAN, facts : Seq(Facts)]
    PROVE  TypeInv'
<1>1. /\ todo \in [Threads -> Seq(Ops)]
      /\ todo[t] # <<>>
      /\ acked \subseteq Keys
  BY DEF TypeInv, TypeOK, BusyThreads, Ops, Keys
<1>2. Head(todo[t]) \in Ops /\ Tail(todo[t]) \in Seq(Ops)
  BY <1>1, HeadTailProperties
<1>3. todo' \in [Threads -> Seq(Ops)]
  BY <1>1, <1>2 DEF Return
<1>4. acked' \subseteq Keys
  BY <1>1, <1>2 DEF Return, Ops, Keys
<1>5. pc' \in [Threads -> {"idle", "ready", "save", "write"}] /\ owner' \in Threads \cup {NoThread}
  BY DEF Return, Release, TypeInv, TypeOK
<1>6. BusyThreads'
  BY <1>5 DEF Return, TypeInv, TypeOK, BusyThreads
<1>7. QED
  BY <1>3, <1>4, <1>5, <1>6 DEF Return, TypeInv, TypeOK, Ops, Keys

LEMMA WorkType ==
    ASSUME TypeInv, NEW t \in Threads, Work(t)
    PROVE  TypeInv'
<1>0. /\ facts \in Seq(Facts)
      /\ file \in [complete : BOOLEAN, facts : Seq(Facts)]
      /\ todo \in [Threads -> Seq(Ops)]
      /\ pc \in [Threads -> {"idle", "ready", "save", "write"}]
      /\ snapshot \in [Threads -> Seq(Facts)]
  BY DEF TypeInv, TypeOK, Ops
<1>1. CASE AddKnown(t) \/ RemoveUnknown(t)
  <2>1. todo[t] # <<>> /\ pc[t] = "ready"
    BY <1>1 DEF AddKnown, RemoveUnknown, Due
  <2>2. Tail(todo[t]) \in Seq(Ops)
    BY <1>0, <2>1, HeadTailProperties
  <2>3. todo' \in [Threads -> Seq(Ops)]
    BY <1>0, <1>1, <2>2 DEF AddKnown, RemoveUnknown
  <2>4. \A u \in Threads : pc[u] \in {"save", "write"} => todo'[u] = todo[u]
    BY <1>0, <1>1, <2>1 DEF AddKnown, RemoveUnknown
  <2>5. QED
    BY <1>1, <2>3, <2>4 DEF AddKnown, RemoveUnknown, TypeInv, TypeOK, BusyThreads, Ops
<1>2. ASSUME NEW f \in Facts, AddNew(t), Due(t, "add", f),
             facts' = Append(facts, Stored(f)),
             mine' = [mine EXCEPT ![t] = @ \cup {Key[f]}]
      PROVE  TypeInv'
  <2>1. facts' \in Seq(Facts)
    BY <1>0, <1>2, AppendProperties DEF Stored
  <2>2. mine' \in [Threads -> SUBSET Keys]
    BY <1>2 DEF TypeInv, TypeOK, Keys
  <2>3. pc' \in [Threads -> {"idle", "ready", "save", "write"}] /\ BusyThreads'
    BY <1>0, <1>2 DEF AddNew, Due, Save, TypeInv, BusyThreads
  <2>4. QED
    BY <1>2, <2>1, <2>2, <2>3 DEF AddNew, Save, TypeInv, TypeOK, Keys
<1>3. ASSUME NEW f \in Facts, RemoveKnown(t), Due(t, "remove", f), Known(t, f),
             facts' = Without(facts, Key[f]),
             mine' = [u \in Threads |-> mine[u] \ {Key[f]}],
             acked' = acked \ {Key[f]}
      PROVE  TypeInv'
  <2>1. facts' \in Seq(Facts)
    BY <1>0, <1>3, WithoutType DEF Known
  <2>2. pc' \in [Threads -> {"idle", "ready", "save", "write"}] /\ BusyThreads'
    BY <1>0, <1>3 DEF RemoveKnown, Due, Save, TypeInv, BusyThreads
  <2>3. QED
    BY <1>3, <2>1, <2>2 DEF RemoveKnown, Save, TypeInv, TypeOK
<1>4. CASE SaveAbandoned(t)
  BY <1>0, <1>4, ReturnType DEF SaveAbandoned
<1>5. CASE SaveOpens(t)
  <2>1. snapshot' \in [Threads -> Seq(Facts)]
    BY <1>0, <1>5 DEF SaveOpens, Written
  <2>2. file' \in [complete : BOOLEAN, facts : Seq(Facts)]
    BY <1>5, EmptySeq DEF SaveOpens
  <2>3. pc' \in [Threads -> {"idle", "ready", "save", "write"}] /\ BusyThreads'
    BY <1>0, <1>5 DEF SaveOpens, TypeInv, BusyThreads
  <2>4. QED
    BY <1>5, <2>1, <2>2, <2>3 DEF SaveOpens, TypeInv, TypeOK
<1>6. CASE SaveWrites(t)
  <2>1. <<>> \in Seq(Facts)
    BY EmptySeq
  <2>2. file' \in [complete : BOOLEAN, facts : Seq(Facts)]
    BY <1>0, <1>6 DEF SaveWrites
  <2>3. snapshot' \in [Threads -> Seq(Facts)]
    BY <1>0, <1>6, <2>1 DEF SaveWrites
  <2>4. QED
    BY <1>6, <2>2, <2>3, ReturnType DEF SaveWrites
<1>7. CASE SaveFails(t)
  <2>1. <<>> \in Seq(Facts)
    BY EmptySeq
  <2>2. snapshot' \in [Threads -> Seq(Facts)]
    BY <1>0, <1>7, <2>1 DEF SaveFails
  <2>3. QED
    BY <1>0, <1>7, <2>2, ReturnType DEF SaveFails
<1>8. CASE Answer(t)
  <2>1. served[t] + 1 \in 0..MaxRequests
    <3>1. MaxRequests \in Nat /\ served[t] \in 0..MaxRequests
      BY MemoryAssumption DEF TypeInv, TypeOK
    <3>2. served[t] < MaxRequests
      BY <1>8 DEF Answer, TypeInv, BusyThreads
    <3>3. QED
      BY <3>1, <3>2
  <2>2. served' \in [Threads -> 0..MaxRequests]
    BY <1>8, <2>1 DEF Answer, TypeInv, TypeOK
  <2>3. pc' \in [Threads -> {"idle", "ready", "save", "write"}] /\ BusyThreads'
    BY <1>0, <1>8 DEF Answer, TypeInv, TypeOK, BusyThreads
  <2>4. QED
    BY <1>8, <2>2, <2>3 DEF Answer, TypeInv, TypeOK
<1>9. QED
  BY <1>1, <1>2, <1>3, <1>4, <1>5, <1>6, <1>7, <1>8 DEF Work, AddNew, RemoveKnown

(* The store and its threads keep their types, and facts their own          *)
(* spelling, whatever is interleaved and whenever the server crashes.       *)
THEOREM TypeCorrect == Spec => []TypeOK
<1>0. <<>> \in Seq(Facts) /\ <<>> \in Seq(Ops)
  BY EmptySeq
<1>1. Init => TypeInv
  BY <1>0, MemoryAssumption DEF Init, TypeInv, TypeOK, BusyThreads, Ops
<1>2. TypeInv /\ [Next]_vars => TypeInv'
  <2> SUFFICES ASSUME TypeInv, [Next]_vars
               PROVE  TypeInv'
    OBVIOUS
  <2>1. ASSUME NEW t \in Threads, Receive(t)
        PROVE  TypeInv'
    <3>1. PICK r \in Requests : todo' = [todo EXCEPT ![t] = r]
      BY <2>1 DEF Receive
    <3>2. todo' \in [Threads -> Seq(Ops)]
      BY <3>1, RequestType DEF TypeInv, TypeOK, Ops
    <3>3. pc' \in [Threads -> {"idle", "ready", "save", "write"}]
      BY <2>1 DEF Receive, TypeInv, TypeOK
    <3>4. BusyThreads'
      BY <2>1, <3>1, <3>3 DEF Receive, TypeInv, TypeOK, BusyThreads
    <3>5. QED
      BY <2>1, <3>2, <3>3, <3>4 DEF Receive, TypeInv, TypeOK, Ops
  <2>2. ASSUME NEW t \in Threads, Work(t)
        PROVE  TypeInv'
    BY <2>2, WorkType
  <2>3. CASE Crash
    <3>1. crashes' \in 0..MaxCrashes
      <4>1. MaxCrashes \in Nat /\ crashes \in 0..MaxCrashes
        BY MemoryAssumption DEF TypeInv, TypeOK
      <4>2. QED
        BY <2>3, <4>1 DEF Crash
    <3>2. todo' \in [Threads -> Seq(Ops)] /\ snapshot' \in [Threads -> Seq(Facts)]
      BY <1>0, <2>3 DEF Crash
    <3>3. BusyThreads'
      BY <2>3 DEF Crash, BusyThreads
    <3>4. QED
      BY <1>0, <2>3, <3>1, <3>2, <3>3 DEF Crash, TypeInv, TypeOK, Ops
  <2>4. CASE Restart
    BY <1>0, <2>4 DEF Restart, Loaded, TypeInv, TypeOK, BusyThreads, threadVars
  <2>5. CASE UNCHANGED vars
    BY <2>5 DEF vars, threadVars, TypeInv, TypeOK, BusyThreads
  <2>6. QED
    BY <2>1, <2>2, <2>3, <2>4, <2>5 DEF Next
<1>3. TypeInv => TypeOK
  BY DEF TypeInv
<1>4. QED
  BY <1>1, <1>2, <1>3, PTL DEF Spec

-----------------------------------------------------------------------------
(* The file follows the memory. *)

(* The thread that saves is the one that holds the mutex, so that no two    *)
(* saves overlap and what is written is what the server remembers           *)
(* (MemoryStore.h:20-21, 47: "caller must hold mutex_").                    *)
SavesExcluded ==
    \A t \in Threads : pc[t] \in {"save", "write"} =>
        /\ owner = t
        /\ pc[t] = "write" => snapshot[t] = facts

(* A server that is down has no threads. *)
NoThreads == ~up => \A t \in Threads : pc[t] = "idle"

FileInv == SavesExcluded /\ FileUpToDate /\ NoThreads

LEMMA FileStep ==
    ASSUME TypeOK, FileInv, Next
    PROVE  FileInv'
<1>0. /\ pc \in [Threads -> {"idle", "ready", "save", "write"}]
      /\ snapshot \in [Threads -> Seq(Facts)]
      /\ NoThread \notin Threads
  BY MemoryAssumption DEF TypeOK
<1>1. ASSUME NEW t \in Threads, Receive(t) \/ AddKnown(t) \/ RemoveUnknown(t) \/ Answer(t)
      PROVE  FileInv'
  BY <1>0, <1>1
  DEF Receive, AddKnown, RemoveUnknown, Answer, FileInv, SavesExcluded, FileUpToDate, NoThreads, Saving,
      Loaded
<1>2. ASSUME NEW t \in Threads, pc[t] = "ready", Unlocked(t), Save(t)
      PROVE  FileInv'
  <2>1. \A u \in Threads : pc[u] \notin {"save", "write"}
    BY <1>0, <1>2 DEF Unlocked, FileInv, SavesExcluded
  <2>2. pc'[t] = "save" /\ \A u \in Threads \ {t} : pc'[u] = pc[u]
    BY <1>0, <1>2 DEF Save
  <2>3. QED
    BY <1>2, <2>1, <2>2 DEF Save, FileInv, SavesExcluded, FileUpToDate, NoThreads, Saving
<1>3. ASSUME NEW t \in Threads, SaveOpens(t)
      PROVE  FileInv'
  <2>1. owner = t /\ \A u \in Threads \ {t} : pc[u] \notin {"save", "write"}
    BY <1>3 DEF SaveOpens, FileInv, SavesExcluded
  <2>2. /\ pc'[t] = "write" /\ snapshot'[t] = facts
        /\ \A u \in Threads \ {t} : pc'[u] = pc[u]
    BY <1>0, <1>3 DEF SaveOpens, Written
  <2>3. QED
    BY <1>3, <2>1, <2>2 DEF SaveOpens, FileInv, SavesExcluded, FileUpToDate, NoThreads, Saving
<1>4. ASSUME NEW t \in Threads, pc[t] \in {"save", "write"}, Return(t),
             failing \/ file' = [complete |-> TRUE, facts |-> facts]
      PROVE  FileInv'
  <2>1. \A u \in Threads \ {t} : pc[u] \notin {"save", "write"}
    BY <1>4 DEF FileInv, SavesExcluded
  <2>2. \A u \in Threads : pc'[u] \notin {"save", "write"}
    BY <1>0, <1>4, <2>1 DEF Return
  <2>3. QED
    BY <1>4, <2>2 DEF Return, FileInv, SavesExcluded, FileUpToDate, NoThreads, Loaded
<1>5. ASSUME NEW t \in Threads, SaveWrites(t)
      PROVE  FileInv'
  <2>1. file' = [complete |-> TRUE, facts |-> facts]
    BY <1>5 DEF SaveWrites, FileInv, SavesExcluded
  <2>2. QED
    BY <1>4, <1>5, <2>1 DEF SaveWrites
<1>6. ASSUME NEW t \in Threads, SaveAbandoned(t) \/ SaveFails(t)
      PROVE  FileInv'
  BY <1>4, <1>6 DEF SaveAbandoned, SaveFails
<1>7. CASE Crash
  BY <1>7 DEF Crash, FileInv, SavesExcluded, FileUpToDate, NoThreads
<1>8. CASE Restart
  BY <1>8 DEF Restart, Loaded, threadVars, FileInv, SavesExcluded, FileUpToDate, NoThreads
<1>9. QED
  BY <1>1, <1>2, <1>3, <1>5, <1>6, <1>7, <1>8 DEF Next, Work, AddNew, RemoveKnown, Due

LEMMA FileAlways == Spec => []FileInv
<1>1. Init => FileInv
  BY DEF Init, Loaded, FileInv, SavesExcluded, FileUpToDate, NoThreads
<1>2. TypeOK /\ FileInv /\ [Next]_vars => FileInv'
  <2>1. FileInv /\ UNCHANGED vars => FileInv'
    BY DEF vars, threadVars, FileInv, SavesExcluded, FileUpToDate, NoThreads, Saving, Loaded
  <2>2. QED
    BY <2>1, FileStep
<1>3. QED
  BY <1>1, <1>2, TypeCorrect, PTL DEF Spec

(* While saves succeed, a restart would load exactly what the server        *)
(* remembers, whenever no save is under way.                                *)
THEOREM FileFollowsMemory == Spec => []FileUpToDate
<1>1. FileInv => FileUpToDate
  BY DEF FileInv
<1>2. QED
  BY <1>1, FileAlways, PTL

-----------------------------------------------------------------------------
(* What a crash costs. *)

LEMMA KeysOfAppend ==
    ASSUME NEW s \in Seq(Facts), NEW f \in Facts
    PROVE  KeysOf(Append(s, f)) = KeysOf(s) \cup {Key[f]}
<1>1. /\ Len(Append(s, f)) = Len(s) + 1
      /\ \A i \in 1..Len(s) : Append(s, f)[i] = s[i]
      /\ Append(s, f)[Len(s) + 1] = f
      /\ Append(s, f) \in Seq(Facts)
  BY AppendProperties
<1>2. /\ Len(s) \in Nat
      /\ DOMAIN s = 1..Len(s)
      /\ DOMAIN Append(s, f) = 1..(Len(s) + 1)
  BY <1>1, LenProperties
<1>3. 1..(Len(s) + 1) = (1..Len(s)) \cup {Len(s) + 1}
  BY <1>2
<1>4. QED
  BY <1>1, <1>2, <1>3 DEF KeysOf

(* Removing a fact loses no other. *)
LEMMA WithoutLosesOne ==
    ASSUME NEW s \in Seq(Facts), NEW k \in KeysOf(s)
    PROVE  KeysOf(s) \ {k} \subseteq KeysOf(Without(s, k))
<1>1. PICK i \in DOMAIN s :
            /\ Key[s[i]] = k
            /\ Without(s, k) = SubSeq(s, 1, i - 1) \o SubSeq(s, i + 1, Len(s))
  BY WithoutOne
<1> DEFINE front == SubSeq(s, 1, i - 1)
           back == SubSeq(s, i + 1, Len(s))
<1>2. DOMAIN s = 1..Len(s) /\ Len(s) \in Nat /\ i \in 1..Len(s)
  BY LenProperties
<1>3. /\ front \in Seq(Facts)
      /\ Len(front) = i - 1
      /\ \A j \in 1..(i - 1) : front[j] = s[j]
  <2>1. \A j \in 1..(i - 1) : s[j] \in Facts
    BY <1>2, ElementOfSeq
  <2>2. 1 \in Int /\ i - 1 \in Int
    BY <1>2
  <2>3. /\ front \in Seq(Facts)
        /\ Len(front) = IF 1 <= i - 1 THEN (i - 1) - 1 + 1 ELSE 0
        /\ \A j \in 1..((i - 1) - 1 + 1) : front[j] = s[1 + j - 1]
    BY <2>1, <2>2, SubSeqProperties
  <2> HIDE DEF front
  <2>4. (i - 1) - 1 + 1 = i - 1 /\ \A j \in 1..(i - 1) : 1 + j - 1 = j
    BY <1>2
  <2>5. Len(front) = i - 1
    <3>1. i \in Int /\ i >= 1
      BY <1>2
    <3>2. Len(front) = IF 1 <= i - 1 THEN (i - 1) - 1 + 1 ELSE 0
      BY <2>3
    <3>3. QED
      BY <3>1, <3>2
  <2>6. \A j \in 1..(i - 1) : front[j] = s[j]
    BY <2>3, <2>4
  <2>7. QED
    BY <2>3, <2>5, <2>6
<1>4. /\ back \in Seq(Facts)
      /\ Len(back) = Len(s) - i
      /\ \A j \in 1..(Len(s) - i) : back[j] = s[i + j]
  <2>1. \A j \in (i + 1)..Len(s) : s[j] \in Facts
    BY <1>2, ElementOfSeq
  <2>2. i + 1 \in Int /\ Len(s) \in Int
    BY <1>2
  <2>3. /\ back \in Seq(Facts)
        /\ Len(back) = IF i + 1 <= Len(s) THEN Len(s) - (i + 1) + 1 ELSE 0
        /\ \A j \in 1..(Len(s) - (i + 1) + 1) : back[j] = s[(i + 1) + j - 1]
    BY <2>1, <2>2, SubSeqProperties
  <2> HIDE DEF back
  <2>4. /\ Len(s) - (i + 1) + 1 = Len(s) - i
        /\ \A j \in 1..(Len(s) - i) : (i + 1) + j - 1 = i + j
    BY <1>2
  <2>5. Len(back) = Len(s) - i
    <3>1. i \in Int /\ Len(s) \in Int /\ i <= Len(s)
      BY <1>2
    <3>2. Len(back) = IF i + 1 <= Len(s) THEN Len(s) - (i + 1) + 1 ELSE 0
      BY <2>3
    <3>3. QED
      BY <3>1, <3>2
  <2>6. \A j \in 1..(Len(s) - i) : back[j] = s[i + j]
    BY <2>3, <2>4
  <2>7. QED
    BY <2>3, <2>5, <2>6
<1> HIDE DEF front, back
<1> DEFINE w == front \o back
<1>5. /\ w \in Seq(Facts)
      /\ Len(w) = Len(s) - 1
      /\ \A j \in 1..(Len(s) - 1) : w[j] = IF j <= i - 1 THEN front[j] ELSE back[j - (i - 1)]
  <2>1. /\ w \in Seq(Facts)
        /\ Len(w) = Len(front) + Len(back)
        /\ \A j \in 1..(Len(front) + Len(back)) :
              w[j] = IF j <= Len(front) THEN front[j] ELSE back[j - Len(front)]
    BY <1>3, <1>4, ConcatProperties
  <2>2. Len(front) + Len(back) = Len(s) - 1
    BY <1>2, <1>3, <1>4
  <2>3. QED
    BY <1>3, <2>1, <2>2
<1>6. DOMAIN w = 1..(Len(s) - 1)
  BY <1>5, LenProperties
<1> HIDE DEF w
<1>7. ASSUME NEW n \in DOMAIN s, n # i
      PROVE  \E m \in DOMAIN w : w[m] = s[n]
  <2>1. CASE n < i
    <3>1. n \in DOMAIN w /\ n <= i - 1 /\ n \in 1..(i - 1)
      BY <1>2, <1>6, <2>1
    <3>2. w[n] = s[n]
      BY <1>3, <1>5, <1>6, <3>1
    <3>3. QED
      BY <3>1, <3>2
  <2>2. CASE n > i
    <3>1. /\ n - 1 \in DOMAIN w /\ ~(n - 1 <= i - 1)
          /\ (n - 1) - (i - 1) = n - i
          /\ n - i \in 1..(Len(s) - i)
          /\ i + (n - i) = n
      BY <1>2, <1>6, <2>2
    <3>2. w[n - 1] = back[n - i]
      BY <1>5, <1>6, <3>1
    <3>3. back[n - i] = s[n]
      BY <1>4, <3>1
    <3>4. QED
      BY <3>1, <3>2, <3>3
  <2>3. QED
    BY <1>2, <1>7, <2>1, <2>2
<1>8. Without(s, k) = w
  BY <1>1 DEF w, front, back
<1>9. ASSUME NEW key \in KeysOf(s) \ {k}
      PROVE  key \in KeysOf(w)
  <2>1. PICK n \in DOMAIN s : key = Key[s[n]]
    BY DEF KeysOf
  <2>2. n # i
    BY <1>1, <2>1
  <2>3. PICK m \in DOMAIN w : w[m] = s[n]
    BY <1>7, <2>2
  <2>4. QED
    BY <2>1, <2>3 DEF KeysOf
<1>10. QED
  BY <1>8, <1>9

(* While saves succeed: what was acknowledged is remembered, and is on file *)
(* as soon as the file holds anything; a fact about to be acknowledged is   *)
(* remembered already.                                                      *)
AckInv ==
    ~failing =>
        /\ up => acked \subseteq KeysOf(facts)
        /\ file.complete => acked \subseteq KeysOf(file.facts)
        /\ \A t \in Threads :
              pc[t] \in {"save", "write"} /\ Head(todo[t]).kind = "add" =>
                  Key[Head(todo[t]).fact] \in KeysOf(facts)

LEMMA AckStep ==
    ASSUME TypeOK, FileInv, AckInv, Next, ~failing
    PROVE  AckInv'
<1>0. /\ pc \in [Threads -> {"idle", "ready", "save", "write"}]
      /\ todo \in [Threads -> Seq([kind : {"add", "remove"}, fact : Facts])]
      /\ facts \in Seq(Facts)
      /\ NoThread \notin Threads
      /\ \A t \in Threads : pc[t] # "idle" => up
  BY MemoryAssumption DEF TypeOK, FileInv, NoThreads
<1>1. ASSUME NEW t \in Threads, Receive(t) \/ AddKnown(t) \/ RemoveUnknown(t) \/ Answer(t)
      PROVE  AckInv'
  <2>1. \A u \in Threads : pc'[u] \in {"save", "write"} => pc[u] = pc'[u] /\ todo'[u] = todo[u]
    BY <1>0, <1>1 DEF Receive, AddKnown, RemoveUnknown, Due, Answer
  <2>2. QED
    BY <1>1, <2>1 DEF Receive, AddKnown, RemoveUnknown, Answer, AckInv
<1>2. ASSUME NEW t \in Threads, AddNew(t)
      PROVE  AckInv'
  <2>1. PICK f \in Facts : Due(t, "add", f) /\ facts' = Append(facts, f) /\ Save(t) /\ Unlocked(t)
                           /\ acked' = acked
    BY <1>2 DEF AddNew, Stored
  <2>2. KeysOf(facts') = KeysOf(facts) \cup {Key[f]}
    BY <1>0, <2>1, KeysOfAppend
  <2>3. \A u \in Threads : pc[u] \notin {"save", "write"}
    BY <1>0, <2>1 DEF Unlocked, FileInv, SavesExcluded
  <2>4. \A u \in Threads : pc'[u] \in {"save", "write"} => u = t
    BY <1>0, <2>1, <2>3 DEF Save
  <2>5. Head(todo'[t]).fact = f
    BY <2>1 DEF Due, Save, Op
  <2>6. QED
    BY <1>0, <2>1, <2>2, <2>4, <2>5 DEF Due, Save, AckInv
<1>3. ASSUME NEW t \in Threads, RemoveKnown(t)
      PROVE  AckInv'
  <2>1. PICK f \in Facts : /\ Due(t, "remove", f) /\ Known(t, f) /\ Save(t) /\ Unlocked(t)
                           /\ facts' = Without(facts, Key[f]) /\ acked' = acked \ {Key[f]}
    BY <1>3 DEF RemoveKnown
  <2>2. KeysOf(facts) \ {Key[f]} \subseteq KeysOf(facts')
    BY <1>0, <2>1, WithoutLosesOne DEF Known
  <2>3. \A u \in Threads : pc[u] \notin {"save", "write"}
    BY <1>0, <2>1 DEF Unlocked, FileInv, SavesExcluded
  <2>4. \A u \in Threads : pc'[u] \in {"save", "write"} => u = t
    BY <1>0, <2>1, <2>3 DEF Save
  <2>5. Head(todo'[t]).kind = "remove"
    BY <2>1 DEF Due, Save, Op
  <2>6. QED
    BY <1>0, <2>1, <2>2, <2>4, <2>5 DEF Due, Save, AckInv
<1>4. ASSUME NEW t \in Threads, SaveOpens(t)
      PROVE  AckInv'
  <2>1. \A u \in Threads : pc'[u] \in {"save", "write"} => pc[u] \in {"save", "write"}
    BY <1>0, <1>4 DEF SaveOpens
  <2>2. QED
    BY <1>4, <2>1 DEF SaveOpens, AckInv
<1>5. ASSUME NEW t \in Threads, SaveWrites(t)
      PROVE  AckInv'
  <2>1. pc[t] = "write" /\ snapshot[t] = facts
    BY <1>5 DEF SaveWrites, FileInv, SavesExcluded
  <2>2. file'.facts = facts /\ facts' = facts
    BY <1>5, <2>1 DEF SaveWrites, Return
  <2>3. acked' \subseteq KeysOf(facts)
    BY <1>0, <1>5, <2>1 DEF SaveWrites, Return, AckInv
  <2>4. \A u \in Threads : pc'[u] \notin {"save", "write"}
    BY <1>0, <1>5, <2>1 DEF SaveWrites, Return, FileInv, SavesExcluded
  <2>5. QED
    BY <2>2, <2>3, <2>4 DEF AckInv
<1>6. ASSUME NEW t \in Threads, SaveAbandoned(t) \/ SaveFails(t)
      PROVE  AckInv'
  BY <1>6 DEF SaveAbandoned, SaveFails
<1>7. CASE Crash
  BY <1>7 DEF Crash, AckInv
<1>8. CASE Restart
  BY <1>8 DEF Restart, threadVars, AckInv, FileInv, NoThreads
<1>9. QED
  BY <1>1, <1>2, <1>3, <1>4, <1>5, <1>6, <1>7, <1>8 DEF Next, Work

(* While saves succeed, a server that is started again finds all it had     *)
(* acknowledged or nothing at all, however often it crashes.                *)
THEOREM CrashLosesAllOrNothing == Spec => AllOrNothing
<1>1. Init => AckInv
  BY DEF Init, AckInv, KeysOf
<1>2. TypeOK /\ FileInv /\ AckInv /\ [Next]_vars => AckInv'
  <2>1. AckInv /\ UNCHANGED vars => AckInv'
    BY DEF vars, threadVars, AckInv, KeysOf
  <2>2. Next /\ failing => failing'
    BY DEF Next, Work, Receive, AddKnown, RemoveUnknown, AddNew, RemoveKnown, Save, Return,
           SaveAbandoned, SaveOpens, SaveWrites, SaveFails, Answer, Crash, Restart
  <2>3. failing' => AckInv'
    BY DEF AckInv
  <2>4. QED
    BY <2>1, <2>2, <2>3, AckStep
<1>3. TypeOK /\ AckInv /\ [Next]_vars
         => [~failing /\ ~up /\ up' =>
                facts' = <<>> \/ acked \subseteq KeysOf(facts')]_vars
  <2> SUFFICES ASSUME AckInv, Next, ~failing, ~up, up'
               PROVE  facts' = <<>> \/ acked \subseteq KeysOf(facts')
    OBVIOUS
  <2>1. CASE Restart
    BY <2>1 DEF Restart, Loaded, AckInv
  <2>2. CASE ~Restart
    BY <2>2
    DEF Next, Work, Receive, AddKnown, RemoveUnknown, AddNew, RemoveKnown, Save, Return,
        SaveAbandoned, SaveOpens, SaveWrites, SaveFails, Answer, Crash
  <2>3. QED
    BY <2>1, <2>2
<1>4. QED
  BY <1>1, <1>2, <1>3, TypeCorrect, FileAlways, PTL DEF Spec, AllOrNothing

-----------------------------------------------------------------------------
(* The refinement. *)

LEMMA HasKey == \A f : Store!Has(f) <=> Key[f] \in KeysOf(facts)
  BY DEF Store!Has, KeysOf

LEMMA StoreStep ==
    ASSUME TypeOK, Next, up, up'
    PROVE  Store!Next \/ UNCHANGED facts
<1>1. facts \in Seq(Facts)
  BY DEF TypeOK
<1>2. ASSUME NEW t \in Threads, AddNew(t)
      PROVE  Store!Next
  <2>1. PICK f \in Facts : ~Known(t, f) /\ facts' = Append(facts, f)
    BY <1>2 DEF AddNew, Stored
  <2>2. Store!Add(f)
    BY <2>1, HasKey DEF Known, Store!Add
  <2>3. QED
    BY <2>2 DEF Store!Next
<1>3. ASSUME NEW t \in Threads, RemoveKnown(t)
      PROVE  Store!Next
  <2>1. PICK f \in Facts : Known(t, f) /\ facts' = Without(facts, Key[f])
    BY <1>3 DEF RemoveKnown
  <2>2. Store!Remove(f)
    BY <1>1, <2>1, WithoutOne DEF Known, Store!Remove
  <2>3. QED
    BY <2>2 DEF Store!Next
<1>4. ASSUME NEW t \in Threads, Receive(t) \/ AddKnown(t) \/ RemoveUnknown(t) \/ Answer(t)
      PROVE  UNCHANGED facts
  BY <1>4 DEF Receive, AddKnown, RemoveUnknown, Answer
<1>5. ASSUME NEW t \in Threads,
             SaveAbandoned(t) \/ SaveOpens(t) \/ SaveWrites(t) \/ SaveFails(t)
      PROVE  UNCHANGED facts
  BY <1>5 DEF SaveAbandoned, SaveOpens, SaveWrites, SaveFails, Return
<1>6. ~Crash /\ ~Restart
  BY DEF Crash, Restart
<1>7. QED
  BY <1>2, <1>3, <1>4, <1>5, <1>6 DEF Next, Work

(* While the server runs, its store is a FactStore to its threads, however  *)
(* many they are and whatever they interleave.                              *)
THEOREM StoreIsFactStore == Spec => ImplementsFactStore
<1>1. Init => Store!Init
  BY DEF Init, Store!Init
<1>2. TypeOK /\ [Next]_vars => [up /\ up' => Store!Next]_facts
  BY StoreStep DEF vars
<1>3. QED
  BY <1>1, <1>2, TypeCorrect, PTL DEF Spec, ImplementsFactStore


-----------------------------------------------------------------------------
(* What an answer lists. *)

(* What a request has added is remembered; a server that is down has no     *)
(* requests.                                                                *)
MineInv ==
    /\ \A t \in Threads : mine[t] \subseteq KeysOf(facts)
    /\ ~up => \A t \in Threads : mine[t] = {}

LEMMA MineStep ==
    ASSUME TypeOK, NoThreads, MineInv, Next
    PROVE  MineInv'
<1>0. /\ mine \in [Threads -> SUBSET {Key[f] : f \in Facts}]
      /\ pc \in [Threads -> {"idle", "ready", "save", "write"}]
      /\ facts \in Seq(Facts)
      /\ \A t \in Threads : pc[t] # "idle" => up
  BY DEF TypeOK, NoThreads
<1>1. ASSUME NEW t \in Threads, Receive(t)
      PROVE  MineInv'
  BY <1>0, <1>1 DEF Receive, MineInv, KeysOf
<1>2. ASSUME NEW t \in Threads, \/ AddKnown(t) \/ RemoveUnknown(t) \/ Answer(t)
                              \/ SaveAbandoned(t) \/ SaveOpens(t) \/ SaveWrites(t) \/ SaveFails(t)
      PROVE  MineInv'
  <2>1. mine' = mine /\ facts' = facts /\ up' = up
    BY <1>2 DEF AddKnown, RemoveUnknown, Answer, SaveAbandoned, SaveOpens, SaveWrites,
                SaveFails, Return
  <2>2. QED
    BY <2>1 DEF MineInv, KeysOf
<1>3. ASSUME NEW t \in Threads, AddNew(t)
      PROVE  MineInv'
  <2>1. PICK f \in Facts : /\ facts' = Append(facts, f) /\ up' = up /\ Due(t, "add", f)
                           /\ mine' = [mine EXCEPT ![t] = @ \cup {Key[f]}]
    BY <1>3 DEF AddNew, Stored, Save
  <2>2. KeysOf(facts') = KeysOf(facts) \cup {Key[f]}
    BY <1>0, <2>1, KeysOfAppend
  <2>3. up'
    BY <1>0, <2>1 DEF Due
  <2>4. QED
    BY <1>0, <2>1, <2>2, <2>3 DEF MineInv
<1>4. ASSUME NEW t \in Threads, RemoveKnown(t)
      PROVE  MineInv'
  <2>1. PICK f \in Facts : /\ Due(t, "remove", f) /\ Known(t, f) /\ up' = up
                           /\ facts' = Without(facts, Key[f])
                           /\ mine' = [u \in Threads |-> mine[u] \ {Key[f]}]
    BY <1>4 DEF RemoveKnown, Save
  <2>2. KeysOf(facts) \ {Key[f]} \subseteq KeysOf(facts')
    BY <1>0, <2>1, WithoutLosesOne DEF Known
  <2>3. up'
    BY <1>0, <2>1 DEF Due
  <2>4. QED
    BY <1>0, <2>1, <2>2, <2>3 DEF MineInv
<1>5. CASE Crash
  BY <1>5 DEF Crash, MineInv
<1>6. CASE Restart
  BY <1>0, <1>6 DEF Restart, MineInv
<1>7. QED
  BY <1>1, <1>2, <1>3, <1>4, <1>5, <1>6 DEF Next, Work

(* The answer of a request lists what the request has added, unless it was  *)
(* removed in between, however many threads add and remove meanwhile: what  *)
(* AllFacts reads under a second lock still holds it.                       *)
THEOREM AnswersHoldOwnFacts == Spec => AnswerHasOwnFacts
<1>1. Init => MineInv
  BY DEF Init, MineInv
<1>2. TypeOK /\ NoThreads /\ MineInv /\ [Next]_vars => MineInv'
  <2>1. MineInv /\ UNCHANGED vars => MineInv'
    BY DEF vars, threadVars, MineInv, KeysOf
  <2>2. QED
    BY <2>1, MineStep
<1>3. MineInv /\ [Next]_vars
         => [\A t \in Threads : pc[t] = "ready" /\ pc'[t] = "idle" /\ up' =>
                mine[t] \subseteq KeysOf(facts)]_vars
  BY DEF MineInv
<1>4. FileInv => NoThreads
  BY DEF FileInv
<1>5. QED
  BY <1>1, <1>2, <1>3, <1>4, TypeCorrect, FileAlways, PTL DEF Spec, AnswerHasOwnFacts
=============================================================================
