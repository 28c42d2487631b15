----------------------------- MODULE MemoryStore -----------------------------
(***************************************************************************)
(* MemoryStore (src/src/MemoryStore.cpp) as the chat server uses it: the    *)
(* handlers of /api/memory and /api/chat (src/src/ChatServer.cpp:286-367)   *)
(* run on a pool of threads, share one store and its mutex, and the store   *)
(* rewrites one file.  The server may crash and be started again.           *)
(*                                                                          *)
(* Facts are elements of Facts, compared by their lower-case form Key[f].   *)
(* A fact that is empty once trimmed changes nothing and is left out, as    *)
(* are request bodies that are not JSON.                                    *)
(***************************************************************************)
EXTENDS Naturals, Sequences

CONSTANTS
    Threads,      \* threads that handle requests
    NoThread,     \* the owner of a free mutex
    Facts,        \* fact texts
    Key,          \* their lower-case forms
    Extracted,    \* the lists of facts ExtractFacts can find in a message
    MayFail,      \* whether writing the file can fail: the cases considered
    MaxRequests,  \* bound: requests handled by a thread
    MaxCrashes    \* bound: crashes

ASSUME MemoryAssumption ==
    /\ NoThread \notin Threads
    /\ DOMAIN Key = Facts
    /\ Extracted \subseteq Seq(Facts)
    /\ MayFail \subseteq BOOLEAN
    /\ MaxRequests \in Nat
    /\ MaxCrashes \in Nat

VARIABLES
    failing,  \* whether writing the file can fail, fixed for the behaviour
    up,       \* whether the server runs
    facts,    \* facts_
    owner,    \* owner of mutex_
    file,     \* the file: its facts, or that it holds no complete JSON value
    pc,       \* where a thread is
    todo,     \* operations its request has still to do before it answers
    snapshot, \* what it is writing
    served,   \* requests it has answered
    crashes,
    acked,    \* history: keys a caller was told are remembered, and not to forget,
              \* less those a crash has lost
    mine      \* history: keys a thread's request has added, not removed since

threadVars == <<pc, todo, snapshot, served>>
vars == <<failing, up, facts, owner, file, threadVars, crashes, acked, mine>>

Op(kind, f) == [kind |-> kind, fact |-> f]

(* GET /api/memory, POST /api/memory, DELETE /api/memory and POST /api/chat. *)
Requests ==
    {<<>>}
    \cup {<<Op("add", f)>> : f \in Facts}
    \cup {<<Op("remove", f)>> : f \in Facts}
    \cup {[i \in DOMAIN s |-> Op("add", s[i])] : s \in Extracted}

KeysOf(s) == {Key[s[i]] : i \in DOMAIN s}

Receive(t) ==
    /\ pc[t] = "idle"
    /\ up
    /\ served[t] < MaxRequests
    /\ \E r \in Requests : todo' = [todo EXCEPT ![t] = r]
    /\ pc' = [pc EXCEPT ![t] = "ready"]
    /\ mine' = [mine EXCEPT ![t] = {}]
    /\ UNCHANGED <<failing, up, facts, owner, file, snapshot, served, crashes, acked>>

(* The thread can take the mutex.  From there to its release only the file  *)
(* is touched in a way that others can see, so a search that finds nothing  *)
(* to do is one step, lock and unlock included.                             *)
Unlocked(t) == owner = NoThread

(* Mutant of Known: the comparison respects case. *)
KnownExactly(t, f) == \E i \in DOMAIN facts : facts[i] = f

Known(t, f) == Key[f] \in KeysOf(facts)

(* The next operation of the thread's request is to kind the fact f. *)
Due(t, kind, f) ==
    /\ pc[t] = "ready"
    /\ todo[t] # <<>>
    /\ Head(todo[t]) = Op(kind, f)

AddKnown(t) == \E f \in Facts :
    /\ Due(t, "add", f)
    /\ Unlocked(t)
    /\ Known(t, f)
    /\ todo' = [todo EXCEPT ![t] = Tail(@)]
    /\ UNCHANGED <<failing, up, facts, owner, file, pc, snapshot, served, crashes, acked, mine>>

RemoveUnknown(t) == \E f \in Facts :
    /\ Due(t, "remove", f)
    /\ Unlocked(t)
    /\ ~Known(t, f)
    /\ todo' = [todo EXCEPT ![t] = Tail(@)]
    /\ UNCHANGED <<failing, up, facts, owner, file, pc, snapshot, served, crashes, acked, mine>>

(* The thread keeps the mutex and goes on to SaveLocked. *)
Save(t) ==
    /\ pc' = [pc EXCEPT ![t] = "save"]
    /\ owner' = t
    /\ UNCHANGED <<failing, up, file, todo, snapshot, served, crashes>>

(* Mutant of Stored: the lower-case form is kept. *)
StoredLower(f) == Key[f]

(* What is appended: the text, not the lower-case form it is compared by. *)
Stored(f) == f

AddNew(t) == \E f \in Facts :
    /\ Due(t, "add", f)
    /\ Unlocked(t)
    /\ ~Known(t, f)
    /\ facts' = Append(facts, Stored(f))
    /\ mine' = [mine EXCEPT ![t] = @ \cup {Key[f]}]
    /\ Save(t)
    /\ UNCHANGED acked

(* Mutant of Without: begin() is erased, not what was found. *)
WithoutFirst(s, k) == Tail(s)

(* The sequence without its first fact of key k. *)
Without(s, k) ==
    LET i == CHOOSE i \in DOMAIN s : /\ Key[s[i]] = k
                                     /\ \A j \in 1..(i - 1) : Key[s[j]] # k
    IN  SubSeq(s, 1, i - 1) \o SubSeq(s, i + 1, Len(s))

RemoveKnown(t) == \E f \in Facts :
    /\ Due(t, "remove", f)
    /\ Unlocked(t)
    /\ Known(t, f)
    /\ facts' = Without(facts, Key[f])
    /\ mine' = [u \in Threads |-> mine[u] \ {Key[f]}]
    /\ acked' = acked \ {Key[f]}
    /\ Save(t)

(* Mutant of Release: an early return that keeps the mutex. *)
ReleaseNothing(t) == UNCHANGED owner

Release(t) == owner' = NoThread

(* AddFact or RemoveFact returns true, whatever became of the save. *)
Return(t) ==
    /\ Release(t)
    /\ pc' = [pc EXCEPT ![t] = "ready"]
    /\ todo' = [todo EXCEPT ![t] = Tail(@)]
    /\ acked' = IF Head(todo[t]).kind = "add" THEN acked \cup {Key[Head(todo[t]).fact]}
                ELSE acked
    /\ UNCHANGED <<failing, up, facts, served, crashes, mine>>

(* The directory cannot be made, or the file does not open: logged only. *)
SaveAbandoned(t) ==
    /\ pc[t] = "save"
    /\ failing
    /\ Return(t)
    /\ UNCHANGED <<file, snapshot>>

(* Mutant of Written: AddFact saves, then appends. *)
WrittenTooSoon(t) ==
    IF Head(todo[t]).kind = "add"
    THEN SubSeq(facts, 1, Len(facts) - 1)
    ELSE facts

(* The JSON array: all that is remembered, the change included. *)
Written(t) == facts

(* The JSON is built, then the file is opened with trunc. *)
SaveOpens(t) ==
    /\ pc[t] = "save"
    /\ snapshot' = [snapshot EXCEPT ![t] = Written(t)]
    /\ file' = [complete |-> FALSE, facts |-> <<>>]
    /\ pc' = [pc EXCEPT ![t] = "write"]
    /\ UNCHANGED <<failing, up, facts, owner, todo, served, crashes, acked, mine>>

SaveWrites(t) ==
    /\ pc[t] = "write"
    /\ file' = [complete |-> TRUE, facts |-> snapshot[t]]
    /\ snapshot' = [snapshot EXCEPT ![t] = <<>>]
    /\ Return(t)

(* The stream is not tested after the write. *)
SaveFails(t) ==
    /\ pc[t] = "write"
    /\ failing
    /\ snapshot' = [snapshot EXCEPT ![t] = <<>>]
    /\ Return(t)
    /\ UNCHANGED file

(* AllFacts takes the mutex once more; its result is the answer, or the     *)
(* system message sent ahead of the conversation.                           *)
Answer(t) ==
    /\ pc[t] = "ready"
    /\ todo[t] = <<>>
    /\ Unlocked(t)
    /\ pc' = [pc EXCEPT ![t] = "idle"]
    /\ served' = [served EXCEPT ![t] = @ + 1]
    /\ UNCHANGED <<failing, up, facts, owner, file, todo, snapshot, crashes, acked, mine>>

Crash ==
    /\ up
    /\ crashes < MaxCrashes
    /\ crashes' = crashes + 1
    /\ up' = FALSE
    /\ facts' = <<>>
    /\ owner' = NoThread
    /\ pc' = [t \in Threads |-> "idle"]
    /\ todo' = [t \in Threads |-> <<>>]
    /\ snapshot' = [t \in Threads |-> <<>>]
    /\ mine' = [t \in Threads |-> {}]
    /\ UNCHANGED <<failing, file, served, acked>>

(* What Load makes of the file: one that does not parse is an empty store. *)
Loaded == IF file.complete THEN file.facts ELSE <<>>

(* The constructor's Load, before any request. *)
Restart ==
    /\ ~up
    /\ up' = TRUE
    /\ facts' = Loaded
    /\ acked' = acked \cap KeysOf(facts')
    /\ UNCHANGED <<failing, owner, file, threadVars, crashes, mine>>

Init ==
    /\ failing \in MayFail
    /\ up = TRUE
    /\ facts = <<>>
    /\ owner = NoThread
    /\ file = [complete |-> FALSE, facts |-> <<>>]
    /\ pc = [t \in Threads |-> "idle"]
    /\ todo = [t \in Threads |-> <<>>]
    /\ snapshot = [t \in Threads |-> <<>>]
    /\ served = [t \in Threads |-> 0]
    /\ crashes = 0
    /\ acked = {}
    /\ mine = [t \in Threads |-> {}]

(* What a thread does about the request it has. *)
Work(t) ==
    \/ AddKnown(t) \/ AddNew(t) \/ RemoveKnown(t) \/ RemoveUnknown(t)
    \/ SaveAbandoned(t) \/ SaveOpens(t) \/ SaveWrites(t) \/ SaveFails(t)
    \/ Answer(t)

Next ==
    \/ \E t \in Threads : Receive(t) \/ Work(t)
    \/ Crash
    \/ Restart

(* Threads with a request keep running; no fairness is asked of the mutex,  *)
(* of clients or of restarts.                                               *)
Spec == Init /\ [][Next]_vars /\ \A t \in Threads : WF_vars(Work(t))

-----------------------------------------------------------------------------
(* Properties. *)

(* The state of the program has the types of its declarations; facts keep   *)
(* their own spelling (MemoryStore.h:49-51, MemoryStore.cpp:131).           *)
TypeOK ==
    /\ failing \in BOOLEAN
    /\ up \in BOOLEAN
    /\ facts \in Seq(Facts)
    /\ owner \in Threads \cup {NoThread}
    /\ file \in [complete : BOOLEAN, facts : Seq(Facts)]
    /\ pc \in [Threads -> {"idle", "ready", "save", "write"}]
    /\ todo \in [Threads -> Seq([kind : {"add", "remove"}, fact : Facts])]
    /\ snapshot \in [Threads -> Seq(Facts)]
    /\ served \in [Threads -> 0..MaxRequests]
    /\ crashes \in 0..MaxCrashes
    /\ acked \subseteq {Key[f] : f \in Facts}
    /\ mine \in [Threads -> SUBSET {Key[f] : f \in Facts}]

Saving == \E t \in Threads : pc[t] \in {"save", "write"}

(* While saves succeed, a restart would load what the server remembers,     *)
(* whenever none is under way: MemoryStore.h:34, 39 "persists to disk       *)
(* immediately", by saves that must not overlap (:20-21, 47 "caller must    *)
(* hold mutex_").                                                           *)
FileUpToDate == ~failing /\ up /\ ~Saving => facts = Loaded

(* While saves succeed, a crash costs the store everything or nothing of    *)
(* what it had acknowledged, never a part (SaveLocked, then Load).          *)
AllOrNothing ==
    [][~failing /\ ~up /\ up' =>
          facts' = <<>> \/ acked \subseteq KeysOf(facts')]_vars

(* The answer of a request lists every fact the request has added, unless   *)
(* some request has removed it in between: handlers lock once to change the *)
(* store and once more to list it (ChatServer.cpp:305-307, 353-360).        *)
AnswerHasOwnFacts ==
    [][\A t \in Threads : pc[t] = "ready" /\ pc'[t] = "idle" /\ up' =>
          mine[t] \subseteq KeysOf(facts)]_vars

(* Every request is answered, unless the server crashes. *)
RequestsAnswered == \A t \in Threads : pc[t] # "idle" ~> pc[t] = "idle"

(* While it runs the store is a FactStore, whatever its threads interleave: *)
(* one change at a time, nothing added twice, never two facts lost at once  *)
(* (MemoryStore.cpp:118-154).                                               *)
Store == INSTANCE FactStore WITH Fact <- Facts, KeyOf <- Key, known <- facts

ImplementsFactStore ==
    /\ Store!Init
    /\ [][up /\ up' => Store!Next]_facts

(* MemoryStore.h:9-12 the assistant remembers facts "across sessions", and  *)
(* :33-35 AddFact "persists to disk immediately. Returns true if it was     *)
(* newly added": what callers were told is remembered is on disk whenever   *)
(* no save is under way.                                                    *)
AckedOnDisk == ~Saving => acked \subseteq KeysOf(file.facts)

=============================================================================
