----------------------------- MODULE ChatClient -----------------------------
(***************************************************************************)
(* The conversation of the chat page (src/web/chat.html: send, its reader,  *)
(* stop, new chat, reload) over the streaming proxy.                        *)
(*                                                                          *)
(* Every call of send() is a coroutine with locals of its own (call[r]);    *)
(* sending and currentAbort are shared by all of them.  The page is single- *)
(* threaded: a step is what runs between two awaits.  An abort rejects the  *)
(* await under way, and its catch and finally run before any other event.   *)
(*                                                                          *)
(* Abstractions: an entry of the conversation is the request it belongs to  *)
(* and its role; a model is always selected (ModelPicker has the selector). *)
(***************************************************************************)
EXTENDS StreamProxy

CONSTANT NoRequest

ASSUME ClientAssumption == NoRequest \notin Requests

VARIABLES
    history,        \* the conversation
    stored,         \* ... as kept in localStorage
    sending,
    currentAbort,   \* the request whose AbortController is current
    call,           \* the locals of each call of send()
    outcome,        \* history: what the page showed in the end
    stops,          \* history: requests the user stopped
    cleared         \* history: requests asked before the conversation was last cleared

pageVars == <<history, stored, sending, currentAbort, call>>
vars == <<proxyVars, pageVars, outcome, stops, cleared>>

Outcomes == {"none", "answered", "error", "stopped", "timed out", "failed", "gone"}

Question(r) == [role |-> "user", of |-> r]
Reply(r) == [role |-> "assistant", of |-> r]
Entries == {Question(r) : r \in Requests} \cup {Reply(r) : r \in Requests}

Calls == [at : {"unborn", "reading", "over"}, inside : BOOLEAN, content : BOOLEAN,
          sawError : BOOLEAN, timer : BOOLEAN, timedOut : BOOLEAN]

Unborn == [at |-> "unborn", inside |-> FALSE, content |-> FALSE,
           sawError |-> FALSE, timer |-> FALSE, timedOut |-> FALSE]

Asked == {r \in Requests : call[r].at # "unborn"}
Reading == {r \in Requests : call[r].at = "reading"}

-----------------------------------------------------------------------------
(* Asking. *)

Send(r) ==
    /\ ~sending
    /\ call[r].at = "unborn"
    /\ sending' = TRUE
    /\ currentAbort' = r
    /\ history' = Append(history, Question(r))
    /\ stored' = history'
    /\ call' = [call EXCEPT ![r] = [Unborn EXCEPT !.at = "reading", !.timer = TRUE]]
    /\ OpenRequest(r)
    /\ UNCHANGED <<outcome, stops, cleared>>

-----------------------------------------------------------------------------
(* The end of a call. *)

(* Mutant of Over: the timer is not cleared. *)
OverWithTimer(c) == [c EXCEPT !.at = "over", !.inside = FALSE, !.content = FALSE,
                              !.sawError = FALSE]

(* The finally block; the locals that nobody can reach any more are reset.  *)
Over(c) == [Unborn EXCEPT !.at = "over", !.timedOut = c.timedOut]

(* The call of r ends, with calls the locals until then. *)
Settle(r, shown, calls) ==
    /\ call' = [calls EXCEPT ![r] = Over(@)]
    /\ outcome' = [outcome EXCEPT ![r] = shown]
    /\ sending' = FALSE
    /\ currentAbort' = NoRequest
    /\ Hangup({r})

(* Mutant of Abort: the composer is reset, but the reader never hears of it. *)
AbortUnheard(calls) ==
    /\ call' = calls
    /\ outcome' = [outcome EXCEPT ![currentAbort] = "stopped"]
    /\ sending' = FALSE
    /\ currentAbort' = NoRequest
    /\ UNCHANGED proxyVars

(* AbortError reaches the current call. *)
Abort(calls) ==
    LET r == currentAbort
    IN  Settle(r, IF calls[r].timedOut THEN "timed out" ELSE "stopped", calls)

Stop ==
    /\ sending
    /\ currentAbort # NoRequest
    /\ Abort(call)
    /\ stops' = stops \cup {currentAbort}
    /\ UNCHANGED <<history, stored, cleared>>

(* Ten minutes after send(): the callback aborts the request that is        *)
(* current, whichever that is.                                              *)
TimerFires(r) ==
    LET calls == [call EXCEPT ![r].timer = FALSE, ![r].timedOut = TRUE]
    IN  /\ call[r].timer
        /\ IF currentAbort # NoRequest
             THEN Abort(calls)
             ELSE /\ call' = calls
                  /\ UNCHANGED <<proxyVars, sending, currentAbort, outcome>>
        /\ UNCHANGED <<history, stored, stops, cleared>>

-----------------------------------------------------------------------------
(* Reading. *)

(* Mutant of AfterLine: the timer is cleared once the answer has begun. *)
AfterLineUntimed(c, piece) ==
    [c EXCEPT !.inside = (piece = "half"),
              !.content = @ \/ piece \in {"line", "rest"},
              !.sawError = @ \/ piece = "error",
              !.timer = FALSE]

(* handleLine.  Text that does not parse is skipped, such as an error line  *)
(* behind the front of another one; an error replaces the text shown.       *)
AfterLine(c, piece) ==
    LET error == piece = "error" /\ ~c.inside
    IN  [c EXCEPT !.inside = (piece = "half"),
                  !.content = @ \/ piece \in {"line", "rest"} \/ error,
                  !.sawError = @ \/ error]

ReadLine(r) ==
    /\ call[r].at = "reading"
    /\ wire[r] # <<>>
    /\ Head(wire[r]) \notin {"end", "cut"}
    /\ call' = [call EXCEPT ![r] = AfterLine(@, Head(wire[r]))]
    /\ TakePiece(r)
    /\ UNCHANGED <<history, stored, sending, currentAbort, outcome, stops, cleared>>

(* The body ends; what is left of an unfinished line does not parse.  The   *)
(* reply goes to whatever conversation there is now.                        *)
ReadEnd(r) ==
    /\ call[r].at = "reading"
    /\ wire[r] # <<>>
    /\ Head(wire[r]) = "end"
    /\ IF call[r].content /\ ~call[r].sawError
         THEN /\ history' = Append(history, Reply(r))
              /\ stored' = history'
              /\ Settle(r, "answered", call)
         ELSE /\ Settle(r, IF call[r].sawError THEN "error" ELSE "failed", call)
              /\ UNCHANGED <<history, stored>>
    /\ UNCHANGED <<stops, cleared>>

ReadBreaks(r) ==
    /\ call[r].at = "reading"
    /\ wire[r] # <<>>
    /\ Head(wire[r]) = "cut"
    /\ Settle(r, "failed", call)
    /\ UNCHANGED <<history, stored, stops, cleared>>

-----------------------------------------------------------------------------
(* Clearing and reloading. *)

NewChat ==
    /\ history # <<>>
    /\ history' = <<>>
    /\ stored' = <<>>
    /\ cleared' = Asked
    /\ UNCHANGED <<proxyVars, sending, currentAbort, call, outcome, stops>>

(* The page is loaded anew: its requests and timers are gone. *)
Reload ==
    /\ history' = stored
    /\ sending' = FALSE
    /\ currentAbort' = NoRequest
    /\ call' = [r \in Requests |-> IF r \in Asked THEN [Unborn EXCEPT !.at = "over"] ELSE call[r]]
    /\ outcome' = [r \in Requests |-> IF r \in Reading THEN "gone" ELSE outcome[r]]
    /\ Hangup(Reading)
    /\ UNCHANGED <<stored, stops, cleared>>

-----------------------------------------------------------------------------
(* The specification. *)

Init ==
    /\ ProxyInit
    /\ history = <<>>
    /\ stored = <<>>
    /\ sending = FALSE
    /\ currentAbort = NoRequest
    /\ call = [r \in Requests |-> Unborn]
    /\ outcome = [r \in Requests |-> "none"]
    /\ stops = {}
    /\ cleared = {}

Read(r) == ReadLine(r) \/ ReadEnd(r) \/ ReadBreaks(r)

Serve(r) == Handle(r) /\ UNCHANGED <<pageVars, outcome, stops, cleared>>

User == Stop \/ NewChat \/ Reload \/ \E r \in Requests : Send(r)

Restart == ServerRestarts /\ UNCHANGED <<pageVars, outcome, stops, cleared>>

Next ==
    \/ User
    \/ Restart
    \/ \E r \in Requests : Read(r) \/ TimerFires(r) \/ Serve(r)

(* A thread of the pool goes on, as its calls have timeouts; the page reads *)
(* what has arrived; a timer that is not cleared expires.                   *)
Fairness ==
    \A r \in Requests :
        WF_vars(Serve(r)) /\ WF_vars(Read(r)) /\ WF_vars(TimerFires(r))

Spec == Init /\ [][Next]_vars /\ Fairness

-----------------------------------------------------------------------------
(* Properties. *)

(* The types, and that sending and currentAbort mean the one call that is   *)
(* waiting for its answer.                                                  *)
TypeOK ==
    /\ ProxyTypeOK
    /\ history \in Seq(Entries)
    /\ stored \in Seq(Entries)
    /\ sending \in BOOLEAN
    /\ call \in [Requests -> Calls]
    /\ outcome \in [Requests -> Outcomes]
    /\ stops \subseteq Requests
    /\ cleared \subseteq Requests
    /\ IF sending THEN Reading = {currentAbort}
                  ELSE Reading = {} /\ currentAbort = NoRequest

(* A reply in the stored conversation is one Ollama completed, except when  *)
(* the stream broke inside a line: the server's error line is then glued to *)
(* the front of that line and the page skips both.                          *)
StoredRepliesWhole ==
    \A i \in DOMAIN stored :
        stored[i].role = "assistant" => ollama[stored[i].of] \in {"complete", "torn"}

(* What README.md:376-377 says the browser gets, "same NDJSON stream":      *)
(* a reply it keeps is one that Ollama completed.                           *)
RepliesWhole ==
    \A i \in DOMAIN stored :
        stored[i].role = "assistant" => ollama[stored[i].of] = "complete"

(* A reply stands right behind its question, unless the conversation was    *)
(* cleared while it was on its way: then it stands first, without one.      *)
RepliesInPlace ==
    \A i \in DOMAIN history :
        history[i].role = "assistant" =>
            IF i = 1 THEN history[i].of \in cleared
                     ELSE history[i - 1] = Question(history[i].of)

(* The page says "stopped" only of a request the user stopped: the timer of *)
(* an earlier request never aborts a later one.                             *)
AbortsAttributed == \A r \in Requests : outcome[r] = "stopped" => r \in stops

(* Whatever Ollama, the server and the user do, every call of send() ends   *)
(* and the composer can be used again.                                      *)
Settles == \A r \in Requests : (call[r].at = "reading") ~> (call[r].at = "over")

(* Every request leaves its pool thread in the end, also one the browser    *)
(* has given up while Ollama went on sending.                               *)
ThreadsReleased == \A r \in Requests : (proxy[r] = "queued") ~> (proxy[r] = "ended")
=============================================================================
