---------------------------- MODULE StreamProxy ----------------------------
(***************************************************************************)
(* The streaming half of ChatServer's POST /api/chat and POST /api/pull     *)
(* (src/src/ChatServer.cpp): one pool thread per request asks Ollama, hands *)
(* every chunk on to the browser as it arrives, and reports a failure as an *)
(* NDJSON line of its own.  The browser's half of a connection is in the    *)
(* modules that extend this one.                                            *)
(*                                                                          *)
(* A stream is a sequence of pieces.  A chunk may end inside a line: "half" *)
(* is the front of one and "rest" its remainder.  "blank" is a line without *)
(* content, "last" the line that says that all is done, "error" a line with *)
(* an error, Ollama's or the server's, "end" the end of the chunked body    *)
(* and "cut" the connection breaking without it.                            *)
(***************************************************************************)
EXTENDS Naturals, Sequences, FiniteSets

CONSTANTS
    Requests,   \* requests of the browser
    PoolSize,   \* threads of httplib's pool
    MaxWire     \* bound: pieces under way, after which a write blocks

ASSUME ProxyAssumption == PoolSize \in Nat \ {0} /\ MaxWire \in Nat \ {0}

VARIABLES
    conn,       \* the browser's half of the connection
    proxy,      \* where the request's handler is
    ollama,     \* where Ollama's answer is
    wire        \* pieces the server wrote and the browser did not read yet

proxyVars == <<conn, proxy, ollama, wire>>

Pieces == {"line", "half", "rest", "blank", "last", "error", "end", "cut"}

(* "torn": the answer broke inside a line, "broken": between two.           *)
OllamaStates == {"idle", "clean", "inside", "complete", "failed", "torn", "broken", "dropped"}

ProxyTypeOK ==
    /\ conn \in [Requests -> {"none", "open", "closed"}]
    /\ proxy \in [Requests -> {"idle", "queued", "connecting", "relaying", "ended"}]
    /\ ollama \in [Requests -> OllamaStates]
    /\ wire \in [Requests -> Seq(Pieces)]

ProxyInit ==
    /\ conn = [r \in Requests |-> "none"]
    /\ proxy = [r \in Requests |-> "idle"]
    /\ ollama = [r \in Requests |-> "idle"]
    /\ wire = [r \in Requests |-> <<>>]

-----------------------------------------------------------------------------
(* Used by the browser's steps. *)

OpenRequest(r) ==
    /\ conn' = [conn EXCEPT ![r] = "open"]
    /\ proxy' = [proxy EXCEPT ![r] = "queued"]
    /\ UNCHANGED <<ollama, wire>>

(* An abort, a reload or the end of the body: nothing more is read.         *)
Hangup(rs) ==
    /\ conn' = [r \in Requests |-> IF r \in rs THEN "closed" ELSE conn[r]]
    /\ wire' = [r \in Requests |-> IF r \in rs THEN <<>> ELSE wire[r]]
    /\ UNCHANGED <<proxy, ollama>>

TakePiece(r) ==
    /\ wire' = [wire EXCEPT ![r] = Tail(@)]
    /\ UNCHANGED <<conn, proxy, ollama>>

-----------------------------------------------------------------------------
(* The handler. *)

Busy == {r \in Requests : proxy[r] \in {"connecting", "relaying"}}

(* A thread takes the request.  httplib asks for the body only if the       *)
(* browser is still there.                                                  *)
Begin(r) ==
    /\ proxy[r] = "queued"
    /\ Cardinality(Busy) < PoolSize
    /\ proxy' = [proxy EXCEPT ![r] = IF conn[r] = "open" THEN "connecting" ELSE "ended"]
    /\ UNCHANGED <<conn, ollama, wire>>

(* The answer of Ollama becomes `state` and the handler ends with `pieces`, *)
(* which are lost if the browser is gone.                                   *)
Conclude(r, state, pieces) ==
    /\ ollama' = [ollama EXCEPT ![r] = state]
    /\ proxy' = [proxy EXCEPT ![r] = "ended"]
    /\ wire' = [wire EXCEPT ![r] = IF conn[r] = "open" THEN @ \o pieces ELSE @]
    /\ UNCHANGED conn

(* Mutant of ErrorReport: no WriteNdjsonError. *)
NoErrorReport == <<"end">>

(* WriteNdjsonError, then sink.done(). *)
ErrorReport == <<"error", "end">>

(* Connection refused or timed out, or a status outside 200..299: one error *)
(* line in either case.                                                     *)
NoAnswer(r) ==
    /\ proxy[r] = "connecting"
    /\ Conclude(r, "failed", ErrorReport)

Answering(r) ==
    /\ proxy[r] = "connecting"
    /\ proxy' = [proxy EXCEPT ![r] = "relaying"]
    /\ ollama' = [ollama EXCEPT ![r] = "clean"]
    /\ UNCHANGED <<conn, wire>>

(* Mutant of Gone: the receiver ignores what sink.write returns. *)
NeverGone(r) == FALSE

Gone(r) == conn[r] # "open"

(* The content receiver: a chunk goes to the browser, and a write that      *)
(* fails cancels the request to Ollama.                                     *)
Forward(r, state, piece) ==
    /\ proxy[r] = "relaying"
    /\ IF Gone(r)
         THEN Conclude(r, "dropped", <<>>)
         ELSE /\ Len(wire[r]) < MaxWire
              /\ ollama' = [ollama EXCEPT ![r] = state]
              /\ wire' = [wire EXCEPT ![r] = IF conn[r] = "open" THEN Append(@, piece) ELSE @]
              /\ UNCHANGED <<conn, proxy>>

(* What Ollama sends next. *)
OllamaSends(r) ==
    \/ /\ ollama[r] = "clean"
       /\ \/ \E piece \in {"line", "blank"} : Forward(r, "clean", piece)
          \/ Forward(r, "inside", "half")
          \/ Forward(r, "complete", "last")
          \/ Forward(r, "failed", "error")
    \/ ollama[r] = "inside" /\ Forward(r, "clean", "rest")

(* Ollama ends a body after its last line or after an error line. *)
BodyEnds(r) ==
    /\ proxy[r] = "relaying"
    /\ ollama[r] \in {"complete", "failed"}
    /\ Conclude(r, ollama[r], <<"end">>)

(* The connection to Ollama breaks, or nothing came for 60 seconds. *)
StreamFails(r) ==
    /\ proxy[r] = "relaying"
    /\ Conclude(r, CASE ollama[r] = "inside" -> "torn"
                     [] ollama[r] = "clean" -> "broken"
                     [] OTHER -> ollama[r], ErrorReport)

Handle(r) ==
    Begin(r) \/ NoAnswer(r) \/ Answering(r) \/ OllamaSends(r) \/ BodyEnds(r) \/ StreamFails(r)

(* The server is stopped and started again. *)
ServerRestarts ==
    LET Lost == {r \in Requests : proxy[r] \notin {"idle", "ended"}}
    IN  /\ Lost # {}
        /\ proxy' = [r \in Requests |-> IF r \in Lost THEN "ended" ELSE proxy[r]]
        /\ ollama' = [r \in Requests |-> IF r \in Lost /\ ollama[r] # "complete"
                                           THEN "dropped" ELSE ollama[r]]
        /\ wire' = [r \in Requests |-> IF r \in Lost /\ conn[r] = "open"
                                         THEN Append(wire[r], "cut") ELSE wire[r]]
        /\ UNCHANGED conn
=============================================================================
