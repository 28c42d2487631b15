-------------------------- MODULE ChatClientProofs --------------------------
(***************************************************************************)
(* Theorems about ChatClient for every value of its constants.              *)
(***************************************************************************)
EXTENDS ChatClient, SequenceTheorems, TLAPS

-----------------------------------------------------------------------------
(* The proxy's part. *)

LEMMA AppendPiece ==
    ASSUME ProxyTypeOK, NEW r \in Requests, NEW piece \in Pieces
    PROVE  Append(wire[r], piece) \in Seq(Pieces)
<1>1. wire[r] \in Seq(Pieces)
  BY DEF ProxyTypeOK
<1>2. QED
  BY <1>1, AppendProperties

LEMMA OpenType ==
    ASSUME ProxyTypeOK, NEW r \in Requests, OpenRequest(r)
    PROVE  ProxyTypeOK'
  BY DEF ProxyTypeOK, OpenRequest

LEMMA HangupType ==
    ASSUME ProxyTypeOK, NEW rs, Hangup(rs)
    PROVE  ProxyTypeOK'
<1>1. <<>> \in Seq(Pieces)
  BY EmptySeq
<1>2. QED
  BY <1>1 DEF ProxyTypeOK, Hangup

LEMMA TakeType ==
    ASSUME ProxyTypeOK, NEW r \in Requests, wire[r] # <<>>, TakePiece(r)
    PROVE  ProxyTypeOK'
<1>1. Tail(wire[r]) \in Seq(Pieces)
  BY HeadTailProperties DEF ProxyTypeOK
<1>2. QED
  BY <1>1 DEF ProxyTypeOK, TakePiece

LEMMA ConcludeType ==
    ASSUME ProxyTypeOK, NEW r \in Requests, NEW state \in OllamaStates,
           NEW pieces \in Seq(Pieces), Conclude(r, state, pieces)
    PROVE  ProxyTypeOK'
<1>1. wire[r] \in Seq(Pieces)
  BY DEF ProxyTypeOK
<1>2. wire[r] \o pieces \in Seq(Pieces)
  BY <1>1, ConcatProperties
<1>3. QED
  BY <1>1, <1>2 DEF ProxyTypeOK, Conclude

LEMMA ReportType == ErrorReport \in Seq(Pieces) /\ <<"end">> \in Seq(Pieces) /\ <<>> \in Seq(Pieces)
<1>1. "error" \in Pieces /\ "end" \in Pieces
  BY DEF Pieces
<1>2. QED
  BY <1>1, EmptySeq DEF ErrorReport

LEMMA ForwardType ==
    ASSUME ProxyTypeOK, NEW r \in Requests, NEW state \in OllamaStates,
           NEW piece \in Pieces, Forward(r, state, piece)
    PROVE  ProxyTypeOK'
<1>1. CASE Gone(r)
  BY <1>1, ReportType, ConcludeType DEF Forward, OllamaStates
<1>2. CASE ~Gone(r)
  BY <1>2, AppendPiece DEF Forward, ProxyTypeOK
<1>3. QED
  BY <1>1, <1>2

LEMMA HandleType ==
    ASSUME ProxyTypeOK, NEW r \in Requests, Handle(r)
    PROVE  ProxyTypeOK'
<1>1. CASE Begin(r)
  BY <1>1 DEF Begin, ProxyTypeOK
<1>2. CASE NoAnswer(r)
  BY <1>2, ReportType, ConcludeType DEF NoAnswer, OllamaStates
<1>3. CASE Answering(r)
  BY <1>3 DEF Answering, ProxyTypeOK, OllamaStates
<1>4. CASE OllamaSends(r)
  <2>1. \E state \in OllamaStates, piece \in Pieces : Forward(r, state, piece)
    BY <1>4 DEF OllamaSends, OllamaStates, Pieces
  <2>2. QED
    BY <2>1, ForwardType
<1>5. CASE BodyEnds(r)
  <2>1. ollama[r] \in OllamaStates
    BY DEF ProxyTypeOK
  <2>2. QED
    BY <1>5, <2>1, ReportType, ConcludeType DEF BodyEnds
<1>6. CASE StreamFails(r)
  <2>1. ollama[r] \in OllamaStates
    BY DEF ProxyTypeOK
  <2>2. \E state \in OllamaStates : Conclude(r, state, ErrorReport)
    BY <1>6, <2>1 DEF StreamFails, OllamaStates
  <2>3. QED
    BY <2>2, ReportType, ConcludeType
<1>7. QED
  BY <1>1, <1>2, <1>3, <1>4, <1>5, <1>6 DEF Handle

LEMMA RestartType ==
    ASSUME ProxyTypeOK, ServerRestarts
    PROVE  ProxyTypeOK'
<1>1. \A r \in Requests : Append(wire[r], "cut") \in Seq(Pieces)
  BY AppendPiece DEF Pieces
<1>2. QED
  BY <1>1 DEF ServerRestarts, ProxyTypeOK, OllamaStates

-----------------------------------------------------------------------------
(* The page's part. *)

LEMMA EntriesType ==
    \A r \in Requests : Question(r) \in Entries /\ Reply(r) \in Entries
  BY DEF Entries

LEMMA CallsType ==
    /\ Unborn \in Calls
    /\ \A c \in Calls : Over(c) \in Calls /\ Over(c).at = "over" /\ Over(c).timer = FALSE
    /\ \A piece : \A c \in Calls : AfterLine(c, piece) \in Calls
                              /\ AfterLine(c, piece).at = c.at
                              /\ AfterLine(c, piece).timer = c.timer
    /\ [[Unborn EXCEPT !.at = "reading"] EXCEPT !.timer = TRUE] \in Calls
<1>1. Unborn \in Calls
  BY DEF Unborn, Calls
<1>2. \A c \in Calls : Over(c) \in Calls /\ Over(c).at = "over" /\ Over(c).timer = FALSE
  BY DEF Unborn, Calls, Over
<1>3. \A piece : \A c \in Calls : AfterLine(c, piece) \in Calls
                              /\ AfterLine(c, piece).at = c.at
                              /\ AfterLine(c, piece).timer = c.timer
  <2> SUFFICES ASSUME NEW c \in Calls, NEW piece
               PROVE  AfterLine(c, piece) \in Calls
                      /\ AfterLine(c, piece).at = c.at
                      /\ AfterLine(c, piece).timer = c.timer
    OBVIOUS
  <2> DEFINE error == piece = "error" /\ ~c.inside
             x == piece = "half"
             y == c.content \/ piece \in {"line", "rest"} \/ error
             z == c.sawError \/ error
  <2>1. x \in BOOLEAN /\ y \in BOOLEAN /\ z \in BOOLEAN
    BY Zenon
  <2>2. AfterLine(c, piece) = [c EXCEPT !.inside = x, !.content = y, !.sawError = z]
    BY Zenon DEF AfterLine
  <2> HIDE DEF x, y, z
  <2>3. QED
    BY <2>1, <2>2 DEF Calls
<1>4. [[Unborn EXCEPT !.at = "reading"] EXCEPT !.timer = TRUE] \in Calls
  BY DEF Unborn, Calls
<1>5. QED
  BY <1>1, <1>2, <1>3, <1>4

(* sending and currentAbort mean the one call under way. *)
Composer == IF sending THEN Reading = {currentAbort}
                       ELSE Reading = {} /\ currentAbort = NoRequest

LEMMA OneReading ==
    ASSUME Composer, NEW r, r \in Reading
    PROVE  sending /\ Reading = {r} /\ currentAbort = r
<1>1. sending
  BY Zenon DEF Composer
<1>2. Reading = {currentAbort}
  BY <1>1, Zenon DEF Composer
<1>3. QED
  BY <1>1, <1>2

LEMMA AbortedReads ==
    ASSUME Composer, currentAbort # NoRequest
    PROVE  sending /\ Reading = {currentAbort} /\ currentAbort \in Requests
<1>1. sending
  BY Zenon DEF Composer
<1>2. Reading = {currentAbort}
  BY <1>1, Zenon DEF Composer
<1>3. QED
  BY <1>1, <1>2 DEF Reading

LEMMA Parts ==
    ASSUME TypeOK
    PROVE  /\ ProxyTypeOK /\ Composer
           /\ history \in Seq(Entries) /\ stored \in Seq(Entries)
           /\ call \in [Requests -> Calls] /\ outcome \in [Requests -> Outcomes]
           /\ stops \subseteq Requests /\ cleared \subseteq Requests
           /\ sending \in BOOLEAN
  BY Zenon DEF TypeOK, Composer

(* The page's types after a step, from what the step may change. *)
LEMMA Whole ==
    ASSUME ProxyTypeOK', Composer', sending' \in BOOLEAN,
           history' \in Seq(Entries), stored' \in Seq(Entries),
           call' \in [Requests -> Calls], outcome' \in [Requests -> Outcomes],
           stops' \subseteq Requests, cleared' \subseteq Requests
    PROVE  TypeOK'
  BY Zenon DEF TypeOK, Composer

(* When the call of r ends no call is under way. *)
LEMMA SettleType ==
    ASSUME TypeOK, NEW r \in Reading, NEW shown \in Outcomes,
           NEW calls \in [Requests -> Calls],
           \A q \in Requests : calls[q].at = call[q].at,
           Settle(r, shown, calls)
    PROVE  /\ ProxyTypeOK' /\ Composer' /\ sending' \in BOOLEAN
           /\ call' \in [Requests -> Calls] /\ outcome' \in [Requests -> Outcomes]
           /\ Reading' = {}
<1>1. /\ call' = [calls EXCEPT ![r] = Over(@)]
      /\ outcome' = [outcome EXCEPT ![r] = shown]
      /\ sending' = FALSE /\ currentAbort' = NoRequest
      /\ Hangup({r})
  BY Zenon DEF Settle
<1>2. r \in Requests /\ Reading = {r}
  BY Parts, OneReading DEF Reading
<1>3. ProxyTypeOK'
  BY <1>1, Parts, HangupType
<1>4. call' \in [Requests -> Calls] /\ outcome' \in [Requests -> Outcomes]
  BY <1>1, <1>2, CallsType, Parts
<1>5. \A q \in Requests : call'[q].at # "reading"
  <2>1. call'[r].at = "over"
    BY <1>1, <1>2, CallsType
  <2>2. \A q \in Requests : q # r => call'[q].at = call[q].at
    BY <1>1
  <2>3. \A q \in Requests : q # r => call[q].at # "reading"
    BY <1>2 DEF Reading
  <2>4. QED
    BY <2>1, <2>2, <2>3
<1>6. Reading' = {}
  BY <1>5 DEF Reading
<1>7. Composer' /\ sending' \in BOOLEAN
  <2>1. FALSE \in BOOLEAN
    OBVIOUS
  <2>2. QED
    BY <1>1, <1>6, <2>1, Zenon DEF Composer
<1>8. QED
  BY <1>3, <1>4, <1>6, <1>7

(* An abort ends the call that is current. *)
LEMMA AbortIs ==
    ASSUME NEW calls, Abort(calls)
    PROVE  \E shown \in Outcomes :
              /\ Settle(currentAbort, shown, calls)
              /\ shown = "stopped" => ~calls[currentAbort].timedOut
<1>1. Settle(currentAbort, IF calls[currentAbort].timedOut THEN "timed out" ELSE "stopped", calls)
  BY DEF Abort
<1>2. QED
  BY <1>1 DEF Outcomes

(* The locals once the timer of r has fired. *)
Fired(r) == [call EXCEPT ![r].timer = FALSE, ![r].timedOut = TRUE]

LEMMA FiredType ==
    ASSUME TypeOK, NEW r \in Requests
    PROVE  /\ Fired(r) \in [Requests -> Calls]
           /\ \A q \in Requests : Fired(r)[q].at = call[q].at
           /\ \A q \in Requests : q # r => Fired(r)[q] = call[q]
           /\ Fired(r)[r].timer = FALSE /\ Fired(r)[r].timedOut = TRUE
<1>1. call \in [Requests -> Calls]
  BY Parts
<1>2. Fired(r) = [call EXCEPT ![r] = [[@ EXCEPT !.timer = FALSE] EXCEPT !.timedOut = TRUE]]
  BY <1>1 DEF Fired
<1>3. \A c \in Calls : LET d == [[c EXCEPT !.timer = FALSE] EXCEPT !.timedOut = TRUE]
                       IN  d \in Calls /\ d.at = c.at /\ d.timer = FALSE /\ d.timedOut = TRUE
  BY DEF Calls
<1>4. call[r] \in Calls
  BY <1>1
<1>5. Fired(r)[r] = [[call[r] EXCEPT !.timer = FALSE] EXCEPT !.timedOut = TRUE]
  BY <1>1, <1>2
<1>6. \A q \in Requests : q # r => Fired(r)[q] = call[q]
  BY <1>1, <1>2
<1>7. /\ Fired(r)[r] \in Calls /\ Fired(r)[r].at = call[r].at
      /\ Fired(r)[r].timer = FALSE /\ Fired(r)[r].timedOut = TRUE
  BY <1>3, <1>4, <1>5
<1>8. DOMAIN Fired(r) = Requests /\ Fired(r) = [q \in Requests |-> Fired(r)[q]]
  BY <1>1, <1>2
<1>9. QED
  BY <1>1, <1>6, <1>7, <1>8

(* What the steps do to the page, one by one. *)
LEMMA SendType ==
    ASSUME TypeOK, NEW r \in Requests, Send(r)
    PROVE  /\ TypeOK'
           /\ Reading = {} /\ Reading' = {r}
           /\ call' = [call EXCEPT ![r] = [[Unborn EXCEPT !.at = "reading"] EXCEPT !.timer = TRUE]]
<1>1. /\ ~sending /\ sending' = TRUE /\ currentAbort' = r
      /\ history' = Append(history, Question(r)) /\ stored' = history'
      /\ OpenRequest(r)
      /\ outcome' = outcome /\ stops' = stops /\ cleared' = cleared
  BY Zenon DEF Send
<1>2. call' = [call EXCEPT ![r] = [[Unborn EXCEPT !.at = "reading"] EXCEPT !.timer = TRUE]]
  BY DEF Send
<1>3. Reading = {}
  BY <1>1, Parts, Zenon DEF Composer
<1>4. call' \in [Requests -> Calls]
  BY <1>2, CallsType, Parts
<1>5. Reading' = {r}
  <2>1. \A q \in Requests : q # r => call'[q].at # "reading"
    BY <1>2, <1>3, Parts DEF Reading
  <2>2. call'[r].at = "reading"
    BY <1>2, Parts DEF Unborn
  <2>3. QED
    BY <2>1, <2>2 DEF Reading
<1>6. Composer' /\ sending' \in BOOLEAN
  BY <1>1, <1>5, Zenon DEF Composer
<1>7. history' \in Seq(Entries) /\ stored' \in Seq(Entries)
  BY <1>1, EntriesType, Parts, AppendProperties
<1>8. ProxyTypeOK'
  BY <1>1, Parts, OpenType
<1>9. TypeOK'
  BY <1>1, <1>4, <1>6, <1>7, <1>8, Parts, Whole
<1>10. QED
  BY <1>2, <1>3, <1>5, <1>9

LEMMA StopType ==
    ASSUME TypeOK, Stop
    PROVE  TypeOK' /\ Reading' = {}
<1>1. /\ currentAbort # NoRequest /\ Abort(call)
      /\ stops' = stops \cup {currentAbort}
      /\ history' = history /\ stored' = stored /\ cleared' = cleared
  BY DEF Stop
<1>2. currentAbort \in Reading /\ currentAbort \in Requests
  BY <1>1, Parts, AbortedReads
<1>3. /\ ProxyTypeOK' /\ Composer' /\ sending' \in BOOLEAN
      /\ call' \in [Requests -> Calls] /\ outcome' \in [Requests -> Outcomes]
      /\ Reading' = {}
  BY <1>1, <1>2, AbortIs, SettleType, Parts
<1>4. QED
  BY <1>1, <1>2, <1>3, Parts, Whole

LEMMA TimerType ==
    ASSUME TypeOK, NEW r \in Requests, TimerFires(r)
    PROVE  TypeOK' /\ Reading' \subseteq Reading
<1>1. /\ history' = history /\ stored' = stored /\ stops' = stops /\ cleared' = cleared
      /\ IF currentAbort # NoRequest
           THEN Abort(Fired(r))
           ELSE /\ call' = Fired(r)
                /\ UNCHANGED <<proxyVars, sending, currentAbort, outcome>>
  BY DEF TimerFires, Fired
<1>2. CASE currentAbort # NoRequest
  <2>1. currentAbort \in Reading /\ currentAbort \in Requests
    BY <1>2, Parts, AbortedReads
  <2>2. /\ ProxyTypeOK' /\ Composer' /\ sending' \in BOOLEAN
        /\ call' \in [Requests -> Calls] /\ outcome' \in [Requests -> Outcomes]
        /\ Reading' = {}
    BY <1>1, <1>2, <2>1, AbortIs, FiredType, SettleType
  <2>3. QED
    BY <1>1, <2>2, Parts, Whole
<1>3. CASE currentAbort = NoRequest
  <2>1. /\ call' = Fired(r) /\ currentAbort' = currentAbort /\ outcome' = outcome
        /\ proxyVars' = proxyVars
    BY <1>1, <1>3
  <2>2. sending' = sending
    BY <1>1, <1>3, Zenon
  <2>3. Reading' = Reading /\ call' \in [Requests -> Calls]
    BY <2>1, FiredType DEF Reading
  <2>4. Composer' /\ sending' \in BOOLEAN
    BY <2>1, <2>2, <2>3, Parts, Zenon DEF Composer
  <2>5. ProxyTypeOK'
    BY <2>1, Parts DEF proxyVars, ProxyTypeOK
  <2>6. QED
    BY <1>1, <2>1, <2>3, <2>4, <2>5, Parts, Whole
<1>4. QED
  BY <1>2, <1>3

LEMMA ReadLineType ==
    ASSUME TypeOK, NEW r \in Requests, ReadLine(r)
    PROVE  /\ TypeOK' /\ Reading' = Reading
           /\ \A q \in Requests : call'[q].timer = call[q].timer /\ call'[q].at = call[q].at
<1>1. /\ wire[r] # <<>> /\ TakePiece(r)
      /\ call' = [call EXCEPT ![r] = AfterLine(@, Head(wire[r]))]
      /\ UNCHANGED <<history, stored, currentAbort, outcome, stops, cleared>>
  BY DEF ReadLine
<1>2. sending' = sending
  BY Zenon DEF ReadLine
<1>3. /\ call' \in [Requests -> Calls]
      /\ \A q \in Requests : call'[q].timer = call[q].timer /\ call'[q].at = call[q].at
  BY <1>1, CallsType, Parts
<1>4. Reading' = Reading
  BY <1>3 DEF Reading
<1>5. Composer' /\ sending' \in BOOLEAN
  BY <1>1, <1>2, <1>4, Parts, Zenon DEF Composer
<1>6. ProxyTypeOK'
  BY <1>1, Parts, TakeType
<1>7. QED
  BY <1>1, <1>3, <1>4, <1>5, <1>6, Parts, Whole

(* The end of the body, or of the connection. *)
LEMMA ReadOverType ==
    ASSUME TypeOK, NEW r \in Requests, ReadEnd(r) \/ ReadBreaks(r)
    PROVE  /\ TypeOK' /\ Reading' = {} /\ r \in Reading
           /\ \E shown \in Outcomes \ {"stopped"} : Settle(r, shown, call)
           /\ \/ history' = history /\ stored' = stored
              \/ history' = Append(history, Reply(r)) /\ stored' = history'
           /\ stops' = stops /\ cleared' = cleared
<1>1. r \in Reading
  BY DEF ReadEnd, ReadBreaks, Reading
<1>2. /\ \E shown \in Outcomes \ {"stopped"} : Settle(r, shown, call)
      /\ \/ history' = history /\ stored' = stored
         \/ history' = Append(history, Reply(r)) /\ stored' = history'
      /\ stops' = stops /\ cleared' = cleared
  <2>1. CASE ReadEnd(r)
    <3>1. "answered" \in Outcomes \ {"stopped"} /\ "error" \in Outcomes \ {"stopped"}
          /\ "failed" \in Outcomes \ {"stopped"}
      BY DEF Outcomes
    <3>2. QED
      BY <2>1, <3>1, Zenon DEF ReadEnd
  <2>2. CASE ReadBreaks(r)
    <3>1. "failed" \in Outcomes \ {"stopped"}
      BY DEF Outcomes
    <3>2. QED
      BY <2>2, <3>1 DEF ReadBreaks
  <2>3. QED
    BY <2>1, <2>2
<1>3. /\ ProxyTypeOK' /\ Composer' /\ sending' \in BOOLEAN
      /\ call' \in [Requests -> Calls] /\ outcome' \in [Requests -> Outcomes]
      /\ Reading' = {}
  BY <1>1, <1>2, SettleType, Parts
<1>4. history' \in Seq(Entries) /\ stored' \in Seq(Entries)
  <2>1. Append(history, Reply(r)) \in Seq(Entries)
    BY EntriesType, Parts, AppendProperties
  <2>2. QED
    BY <1>2, <2>1, Parts
<1>5. QED
  BY <1>1, <1>2, <1>3, <1>4, Parts, Whole

LEMMA NewChatType ==
    ASSUME TypeOK, NewChat
    PROVE  TypeOK'
<1>1. /\ history' = <<>> /\ stored' = <<>> /\ cleared' = Asked
      /\ UNCHANGED <<proxyVars, currentAbort, call, outcome, stops>>
  BY DEF NewChat
<1>2. sending' = sending
  BY Zenon DEF NewChat
<1>3. Reading' = Reading /\ <<>> \in Seq(Entries) /\ Asked \subseteq Requests
  BY <1>1, EmptySeq DEF Reading, Asked
<1>4. Composer' /\ sending' \in BOOLEAN
  BY <1>1, <1>2, <1>3, Parts, Zenon DEF Composer
<1>5. ProxyTypeOK'
  BY <1>1, Parts DEF proxyVars, ProxyTypeOK
<1>6. QED
  BY <1>1, <1>3, <1>4, <1>5, Parts, Whole

LEMMA ReloadType ==
    ASSUME TypeOK, Reload
    PROVE  /\ TypeOK' /\ Reading' = {}
           /\ \A q \in Requests : call'[q].timer = FALSE \/ (call'[q].at = "unborn" /\ call'[q] = call[q])
<1>1. /\ history' = stored /\ currentAbort' = NoRequest
      /\ call' = [r \in Requests |-> IF r \in Asked THEN [Unborn EXCEPT !.at = "over"] ELSE call[r]]
      /\ outcome' = [r \in Requests |-> IF r \in Reading THEN "gone" ELSE outcome[r]]
      /\ Hangup(Reading)
      /\ UNCHANGED <<stored, stops, cleared>>
  BY DEF Reload
<1>2. sending' = FALSE /\ FALSE \in BOOLEAN
  BY Zenon DEF Reload
<1>3. [Unborn EXCEPT !.at = "over"] \in Calls /\ [Unborn EXCEPT !.at = "over"].at = "over"
      /\ [Unborn EXCEPT !.at = "over"].timer = FALSE
  BY DEF Unborn, Calls
<1>4. call' \in [Requests -> Calls] /\ outcome' \in [Requests -> Outcomes]
  BY <1>1, <1>3, Parts DEF Outcomes
<1>5. \A q \in Requests : /\ call'[q].at # "reading"
                          /\ call'[q].timer = FALSE \/ (call'[q].at = "unborn" /\ call'[q] = call[q])
  <2> TAKE q \in Requests
  <2>1. CASE call[q].at = "unborn"
    BY <1>1, <2>1 DEF Asked
  <2>2. CASE call[q].at # "unborn"
    <3>1. call'[q] = [Unborn EXCEPT !.at = "over"]
      BY <1>1, <2>2 DEF Asked
    <3>2. call'[q].at # "reading"
      BY <1>3, <3>1
    <3>3. call'[q].timer = FALSE
      BY <1>3, <3>1, Zenon
    <3>4. QED
      BY <3>2, <3>3, Zenon
  <2>3. QED
    BY <2>1, <2>2
<1>6. Reading' = {}
  BY <1>5 DEF Reading
<1>7. Composer' /\ sending' \in BOOLEAN
  BY <1>1, <1>2, <1>6, Zenon DEF Composer
<1>8. ProxyTypeOK'
  BY <1>1, Parts, HangupType
<1>9. QED
  BY <1>1, <1>4, <1>5, <1>6, <1>7, <1>8, Parts, Whole

(* The steps of the server leave the page alone. *)
ServerStep == Restart \/ \E r \in Requests : Serve(r)

LEMMA ServerType ==
    ASSUME TypeOK, ServerStep
    PROVE  /\ TypeOK'
           /\ UNCHANGED <<history, stored, currentAbort, call, outcome, stops, cleared>>
<1>1. /\ UNCHANGED <<history, stored, currentAbort, call, outcome, stops, cleared>>
      /\ ProxyTypeOK'
  BY Parts, HandleType, RestartType DEF ServerStep, Restart, Serve, pageVars
<1>2. sending' = sending
  BY Zenon DEF ServerStep, Restart, Serve, pageVars
<1>3. Reading' = Reading
  BY <1>1 DEF Reading
<1>4. Composer' /\ sending' \in BOOLEAN
  BY <1>1, <1>2, <1>3, Parts, Zenon DEF Composer
<1>5. QED
  BY <1>1, <1>4, Parts, Whole

LEMMA Steps ==
    ASSUME [Next]_vars
    PROVE  \/ Stop \/ NewChat \/ Reload \/ ServerStep \/ UNCHANGED vars
           \/ \E r \in Requests : \/ Send(r) \/ TimerFires(r) \/ ReadLine(r)
                                 \/ ReadEnd(r) \/ ReadBreaks(r)
  BY DEF Next, User, Read, ServerStep

LEMMA StutterType ==
    ASSUME TypeOK, UNCHANGED vars
    PROVE  TypeOK'
  BY Zenon DEF vars, proxyVars, pageVars, TypeOK, ProxyTypeOK, Reading

LEMMA TypeStep ==
    ASSUME TypeOK, [Next]_vars
    PROVE  TypeOK'
  BY Steps, SendType, StopType, TimerType, ReadLineType, ReadOverType, NewChatType,
     ReloadType, ServerType, StutterType

LEMMA InitType ==
    ASSUME Init
    PROVE  TypeOK
<1>1. ProxyTypeOK
  BY EmptySeq DEF Init, ProxyInit, ProxyTypeOK, OllamaStates
<1>2. /\ call = [r \in Requests |-> Unborn] /\ outcome = [r \in Requests |-> "none"]
      /\ history = <<>> /\ stored = <<>> /\ stops = {} /\ cleared = {}
      /\ currentAbort = NoRequest
  BY DEF Init
<1>3. sending = FALSE /\ FALSE \in BOOLEAN
  BY Zenon DEF Init
<1>4. Reading = {}
  BY <1>2 DEF Reading, Unborn
<1>5. /\ call \in [Requests -> Calls] /\ outcome \in [Requests -> Outcomes]
      /\ <<>> \in Seq(Entries) /\ stops \subseteq Requests /\ cleared \subseteq Requests
  BY <1>2, CallsType, EmptySeq DEF Outcomes
<1>6. QED
  BY <1>1, <1>2, <1>3, <1>4, <1>5, Zenon DEF TypeOK

(* Every reachable state is well typed, and sending and currentAbort mean   *)
(* the one call that waits, for any number of requests and pool threads.    *)
THEOREM TypeCorrect == Spec => []TypeOK
<1>1. Init => TypeOK
  BY InitType
<1>2. TypeOK /\ [Next]_vars => TypeOK'
  BY TypeStep
<1>3. QED
  BY <1>1, <1>2, PTL DEF Spec

-----------------------------------------------------------------------------
(* Who is blamed for an abort. *)

(* A timer runs only for the call that waits: each end of a call clears it. *)
TimersWait == \A r \in Requests : call[r].timer = FALSE \/ call[r].at = "reading"

LEMMA SettleTimers ==
    ASSUME TypeOK, NEW r \in Requests, NEW shown, NEW calls \in [Requests -> Calls],
           \A q \in Requests : q # r => calls[q].timer = FALSE \/ calls[q].at = "reading",
           Settle(r, shown, calls)
    PROVE  TimersWait'
<1>1. call' = [calls EXCEPT ![r] = Over(@)]
  BY Zenon DEF Settle
<1>2. call'[r].timer = FALSE
  <2>1. call'[r] = Over(calls[r]) /\ calls[r] \in Calls
    BY <1>1
  <2>2. Over(calls[r]).timer = FALSE
    BY <2>1, CallsType, Zenon
  <2>3. QED
    BY <2>1, <2>2, Zenon
<1>3. \A q \in Requests : q # r => call'[q] = calls[q]
  BY <1>1
<1>4. QED
  BY <1>2, <1>3, Zenon DEF TimersWait

LEMMA TimersStep ==
    ASSUME TypeOK, TimersWait, [Next]_vars
    PROVE  TimersWait'
<1>1. CASE Stop
  <2>1. currentAbort \in Requests /\ Abort(call)
    BY <1>1, Parts, AbortedReads DEF Stop
  <2>2. QED
    BY <2>1, AbortIs, Parts, SettleTimers, Zenon DEF TimersWait
<1>2. CASE NewChat \/ ServerStep \/ UNCHANGED vars
  <2>1. call' = call
    BY <1>2, ServerType DEF NewChat, vars, pageVars
  <2>2. QED
    BY <2>1, Zenon DEF TimersWait
<1>3. CASE Reload
  BY <1>3, ReloadType, Zenon DEF TimersWait
<1>4. ASSUME NEW r \in Requests, Send(r)
      PROVE  TimersWait'
  <2>1. call' = [call EXCEPT ![r] = [[Unborn EXCEPT !.at = "reading"] EXCEPT !.timer = TRUE]]
    BY <1>4, SendType
  <2>2. call'[r].at = "reading" /\ \A q \in Requests : q # r => call'[q] = call[q]
    BY <2>1, Parts DEF Unborn
  <2>3. QED
    BY <2>2, Zenon DEF TimersWait
<1>5. ASSUME NEW r \in Requests, TimerFires(r)
      PROVE  TimersWait'
  <2>1. \A q \in Requests : Fired(r)[q].timer = FALSE \/ Fired(r)[q].at = "reading"
    BY FiredType, Zenon DEF TimersWait
  <2>2. CASE currentAbort # NoRequest
    <3>1. currentAbort \in Requests /\ Abort(Fired(r))
      BY <1>5, <2>2, Parts, AbortedReads DEF TimerFires, Fired
    <3>2. \E shown : Settle(currentAbort, shown, Fired(r))
      BY <3>1, AbortIs, Zenon
    <3>3. Fired(r) \in [Requests -> Calls]
      BY FiredType
    <3>4. QED
      BY <2>1, <3>1, <3>2, <3>3, SettleTimers, Zenon
  <2>3. CASE currentAbort = NoRequest
    <3>1. call' = Fired(r)
      BY <1>5, <2>3 DEF TimerFires, Fired
    <3>2. QED
      BY <2>1, <3>1, Zenon DEF TimersWait
  <2>4. QED
    BY <2>2, <2>3
<1>6. ASSUME NEW r \in Requests, ReadLine(r)
      PROVE  TimersWait'
  BY <1>6, ReadLineType, Zenon DEF TimersWait
<1>7. ASSUME NEW r \in Requests, ReadEnd(r) \/ ReadBreaks(r)
      PROVE  TimersWait'
  BY <1>7, ReadOverType, Parts, SettleTimers, Zenon DEF TimersWait
<1>8. QED
  BY <1>1, <1>2, <1>3, <1>4, <1>5, <1>6, <1>7, Steps

(* A timer that fires finds its own call current, so that the page says     *)
(* "timed out". *)
LEMMA TimerBlamesItself ==
    ASSUME TypeOK, TimersWait, NEW r \in Requests, TimerFires(r)
    PROVE  outcome' = [outcome EXCEPT ![r] = "timed out"]
<1>1. call[r].at = "reading"
  BY Zenon DEF TimersWait, TimerFires
<1>2. currentAbort = r /\ r # NoRequest
  BY <1>1, Parts, OneReading, ClientAssumption DEF Reading
<1>3. Abort(Fired(r))
  BY <1>2 DEF TimerFires, Fired
<1>4. Fired(r)[currentAbort].timedOut
  BY <1>2, FiredType
<1>5. Settle(r, "timed out", Fired(r))
  BY <1>2, <1>3, <1>4 DEF Abort
<1>6. QED
  BY <1>5, Zenon DEF Settle

AbortInv == TypeOK /\ TimersWait /\ AbortsAttributed

LEMMA AttributedStep ==
    ASSUME AbortInv, [Next]_vars
    PROVE  AbortsAttributed'
<1>0. TypeOK /\ TimersWait /\ AbortsAttributed /\ outcome \in [Requests -> Outcomes]
  BY Parts DEF AbortInv
<1>1. CASE Stop
  <2>1. /\ stops' = stops \cup {currentAbort} /\ currentAbort \in Requests
        /\ \E shown : outcome' = [outcome EXCEPT ![currentAbort] = shown]
    BY <1>0, <1>1, Parts, AbortedReads, AbortIs DEF Stop, Settle
  <2>2. QED
    BY <1>0, <2>1 DEF AbortsAttributed
<1>2. CASE NewChat \/ ServerStep \/ UNCHANGED vars
  <2>1. outcome' = outcome /\ stops' = stops
    BY <1>0, <1>2, ServerType DEF NewChat, vars
  <2>2. QED
    BY <1>0, <2>1 DEF AbortsAttributed
<1>3. CASE Reload
  <2>1. stops' = stops
        /\ outcome' = [r \in Requests |-> IF r \in Reading THEN "gone" ELSE outcome[r]]
    BY <1>3 DEF Reload
  <2>2. QED
    BY <1>0, <2>1 DEF AbortsAttributed
<1>4. ASSUME NEW r \in Requests, Send(r) \/ ReadLine(r)
      PROVE  AbortsAttributed'
  <2>1. outcome' = outcome /\ stops' = stops
    BY <1>4 DEF Send, ReadLine
  <2>2. QED
    BY <1>0, <2>1 DEF AbortsAttributed
<1>5. ASSUME NEW r \in Requests, TimerFires(r)
      PROVE  AbortsAttributed'
  <2>1. stops' = stops /\ outcome' = [outcome EXCEPT ![r] = "timed out"]
    BY <1>0, <1>5, TimerBlamesItself DEF TimerFires
  <2>2. QED
    BY <1>0, <2>1 DEF AbortsAttributed
<1>6. ASSUME NEW r \in Requests, ReadEnd(r) \/ ReadBreaks(r)
      PROVE  AbortsAttributed'
  <2>1. /\ stops' = stops
        /\ \E shown : shown # "stopped" /\ outcome' = [outcome EXCEPT ![r] = shown]
    BY <1>0, <1>6, ReadOverType, Zenon DEF Settle
  <2>2. QED
    BY <1>0, <2>1 DEF AbortsAttributed
<1>7. QED
  BY <1>1, <1>2, <1>3, <1>4, <1>5, <1>6, Steps

(* The page never tells the user that they stopped a request they let run:  *)
(* a timer is cleared whenever its call ends (src/web/chat.html), so the    *)
(* call that is current when it fires is its own.                           *)
THEOREM AbortsAreAttributed == Spec => []AbortsAttributed
<1>1. Init => TypeOK /\ TimersWait /\ AbortsAttributed
  <2> SUFFICES ASSUME Init PROVE TypeOK /\ TimersWait /\ AbortsAttributed
    OBVIOUS
  <2>1. TypeOK
    BY InitType
  <2>2. /\ call = [r \in Requests |-> Unborn] /\ Unborn.timer = FALSE
        /\ outcome = [r \in Requests |-> "none"]
    BY DEF Init, Unborn
  <2>3. \A r \in Requests : call[r] = Unborn
    BY <2>2
  <2>4. TimersWait
    BY <2>2, <2>3, Zenon DEF TimersWait
  <2>5. AbortsAttributed
    BY <2>2 DEF AbortsAttributed
  <2>6. QED
    BY <2>1, <2>4, <2>5
<1>2. AbortInv /\ [Next]_vars => AbortInv'
  BY TypeStep, TimersStep, AttributedStep DEF AbortInv
<1>3. QED
  BY <1>1, <1>2, PTL DEF Spec, AbortInv

-----------------------------------------------------------------------------
(* Where the replies stand. *)

(* The question of the call that waits is the last entry, unless the        *)
(* conversation was cleared behind its back.                                *)
Awaited ==
    \A r \in Reading :
        \/ history = <<>> /\ r \in cleared
        \/ history # <<>> /\ history[Len(history)] = Question(r)

PlaceInv == TypeOK /\ stored = history /\ RepliesInPlace /\ Awaited

LEMMA Appended ==
    ASSUME history \in Seq(Entries), NEW e \in Entries, history' = Append(history, e)
    PROVE  /\ Len(history) \in Nat /\ DOMAIN history' = 1 .. (Len(history) + 1)
           /\ \A i \in 1 .. Len(history) : history'[i] = history[i]
           /\ history'[Len(history) + 1] = e
           /\ history' # <<>> /\ Len(history') = Len(history) + 1
           /\ history \in Seq(Entries) /\ DOMAIN history = 1 .. Len(history)
           /\ history = <<>> <=> Len(history) = 0
  BY AppendProperties, LenProperties, EmptySeq

LEMMA PlaceStep ==
    ASSUME PlaceInv, [Next]_vars
    PROVE  stored' = history' /\ RepliesInPlace' /\ Awaited'
<1>0. /\ TypeOK /\ stored = history /\ RepliesInPlace /\ Awaited
      /\ history \in Seq(Entries) /\ cleared \subseteq Requests
  BY Parts DEF PlaceInv
<1> DEFINE Same == history' = history /\ stored' = stored /\ cleared' = cleared
                   /\ Reading' \subseteq Reading
<1>1. ASSUME Same
      PROVE  stored' = history' /\ RepliesInPlace' /\ Awaited'
  BY <1>0, <1>1 DEF RepliesInPlace, Awaited
<1>2. CASE Stop
  BY <1>0, <1>1, <1>2, StopType DEF Stop
<1>3. CASE ServerStep \/ UNCHANGED vars
  <2>1. history' = history /\ stored' = stored /\ cleared' = cleared /\ call' = call
    BY <1>0, <1>3, ServerType DEF vars, pageVars
  <2>2. QED
    BY <1>1, <2>1 DEF Reading
<1>4. CASE Reload
  BY <1>0, <1>1, <1>4, ReloadType DEF Reload
<1>5. CASE NewChat
  <2>1. history' = <<>> /\ stored' = <<>> /\ cleared' = Asked /\ call' = call
    BY <1>5 DEF NewChat
  <2>2. Reading' \subseteq Asked
    BY <2>1 DEF Reading, Asked
  <2>3. QED
    BY <2>1, <2>2 DEF RepliesInPlace, Awaited
<1>6. ASSUME NEW r \in Requests, Send(r)
      PROVE  stored' = history' /\ RepliesInPlace' /\ Awaited'
  <2>1. /\ history' = Append(history, Question(r)) /\ stored' = history'
        /\ cleared' = cleared /\ Reading' = {r} /\ Question(r) \in Entries
        /\ Question(r).role # "assistant"
    BY <1>0, <1>6, SendType, EntriesType DEF Send, Question
  <2>2. RepliesInPlace'
    BY <1>0, <2>1, Appended DEF RepliesInPlace
  <2>3. Awaited'
    BY <1>0, <2>1, Appended DEF Awaited
  <2>4. QED
    BY <2>1, <2>2, <2>3
<1>7. ASSUME NEW r \in Requests, TimerFires(r)
      PROVE  stored' = history' /\ RepliesInPlace' /\ Awaited'
  BY <1>0, <1>1, <1>7, TimerType DEF TimerFires
<1>8. ASSUME NEW r \in Requests, ReadLine(r)
      PROVE  stored' = history' /\ RepliesInPlace' /\ Awaited'
  BY <1>0, <1>1, <1>8, ReadLineType DEF ReadLine
<1>9. ASSUME NEW r \in Requests, ReadEnd(r) \/ ReadBreaks(r)
      PROVE  stored' = history' /\ RepliesInPlace' /\ Awaited'
  <2>1. /\ Reading' = {} /\ r \in Reading /\ cleared' = cleared
        /\ \/ history' = history /\ stored' = stored
           \/ history' = Append(history, Reply(r)) /\ stored' = history'
    BY <1>0, <1>9, ReadOverType
  <2>2. CASE history' = history /\ stored' = stored
    BY <1>1, <2>1, <2>2
  <2>3. CASE history' = Append(history, Reply(r)) /\ stored' = history'
    <3>1. Reply(r) \in Entries /\ Reply(r).of = r
      BY EntriesType DEF Reply
    <3>2. \/ history = <<>> /\ r \in cleared
          \/ history # <<>> /\ history[Len(history)] = Question(r)
      BY <1>0, <2>1 DEF Awaited
    <3>3. RepliesInPlace'
      BY <1>0, <2>1, <2>3, <3>1, <3>2, Appended DEF RepliesInPlace
    <3>4. QED
      BY <2>1, <2>3, <3>3 DEF Awaited
  <2>4. QED
    BY <2>1, <2>2, <2>3
<1>10. QED
  BY <1>2, <1>3, <1>4, <1>5, <1>6, <1>7, <1>8, <1>9, Steps

(* A reply never lands behind another question than its own, whatever the   *)
(* user clears, stops or reloads while it is on its way.                    *)
THEOREM RepliesStandInPlace == Spec => []RepliesInPlace
<1>1. Init => TypeOK /\ stored = history /\ RepliesInPlace /\ Awaited
  <2> SUFFICES ASSUME Init PROVE TypeOK /\ stored = history /\ RepliesInPlace /\ Awaited
    OBVIOUS
  <2>1. history = <<>> /\ stored = <<>> /\ \A r \in Requests : call[r] = Unborn
    BY DEF Init
  <2>2. Reading = {}
    BY <2>1 DEF Reading, Unborn
  <2>3. QED
    BY <2>1, <2>2, InitType DEF RepliesInPlace, Awaited
<1>2. PlaceInv /\ [Next]_vars => PlaceInv'
  BY TypeStep, PlaceStep DEF PlaceInv
<1>3. QED
  BY <1>1, <1>2, PTL DEF Spec, PlaceInv

-----------------------------------------------------------------------------
(* Which replies are kept: w is what is under way, c the reader's locals, p *)
(* and o where the handler and Ollama's answer are.                         *)

(* The place in front of the i-th piece is the start of a line: only the    *)
(* front of a line leaves the reader inside one.                            *)
LineStart(w, c, i) == IF i = 1 THEN c.inside = FALSE ELSE w[i - 1] # "half"

(* The reader has seen an error line or will see one. *)
ErrorComes(w, c) ==
    \/ c.sawError = TRUE
    \/ \E i \in 1..Len(w) : w[i] = "error" /\ LineStart(w, c, i)

(* Each end of a stream that Ollama did not complete is announced by an     *)
(* error line at the start of a line, unless Ollama's answer broke inside   *)
(* one.                                                                     *)
Announced(w, c, p, o) ==
    /\ \A i \in 1..Len(w) :
          w[i] = "end" => /\ i = Len(w) /\ p = "ended"
                          /\ o \in {"complete", "torn"} \/ ErrorComes(w, c)
    /\ p \in {"queued", "connecting"} => LineStart(w, c, Len(w) + 1)
    /\ p = "relaying" => /\ o \in {"clean", "inside", "complete", "failed"}
                         /\ o = "clean" => LineStart(w, c, Len(w) + 1)
                         /\ o = "failed" => ErrorComes(w, c)

LEMMA ReaderIs ==
    ASSUME NEW c \in Calls, NEW piece
    PROVE  /\ AfterLine(c, piece).inside = FALSE <=> piece # "half"
           /\ c.sawError = TRUE => AfterLine(c, piece).sawError = TRUE
           /\ piece = "error" /\ c.inside = FALSE => AfterLine(c, piece).sawError = TRUE
<1> DEFINE error == piece = "error" /\ ~c.inside
           x == piece = "half"
           y == c.content \/ piece \in {"line", "rest"} \/ error
           z == c.sawError \/ error
<1>1. AfterLine(c, piece) = [c EXCEPT !.inside = x, !.content = y, !.sawError = z]
  BY Zenon DEF AfterLine
<1>2. /\ x = FALSE <=> piece # "half"
      /\ c.sawError = TRUE => z = TRUE
      /\ piece = "error" /\ c.inside = FALSE => z = TRUE
  BY Zenon
<1> HIDE DEF x, y, z
<1>3. AfterLine(c, piece).inside = x /\ AfterLine(c, piece).sawError = z
  BY <1>1 DEF Calls
<1>4. QED
  BY <1>2, <1>3, Zenon

(* What is written behind what is under way changes nothing of that. *)
LEMMA Extended ==
    ASSUME NEW w \in Seq(Pieces), NEW ps \in Seq(Pieces), NEW c
    PROVE  /\ Len(w) \in Nat /\ Len(ps) \in Nat /\ Len(w \o ps) = Len(w) + Len(ps)
           /\ \A i \in 1..Len(w) : (w \o ps)[i] = w[i]
           /\ \A i \in 1..Len(ps) : (w \o ps)[Len(w) + i] = ps[i]
           /\ \A i \in 1..(Len(w) + 1) : LineStart(w \o ps, c, i) <=> LineStart(w, c, i)
           /\ ErrorComes(w, c) => ErrorComes(w \o ps, c)
<1>1. /\ Len(w) \in Nat /\ Len(ps) \in Nat /\ Len(w \o ps) = Len(w) + Len(ps)
      /\ \A i \in 1..(Len(w) + Len(ps)) :
            (w \o ps)[i] = IF i <= Len(w) THEN w[i] ELSE ps[i - Len(w)]
  BY ConcatProperties, LenProperties
<1>2. \A i \in 1..Len(w) : (w \o ps)[i] = w[i]
  BY <1>1
<1>3. \A i \in 1..Len(ps) : (w \o ps)[Len(w) + i] = ps[i]
  <2> TAKE i \in 1..Len(ps)
  <2>1. /\ Len(w) + i \in 1..(Len(w) + Len(ps))
        /\ ~(Len(w) + i <= Len(w))
        /\ (Len(w) + i) - Len(w) = i
    BY <1>1
  <2>2. QED
    BY <1>1, <2>1
<1>4. \A i \in 1..(Len(w) + 1) : LineStart(w \o ps, c, i) <=> LineStart(w, c, i)
  <2> TAKE i \in 1..(Len(w) + 1)
  <2>1. CASE i = 1
    BY <2>1 DEF LineStart
  <2>2. CASE i # 1
    <3>1. i - 1 \in 1..Len(w)
      BY <1>1, <2>2
    <3>2. QED
      BY <1>2, <2>2, <3>1 DEF LineStart
  <2>3. QED
    BY <2>1, <2>2
<1>5. \A i \in 1..Len(w) : i \in 1..(Len(w) + 1) /\ i \in 1..Len(w \o ps)
  BY <1>1
<1>6. ErrorComes(w, c) => ErrorComes(w \o ps, c)
  <2>1. ASSUME NEW i \in 1..Len(w), w[i] = "error", LineStart(w, c, i)
        PROVE  ErrorComes(w \o ps, c)
    BY <1>2, <1>4, <1>5, <2>1 DEF ErrorComes
  <2>2. c.sawError = TRUE => ErrorComes(w \o ps, c)
    BY Zenon DEF ErrorComes
  <2>3. QED
    BY <2>1, <2>2 DEF ErrorComes
<1>7. QED
  BY <1>1, <1>2, <1>3, <1>4, <1>6

(* The same for one piece, which is not the end of the body. *)
LEMMA OneMore ==
    ASSUME NEW w \in Seq(Pieces), NEW piece \in Pieces, piece # "end", NEW c,
           NEW p, NEW o, p # "ended", Announced(w, c, p, o)
    PROVE  /\ Append(w, piece) \in Seq(Pieces)
           /\ Len(Append(w, piece)) = Len(w) + 1 /\ Len(w) \in Nat
           /\ \A i \in 1..Len(Append(w, piece)) : Append(w, piece)[i] # "end"
           /\ LineStart(Append(w, piece), c, Len(Append(w, piece)) + 1) <=> piece # "half"
           /\ ErrorComes(w, c) => ErrorComes(Append(w, piece), c)
           /\ piece = "error" /\ LineStart(w, c, Len(w) + 1) => ErrorComes(Append(w, piece), c)
<1> DEFINE v == Append(w, piece)
           ps == <<piece>>
<1>1. /\ v = w \o ps /\ ps \in Seq(Pieces) /\ Len(ps) = 1 /\ ps[1] = piece
      /\ v \in Seq(Pieces)
  BY AppendProperties, AppendIsConcat
<1> HIDE DEF v, ps
<1>2. /\ Len(w) \in Nat /\ Len(v) = Len(w) + 1
      /\ \A i \in 1..Len(w) : v[i] = w[i]
      /\ v[Len(w) + 1] = piece
      /\ \A i \in 1..(Len(w) + 1) : LineStart(v, c, i) <=> LineStart(w, c, i)
      /\ ErrorComes(w, c) => ErrorComes(v, c)
  <2>1. 1 \in 1..Len(ps) /\ Len(w) \in Nat
    BY <1>1, LenProperties
  <2>2. /\ Len(v) = Len(w) + 1
        /\ \A i \in 1..Len(w) : v[i] = w[i]
        /\ v[Len(w) + 1] = piece
    BY <2>1, AppendProperties DEF v
  <2>3. \A i \in 1..(Len(w) + 1) : LineStart(w \o ps, c, i) <=> LineStart(w, c, i)
    BY <1>1, Extended
  <2>4. ErrorComes(w, c) => ErrorComes(w \o ps, c)
    BY <1>1, Extended
  <2>5. QED
    BY <1>1, <2>1, <2>2, <2>3, <2>4, Zenon
<1>3. \A i \in 1..Len(w) : w[i] # "end"
  BY DEF Announced
<1>4. \A i \in 1..Len(v) : v[i] # "end"
  BY <1>2, <1>3
<1>5. Len(w) + 1 \in 1..(Len(w) + 1) /\ Len(w) + 2 # 1 /\ (Len(w) + 1 + 1) - 1 = Len(w) + 1
      /\ Len(w) + 1 + 1 # 1
  BY <1>2
<1>6. LineStart(v, c, Len(v) + 1) <=> piece # "half"
  BY <1>2, <1>5 DEF LineStart
<1>7. piece = "error" /\ LineStart(w, c, Len(w) + 1) => ErrorComes(v, c)
  BY <1>2, <1>5 DEF ErrorComes
<1>8. QED
  BY <1>1, <1>2, <1>4, <1>6, <1>7, Zenon DEF v

(* The reader takes the first piece. *)
LEMMA OneLess ==
    ASSUME NEW w \in Seq(Pieces), w # <<>>, NEW c \in Calls, NEW p, NEW o,
           Announced(w, c, p, o)
    PROVE  Announced(Tail(w), AfterLine(c, Head(w)), p, o)
<1> DEFINE v == Tail(w)
           d == AfterLine(c, Head(w))
<1>1. /\ Len(w) \in Nat \ {0} /\ Len(v) = Len(w) - 1 /\ Head(w) = w[1]
      /\ \A i \in 1..Len(v) : v[i] = w[i + 1]
  BY HeadTailProperties, EmptySeq, LenProperties
<1>2. \A i \in 1..(Len(v) + 1) : LineStart(v, d, i) <=> LineStart(w, c, i + 1)
  <2> TAKE i \in 1..(Len(v) + 1)
  <2>1. CASE i = 1
    <3>1. LineStart(w, c, i + 1) <=> w[1] # "half"
      BY <2>1 DEF LineStart
    <3>2. LineStart(v, d, i) <=> d.inside = FALSE
      BY <2>1, Zenon DEF LineStart
    <3>3. QED
      BY <1>1, <3>1, <3>2, ReaderIs, Zenon
  <2>2. CASE i # 1
    <3>1. i - 1 \in 1..Len(v) /\ (i - 1) + 1 = i /\ (i + 1) - 1 = i /\ i + 1 # 1
      BY <1>1, <2>2
    <3>2. v[i - 1] = w[i]
      BY <1>1, <3>1
    <3>3. QED
      BY <2>2, <3>1, <3>2 DEF LineStart
  <2>3. QED
    BY <2>1, <2>2
<1>3. ErrorComes(w, c) => ErrorComes(v, d)
  <2>1. c.sawError = TRUE => ErrorComes(v, d)
    BY ReaderIs, Zenon DEF ErrorComes
  <2>2. ASSUME NEW i \in 1..Len(w), w[i] = "error", LineStart(w, c, i)
        PROVE  ErrorComes(v, d)
    <3>1. CASE i = 1
      <4>1. c.inside = FALSE /\ Head(w) = "error"
        BY <1>1, <2>2, <3>1, Zenon DEF LineStart
      <4>2. QED
        BY <4>1, ReaderIs, Zenon DEF ErrorComes
    <3>2. CASE i # 1
      <4>1. i - 1 \in 1..Len(v) /\ i - 1 \in 1..(Len(v) + 1) /\ (i - 1) + 1 = i
        BY <1>1, <3>2
      <4>2. v[i - 1] = "error" /\ LineStart(v, d, i - 1)
        BY <1>1, <1>2, <2>2, <4>1
      <4>3. QED
        BY <4>1, <4>2 DEF ErrorComes
    <3>3. QED
      BY <3>1, <3>2
  <2>3. QED
    BY <2>1, <2>2 DEF ErrorComes
<1>4. LineStart(w, c, Len(w) + 1) => LineStart(v, d, Len(v) + 1)
  <2>1. Len(v) + 1 \in 1..(Len(v) + 1) /\ (Len(v) + 1) + 1 = Len(w) + 1
    BY <1>1
  <2>2. QED
    BY <1>2, <2>1
<1>5. ASSUME NEW i \in 1..Len(v), v[i] = "end"
      PROVE  i = Len(v) /\ p = "ended" /\ (o \in {"complete", "torn"} \/ ErrorComes(v, d))
  <2>1. w[i + 1] = "end"
    BY <1>1, <1>5, Zenon
  <2> HIDE DEF v
  <2>0. i + 1 \in 1..Len(w) /\ (i + 1 = Len(w) => i = Len(v))
    BY <1>1
  <2>2. QED
    BY <1>3, <2>0, <2>1 DEF Announced
<1> HIDE DEF v, d
<1>6. Announced(v, d, p, o)
  BY <1>3, <1>4, <1>5 DEF Announced
<1>7. QED
  BY <1>6 DEF v, d

(* The handler hands a piece on. *)
LEMMA Relayed ==
    ASSUME NEW w \in Seq(Pieces), NEW c, NEW o, NEW piece, NEW next,
           Announced(w, c, "relaying", o),
           \/ /\ o = "clean"
              /\ \/ piece \in {"line", "blank"} /\ next = "clean"
                 \/ piece = "half" /\ next = "inside"
                 \/ piece = "last" /\ next = "complete"
                 \/ piece = "error" /\ next = "failed"
           \/ o = "inside" /\ piece = "rest" /\ next = "clean"
    PROVE  Announced(Append(w, piece), c, "relaying", next)
<1>1. piece \in Pieces /\ piece # "end"
  BY DEF Pieces
<1>2. o = "clean" => LineStart(w, c, Len(w) + 1)
  BY DEF Announced
<1>3. /\ \A i \in 1..Len(Append(w, piece)) : Append(w, piece)[i] # "end"
      /\ LineStart(Append(w, piece), c, Len(Append(w, piece)) + 1) <=> piece # "half"
      /\ piece = "error" /\ LineStart(w, c, Len(w) + 1) => ErrorComes(Append(w, piece), c)
  BY <1>1, OneMore
<1>4. QED
  BY <1>2, <1>3 DEF Announced

(* The connection to the browser breaks. *)
LEMMA CutOff ==
    ASSUME NEW w \in Seq(Pieces), NEW c, NEW p, NEW o, NEW next, p # "ended",
           Announced(w, c, p, o)
    PROVE  Announced(Append(w, "cut"), c, "ended", next)
<1>1. \A i \in 1..Len(Append(w, "cut")) : Append(w, "cut")[i] # "end"
  BY OneMore DEF Pieces
<1>2. QED
  BY <1>1 DEF Announced

(* The handler ends the body. *)
LEMMA Ended ==
    ASSUME NEW w \in Seq(Pieces), NEW c, NEW p, NEW o, NEW next, NEW ps,
           p # "ended", Announced(w, c, p, o), ps = <<"end">> \/ ps = ErrorReport,
           \/ next \in {"complete", "torn"}
           \/ ErrorComes(w, c)
           \/ ps = ErrorReport /\ LineStart(w, c, Len(w) + 1)
    PROVE  Announced(w \o ps, c, "ended", next)
<1>1. /\ ps \in Seq(Pieces) /\ Len(ps) \in 1..2 /\ ps[Len(ps)] = "end"
      /\ \A i \in 1..Len(ps) : ps[i] = "end" => i = Len(ps)
      /\ ps = ErrorReport => ps[1] = "error"
  <2>1. CASE ps = <<"end">>
    <3>1. Len(<<"end">>) = 1 /\ <<"end">>[1] = "end" /\ ps # ErrorReport
      BY <2>1 DEF ErrorReport
    <3>2. QED
      BY <2>1, <3>1, ReportType
  <2>2. CASE ps = ErrorReport
    <3>1. Len(ps) = 2 /\ ps[1] = "error" /\ ps[2] = "end"
      BY <2>2 DEF ErrorReport
    <3>2. QED
      BY <2>2, <3>1, ReportType
  <2>3. QED
    BY <2>1, <2>2
<1>2. /\ Len(w) \in Nat /\ Len(w \o ps) = Len(w) + Len(ps)
      /\ \A i \in 1..Len(w) : (w \o ps)[i] = w[i]
      /\ \A i \in 1..Len(ps) : (w \o ps)[Len(w) + i] = ps[i]
      /\ \A i \in 1..(Len(w) + 1) : LineStart(w \o ps, c, i) <=> LineStart(w, c, i)
      /\ ErrorComes(w, c) => ErrorComes(w \o ps, c)
  BY <1>1, Extended
<1> DEFINE v == w \o ps
<1> HIDE DEF v
<1>3. \A i \in 1..Len(w) : w[i] # "end"
  BY DEF Announced
<1>4. \A i \in 1..Len(v) : v[i] = "end" => i = Len(v)
  <2> SUFFICES ASSUME NEW i \in 1..Len(v), v[i] = "end"
               PROVE  i = Len(v)
    OBVIOUS
  <2>1. i \notin 1..Len(w)
    BY <1>2, <1>3 DEF v
  <2>2. i - Len(w) \in 1..Len(ps) /\ Len(w) + (i - Len(w)) = i
    BY <1>1, <1>2, <2>1 DEF v
  <2>3. ps[i - Len(w)] = "end"
    BY <1>2, <2>2 DEF v
  <2>4. i - Len(w) = Len(ps)
    BY <1>1, <2>2, <2>3
  <2>5. QED
    BY <1>1, <1>2, <2>2, <2>4 DEF v
<1>5. ps = ErrorReport /\ LineStart(w, c, Len(w) + 1) => ErrorComes(v, c)
  <2>1. Len(w) + 1 \in 1..(Len(w) + 1) /\ 1 \in 1..Len(ps) /\ Len(w) + 1 \in 1..Len(v)
    BY <1>1, <1>2 DEF v
  <2>2. QED
    BY <1>1, <1>2, <2>1 DEF ErrorComes, v
<1>6. next \in {"complete", "torn"} \/ ErrorComes(v, c)
  BY <1>2, <1>5 DEF v
<1>7. Announced(v, c, "ended", next)
  BY <1>4, <1>6 DEF Announced
<1>8. QED
  BY <1>7 DEF v

StreamInv ==
    \A r \in Requests :
        /\ call[r].at = "unborn" => conn[r] = "none" /\ proxy[r] = "idle" /\ wire[r] = <<>>
        /\ call[r].at = "reading" =>
              conn[r] = "open" /\ Announced(wire[r], call[r], proxy[r], ollama[r])

(* A step of the handler of r touches r alone. *)
LEMMA HandleAlone ==
    ASSUME ProxyTypeOK, NEW r \in Requests, Handle(r)
    PROVE  /\ conn' = conn /\ proxy[r] \in {"queued", "connecting", "relaying"}
           /\ \A q \in Requests : q # r => /\ proxy'[q] = proxy[q] /\ ollama'[q] = ollama[q]
                                           /\ wire'[q] = wire[q]
<1>1. CASE Begin(r) \/ Answering(r)
  BY <1>1 DEF Begin, Answering, ProxyTypeOK
<1>2. CASE NoAnswer(r) \/ BodyEnds(r) \/ StreamFails(r)
  <2>1. /\ proxy[r] \in {"connecting", "relaying"}
        /\ \E state, ps : Conclude(r, state, ps)
    BY <1>2, Zenon DEF NoAnswer, BodyEnds, StreamFails
  <2>2. QED
    BY <2>1 DEF Conclude, ProxyTypeOK
<1>3. CASE OllamaSends(r)
  <2>1. \E state, piece : Forward(r, state, piece)
    BY <1>3, Zenon DEF OllamaSends
  <2>2. QED
    BY <2>1 DEF Forward, Conclude, ProxyTypeOK
<1>4. QED
  BY <1>1, <1>2, <1>3 DEF Handle

LEMMA HandleStream ==
    ASSUME ProxyTypeOK, NEW r \in Requests, conn[r] = "open", Handle(r), NEW c,
           Announced(wire[r], c, proxy[r], ollama[r])
    PROVE  Announced(wire'[r], c, proxy'[r], ollama'[r])
<1>0. wire[r] \in Seq(Pieces)
  BY DEF ProxyTypeOK
<1>1. CASE Begin(r)
  <2>1. /\ proxy[r] = "queued" /\ proxy'[r] = "connecting"
        /\ wire'[r] = wire[r] /\ ollama'[r] = ollama[r]
    BY <1>1 DEF Begin, ProxyTypeOK
  <2>2. QED
    BY <2>1 DEF Announced
<1>2. CASE Answering(r)
  <2>1. /\ proxy[r] = "connecting" /\ proxy'[r] = "relaying"
        /\ wire'[r] = wire[r] /\ ollama'[r] = "clean"
    BY <1>2 DEF Answering, ProxyTypeOK
  <2>2. QED
    BY <2>1 DEF Announced
<1>3. CASE NoAnswer(r)
  <2>1. /\ proxy[r] = "connecting" /\ proxy'[r] = "ended" /\ ollama'[r] = "failed"
        /\ wire'[r] = wire[r] \o ErrorReport
    BY <1>3 DEF NoAnswer, Conclude, ProxyTypeOK
  <2>2. LineStart(wire[r], c, Len(wire[r]) + 1)
    BY <2>1 DEF Announced
  <2>3. QED
    BY <1>0, <2>1, <2>2, Ended
<1>4. CASE BodyEnds(r)
  <2>1. /\ proxy[r] = "relaying" /\ proxy'[r] = "ended"
        /\ ollama[r] \in {"complete", "failed"} /\ ollama'[r] = ollama[r]
        /\ wire'[r] = wire[r] \o <<"end">>
    BY <1>4 DEF BodyEnds, Conclude, ProxyTypeOK
  <2>2. ollama[r] = "failed" => ErrorComes(wire[r], c)
    BY <2>1 DEF Announced
  <2>3. QED
    BY <1>0, <2>1, <2>2, Ended
<1>5. CASE StreamFails(r)
  <2>1. proxy[r] = "relaying" /\ ollama[r] \in {"clean", "inside", "complete", "failed"}
    BY <1>5 DEF StreamFails, Announced
  <2>2. /\ proxy'[r] = "ended" /\ wire'[r] = wire[r] \o ErrorReport
        /\ ollama[r] = "inside" => ollama'[r] = "torn"
        /\ ollama[r] \in {"complete", "failed"} => ollama'[r] = ollama[r]
    BY <1>5 DEF StreamFails, Conclude, ProxyTypeOK
  <2>3. /\ ollama[r] = "clean" => LineStart(wire[r], c, Len(wire[r]) + 1)
        /\ ollama[r] = "failed" => ErrorComes(wire[r], c)
    BY <2>1 DEF Announced
  <2>4. \/ ollama'[r] \in {"complete", "torn"} \/ ErrorComes(wire[r], c)
        \/ LineStart(wire[r], c, Len(wire[r]) + 1)
    BY <2>1, <2>2, <2>3
  <2>5. QED
    BY <1>0, <2>1, <2>2, <2>4, Ended
<1>6. CASE OllamaSends(r)
  <2>1. PICK next, piece :
          /\ \/ /\ ollama[r] = "clean"
                /\ \/ piece \in {"line", "blank"} /\ next = "clean"
                   \/ piece = "half" /\ next = "inside"
                   \/ piece = "last" /\ next = "complete"
                   \/ piece = "error" /\ next = "failed"
             \/ ollama[r] = "inside" /\ piece = "rest" /\ next = "clean"
          /\ Forward(r, next, piece)
    BY <1>6, Zenon DEF OllamaSends
  <2>2. /\ proxy[r] = "relaying" /\ proxy'[r] = "relaying" /\ ollama'[r] = next
        /\ wire'[r] = Append(wire[r], piece)
    BY <2>1 DEF Forward, Gone, ProxyTypeOK
  <2>3. QED
    BY <1>0, <2>1, <2>2, Relayed
<1>7. QED
  BY <1>1, <1>2, <1>3, <1>4, <1>5, <1>6 DEF Handle

(* A step after which no call reads. *)
LEMMA NobodyReads ==
    ASSUME StreamInv, Reading' = {},
           \A q \in Requests : call'[q].at = "unborn" =>
               /\ call[q].at = "unborn" /\ conn'[q] = conn[q] /\ proxy'[q] = proxy[q]
               /\ wire'[q] = wire[q]
    PROVE  StreamInv'
  BY DEF StreamInv, Reading

(* The call of r ends. *)
LEMMA SettleStream ==
    ASSUME TypeOK, StreamInv, NEW r \in Reading, NEW shown \in Outcomes,
           NEW calls \in [Requests -> Calls],
           \A q \in Requests : calls[q].at = call[q].at,
           Settle(r, shown, calls)
    PROVE  StreamInv'
<1>1. Reading' = {} /\ r \in Requests
  BY SettleType DEF Reading
<1>2. call' = [calls EXCEPT ![r] = Over(@)] /\ Hangup({r})
  BY Zenon DEF Settle
<1>3. call'[r].at = "over"
  BY <1>1, <1>2, CallsType
<1>4. \A q \in Requests : q # r => /\ call'[q].at = call[q].at /\ conn'[q] = conn[q]
                                   /\ proxy'[q] = proxy[q] /\ wire'[q] = wire[q]
  BY <1>2 DEF Hangup
<1>5. QED
  BY <1>1, <1>3, <1>4, NobodyReads

LEMMA StreamStep ==
    ASSUME TypeOK, StreamInv, [Next]_vars
    PROVE  StreamInv'
<1>0. ProxyTypeOK /\ call \in [Requests -> Calls]
  BY Parts
<1>1. CASE Stop
  <2>1. currentAbort \in Reading /\ currentAbort \in Requests /\ Abort(call)
    BY <1>1, Parts, AbortedReads DEF Stop
  <2>2. \E shown \in Outcomes : Settle(currentAbort, shown, call)
    BY <2>1, AbortIs, Zenon
  <2>3. QED
    BY <1>0, <2>1, <2>2, SettleStream
<1>2. CASE NewChat \/ UNCHANGED vars
  BY <1>2 DEF NewChat, vars, pageVars, proxyVars, StreamInv
<1>3. CASE Reload
  <2>1. /\ call' = [r \in Requests |-> IF r \in Asked THEN [Unborn EXCEPT !.at = "over"] ELSE call[r]]
        /\ Hangup(Reading) /\ Reading' = {}
    BY <1>3, ReloadType DEF Reload
  <2>2. \A q \in Requests : q \in Asked => call'[q].at = "over"
    BY <2>1 DEF Unborn
  <2>3. \A q \in Requests : q \notin Asked => call'[q] = call[q] /\ q \notin Reading
    BY <2>1 DEF Asked, Reading
  <2>4. \A q \in Requests : q \notin Reading =>
            conn'[q] = conn[q] /\ proxy'[q] = proxy[q] /\ wire'[q] = wire[q]
    BY <2>1 DEF Hangup
  <2>5. QED
    BY <2>1, <2>2, <2>3, <2>4, NobodyReads
<1>4. CASE Restart
  <2>1. ServerRestarts /\ call' = call
    BY <1>4 DEF Restart, pageVars
  <2> SUFFICES ASSUME NEW q \in Requests
               PROVE  /\ call[q].at = "unborn" =>
                            conn'[q] = "none" /\ proxy'[q] = "idle" /\ wire'[q] = <<>>
                      /\ call[q].at = "reading" =>
                            conn'[q] = "open" /\ Announced(wire'[q], call[q], proxy'[q], ollama'[q])
    BY <2>1 DEF StreamInv
  <2>2. CASE proxy[q] \in {"idle", "ended"}
    BY <2>1, <2>2 DEF ServerRestarts, StreamInv
  <2>3. CASE proxy[q] \notin {"idle", "ended"}
    <3>1. call[q].at # "unborn"
      BY <2>3 DEF StreamInv
    <3>2. /\ conn'[q] = conn[q] /\ proxy'[q] = "ended"
          /\ conn[q] = "open" => wire'[q] = Append(wire[q], "cut")
      BY <2>1, <2>3 DEF ServerRestarts
    <3>3. wire[q] \in Seq(Pieces)
      BY <1>0 DEF ProxyTypeOK
    <3>4. ASSUME call[q].at = "reading"
          PROVE  conn'[q] = "open" /\ Announced(wire'[q], call[q], proxy'[q], ollama'[q])
      <4>1. conn[q] = "open" /\ Announced(wire[q], call[q], proxy[q], ollama[q])
        BY <3>4 DEF StreamInv
      <4>2. Announced(Append(wire[q], "cut"), call[q], "ended", ollama'[q])
        BY <2>3, <3>3, <4>1, CutOff
      <4>3. QED
        BY <3>2, <4>1, <4>2
    <3>5. QED
      BY <3>1, <3>4
  <2>4. QED
    BY <2>2, <2>3
<1>5. ASSUME NEW r \in Requests, Serve(r)
      PROVE  StreamInv'
  <2>1. Handle(r) /\ call' = call
    BY <1>5 DEF Serve, pageVars
  <2>2. /\ conn' = conn /\ proxy[r] \in {"queued", "connecting", "relaying"}
        /\ \A q \in Requests : q # r => /\ proxy'[q] = proxy[q] /\ ollama'[q] = ollama[q]
                                        /\ wire'[q] = wire[q]
    BY <1>0, <2>1, HandleAlone
  <2>3. call[r].at # "unborn"
    BY <2>2 DEF StreamInv
  <2>4. call[r].at = "reading" =>
            conn'[r] = "open" /\ Announced(wire'[r], call[r], proxy'[r], ollama'[r])
    BY <1>0, <2>1, <2>2, HandleStream DEF StreamInv
  <2>5. QED
    BY <2>1, <2>2, <2>3, <2>4 DEF StreamInv
<1>6. ASSUME NEW r \in Requests, Send(r)
      PROVE  StreamInv'
  <2>1. /\ call' = [call EXCEPT ![r] = [[Unborn EXCEPT !.at = "reading"] EXCEPT !.timer = TRUE]]
        /\ OpenRequest(r) /\ call[r].at = "unborn"
    BY <1>6, SendType DEF Send
  <2>2. call'[r].at = "reading" /\ call'[r].inside = FALSE
    BY <1>0, <2>1 DEF Unborn
  <2>3. /\ conn'[r] = "open" /\ proxy'[r] = "queued" /\ wire'[r] = <<>>
        /\ \A q \in Requests : q # r => /\ call'[q] = call[q] /\ conn'[q] = conn[q]
                                        /\ proxy'[q] = proxy[q]
        /\ wire' = wire /\ ollama' = ollama
    BY <1>0, <2>1 DEF OpenRequest, ProxyTypeOK, StreamInv
  <2>4. Len(<<>>) = 0
    OBVIOUS
  <2>5. Announced(<<>>, call'[r], "queued", ollama'[r])
    <3>1. LineStart(<<>>, call'[r], 1)
      BY <2>2, Zenon DEF LineStart
    <3>2. Len(<<>>) + 1 = 1 /\ 1..Len(<<>>) = {}
      BY <2>4
    <3>3. QED
      BY <3>1, <3>2 DEF Announced
  <2>6. QED
    BY <2>2, <2>3, <2>5 DEF StreamInv
<1>7. ASSUME NEW r \in Requests, TimerFires(r)
      PROVE  StreamInv'
  <2>1. CASE currentAbort # NoRequest
    <3>1. currentAbort \in Reading /\ currentAbort \in Requests /\ Abort(Fired(r))
      BY <1>7, <2>1, Parts, AbortedReads DEF TimerFires, Fired
    <3>2. \E shown \in Outcomes : Settle(currentAbort, shown, Fired(r))
      BY <3>1, AbortIs, Zenon
    <3>3. QED
      BY <3>1, <3>2, FiredType, SettleStream
  <2>2. CASE currentAbort = NoRequest
    <3>1. call' = Fired(r) /\ proxyVars' = proxyVars
      BY <1>7, <2>2 DEF TimerFires, Fired
    <3>2. Reading' = {}
      <4>1. Reading = {}
        BY <2>2, Parts, ClientAssumption, Zenon DEF Composer, Reading
      <4>2. QED
        BY <4>1, <1>7, TimerType
    <3>3. QED
      BY <3>1, <3>2, FiredType, NobodyReads DEF proxyVars
  <2>3. QED
    BY <2>1, <2>2
<1>8. ASSUME NEW r \in Requests, ReadLine(r)
      PROVE  StreamInv'
  <2>1. /\ call' = [call EXCEPT ![r] = AfterLine(@, Head(wire[r]))]
        /\ TakePiece(r) /\ wire[r] # <<>> /\ call[r].at = "reading"
    BY <1>8 DEF ReadLine
  <2>2. /\ call'[r] = AfterLine(call[r], Head(wire[r])) /\ call'[r].at = "reading"
        /\ \A q \in Requests : q # r => call'[q] = call[q]
    BY <1>0, <1>8, <2>1, ReadLineType
  <2>3. /\ conn' = conn /\ proxy' = proxy /\ ollama' = ollama
        /\ wire'[r] = Tail(wire[r]) /\ \A q \in Requests : q # r => wire'[q] = wire[q]
    BY <1>0, <2>1 DEF TakePiece, ProxyTypeOK
  <2>4. Announced(Tail(wire[r]), AfterLine(call[r], Head(wire[r])), proxy[r], ollama[r])
    BY <1>0, <2>1, OneLess DEF StreamInv, ProxyTypeOK
  <2>5. QED
    BY <2>1, <2>2, <2>3, <2>4 DEF StreamInv
<1>9. ASSUME NEW r \in Requests, ReadEnd(r) \/ ReadBreaks(r)
      PROVE  StreamInv'
  <2>1. r \in Reading /\ \E shown \in Outcomes : Settle(r, shown, call)
    BY <1>9, ReadOverType
  <2>2. QED
    BY <1>0, <2>1, SettleStream
<1>10. QED
  BY <1>1, <1>2, <1>3, <1>4, <1>5, <1>6, <1>7, <1>8, <1>9, Steps DEF ServerStep

(* The exchange behind a kept reply is over, and Ollama completed it or was *)
(* torn inside a line. *)
Kept(r) ==
    call[r].at = "over" /\ proxy[r] = "ended" /\ ollama[r] \in {"complete", "torn"}

RepliesDone ==
    \A i \in DOMAIN history : history[i].role = "assistant" => Kept(history[i].of)

LEMMA KeptStays ==
    ASSUME TypeOK, NEW r \in Requests, Kept(r), [Next]_vars
    PROVE  Kept(r)'
<1>0. ProxyTypeOK /\ call \in [Requests -> Calls]
  BY Parts
<1>1. ASSUME NEW q \in Requests,
             \E shown, calls : /\ calls \in [Requests -> Calls]
                               /\ \A x \in Requests : calls[x].at = call[x].at
                               /\ Settle(q, shown, calls)
      PROVE  Kept(r)'
  <2>1. PICK shown, calls : /\ calls \in [Requests -> Calls]
                            /\ \A x \in Requests : calls[x].at = call[x].at
                            /\ Settle(q, shown, calls)
    BY <1>1
  <2>2. call' = [calls EXCEPT ![q] = Over(@)] /\ Hangup({q})
    BY <2>1, Zenon DEF Settle
  <2>3. call'[r].at = "over"
    <3>1. CASE r = q
      BY <2>1, <2>2, <3>1, CallsType
    <3>2. CASE r # q
      BY <2>1, <2>2, <3>2 DEF Kept
    <3>3. QED
      BY <3>1, <3>2
  <2>4. QED
    BY <2>2, <2>3 DEF Hangup, Kept
<1>2. CASE Stop
  <2>1. currentAbort \in Requests /\ Abort(call)
    BY <1>2, Parts, AbortedReads DEF Stop
  <2>2. \E shown \in Outcomes : Settle(currentAbort, shown, call)
    BY <2>1, AbortIs, Zenon
  <2>3. QED
    BY <1>0, <1>1, <2>1, <2>2
<1>3. CASE NewChat \/ UNCHANGED vars
  BY <1>3 DEF NewChat, vars, pageVars, proxyVars, Kept
<1>4. CASE Reload
  <2>1. /\ call' = [x \in Requests |-> IF x \in Asked THEN [Unborn EXCEPT !.at = "over"] ELSE call[x]]
        /\ Hangup(Reading)
    BY <1>4 DEF Reload
  <2>2. call'[r].at = "over"
    BY <2>1 DEF Kept, Asked, Unborn
  <2>3. QED
    BY <2>1, <2>2 DEF Hangup, Kept
<1>5. CASE Restart
  BY <1>0, <1>5 DEF Restart, pageVars, ServerRestarts, Kept
<1>6. ASSUME NEW q \in Requests, Serve(q)
      PROVE  Kept(r)'
  <2>1. Handle(q) /\ call' = call
    BY <1>6 DEF Serve, pageVars
  <2>2. r # q
    BY <1>0, <2>1, HandleAlone DEF Kept
  <2>3. QED
    BY <1>0, <2>1, <2>2, HandleAlone DEF Kept
<1>7. ASSUME NEW q \in Requests, Send(q)
      PROVE  Kept(r)'
  <2>1. /\ call' = [call EXCEPT ![q] = [[Unborn EXCEPT !.at = "reading"] EXCEPT !.timer = TRUE]]
        /\ OpenRequest(q) /\ call[q].at = "unborn"
    BY <1>7, SendType DEF Send
  <2>2. QED
    BY <1>0, <2>1 DEF OpenRequest, Kept
<1>8. ASSUME NEW q \in Requests, TimerFires(q)
      PROVE  Kept(r)'
  <2>1. CASE currentAbort # NoRequest
    <3>1. currentAbort \in Requests /\ Abort(Fired(q))
      BY <1>8, <2>1, Parts, AbortedReads DEF TimerFires, Fired
    <3>2. \E shown \in Outcomes : Settle(currentAbort, shown, Fired(q))
      BY <3>1, AbortIs, Zenon
    <3>3. QED
      BY <1>1, <3>1, <3>2, FiredType
  <2>2. CASE currentAbort = NoRequest
    <3>1. call' = Fired(q) /\ proxyVars' = proxyVars
      BY <1>8, <2>2 DEF TimerFires, Fired
    <3>2. QED
      BY <3>1, FiredType DEF proxyVars, Kept
  <2>3. QED
    BY <2>1, <2>2
<1>9. ASSUME NEW q \in Requests, ReadLine(q)
      PROVE  Kept(r)'
  <2>1. TakePiece(q) /\ call'[r].at = call[r].at
    BY <1>9, ReadLineType DEF ReadLine
  <2>2. QED
    BY <2>1 DEF TakePiece, Kept
<1>10. ASSUME NEW q \in Requests, ReadEnd(q) \/ ReadBreaks(q)
       PROVE  Kept(r)'
  <2>1. \E shown \in Outcomes : Settle(q, shown, call)
    BY <1>10, ReadOverType
  <2>2. QED
    BY <1>0, <1>1, <2>1
<1>11. QED
  BY <1>2, <1>3, <1>4, <1>5, <1>6, <1>7, <1>8, <1>9, <1>10, Steps DEF ServerStep

KeptInv == PlaceInv /\ StreamInv /\ RepliesDone

LEMMA DoneStep ==
    ASSUME KeptInv, [Next]_vars
    PROVE  RepliesDone'
<1>0. /\ TypeOK /\ ProxyTypeOK /\ StreamInv /\ RepliesDone /\ stored = history
      /\ history \in Seq(Entries) /\ call \in [Requests -> Calls]
  BY Parts DEF KeptInv, PlaceInv
<1>1. \A i \in DOMAIN history :
          history[i].role = "assistant" => \E r \in Requests : r = history[i].of /\ Kept(r)'
  <2> SUFFICES ASSUME NEW i \in DOMAIN history, history[i].role = "assistant"
               PROVE  \E r \in Requests : r = history[i].of /\ Kept(r)'
    OBVIOUS
  <2>1. history[i] \in Entries
    BY <1>0, LenProperties
  <2>2. PICK r : r \in Requests /\ r = history[i].of
    BY <2>1 DEF Entries, Question, Reply
  <2>3. Kept(r)
    BY <1>0, <2>2 DEF RepliesDone
  <2>4. Kept(r)'
    BY <1>0, <2>2, <2>3, KeptStays
  <2>5. QED
    BY <2>2, <2>4
<1>2. ASSUME history' \in {history, <<>>}
      PROVE  RepliesDone'
  BY <1>1, <1>2 DEF RepliesDone, Kept
<1>3. ASSUME NEW e \in Entries, history' = Append(history, e),
             e.role = "assistant" => Kept(e.of)'
      PROVE  RepliesDone'
  <2>1. /\ Len(history) \in Nat /\ DOMAIN history' = 1..(Len(history) + 1)
        /\ \A i \in 1..Len(history) : history'[i] = history[i]
        /\ history'[Len(history) + 1] = e /\ DOMAIN history = 1..Len(history)
    BY <1>0, <1>3, Appended
  <2>2. QED
    BY <1>1, <1>3, <2>1 DEF RepliesDone, Kept
<1>4. ASSUME NEW r \in Requests, Send(r)
      PROVE  RepliesDone'
  <2>1. history' = Append(history, Question(r)) /\ Question(r) \in Entries
        /\ Question(r).role # "assistant"
    BY <1>4, EntriesType DEF Send, Question
  <2>2. QED
    BY <1>3, <2>1
<1>5. ASSUME NEW r \in Requests, ReadEnd(r),
             history' = Append(history, Reply(r)), call[r].sawError = FALSE
      PROVE  RepliesDone'
  <2>1. call[r].at = "reading" /\ wire[r] # <<>> /\ Head(wire[r]) = "end"
    BY <1>5 DEF ReadEnd
  <2>2. Announced(wire[r], call[r], proxy[r], ollama[r]) /\ wire[r] \in Seq(Pieces)
    BY <1>0, <2>1 DEF StreamInv, ProxyTypeOK
  <2>3. Len(wire[r]) \in Nat \ {0} /\ Head(wire[r]) = wire[r][1]
    BY <2>1, <2>2, HeadTailProperties, LenProperties, EmptySeq
  <2>4. 1 \in 1..Len(wire[r]) /\ wire[r][1] = "end"
    BY <2>1, <2>3
  <2>5. /\ Len(wire[r]) = 1 /\ proxy[r] = "ended"
        /\ ollama[r] \in {"complete", "torn"} \/ ErrorComes(wire[r], call[r])
    BY <2>2, <2>4 DEF Announced
  <2>6. ~ErrorComes(wire[r], call[r])
    <3>1. \A i \in 1..Len(wire[r]) : wire[r][i] # "error"
      BY <2>4, <2>5
    <3>2. call[r].sawError # TRUE
      BY <1>5, Zenon
    <3>3. QED
      BY <3>1, <3>2, Zenon DEF ErrorComes
  <2>7. \E shown : Settle(r, shown, call)
    BY <1>0, <1>5, ReadOverType
  <2>8. call' = [call EXCEPT ![r] = Over(@)] /\ Hangup({r})
    BY <2>7, Zenon DEF Settle
  <2>9. call'[r].at = "over" /\ proxy' = proxy /\ ollama' = ollama
    BY <1>0, <2>8, CallsType DEF Hangup
  <2>10. Kept(r)'
    BY <2>5, <2>6, <2>9 DEF Kept
  <2>11. Reply(r) \in Entries /\ Reply(r).of = r
    BY EntriesType DEF Reply
  <2>12. QED
    BY <1>3, <1>5, <2>10, <2>11 DEF Kept
<1>6. ASSUME NEW r \in Requests, ReadEnd(r) \/ ReadBreaks(r)
      PROVE  RepliesDone'
  <2>1. \/ history' = history
        \/ ReadEnd(r) /\ history' = Append(history, Reply(r)) /\ call[r].sawError = FALSE
    <3>1. call[r] \in Calls
      BY <1>0
    <3>2. call[r].sawError \in BOOLEAN
      BY <3>1 DEF Calls
    <3>3. QED
      BY <1>6, <3>2, Zenon DEF ReadEnd, ReadBreaks
  <2>2. QED
    BY <1>2, <1>5, <2>1
<1>7. CASE Stop \/ NewChat \/ Reload \/ ServerStep \/ UNCHANGED vars
           \/ \E r \in Requests : TimerFires(r) \/ ReadLine(r)
  <2>1. history' \in {history, <<>>}
    BY <1>0, <1>7, ServerType DEF Stop, NewChat, Reload, vars, pageVars, TimerFires, ReadLine
  <2>2. QED
    BY <1>2, <2>1
<1>8. QED
  BY <1>4, <1>6, <1>7, Steps

(* A reply that the page keeps is one Ollama completed or one that broke    *)
(* inside a line: every other failure has an error line of its own, which   *)
(* the page sees before the body ends.                                      *)
THEOREM StoredRepliesAreWhole == Spec => []StoredRepliesWhole
<1>1. Init => KeptInv
  <2> SUFFICES ASSUME Init PROVE KeptInv
    OBVIOUS
  <2>1. /\ history = <<>> /\ stored = <<>> /\ \A r \in Requests : call[r] = Unborn
        /\ ProxyInit
    BY DEF Init
  <2>2. Reading = {}
    BY <2>1 DEF Reading, Unborn
  <2>3. PlaceInv
    BY <2>1, <2>2, InitType DEF RepliesInPlace, Awaited, PlaceInv
  <2>4. StreamInv
    BY <2>1 DEF StreamInv, ProxyInit, Unborn
  <2>5. RepliesDone
    BY <2>1 DEF RepliesDone
  <2>6. QED
    BY <2>3, <2>4, <2>5 DEF KeptInv
<1>2. KeptInv /\ [Next]_vars => KeptInv'
  <2> SUFFICES ASSUME KeptInv, [Next]_vars PROVE KeptInv'
    OBVIOUS
  <2>1. PlaceInv /\ TypeOK /\ StreamInv
    BY DEF KeptInv, PlaceInv
  <2>2. PlaceInv'
    BY <2>1, TypeStep, PlaceStep DEF PlaceInv
  <2>3. StreamInv' /\ RepliesDone'
    BY <2>1, StreamStep, DoneStep
  <2>4. QED
    BY <2>2, <2>3 DEF KeptInv
<1>3. KeptInv => StoredRepliesWhole
  BY DEF KeptInv, PlaceInv, RepliesDone, Kept, StoredRepliesWhole
<1>4. QED
  BY <1>1, <1>2, <1>3, PTL DEF Spec
=============================================================================
