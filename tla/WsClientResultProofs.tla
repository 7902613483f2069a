----------------------- MODULE WsClientResultProofs -----------------------
(***************************************************************************)
(* More theorems about WsClient: whose result a call returns, and what the *)
(* loop thread waits for, for every set of calling threads and every bound *)
(* on the calls they make.                                                 *)
(***************************************************************************)
EXTENDS WsClientProofs

-----------------------------------------------------------------------------
(* The inductive invariant, relative to IInv.                              *)

\* Two threads never use the same import id.
CallersApart ==
    \A c, d \in Callers : call[c].id = call[d].id => c = d \/ call[c].id = 0

Pushes  == {i \in DOMAIN deferred : deferred[i].type = "push"}
Pulls   == {i \in DOMAIN deferred : deferred[i].type = "pull"}
Replies == {i \in DOMAIN inbound : inbound[i].type # "abort"}

\* Every import id is pushed at most once: it is with its caller, deferred to the loop,
\* or the server has it, and in one place only.
PushedOnce ==
    /\ \A i \in DOMAIN deferred : deferred[i].id < nextImportId
    /\ \A i, j \in DOMAIN exports : exports[i] = exports[j] => i = j
    /\ \A i, j \in Pushes : deferred[i].id = deferred[j].id => i = j
    /\ \A i \in Pushes : \A j \in DOMAIN exports : deferred[i].id # exports[j]
    /\ \A j \in DOMAIN exports : exports[j] < nextImportId
    /\ \A c \in Callers : At(c, "push") =>
           /\ \A i \in Pushes : deferred[i].id # call[c].id
           /\ \A j \in DOMAIN exports : exports[j] # call[c].id

\* A result, wherever it is, is that of the push the server numbered with its id.
AnswersMatch ==
    /\ \A i \in DOMAIN inbound : inbound[i].type = "resolve" =>
           inbound[i].id \in DOMAIN exports /\ inbound[i].of = exports[inbound[i].id]
    /\ \A id \in ImportIds : answer[id] # 0 =>
           id \in DOMAIN exports /\ answer[id] = exports[id]

\* A call that is about to return a value, or has returned one, has been answered.
ReturnedAreAnswered ==
    /\ \A id \in ImportIds : cell[id] = "resolved" \/ outcome[id] = "returned" => answer[id] # 0
    /\ \A c \in Callers : call[c].at \in {"erase", "release"} => answer[call[c].id] # 0

\* The loop delivers the outcome of the frame it has in hand.
DeliversHead ==
    loop.at = "deliver" =>
        loop.id \in ImportIds /\ Head(inbound).id = loop.id /\ Head(inbound).type # "abort"

Unsettled(id) == cell[id] # "resolved"

\* Every import id is pulled, and answered, at most once, and not yet resolved as long
\* as its pull or its answer is still to come.
AnsweredOnce ==
    /\ \A j \in Replies : inbound[j].id \in ImportIds /\ inbound[j].id < nextImportId
    /\ \A i, j \in Pulls : deferred[i].id = deferred[j].id => i = j
    /\ \A i, j \in Replies : inbound[i].id = inbound[j].id => i = j
    /\ \A i \in Pulls : \A j \in Replies : deferred[i].id # inbound[j].id
    /\ \A i \in Pulls : Unsettled(deferred[i].id)
    /\ \A j \in Replies : Unsettled(inbound[j].id)
    /\ \A c \in Callers : At(c, "push") \/ At(c, "pull") =>
           /\ Unsettled(call[c].id)
           /\ \A i \in Pulls : deferred[i].id # call[c].id
           /\ \A j \in Replies : inbound[j].id # call[c].id
    /\ \A id \in ImportIds : id >= nextImportId => Unsettled(id)

\* Nobody calls before the socket is open.
NoneBeforeOpen == loop.at = "connect" => owner = "connecting" /\ nextImportId = 1

\* Who holds which mutex.
LocksAreHeld ==
    /\ mu = LoopThread <=> loop.at = "abort"
    /\ mu = Closer <=> owner = "joining"
    /\ \A id \in ImportIds : holder[id] # NoThread =>
           At(holder[id], "erase") /\ call[holder[id]].id = id /\ cell[id] = "resolved"

JInv == CallersApart /\ PushedOnce /\ AnswersMatch /\ ReturnedAreAnswered /\ DeliversHead
        /\ AnsweredOnce /\ NoneBeforeOpen /\ LocksAreHeld

-----------------------------------------------------------------------------
(* Sequences, position by position.                                        *)

LEMMA AppendAt ==
  ASSUME NEW S, NEW s \in Seq(S), NEW e \in S
  PROVE  \A i \in DOMAIN Append(s, e) : \/ i \in DOMAIN s /\ Append(s, e)[i] = s[i]
                                        \/ i = Len(s) + 1 /\ Append(s, e)[i] = e
  OBVIOUS

LEMMA TailAt ==
  ASSUME NEW S, NEW s \in Seq(S), s # <<>>
  PROVE  /\ 1 \in DOMAIN s /\ Head(s) = s[1]
         /\ \A i \in DOMAIN Tail(s) : i + 1 \in DOMAIN s /\ i + 1 # 1 /\ Tail(s)[i] = s[i + 1]
  OBVIOUS

LEMMA Positions ==
  ASSUME NEW S, NEW s \in Seq(S)
  PROVE  \A i \in DOMAIN s : i \in Int /\ i # Len(s) + 1
  OBVIOUS

-----------------------------------------------------------------------------
(* What one step does to the deferred closures, the server and its frames. *)

\* A closure that a step adds.
Sent(frame) ==
    \/ frame.type = "stop" /\ frame.id = 0
    \/ \E c \in Callers : /\ frame.id = call[c].id
                          /\ \/ frame.type = "release"
                             \/ frame.type = "push" /\ SendPush(c) /\ Goes(c, "pull")
                             \/ frame.type = "pull" /\ SendPull(c) /\ Goes(c, "lookup")

\* Only the loop takes a closure; any other step adds one at most.
LEMMA Appended ==
  ASSUME TypeOK, [Next]_vars, ~ RunDeferred, deferred' # deferred
  PROVE  \E e \in Frames : Sent(e) /\ deferred' = Append(deferred, e)
  <1>1. \/ \E c \in Callers : SendPush(c) \/ SendPull(c) \/ SendRelease(c)
        \/ StartClose
    BY DEF Next, Caller, Allocate, Lookup, Check, Wake, Erase, Loop, Joined, ReceiveFrame,
                TakeAnswer, Deliver, Notify, TakeAbort, FailNext, FinishAbort, LoopEnds,
                SocketCloses, Connect, Opens, Refuses, Connected, ConnectFails, vars
  <1>2. ASSUME NEW c \in Callers, SendPush(c)
        PROVE  Frame("push", call[c].id) \in Frames /\ Sent(Frame("push", call[c].id))
               /\ deferred' = Append(deferred, Frame("push", call[c].id))
    <2>1. call[c].id \in ImportIds
      BY <1>2, CallIds DEF SendPush, Send, At
    <2> QED
      BY <1>2, <2>1 DEF SendPush, Send, Sent, Frame, Frames
  <1>3. ASSUME NEW c \in Callers, SendPull(c)
        PROVE  Frame("pull", call[c].id) \in Frames /\ Sent(Frame("pull", call[c].id))
               /\ deferred' = Append(deferred, Frame("pull", call[c].id))
    <2>1. call[c].id \in ImportIds
      BY <1>3, CallIds DEF SendPull, Send, At
    <2> QED
      BY <1>3, <2>1 DEF SendPull, Send, Sent, Frame, Frames
  <1>4. ASSUME NEW c \in Callers, SendRelease(c)
        PROVE  Frame("release", call[c].id) \in Frames /\ Sent(Frame("release", call[c].id))
               /\ deferred' = Append(deferred, Frame("release", call[c].id))
    <2>1. call[c].id \in ImportIds
      BY <1>4, CallIds DEF SendRelease, At
    <2> QED
      BY <1>4, <2>1 DEF SendRelease, Sent, Frame, Frames
  <1>5. CASE StartClose
    BY <1>5 DEF StartClose, Sent, Frame, Frames
  <1> QED
    BY <1>1, <1>2, <1>3, <1>4, <1>5

\* Each closure was there before, but for the one the step adds; the loop takes the
\* first.
LEMMA DeferredSteps ==
  ASSUME TypeOK, [Next]_vars
  PROVE  /\ ~ RunDeferred =>
                \A i \in DOMAIN deferred' :
                    \/ i \in DOMAIN deferred /\ deferred'[i] = deferred[i]
                    \/ i = Len(deferred) + 1 /\ Sent(deferred'[i]) /\ deferred'[i] \in Frames
         /\ RunDeferred =>
                /\ 1 \in DOMAIN deferred /\ Head(deferred) = deferred[1]
                /\ \A i \in DOMAIN deferred' :
                       i + 1 \in DOMAIN deferred /\ i + 1 # 1 /\ deferred'[i] = deferred[i + 1]
  <1>1. ASSUME RunDeferred
        PROVE  /\ 1 \in DOMAIN deferred /\ Head(deferred) = deferred[1]
               /\ \A i \in DOMAIN deferred' :
                      i + 1 \in DOMAIN deferred /\ i + 1 # 1 /\ deferred'[i] = deferred[i + 1]
    <2>1. deferred \in Seq(Frames) /\ deferred # <<>> /\ deferred' = Tail(deferred)
      BY <1>1 DEF RunDeferred, TypeOK
    <2> QED
      BY <2>1, TailAt
  <1>2. ASSUME NEW e \in Frames, Sent(e), deferred' = Append(deferred, e)
        PROVE  \A i \in DOMAIN deferred' :
                    \/ i \in DOMAIN deferred /\ deferred'[i] = deferred[i]
                    \/ i = Len(deferred) + 1 /\ Sent(deferred'[i]) /\ deferred'[i] \in Frames
    <2>1. deferred \in Seq(Frames)
      BY DEF TypeOK
    <2>2. \A i \in DOMAIN deferred' : \/ i \in DOMAIN deferred /\ deferred'[i] = deferred[i]
                                      \/ i = Len(deferred) + 1 /\ deferred'[i] = e
      BY <1>2, <2>1, AppendAt
    <2> QED
      BY <1>2, <2>2
  <1> QED
    BY <1>1, <1>2, Appended

\* A step that takes a push to the server.
Exported == RunDeferred /\ Head(deferred).type = "push"
            /\ exports' = Append(exports, Head(deferred).id) /\ ~aborted

LEMMA ExportsSteps ==
  ASSUME TypeOK, [Next]_vars, exports' # exports
  PROVE  Exported
  <1>1. RunDeferred
    BY DEF Next, Caller, Allocate, SendPush, SendPull, Send, Lookup, Check, Wake, Erase,
           SendRelease, Loop, StartClose, Joined, ReceiveFrame,
           TakeAnswer, Deliver, Notify, TakeAbort, FailNext, FinishAbort, LoopEnds,
           SocketCloses, Connect, Opens, Refuses, Connected, ConnectFails, vars, server, peer
  <1> QED
    BY <1>1 DEF RunDeferred, ServerTakes, server, peer, Exported

\* The server keeps every push it has.
LEMMA ExportsStay ==
  ASSUME TypeOK, [Next]_vars
  PROVE  /\ exports' \in Seq(ImportIds) => Len(exports') >= Len(exports)
         /\ \A j \in DOMAIN exports : j \in DOMAIN exports' /\ exports'[j] = exports[j]
         /\ \A j \in DOMAIN exports' : \/ j \in DOMAIN exports
                                       \/ Exported /\ j = Len(exports) + 1
                                          /\ exports'[j] = Head(deferred).id
  <1>1. CASE exports' = exports
    BY <1>1 DEF TypeOK
  <1>2. CASE exports' # exports
    <2>1. Exported
      BY <1>2, ExportsSteps
    <2>2. Head(deferred).id \in ImportIds
      <3>1. Head(deferred) \in Frames
        BY <2>1 DEF Exported, RunDeferred, TypeOK
      <3> QED
        BY <2>1, <3>1 DEF Exported, Frames, Frame
    <2>3. exports \in Seq(ImportIds) /\ exports' = Append(exports, Head(deferred).id)
      BY <2>1 DEF Exported, TypeOK
    <2> QED
      BY <2>1, <2>2, <2>3
  <1> QED
    BY <1>1, <1>2

\* A frame the server adds.
Answered(frame) ==
    /\ RunDeferred /\ UNCHANGED exports
    /\ \/ frame.type = "abort" /\ frame.id = 0
       \/ Head(deferred).type = "pull" /\ frame \in Reply(Head(deferred).id)

\* Each frame from the server was there before, but for the one it adds; the loop takes
\* the first.
Takes == TakeAnswer \/ Deliver \/ TakeAbort

LEMMA InboundSteps ==
  ASSUME TypeOK, HandledIsThere, [Next]_vars
  PROVE  \/ \A i \in DOMAIN inbound' :
                \/ i \in DOMAIN inbound /\ inbound'[i] = inbound[i]
                \/ i = Len(inbound) + 1 /\ Answered(inbound'[i])
         \/ /\ Takes /\ 1 \in DOMAIN inbound /\ Head(inbound) = inbound[1]
            /\ \A i \in DOMAIN inbound' :
                   i + 1 \in DOMAIN inbound /\ i + 1 # 1 /\ inbound'[i] = inbound[i + 1]
  <1>0. inbound \in Seq(Answers)
    BY DEF TypeOK
  <1>1. CASE inbound' = inbound
    BY <1>1
  <1>2. CASE inbound' # inbound /\ Takes
    <2>1. inbound' = Tail(inbound) /\ inbound # <<>>
      BY <1>2 DEF Takes, TakeAnswer, Deliver, TakeAbort, Handling, HandledIsThere
    <2> QED
      BY <1>0, <1>2, <2>1, TailAt
  <1>3. CASE inbound' # inbound /\ ~ Takes
    <2>1. RunDeferred
      BY <1>3 DEF Next, Caller, Allocate, SendPush, SendPull, Send, Lookup, Check, Wake, Erase,
                  SendRelease, Loop, StartClose, Joined, ReceiveFrame, Takes,
                  Notify, FailNext, FinishAbort, LoopEnds,
                  SocketCloses, Connect, Opens, Refuses, Connected, ConnectFails, vars, server
    <2>2. ServerTakes(Head(deferred)) /\ Head(deferred) \in Frames
      BY <1>3, <2>1 DEF RunDeferred, server, TypeOK
    <2>3. \E e : Answered(e) /\ inbound' = Append(inbound, e)
      BY <1>3, <2>1, <2>2 DEF ServerTakes, server, peer, Answered
    <2>4. PICK e : Answered(e) /\ inbound' = Append(inbound, e)
      BY <2>3
    <2>5. inbound' \in Seq(Answers)
      BY <2>2, ServerType
    <2>6. \A i \in DOMAIN inbound' : \/ i \in DOMAIN inbound /\ inbound'[i] = inbound[i]
                                     \/ i = Len(inbound) + 1 /\ inbound'[i] = e
      BY <1>0, <2>4, <2>5
    <2> QED
      BY <2>4, <2>6
  <1> QED
    BY <1>1, <1>2, <1>3

-----------------------------------------------------------------------------
(* What one step does to a caller.                                         *)

\* A step of d along its call.
Steps(d) ==
    /\ call[d].at # "ready" /\ call'[d].id = call[d].id
    /\ call'[d].at \in {"pull", "lookup", "check", "wait", "erase", "release"}
    /\ call'[d].at = "pull" => SendPush(d)
    /\ call'[d].at = "erase" => Check(d) /\ cell[call[d].id] = "resolved"
    /\ call'[d].at = "release" => Erase(d)

\* A caller's step to a line, or out of its call.
LEMMA LineSteps ==
  ASSUME TypeOK, NEW d \in Callers, call[d].at # "ready"
  PROVE  /\ \A line \in Lines : Goes(d, line) => call'[d].at = line /\ call'[d].id = call[d].id
         /\ \A how \in {"returned", "rejected", "unsent"} : Ends(d, how) => call'[d] = Resting
  <1>1. call[d] \in [at : Lines, id : ImportIds]
    BY CallIds
  <1> QED
    BY <1>1 DEF Goes, Ends, TypeOK

\* A caller stays, leaves its call, starts one, or goes on.
LEMMA PlaceSteps ==
  ASSUME TypeOK, [Next]_vars, NEW d \in Callers
  PROVE  \/ call'[d] = call[d]
         \/ call'[d] = Resting
         \/ Allocate(d) /\ call'[d] = [at |-> "push", id |-> nextImportId]
         \/ Steps(d)
  <1>1. CASE ~ \E c \in Callers : Caller(c)
    BY <1>1, CallSteps
  <1>2. ASSUME NEW c \in Callers, c # d, Caller(c)
        PROVE  call'[d] = call[d]
    BY <1>2, CallerMoves, OthersStay
  <1>3. CASE Caller(d)
    <2>1. CASE Allocate(d)
      BY <2>1 DEF Allocate, TypeOK
    <2>2. CASE SendPush(d)
      <3>0. call[d].at # "ready"
        BY <2>2 DEF SendPush, Send, At
      <3>1. \/ call'[d].at = "pull" /\ call'[d].id = call[d].id
            \/ call'[d] = Resting
        BY <2>2, <3>0, LineSteps DEF SendPush, Send, Lines
      <3> QED
        BY <2>2, <3>0, <3>1 DEF Steps
    <2>3. CASE SendPull(d)
      <3>0. call[d].at # "ready"
        BY <2>3 DEF SendPull, Send, At
      <3>1. \/ call'[d].at = "lookup" /\ call'[d].id = call[d].id
            \/ call'[d] = Resting
        BY <2>3, <3>0, LineSteps DEF SendPull, Send, Lines
      <3> QED
        BY <2>3, <3>0, <3>1 DEF Steps
    <2>4. CASE Lookup(d)
      <3>0. call[d].at # "ready"
        BY <2>4 DEF Lookup, At
      <3>1. \/ call'[d].at = "check" /\ call'[d].id = call[d].id
            \/ call'[d] = Resting
        BY <2>4, <3>0, LineSteps DEF Lookup, Lines
      <3> QED
        BY <2>4, <3>0, <3>1 DEF Steps
    <2>5. CASE Check(d)
      <3>0. call[d].at # "ready"
        BY <2>5 DEF Check, At
      <3>1. \/ call'[d].at = "wait" /\ call'[d].id = call[d].id
            \/ call'[d].at = "erase" /\ call'[d].id = call[d].id /\ cell[call[d].id] = "resolved"
            \/ call'[d] = Resting
        BY <2>5, <3>0, LineSteps DEF Check, Lines
      <3> QED
        BY <2>5, <3>0, <3>1 DEF Steps
    <2>6. CASE Wake(d)
      <3>0. call[d].at # "ready"
        BY <2>6 DEF Wake, At
      <3>1. call'[d].at = "check" /\ call'[d].id = call[d].id
        BY <2>6, <3>0, LineSteps DEF Wake, Lines
      <3> QED
        BY <2>6, <3>0, <3>1 DEF Steps
    <2>7. CASE Erase(d)
      <3>0. call[d].at # "ready"
        BY <2>7 DEF Erase, At
      <3>1. call'[d].at = "release" /\ call'[d].id = call[d].id
        BY <2>7, <3>0, LineSteps DEF Erase, Lines
      <3> QED
        BY <2>7, <3>0, <3>1 DEF Steps
    <2>8. CASE SendRelease(d)
      BY <2>8 DEF SendRelease, Ends, TypeOK
    <2> QED
      BY <1>3, <2>1, <2>2, <2>3, <2>4, <2>5, <2>6, <2>7, <2>8 DEF Caller
  <1> QED
    BY <1>1, <1>2, <1>3

\* A thread inside a call stands at a line of it; its id was given out.
LEMMA Places ==
  ASSUME TypeOK, IdsAreFresh, NEW d \in Callers
  PROVE  /\ call[d] = Resting \/ call[d] \in [at : Lines, id : ImportIds]
         /\ call[d].id \in Int /\ call[d].id < nextImportId /\ nextImportId \in Int
         /\ \A line \in Lines : At(d, line) => call[d].id \in ImportIds
  BY DEF TypeOK, IdsAreFresh, Resting, ImportIds, At, Lines

-----------------------------------------------------------------------------

\* No two threads use the same id.
LEMMA NextApart ==
  ASSUME IInv, CallersApart, [Next]_vars
  PROVE  CallersApart'
  <1> SUFFICES ASSUME NEW c \in Callers, NEW d \in Callers, c # d, call'[c].id = call'[d].id
               PROVE  call'[c].id = 0
    BY DEF CallersApart
  <1>0. TypeOK /\ IdsAreFresh
    BY DEF IInv
  <1>1. /\ call[c].id \in Int /\ call[c].id < nextImportId
        /\ call[d].id \in Int /\ call[d].id < nextImportId /\ nextImportId \in Int
    BY <1>0, Places
  <1>2. ASSUME Allocate(c), Allocate(d) PROVE FALSE
    BY <1>0, <1>1, <1>2 DEF Allocate, TypeOK
  <1>3. \/ call'[c].id \in {call[c].id, 0}
        \/ Allocate(c) /\ call'[c].id = nextImportId
    BY <1>0, PlaceSteps DEF Steps, Resting
  <1>4. \/ call'[d].id \in {call[d].id, 0}
        \/ Allocate(d) /\ call'[d].id = nextImportId
    BY <1>0, PlaceSteps DEF Steps, Resting
  <1>5. nextImportId > 0
    BY <1>0 DEF TypeOK
  <1> QED
    BY <1>1, <1>2, <1>3, <1>4, <1>5 DEF CallersApart

\* Import ids only grow.
LEMMA IdsGrow ==
  ASSUME TypeOK, [Next]_vars
  PROVE  /\ nextImportId \in Int
         /\ nextImportId' = nextImportId \/ nextImportId' = nextImportId + 1
         /\ \A c \in Callers : Allocate(c) =>
                nextImportId' = nextImportId + 1 /\ nextImportId \in ImportIds
  <1>1. \/ nextImportId' = nextImportId
        \/ \E c \in Callers : Allocate(c)
    BY PendingSteps DEF Caller
  <1> QED
    BY <1>1 DEF TypeOK, Allocate

-----------------------------------------------------------------------------
(* Every id is pushed once.                                                *)

\* The caller that sends a push, or a pull, goes on to its next line.
LEMMA SentPush ==
  ASSUME TypeOK, NEW frame, Sent(frame), frame.type = "push"
  PROVE  \E c \in Callers : /\ At(c, "push") /\ call'[c].at = "pull"
                            /\ frame.id = call[c].id
  <1>1. PICK c \in Callers : frame.id = call[c].id /\ SendPush(c) /\ Goes(c, "pull")
    BY DEF Sent
  <1>2. At(c, "push")
    BY <1>1 DEF SendPush, Send
  <1>3. call'[c].at = "pull"
    BY <1>1, <1>2, LineSteps DEF At, Lines
  <1> QED
    BY <1>1, <1>2, <1>3

LEMMA SentPull ==
  ASSUME TypeOK, NEW frame, Sent(frame), frame.type = "pull"
  PROVE  \E c \in Callers : /\ At(c, "pull") /\ call'[c].at = "lookup"
                            /\ frame.id = call[c].id
  <1>1. PICK c \in Callers : frame.id = call[c].id /\ SendPull(c) /\ Goes(c, "lookup")
    BY DEF Sent
  <1>2. At(c, "pull")
    BY <1>1 DEF SendPull, Send
  <1>3. call'[c].at = "lookup"
    BY <1>1, <1>2, LineSteps DEF At, Lines
  <1> QED
    BY <1>1, <1>2, <1>3

\* A caller that takes no step stays put.
LEMMA StayPut ==
  ASSUME TypeOK, [Next]_vars, NEW d \in Callers, ~ Caller(d)
  PROVE  call'[d] = call[d]
  <1>1. CASE ~ \E c \in Callers : Caller(c)
    BY <1>1, CallSteps
  <1>2. ASSUME NEW c \in Callers, c # d, Caller(c)
        PROVE  call'[d] = call[d]
    BY <1>2, CallerMoves, OthersStay
  <1> QED
    BY <1>1, <1>2

\* A caller about to push has been there, or starts its call.
LEMMA PushPlace ==
  ASSUME TypeOK, [Next]_vars, NEW c \in Callers, call'[c].at = "push"
  PROVE  call'[c] = call[c] \/ Allocate(c)
  BY PlaceSteps DEF Steps, Resting

\* The ids in use, pushed or deferred were given out.
LEMMA FrameIds ==
  ASSUME TypeOK, IdsAreFresh, PushedOnce
  PROVE  /\ \A i \in DOMAIN deferred : /\ deferred[i] \in Frames /\ deferred[i].id \in Int
                                       /\ i \in Int /\ i # Len(deferred) + 1
                                       /\ deferred[i].id < nextImportId
         /\ \A j \in DOMAIN exports : /\ exports[j] \in ImportIds /\ exports[j] \in Int
                                      /\ j \in Int /\ j # Len(exports) + 1
                                      /\ exports[j] < nextImportId
  <1>1. ASSUME NEW frame \in Frames PROVE frame.id \in Int
    BY <1>1 DEF Frames, Frame, ImportIds
  <1>2. deferred \in Seq(Frames) /\ exports \in Seq(ImportIds)
    BY DEF TypeOK
  <1>3. \A i \in DOMAIN deferred : deferred[i] \in Frames /\ i \in Int /\ i # Len(deferred) + 1
    BY <1>2
  <1>4. \A j \in DOMAIN exports : exports[j] \in ImportIds /\ j \in Int /\ j # Len(exports) + 1
    BY <1>2
  <1> QED
    BY <1>1, <1>3, <1>4 DEF PushedOnce, ImportIds

LEMMA NextPushed ==
  ASSUME IInv, CallersApart, PushedOnce, [Next]_vars
  PROVE  PushedOnce'
  <1>0. TypeOK /\ IdsAreFresh
    BY DEF IInv
  <1>1. /\ nextImportId \in Int /\ nextImportId' \in Int /\ nextImportId <= nextImportId'
        /\ \A c \in Callers : Allocate(c) =>
                nextImportId' = nextImportId + 1 /\ nextImportId \in ImportIds
    BY <1>0, IdsGrow
  <1>2. \A j \in DOMAIN exports' : \/ j \in DOMAIN exports /\ exports'[j] = exports[j]
                                   \/ Exported /\ j = Len(exports) + 1
                                      /\ exports'[j] = Head(deferred).id
    BY <1>0, ExportsStay
  <1>3. CASE ~ RunDeferred
    <2>1. exports' = exports
      BY <1>0, <1>3, ExportsSteps DEF Exported
    <2>2. \A i \in DOMAIN deferred' :
              \/ i \in DOMAIN deferred /\ deferred'[i] = deferred[i]
              \/ i = Len(deferred) + 1 /\ Sent(deferred'[i]) /\ deferred'[i] \in Frames
      BY <1>0, <1>3, DeferredSteps
    <2>3. \A i \in DOMAIN deferred' : i \notin DOMAIN deferred /\ deferred'[i].type = "push" =>
              \E c \in Callers : /\ At(c, "push") /\ call'[c].at = "pull"
                                 /\ deferred'[i].id = call[c].id
      BY <1>0, <2>2, SentPush
    <2>4. \A i \in DOMAIN deferred' : /\ deferred'[i].id < nextImportId'
                                      /\ i \in DOMAIN deferred \/ i = Len(deferred) + 1
      <3> TAKE i \in DOMAIN deferred'
      <3>1. CASE i \in DOMAIN deferred /\ deferred'[i] = deferred[i]
        BY <1>0, <1>1, <3>1, FrameIds
      <3>2. CASE i = Len(deferred) + 1 /\ Sent(deferred'[i]) /\ deferred'[i] \in Frames
        <4>1. deferred'[i].id = 0 \/ \E c \in Callers : deferred'[i].id = call[c].id
          BY <3>2 DEF Sent
        <4>2. 0 < nextImportId
          BY <1>0 DEF TypeOK
        <4> QED
          BY <1>0, <1>1, <3>2, <4>1, <4>2, Places
      <3> QED
        BY <2>2, <3>1, <3>2
    <2>5. \A i, j \in Pushes' : deferred'[i].id = deferred'[j].id => i = j
      <3> SUFFICES ASSUME NEW i \in DOMAIN deferred', NEW j \in DOMAIN deferred',
                          deferred'[i].type = "push", deferred'[j].type = "push",
                          deferred'[i].id = deferred'[j].id
                   PROVE  i = j
        BY DEF Pushes
      <3>1. CASE i \in DOMAIN deferred /\ j \in DOMAIN deferred
        BY <1>0, <2>2, <3>1, FrameIds DEF PushedOnce, Pushes
      <3>2. CASE i \notin DOMAIN deferred /\ j \in DOMAIN deferred
        BY <1>0, <2>2, <2>3, <3>2, FrameIds DEF PushedOnce, Pushes
      <3>3. CASE i \in DOMAIN deferred /\ j \notin DOMAIN deferred
        BY <1>0, <2>2, <2>3, <3>3, FrameIds DEF PushedOnce, Pushes
      <3> QED
        BY <2>4, <3>1, <3>2, <3>3
    <2>6. \A i \in Pushes' : \A j \in DOMAIN exports' : deferred'[i].id # exports'[j]
      <3> SUFFICES ASSUME NEW i \in DOMAIN deferred', NEW j \in DOMAIN exports,
                          deferred'[i].type = "push"
                   PROVE  deferred'[i].id # exports[j]
        BY <2>1 DEF Pushes
      <3>1. CASE i \in DOMAIN deferred
        BY <1>0, <2>2, <3>1, FrameIds DEF PushedOnce, Pushes
      <3>2. CASE i \notin DOMAIN deferred
        BY <2>3, <3>2 DEF PushedOnce
      <3> QED
        BY <3>1, <3>2
    <2>7. ASSUME NEW c \in Callers, call'[c].at = "push", NEW i \in DOMAIN deferred',
                 deferred'[i].type = "push"
          PROVE  deferred'[i].id # call'[c].id
      <3>1. CASE Allocate(c)
        <4>1. deferred' = deferred /\ call'[c].id = nextImportId
          BY <1>0, <3>1 DEF Allocate, TypeOK
        <4> QED
          BY <1>0, <1>1, <2>7, <4>1, FrameIds
      <3>2. CASE call'[c] = call[c] /\ i \in DOMAIN deferred
        BY <1>0, <2>2, <2>7, <3>2, FrameIds DEF PushedOnce, Pushes, At
      <3>3. CASE call'[c] = call[c] /\ i \notin DOMAIN deferred
        <4>1. PICK d \in Callers : /\ At(d, "push") /\ call'[d].at = "pull"
                                   /\ deferred'[i].id = call[d].id
          BY <2>3, <2>7, <3>3
        <4>2. d # c
          BY <2>7, <4>1
        <4>3. call[d].id # 0 \/ FALSE
          BY <1>0, <4>1, Places DEF Lines, ImportIds
        <4> QED
          BY <3>3, <4>1, <4>2, <4>3 DEF CallersApart
      <3> QED
        BY <1>0, <2>7, <3>1, <3>2, <3>3, PushPlace
    <2>8. ASSUME NEW c \in Callers, call'[c].at = "push", NEW j \in DOMAIN exports
          PROVE  exports[j] # call'[c].id
      <3>1. CASE Allocate(c)
        <4>1. call'[c].id = nextImportId
          BY <1>0, <3>1 DEF Allocate, TypeOK
        <4> QED
          BY <1>0, <1>1, <2>8, <4>1, FrameIds
      <3>2. CASE call'[c] = call[c]
        BY <2>8, <3>2 DEF PushedOnce, At
      <3> QED
        BY <1>0, <2>8, <3>1, <3>2, PushPlace
    <2>9. \A j \in DOMAIN exports : exports[j] < nextImportId'
      BY <1>0, <1>1, FrameIds
    <2> QED
      BY <2>1, <2>4, <2>5, <2>6, <2>7, <2>8, <2>9 DEF PushedOnce, Pushes, At
  <1>4. CASE RunDeferred
    <2>0. /\ call' = call /\ nextImportId' = nextImportId
          /\ \A i \in DOMAIN deferred' :
                 i + 1 \in DOMAIN deferred /\ i + 1 # 1 /\ deferred'[i] = deferred[i + 1]
          /\ 1 \in DOMAIN deferred /\ Head(deferred) = deferred[1]
      BY <1>0, <1>4, DeferredSteps DEF RunDeferred
    <2>1. \A i \in DOMAIN deferred' : i \in Int
      BY <1>4 DEF RunDeferred, TypeOK
    <2>2. \A i \in DOMAIN deferred' : deferred'[i].id < nextImportId'
      BY <2>0 DEF PushedOnce
    <2>3. \A i, j \in Pushes' : deferred'[i].id = deferred'[j].id => i = j
      BY <2>0, <2>1 DEF PushedOnce, Pushes
    <2>4. CASE exports' = exports
      BY <2>0, <2>2, <2>3, <2>4 DEF PushedOnce, Pushes, At
    <2>5. CASE exports' # exports
      <3>1. Exported /\ 1 \in Pushes
        BY <1>0, <2>0, <2>5, ExportsSteps DEF Exported, Pushes
      <3>2. \A i, j \in DOMAIN exports' : exports'[i] = exports'[j] => i = j
        BY <1>2, <2>0, <3>1 DEF PushedOnce
      <3>3. \A i \in Pushes' : \A j \in DOMAIN exports' : deferred'[i].id # exports'[j]
        BY <1>2, <2>0, <3>1 DEF PushedOnce, Pushes
      <3>4. \A j \in DOMAIN exports' : exports'[j] < nextImportId'
        BY <1>2, <2>0, <3>1 DEF PushedOnce
      <3>5. ASSUME NEW c \in Callers, At(c, "push")
            PROVE  /\ \A i \in Pushes' : deferred'[i].id # call[c].id
                   /\ \A j \in DOMAIN exports' : exports'[j] # call[c].id
        BY <1>2, <2>0, <3>1, <3>5 DEF PushedOnce, Pushes
      <3> QED
        BY <2>0, <2>2, <2>3, <3>2, <3>3, <3>4, <3>5 DEF PushedOnce, At
    <2> QED
      BY <2>4, <2>5
  <1> QED
    BY <1>3, <1>4

-----------------------------------------------------------------------------
(* Results.                                                                *)

\* Only the loop settles calls: it stores an outcome, or fails a call it aborts.
LEMMA CellSteps ==
  ASSUME TypeOK, [Next]_vars
  PROVE  \/ cell' = cell /\ answer' = answer
         \/ Deliver
         \/ /\ answer' = answer
            /\ \A id \in ImportIds : \/ cell'[id] = cell[id]
                                     \/ cell'[id] = "failed" /\ holder[id] = NoThread
  <1>1. CASE FailNext
    BY <1>1 DEF FailNext, TypeOK
  <1>2. CASE ~ (Deliver \/ FailNext)
    BY <1>2 DEF Next, Caller, Allocate, SendPush, SendPull, Send, Lookup, Check, Wake, Erase,
                SendRelease, Loop, StartClose, Joined, RunDeferred, ReceiveFrame, TakeAnswer,
                Notify, TakeAbort, FinishAbort, LoopEnds, SocketCloses, Connect, Opens, Refuses,
                Connected, ConnectFails, vars, cells
  <1> QED
    BY <1>1, <1>2

\* What a delivery stores.
LEMMA DeliverStores ==
  ASSUME TypeOK, HandledIsThere, DeliversHead, Deliver
  PROVE  /\ loop.id \in ImportIds /\ 1 \in Replies /\ Head(inbound) = inbound[1]
         /\ inbound[1].id = loop.id /\ holder[loop.id] = NoThread
         /\ \A id \in ImportIds : id # loop.id => cell'[id] = cell[id] /\ answer'[id] = answer[id]
         /\ cell'[loop.id] = "resolved" => inbound[1].type = "resolve"
         /\ inbound[1].type = "resolve" => answer'[loop.id] = inbound[1].of
         /\ inbound[1].type # "resolve" => answer'[loop.id] = answer[loop.id]
  <1>1. inbound \in Seq(Answers) /\ inbound # <<>> /\ loop.at = "deliver"
    BY DEF TypeOK, HandledIsThere, Deliver
  <1>2. 1 \in DOMAIN inbound /\ Head(inbound) = inbound[1]
    BY <1>1
  <1>3. loop.id \in ImportIds /\ 1 \in Replies /\ inbound[1].id = loop.id
    BY <1>1, <1>2 DEF DeliversHead, Replies
  <1> QED
    BY <1>2, <1>3 DEF Deliver, TypeOK

LEMMA NextMatch ==
  ASSUME IInv, AnswersMatch, DeliversHead, [Next]_vars
  PROVE  AnswersMatch'
  <1>0. TypeOK /\ HandledIsThere
    BY DEF IInv
  <1>1. \A j \in DOMAIN exports : j \in DOMAIN exports' /\ exports'[j] = exports[j]
    BY <1>0, ExportsStay
  <1>2. ASSUME NEW i \in DOMAIN inbound', inbound'[i].type = "resolve"
        PROVE  inbound'[i].id \in DOMAIN exports' /\ inbound'[i].of = exports'[inbound'[i].id]
    <2>1. CASE i \in DOMAIN inbound /\ inbound'[i] = inbound[i]
      BY <1>1, <1>2, <2>1 DEF AnswersMatch
    <2>2. CASE i + 1 \in DOMAIN inbound /\ inbound'[i] = inbound[i + 1]
      BY <1>1, <1>2, <2>2 DEF AnswersMatch
    <2>3. CASE Answered(inbound'[i])
      <3>1. inbound'[i] \in Reply(Head(deferred).id) /\ Head(deferred).type = "pull"
        BY <1>2, <2>3 DEF Answered
      <3>2. Head(deferred).id \in ImportIds
        <4>1. Head(deferred) \in Frames
          BY <1>0, <2>3 DEF Answered, RunDeferred, TypeOK
        <4> QED
          BY <3>1, <4>1 DEF Frames, Frame
      <3>3. /\ Head(deferred).id <= Len(exports)
            /\ inbound'[i].id = Head(deferred).id /\ inbound'[i].of = exports[Head(deferred).id]
        BY <1>2, <3>1 DEF Reply
      <3>4. Head(deferred).id \in DOMAIN exports
        <4>1. exports \in Seq(ImportIds) /\ Head(deferred).id \in Int /\ Head(deferred).id >= 1
          BY <1>0, <3>2 DEF TypeOK, ImportIds
        <4> QED
          BY <3>3, <4>1
      <3> QED
        BY <1>1, <3>3, <3>4
    <2> QED
      BY <1>0, <2>1, <2>2, <2>3, InboundSteps
  <1>3. ASSUME NEW id \in ImportIds, answer'[id] # 0
        PROVE  id \in DOMAIN exports' /\ answer'[id] = exports'[id]
    <2>1. CASE answer'[id] = answer[id]
      BY <1>1, <1>3, <2>1 DEF AnswersMatch
    <2>2. CASE answer'[id] # answer[id]
      <3>1. Deliver /\ id = loop.id
        BY <1>0, <2>2, CellSteps, DeliverStores
      <3>2. 1 \in DOMAIN inbound /\ inbound[1].type = "resolve" /\ inbound[1].id = id
            /\ answer'[id] = inbound[1].of
        BY <1>0, <2>2, <3>1, DeliverStores DEF Replies
      <3> QED
        BY <1>1, <3>2 DEF AnswersMatch
    <2> QED
      BY <2>1, <2>2
  <1> QED
    BY <1>2, <1>3 DEF AnswersMatch

\* The frame in hand stays in hand until it is delivered.
LEMMA NextDelivers ==
  ASSUME IInv, DeliversHead, [Next]_vars
  PROVE  DeliversHead'
  <1>0. TypeOK
    BY DEF IInv
  <1>1. CASE TakeAnswer
    <2>1. CASE Head(inbound).id \in pending
      BY <1>0, <1>1, <2>1 DEF TakeAnswer, Handling, DeliversHead, TypeOK
    <2>2. CASE loop' = Polling
      BY <2>2 DEF Polling, DeliversHead
    <2> QED
      BY <1>1, <2>1, <2>2 DEF TakeAnswer
  <1>2. CASE loop'.at # "deliver"
    BY <1>2 DEF DeliversHead
  <1>3. CASE ~ TakeAnswer /\ loop'.at = "deliver"
    <2>1. loop' = loop /\ inbound' = inbound
      <3>1. ~ (RunDeferred \/ ReceiveFrame \/ Notify \/ FinishAbort \/ Opens \/ Refuses)
        BY <1>0, <1>3 DEF RunDeferred, ReceiveFrame, Notify, FinishAbort, Opens, Refuses,
                          Polling, TypeOK
      <3>2. ~ (Deliver \/ TakeAbort \/ FailNext \/ LoopEnds \/ SocketCloses)
        BY <1>0, <1>3 DEF Deliver, TakeAbort, FailNext, LoopEnds, SocketCloses, TypeOK
      <3> QED
        BY <1>3, <3>1, <3>2 DEF Loop, Connect, Connected, ConnectFails, Next, Caller, Allocate, SendPush, SendPull, Send, Lookup, Check, Wake, Erase,
                SendRelease, StartClose, Joined, vars, server
    <2> QED
      BY <1>3, <2>1 DEF DeliversHead
  <1> QED
    BY <1>1, <1>2, <1>3

\* A value once stored stays.
LEMMA AnswersStay ==
  ASSUME IInv, AnswersMatch, DeliversHead, [Next]_vars, NEW id \in ImportIds
  PROVE  /\ answer[id] # 0 => answer'[id] # 0
         /\ cell'[id] = "resolved" /\ cell[id] # "resolved" => answer'[id] # 0
  <1>0. TypeOK /\ HandledIsThere
    BY DEF IInv
  <1>1. ASSUME Deliver, id = loop.id, inbound[1].type = "resolve"
        PROVE  answer'[id] # 0
    <2>1. 1 \in DOMAIN inbound /\ answer'[id] = inbound[1].of
      BY <1>0, <1>1, DeliverStores DEF Replies
    <2>2. inbound[1].id \in DOMAIN exports /\ answer'[id] = exports[inbound[1].id]
      BY <1>1, <2>1 DEF AnswersMatch
    <2>3. answer'[id] \in ImportIds
      BY <1>0, <2>2 DEF TypeOK
    <2> QED
      BY <2>3 DEF ImportIds
  <1> QED
    BY <1>0, <1>1, CellSteps, DeliverStores

\* Only a sent release returns a value.
LEMMA OutcomeSteps ==
  ASSUME TypeOK, [Next]_vars, NEW id \in ImportIds, outcome'[id] = "returned"
  PROVE  \/ outcome[id] = "returned"
         \/ \E c \in Callers : At(c, "release") /\ call[c].id = id
  <1>1. ASSUME NEW c \in Callers, Caller(c), outcome[id] # "returned"
        PROVE  At(c, "release") /\ call[c].id = id
    <2>1. SendRelease(c)
      BY <1>1 DEF Caller, Allocate, SendPush, SendPull, Send, Lookup, Check, Wake, Erase,
                  Ends, TypeOK
    <2>2. id = call[c].id
      BY <1>1, <2>1 DEF SendRelease, Ends, TypeOK
    <2> QED
      BY <2>1, <2>2 DEF SendRelease
  <1>2. CASE ~ \E c \in Callers : Caller(c)
    BY <1>2, CallSteps
  <1> QED
    BY <1>1, <1>2

LEMMA NextAnswered ==
  ASSUME IInv, AnswersMatch, DeliversHead, ReturnedAreAnswered, [Next]_vars
  PROVE  ReturnedAreAnswered'
  <1>0. TypeOK /\ IdsAreFresh
    BY DEF IInv
  <1>1. ASSUME NEW id \in ImportIds, cell'[id] = "resolved" PROVE answer'[id] # 0
    BY <1>1, AnswersStay DEF ReturnedAreAnswered
  <1>2. ASSUME NEW id \in ImportIds, outcome'[id] = "returned" PROVE answer'[id] # 0
    BY <1>0, <1>2, AnswersStay, OutcomeSteps DEF ReturnedAreAnswered, At
  <1>3. ASSUME NEW d \in Callers, call'[d].at \in {"erase", "release"}
        PROVE  answer'[call'[d].id] # 0
    <2>1. CASE call'[d] = call[d]
      <3>1. call[d].id \in ImportIds
        BY <1>0, <1>3, <2>1, Places DEF Lines, At
      <3> QED
        BY <1>3, <2>1, <3>1, AnswersStay DEF ReturnedAreAnswered
    <2>2. CASE Steps(d)
      <3>1. call[d].id \in ImportIds /\ call'[d].id = call[d].id
        BY <1>0, <2>2, CallIds DEF Steps
      <3>2. CASE call'[d].at = "erase"
        BY <2>2, <3>1, <3>2, AnswersStay DEF Steps, ReturnedAreAnswered
      <3>3. CASE call'[d].at = "release"
        <4>1. call[d].at = "erase"
          BY <2>2, <3>3 DEF Steps, Erase, At
        <4> QED
          BY <3>1, <4>1, AnswersStay DEF ReturnedAreAnswered
      <3> QED
        BY <1>3, <3>2, <3>3
    <2> QED
      BY <1>0, <1>3, <2>1, <2>2, PlaceSteps DEF Resting
  <1> QED
    BY <1>1, <1>2, <1>3 DEF ReturnedAreAnswered

-----------------------------------------------------------------------------
(* Every id is answered once.                                              *)

\* A step resolves the call it delivers to, and no other.
LEMMA SettledSteps ==
  ASSUME TypeOK, HandledIsThere, DeliversHead, [Next]_vars, NEW id \in ImportIds,
         Unsettled(id), ~ Unsettled(id)'
  PROVE  Deliver /\ id = loop.id
  BY CellSteps, DeliverStores DEF Unsettled

\* The frames from the server after a step that does not add one.
LEMMA InboundShift ==
  ASSUME TypeOK, HandledIsThere, DeliversHead, [Next]_vars, ~ RunDeferred
  PROVE  \/ ~ Deliver /\ \A i \in DOMAIN inbound' : i \in DOMAIN inbound /\ inbound'[i] = inbound[i]
         \/ /\ 1 \in DOMAIN inbound
            /\ \A i \in DOMAIN inbound' :
                   i + 1 \in DOMAIN inbound /\ i + 1 # 1 /\ inbound'[i] = inbound[i + 1]
  <1>1. CASE Deliver
    <2>1. inbound \in Seq(Answers) /\ inbound # <<>> /\ inbound' = Tail(inbound)
      BY <1>1 DEF Deliver, HandledIsThere, TypeOK
    <2> QED
      BY <2>1, TailAt
  <1>2. CASE ~ Deliver
    BY <1>2, InboundSteps DEF Answered
  <1> QED
    BY <1>1, <1>2

\* The pulls deferred, the answers sent and the calls about to pull, apart from each
\* other: the part of AnsweredOnce that is about two frames.
FramesApart ==
    /\ \A i, j \in Pulls : deferred[i].id = deferred[j].id => i = j
    /\ \A i, j \in Replies : inbound[i].id = inbound[j].id => i = j
    /\ \A i \in Pulls : \A j \in Replies : deferred[i].id # inbound[j].id
    /\ \A c \in Callers : At(c, "push") \/ At(c, "pull") =>
           /\ \A i \in Pulls : deferred[i].id # call[c].id
           /\ \A j \in Replies : inbound[j].id # call[c].id

\* The frames that are still to settle a call, and the calls they are about.
LEMMA ReplyIds ==
  ASSUME TypeOK, IdsAreFresh, PushedOnce, AnsweredOnce
  PROVE  /\ FramesApart
         /\ \A i \in Pulls : deferred[i].id \in ImportIds /\ i \in Int /\ i # Len(deferred) + 1
         /\ \A j \in Replies : inbound[j].id \in Int /\ inbound[j].id < nextImportId
         /\ \A j \in DOMAIN inbound : j \in Int /\ j # Len(inbound) + 1
  <1>1. ASSUME NEW frame \in Frames, frame.type = "pull" PROVE frame.id \in ImportIds
    BY <1>1 DEF Frames, Frame
  <1>3. inbound \in Seq(Answers)
    BY DEF TypeOK
  <1>4. \A j \in DOMAIN inbound : j \in Int /\ j # Len(inbound) + 1
    BY <1>3
  <1>5. \A i \in Pulls : deferred[i].id \in ImportIds /\ i \in Int /\ i # Len(deferred) + 1
    BY <1>1, FrameIds DEF Pulls
  <1> QED
    BY <1>4, <1>5 DEF AnsweredOnce, FramesApart, ImportIds

\* A caller before its pull has been there, goes on from its push, or starts its call.
LEMMA PullPlace ==
  ASSUME TypeOK, [Next]_vars, NEW c \in Callers, call'[c].at \in {"push", "pull"}
  PROVE  \/ call'[c] = call[c]
         \/ At(c, "push") /\ call'[c].id = call[c].id
         \/ Allocate(c) /\ call'[c].id = nextImportId
  <1>1. CASE Steps(c)
    BY <1>1 DEF Steps, SendPush, Send
  <1> QED
    BY <1>1, PlaceSteps DEF Resting

\* A frame that a deferred send makes the server add answers that send's pull.
LEMMA RunReplies ==
  ASSUME TypeOK, HandledIsThere, RunDeferred, [Next]_vars
  PROVE  \A j \in DOMAIN inbound' :
             \/ j \in DOMAIN inbound /\ inbound'[j] = inbound[j]
             \/ /\ j = Len(inbound) + 1
                /\ \/ inbound'[j].type = "abort" /\ inbound'[j].id = 0
                   \/ /\ 1 \in Pulls /\ inbound'[j].id = deferred[1].id
                      /\ inbound'[j].type # "abort"
  <1>1. ~ Takes
    BY DEF RunDeferred, Takes, TakeAnswer, Deliver, TakeAbort, Handling
  <1>2. 1 \in DOMAIN deferred /\ Head(deferred) = deferred[1]
    BY DeferredSteps
  <1>3. ASSUME NEW frame \in Reply(Head(deferred).id)
        PROVE  frame.id = deferred[1].id /\ frame.type # "abort"
    BY <1>2 DEF Reply
  <1> QED
    BY <1>1, <1>2, <1>3, InboundSteps DEF Answered, Pulls

LEMMA NextFramesApart ==
  ASSUME IInv, CallersApart, PushedOnce, DeliversHead, AnsweredOnce, [Next]_vars
  PROVE  FramesApart'
  <1>0. TypeOK /\ IdsAreFresh /\ HandledIsThere
    BY DEF IInv
  <1>1. nextImportId \in Int
    BY <1>0, IdsGrow
  <1>2. CASE ~ RunDeferred
    <2>1. \A i \in DOMAIN deferred' :
              \/ i \in DOMAIN deferred /\ deferred'[i] = deferred[i]
              \/ i = Len(deferred) + 1 /\ Sent(deferred'[i]) /\ deferred'[i] \in Frames
      BY <1>0, <1>2, DeferredSteps
    <2>2. \A i \in Pulls' : \/ i \in Pulls /\ deferred'[i] = deferred[i]
                            \/ /\ i = Len(deferred) + 1
                               /\ \E c \in Callers : /\ At(c, "pull") /\ call'[c].at = "lookup"
                                                     /\ deferred'[i].id = call[c].id
      BY <1>0, <2>1, SentPull DEF Pulls
    <2>3. \E k \in {0, 1} : \A i \in DOMAIN inbound' :
              i + k \in DOMAIN inbound /\ inbound'[i] = inbound[i + k] /\ i \in Int
      <3>1. CASE \A i \in DOMAIN inbound' : i \in DOMAIN inbound /\ inbound'[i] = inbound[i]
        <4>1. \A i \in DOMAIN inbound' :
                  i + 0 \in DOMAIN inbound /\ inbound'[i] = inbound[i + 0] /\ i \in Int
          BY <1>0, <3>1, ReplyIds
        <4> QED
          BY <4>1
      <3>2. CASE \A i \in DOMAIN inbound' :
                     i + 1 \in DOMAIN inbound /\ i + 1 # 1 /\ inbound'[i] = inbound[i + 1]
        <4>1. \A i \in DOMAIN inbound' : i \in Int
          BY <1>0, NextType DEF TypeOK
        <4> QED
          BY <3>2, <4>1
      <3> QED
        BY <1>0, <1>2, <3>1, <3>2, InboundShift
    <2>4. PICK k \in {0, 1} : \A i \in DOMAIN inbound' :
              i + k \in DOMAIN inbound /\ inbound'[i] = inbound[i + k] /\ i \in Int
      BY <2>3
    <2>5. \A j \in Replies' : j + k \in Replies /\ inbound'[j] = inbound[j + k] /\ j \in Int
      BY <2>4 DEF Replies
    <2>6. \A i, j \in Pulls' : deferred'[i].id = deferred'[j].id => i = j
      BY <1>0, <2>2, ReplyIds DEF FramesApart
    <2>7. \A i, j \in Replies' : inbound'[i].id = inbound'[j].id => i = j
      BY <1>0, <2>5, ReplyIds DEF FramesApart
    <2>8. \A i \in Pulls' : \A j \in Replies' : deferred'[i].id # inbound'[j].id
      BY <1>0, <2>2, <2>5, ReplyIds DEF FramesApart
    <2>9. ASSUME NEW c \in Callers, call'[c].at \in {"push", "pull"}
          PROVE  /\ \A i \in Pulls' : deferred'[i].id # call'[c].id
                 /\ \A j \in Replies' : inbound'[j].id # call'[c].id
      <3>1. CASE Allocate(c) /\ call'[c].id = nextImportId
        <4>1. deferred' = deferred /\ inbound' = inbound
          BY <3>1 DEF Allocate, server
        <4> QED
          BY <1>0, <1>1, <3>1, <4>1, ReplyIds, FrameIds DEF Pulls, Replies
      <3>2. CASE /\ At(c, "push") \/ At(c, "pull")
                 /\ call'[c].id = call[c].id
        <4>1. \A j \in Replies' : inbound'[j].id # call'[c].id
          BY <1>0, <2>5, <3>2, ReplyIds DEF FramesApart
        <4>2. ASSUME NEW i \in Pulls' PROVE deferred'[i].id # call'[c].id
          <5>1. CASE i \in Pulls /\ deferred'[i] = deferred[i]
            BY <1>0, <3>2, <5>1, ReplyIds DEF FramesApart
          <5>2. CASE \E d \in Callers : /\ At(d, "pull") /\ call'[d].at = "lookup"
                                        /\ deferred'[i].id = call[d].id
            <6>1. PICK d \in Callers : /\ At(d, "pull") /\ call'[d].at = "lookup"
                                       /\ deferred'[i].id = call[d].id
              BY <5>2
            <6>2. d # c /\ call[d].id # 0
              BY <1>0, <2>9, <6>1, Places DEF Lines, ImportIds
            <6> QED
              BY <3>2, <6>1, <6>2 DEF CallersApart
          <5> QED
            BY <2>2, <5>1, <5>2
        <4> QED
          BY <4>1, <4>2
      <3> QED
        BY <1>0, <2>9, <3>1, <3>2, PullPlace DEF At
    <2> QED
      BY <2>6, <2>7, <2>8, <2>9 DEF FramesApart, At
  <1>3. CASE RunDeferred
    <2>1. /\ call' = call /\ 1 \in DOMAIN deferred /\ Head(deferred) = deferred[1]
          /\ \A i \in DOMAIN deferred' :
                 i + 1 \in DOMAIN deferred /\ i + 1 # 1 /\ deferred'[i] = deferred[i + 1]
      BY <1>0, <1>3, DeferredSteps DEF RunDeferred
    <2>2. \A i \in Pulls' : i + 1 \in Pulls /\ i + 1 # 1 /\ deferred'[i] = deferred[i + 1] /\ i \in Int
      <3>1. \A i \in DOMAIN deferred' : i \in Int
        BY <1>3 DEF RunDeferred, TypeOK
      <3> QED
        BY <2>1, <3>1 DEF Pulls
    <2>3. \A j \in Replies' :
              \/ j \in Replies /\ inbound'[j] = inbound[j]
              \/ j = Len(inbound) + 1 /\ 1 \in Pulls /\ inbound'[j].id = deferred[1].id
      BY <1>0, <1>3, RunReplies DEF Replies
    <2>4. \A i, j \in Pulls' : deferred'[i].id = deferred'[j].id => i = j
      BY <1>0, <2>2, ReplyIds DEF FramesApart
    <2>5. \A i, j \in Replies' : inbound'[i].id = inbound'[j].id => i = j
      BY <1>0, <2>3, ReplyIds DEF FramesApart
    <2>6. \A i \in Pulls' : \A j \in Replies' : deferred'[i].id # inbound'[j].id
      BY <1>0, <2>2, <2>3, ReplyIds DEF FramesApart
    <2>7. \A c \in Callers : At(c, "push") \/ At(c, "pull") =>
              /\ \A i \in Pulls' : deferred'[i].id # call[c].id
              /\ \A j \in Replies' : inbound'[j].id # call[c].id
      BY <1>0, <2>2, <2>3, ReplyIds DEF FramesApart
    <2> QED
      BY <2>1, <2>4, <2>5, <2>6, <2>7 DEF FramesApart, At
  <1> QED
    BY <1>2, <1>3

LEMMA NextAnsweredOnce ==
  ASSUME IInv, CallersApart, PushedOnce, DeliversHead, AnsweredOnce, [Next]_vars
  PROVE  AnsweredOnce'
  <1>0. TypeOK /\ IdsAreFresh /\ HandledIsThere
    BY DEF IInv
  <1>1. FramesApart'
    BY NextFramesApart
  <1>2. nextImportId \in Int /\ nextImportId <= nextImportId' /\ nextImportId' \in Int
    BY <1>0, IdsGrow
  <1>3. ASSUME NEW id \in ImportIds, Unsettled(id), \A j \in Replies : inbound[j].id # id
        PROVE  cell'[id] # "resolved"
    BY <1>0, <1>3, SettledSteps, DeliverStores DEF Unsettled
  <1>4. \A j \in Replies' : /\ inbound'[j].id \in ImportIds /\ inbound'[j].id < nextImportId'
                            /\ cell'[inbound'[j].id] # "resolved"
    <2>1. CASE RunDeferred
      <3>1. cell' = cell
        BY <2>1 DEF RunDeferred, cells
      <3>2. \A j \in Replies' :
              \/ j \in Replies /\ inbound'[j] = inbound[j]
              \/ 1 \in Pulls /\ inbound'[j].id = deferred[1].id
        BY <1>0, <2>1, RunReplies DEF Replies
      <3>3. \A i \in Pulls : /\ deferred[i].id \in ImportIds /\ deferred[i].id < nextImportId
                             /\ Unsettled(deferred[i].id)
        BY <1>0, ReplyIds, FrameIds DEF Pulls, AnsweredOnce
      <3> QED
        BY <1>2, <3>1, <3>2, <3>3 DEF AnsweredOnce, Unsettled, ImportIds
    <2>2. CASE ~ RunDeferred /\ ~ Deliver
      <3>1. \A j \in Replies' : \E i \in Replies : inbound'[j] = inbound[i]
        BY <1>0, <2>2, InboundShift DEF Replies
      <3>2. \A i \in Replies : cell'[inbound[i].id] # "resolved"
        BY <1>0, <2>2, SettledSteps DEF AnsweredOnce, Unsettled
      <3> QED
        BY <1>2, <3>1, <3>2 DEF AnsweredOnce, ImportIds
    <2>3. CASE Deliver
      <3>0. ~ RunDeferred
        BY <2>3 DEF RunDeferred, Deliver
      <3>1. \A j \in Replies' : \E i \in Replies : i # 1 /\ inbound'[j] = inbound[i]
        <4>1. inbound \in Seq(Answers) /\ inbound # <<>> /\ inbound' = Tail(inbound)
          BY <1>0, <2>3 DEF Deliver, HandledIsThere, TypeOK
        <4>2. \A i \in DOMAIN inbound' :
                  i + 1 \in DOMAIN inbound /\ i + 1 # 1 /\ inbound'[i] = inbound[i + 1]
          BY <4>1, TailAt
        <4> QED
          BY <4>2 DEF Replies
      <3>2. 1 \in Replies /\ inbound[1].id = loop.id
        BY <1>0, <2>3, DeliverStores
      <3>3. \A i \in Replies : i # 1 => inbound[i].id # loop.id
        BY <3>2 DEF AnsweredOnce
      <3>4. \A i \in Replies : i # 1 => cell'[inbound[i].id] # "resolved"
        BY <1>0, <3>3, SettledSteps DEF AnsweredOnce, Unsettled
      <3> QED
        BY <1>2, <3>1, <3>4 DEF AnsweredOnce, ImportIds
    <2> QED
      BY <2>1, <2>2, <2>3
  <1>5. \A i \in Pulls' : cell'[deferred'[i].id] # "resolved"
    <2>1. CASE RunDeferred
      <3>1. \A i \in Pulls' : \E k \in Pulls : deferred'[i] = deferred[k]
        BY <1>0, <2>1, DeferredSteps DEF Pulls
      <3> QED
        BY <1>0, <1>3, <3>1, ReplyIds DEF AnsweredOnce
    <2>2. CASE ~ RunDeferred
      <3>1. \A i \in Pulls' :
              \/ i \in Pulls /\ deferred'[i] = deferred[i]
              \/ \E c \in Callers : At(c, "pull") /\ deferred'[i].id = call[c].id
        BY <1>0, <2>2, DeferredSteps, SentPull DEF Pulls
      <3>2. \A c \in Callers : At(c, "pull") => cell'[call[c].id] # "resolved"
        BY <1>0, <1>3, Places DEF AnsweredOnce, Lines
      <3>3. \A i \in Pulls : cell'[deferred[i].id] # "resolved"
        BY <1>0, <1>3, ReplyIds DEF AnsweredOnce
      <3> QED
        BY <3>1, <3>2, <3>3
    <2> QED
      BY <2>1, <2>2
  <1>6. ASSUME NEW id \in ImportIds, id >= nextImportId
        PROVE  cell'[id] # "resolved"
    BY <1>0, <1>2, <1>3, <1>6, ReplyIds DEF AnsweredOnce, ImportIds
  <1>7. ASSUME NEW c \in Callers, call'[c].at \in {"push", "pull"}
        PROVE  cell'[call'[c].id] # "resolved"
    <2>1. CASE Allocate(c) /\ call'[c].id = nextImportId
      <3>1. nextImportId \in ImportIds
        BY <2>1 DEF Allocate
      <3> QED
        BY <1>2, <1>6, <2>1, <3>1
    <2>2. CASE /\ At(c, "push") \/ At(c, "pull")
               /\ call'[c].id = call[c].id
      <3>1. call[c].id \in ImportIds
        BY <1>0, <2>2, Places DEF Lines
      <3>2. cell'[call[c].id] # "resolved"
        BY <1>3, <2>2, <3>1 DEF AnsweredOnce
      <3> QED
        BY <2>2, <3>2
    <2> QED
      BY <1>0, <1>7, <2>1, <2>2, PullPlace DEF At
  <1>8. \A id \in ImportIds : id >= nextImportId' => cell'[id] # "resolved"
    BY <1>2, <1>6 DEF ImportIds
  <1> QED
    BY <1>1, <1>4, <1>5, <1>7, <1>8 DEF AnsweredOnce, FramesApart, At, Unsettled

-----------------------------------------------------------------------------
(* The mutexes.                                                            *)

\* Where the loop thread goes.
LEMMA LoopSteps ==
  ASSUME TypeOK, [Next]_vars
  PROVE  \/ loop' = loop
         \/ (Opens \/ Refuses) /\ loop'.at \in {"poll", "stopping"}
         \/ loop.at = "poll" /\ loop'.at \in {"handle", "stopping"}
         \/ TakeAnswer /\ loop'.at \in {"deliver", "poll"}
         \/ Deliver /\ loop'.at = "notify"
         \/ Notify /\ loop'.at = "poll"
         \/ TakeAbort /\ loop'.at = "abort"
         \/ FailNext /\ loop'.at = "abort"
         \/ FinishAbort /\ loop'.at = "poll"
         \/ LoopEnds /\ loop'.at = "ended"
  <1>0. /\ loop \in [at : {"connect", "poll", "handle", "deliver", "notify", "abort", "stopping",
                           "ended"},
                     id : {0} \cup ImportIds, left : SUBSET ImportIds]
        /\ Polling.at = "poll"
    BY DEF TypeOK, Polling
  <1>1. CASE RunDeferred \/ ReceiveFrame \/ SocketCloses
    <2>1. loop.at = "poll" /\ (loop' = loop \/ loop'.at \in {"handle", "stopping"})
      BY <1>0, <1>1 DEF RunDeferred, ReceiveFrame, SocketCloses
    <2> QED
      BY <2>1
  <1>2. CASE TakeAnswer
    <2>1. loop'.at \in {"deliver", "poll"}
      <3>1. CASE loop' = Polling
        BY <1>0, <3>1
      <3>2. CASE Head(inbound).id \in pending
        BY <1>0, <1>2, <3>2 DEF TakeAnswer
      <3> QED
        BY <1>2, <3>1, <3>2 DEF TakeAnswer
    <2> QED
      BY <1>2, <2>1
  <1>3. CASE Deliver
    BY <1>0, <1>3 DEF Deliver
  <1>4. CASE Notify
    BY <1>0, <1>4 DEF Notify
  <1>5. CASE TakeAbort
    BY <1>0, <1>5 DEF TakeAbort
  <1>6. CASE FailNext
    <2>1. loop'.at = "abort"
      BY <1>0, <1>6 DEF FailNext
    <2> QED
      BY <1>6, <2>1
  <1>7. CASE FinishAbort
    BY <1>0, <1>7 DEF FinishAbort
  <1>8. CASE LoopEnds
    BY <1>0, <1>8 DEF LoopEnds
  <1>9. CASE Opens \/ Refuses
    BY <1>0, <1>9 DEF Opens, Refuses
  <1>10. CASE ~ (Loop \/ SocketCloses \/ Opens \/ Refuses)
    BY <1>10 DEF Next, Caller, Allocate, SendPush, SendPull, Send, Lookup, Check, Wake, Erase,
                SendRelease, StartClose, Joined, Connect, Connected, ConnectFails, vars
  <1> QED
    BY <1>1, <1>2, <1>3, <1>4, <1>5, <1>6, <1>7, <1>8, <1>9, <1>10 DEF Loop

\* Who takes mu and gives it back.
LEMMA MuSteps ==
  ASSUME TypeOK, NoneBeforeOpen, [Next]_vars
  PROVE  \/ mu' = mu /\ (loop'.at = "abort" <=> loop.at = "abort")
                     /\ (owner' = "joining" <=> owner = "joining")
         \/ mu = NoThread /\ mu' = LoopThread /\ loop'.at = "abort" /\ owner' = owner
         \/ loop.at = "abort" /\ mu' = NoThread /\ loop'.at = "poll" /\ owner' = owner
         \/ mu = NoThread /\ mu' = Closer /\ owner' = "joining" /\ loop' = loop
         \/ owner = "joining" /\ mu' = NoThread /\ owner' = "done" /\ loop' = loop
  <1>1. ASSUME NEW c \in Callers, Caller(c)
        PROVE  mu' = mu /\ loop' = loop /\ owner' = owner
    BY <1>1 DEF Caller, Allocate, SendPush, SendPull, Send, Lookup, Check, Wake, Erase,
                SendRelease, locks
  <1>2. CASE StartClose \/ Joined
    BY <1>2 DEF StartClose, Joined
  <1>3. CASE TakeAbort
    BY <1>3 DEF TakeAbort, Handling, TypeOK
  <1>4. CASE FinishAbort
    BY <1>4 DEF FinishAbort, Polling
  <1>5. CASE FailNext
    <2>1. loop'.at = "abort" /\ loop.at = "abort" /\ mu' = mu /\ owner' = owner
      BY <1>5 DEF FailNext, locks, TypeOK
    <2> QED
      BY <2>1
  <1>6. CASE RunDeferred \/ ReceiveFrame \/ TakeAnswer \/ Notify
    <2>1. mu' = mu /\ owner' = owner /\ loop.at \in {"poll", "handle", "notify"}
      BY <1>6 DEF RunDeferred, ReceiveFrame, TakeAnswer, Notify, Handling, locks
    <2>2. loop'.at # "abort"
      <3>1. ~ TakeAbort /\ ~ FailNext
        BY <1>6 DEF RunDeferred, ReceiveFrame, TakeAnswer, Notify, TakeAbort, FailNext, Handling
      <3> QED
        BY <2>1, <3>1, LoopSteps
    <2> QED
      BY <2>1, <2>2
  <1>7. CASE Deliver \/ LoopEnds \/ SocketCloses
    BY <1>7 DEF Deliver, LoopEnds, SocketCloses, locks, TypeOK
  <1>8. CASE Connect
    <2>1. mu' = mu /\ owner # "joining" /\ owner' # "joining"
      BY <1>8 DEF Connect, Opens, Refuses, Connected, ConnectFails, NoneBeforeOpen, locks
    <2>2. \/ loop' = loop
          \/ loop.at = "connect" /\ loop'.at \in {"poll", "stopping"}
      <3>1. loop \in [at : {"connect", "poll", "handle", "deliver", "notify", "abort",
                             "stopping", "ended"},
                       id : {0} \cup ImportIds, left : SUBSET ImportIds]
        BY DEF TypeOK
      <3> QED
        BY <1>8, <3>1 DEF Connect, Opens, Refuses, Connected, ConnectFails, Polling
    <2> QED
      BY <2>1, <2>2
  <1>9. CASE UNCHANGED vars
    BY <1>9 DEF vars, locks
  <1> QED
    BY <1>1, <1>2, <1>3, <1>4, <1>5, <1>6, <1>7, <1>8, <1>9 DEF Next, Loop

\* Who takes p->m and keeps it, and who gives it back.
LEMMA HolderSteps ==
  ASSUME TypeOK, [Next]_vars, NEW id \in ImportIds, holder'[id] # NoThread
  PROVE  \/ holder'[id] = holder[id] /\ ~ \E c \in Callers : Erase(c) /\ call[c].id = id
         \/ \E c \in Callers : /\ Check(c) /\ call[c].id = id /\ holder'[id] = c
                               /\ cell[id] = "resolved" /\ Goes(c, "erase")
  <1>1. ASSUME NEW c \in Callers, Check(c)
        PROVE  \/ holder' = holder
               \/ /\ holder' = [holder EXCEPT ![call[c].id] = c]
                  /\ cell[call[c].id] = "resolved" /\ Goes(c, "erase")
    BY <1>1 DEF Check
  <1>2. ASSUME NEW c \in Callers, Erase(c)
        PROVE  holder' = [holder EXCEPT ![call[c].id] = NoThread]
    BY <1>2 DEF Erase
  <1>3. CASE ~ \E c \in Callers : Check(c) \/ Erase(c)
    <2>1. holder' = holder
      BY <1>3 DEF Next, Caller, Allocate, SendPush, SendPull, Send, Lookup, Wake, SendRelease,
                  Loop, StartClose, Joined, RunDeferred, ReceiveFrame, TakeAnswer, Deliver, Notify,
                  TakeAbort, FailNext, FinishAbort, LoopEnds, SocketCloses, Connect, Opens,
                  Refuses, Connected, ConnectFails, vars, locks
    <2> QED
      BY <1>3, <2>1
  <1> QED
    BY <1>1, <1>2, <1>3 DEF TypeOK

LEMMA NextBeforeOpen ==
  ASSUME IInv, NoneBeforeOpen, [Next]_vars
  PROVE  NoneBeforeOpen'
  <1> SUFFICES ASSUME loop'.at = "connect" PROVE owner' = "connecting" /\ nextImportId' = 1
    BY DEF NoneBeforeOpen
  <1>0. TypeOK
    BY DEF IInv
  <1>1. loop.at = "connect"
    BY <1>0, LoopSteps
  <1>2. owner = "connecting" /\ nextImportId = 1
    BY <1>1 DEF NoneBeforeOpen
  <1>3. nextImportId' = nextImportId
    BY <1>2, PendingSteps DEF Caller, Allocate, Usable
  <1>4. owner' = owner
    <2>1. ~ Opens /\ ~ Refuses
      BY <1>0 DEF Opens, Refuses, Polling, TypeOK
    <2> QED
      BY <1>2, <2>1 DEF Next, Caller, Allocate, SendPush, SendPull, Send, Lookup, Check, Wake, Erase,
                  SendRelease, StartClose, Joined, Connect, Connected, ConnectFails, vars, Loop,
                  RunDeferred, ReceiveFrame, TakeAnswer, Deliver, Notify, TakeAbort, FailNext,
                  FinishAbort, LoopEnds, SocketCloses
  <1> QED
    BY <1>2, <1>3, <1>4

LEMMA NextLocks ==
  ASSUME IInv, DeliversHead, NoneBeforeOpen, LocksAreHeld, [Next]_vars
  PROVE  LocksAreHeld'
  <1>0. TypeOK /\ HandledIsThere /\ NoThread \notin Callers \cup {LoopThread, Closer}
    BY ClientAssumption DEF IInv
  <1>1. /\ mu' = LoopThread <=> loop'.at = "abort"
        /\ mu' = Closer <=> owner' = "joining"
    BY <1>0, MuSteps DEF LocksAreHeld, LoopThread, Closer
  <1>2. ASSUME NEW id \in ImportIds, holder'[id] # NoThread
        PROVE  /\ call'[holder'[id]].at = "erase" /\ call'[holder'[id]].id = id
               /\ cell'[id] = "resolved"
    <2>1. CASE /\ holder'[id] = holder[id]
               /\ ~ \E c \in Callers : Erase(c) /\ call[c].id = id
      <3>1. /\ At(holder[id], "erase") /\ call[holder[id]].id = id /\ cell[id] = "resolved"
            /\ holder[id] \in Callers
        BY <1>0, <1>2, <2>1 DEF LocksAreHeld, TypeOK
      <3>2. ~ Caller(holder[id])
        BY <2>1, <3>1 DEF Caller, Allocate, SendPush, SendPull, Send, Lookup, Check, Wake,
                          SendRelease, At
      <3>3. call'[holder[id]] = call[holder[id]]
        BY <1>0, <3>1, <3>2, StayPut
      <3>4. cell'[id] = cell[id]
        BY <1>0, <1>2, <2>1, CellSteps, DeliverStores
      <3> QED
        BY <2>1, <3>1, <3>3, <3>4 DEF At
    <2>2. CASE \E c \in Callers : /\ Check(c) /\ call[c].id = id /\ holder'[id] = c
                                  /\ cell[id] = "resolved" /\ Goes(c, "erase")
      <3>1. PICK c \in Callers : /\ Check(c) /\ call[c].id = id /\ holder'[id] = c
                                 /\ cell[id] = "resolved" /\ Goes(c, "erase")
        BY <2>2
      <3>2. call'[c].at = "erase" /\ call'[c].id = call[c].id
        BY <1>0, <3>1, LineSteps DEF Check, At, Lines
      <3>3. cell' = cell
        BY <3>1 DEF Check, cells
      <3> QED
        BY <3>1, <3>2, <3>3
    <2> QED
      BY <1>0, <1>2, <2>1, <2>2, HolderSteps
  <1> QED
    BY <1>1, <1>2 DEF LocksAreHeld, At

-----------------------------------------------------------------------------
(* The theorems.                                                           *)

LEMMA InitResults == Init => JInv
  <1> SUFFICES ASSUME Init PROVE JInv
    OBVIOUS
  <1>1. CallersApart
    BY DEF Init, CallersApart, Resting
  <1>2. PushedOnce /\ AnswersMatch /\ ReturnedAreAnswered
    BY DEF Init, PushedOnce, AnswersMatch, ReturnedAreAnswered, Pushes, At, Resting
  <1>3. AnsweredOnce /\ DeliversHead
    BY DEF Init, AnsweredOnce, DeliversHead, Pulls, Replies, At, Resting, Unsettled
  <1>4. NoneBeforeOpen /\ LocksAreHeld
    BY ClientAssumption DEF Init, NoneBeforeOpen, LocksAreHeld, LoopThread, Closer
  <1> QED
    BY <1>1, <1>2, <1>3, <1>4 DEF JInv

LEMMA ResultInvariance == Spec => [](IInv /\ JInv)
  <1>1. IInv /\ JInv /\ [Next]_vars => JInv'
    BY NextApart, NextPushed, NextMatch, NextAnswered, NextDelivers, NextAnsweredOnce,
       NextBeforeOpen, NextLocks DEF JInv
  <1> QED
    BY InitResults, Invariance, <1>1, PTL DEF Spec

\* However the calls of several threads, their pushes and the server's answers interleave,
\* a call that returned its value got the result of the push that the server gave the call's
\* import id, and no two calls got the same result.
THEOREM ResultsMatchPushes == Spec => []ReturnedMatchPushes
  <1>1. IInv /\ JInv => ReturnedMatchPushes
    BY DEF JInv, AnswersMatch, ReturnedAreAnswered, PushedOnce, ReturnedMatchPushes, Calls
  <1> QED
    BY ResultInvariance, <1>1, PTL

\* The loop thread, with a frame in hand, waits for the client's mutex only while close()
\* joins it, and for a call's only while it aborts one that is about to return its value.
THEOREM LoopWaits == Spec => []LoopIsBlockedBy
  <1>1. IInv /\ JInv => LoopIsBlockedBy
    <2> SUFFICES ASSUME IInv, JInv PROVE LoopIsBlockedBy
      OBVIOUS
    <2>1. loop.at = "handle" /\ mu # NoThread => owner = "joining"
      BY DEF IInv, JInv, TypeOK, LocksAreHeld
    <2>2. loop.at = "deliver" => holder[loop.id] = NoThread
      <3> SUFFICES ASSUME loop.at = "deliver" PROVE holder[loop.id] = NoThread
        OBVIOUS
      <3>1. inbound \in Seq(Answers) /\ inbound # <<>>
        BY DEF IInv, TypeOK, HandledIsThere
      <3>2. 1 \in DOMAIN inbound /\ Head(inbound) = inbound[1]
        BY <3>1
      <3>3. loop.id \in ImportIds /\ 1 \in Replies /\ inbound[1].id = loop.id
        BY <3>2 DEF JInv, DeliversHead, Replies
      <3> QED
        BY <3>3 DEF JInv, AnsweredOnce, Unsettled, LocksAreHeld
    <2>3. loop.at = "abort" =>
              \A id \in loop.left : holder[id] # NoThread =>
                  At(holder[id], "erase") /\ call[holder[id]].id = id /\ cell[id] = "resolved"
      BY DEF IInv, JInv, TypeOK, LocksAreHeld
    <2> QED
      BY <2>1, <2>2, <2>3 DEF LoopIsBlockedBy
  <1> QED
    BY ResultInvariance, <1>1, PTL

-----------------------------------------------------------------------------
(* One calling thread.                                                     *)

\* The ids that were given out and not pushed yet are deferred in their order, except the
\* one its caller is about to push; so the server numbers the pushes as the caller does.
PushedInOrder ==
    /\ \A j \in DOMAIN exports : exports[j] = j
    /\ \A i, j \in Pushes : i < j => deferred[i].id < deferred[j].id
    /\ \A c \in Callers : At(c, "push") => call[c].id = nextImportId - 1
    /\ ~aborted /\ loop.at # "ended" =>
           /\ \A i \in Pushes : deferred[i].id > Len(exports)
           /\ \A id \in ImportIds : id > Len(exports) /\ id < nextImportId =>
                  \/ \E i \in Pushes : deferred[i].id = id
                  \/ \E c \in Callers : At(c, "push") /\ call[c].id = id

OneCaller == \A c, d \in Callers : c = d

\* The closures that were deferred stay, but for the first when the loop takes it.
LEMMA DeferredStay ==
  ASSUME TypeOK, [Next]_vars
  PROVE  /\ ~ RunDeferred =>
                \A i \in DOMAIN deferred : i \in DOMAIN deferred' /\ deferred'[i] = deferred[i]
         /\ RunDeferred =>
                \A i \in DOMAIN deferred : i # 1 =>
                    i - 1 \in DOMAIN deferred' /\ deferred'[i - 1] = deferred[i]
  <1>0. deferred \in Seq(Frames)
    BY DEF TypeOK
  <1>1. CASE RunDeferred
    <2>1. deferred' = Tail(deferred) /\ deferred # <<>>
      BY <1>1 DEF RunDeferred
    <2> QED
      BY <1>0, <1>1, <2>1
  <1>2. CASE ~ RunDeferred
    <2>1. deferred' = deferred \/ \E e \in Frames : deferred' = Append(deferred, e)
      BY <1>2, Appended
    <2> QED
      BY <1>0, <1>2, <2>1
  <1> QED
    BY <1>1, <1>2

\* Before the socket is open nobody is about to push, so only a loop that has ended refuses
\* a push.
LEMMA PushIsSent ==
  ASSUME IInv, NoneBeforeOpen, NEW c \in Callers, SendPush(c), loop.at # "ended"
  PROVE  deferred' = Append(deferred, Frame("push", call[c].id))
  <1>1. loop.at # "connect"
    <2>1. At(c, "push")
      BY DEF SendPush, Send
    <2>2. call[c].id \in ImportIds /\ call[c].id < nextImportId
      BY <2>1, Places DEF IInv, Lines
    <2> QED
      BY <2>2 DEF NoneBeforeOpen, ImportIds
  <1> QED
    BY <1>1 DEF SendPush, Send, Sendable

\* A server that takes a push numbers it with the push's own import id.
LEMMA ExportIsNext ==
  ASSUME IInv, JInv, OneCaller, PushedInOrder, Exported, [Next]_vars
  PROVE  1 \in Pushes /\ Head(deferred) = deferred[1] /\ deferred[1].id = Len(exports) + 1
  <1>0. TypeOK /\ IdsAreFresh /\ PushedOnce /\ ~aborted /\ loop.at # "ended"
    BY DEF IInv, JInv, Exported, RunDeferred
  <1>1. 1 \in Pushes /\ Head(deferred) = deferred[1]
    BY <1>0, DeferredSteps DEF Exported, Pushes
  <1>2. Len(exports) \in Nat /\ deferred[1].id \in Int /\ nextImportId \in Int
        /\ deferred[1].id < nextImportId /\ deferred[1].id > Len(exports)
    <2>1. Len(exports) \in Nat
      BY <1>0 DEF TypeOK
    <2> QED
      BY <1>0, <1>1, <2>1, FrameIds, IdsGrow DEF PushedInOrder, Pushes
  <1>3. CASE deferred[1].id = Len(exports) + 1
    BY <1>1, <1>3
  <1>4. CASE deferred[1].id > Len(exports) + 1
    <2>1. Len(exports) + 1 \in ImportIds
      <3>0. deferred[1] \in Frames /\ deferred[1].type = "push"
        BY <1>0, <1>1, FrameIds DEF Pushes
      <3>1. deferred[1].id \in ImportIds
        BY <3>0 DEF Frames, Frame
      <3> QED
        BY ClientAssumption, <1>2, <1>4, <3>1 DEF ImportIds
    <2>2. CASE \E i \in Pushes : deferred[i].id = Len(exports) + 1
      <3>1. PICK i \in Pushes : deferred[i].id = Len(exports) + 1
        BY <2>2
      <3>2. i \in Int /\ i # 1 /\ i >= 1
        BY <1>0, <1>2, <1>4, <3>1 DEF Pushes, TypeOK
      <3> QED
        BY <1>1, <1>2, <1>4, <3>1, <3>2 DEF PushedInOrder
    <2>3. CASE \E c \in Callers : At(c, "push") /\ call[c].id = Len(exports) + 1
      BY <1>2, <1>4, <2>3 DEF PushedInOrder
    <2> QED
      BY <1>0, <1>2, <1>4, <2>1, <2>2, <2>3 DEF PushedInOrder
  <1> QED
    BY <1>2, <1>3, <1>4

\* A loop that has ended stays there.
LEMMA EndedStays ==
  ASSUME TypeOK, [Next]_vars
  PROVE  loop.at = "ended" => loop'.at = "ended"
  <1> SUFFICES ASSUME loop.at = "ended" PROVE loop' = loop
    OBVIOUS
  <1>1. ~ Loop /\ ~ SocketCloses /\ ~ Opens /\ ~ Refuses
    BY DEF Loop, RunDeferred, ReceiveFrame, TakeAnswer, Deliver, Notify, TakeAbort, FailNext,
           FinishAbort, LoopEnds, Handling, SocketCloses, Opens, Refuses
  <1> QED
    BY <1>1 DEF Next, Caller, Allocate, SendPush, SendPull, Send, Lookup, Check, Wake, Erase,
                SendRelease, StartClose, Joined, Connect, Connected, ConnectFails, vars

\* A server that has not aborted takes the push deferred first.
LEMMA HeadPush ==
  ASSUME TypeOK, [Next]_vars, RunDeferred, ~ aborted', exports' = exports
  PROVE  1 \notin Pushes
  <1>1. 1 \in Pushes => Head(deferred).type = "push"
    BY DeferredSteps DEF Pushes
  <1>2. exports \in Seq(ImportIds) /\ exports' # Append(exports, Head(deferred).id)
    <2>1. exports \in Seq(ImportIds) /\ Head(deferred) \in Frames
      BY DEF TypeOK, RunDeferred
    <2>2. Len(Append(exports, Head(deferred).id)) = Len(exports) + 1 /\ Len(exports) \in Nat
      BY <2>1
    <2> QED
      BY <2>1, <2>2
  <1> QED
    BY <1>1, <1>2 DEF RunDeferred, ServerTakes, server, peer

\* The server's next number never passes the ids given out.
LEMMA ExportsBelow ==
  ASSUME TypeOK, IdsAreFresh, PushedOnce, PushedInOrder
  PROVE  Len(exports) \in Nat /\ Len(exports) < nextImportId
         /\ (Len(exports) > 0 => Len(exports) \in DOMAIN exports
                                 /\ exports[Len(exports)] = Len(exports))
  <1>1. Len(exports) \in Nat /\ DOMAIN exports = 1..Len(exports)
    BY DEF TypeOK
  <1>2. nextImportId \in Int /\ nextImportId > 0
    BY DEF TypeOK
  <1>3. CASE Len(exports) > 0
    <2>1. Len(exports) \in DOMAIN exports
      BY <1>1, <1>3
    <2> QED
      BY <1>1, <2>1 DEF PushedOnce, PushedInOrder
  <1> QED
    BY <1>1, <1>2, <1>3

LEMMA NextInOrder ==
  ASSUME IInv, JInv, OneCaller, PushedInOrder, [Next]_vars
  PROVE  PushedInOrder'
  <1>0. TypeOK /\ IdsAreFresh /\ PushedOnce /\ NoneBeforeOpen
    BY DEF IInv, JInv
  <1>1. Len(exports) \in Nat /\ nextImportId \in Int /\ Len(exports) < nextImportId
    BY <1>0, ExportsBelow, IdsGrow
  <1>2. loop'.at # "ended" => loop.at # "ended"
    BY <1>0, EndedStays
  <1>3. CASE RunDeferred
    <2>1. /\ call' = call /\ nextImportId' = nextImportId /\ loop.at # "ended"
          /\ aborted => aborted'
      BY <1>3 DEF RunDeferred, ServerTakes, server, peer
    <2>2. \A i \in Pushes' : i + 1 \in Pushes /\ i + 1 # 1 /\ deferred'[i] = deferred[i + 1] /\ i \in Int
      <3>1. \A i \in DOMAIN deferred' : i \in Int
        BY <1>3 DEF RunDeferred, TypeOK
      <3> QED
        BY <1>0, <1>3, <3>1, DeferredSteps DEF Pushes
    <2>3. \A i \in Pushes : i # 1 => i - 1 \in Pushes' /\ deferred'[i - 1] = deferred[i]
      BY <1>0, <1>3, DeferredStay DEF Pushes
    <2>4. \A i, j \in Pushes' : i < j => deferred'[i].id < deferred'[j].id
      BY <2>2 DEF PushedInOrder
    <2>5. CASE exports' = exports
      <3>1. ~aborted' => 1 \notin Pushes
        BY <1>0, <1>3, <2>5, HeadPush
      <3>2. ASSUME ~aborted'
            PROVE  /\ \A i \in Pushes' : deferred'[i].id > Len(exports)
                   /\ \A id \in ImportIds : id > Len(exports) /\ id < nextImportId =>
                          \/ \E i \in Pushes' : deferred'[i].id = id
                          \/ \E c \in Callers : At(c, "push") /\ call[c].id = id
        <4>1. ~aborted /\ 1 \notin Pushes
          BY <2>1, <3>1, <3>2
        <4>2. \A i \in Pushes : i - 1 \in Pushes' /\ deferred'[i - 1] = deferred[i]
          BY <2>3, <4>1
        <4>3. \A i \in Pushes' : deferred'[i].id > Len(exports)
          BY <2>1, <2>2, <4>1 DEF PushedInOrder
        <4> QED
          BY <2>1, <4>1, <4>2, <4>3 DEF PushedInOrder
      <3> QED
        BY <2>1, <2>4, <2>5, <3>2 DEF PushedInOrder, At
    <2>6. CASE exports' # exports
      <3>1. Exported /\ ~aborted
        BY <1>0, <2>6, ExportsSteps DEF Exported
      <3>2. 1 \in Pushes /\ Head(deferred) = deferred[1] /\ deferred[1].id = Len(exports) + 1
        BY <3>1, ExportIsNext
      <3>3. Len(exports') = Len(exports) + 1
            /\ \A j \in DOMAIN exports' : exports'[j] = j
        <4>1. exports' = Append(exports, Len(exports) + 1) /\ exports \in Seq(ImportIds)
          BY <1>0, <3>1, <3>2 DEF Exported, TypeOK
        <4>2. \A j \in DOMAIN exports : exports[j] = j
          BY DEF PushedInOrder
        <4> QED
          BY <4>1, <4>2
      <3>4. \A i \in Pushes' : deferred'[i].id > Len(exports')
        <4> TAKE i \in Pushes'
        <4>1. i + 1 \in Pushes /\ i + 1 > 1 /\ deferred'[i] = deferred[i + 1] /\ i + 1 \in Int
          <5>1. i + 1 \in DOMAIN deferred /\ i \in Int
            BY <2>2 DEF Pushes
          <5>2. i + 1 >= 1
            BY <1>0, <5>1 DEF TypeOK
          <5> QED
            BY <2>2, <5>1, <5>2
        <4>2. deferred[1].id < deferred[i + 1].id
          BY <3>2, <4>1 DEF PushedInOrder
        <4>3. deferred[i + 1].id \in Int
          BY <1>0, <4>1, FrameIds DEF Pushes
        <4> QED
          BY <1>1, <3>2, <3>3, <4>1, <4>2, <4>3
      <3>5. ASSUME NEW id \in ImportIds, id > Len(exports'), id < nextImportId
            PROVE  \/ \E i \in Pushes' : deferred'[i].id = id
                   \/ \E c \in Callers : At(c, "push") /\ call[c].id = id
        <4>1. id \in Int /\ id > Len(exports) /\ id # deferred[1].id
          BY <1>1, <3>2, <3>3, <3>5 DEF ImportIds
        <4>2. \/ \E i \in Pushes : deferred[i].id = id
              \/ \E c \in Callers : At(c, "push") /\ call[c].id = id
          BY <2>1, <3>1, <3>5, <4>1 DEF PushedInOrder
        <4> QED
          BY <2>3, <4>1, <4>2
      <3> QED
        BY <2>1, <2>4, <3>3, <3>4, <3>5 DEF PushedInOrder, At
    <2> QED
      BY <2>5, <2>6
  <1>4. CASE ~ RunDeferred
    <2>0. exports' = exports /\ aborted' = aborted
      <3>1. exports' = exports
        BY <1>0, <1>4, ExportsSteps DEF Exported
      <3>2. aborted' = aborted
        BY <1>4 DEF Next, Caller, Allocate, SendPush, SendPull, Send, Lookup, Check, Wake, Erase,
                    SendRelease, Loop, StartClose, Joined, ReceiveFrame, TakeAnswer, Deliver,
                    Notify, TakeAbort, FailNext, FinishAbort, LoopEnds, SocketCloses, Connect,
                    Opens, Refuses, Connected, ConnectFails, vars, server, peer
      <3> QED
        BY <3>1, <3>2
    <2>1. ASSUME NEW i \in Pushes', NEW c \in Callers, i \notin Pushes \/ deferred'[i] # deferred[i]
          PROVE  /\ i = Len(deferred) + 1 /\ deferred'[i].id = call[c].id
                 /\ At(c, "push") /\ call'[c].at = "pull"
      <3>1. i = Len(deferred) + 1 /\ Sent(deferred'[i]) /\ deferred'[i].type = "push"
        BY <1>0, <1>4, <2>1, DeferredSteps DEF Pushes
      <3>2. PICK d \in Callers : /\ At(d, "push") /\ call'[d].at = "pull"
                                 /\ deferred'[i].id = call[d].id
        BY <1>0, <3>1, SentPush
      <3>3. d = c
        BY DEF OneCaller
      <3> QED
        BY <3>1, <3>2, <3>3
    <2>2. \A i \in Pushes : i \in Pushes' /\ deferred'[i] = deferred[i]
      BY <1>0, <1>4, DeferredStay DEF Pushes
    <2>3. \A i \in Pushes : /\ i \in Int /\ i < Len(deferred) + 1 /\ deferred[i].id \in Int
                            /\ deferred[i].id < nextImportId
      <3>1. \A i \in DOMAIN deferred : i \in Int /\ i < Len(deferred) + 1
        BY <1>0 DEF TypeOK
      <3> QED
        BY <1>0, <3>1, FrameIds DEF Pushes
    <2>4. ASSUME NEW c \in Callers, At(c, "push")
          PROVE  /\ call[c].id = nextImportId - 1 /\ call[c].id > Len(exports)
                 /\ \A i \in Pushes : deferred[i].id < call[c].id
      <3>1. call[c].id = nextImportId - 1 /\ call[c].id \in ImportIds
        BY <1>0, <2>4, Places DEF PushedInOrder, Lines
      <3>2. \A i \in Pushes : deferred[i].id # call[c].id
        BY <1>0, <2>4 DEF PushedOnce
      <3>3. Len(exports) # call[c].id
        BY <1>0, <2>4, <3>1, ExportsBelow DEF PushedOnce, ImportIds
      <3> QED
        BY <1>1, <2>3, <3>1, <3>2, <3>3
    <2>5. \A i, j \in Pushes' : i < j => deferred'[i].id < deferred'[j].id
      <3> SUFFICES ASSUME NEW i \in Pushes', NEW j \in Pushes', i < j
                   PROVE  deferred'[i].id < deferred'[j].id
        OBVIOUS
      <3>1. CASE /\ i \in Pushes /\ deferred'[i] = deferred[i]
                 /\ j \in Pushes /\ deferred'[j] = deferred[j]
        BY <3>1 DEF PushedInOrder
      <3>2. CASE j \notin Pushes \/ deferred'[j] # deferred[j]
        <4>0. PICK c \in Callers : TRUE
          BY <1>0, <1>4, <3>2, DeferredSteps, SentPush DEF Pushes
        <4>1. j = Len(deferred) + 1 /\ deferred'[j].id = call[c].id /\ At(c, "push")
          BY <2>1, <3>2
        <4>2. i \in Pushes /\ deferred'[i] = deferred[i]
          <5>1. i # Len(deferred) + 1
            BY <1>0, <4>1 DEF TypeOK
          <5> QED
            BY <2>1, <5>1
        <4> QED
          BY <2>4, <4>1, <4>2
      <3>3. CASE i \notin Pushes \/ deferred'[i] # deferred[i]
        <4>0. PICK c \in Callers : TRUE
          BY <1>0, <1>4, <3>3, DeferredSteps, SentPush DEF Pushes
        <4>1. i = Len(deferred) + 1
          BY <2>1, <3>3
        <4>2. j # Len(deferred) + 1
          BY <1>0, <4>1 DEF TypeOK
        <4>3. j \in Pushes /\ j < Len(deferred) + 1
          BY <2>1, <2>3, <4>2
        <4> QED
          BY <1>0, <2>3, <4>1, <4>3 DEF TypeOK
      <3> QED
        BY <3>1, <3>2, <3>3
    <2>6. ASSUME NEW c \in Callers, call'[c].at = "push"
          PROVE  call'[c].id = nextImportId' - 1
      <3>1. CASE Allocate(c)
        BY <1>0, <1>1, <3>1 DEF Allocate, TypeOK
      <3>2. CASE ~ Allocate(c) /\ call'[c] = call[c]
        <4>1. ~ \E d \in Callers : Allocate(d)
          BY <3>2 DEF OneCaller
        <4>2. nextImportId' = nextImportId
          BY <4>1, PendingSteps DEF Caller
        <4> QED
          BY <2>6, <3>2, <4>2 DEF PushedInOrder, At
      <3> QED
        BY <1>0, <2>6, <3>1, <3>2, PushPlace
    <2>7. \A i \in Pushes' : loop.at # "ended" /\ ~ aborted => deferred'[i].id > Len(exports)
      <3> SUFFICES ASSUME NEW i \in Pushes', loop.at # "ended", ~ aborted
                   PROVE  deferred'[i].id > Len(exports)
        OBVIOUS
      <3>1. CASE i \in Pushes /\ deferred'[i] = deferred[i]
        BY <3>1 DEF PushedInOrder
      <3>2. CASE i \notin Pushes \/ deferred'[i] # deferred[i]
        <4>0. PICK c \in Callers : TRUE
          BY <1>0, <1>4, <3>2, DeferredSteps, SentPush DEF Pushes
        <4> QED
          BY <2>1, <2>4, <3>2
      <3> QED
        BY <3>1, <3>2
    <2>8. ASSUME NEW id \in ImportIds, id > Len(exports), id < nextImportId',
                 loop.at # "ended", ~ aborted
          PROVE  \/ \E i \in Pushes' : deferred'[i].id = id
                 \/ \E c \in Callers : call'[c].at = "push" /\ call'[c].id = id
      <3>1. CASE id < nextImportId /\ \E i \in Pushes : deferred[i].id = id
        BY <2>2, <3>1
      <3>2. ASSUME NEW c \in Callers, At(c, "push"), call[c].id = id
            PROVE  \/ \E i \in Pushes' : deferred'[i].id = id
                   \/ \E d \in Callers : call'[d].at = "push" /\ call'[d].id = id
        <4>1. CASE call'[c] = call[c]
          BY <3>2, <4>1 DEF At
        <4>2. CASE call'[c] # call[c]
          <5>1. SendPush(c)
            BY <1>0, <3>2, <4>2, StayPut DEF Caller, Allocate, SendPull, Send, Lookup, Check, Wake,
                                       Erase, SendRelease, At
          <5>2. deferred' = Append(deferred, Frame("push", id))
            BY <1>0, <2>8, <3>2, <5>1, PushIsSent
          <5>3. /\ Len(deferred) + 1 \in DOMAIN deferred'
                /\ deferred'[Len(deferred) + 1] = Frame("push", id)
            BY <1>0, <5>2 DEF TypeOK
          <5>4. Len(deferred) + 1 \in Pushes' /\ deferred'[Len(deferred) + 1].id = id
            BY <5>3 DEF Pushes, Frame
          <5> QED
            BY <5>4
        <4> QED
          BY <4>1, <4>2
      <3>3. CASE id >= nextImportId
        <4>1. PICK c \in Callers : Allocate(c)
          BY <1>1, <2>8, <3>3, PendingSteps DEF Caller, ImportIds
        <4>2. id = nextImportId
          BY <1>1, <2>8, <3>3, <4>1 DEF Allocate, ImportIds
        <4>3. call'[c].at = "push" /\ call'[c].id = id
          BY <1>0, <4>1, <4>2 DEF Allocate, TypeOK
        <4> QED
          BY <4>3
      <3>4. CASE id < nextImportId
        BY <2>8, <3>1, <3>2, <3>4 DEF PushedInOrder
      <3> QED
        BY <1>1, <3>3, <3>4 DEF ImportIds
    <2> QED
      BY <1>2, <2>0, <2>5, <2>6, <2>7, <2>8 DEF PushedInOrder, At
  <1> QED
    BY <1>3, <1>4

LEMMA OneCallerInvariance ==
  ASSUME OneCaller
  PROVE  Spec => []PushedInOrder
  <1>1. Init => PushedInOrder
    BY DEF Init, PushedInOrder, Pushes, At, Resting, ImportIds
  <1>2. IInv /\ JInv /\ PushedInOrder /\ [Next]_vars => PushedInOrder'
    BY NextInOrder
  <1> QED
    BY ResultInvariance, <1>1, <1>2, PTL DEF Spec

\* With one calling thread the server numbers the pushes as the client does, so a call that
\* returned its value got the result of its own method.
THEOREM OneCallerGetsOwnResults ==
  ASSUME OneCaller
  PROVE  Spec => []OwnResult
  <1>1. JInv /\ PushedInOrder => OwnResult
    BY DEF JInv, AnswersMatch, ReturnedAreAnswered, PushedInOrder, OwnResult
  <1> QED
    BY ResultInvariance, OneCallerInvariance, <1>1, PTL
=============================================================================
