-------------------------- MODULE WsClientProofs --------------------------
(***************************************************************************)
(* Theorems about WsClient, for every set of calling threads and every     *)
(* bound on the calls they make.                                           *)
(***************************************************************************)
EXTENDS WsClient, TLAPS

-----------------------------------------------------------------------------
(* The inductive invariant.                                                *)

\* Import ids that were not given out are used by nobody.
IdsAreFresh ==
    /\ \A id \in pending : id < nextImportId
    /\ \A c \in Callers : call[c].id < nextImportId
    /\ \A id \in ImportIds : id >= nextImportId => outcome[id] = "none"

\* A call about to return its value has taken its entry out of the map.
ReleasedAreErased == \A c \in Callers : At(c, "release") => call[c].id \notin pending

\* The frame being handled has not been taken off the socket yet.
HandledIsThere == loop.at \in {"handle", "deliver"} => inbound # <<>>

\* A thread that sleeps stands in cv.wait.
SleepersWait == \A c \in asleep : At(c, "wait")

IInv == TypeOK /\ HandledIsThere /\ IdsAreFresh /\ ReleasedAreErased /\ OnlyFailuresAreLeft
        /\ SleepersWait /\ SleepersAreNotified

-----------------------------------------------------------------------------

\* The initial states satisfy the invariant.
LEMMA InitInv == Init => IInv
  <1> SUFFICES ASSUME Init PROVE IInv
    OBVIOUS
  <1>1. TypeOK
    <2>1. nextImportId \in 1..(MaxCalls + 1)
      BY ClientAssumption DEF Init
    <2>2. /\ deferred \in Seq(Frames) /\ exports \in Seq(ImportIds)
          /\ inbound \in Seq(Answers)
      BY DEF Init
    <2>3. loop \in [at : {"connect", "poll", "handle", "deliver", "notify", "abort", "stopping",
                          "ended"},
                    id : {0} \cup ImportIds, left : SUBSET ImportIds]
      BY DEF Init, Polling
    <2>4. call \in [Callers -> {Resting} \cup [at : Lines, id : ImportIds]]
      BY DEF Init
    <2> QED
      BY <2>1, <2>2, <2>3, <2>4 DEF Init, TypeOK
  <1>2. IdsAreFresh /\ ReleasedAreErased /\ OnlyFailuresAreLeft
    BY DEF Init, IdsAreFresh, ReleasedAreErased, OnlyFailuresAreLeft, At, Resting
  <1>3. SleepersWait /\ SleepersAreNotified /\ HandledIsThere
    BY DEF Init, SleepersWait, SleepersAreNotified, HandledIsThere, Polling
  <1> QED
    BY <1>1, <1>2, <1>3 DEF IInv

\* A thread inside a call uses an import id.
LEMMA CallIds ==
  ASSUME TypeOK, NEW c \in Callers, call[c].at # "ready"
  PROVE  call[c] \in [at : Lines, id : ImportIds]
  BY DEF TypeOK, Resting

-----------------------------------------------------------------------------
(* A calling thread's steps keep the state well typed.                     *)

LEMMA AllocateType ==
  ASSUME TypeOK, NEW c \in Callers, Allocate(c)
  PROVE  TypeOK'
  <1>1. nextImportId \in ImportIds /\ nextImportId' \in 1..(MaxCalls + 1)
    BY ClientAssumption DEF TypeOK, Allocate, ImportIds
  <1>2. call' \in [Callers -> {Resting} \cup [at : Lines, id : ImportIds]]
    BY <1>1 DEF TypeOK, Allocate, Lines
  <1>3. pending' \subseteq ImportIds
    BY <1>1 DEF TypeOK, Allocate
  <1> QED
    BY <1>1, <1>2, <1>3 DEF TypeOK, Allocate, locks, cells, server, peer

\* Going to the next line, or leaving the call, keeps the callers' places and the
\* outcomes well typed.
LEMMA GoesType ==
  ASSUME TypeOK, NEW c \in Callers, call[c].at # "ready", NEW line \in Lines, Goes(c, line)
  PROVE  call' \in [Callers -> {Resting} \cup [at : Lines, id : ImportIds]]
  <1>1. [call[c] EXCEPT !.at = line] \in [at : Lines, id : ImportIds]
    BY CallIds
  <1> QED
    BY <1>1 DEF TypeOK, Goes

LEMMA EndsType ==
  ASSUME TypeOK, NEW c \in Callers, call[c].at # "ready",
         NEW how \in {"returned", "rejected", "unsent"}, Ends(c, how)
  PROVE  /\ call' \in [Callers -> {Resting} \cup [at : Lines, id : ImportIds]]
         /\ outcome' \in [ImportIds -> {"none", "returned", "rejected", "unsent"}]
  BY DEF TypeOK, Ends

LEMMA SendType ==
  ASSUME TypeOK, NEW c \in Callers, NEW line \in Lines, NEW next \in Lines,
         NEW frame \in Frames, Send(c, line, frame, next)
  PROVE  TypeOK'
  <1>1. call[c].at # "ready"
    BY DEF Send, At, Lines
  <1>2. CASE Sendable
    <2>0. deferred' = Append(deferred, frame)
      BY <1>2 DEF Send
    <2>1. deferred' \in Seq(Frames)
      BY <2>0 DEF TypeOK
    <2>2. call' \in [Callers -> {Resting} \cup [at : Lines, id : ImportIds]]
      BY <1>1, <1>2, GoesType DEF Send
    <2> QED
      BY <1>2, <2>1, <2>2 DEF TypeOK, Send, locks, cells, server, peer
  <1>3. CASE ~Sendable
    BY <1>1, <1>3, EndsType DEF TypeOK, Send, locks, cells, server, peer
  <1> QED
    BY <1>2, <1>3

LEMMA LookupType ==
  ASSUME TypeOK, NEW c \in Callers, Lookup(c)
  PROVE  TypeOK'
  <1>1. call[c].at # "ready" /\ "check" \in Lines
    BY DEF Lookup, At, Lines
  <1>2. CASE call[c].id \in pending
    BY <1>1, <1>2, GoesType DEF TypeOK, Lookup, locks, cells, server, peer
  <1>3. CASE call[c].id \notin pending
    BY <1>1, <1>3, EndsType DEF TypeOK, Lookup, locks, cells, server, peer
  <1> QED
    BY <1>2, <1>3

LEMMA CheckType ==
  ASSUME TypeOK, NEW c \in Callers, Check(c)
  PROVE  TypeOK'
  <1>1. call[c].at # "ready" /\ "wait" \in Lines /\ "erase" \in Lines
    BY DEF Check, At, Lines
  <1>2. CASE cell[call[c].id] = "open" /\ asleep' = asleep \cup {c} /\ Goes(c, "wait")
             /\ UNCHANGED <<holder, outcome>>
    BY <1>1, <1>2, GoesType DEF TypeOK, Check, cells, server, peer
  <1>3. CASE Ends(c, "rejected") /\ UNCHANGED <<holder, asleep>>
    BY <1>1, <1>3, EndsType DEF TypeOK, Check, cells, server, peer
  <1>4. CASE holder' = [holder EXCEPT ![call[c].id] = c] /\ Goes(c, "erase")
             /\ UNCHANGED <<outcome, asleep>>
    BY <1>1, <1>4, GoesType DEF TypeOK, Check, cells, server, peer
  <1> QED
    BY <1>2, <1>3, <1>4 DEF Check

LEMMA CallerType ==
  ASSUME TypeOK, NEW c \in Callers, Caller(c)
  PROVE  TypeOK'
  <1>1. CASE Allocate(c)
    BY <1>1, AllocateType
  <1>2. CASE SendPush(c)
    <2>1. Frame("push", call[c].id) \in Frames
      BY <1>2, CallIds DEF SendPush, Send, At, Frame, Frames
    <2> QED
      BY <1>2, <2>1, SendType DEF SendPush, Lines
  <1>3. CASE SendPull(c)
    <2>1. Frame("pull", call[c].id) \in Frames
      BY <1>3, CallIds DEF SendPull, Send, At, Frame, Frames
    <2> QED
      BY <1>3, <2>1, SendType DEF SendPull, Lines
  <1>4. CASE Lookup(c)
    BY <1>4, LookupType
  <1>5. CASE Check(c)
    BY <1>5, CheckType
  <1>6. CASE Wake(c)
    BY <1>6, GoesType DEF TypeOK, Wake, At, Lines, locks, cells, server, peer
  <1>7. CASE Erase(c)
    BY <1>7, GoesType DEF TypeOK, Erase, At, Lines, cells, server, peer
  <1>8. CASE SendRelease(c)
    <2>1. Frame("release", call[c].id) \in Frames /\ call[c].at # "ready"
      BY <1>8, CallIds DEF SendRelease, At, Frame, Frames
    <2>2. deferred' \in Seq(Frames)
      BY <1>8, <2>1 DEF TypeOK, SendRelease
    <2> QED
      BY <1>8, <2>1, <2>2, EndsType DEF TypeOK, SendRelease, locks, cells, server, peer
  <1> QED
    BY <1>1, <1>2, <1>3, <1>4, <1>5, <1>6, <1>7, <1>8 DEF Caller

-----------------------------------------------------------------------------
(* The other threads' steps keep the state well typed.                     *)

LEMMA ServerType ==
  ASSUME TypeOK, NEW frame \in Frames, ServerTakes(frame)
  PROVE  exports' \in Seq(ImportIds) /\ inbound' \in Seq(Answers) /\ aborted' \in BOOLEAN
  <1>1. CASE frame.type = "push" /\ exports' = Append(exports, frame.id)
             /\ UNCHANGED <<aborted, inbound>>
    <2>1. frame.id \in ImportIds
      BY <1>1 DEF Frames, Frame
    <2> QED
      BY <1>1, <2>1 DEF TypeOK
  <1>2. CASE frame.type = "pull" /\ UNCHANGED peer
             /\ \E reply \in Reply(frame.id) : inbound' = Append(inbound, reply)
    <2>1. frame.id \in ImportIds /\ frame.id \in Int
      BY <1>2 DEF Frames, Frame, ImportIds
    <2>2. Reply(frame.id) \subseteq Answers
      <3>1. CASE frame.id <= Len(exports)
        <4>0. frame.id \in 1..Len(exports)
          BY <2>1, <3>1 DEF TypeOK, ImportIds
        <4>1. exports[frame.id] \in ImportIds
          BY <4>0 DEF TypeOK
        <4> QED
          BY <2>1, <3>1, <4>1 DEF Reply, Answers
      <3>2. CASE ~(frame.id <= Len(exports))
        BY <2>1, <3>2 DEF Reply, Answers
      <3> QED
        BY <3>1, <3>2
    <2> QED
      BY <1>2, <2>2 DEF TypeOK, peer
  <1>3. CASE UNCHANGED server
    BY <1>3 DEF TypeOK, server, peer
  <1>4. CASE /\ aborted' = TRUE /\ UNCHANGED exports
             /\ inbound' = Append(inbound, [type |-> "abort", id |-> 0, of |-> 0])
    <2>1. [type |-> "abort", id |-> 0, of |-> 0] \in Answers
      BY DEF Answers
    <2> QED
      BY <1>4, <2>1 DEF TypeOK
  <1> QED
    BY <1>1, <1>2, <1>3, <1>4 DEF ServerTakes

\* The frame the loop is handling.
LEMMA HeadType ==
  ASSUME TypeOK, inbound # <<>>
  PROVE  Head(inbound) \in Answers /\ Tail(inbound) \in Seq(Answers)
  BY DEF TypeOK

LEMMA LoopType ==
  ASSUME TypeOK, HandledIsThere, Loop \/ SocketCloses
  PROVE  TypeOK'
  <1>0. Polling \in [at : {"connect", "poll", "handle", "deliver", "notify", "abort", "stopping",
                           "ended"},
                     id : {0} \cup ImportIds, left : SUBSET ImportIds]
    BY DEF Polling
  <1>1. CASE RunDeferred
    <2>1. Head(deferred) \in Frames /\ deferred' \in Seq(Frames)
      BY <1>1 DEF TypeOK, RunDeferred
    <2>2. CASE loop' = [loop EXCEPT !.at = "stopping"] /\ UNCHANGED server
      BY <1>1, <2>1, <2>2 DEF TypeOK, RunDeferred, locks, cells, server, peer
    <2>3. CASE ServerTakes(Head(deferred)) /\ UNCHANGED loop
      <3>1. exports' \in Seq(ImportIds) /\ inbound' \in Seq(Answers) /\ aborted' \in BOOLEAN
        BY <2>1, <2>3, ServerType
      <3> QED
        BY <1>1, <2>1, <2>3, <3>1 DEF TypeOK, RunDeferred, locks, cells
    <2> QED
      BY <1>1, <2>2, <2>3 DEF RunDeferred
  <1>2. CASE ReceiveFrame
    BY <1>2 DEF TypeOK, ReceiveFrame, locks, cells, server, peer
  <1>3. CASE TakeAnswer
    <2>1. CASE Head(inbound).id \in pending
      BY <1>3, <2>1 DEF TypeOK, TakeAnswer, locks, cells, peer
    <2>2. CASE inbound' = Tail(inbound) /\ loop' = Polling
      <3>1. inbound' \in Seq(Answers)
        BY <1>3, <2>2, HeadType DEF TakeAnswer, Handling, HandledIsThere
      <3> QED
        BY <1>0, <1>3, <2>2, <3>1 DEF TypeOK, TakeAnswer, locks, cells, peer
    <2> QED
      BY <1>3, <2>1, <2>2 DEF TakeAnswer
  <1>4. CASE Deliver
    <2>1. Head(inbound) \in Answers /\ inbound' \in Seq(Answers)
      BY <1>4, HeadType DEF Deliver, HandledIsThere
    <2>2. /\ cell' \in [ImportIds -> {"open", "resolved", "failed"}]
          /\ answer' \in [ImportIds -> {0} \cup ImportIds]
      BY <1>4, <2>1 DEF TypeOK, Deliver, Answers
    <2> QED
      BY <1>4, <2>1, <2>2 DEF TypeOK, Deliver, locks, peer
  <1>5. CASE Notify
    BY <1>0, <1>5 DEF TypeOK, Notify, locks, cells, server, peer
  <1>6. CASE TakeAbort
    <2>1. inbound' \in Seq(Answers)
      BY <1>6, HeadType DEF TakeAbort, Handling, HandledIsThere
    <2> QED
      BY <1>6, <2>1 DEF TypeOK, TakeAbort, cells, peer
  <1>7. CASE FailNext
    <2>1. PICK id \in loop.left :
               /\ cell' = [cell EXCEPT ![id] = "failed"]
               /\ asleep' = asleep \ Sleepers(id)
               /\ loop' = [loop EXCEPT !.left = @ \ {id}]
      BY <1>7 DEF FailNext
    <2>2. loop' \in [at : {"connect", "poll", "handle", "deliver", "notify", "abort", "stopping",
                           "ended"},
                     id : {0} \cup ImportIds, left : SUBSET ImportIds]
      <3>1. loop.left \ {id} \in SUBSET ImportIds
        BY DEF TypeOK
      <3> QED
        BY <2>1, <3>1 DEF TypeOK
    <2>3. /\ cell' \in [ImportIds -> {"open", "resolved", "failed"}]
          /\ asleep' \subseteq Callers
      BY <2>1 DEF TypeOK
    <2> QED
      BY <1>7, <2>2, <2>3 DEF TypeOK, FailNext, locks, server, peer
  <1>8. CASE FinishAbort
    BY <1>0, <1>8 DEF TypeOK, FinishAbort, cells, server, peer
  <1>9. CASE LoopEnds \/ SocketCloses
    BY <1>9 DEF TypeOK, LoopEnds, SocketCloses, locks, cells, server, peer
  <1> QED
    BY <1>1, <1>2, <1>3, <1>4, <1>5, <1>6, <1>7, <1>8, <1>9 DEF Loop

LEMMA CloserType ==
  ASSUME TypeOK, StartClose \/ Joined
  PROVE  TypeOK'
  <1>1. CASE StartClose
    <2>1. Frame("stop", 0) \in Frames
      BY DEF Frames
    <2>2. deferred' \in Seq(Frames)
      BY <1>1, <2>1 DEF TypeOK, StartClose
    <2> QED
      BY <1>1, <2>2 DEF TypeOK, StartClose, cells, server, peer
  <1>2. CASE Joined
    BY <1>2 DEF TypeOK, Joined, cells, server, peer
  <1> QED
    BY <1>1, <1>2

LEMMA ConnectType ==
  ASSUME TypeOK, Connect
  PROVE  TypeOK'
  <1>1. CASE Opens
    <2>1. loop' \in [at : {"connect", "poll", "handle", "deliver", "notify", "abort", "stopping",
                           "ended"},
                     id : {0} \cup ImportIds, left : SUBSET ImportIds]
      BY <1>1 DEF Opens, Polling
    <2> QED
      BY <1>1, <2>1 DEF TypeOK, Opens, locks, cells, server, peer
  <1>2. CASE Refuses
    BY <1>2 DEF TypeOK, Refuses, locks, cells, server, peer
  <1>3. CASE Connected
    BY <1>3 DEF TypeOK, Connected, locks, cells, server, peer
  <1>4. CASE ConnectFails
    BY <1>4 DEF TypeOK, ConnectFails, locks, cells, server, peer
  <1> QED
    BY <1>1, <1>2, <1>3, <1>4 DEF Connect

LEMMA NextType ==
  ASSUME IInv, [Next]_vars
  PROVE  TypeOK'
  <1>1. CASE Next
    BY <1>1, CallerType, LoopType, CloserType, ConnectType DEF IInv, Next
  <1>2. CASE UNCHANGED vars
    BY <1>2 DEF IInv, TypeOK, vars, locks, cells, server, peer
  <1> QED
    BY <1>1, <1>2

-----------------------------------------------------------------------------
(* The frame in hand.                                                      *)

LEMMA NextHandled ==
  ASSUME IInv, [Next]_vars
  PROVE  HandledIsThere'
  <1> USE DEF IInv, HandledIsThere
  <1>1. ASSUME NEW c \in Callers, Caller(c) PROVE HandledIsThere'
    BY <1>1 DEF Caller, Allocate, SendPush, SendPull, Send, Lookup, Check, Wake, Erase,
                SendRelease, server, peer
  <1>2. CASE StartClose \/ Joined
    BY <1>2 DEF StartClose, Joined, server, peer
  <1>3. CASE RunDeferred
    BY <1>3 DEF RunDeferred, TypeOK
  <1>4. CASE ReceiveFrame
    BY <1>4 DEF ReceiveFrame, server, peer
  <1>5. CASE TakeAnswer
    BY <1>5 DEF TakeAnswer, Handling, Polling, TypeOK
  <1>6. CASE Deliver \/ Notify \/ TakeAbort \/ FinishAbort \/ LoopEnds \/ SocketCloses
    <2>1. CASE Deliver
      BY <2>1 DEF Deliver, TypeOK
    <2>2. CASE Notify \/ FinishAbort
      BY <2>2 DEF Notify, FinishAbort, Polling
    <2>3. CASE TakeAbort
      BY <2>3 DEF TakeAbort, TypeOK
    <2>4. CASE LoopEnds \/ SocketCloses
      BY <2>4 DEF LoopEnds, SocketCloses, TypeOK
    <2> QED
      BY <1>6, <2>1, <2>2, <2>3, <2>4
  <1>7. CASE FailNext
    <2>1. loop'.at = "abort"
      BY <1>7 DEF FailNext, TypeOK
    <2> QED
      BY <2>1
  <1>8. CASE Connect
    BY <1>8 DEF Connect, Opens, Refuses, Connected, ConnectFails, Polling, TypeOK, server, peer
  <1>9. CASE UNCHANGED vars
    BY <1>9 DEF vars, server, peer
  <1> QED
    BY <1>1, <1>2, <1>3, <1>4, <1>5, <1>6, <1>7, <1>8, <1>9 DEF Next, Loop

-----------------------------------------------------------------------------
(* What the steps do to the parts of the state the invariants are about.   *)

\* No step but Allocate gives out an id, and no step but it adds an entry.
LEMMA PendingSteps ==
  ASSUME [Next]_vars, ~ \E c \in Callers : Allocate(c)
  PROVE  nextImportId' = nextImportId /\ pending' \subseteq pending
  BY DEF Next, Caller, SendPush, SendPull, Send, Lookup, Check, Wake, Erase, SendRelease, Loop,
         StartClose, Joined, RunDeferred, ReceiveFrame, TakeAnswer, Deliver, Notify, TakeAbort,
         FailNext, FinishAbort, LoopEnds, SocketCloses, Connect,
         Opens, Refuses, Connected, ConnectFails, vars

\* Only a caller moves a caller.
LEMMA CallSteps ==
  ASSUME [Next]_vars, ~ \E c \in Callers : Caller(c)
  PROVE  call' = call /\ outcome' = outcome
  BY DEF Next, Loop,
         StartClose, Joined, RunDeferred, ReceiveFrame, TakeAnswer, Deliver, Notify, TakeAbort,
         FailNext, FinishAbort, LoopEnds, SocketCloses, Connect,
         Opens, Refuses, Connected, ConnectFails, vars

\* A caller's step after its allocation: to the next line, or out of the call.
Moves(c) ==
    \/ \E line \in Lines : Goes(c, line) /\ outcome' = outcome
    \/ \E how \in {"returned", "rejected", "unsent"} : Ends(c, how)

LEMMA CallerMoves ==
  ASSUME NEW c \in Callers, Caller(c), ~ Allocate(c)
  PROVE  Moves(c) /\ call[c].at # "ready"
  <1>1. call[c].at # "ready"
    BY DEF Caller, SendPush, SendPull, Send, Lookup, Check, Wake, Erase, SendRelease, At
  <1>2. Moves(c)
    BY DEF Caller, SendPush, SendPull, Send, Lookup, Check, Wake, Erase, SendRelease, Moves, Lines
  <1> QED
    BY <1>1, <1>2

\* Another caller stays where it was.
LEMMA OthersStay ==
  ASSUME TypeOK, NEW c \in Callers, Allocate(c) \/ Moves(c), NEW d \in Callers, d # c
  PROVE  call'[d] = call[d]
  BY DEF TypeOK, Allocate, Moves, Goes, Ends

\* A caller that moves on keeps its id; one that leaves its call has none.
LEMMA MovedIds ==
  ASSUME TypeOK, NEW c \in Callers, Moves(c)
  PROVE  call'[c].id \in {call[c].id, 0}
  BY DEF TypeOK, Moves, Goes, Ends, Resting

-----------------------------------------------------------------------------
(* Fresh ids, and the entries of calls that have ended.                    *)

LEMMA NextFresh ==
  ASSUME IInv, [Next]_vars
  PROVE  IdsAreFresh'
  <1> USE DEF IInv
  <1>0. nextImportId \in Nat /\ nextImportId >= 1
    BY DEF TypeOK
  <1>1. ASSUME NEW c \in Callers, Allocate(c) PROVE IdsAreFresh'
    <2>1. nextImportId' = nextImportId + 1 /\ outcome' = outcome
          /\ pending' = pending \cup {nextImportId}
          /\ call' = [call EXCEPT ![c] = [at |-> "push", id |-> nextImportId]]
      BY <1>1 DEF Allocate
    <2>2. \A id \in pending' : id < nextImportId'
      BY <1>0, <2>1 DEF IdsAreFresh, TypeOK, ImportIds
    <2>3. \A d \in Callers : call'[d].id < nextImportId'
      <3> TAKE d \in Callers
      <3>1. CASE d = c
        BY <1>0, <2>1, <3>1 DEF TypeOK
      <3>2. CASE d # c
        <4>1. call'[d] = call[d]
          BY <1>1, <3>2, OthersStay
        <4>2. call[d].id \in Int /\ call[d].id < nextImportId
          BY DEF TypeOK, IdsAreFresh, Resting, ImportIds
        <4> QED
          BY <1>0, <2>1, <4>1, <4>2
      <3> QED
        BY <3>1, <3>2
    <2>4. \A id \in ImportIds : id >= nextImportId' => outcome'[id] = "none"
      BY <1>0, <2>1 DEF IdsAreFresh, ImportIds
    <2> QED
      BY <2>2, <2>3, <2>4 DEF IdsAreFresh
  <1>2. ASSUME NEW c \in Callers, Caller(c), ~ \E d \in Callers : Allocate(d)
        PROVE  IdsAreFresh'
    <2>0. Moves(c) /\ call[c].at # "ready"
      BY <1>2, CallerMoves
    <2>1. nextImportId' = nextImportId /\ pending' \subseteq pending
      BY <1>2, PendingSteps
    <2>2. \A d \in Callers : call'[d].id < nextImportId'
      <3> TAKE d \in Callers
      <3>1. CASE d = c
        BY <1>0, <2>0, <2>1, <3>1, MovedIds DEF IdsAreFresh
      <3>2. CASE d # c
        BY <2>0, <2>1, <3>2, OthersStay DEF IdsAreFresh
      <3> QED
        BY <3>1, <3>2
    <2>3. \A id \in ImportIds : id >= nextImportId' => outcome'[id] = "none"
      <3> TAKE id \in ImportIds
      <3>1. CASE id # call[c].id
        BY <2>0, <2>1, <3>1 DEF Moves, Ends, TypeOK, IdsAreFresh
      <3>2. CASE id = call[c].id
        BY <1>0, <2>1, <3>2 DEF IdsAreFresh, ImportIds
      <3> QED
        BY <3>1, <3>2
    <2> QED
      BY <2>1, <2>2, <2>3 DEF IdsAreFresh
  <1>3. CASE ~ \E c \in Callers : Caller(c)
    <2>1. call' = call /\ outcome' = outcome
      BY <1>3, CallSteps
    <2>2. nextImportId' = nextImportId /\ pending' \subseteq pending
      BY <1>3, PendingSteps DEF Caller
    <2> QED
      BY <2>1, <2>2 DEF IdsAreFresh
  <1> QED
    BY <1>1, <1>2, <1>3

LEMMA NextErased ==
  ASSUME IInv, [Next]_vars
  PROVE  ReleasedAreErased'
  <1> USE DEF IInv
  <1> SUFFICES ASSUME NEW d \in Callers, call'[d].at = "release"
               PROVE  call'[d].id \notin pending'
    BY DEF ReleasedAreErased, At
  <1>1. ASSUME NEW c \in Callers, Allocate(c) PROVE call'[d].id \notin pending'
    <2>1. d # c
      BY <1>1 DEF Allocate, TypeOK
    <2>2. call'[d] = call[d]
      BY <1>1, <2>1, OthersStay
    <2>3. call[d].id \in Int /\ call[d].id < nextImportId /\ nextImportId \in Nat
      BY DEF TypeOK, IdsAreFresh, Resting, ImportIds
    <2> QED
      BY <1>1, <2>2, <2>3 DEF Allocate, ReleasedAreErased, At
  <1>2. CASE call'[d] = call[d] /\ pending' \subseteq pending
    BY <1>2 DEF ReleasedAreErased, At
  <1>3. ASSUME NEW c \in Callers, Caller(c), ~ \E e \in Callers : Allocate(e)
        PROVE  call'[d].id \notin pending'
    <2>1. Moves(c) /\ pending' \subseteq pending
      BY <1>3, CallerMoves, PendingSteps
    <2>2. CASE d # c
      BY <1>2, <2>1, <2>2, OthersStay
    <2>3. CASE d = c
      <3>1. Erase(c)
        BY <1>3, <2>3 DEF Caller, SendPush, SendPull, Send, Lookup, Check, Wake, SendRelease,
                          Goes, Ends, Resting, TypeOK
      <3>2. call'[c].id = call[c].id /\ pending' = pending \ {call[c].id}
        BY <3>1 DEF Erase, Goes, TypeOK
      <3> QED
        BY <2>3, <3>2
    <2> QED
      BY <2>2, <2>3
  <1>4. CASE ~ \E c \in Callers : Caller(c)
    BY <1>2, <1>4, CallSteps, PendingSteps DEF Caller
  <1> QED
    BY <1>1, <1>3, <1>4

\* An error, once stored, stays.
LEMMA FailuresStay ==
  ASSUME TypeOK, [Next]_vars, NEW id \in ImportIds, cell[id] = "failed"
  PROVE  cell'[id] = "failed"
  BY DEF TypeOK, Next, Caller, Allocate, SendPush, SendPull, Send, Lookup, Check, Wake, Erase,
         SendRelease, Loop, StartClose, Joined, RunDeferred, ReceiveFrame, TakeAnswer, Deliver,
         Notify, TakeAbort, FailNext, FinishAbort, LoopEnds, SocketCloses, Connect,
         Opens, Refuses, Connected, ConnectFails, vars, cells

\* A call leaves its entry behind only if it could not send or found its rejection.
LEMMA EndsLeave ==
  ASSUME IInv, NEW c \in Callers, Caller(c), ~Allocate(c), NEW id \in ImportIds, id \in pending',
         call[c].id = id
  PROVE  \/ outcome'[id] = outcome[id] /\ call'[c].id = id
         \/ outcome'[id] = "unsent"
         \/ outcome'[id] = "rejected" /\ cell[id] = "failed"
  <1>0. outcome \in [ImportIds -> {"none", "returned", "rejected", "unsent"}] /\ c \in DOMAIN call
    BY DEF IInv, TypeOK
  <1>1. ASSUME NEW how, Ends(c, how) PROVE outcome'[id] = how
    BY <1>0, <1>1 DEF Ends
  <1>2. ASSUME NEW line, Goes(c, line), outcome' = outcome
        PROVE  outcome'[id] = outcome[id] /\ call'[c].id = id
    <2>1. call'[c].id = call[c].id
      <3>1. call[c] \in [at : Lines, id : ImportIds]
        BY CallerMoves, CallIds DEF IInv
      <3>2. call'[c] = [call[c] EXCEPT !.at = line]
        BY <1>0, <1>2 DEF Goes
      <3> QED
        BY <3>1, <3>2
    <2> QED
      BY <1>2, <2>1
  <1>3. CASE SendPush(c) \/ SendPull(c)
    BY <1>1, <1>2, <1>3 DEF SendPush, SendPull, Send
  <1>4. CASE Lookup(c)
    BY <1>2, <1>4 DEF Lookup
  <1>5. CASE Check(c)
    BY <1>1, <1>2, <1>5 DEF Check
  <1>6. CASE Wake(c)
    BY <1>2, <1>6 DEF Wake
  <1>7. ~Erase(c)
    BY DEF Erase
  <1>8. ~SendRelease(c)
    BY DEF SendRelease, IInv, ReleasedAreErased
  <1> QED
    BY <1>3, <1>4, <1>5, <1>6, <1>7, <1>8 DEF Caller

LEMMA NextLeft ==
  ASSUME IInv, [Next]_vars
  PROVE  OnlyFailuresAreLeft'
  <1> USE DEF IInv
  <1> SUFFICES ASSUME NEW id \in pending'
               PROVE  \/ outcome'[id] = "none" /\ \E e \in Callers : call'[e].id = id
                      \/ outcome'[id] = "unsent"
                      \/ outcome'[id] = "rejected" /\ cell'[id] = "failed"
    BY DEF OnlyFailuresAreLeft
  <1> DEFINE Left == \/ outcome'[id] = "none" /\ \E e \in Callers : call'[e].id = id
                     \/ outcome'[id] = "unsent"
                     \/ outcome'[id] = "rejected" /\ cell'[id] = "failed"
  <1>1. ASSUME NEW c \in Callers, Allocate(c) PROVE Left
    <2>1. nextImportId \in ImportIds /\ outcome' = outcome /\ cell' = cell
          /\ pending' = pending \cup {nextImportId} /\ call'[c].id = nextImportId
      BY <1>1 DEF Allocate, cells, TypeOK
    <2>2. CASE id = nextImportId
      BY <2>1, <2>2 DEF IdsAreFresh, TypeOK
    <2>3. CASE id # nextImportId
      <3>1. id \in pending
        BY <2>1, <2>3
      <3>2. ASSUME NEW e \in Callers, call[e].id = id PROVE \E d \in Callers : call'[d].id = id
        <4>1. e # c
          <5>1. call[c] = Resting
            BY <1>1 DEF Allocate, At, TypeOK, Lines
          <5>2. id # 0
            BY <3>1 DEF TypeOK, ImportIds
          <5> QED
            BY <3>2, <5>1, <5>2 DEF Resting
        <4> QED
          BY <1>1, <3>2, <4>1, OthersStay
      <3> QED
        BY <2>1, <3>1, <3>2 DEF OnlyFailuresAreLeft
    <2> QED
      BY <2>2, <2>3
  <1>2. ASSUME ~ \E e \in Callers : Allocate(e)
        PROVE  id \in pending /\ id \in ImportIds
    BY <1>2, PendingSteps DEF TypeOK
  <1>3. ASSUME NEW c \in Callers, Caller(c), ~ \E e \in Callers : Allocate(e) PROVE Left
    <2>1. Moves(c) /\ id \in pending /\ id \in ImportIds
      BY <1>2, <1>3, CallerMoves
    <2>2. CASE call[c].id = id
      <3>1. \/ outcome'[id] = outcome[id] /\ call'[c].id = id
            \/ outcome'[id] = "unsent"
            \/ outcome'[id] = "rejected" /\ cell[id] = "failed"
        BY <1>3, <2>1, <2>2, EndsLeave
      <3> QED
        BY <2>1, <3>1, FailuresStay DEF OnlyFailuresAreLeft
    <2>3. CASE call[c].id # id
      <3>1. outcome'[id] = outcome[id]
        BY <2>1, <2>3 DEF Moves, Ends, TypeOK
      <3>2. ASSUME NEW e \in Callers, call[e].id = id PROVE call'[e].id = id
        BY <2>1, <2>3, <3>2, OthersStay
      <3> QED
        BY <2>1, <3>1, <3>2, FailuresStay DEF OnlyFailuresAreLeft
    <2> QED
      BY <2>2, <2>3
  <1>4. CASE ~ \E c \in Callers : Caller(c)
    <2>1. id \in pending /\ id \in ImportIds
      BY <1>2, <1>4 DEF Caller
    <2> QED
      BY <1>4, <2>1, CallSteps, FailuresStay DEF OnlyFailuresAreLeft
  <1> QED
    BY <1>1, <1>3, <1>4

-----------------------------------------------------------------------------
(* Sleeping threads.                                                       *)

LEMMA NextWait ==
  ASSUME IInv, [Next]_vars
  PROVE  SleepersWait'
  <1> USE DEF IInv
  <1> SUFFICES ASSUME NEW d \in asleep' PROVE call'[d].at = "wait"
    BY DEF SleepersWait, At
  <1>1. ASSUME NEW c \in Callers, Check(c) PROVE call'[d].at = "wait"
    <2>1. CASE d \in asleep
      <3>1. d # c /\ d \in Callers
        BY <1>1, <2>1 DEF Check, SleepersWait, At, TypeOK
      <3>2. Moves(c)
        BY <1>1, CallerMoves DEF Caller, Check, Allocate, At
      <3> QED
        BY <2>1, <3>1, <3>2, OthersStay DEF SleepersWait, At
    <2>2. CASE d \notin asleep
      <3>1. d = c /\ Goes(c, "wait")
        BY <1>1, <2>2 DEF Check
      <3> QED
        BY <3>1 DEF Goes, TypeOK
    <2> QED
      BY <2>1, <2>2
  <1>2. ASSUME NEW c \in Callers, Caller(c), ~ Check(c) PROVE call'[d].at = "wait"
    <2>1. d \in asleep /\ d \in Callers
      BY <1>2 DEF Caller, Allocate, SendPush, SendPull, Send, Lookup, Wake, Erase,
                  SendRelease, TypeOK
    <2>2. d # c
      BY <1>2, <2>1 DEF Caller, Allocate, SendPush, SendPull, Send, Lookup, Wake, Erase,
                        SendRelease, SleepersWait, At
    <2>3. call'[d] = call[d]
      BY <1>2, <2>1, <2>2, CallerMoves, OthersStay
    <2> QED
      BY <2>1, <2>3 DEF SleepersWait, At
  <1>3. CASE ~ \E c \in Callers : Caller(c)
    <2>1. asleep' \subseteq asleep
      BY <1>3 DEF Next, Loop, StartClose, Joined, RunDeferred, ReceiveFrame, TakeAnswer, Deliver,
                  Notify, TakeAbort, FailNext, FinishAbort, LoopEnds, SocketCloses, Connect,
         Opens, Refuses, Connected, ConnectFails, vars
    <2> QED
      BY <1>3, <2>1, CallSteps DEF SleepersWait, At
  <1> QED
    BY <1>1, <1>2, <1>3

LEMMA NextNotified ==
  ASSUME IInv, [Next]_vars
  PROVE  SleepersAreNotified'
  <1> USE DEF IInv
  <1> SUFFICES ASSUME NEW d \in asleep'
               PROVE  \/ cell'[call'[d].id] = "open"
                      \/ loop'.at = "notify" /\ loop'.id = call'[d].id
    BY DEF SleepersAreNotified
  <1>1. ASSUME NEW c \in Callers, Caller(c)
        PROVE  \/ cell'[call'[d].id] = "open"
               \/ loop'.at = "notify" /\ loop'.id = call'[d].id
    <2>1. cell' = cell /\ loop' = loop
      BY <1>1 DEF Caller, Allocate, SendPush, SendPull, Send, Lookup, Check, Wake, Erase,
                  SendRelease, cells
    <2>2. CASE d \in asleep
      <3>1. d # c /\ d \in Callers
        BY <1>1, <2>2 DEF Caller, Allocate, SendPush, SendPull, Send, Lookup, Check, Wake, Erase,
                          SendRelease, SleepersWait, At, TypeOK
      <3>2. call'[d] = call[d]
        BY <1>1, <3>1, CallerMoves, OthersStay
      <3> QED
        BY <2>1, <2>2, <3>2 DEF SleepersAreNotified
    <2>3. CASE d \notin asleep
      <3>1. Check(c)
        BY <1>1, <2>3 DEF Caller, Allocate, SendPush, SendPull, Send, Lookup, Wake, Erase,
                          SendRelease
      <3>2. d = c /\ cell[call[c].id] = "open" /\ Goes(c, "wait")
        BY <2>3, <3>1 DEF Check
      <3> QED
        BY <2>1, <3>2 DEF Goes, TypeOK
    <2> QED
      BY <2>2, <2>3
  <1>2. ASSUME ~ \E c \in Callers : Caller(c)
        PROVE  \/ cell'[call'[d].id] = "open"
               \/ loop'.at = "notify" /\ loop'.id = call'[d].id
    <2>1. call' = call
      BY <1>2, CallSteps
    <2>2. d \in asleep /\ d \in Callers
      BY <1>2 DEF TypeOK, Next, Loop, StartClose, Joined, RunDeferred, ReceiveFrame, TakeAnswer,
                  Deliver, Notify, TakeAbort, FailNext, FinishAbort, LoopEnds, SocketCloses, Connect,
         Opens, Refuses, Connected, ConnectFails, vars
    <2>3. CASE Deliver
      <3>1. loop'.at = "notify" /\ loop'.id = loop.id
        BY <2>3 DEF Deliver, TypeOK
      <3>2. loop.at = "deliver" /\ \A id \in ImportIds : id # loop.id => cell'[id] = cell[id]
        BY <2>3 DEF Deliver, TypeOK
      <3>3. call[d].id \in ImportIds
        BY <2>2, CallIds DEF SleepersWait, At
      <3> QED
        BY <2>1, <2>2, <3>1, <3>2, <3>3 DEF SleepersAreNotified
    <2>4. CASE Notify
      BY <2>1, <2>2, <2>4 DEF Notify, Sleepers, SleepersAreNotified, cells
    <2>5. CASE FailNext
      <3>1. PICK id \in loop.left : /\ cell' = [cell EXCEPT ![id] = "failed"]
                                    /\ asleep' = asleep \ Sleepers(id)
        BY <2>5 DEF FailNext
      <3>2. call[d].id # id /\ call[d].id \in ImportIds
        BY <2>2, <3>1, CallIds DEF Sleepers, SleepersWait, At
      <3>3. cell[call[d].id] = "open"
        BY <2>2, <2>5 DEF SleepersAreNotified, FailNext
      <3> QED
        BY <2>1, <3>1, <3>2, <3>3 DEF TypeOK
    <2>6. CASE ~(Deliver \/ Notify \/ FailNext)
      <3>1. cell' = cell
        BY <1>2, <2>6 DEF Next, Loop, StartClose, Joined, RunDeferred, ReceiveFrame, TakeAnswer,
                  TakeAbort, FinishAbort, LoopEnds, SocketCloses, Connect,
         Opens, Refuses, Connected, ConnectFails, vars, cells
      <3>2. loop.at = "notify" => loop' = loop
        BY <1>2, <2>6 DEF Next, Loop, StartClose, Joined, RunDeferred, ReceiveFrame, TakeAnswer,
                  TakeAbort, FinishAbort, LoopEnds, SocketCloses, Connect,
         Opens, Refuses, Connected, ConnectFails, vars, Handling
      <3> QED
        BY <2>1, <2>2, <3>1, <3>2 DEF SleepersAreNotified
    <2> QED
      BY <2>3, <2>4, <2>5, <2>6
  <1> QED
    BY <1>1, <1>2

-----------------------------------------------------------------------------
(* The theorems.                                                           *)

LEMMA Invariance == Spec => []IInv
  <1>1. IInv /\ [Next]_vars => IInv'
    BY NextType, NextHandled, NextFresh, NextErased, NextLeft, NextWait, NextNotified
    DEF IInv
  <1> QED
    BY InitInv, <1>1, PTL DEF Spec

\* RpcWsClient's counters, map, cells and threads keep their declared shapes.
THEOREM TypeCorrect == Spec => []TypeOK
  <1>1. IInv => TypeOK
    BY DEF IInv
  <1> QED
    BY Invariance, <1>1, PTL

\* However threads, answers, an abort and a close interleave, the entry of a call that
\* has ended stays in the map only if the call threw, and then for a reason it can show.
THEOREM OnlyFailuresStay == Spec => []OnlyFailuresAreLeft
  <1>1. IInv => OnlyFailuresAreLeft
    BY DEF IInv
  <1> QED
    BY Invariance, <1>1, PTL

\* A thread asleep in cv.wait has its outcome, and the notification, still to come:
\* no wakeup is lost.
THEOREM NoLostWakeup == Spec => []SleepersAreNotified
  <1>1. IInv => SleepersAreNotified
    BY DEF IInv
  <1> QED
    BY Invariance, <1>1, PTL
=============================================================================
