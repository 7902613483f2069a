-------------------------- MODULE WsEndpointProofs --------------------------
(***************************************************************************)
(* Theorems about WsEndpoint, for every set of connections and every bound *)
(* on the calls they push.                                                 *)
(***************************************************************************)
EXTENDS WsService, TLAPS

-----------------------------------------------------------------------------
(* The inductive invariant.                                                *)

\* Between handlers the queue is empty; inside one, what is queued was queued by
\* the frame being handled.
QueueIsOwn ==
    /\ Idle => microtasks = <<>>
    /\ \A k \in DOMAIN microtasks : microtasks[k].conn = handler.conn

\* The handler that runs serves an open connection.
ServesOpen == handler.busy => handler.conn \in Conns /\ phase[handler.conn] = "open"

\* The example's context is the connection whose handler runs.
ContextIsCaller == host = "callback" /\ handler.busy => context = handler.conn

\* Only the pull being handled waits for its answer, on a connection that the
\* endpoint has not closed.
PullsAreHandled ==
    host = "endpoint" =>
        \A c \in Conns : phase[c] # "closed" =>
            \A id \in pulled[c] : handler.busy /\ handler.conn = c /\ handler.pull = id

\* Ids to come hold nothing; at most one call is queued, and it has not been run; a
\* pull that ran its call holds the result.
CallsInTurn ==
    /\ \A c \in Conns : phase[c] = "new" => nextExportId[c] = 1
    /\ \A c \in Conns, id \in PushIds : id >= nextExportId[c] => calls[c][id] = "none"
    /\ Len(microtasks) <= 1
    /\ microtasks # <<>> =>
           calls[Head(microtasks).conn][Head(microtasks).id] = "operation"
    /\ handler.late => handler.busy /\ handler.pull # 0 /\ Pulled \in Results

IInv == TypeOK /\ QueueIsOwn /\ ServesOpen /\ ContextIsCaller /\ PullsAreHandled /\ CallsInTurn

-----------------------------------------------------------------------------

\* The initial states satisfy the invariant.
LEMMA InitInv == Init => IInv
  <1> SUFFICES ASSUME Init PROVE IInv
    OBVIOUS
  <1>1. TypeOK
    <2>1. calls \in [Conns -> [PushIds -> Held]]
      BY DEF Init, Empty, Held
    <2>2. nextExportId \in [Conns -> 1..(MaxPush + 1)]
      BY EndpointAssumption DEF Init
    <2>3. pulled \in [Conns -> SUBSET PushIds]
      BY DEF Init
    <2>4. microtasks \in Seq(Task)
      BY DEF Init
    <2>5. handler \in Handler
      BY DEF Init, Handler
    <2> QED
      BY <2>1, <2>2, <2>3, <2>4, <2>5 DEF Init, TypeOK
  <1>2. QueueIsOwn
    BY DEF Init, QueueIsOwn
  <1>3. ServesOpen /\ ContextIsCaller
    BY DEF Init, ServesOpen, ContextIsCaller
  <1>4. PullsAreHandled
    BY DEF Init, PullsAreHandled
  <1>5. CallsInTurn
    BY DEF Init, CallsInTurn, Empty
  <1> QED
    BY <1>1, <1>2, <1>3, <1>4, <1>5 DEF IInv

-----------------------------------------------------------------------------
(* Steps.                                                                  *)

\* A handler that throws keeps the types of what it changes.
LEMMA FailTypes ==
    ASSUME TypeOK, NEW c \in Conns, NEW used \in {0, 1},
           nextExportId[c] + used \in 1..(MaxPush + 1), Fail(c, used)
    PROVE  /\ phase' \in [Conns -> {"new", "open", "closed"}]
           /\ calls' \in [Conns -> [PushIds -> Held]]
           /\ nextExportId' \in [Conns -> 1..(MaxPush + 1)]
           /\ microtasks' \in Seq(Task) /\ aborted' \in BOOLEAN
           /\ handler' \in Handler
  <1>1. handler' \in Handler
    <2>1. Ran(c)
      BY DEF Fail, Log
    <2> QED
      BY <2>1 DEF Ran, Handler
  <1>2. CASE host = "endpoint" /\ AbortAndClose(c)
    <2>1. calls' \in [Conns -> [PushIds -> Held]]
      BY <1>2 DEF TypeOK, AbortAndClose, ResetTables, Empty, Held
    <2>2. nextExportId' \in [Conns -> 1..(MaxPush + 1)]
      BY <1>2, EndpointAssumption DEF TypeOK, AbortAndClose, ResetTables
    <2>3. phase' \in [Conns -> {"new", "open", "closed"}]
      BY <1>2 DEF TypeOK, AbortAndClose
    <2> QED
      BY <1>1, <1>2, <2>1, <2>2, <2>3 DEF AbortAndClose
  <1>3. CASE Log(c, used)
    <2>1. nextExportId' \in [Conns -> 1..(MaxPush + 1)]
      BY <1>3 DEF TypeOK, Log
    <2> QED
      BY <1>1, <1>3, <2>1 DEF TypeOK, Log, shared
  <1> QED
    BY <1>2, <1>3 DEF Fail

\* Changing what one push id of one connection holds keeps the tables' type.
LEMMA StoreType ==
    ASSUME calls \in [Conns -> [PushIds -> Held]],
           NEW c \in Conns, NEW id \in PushIds, NEW held \in Held, Stores(c, id, held)
    PROVE  calls' \in [Conns -> [PushIds -> Held]]
  BY DEF Stores

LEMMA StoreHolds ==
    ASSUME calls \in [Conns -> [PushIds -> Held]],
           NEW c \in Conns, NEW id \in PushIds, NEW held, Stores(c, id, held),
           NEW d \in Conns, NEW j \in PushIds
    PROVE  calls'[d][j] = IF d = c /\ j = id THEN held ELSE calls[d][j]
  <1>1. CASE d = c
    BY <1>1 DEF Stores
  <1>2. CASE d # c
    BY <1>2 DEF Stores
  <1> QED
    BY <1>1, <1>2

\* What a task or a pull is about.
LEMMA HeadTask ==
    ASSUME TypeOK, microtasks # <<>>
    PROVE  Head(microtasks).conn \in Conns /\ Head(microtasks).id \in PushIds
  <1>1. Head(microtasks) \in Task
    BY DEF TypeOK
  <1> QED
    BY <1>1 DEF Task

LEMMA PulledCall ==
    ASSUME TypeOK, ServesOpen, Pulling
    PROVE  handler.conn \in Conns /\ handler.pull \in PushIds /\ Pulled \in Held
  BY DEF TypeOK, ServesOpen, Pulling, Pulled, Handler

\* An answer ends what a step sends.
LEMMA AnswerSends ==
    ASSUME AnswerPull
    PROVE  \E sent \in MethodSends, type \in {"resolve", "reject"} : out' = sent \o Answers(type)
  <1>1. <<>> \in MethodSends
    BY DEF MethodSends
  <1>2. \A type \in {"resolve", "reject"} : Answers(type) = <<>> \o Answers(type)
    BY DEF Answers
  <1>3. CASE AnswerThrow
    BY <1>3 DEF AnswerThrow
  <1>4. CASE AnswerResult \/ AnswerLate \/ AnswerNotFound
    <2>1. PICK type \in {"resolve", "reject"} : out' = Answers(type)
      BY <1>4 DEF AnswerResult, AnswerLate, AnswerNotFound
    <2> QED
      BY <1>1, <1>2, <2>1
  <1> QED
    BY <1>3, <1>4 DEF AnswerPull

\* The pulled export holds nothing or what it held once it is answered.
LEMMA AnswerHolds ==
    ASSUME AnswerPull
    PROVE  \E held \in {"none", Pulled} : Answering(held)
  BY DEF AnswerPull, AnswerResult, AnswerLate, AnswerThrow, AnswerNotFound

\* No step leaves the types of the tables, the queue and the flags.
LEMMA TypeStep == IInv /\ [Next]_vars => TypeOK'
  <1> SUFFICES ASSUME IInv, [Next]_vars PROVE TypeOK'
    OBVIOUS
  <1> USE EndpointAssumption DEF TypeOK, IInv, PushIds
  <1>1. ASSUME NEW c \in Conns, Open(c) PROVE TypeOK'
    <2>1. calls' \in [Conns -> [PushIds -> Held]]
      BY <1>1 DEF Open, ResetTables, Empty, Held
    <2>2. nextExportId' \in [Conns -> 1..(MaxPush + 1)]
      BY <1>1 DEF Open, ResetTables
    <2>3. context' \in Conns \cup {NoConn} /\ phase' \in [Conns -> {"new", "open", "closed"}]
      BY <1>1 DEF Open
    <2> QED
      BY <1>1, <2>1, <2>2, <2>3 DEF Open, Ran, Handler
  <1>2. ASSUME NEW c \in Conns, Close(c) PROVE TypeOK'
    BY <1>2 DEF Close, Ran, Handler, tables, shared
  <1>3. ASSUME NEW c \in Conns, ReceivePush(c) PROVE TypeOK'
    <2>1. calls' \in [Conns -> [PushIds -> Held]]
      BY <1>3 DEF ReceivePush, Held
    <2>2. nextExportId' \in [Conns -> 1..(MaxPush + 1)]
      BY <1>3 DEF ReceivePush
    <2>3. microtasks' \in Seq(Task)
      BY <1>3 DEF ReceivePush, Task
    <2> QED
      BY <1>3, <2>1, <2>2, <2>3 DEF ReceivePush, Receive, SetSessionContext, Runs, Handler
  <1>4. ASSUME NEW c \in Conns, NEW id \in PushIds, ReceivePull(c, id) PROVE TypeOK'
    BY <1>4 DEF ReceivePull, Receive, SetSessionContext, Runs, Handler, tables, shared
  <1>5. ASSUME NEW c \in Conns, ReceiveAbort(c) PROVE TypeOK'
    BY <1>5 DEF ReceiveAbort, Receive, SetSessionContext, AbortAndClose, ResetTables,
                Empty, Held, Ran, Handler
  <1>6. ASSUME NEW c \in Conns, ReceiveMalformed(c) PROVE TypeOK'
    <2>1. nextExportId[c] + 1 \in 1..(MaxPush + 1)
      BY <1>6 DEF ReceiveMalformed
    <2> QED
      BY <1>6, <2>1, FailTypes DEF ReceiveMalformed, Receive, SetSessionContext
  <1>7. ASSUME NEW c \in Conns, ReceiveAborted(c) PROVE TypeOK'
    BY <1>7 DEF ReceiveAborted, Receive, SetSessionContext, Ran, Handler, tables, shared
  <1>8. CASE RunTask
    <2>1. microtasks' \in Seq(Task)
      BY <1>8 DEF RunTask
    <2>2. calls' \in [Conns -> [PushIds -> Held]]
      BY <1>8, HeadTask, StoreType DEF RunTask, Held
    <2> QED
      BY <1>8, <2>1, <2>2 DEF RunTask
  <1>13. CASE RunLate
    <2>1. calls' \in [Conns -> [PushIds -> Held]]
      BY <1>13, PulledCall, StoreType DEF RunLate, Held
    <2> QED
      BY <1>13, <2>1 DEF RunLate, Handler, shared
  <1>9. CASE AnswerPull
    <2>1. PICK held \in {"none", Pulled} : Answering(held)
      BY <1>9, AnswerHolds
    <2>2. Pulling /\ handler.conn \in Conns /\ handler.pull \in PushIds /\ held \in Held
      BY <2>1, PulledCall DEF Answering, Held
    <2>3. calls' \in [Conns -> [PushIds -> Held]]
      BY <2>1, <2>2, StoreType DEF Answering
    <2>4. pulled' \in [Conns -> SUBSET PushIds] /\ handler' \in Handler
      BY <2>1, <2>2 DEF Answering, Runs, Handler
    <2> QED
      BY <2>1, <2>3, <2>4 DEF Answering, shared
  <1>10. CASE AnswerThrows
    <2>1. handler.conn \in Conns
      BY <1>10 DEF AnswerThrows, Pulling, ServesOpen
    <2>2. nextExportId[handler.conn] + 0 \in 1..(MaxPush + 1)
      BY <2>1
    <2> QED
      BY <1>10, <2>1, <2>2, FailTypes DEF AnswerThrows
  <1>11. CASE EndHandler
    BY <1>11 DEF EndHandler, Ran, Handler, tables, shared, ServesOpen
  <1>12. CASE Finished \/ UNCHANGED vars
    BY <1>12 DEF Finished, vars, tables, shared
  <1> QED
    BY <1>1, <1>2, <1>3, <1>4, <1>5, <1>6, <1>7, <1>8, <1>9, <1>10, <1>11, <1>12, <1>13
    DEF Next, Message

\* A handler that throws leaves an empty queue if the frame left it empty.
LEMMA FailEnds ==
    ASSUME NEW c \in Conns, NEW used, Fail(c, used), microtasks = <<>>
    PROVE  microtasks' = <<>> /\ ~handler'.busy /\ handler'.conn = c
  BY DEF Fail, Log, Ran, AbortAndClose, shared

\* The queue only holds calls of the frame being handled: a handler starts with an
\* empty queue and does not end before it is empty again.
LEMMA QueueStep == IInv /\ [Next]_vars => QueueIsOwn'
  <1> SUFFICES ASSUME IInv, [Next]_vars PROVE QueueIsOwn'
    OBVIOUS
  <1> USE DEF IInv, QueueIsOwn, Idle
  <1>1. ASSUME NEW c \in Conns, Open(c) \/ Close(c) PROVE QueueIsOwn'
    BY <1>1 DEF Open, Close, shared
  <1>2. ASSUME NEW c \in Conns, ReceivePush(c) PROVE QueueIsOwn'
    BY <1>2 DEF ReceivePush, Receive, Runs
  <1>3. ASSUME NEW c \in Conns, NEW id \in PushIds, ReceivePull(c, id) PROVE QueueIsOwn'
    BY <1>3 DEF ReceivePull, Receive, shared
  <1>4. ASSUME NEW c \in Conns, ReceiveAbort(c) PROVE QueueIsOwn'
    BY <1>4 DEF ReceiveAbort, AbortAndClose
  <1>5. ASSUME NEW c \in Conns, ReceiveMalformed(c) PROVE QueueIsOwn'
    BY <1>5, FailEnds DEF ReceiveMalformed, Receive
  <1>6. ASSUME NEW c \in Conns, ReceiveAborted(c) PROVE QueueIsOwn'
    BY <1>6 DEF ReceiveAborted, Receive, shared
  <1>7. CASE RunTask
    <2>1. /\ handler' = handler /\ handler.busy
          /\ microtasks \in Seq(Task) /\ microtasks # <<>> /\ microtasks' = Tail(microtasks)
      BY <1>7 DEF RunTask, TypeOK
    <2>2. ASSUME NEW k \in DOMAIN microtasks' PROVE microtasks'[k].conn = handler.conn
      <3>1. k + 1 \in DOMAIN microtasks /\ microtasks'[k] = microtasks[k + 1]
        BY <2>1, <2>2
      <3> QED
        BY <3>1
    <2> QED
      BY <2>1, <2>2
  <1>8. CASE AnswerPull \/ RunLate \/ EndHandler
    BY <1>8, AnswerHolds DEF Answering, Pulling, RunLate, EndHandler, TypeOK, Handler, Runs, Ran,
                             shared
  <1>9. CASE AnswerThrows
    <2>1. handler.conn \in Conns
      BY <1>9 DEF AnswerThrows, Pulling, ServesOpen
    <2> QED
      BY <1>9, <2>1, FailEnds DEF AnswerThrows, Pulling
  <1>10. CASE Finished \/ UNCHANGED vars
    BY <1>10 DEF Finished, vars, shared
  <1> QED
    BY <1>1, <1>2, <1>3, <1>4, <1>5, <1>6, <1>7, <1>8, <1>9, <1>10 DEF Next, Message

\* A handler serves a connection that stays open until it ends, and the example's
\* context stays on it.
LEMMA HandlerStep == IInv /\ [Next]_vars => ServesOpen' /\ ContextIsCaller'
  <1> SUFFICES ASSUME IInv, [Next]_vars PROVE ServesOpen' /\ ContextIsCaller'
    OBVIOUS
  <1> USE DEF IInv, ServesOpen, ContextIsCaller
  <1>1. ASSUME NEW c \in Conns, \/ Open(c) \/ Close(c) \/ ReceiveAbort(c)
                               \/ ReceiveMalformed(c) \/ ReceiveAborted(c)
        PROVE  ServesOpen' /\ ContextIsCaller'
    <2>1. Ran(c)
      BY <1>1 DEF Open, Close, ReceiveAbort, ReceiveMalformed, ReceiveAborted, Fail, Log
    <2> QED
      BY <2>1 DEF Ran
  <1>2. ASSUME NEW c \in Conns, ReceivePush(c) \/ \E id \in PushIds : ReceivePull(c, id)
        PROVE  ServesOpen' /\ ContextIsCaller'
    <2>1. /\ handler'.conn = c /\ phase' = phase /\ host' = host
          /\ phase[c] = "open" /\ SetSessionContext(c)
      BY <1>2 DEF ReceivePush, ReceivePull, Receive, Runs
    <2> QED
      BY <2>1 DEF SetSessionContext
  <1>3. CASE RunTask \/ RunLate \/ AnswerPull
    <2>1. /\ handler.busy /\ handler'.conn = handler.conn
          /\ UNCHANGED <<phase, host, context>>
      BY <1>3, AnswerHolds DEF TypeOK, Handler, RunTask, RunLate, Answering, Pulling, Runs
    <2> QED
      BY <2>1
  <1>4. CASE AnswerThrows \/ EndHandler
    <2>1. Ran(handler.conn)
      BY <1>4 DEF AnswerThrows, EndHandler, Fail, Log
    <2> QED
      BY <2>1 DEF Ran
  <1>5. CASE Finished \/ UNCHANGED vars
    BY <1>5 DEF Finished, vars
  <1> QED
    BY <1>1, <1>2, <1>3, <1>4, <1>5 DEF Next, Message

\* Under the endpoint a pull without an answer is the one being handled, or its
\* connection is closed.
LEMMA PullsStep == IInv /\ [Next]_vars => PullsAreHandled'
  <1> SUFFICES ASSUME IInv, [Next]_vars, host' = "endpoint",
                      NEW d \in Conns, phase'[d] # "closed", NEW p \in pulled'[d]
               PROVE  handler'.busy /\ handler'.conn = d /\ handler'.pull = p
    BY DEF PullsAreHandled
  <1>0. host = "endpoint"
    BY DEF Next, Message, Open, Close, Receive, ReceivePush, ReceivePull, ReceiveAbort,
           ReceiveMalformed, ReceiveAborted, RunTask, RunLate, AnswerPull, AnswerResult,
           AnswerLate, AnswerThrow, AnswerNotFound, Answering, AnswerThrows, EndHandler,
           Finished, vars
  <1> USE <1>0 DEF IInv, PullsAreHandled, TypeOK, Idle
  <1>1. ASSUME NEW c \in Conns, \/ Open(c) \/ Close(c) \/ ReceiveAbort(c)
                               \/ ReceiveMalformed(c) \/ ReceiveAborted(c) \/ ReceivePush(c)
        PROVE  FALSE
    <2>1. /\ ~handler.busy /\ pulled' = pulled
          /\ \A e \in Conns : phase[e] = "closed" => phase'[e] = "closed"
      BY <1>1 DEF Open, Close, ReceiveAbort, ReceiveMalformed, ReceiveAborted, ReceivePush,
                  Receive, Fail, AbortAndClose
    <2> QED
      BY <2>1
  <1>2. ASSUME NEW c \in Conns, NEW id \in PushIds, ReceivePull(c, id)
        PROVE  handler'.busy /\ handler'.conn = d /\ handler'.pull = p
    <2>1. /\ ~handler.busy /\ phase' = phase
          /\ pulled' = [pulled EXCEPT ![c] = @ \cup {id}]
          /\ handler' = [conn |-> c, pull |-> id, late |-> FALSE, busy |-> TRUE]
      BY <1>2 DEF ReceivePull, Receive, Runs
    <2>2. p \notin pulled[d]
      BY <2>1
    <2>3. d = c /\ p = id
      BY <2>1, <2>2
    <2> QED
      BY <2>1, <2>3
  <1>3. CASE RunTask \/ RunLate
    BY <1>3 DEF RunTask, RunLate, Handler
  <1>4. CASE AnswerPull
    <2>1. /\ phase' = phase
          /\ pulled' = [pulled EXCEPT ![handler.conn] = @ \ {handler.pull}]
      BY <1>4, AnswerHolds DEF Answering
    <2>2. p \in pulled[d]
      BY <2>1
    <2>3. handler.conn = d /\ handler.pull = p
      BY <2>1, <2>2
    <2> QED
      BY <2>1, <2>3
  <1>5. CASE AnswerThrows
    <2>1. pulled' = pulled /\ phase' = [phase EXCEPT ![handler.conn] = "closed"]
      BY <1>5 DEF AnswerThrows, Fail, AbortAndClose
    <2>2. phase[d] # "closed" /\ d # handler.conn
      BY <2>1
    <2> QED
      BY <2>1, <2>2
  <1>6. CASE EndHandler
    <2>1. handler.pull = 0 /\ UNCHANGED <<pulled, phase>>
      BY <1>6 DEF EndHandler
    <2>2. p \in PushIds /\ handler.pull = p
      BY <2>1
    <2> QED
      BY <2>1, <2>2, EndpointAssumption DEF PushIds
  <1>7. CASE Finished \/ UNCHANGED vars
    BY <1>7 DEF Finished, vars
  <1> QED
    BY <1>1, <1>2, <1>3, <1>4, <1>5, <1>6, <1>7 DEF Next, Message

\* A task changes its own call only, an operation so far, and gives it a result.
LEMMA TaskMoves ==
    ASSUME TypeOK, CallsInTurn, RunTask, NEW d \in Conns, NEW id \in PushIds
    PROVE  \/ calls'[d][id] = calls[d][id]
           \/ /\ d = Head(microtasks).conn /\ id = Head(microtasks).id
              /\ calls[d][id] = "operation" /\ calls'[d][id] \in Results
  <1>1. CASE calls' = calls
    BY <1>1
  <1>2. ASSUME NEW result \in Results,
               Stores(Head(microtasks).conn, Head(microtasks).id, result)
        PROVE  \/ calls'[d][id] = calls[d][id]
               \/ /\ d = Head(microtasks).conn /\ id = Head(microtasks).id
                  /\ calls[d][id] = "operation" /\ calls'[d][id] \in Results
    <2>1. /\ Head(microtasks).conn \in Conns /\ Head(microtasks).id \in PushIds
          /\ calls \in [Conns -> [PushIds -> Held]]
          /\ calls[Head(microtasks).conn][Head(microtasks).id] = "operation"
      BY HeadTask DEF RunTask, TypeOK, CallsInTurn
    <2>2. calls'[d][id] = IF d = Head(microtasks).conn /\ id = Head(microtasks).id
                          THEN result ELSE calls[d][id]
      BY <1>2, <2>1, StoreHolds
    <2> QED
      BY <2>1, <2>2
  <1> QED
    BY <1>1, <1>2 DEF RunTask

\* Calls are queued one at a time, before they have run.
LEMMA TurnStep == IInv /\ [Next]_vars => CallsInTurn'
  <1> SUFFICES ASSUME IInv, [Next]_vars PROVE CallsInTurn'
    OBVIOUS
  <1> USE EndpointAssumption DEF IInv, TypeOK, CallsInTurn
  <1>0. ASSUME NEW c \in Conns, AbortAndClose(c), ~handler'.late PROVE CallsInTurn'
    BY <1>0 DEF AbortAndClose, ResetTables, Empty
  <1>1. ASSUME NEW c \in Conns, Open(c) PROVE CallsInTurn'
    <2>1. microtasks = <<>> /\ microtasks' = microtasks /\ ~handler'.late
      BY <1>1 DEF Open, Idle, QueueIsOwn, Ran
    <2> QED
      BY <1>1, <2>1 DEF Open, ResetTables, Empty
  <1>2. ASSUME NEW c \in Conns, Close(c) \/ ReceiveAborted(c) PROVE CallsInTurn'
    BY <1>2 DEF Close, ReceiveAborted, Receive, Ran, Idle, QueueIsOwn, tables, shared
  <1>3. ASSUME NEW c \in Conns, ReceivePush(c) PROVE CallsInTurn'
    <2>1. /\ nextExportId[c] \in PushIds /\ microtasks = <<>> /\ phase[c] = "open"
          /\ calls' = [calls EXCEPT ![c][nextExportId[c]] = "operation"]
          /\ nextExportId' = [nextExportId EXCEPT ![c] = @ + 1]
          /\ microtasks' = Append(microtasks, [conn |-> c, id |-> nextExportId[c]])
          /\ phase' = phase /\ ~handler'.late
      BY <1>3 DEF ReceivePush, Receive, Idle, QueueIsOwn, Runs
    <2>2. microtasks' = << [conn |-> c, id |-> nextExportId[c]] >>
      BY <2>1
    <2>3. Len(microtasks') = 1 /\ Head(microtasks') = [conn |-> c, id |-> nextExportId[c]]
      BY <2>2
    <2>4. calls'[c][nextExportId[c]] = "operation"
      BY <2>1
    <2>5. \A d \in Conns, id \in PushIds : id >= nextExportId'[d] => calls'[d][id] = "none"
      BY <2>1 DEF PushIds
    <2>6. \A d \in Conns : phase'[d] = "new" => nextExportId'[d] = 1
      BY <2>1
    <2> QED
      BY <2>1, <2>3, <2>4, <2>5, <2>6
  <1>4. ASSUME NEW c \in Conns, NEW id \in PushIds, ReceivePull(c, id) PROVE CallsInTurn'
    BY <1>4 DEF ReceivePull, Runs, tables, shared
  <1>5. ASSUME NEW c \in Conns, NEW used \in {0, 1}, phase[c] = "open", microtasks = <<>>,
               Fail(c, used)
        PROVE  CallsInTurn'
    <2>1. ~handler'.late
      BY <1>5 DEF Fail, Log, Ran
    <2>2. CASE Log(c, used)
      BY <1>5, <2>1, <2>2 DEF Log, shared, PushIds
    <2> QED
      BY <1>0, <1>5, <2>1, <2>2 DEF Fail
  <1>6. ASSUME NEW c \in Conns, ReceiveAbort(c) PROVE CallsInTurn'
    BY <1>0, <1>6 DEF ReceiveAbort, Ran
  <1>7. ASSUME NEW c \in Conns, ReceiveMalformed(c) PROVE CallsInTurn'
    BY <1>5, <1>7 DEF ReceiveMalformed, Receive, Idle, QueueIsOwn
  <1>8. CASE RunTask
    <2>1. /\ microtasks # <<>> /\ microtasks' = <<>> /\ handler' = handler
          /\ UNCHANGED <<phase, nextExportId>>
      BY <1>8 DEF RunTask
    <2>2. \A d \in Conns, id \in PushIds : calls[d][id] = "none" => calls'[d][id] = "none"
      BY <1>8, TaskMoves
    <2>3. handler.late => calls'[handler.conn][handler.pull] \in Results
      <3>1. handler.late => handler.conn \in Conns /\ handler.pull \in PushIds
        BY DEF ServesOpen, Handler
      <3>2. handler.late => calls[handler.conn][handler.pull] \in Results
        BY DEF Pulled
      <3> QED
        BY <1>8, <3>1, <3>2, TaskMoves
    <2> QED
      BY <2>1, <2>2, <2>3 DEF Pulled
  <1>9. CASE RunLate
    <2>1. handler.conn \in Conns /\ handler.pull \in PushIds
      BY <1>9, PulledCall DEF RunLate
    <2>2. PICK result \in Results :
              calls' = [calls EXCEPT ![handler.conn][handler.pull] = result]
      BY <1>9 DEF RunLate, Stores
    <2>3. /\ Pulling /\ Pulled = "operation" /\ handler' = [handler EXCEPT !.late = TRUE]
          /\ UNCHANGED <<phase, nextExportId, microtasks>> /\ microtasks = <<>>
      BY <1>9 DEF RunLate, Pulling, shared
    <2>4. \A d \in Conns, id \in PushIds : calls[d][id] = "none" => calls'[d][id] = "none"
      BY <2>1, <2>2, <2>3 DEF Pulled
    <2>5. Pulled' = result /\ handler'.busy /\ handler'.pull # 0
      BY <2>1, <2>2, <2>3 DEF Pulled, Pulling, Handler
    <2> QED
      BY <2>2, <2>3, <2>4, <2>5
  <1>10. CASE AnswerPull
    <2>1. PICK held \in {"none", Pulled} : Answering(held)
      BY <1>10, AnswerHolds
    <2>2. /\ Pulling /\ handler.conn \in Conns /\ handler.pull \in PushIds /\ ~handler'.late
          /\ calls' = [calls EXCEPT ![handler.conn][handler.pull] = held]
          /\ UNCHANGED <<phase, nextExportId, microtasks>> /\ microtasks = <<>>
      BY <2>1, PulledCall DEF Answering, Stores, Runs, Pulling, shared
    <2>3. \A d \in Conns, id \in PushIds : calls[d][id] = "none" => calls'[d][id] = "none"
      BY <2>1, <2>2 DEF Pulled
    <2> QED
      BY <2>2, <2>3
  <1>11. CASE AnswerThrows
    <2>1. handler.conn \in Conns /\ phase[handler.conn] = "open" /\ microtasks = <<>>
      BY <1>11 DEF AnswerThrows, Pulling, ServesOpen
    <2> QED
      BY <1>5, <1>11, <2>1 DEF AnswerThrows
  <1>12. CASE EndHandler
    BY <1>12 DEF EndHandler, Ran, tables, shared
  <1>13. CASE Finished \/ UNCHANGED vars
    BY <1>13 DEF Finished, vars, tables, shared, Pulled
  <1> QED
    BY <1>1, <1>2, <1>3, <1>4, <1>6, <1>7, <1>8, <1>9, <1>10, <1>11, <1>12, <1>13
    DEF Next, Message

\* The invariant holds in every reachable state.
LEMMA Invariance == Spec => []IInv
  <1>1. IInv /\ [Next]_vars => IInv'
    BY TypeStep, QueueStep, HandlerStep, PullsStep, TurnStep DEF IInv
  <1> QED
    BY <1>1, InitInv, PTL DEF Spec

\* Whatever a step sends goes to the connection whose handler runs.
LEMMA FramesStep ==
    ASSUME IInv, Next, vars' # vars, NEW k \in DOMAIN out'
    PROVE  out'[k].conn = handler'.conn
  <1>1. ASSUME NEW c, NEW types, Sends(c, types), handler'.conn = c
        PROVE  out'[k].conn = handler'.conn
    BY <1>1 DEF Sends, Frame
  <1>2. ASSUME NEW c \in Conns, Open(c) \/ Close(c) \/ Message(c)
        PROVE  out'[k].conn = handler'.conn
    BY <1>1, <1>2 DEF Open, Close, Message, ReceivePush, ReceivePull, ReceiveAbort,
                      ReceiveMalformed, ReceiveAborted, Fail, Log, Ran, Runs
  <1>3. ASSUME NEW sent \in MethodSends, handler.busy, NEW i \in DOMAIN sent
        PROVE  sent[i].conn = handler.conn
    BY <1>3 DEF MethodSends, Frame, IInv, ContextIsCaller
  <1>4. CASE RunTask \/ RunLate
    BY <1>3, <1>4 DEF RunTask, RunLate, Pulling, IInv, TypeOK, Handler
  <1>5. CASE AnswerPull
    <2>1. PICK sent \in MethodSends : \E type \in {"resolve", "reject"} :
              out' = sent \o Answers(type)
      BY <1>5, AnswerSends
    <2>2. PICK type \in {"resolve", "reject"} : out' = sent \o Answers(type)
      BY <2>1
    <2>3. handler.busy /\ handler'.conn = handler.conn
      BY <1>5, AnswerHolds DEF Answering, Pulling, Runs
    <2>4. /\ Len(sent) \in Nat /\ DOMAIN sent = 1..Len(sent)
          /\ DOMAIN out' = 1..(Len(sent) + 1) /\ \A i \in DOMAIN sent : out'[i] = sent[i]
          /\ out'[Len(sent) + 1] = Frame(handler.conn, type, handler.pull)
      <3>1. CASE sent = <<>>
        BY <2>2, <3>1 DEF Answers
      <3>2. CASE sent = << Frame(context, "push", 0), Frame(context, "pull", 0) >>
        BY <2>2, <3>2 DEF Answers
      <3> QED
        BY <3>1, <3>2 DEF MethodSends
    <2>5. CASE k \in DOMAIN sent
      BY <1>3, <2>1, <2>3, <2>4, <2>5
    <2>6. CASE k = Len(sent) + 1
      BY <2>3, <2>4, <2>6 DEF Frame
    <2> QED
      BY <2>4, <2>5, <2>6
  <1>6. CASE AnswerThrows \/ EndHandler
    BY <1>1, <1>6 DEF AnswerThrows, EndHandler, Fail, Log, Ran
  <1>7. CASE Finished
    BY <1>7 DEF Finished
  <1> QED
    BY <1>2, <1>4, <1>5, <1>6, <1>7 DEF Next

\* A handler that runs goes on, or ends, on its connection.
LEMMA BusyStays ==
    ASSUME IInv, Next, handler.busy
    PROVE  handler'.conn = handler.conn
  <1>1. RunTask \/ RunLate \/ AnswerPull \/ AnswerThrows \/ EndHandler
    BY DEF Next, Message, Open, Close, Receive, ReceivePush, ReceivePull, ReceiveAbort,
           ReceiveMalformed, ReceiveAborted, Finished, Idle
  <1> QED
    BY <1>1, AnswerHolds DEF RunTask, RunLate, Answering, AnswerThrows, EndHandler, Fail, Log,
                             Ran, Runs, IInv, TypeOK, Handler

\* The export tables of a connection that is not served stay, and it stays open,
\* closed or unopened.
LEMMA OthersStay ==
    ASSUME IInv, Next, NEW d \in Conns, d # handler'.conn
    PROVE  calls'[d] = calls[d] /\ phase'[d] = phase[d] /\ nextExportId'[d] = nextExportId[d]
  <1> USE DEF IInv, TypeOK
  <1>0. ASSUME NEW c \in Conns, c # d,
               \/ ResetTables(c)
               \/ UNCHANGED tables
               \/ UNCHANGED nextExportId /\ \E id, held : Stores(c, id, held)
               \/ UNCHANGED calls /\ \E n : nextExportId' = [nextExportId EXCEPT ![c] = n]
               \/ \E n, x : /\ nextExportId' = [nextExportId EXCEPT ![c] = n]
                            /\ calls' = [calls EXCEPT ![c] = x],
               UNCHANGED phase \/ \E p : phase' = [phase EXCEPT ![c] = p]
        PROVE  calls'[d] = calls[d] /\ phase'[d] = phase[d] /\ nextExportId'[d] = nextExportId[d]
    BY <1>0 DEF ResetTables, Stores, tables
  <1>1. ASSUME NEW c \in Conns, Open(c) \/ Close(c) \/ ReceiveAbort(c) \/ ReceiveAborted(c)
        PROVE  calls'[d] = calls[d] /\ phase'[d] = phase[d] /\ nextExportId'[d] = nextExportId[d]
    <2>1. c # d
      BY <1>1 DEF Open, Close, ReceiveAbort, ReceiveAborted, Ran
    <2> QED
      BY <1>0, <1>1, <2>1 DEF Open, Close, ReceiveAbort, ReceiveAborted, AbortAndClose
  <1>2. ASSUME NEW c \in Conns, ReceivePush(c)
        PROVE  calls'[d] = calls[d] /\ phase'[d] = phase[d] /\ nextExportId'[d] = nextExportId[d]
    BY <1>2 DEF ReceivePush, Runs
  <1>3. ASSUME NEW c \in Conns, NEW id \in PushIds, ReceivePull(c, id)
        PROVE  calls'[d] = calls[d] /\ phase'[d] = phase[d] /\ nextExportId'[d] = nextExportId[d]
    BY <1>3 DEF ReceivePull, tables
  <1>4. ASSUME NEW c \in Conns, NEW used \in {0, 1}, Fail(c, used)
        PROVE  calls'[d] = calls[d] /\ phase'[d] = phase[d] /\ nextExportId'[d] = nextExportId[d]
    <2>1. c # d
      BY <1>4 DEF Fail, Log, Ran
    <2> QED
      BY <1>4, <2>1 DEF Fail, Log, AbortAndClose, ResetTables
  <1>5. CASE RunTask
    <2>1. d # Head(microtasks).conn
      BY <1>5 DEF RunTask, QueueIsOwn
    <2>2. calls'[d] = calls[d]
      BY <1>5, <2>1 DEF RunTask, Stores
    <2> QED
      BY <1>5, <2>2 DEF RunTask
  <1>6. CASE RunLate \/ AnswerPull
    <2>1. handler.busy /\ handler.conn # d /\ UNCHANGED <<phase, nextExportId>>
          /\ \E held : Stores(handler.conn, handler.pull, held)
      BY <1>6, AnswerHolds, BusyStays DEF RunLate, Answering, Pulling
    <2> QED
      BY <2>1 DEF Stores
  <1>7. CASE AnswerThrows
    BY <1>4, <1>7 DEF AnswerThrows, Pulling, ServesOpen
  <1>8. CASE EndHandler \/ Finished
    BY <1>8 DEF EndHandler, Finished, vars, tables
  <1>9. ASSUME NEW c \in Conns, ReceiveMalformed(c)
        PROVE  calls'[d] = calls[d] /\ phase'[d] = phase[d] /\ nextExportId'[d] = nextExportId[d]
    BY <1>4, <1>9 DEF ReceiveMalformed
  <1> QED
    BY <1>1, <1>2, <1>3, <1>5, <1>6, <1>7, <1>8, <1>9 DEF Next, Message

-----------------------------------------------------------------------------
(* Steps of a connection's service, recognised by what they change.        *)

\* The states of the calls before and after a step.
LEMMA StateMap ==
    ASSUME NEW c \in Conns
    PROVE  /\ State(c) = [id \in PushIds |-> State(c)[id]]
           /\ State(c)' = [id \in PushIds |-> State(c)'[id]]
           /\ \A id \in PushIds : State(c)[id] = StateOf(c, id) /\ State(c)'[id] = StateOf(c, id)'
  BY DEF State

LEMMA OtherStep ==
    ASSUME NEW c \in Conns, Told(c)' = {}, Asked(c)' = Asked(c), Late(c)' = Late(c),
           \A id \in PushIds : StateOf(c, id)' = StateOf(c, id)
    PROVE  Service(c)!Other
  BY StateMap DEF Service!Other

LEMMA EndStep ==
    ASSUME NEW c \in Conns, Told(c)' = {}, Asked(c)' = 0, Late(c)' = FALSE,
           \A id \in PushIds : StateOf(c, id)' = "ended"
    PROVE  Service(c)!End
  BY StateMap DEF Service!End, Service!Calls, PushIds

LEMMA AskStep ==
    ASSUME NEW c \in Conns, NEW id \in PushIds, Told(c)' = {}, Asked(c) = 0, Asked(c)' = id,
           Late(c)' = Late(c), \A i \in PushIds : StateOf(c, i)' = StateOf(c, i)
    PROVE  Service(c)!Ask(id)
  BY StateMap DEF Service!Ask

LEMMA IssueStep ==
    ASSUME NEW c \in Conns, NEW id \in PushIds, Told(c)' = {}, Asked(c) = 0, Asked(c)' = 0,
           Late(c)' = Late(c), StateOf(c, id) = "unissued", StateOf(c, id)' = "waiting",
           \A i \in 1..(id - 1) : StateOf(c, i) # "unissued",
           \A i \in PushIds \ {id} : StateOf(c, i)' = StateOf(c, i)
    PROVE  Service(c)!Issue(id)
  <1> DEFINE waiting == Service(c)!Waiting
  <1> DEFINE outcome == [i \in waiting |-> "value"]
  <1>1. outcome \in [waiting -> Results]
    BY DEF Results
  <1>2. State(c)' = [i \in PushIds |-> IF i = id THEN "waiting"
                                       ELSE IF i \in {} THEN outcome[i] ELSE State(c)[i]]
    BY StateMap
  <1>3. \A i \in 1..(id - 1) : State(c)[i] # "unissued"
    BY StateMap, EndpointAssumption DEF PushIds
  <1> HIDE DEF waiting, outcome
  <1>4. \E done \in SUBSET waiting, first \in {"waiting", "gone"} \cup Results,
           o \in [waiting -> Results] :
              State(c)' = [i \in PushIds |-> IF i = id THEN first
                                             ELSE IF i \in done THEN o[i] ELSE State(c)[i]]
    <2>1. {} \in SUBSET waiting /\ "waiting" \in {"waiting", "gone"} \cup Results
      OBVIOUS
    <2> QED
      BY <1>1, <1>2, <2>1
  <1>5. State(c)[id] = "unissued" /\ UNCHANGED <<Asked(c), Late(c)>>
    BY StateMap
  <1> QED
    BY <1>3, <1>4, <1>5
    DEF waiting, Service!Issue, Service!Calls, Service!Outcomes, PushIds, Results

LEMMA CompleteStep ==
    ASSUME NEW c \in Conns, NEW done, \A id \in done : StateOf(c, id)' \in Results,
           \A id \in PushIds \ done : StateOf(c, id)' = StateOf(c, id)
    PROVE  Service(c)!Complete(done)
  <1> DEFINE outcome == [id \in done |-> StateOf(c, id)']
  <1>1. outcome \in [done -> Results]
    OBVIOUS
  <1>2. State(c)' = [id \in PushIds |-> IF id \in done THEN outcome[id] ELSE State(c)[id]]
    BY StateMap
  <1> QED
    BY <1>1, <1>2 DEF Service!Complete, Service!Calls, Service!Outcomes, PushIds, Results

LEMMA WorkStep ==
    ASSUME NEW c \in Conns, Told(c)' = {}, Asked(c)' = Asked(c), Late(c)' = Late(c),
           \A id \in PushIds : \/ StateOf(c, id)' = StateOf(c, id)
                               \/ StateOf(c, id) = "waiting" /\ StateOf(c, id)' \in Results
    PROVE  Service(c)!Work
  <1> DEFINE done == {id \in PushIds : StateOf(c, id)' # StateOf(c, id)}
  <1>1. done \in SUBSET Service(c)!Waiting
    BY StateMap DEF Service!Waiting, Service!Calls, PushIds
  <1>2. Service(c)!Complete(done)
    BY CompleteStep
  <1> HIDE DEF done
  <1> QED
    BY <1>1, <1>2 DEF Service!Work

LEMMA WorkLateStep ==
    ASSUME NEW c \in Conns, NEW id \in PushIds, Told(c)' = {}, Asked(c) = id, Asked(c)' = id,
           Late(c) = FALSE, Late(c)' = TRUE,
           StateOf(c, id) = "waiting", StateOf(c, id)' \in Results,
           \A i \in PushIds \ {id} : StateOf(c, i)' = StateOf(c, i)
    PROVE  Service(c)!WorkLate
  <1>1. Service(c)!Complete({id})
    BY CompleteStep
  <1>2. id \in Service(c)!Waiting /\ {id} \in SUBSET Service(c)!Waiting
    BY StateMap DEF Service!Waiting, Service!Calls, PushIds
  <1> QED
    BY <1>1, <1>2 DEF Service!WorkLate

LEMMA TellStep ==
    ASSUME NEW c \in Conns, NEW id \in PushIds, Asked(c) = id, Asked(c)' = 0, Late(c)' = FALSE,
           NEW type \in Service(c)!TypesOf(id), Told(c)' = {[call |-> id, type |-> type]},
           StateOf(c, id)' = IF Late(c) \/ StateOf(c, id) \in {"unissued", "ended"}
                             THEN StateOf(c, id) ELSE "gone",
           \A i \in PushIds \ {id} : StateOf(c, i)' = StateOf(c, i)
    PROVE  Service(c)!Tell
  <1> DEFINE waiting == Service(c)!Waiting
  <1> DEFINE outcome == [i \in waiting |-> "value"]
  <1> DEFINE left(i) == IF i # Asked(c) \/ Late(c) \/ State(c)[i] \in {"unissued", "ended"}
                        THEN State(c)[i] ELSE "gone"
  <1>1. outcome \in [waiting -> Results]
    BY DEF Results
  <1>2. State(c)' = [i \in PushIds |-> IF i \in {} THEN outcome[i] ELSE left(i)]
    BY StateMap
  <1> HIDE DEF waiting, outcome
  <1>3. \E done \in SUBSET {i \in waiting \ {Asked(c)} : Asked(c) \in waiting},
           o \in [waiting -> Results] :
           State(c)' = [i \in PushIds |-> IF i \in done THEN o[i] ELSE left(i)]
    <2>1. {} \in SUBSET {i \in waiting \ {Asked(c)} : Asked(c) \in waiting}
      OBVIOUS
    <2> QED
      BY <1>1, <1>2, <2>1
  <1>4. Asked(c) # 0
    BY EndpointAssumption DEF PushIds
  <1> QED
    BY <1>3, <1>4 DEF waiting, Service!Tell, Service!Calls, Service!Outcomes, PushIds, Results

-----------------------------------------------------------------------------
(* What the endpoint's steps are seen to do.                               *)

\* A step that sends the connection no answer tells it nothing.
LEMMA Silent ==
    ASSUME NEW c \in Conns,
           \A k \in DOMAIN out' : out'[k].conn = c => out'[k].type \notin {"resolve", "reject"}
    PROVE  Told(c)' = {}
  BY DEF Told

LEMMA SendsSilent ==
    ASSUME NEW c \in Conns, NEW d, NEW types \in {<<>>, <<"release">>, <<"abort">>},
           Sends(d, types)
    PROVE  Told(c)' = {}
  <1>1. \A k \in DOMAIN out' : out'[k].type \in {"release", "abort"}
    BY DEF Sends, Frame
  <1> QED
    BY <1>1, Silent

\* The methods the endpoint calls have no way to call the client.
LEMMA MethodSilent ==
    ASSUME NEW c \in Conns, host = "endpoint", out' \in MethodSends
    PROVE  Told(c)' = {}
  <1>1. out' = <<>>
    BY DEF MethodSends
  <1> QED
    BY <1>1, Silent

\* Between handlers nothing is asked.
LEMMA NotServed ==
    ASSUME NEW c \in Conns
    PROVE  /\ Idle \/ handler.conn # c => Asked(c) = 0 /\ Late(c) = FALSE
           /\ ~handler'.busy \/ handler'.conn # c => Asked(c)' = 0 /\ Late(c)' = FALSE
  BY DEF Asked, Late, Serves, Idle

\* The states follow the export table and the phase of the connection.
LEMMA TablesKeepStates ==
    ASSUME NEW c \in Conns, NEW id \in PushIds,
           calls'[c][id] = calls[c][id], phase'[c] = phase[c], nextExportId'[c] = nextExportId[c]
    PROVE  StateOf(c, id)' = StateOf(c, id)
  BY DEF StateOf

\* A step of another connection's handler is about no call of this one.
LEMMA OthersMap ==
    ASSUME IInv, Next, vars' # vars, NEW c \in Conns, handler'.conn # c
    PROVE  Service(c)!Other
  <1>1. Told(c)' = {}
    BY FramesStep, Silent
  <1>2. Idle \/ handler.conn # c
    BY BusyStays DEF Idle
  <1>3. \A id \in PushIds : StateOf(c, id)' = StateOf(c, id)
    BY OthersStay, TablesKeepStates
  <1> QED
    BY <1>1, <1>2, <1>3, NotServed, OtherStep

\* A connection that is closed takes its calls with it.
LEMMA ClosedEnds ==
    ASSUME TypeOK, NEW c \in Conns, Ran(c), phase' = [phase EXCEPT ![c] = "closed"],
           NEW types \in {<<>>, <<"release">>, <<"abort">>}, Sends(c, types)
    PROVE  Service(c)!End
  <1>1. \A id \in PushIds : StateOf(c, id)' = "ended"
    BY DEF TypeOK, StateOf
  <1>2. Asked(c)' = 0 /\ Late(c)' = FALSE
    BY NotServed DEF Ran
  <1> QED
    BY <1>1, <1>2, SendsSilent, EndStep

LEMMA OpenMaps ==
    ASSUME IInv, NEW c \in Conns, Open(c)
    PROVE  Service(c)!Other
  <1>1. /\ Idle /\ phase[c] = "new" /\ phase'[c] = "open" /\ nextExportId'[c] = 1
        /\ ~handler'.busy /\ Sends(c, <<>>)
    BY DEF Open, ResetTables, Ran, IInv, TypeOK
  <1>2. nextExportId[c] = 1
    BY <1>1 DEF IInv, CallsInTurn
  <1>3. \A id \in PushIds : StateOf(c, id) = "unissued" /\ StateOf(c, id)' = "unissued"
    BY <1>1, <1>2, EndpointAssumption DEF StateOf, PushIds
  <1> QED
    BY <1>1, <1>3, NotServed, SendsSilent, OtherStep

LEMMA PushMaps ==
    ASSUME IInv, NEW c \in Conns, ReceivePush(c)
    PROVE  \E id \in PushIds : Service(c)!Issue(id)
  <1>0. PICK n \in PushIds : n = nextExportId[c]
    BY DEF ReceivePush
  <1>1. /\ Idle /\ phase[c] = "open" /\ phase' = phase
        /\ calls' = [calls EXCEPT ![c][n] = "operation"]
        /\ nextExportId' = [nextExportId EXCEPT ![c] = n + 1]
        /\ Runs(c, 0) /\ Sends(c, <<>>)
    BY <1>0 DEF ReceivePush, Receive
  <1>2. /\ n \in Nat /\ PushIds \subseteq Nat /\ nextExportId'[c] = n + 1
        /\ calls'[c][n] = "operation"
        /\ \A i \in PushIds \ {n} : calls'[c][i] = calls[c][i]
    BY <1>0, <1>1, EndpointAssumption DEF IInv, TypeOK, PushIds
  <1>3. StateOf(c, n) = "unissued" /\ StateOf(c, n)' = "waiting"
    BY <1>0, <1>1, <1>2 DEF StateOf
  <1>4. \A i \in PushIds \ {n} : StateOf(c, i)' = StateOf(c, i)
    <2> SUFFICES ASSUME NEW i \in PushIds, i # n PROVE StateOf(c, i)' = StateOf(c, i)
      OBVIOUS
    <2>1. (i >= n) <=> (i >= n + 1)
      <3>1. \A a, b \in Int : a # b => ((a >= b) <=> (a >= b + 1))
        OBVIOUS
      <3>2. i \in Int /\ n \in Int
        BY <1>2
      <3> QED
        BY <3>1, <3>2
    <2> QED
      BY <1>0, <1>1, <1>2, <2>1 DEF StateOf
  <1>5. \A i \in 1..(n - 1) : StateOf(c, i) # "unissued"
    <2> SUFFICES ASSUME NEW i \in 1..(n - 1) PROVE StateOf(c, i) # "unissued"
      OBVIOUS
    <2>1. i \in PushIds /\ ~(i >= n)
      BY <1>0, EndpointAssumption DEF PushIds
    <2>2. calls[c][i] \in Held
      BY <2>1 DEF IInv, TypeOK
    <2> QED
      BY <1>0, <1>1, <2>1, <2>2 DEF StateOf, Held, Results
  <1>6. Asked(c) = 0 /\ Asked(c)' = 0 /\ Late(c)' = Late(c)
    BY <1>1, NotServed DEF Asked, Late, Serves, Runs
  <1>7. Told(c)' = {}
    BY <1>1, SendsSilent
  <1> QED
    BY <1>1, <1>3, <1>4, <1>5, <1>6, <1>7, IssueStep

LEMMA PullMaps ==
    ASSUME IInv, NEW c \in Conns, NEW id \in PushIds, ReceivePull(c, id)
    PROVE  Service(c)!Ask(id)
  <1>1. /\ Idle /\ Runs(c, id) /\ Sends(c, <<>>)
        /\ UNCHANGED <<phase, calls, nextExportId>>
    BY DEF ReceivePull, Receive, tables
  <1>2. Asked(c) = 0 /\ Asked(c)' = id /\ Late(c)' = Late(c)
    BY <1>1, NotServed DEF Asked, Late, Serves, Runs
  <1>3. \A i \in PushIds : StateOf(c, i)' = StateOf(c, i)
    BY <1>1 DEF StateOf
  <1>4. Told(c)' = {}
    BY <1>1, SendsSilent
  <1> QED
    BY <1>2, <1>3, <1>4, AskStep

\* An id that holds something has been issued.
LEMMA HeldIsIssued ==
    ASSUME IInv, NEW c \in Conns, NEW id \in PushIds, phase[c] = "open", calls[c][id] # "none"
    PROVE  StateOf(c, id) = IF calls[c][id] = "operation" THEN "waiting" ELSE calls[c][id]
  BY DEF IInv, CallsInTurn, StateOf

LEMMA TaskMaps ==
    ASSUME IInv, host = "endpoint", NEW c \in Conns, handler.conn = c, RunTask
    PROVE  Service(c)!Work
  <1>1. /\ phase[c] = "open" /\ handler' = handler /\ out' \in MethodSends
        /\ UNCHANGED <<phase, nextExportId>>
    BY DEF RunTask, IInv, ServesOpen
  <1>2. Told(c)' = {}
    BY <1>1, MethodSilent
  <1>3. Asked(c)' = Asked(c) /\ Late(c)' = Late(c)
    BY <1>1 DEF Asked, Late, Serves
  <1>4. ASSUME NEW id \in PushIds
        PROVE  \/ StateOf(c, id)' = StateOf(c, id)
               \/ StateOf(c, id) = "waiting" /\ StateOf(c, id)' \in Results
    <2>1. CASE calls'[c][id] = calls[c][id]
      BY <1>1, <2>1, TablesKeepStates
    <2>2. CASE calls[c][id] = "operation" /\ calls'[c][id] \in Results
      <3>1. StateOf(c, id) = "waiting" /\ ~(id >= nextExportId[c])
        BY <1>1, <2>2, HeldIsIssued DEF IInv, CallsInTurn
      <3>2. StateOf(c, id)' = calls'[c][id]
        BY <1>1, <2>2, <3>1 DEF StateOf, Results
      <3> QED
        BY <2>2, <3>1, <3>2
    <2> QED
      BY <2>1, <2>2, TaskMoves DEF IInv
  <1> QED
    BY <1>2, <1>3, <1>4, WorkStep

\* The pull that is being handled.
LEMMA PullingAsks ==
    ASSUME IInv, NEW c \in Conns, handler.conn = c, Pulling
    PROVE  /\ handler.pull \in PushIds /\ Asked(c) = handler.pull /\ Late(c) = handler.late
           /\ handler.late \in BOOLEAN /\ phase[c] = "open" /\ Pulled = calls[c][handler.pull]
           /\ Pulled \in Held
  BY PulledCall DEF Pulling, Asked, Late, Serves, IInv, ServesOpen, TypeOK, Handler, Pulled

LEMMA LateMaps ==
    ASSUME IInv, host = "endpoint", NEW c \in Conns, handler.conn = c, RunLate
    PROVE  Service(c)!WorkLate
  <1>0. PICK p \in PushIds : p = handler.pull
    BY PullingAsks DEF RunLate
  <1>1. /\ Asked(c) = p /\ phase[c] = "open" /\ calls[c][p] = "operation"
        /\ handler.busy /\ handler.late \in BOOLEAN /\ Late(c) = handler.late
    BY <1>0, PullingAsks DEF RunLate, Pulling
  <1>2. ~handler.late
    BY <1>0, <1>1 DEF IInv, CallsInTurn, Results, Pulled
  <1>3. PICK result \in Results : Stores(c, p, result)
    BY <1>0 DEF RunLate
  <1>4. \A i \in PushIds : calls'[c][i] = IF i = p THEN result ELSE calls[c][i]
    BY <1>1, <1>3, StoreHolds DEF IInv, TypeOK
  <1>5. /\ handler' = [handler EXCEPT !.late = TRUE] /\ out' \in MethodSends
        /\ UNCHANGED <<phase, nextExportId>>
    BY DEF RunLate
  <1>6. Asked(c)' = p /\ Late(c)' = TRUE
    BY <1>0, <1>1, <1>5 DEF Asked, Late, Serves, IInv, TypeOK, Handler
  <1>7. StateOf(c, p) = "waiting" /\ ~(p >= nextExportId[c])
    BY <1>1, HeldIsIssued DEF IInv, CallsInTurn
  <1>8. StateOf(c, p)' = result
    BY <1>1, <1>4, <1>5, <1>7 DEF StateOf, Results
  <1>9. \A i \in PushIds \ {p} : StateOf(c, i)' = StateOf(c, i)
    BY <1>4, <1>5, TablesKeepStates
  <1>10. Told(c)' = {}
    BY <1>5, MethodSilent
  <1> QED
    BY <1>1, <1>2, <1>3, <1>6, <1>7, <1>8, <1>9, <1>10, WorkLateStep

\* An answer, and what it leaves of the call.
LEMMA AnswerTells ==
    ASSUME IInv, NEW c \in Conns, handler.conn = c, NEW held \in Held, Answering(held),
           NEW type \in {"resolve", "reject"}, out' = Answers(type),
           type \in Service(c)!TypesOf(handler.pull),
           held = IF handler.late THEN Pulled ELSE "none"
    PROVE  Service(c)!Tell
  <1>0. PICK p \in PushIds : p = handler.pull
    BY PullingAsks DEF Answering
  <1>1. /\ Asked(c) = p /\ Late(c) = handler.late /\ handler.late \in BOOLEAN
        /\ phase[c] = "open" /\ Pulled = calls[c][p] /\ Pulled \in Held
    BY <1>0, PullingAsks DEF Answering
  <1>2. \A i \in PushIds : calls'[c][i] = IF i = p THEN held ELSE calls[c][i]
    BY <1>0, <1>1, StoreHolds DEF Answering, IInv, TypeOK
  <1>3. Runs(c, 0) /\ UNCHANGED <<phase, nextExportId>>
    BY DEF Answering
  <1>4. Asked(c)' = 0 /\ Late(c)' = FALSE
    BY <1>3 DEF Asked, Late, Serves, Runs
  <1>5. Told(c)' = {[call |-> p, type |-> type]}
    <2>1. out' = << Frame(c, type, p) >>
      BY <1>0 DEF Answers
    <2>2. /\ DOMAIN out' = {1} /\ out'[1].conn = c /\ out'[1].type = type /\ out'[1].id = p
      BY <2>1 DEF Frame
    <2> QED
      BY <2>2 DEF Told
  <1>6. \A i \in PushIds \ {p} : StateOf(c, i)' = StateOf(c, i)
    BY <1>2, <1>3, TablesKeepStates
  <1>7. StateOf(c, p)' = IF Late(c) \/ StateOf(c, p) \in {"unissued", "ended"}
                         THEN StateOf(c, p) ELSE "gone"
    <2>1. CASE handler.late
      <3>1. calls'[c][p] = calls[c][p]
        BY <1>1, <1>2, <2>1
      <3> QED
        BY <1>1, <1>3, <2>1, <3>1, TablesKeepStates
    <2>2. CASE ~handler.late
      <3>1. calls'[c][p] = "none"
        BY <1>1, <1>2, <2>2
      <3>2. CASE p >= nextExportId[c]
        BY <1>1, <1>3, <3>1, <3>2 DEF StateOf
      <3>3. CASE ~(p >= nextExportId[c])
        <4>1. StateOf(c, p)' = "gone"
          BY <1>1, <1>3, <3>1, <3>3 DEF StateOf
        <4>2. StateOf(c, p) \notin {"unissued", "ended"}
          BY <1>1, <3>3 DEF StateOf, Held, Results
        <4> QED
          BY <1>1, <2>2, <4>1, <4>2
      <3> QED
        BY <3>2, <3>3
    <2> QED
      BY <2>1, <2>2
  <1> QED
    BY <1>0, <1>1, <1>4, <1>5, <1>6, <1>7, TellStep

LEMMA AnswerMaps ==
    ASSUME IInv, host = "endpoint", NEW c \in Conns, handler.conn = c, AnswerPull
    PROVE  Service(c)!Tell
  <1>1. Pulling
    BY AnswerHolds DEF Answering
  <1>0. PICK p \in PushIds : p = handler.pull
    BY <1>1, PullingAsks
  <1>2. /\ Late(c) = handler.late /\ handler.late \in BOOLEAN
        /\ phase[c] = "open" /\ Pulled = calls[c][p] /\ Pulled \in Held
        /\ State(c)[p] = StateOf(c, p)
    BY <1>0, <1>1, PullingAsks, StateMap
  <1>3. handler.late => Pulled \in Results
    BY DEF IInv, CallsInTurn
  <1>4. CASE AnswerResult
    <2>1. Pulled \in Results /\ ~handler.late /\ StateOf(c, p) = Pulled
      BY <1>2, <1>4, HeldIsIssued DEF AnswerResult, Results
    <2>2. PICK type \in {"resolve", "reject"} :
             out' = Answers(type) /\ type = IF Pulled = "value" THEN "resolve" ELSE "reject"
      BY <1>4 DEF AnswerResult
    <2>3. type \in Service(c)!TypesOf(p)
      BY <1>2, <2>1, <2>2 DEF Service!TypesOf
    <2> QED
      BY <1>0, <1>4, <2>1, <2>2, <2>3, AnswerTells DEF AnswerResult, Held
  <1>5. CASE AnswerLate
    <2>1. PICK type \in {"resolve", "reject"} : out' = Answers(type)
      BY <1>5 DEF AnswerLate
    <2>2. type \in Service(c)!TypesOf(p)
      BY <1>2, <1>5 DEF Service!TypesOf, AnswerLate
    <2> QED
      BY <1>0, <1>2, <1>5, <2>1, <2>2, AnswerTells DEF AnswerLate
  <1>6. CASE AnswerThrow \/ AnswerNotFound
    <2>1. Pulled \in {"operation", "none"} /\ ~handler.late
      BY <1>2, <1>3, <1>6 DEF AnswerThrow, AnswerNotFound, Results
    <2>2. Answering("none") /\ out' = Answers("reject")
      <3>1. CASE AnswerThrow
        <4>1. PICK sent \in MethodSends : out' = sent \o Answers("reject")
          BY <3>1 DEF AnswerThrow
        <4>2. sent = <<>>
          BY <4>1 DEF MethodSends
        <4>3. <<>> \o Answers("reject") = Answers("reject")
          BY DEF Answers
        <4> QED
          BY <3>1, <4>1, <4>2, <4>3 DEF AnswerThrow
      <3>2. CASE AnswerNotFound
        BY <3>2 DEF AnswerNotFound
      <3> QED
        BY <1>6, <3>1, <3>2
    <2>3. StateOf(c, p) # "value"
      BY <1>2, <2>1 DEF StateOf
    <2>4. "reject" \in Service(c)!TypesOf(p)
      BY <1>2, <2>1, <2>3 DEF Service!TypesOf
    <2> QED
      BY <1>0, <2>1, <2>2, <2>4, AnswerTells DEF Held
  <1> QED
    BY <1>4, <1>5, <1>6 DEF AnswerPull

\* Under the endpoint a handler that throws closes its connection.
LEMMA FailMaps ==
    ASSUME TypeOK, host = "endpoint", NEW c \in Conns, NEW used, Fail(c, used)
    PROVE  Service(c)!End
  BY ClosedEnds DEF Fail, AbortAndClose

\* Every step under the endpoint is a step of the service of each connection, or
\* changes nothing of it.
LEMMA ServiceStep ==
    ASSUME IInv, [Next]_vars, host = "endpoint", NEW c \in Conns
    PROVE  [Service(c)!Next]_(Service(c)!vars)
  <1>1. CASE UNCHANGED vars
    <2>1. UNCHANGED <<phase, calls, nextExportId, handler, out>>
      BY <1>1 DEF vars, tables
    <2>2. UNCHANGED <<State(c), Asked(c), Late(c), Told(c)>>
      BY <2>1 DEF State, StateOf, Asked, Late, Serves, Told
    <2> QED
      BY <2>2 DEF Service!vars
  <1>2. CASE Next /\ vars' # vars /\ handler'.conn # c
    BY <1>2, OthersMap DEF Service!Next
  <1>3. CASE Next /\ vars' # vars /\ handler'.conn = c
    <2>1. ASSUME NEW d \in Conns, Open(d) \/ Close(d) \/ Message(d) PROVE Service(c)!Next
      <3>1. d = c
        BY <1>3, <2>1 DEF Open, Close, Message, ReceivePush, ReceivePull, ReceiveAbort,
                          ReceiveMalformed, ReceiveAborted, Fail, Log, Ran, Runs
      <3>2. CASE Open(c)
        BY <3>2, OpenMaps DEF Service!Next
      <3>3. CASE Close(c)
        BY <3>3, ClosedEnds DEF Close, IInv, Service!Next
      <3>4. CASE ReceivePush(c)
        BY <3>4, PushMaps DEF Service!Next, Service!Calls, PushIds
      <3>5. CASE \E id \in PushIds : ReceivePull(c, id)
        BY <3>5, PullMaps DEF Service!Next, Service!Calls, PushIds
      <3>6. CASE ReceiveAbort(c) \/ ReceiveAborted(c)
        BY <3>6, ClosedEnds DEF ReceiveAbort, ReceiveAborted, AbortAndClose, IInv, Service!Next
      <3>7. CASE ReceiveMalformed(c)
        BY <3>7, FailMaps DEF ReceiveMalformed, IInv, Service!Next
      <3> QED
        BY <2>1, <3>1, <3>2, <3>3, <3>4, <3>5, <3>6, <3>7 DEF Message
    <2>2. CASE RunTask \/ RunLate \/ AnswerPull \/ AnswerThrows \/ EndHandler
      <3>1. handler.busy /\ handler.conn = c
        BY <1>3, <2>2, AnswerHolds, BusyStays DEF RunTask, RunLate, Answering, AnswerThrows,
                                                  EndHandler, Pulling
      <3>2. CASE RunTask
        BY <3>1, <3>2, TaskMaps DEF Service!Next
      <3>3. CASE RunLate
        BY <3>1, <3>3, LateMaps DEF Service!Next
      <3>4. CASE AnswerPull
        BY <3>1, <3>4, AnswerMaps DEF Service!Next
      <3>5. CASE AnswerThrows
        BY <3>1, <3>5, FailMaps DEF AnswerThrows, IInv, Service!Next
      <3>6. CASE EndHandler
        <4>1. /\ handler.pull = 0 /\ ~handler'.busy /\ Sends(c, <<>>)
              /\ UNCHANGED <<phase, calls, nextExportId>>
          BY <3>1, <3>6 DEF EndHandler, Ran, tables
        <4>2. Asked(c) = 0 /\ Late(c) = FALSE
          BY <4>1 DEF Asked, Late, IInv, TypeOK, Handler, CallsInTurn
        <4>3. \A id \in PushIds : StateOf(c, id)' = StateOf(c, id)
          BY <4>1, TablesKeepStates
        <4>4. Service(c)!Other
          BY <4>1, <4>2, <4>3, NotServed, SendsSilent, OtherStep
        <4> QED
          BY <4>4 DEF Service!Next
      <3> QED
        BY <2>2, <3>2, <3>3, <3>4, <3>5, <3>6
    <2> QED
      BY <1>3, <2>1, <2>2 DEF Next, Finished
  <1> QED
    BY <1>1, <1>2, <1>3

LEMMA ServiceInit ==
    ASSUME Init, NEW c \in Conns
    PROVE  Service(c)!Init
  <1>1. State(c) = [id \in PushIds |-> "unissued"]
    BY EndpointAssumption DEF Init, State, StateOf, PushIds
  <1>2. Asked(c) = 0 /\ Late(c) = FALSE /\ Told(c) = {}
    BY DEF Init, Asked, Late, Serves, Told
  <1> QED
    BY <1>1, <1>2 DEF Service!Init, Service!Calls, PushIds

LEMMA HostStays == [Next]_vars => host' = host
  BY DEF Next, Message, Open, Close, Receive, ReceivePush, ReceivePull, ReceiveAbort,
         ReceiveMalformed, ReceiveAborted, RunTask, RunLate, AnswerPull, AnswerResult,
         AnswerLate, AnswerThrow, AnswerNotFound, Answering, AnswerThrows, EndHandler,
         Finished, vars

-----------------------------------------------------------------------------
(* Theorems.                                                               *)

\* The tables of every connection, the shared queue and the flags keep their types.
THEOREM TypeCorrect == Spec => []TypeOK
  BY Invariance, PTL DEF IInv

\* No queued call refers to the data of a connection that is gone.
THEOREM QueuedCallsAreSafe == Spec => []TasksHaveConnections
  <1>1. IInv => TasksHaveConnections
    BY DEF IInv, QueueIsOwn, ServesOpen, TasksHaveConnections, Idle
  <1> QED
    BY <1>1, Invariance, PTL

\* Under the endpoint every pull of a connection that stays open is answered.
THEOREM PullsGetAnswers == Spec => []PullsAreAnswered
  <1>1. IInv => PullsAreAnswered
    BY DEF IInv, TypeOK, PullsAreHandled, PullsAreAnswered, Idle
  <1> QED
    BY <1>1, Invariance, PTL

\* A frame is only ever sent to the connection whose handler runs.
THEOREM FramesReachTheCaller == Spec => FramesGoToTheCaller
  <1>1. ASSUME IInv, [Next]_vars
        PROVE  [\A k \in DOMAIN out' : out'[k].conn = handler'.conn]_vars
    BY <1>1, FramesStep
  <1> QED
    BY <1>1, Invariance, PTL DEF Spec, FramesGoToTheCaller

\* A step on one connection leaves the calls of the others alone.
THEOREM OthersAreKept == Spec => OthersKeepTheirCalls
  <1>1. ASSUME IInv, IInv', [Next]_vars
        PROVE  [\A c \in Conns \ {handler'.conn} :
                    /\ calls'[c] = calls[c]
                    /\ QueuedFor(c, microtasks') = QueuedFor(c, microtasks)]_vars
    <2> SUFFICES ASSUME Next, vars' # vars, NEW d \in Conns, d # handler'.conn
                 PROVE  calls'[d] = calls[d]
                        /\ QueuedFor(d, microtasks') = QueuedFor(d, microtasks)
      BY <1>1
    <2>1. QueuedFor(d, microtasks') = {}
      BY <1>1 DEF IInv, QueueIsOwn, QueuedFor
    <2>2. QueuedFor(d, microtasks) = {}
      <3>1. CASE Idle
        BY <1>1, <3>1 DEF IInv, QueueIsOwn, QueuedFor
      <3>2. CASE ~Idle
        <4>1. handler'.conn = handler.conn
          BY <1>1, <3>2, BusyStays DEF Idle
        <4> QED
          BY <1>1, <4>1 DEF IInv, QueueIsOwn, QueuedFor
      <3> QED
        BY <3>1, <3>2
    <2> QED
      BY <1>1, <2>1, <2>2, OthersStay
  <1> QED
    BY <1>1, Invariance, PTL DEF Spec, OthersKeepTheirCalls

\* Under the endpoint, every connection of the shared session has a service of its own.
THEOREM ConnectionsAreServices == Spec => ImplementsServices
  <1>1. Init => (host = "endpoint" => \A c \in Conns : Service(c)!Init)
    BY ServiceInit
  <1>2. ASSUME IInv, [Next]_vars
        PROVE  [host = "endpoint" =>
                    \A c \in Conns : [Service(c)!Next]_(Service(c)!vars)]_vars
    BY <1>2, ServiceStep
  <1> QED
    BY <1>1, <1>2, Invariance, PTL DEF Spec, ImplementsServices

\* The same for one connection: what it can tell is a behaviour of CallService.
THEOREM ConnectionImplements ==
    ASSUME NEW c \in Conns
    PROVE  Spec /\ host = "endpoint" => Service(c)!Spec
  <1>1. Init => Service(c)!Init
    BY ServiceInit
  <1>2. host = "endpoint" /\ IInv /\ [Next]_vars =>
            (host = "endpoint")' /\ [Service(c)!Next]_(Service(c)!vars)
    BY HostStays, ServiceStep
  <1> QED
    BY <1>1, <1>2, Invariance, PTL DEF Spec, Service!Spec
=============================================================================
