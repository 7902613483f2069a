---------------------- MODULE RpcSessionServiceProofs ----------------------
(* The theorem that RpcSession, under a host that drains the queue after    *)
(* each frame, implements CallService.                                      *)
EXTENDS RpcSessionQueueProofs, RpcSessionService

-----------------------------------------------------------------------------
(* What the steps do to the entry of a pushed call.                        *)

\* The call stays as it is, or it waited and gets its result.
Advances(x) ==
    \/ exports'[x].phase = exports[x].phase /\ exports'[x].result = exports[x].result
    \/ exports[x].phase = "operation" /\ exports'[x].phase = "result"

LEMMA CachedAdvances ==
    ASSUME TypeOK, NEW early, \A p \in early : HasOperation(exports, p), NEW x \in Ids
    PROVE  /\ Cached(early) \in [Ids -> Entry]
           /\ \/ Cached(early)[x] = exports[x]
              \/ exports[x].phase = "operation" /\ Cached(early)[x].phase = "result"
<1>1. exports \in [Ids -> Entry]
  BY DEF TypeOK
<1>2. Cached(early) \in [Ids -> Entry]
  BY <1>1, CachedStaysTyped
<1>3. x \in early => exports[x].phase = "operation"
  BY DEF HasOperation
<1> QED
  BY <1>1, <1>2, <1>3 DEF Cached, Entry

LEMMA RemapAdvances ==
    ASSUME TypeOK, NEW base \in {0} \cup Ids, NEW names \in Pipes, NEW captures \in Args,
           ReceiveRemap(base, names, captures), NEW x \in PushIds
    PROVE  \/ x = nextExportId /\ exports'[x].phase = "result"
           \/ x # nextExportId /\ Advances(x)
<1>1. nextExportId \in Ids /\ x \in Ids /\ x \notin NegIds
  BY PushesAreNotNegative DEF ReceiveRemap, Ids
<1>2. PICK early \in Ran({base} \cup names) :
         MethodBody(Put(Cached(early), nextExportId, Finished(None, NoHook, captures)),
                    nextExportId, ResultsOf(Cached(early), {base} \cup names))
  BY DEF ReceiveRemap
<1> DEFINE read == Cached(early)
<1> DEFINE copied == ResultsOf(read, {base} \cup names)
<1> DEFINE table == Put(read, nextExportId, Finished(None, NoHook, captures))
<1>3. /\ read \in [Ids -> Entry]
      /\ \/ read[x] = exports[x]
         \/ exports[x].phase = "operation" /\ read[x].phase = "result"
  BY <1>1, RanAreOperations, CachedAdvances
<1>4. table \in [Ids -> Entry]
  BY <1>1, <1>3, ArgsAreBags, ResultKinds, FreshEntries, PutTyped
<1>5. x # nextExportId => table[x] = read[x]
  BY <1>1, <1>3 DEF Put
<1>6. MethodBody(table, nextExportId, copied) /\ ~Taken(x)
  BY <1>1, <1>2 DEF Taken
<1> HIDE DEF read, table, copied
<1> QED
  BY <1>1, <1>3, <1>4, <1>5, <1>6, MethodBodyEntries DEF Advances

LEMMA TaskAdvances ==
    ASSUME TypeOK, RunTask \/ RunTaskUnresolved \/ RunTaskForeign,
           exports[Head(microtasks).id].phase = "operation", NEW x \in PushIds
    PROVE  Advances(x)
<1> DEFINE task == Head(microtasks)
<1>1. task.id \in Ids /\ x \in Ids /\ ~Taken(x)
  BY PipesTyped, PushesAreNotNegative
     DEF RunTask, RunTaskUnresolved, RunTaskForeign, PopTask, TasksRun, Ids, Taken
<1>2. CASE RunTask
  <2> DEFINE early == Pending(task.pipes)
  <2> DEFINE copied == ResultsOf(Cached(early), task.pipes)
  <2>1. MethodBody(Cached(early), task.id, copied)
    BY <1>2 DEF RunTask
  <2>2. \A p \in early : HasOperation(exports, p)
    BY PendingAreOperations
  <2> HIDE DEF early, copied
  <2> QED
    BY <1>1, <2>1, <2>2, CachedAdvances, MethodBodyEntries DEF Advances
<1>3. CASE RunTaskUnresolved
  <2>1. PICK early \in Ran(task.pipes) : exports' = SetResult(Cached(early), task.id, Error)
    BY <1>3 DEF RunTaskUnresolved
  <2>2. \A p \in early : HasOperation(exports, p)
    BY RanAreOperations
  <2>3. /\ Cached(early) \in [Ids -> Entry]
        /\ \/ Cached(early)[x] = exports[x]
           \/ exports[x].phase = "operation" /\ Cached(early)[x].phase = "result"
    BY <1>1, <2>2, CachedAdvances
  <2>4. \/ x # task.id /\ exports'[x] = Cached(early)[x]
        \/ x = task.id /\ exports'[x].phase = "result"
    BY <1>1, <2>1, <2>3 DEF SetResult, Entry
  <2> QED
    BY <2>3, <2>4 DEF Advances
<1>4. CASE RunTaskForeign
  <2>1. PICK early \in Ran(task.pipes) : exports' = Cached(early)
    BY <1>4 DEF RunTaskForeign
  <2> QED
    BY <1>1, <2>1, RanAreOperations, CachedAdvances DEF Advances
<1> QED
  BY <1>2, <1>3, <1>4

LEMMA LateAdvances ==
    ASSUME TypeOK, RunLate, NEW x \in PushIds
    PROVE  Advances(x) /\ (x = pulling.id => exports'[x].phase = "result")
<1> DEFINE early == Pending(Refs(pulling.id))
<1> DEFINE copied == ResultsOf(Cached(early), Refs(pulling.id))
<1>1. /\ pulling.id \in Ids /\ exports[pulling.id].phase = "operation"
      /\ x \in Ids /\ ~Taken(x)
  BY PushesAreNotNegative DEF RunLate, LateRuns, HasOperation, Taken
<1>2. MethodBody(Cached(early), pulling.id, copied)
  BY DEF RunLate
<1>3. \A p \in early : HasOperation(exports, p)
  BY PendingAreOperations
<1> HIDE DEF early, copied
<1> QED
  BY <1>1, <1>2, <1>3, CachedAdvances, MethodBodyEntries DEF Advances

\* The server's calls on the client store bare promises under negative ids.
LEMMA ClientCallsKeepPushes ==
    ASSUME TypeOK, NEW r \in ClientRefs, AppUsesClient(r), NEW x \in PushIds
    PROVE  exports'[x] = exports[x]
<1>1. PICK last \in Lasts : exports' = WithPromises(exports, last)
  BY DEF AppUsesClient
<1>2. x \in Ids /\ x \notin FreshExports(last)
  BY FreshAreFree, PushesAreNotNegative
<1> QED
  BY <1>1, <1>2 DEF WithPromises

-----------------------------------------------------------------------------
(* The inductive invariant: handlers follow each other.                    *)

\* The entries of the pushes to come are free.
FutureIsFree == status = "open" => \A p \in PushIds : p >= nextExportId => exports[p].phase = "free"

\* At most one call is queued, it waits, and nothing else is going on.
OneWaits ==
    /\ Len(microtasks) <= 1
    /\ microtasks # <<>> => /\ exports[Head(microtasks).id].phase = "operation"
                            /\ status = "open" /\ pulling = NoPull

\* A pull is answered while the session is open; one whose call was run late has its result.
PullIsServed ==
    pulling # NoPull =>
        /\ status = "open"
        /\ pulling.late /\ pulling.id \in PushIds => exports[pulling.id].phase = "result"

HandlersInTurn == FutureIsFree /\ OneWaits /\ PullIsServed

\* Under a draining host a frame meets an empty queue and no open pull.
LEMMA IdleMeansEmpty == Drains /\ Idle => microtasks = <<>> /\ pulling = NoPull /\ status = "open"
BY DEF Idle

\* While a call is queued, only its task can run.
LEMMA QueuedRunFirst ==
    ASSUME Drains, OneWaits, [Next]_vars, microtasks # <<>>
    PROVE  PopTask \/ TaskCrashes \/ UNCHANGED vars
BY IdleMeansEmpty DEF OneWaits, Next, Receive, Handle, Ended, ReceiveCall, ReceiveOtherPush,
   ReceiveRemap, ReceivePull, ReceiveSettlement, ReceiveRelease, ReceiveAbort, ReceiveFatal,
   Abort, AppUsesClient, Close, RunTaskReleased, RunTaskUnresolved, RunTask, RunTaskForeign,
   RemapCrashes, LateCrashes, LateRuns, RunLate, Answer, AnswerNotFound, AnswerThrow, AnswerError,
   AnswerValue, AnswerKnownStub, AnswerNewStub, AnswerPromise, AnsweringResult, Answering

LEMMA PoppedQueue ==
    ASSUME TypeOK, OneWaits, PopTask
    PROVE  microtasks' = <<>> /\ exports[Head(microtasks).id].phase = "operation"
<1>1. microtasks \in Seq(Task) /\ microtasks # <<>> /\ microtasks' = Tail(microtasks)
  BY DEF TypeOK, PopTask, TasksRun
<1> QED
  BY <1>1, OneTask DEF OneWaits

\* No step but the push of its id gives a free entry of a push anything to hold.
LEMMA FreeStays ==
    ASSUME Drains, TypeOK, OneWaits, [Next]_vars, status' = "open",
           NEW x \in PushIds, exports[x].phase = "free",
           x # nextExportId \/ nextExportId' = nextExportId
    PROVE  exports'[x].phase = "free"
<1>0. exports \in [Ids -> Entry] /\ x \in Ids /\ x \notin NegIds /\ nextExportId \in Nat
  BY PushesAreNotNegative DEF TypeOK
<1>1. ASSUME NEW subject \in Subjects, NEW args \in Args, NEW pipes \in Pipes,
             ReceiveCall(subject, args, pipes)
      PROVE  exports'[x].phase = "free"
  <2>1. x # nextExportId
    BY <1>0, <1>1 DEF ReceiveCall
  <2> QED
    BY <1>0, <1>1, <2>1 DEF ReceiveCall, Put
<1>2. ASSUME NEW base \in {0} \cup Ids, NEW names \in Pipes, NEW captures \in Args,
             ReceiveRemap(base, names, captures)
      PROVE  exports'[x].phase = "free"
  <2>1. x # nextExportId
    BY <1>0, <1>2 DEF ReceiveRemap
  <2> QED
    BY <1>2, <2>1, RemapAdvances DEF Advances
<1>3. ASSUME NEW id \in Ids, NEW count \in 1..MaxRc, ReceiveRelease(id, count)
      PROVE  exports'[x].phase = "free"
  BY <1>0, <1>3 DEF ReceiveRelease, Release, Found, Free
<1>4. CASE RunTask \/ RunTaskUnresolved \/ RunTaskForeign
  <2>1. PopTask
    BY <1>4 DEF RunTask, RunTaskUnresolved, RunTaskForeign
  <2> QED
    BY <1>4, <2>1, PoppedQueue, TaskAdvances DEF Advances
<1>5. CASE RunLate
  BY <1>5, LateAdvances DEF Advances
<1>6. CASE Answer
  BY <1>0, <1>6, AnswerEntries
<1>7. CASE \E r \in ClientRefs : AppUsesClient(r)
  BY <1>7, ClientCallsKeepPushes
<1>8. CASE Abort \/ Close \/ Crash
  BY <1>8 DEF Abort, Close, Crash
<1>9. CASE \/ ReceiveOtherPush
           \/ \E id \in Ids : ReceivePull(id)
           \/ \E i \in CallIds \cup ClientPromises, type \in {"resolve", "reject"} :
                 ReceiveSettlement(i, type)
           \/ RunTaskReleased \/ UNCHANGED vars
  BY <1>9 DEF ReceiveOtherPush, ReceivePull, ReceiveSettlement, RunTaskReleased, vars, tables
<1> QED
  BY <1>1, <1>2, <1>3, <1>4, <1>5, <1>6, <1>7, <1>8, <1>9
     DEF Next, Receive, Handle, ReceiveAbort, ReceiveFatal, RemapCrashes, TaskCrashes,
         LateCrashes, Ended

\* What the steps do to the status and to the next push id.
LEMMA StatusSteps ==
    ASSUME TypeOK, [Next]_vars, status' = "open"
    PROVE  status = "open" /\ nextExportId' \in {nextExportId, nextExportId + 1}
<1>1. CASE Receive
  BY <1>1 DEF Receive, ReceiveCall, ReceiveOtherPush, ReceiveRemap, RemapCrashes, Crash,
              ReceivePull, ReceiveSettlement, ReceiveRelease, ReceiveAbort, ReceiveFatal, Abort,
              control, tables
<1>2. CASE Handle
  BY <1>2 DEF Handle, TaskCrashes, LateCrashes, Crash, PopTask, RunTaskReleased, RunTaskUnresolved, RunTask, RunTaskForeign, RunLate,
     Answer, AnswerNotFound, AnswerThrow, AnswerError, AnswerValue, AnswerKnownStub,
     AnswerNewStub, AnswerPromise, AnsweringResult, Answering
<1>3. CASE (\E r \in ClientRefs : AppUsesClient(r)) \/ Close \/ UNCHANGED vars
  BY <1>3 DEF AppUsesClient, Close, control, tables, vars
<1> QED
  BY <1>1, <1>2, <1>3 DEF Next, Ended

LEMMA FutureIsFreeInductive ==
    ASSUME Drains, TypeOK, HandlersInTurn, [Next]_vars
    PROVE  FutureIsFree'
<1> SUFFICES ASSUME status' = "open", NEW p \in PushIds, p >= nextExportId'
             PROVE  exports'[p].phase = "free"
  BY DEF FutureIsFree
<1>1. nextExportId \in Nat /\ p \in Nat
  BY PushesAreNotNegative DEF TypeOK
<1>2. CASE p # nextExportId
  <2>1. p >= nextExportId
    BY <1>1, StatusSteps
  <2> QED
    BY <1>2, <2>1, StatusSteps, FreeStays DEF HandlersInTurn, FutureIsFree
<1>3. CASE p = nextExportId
  <2>1. nextExportId' = nextExportId
    BY <1>1, <1>3, StatusSteps
  <2>2. exports[p].phase = "free"
    BY <1>1, <1>3, StatusSteps DEF HandlersInTurn, FutureIsFree
  <2> QED
    BY <2>1, <2>2, FreeStays DEF HandlersInTurn
<1> QED
  BY <1>2, <1>3

LEMMA OneWaitsInductive ==
    ASSUME Drains, TypeOK, HandlersInTurn, [Next]_vars
    PROVE  OneWaits'
<1> USE DEF HandlersInTurn
<1>0. microtasks \in Seq(Task) /\ exports \in [Ids -> Entry]
  BY DEF TypeOK
<1>1. CASE microtasks' = <<>>
  BY <1>1 DEF OneWaits
<1>2. CASE microtasks # <<>>
  <2>1. CASE PopTask
    BY <1>1, <2>1, PoppedQueue
  <2>2. CASE UNCHANGED vars
    BY <2>2 DEF OneWaits, vars, tables, control
  <2>3. CASE TaskCrashes
    BY <1>1, <2>3 DEF TaskCrashes, Crash
  <2> QED
    BY <1>2, <2>1, <2>2, <2>3, QueuedRunFirst
<1>3. ASSUME NEW subject \in Subjects, NEW args \in Args, NEW pipes \in Pipes,
             ReceiveCall(subject, args, pipes)
      PROVE  OneWaits'
  <2> DEFINE task == [id |-> nextExportId, subject |-> subject,
                      hook |-> CalleeOf(subject), pipes |-> pipes]
  <2>1. /\ microtasks = <<>> /\ pulling' = NoPull /\ status' = "open"
        /\ microtasks' = Append(microtasks, task)
        /\ nextExportId \in Ids
        /\ exports' = Put(exports, nextExportId, Operation(CalleeOf(subject), args, pipes))
    BY <1>3, IdleMeansEmpty DEF ReceiveCall, Ids
  <2>2. Len(microtasks') = 1 /\ Head(microtasks') = task
    BY <2>1
  <2>3. task.id = nextExportId
    OBVIOUS
  <2> HIDE DEF task
  <2>4. exports'[Head(microtasks').id].phase = "operation"
    BY <1>0, <2>1, <2>2, <2>3 DEF Put, Operation
  <2> QED
    BY <2>1, <2>2, <2>4 DEF OneWaits
<1>4. CASE microtasks = <<>> /\ UNCHANGED microtasks
  BY <1>1, <1>4
<1> QED
  BY <1>1, <1>2, <1>3, <1>4, QueueSteps DEF PopTask, TasksRun

\* Only a pull and its answer change which pull is open.
LEMMA PullSteps ==
    ASSUME Drains, OneWaits, [Next]_vars
    PROVE  \/ pulling' = NoPull
           \/ \E id \in Ids : ReceivePull(id)
           \/ RunLate
           \/ UNCHANGED vars
<1>1. CASE Receive
  BY <1>1, IdleMeansEmpty DEF Receive, ReceiveCall, ReceiveOtherPush, ReceiveRemap,
     RemapCrashes, Crash, ReceiveSettlement, ReceiveRelease, ReceiveAbort, ReceiveFatal, Abort, control, tables
<1>2. CASE Handle
  BY <1>2 DEF OneWaits, Handle, PopTask, TasksRun, RunTaskReleased, RunTaskUnresolved, RunTask,
     RunTaskForeign, TaskCrashes, LateCrashes, Crash, Answer, AnswerNotFound, AnswerThrow, AnswerError, AnswerValue,
     AnswerKnownStub, AnswerNewStub, AnswerPromise, AnsweringResult, Answering
<1>3. CASE (\E r \in ClientRefs : AppUsesClient(r)) \/ Close
  BY <1>3, IdleMeansEmpty DEF AppUsesClient, Close, control, tables
<1> QED
  BY <1>1, <1>2, <1>3 DEF Next, Ended

LEMMA PullIsServedInductive ==
    ASSUME Drains, TypeOK, HandlersInTurn, [Next]_vars
    PROVE  PullIsServed'
<1> USE DEF HandlersInTurn
<1>1. CASE pulling' = NoPull
  BY <1>1 DEF PullIsServed
<1>2. ASSUME NEW id \in Ids, ReceivePull(id) PROVE PullIsServed'
  <2>1. status' = "open" /\ pulling'.late = FALSE
    BY <1>2 DEF ReceivePull, Idle
  <2> QED
    BY <2>1 DEF PullIsServed
<1>3. CASE RunLate
  <2>1. status' = "open"
    BY <1>3 DEF RunLate, LateRuns, PullIsServed
  <2>2. pulling'.id = pulling.id
    BY <1>3 DEF RunLate, LateRuns, TypeOK, NoPull
  <2>3. pulling.id \in PushIds => exports'[pulling.id].phase = "result"
    BY <1>3, LateAdvances
  <2> QED
    BY <2>1, <2>2, <2>3 DEF PullIsServed
<1>4. CASE UNCHANGED vars
  BY <1>4 DEF PullIsServed, vars, tables, control
<1> QED
  BY <1>1, <1>2, <1>3, <1>4, PullSteps

LEMMA HandlersInTurnInit == Init => HandlersInTurn
<1> SUFFICES ASSUME Init PROVE HandlersInTurn
  OBVIOUS
<1>1. FutureIsFree
  BY PushesAreNotNegative DEF Init, FutureIsFree, Free
<1>2. OneWaits /\ PullIsServed
  BY DEF Init, OneWaits, PullIsServed
<1> QED
  BY <1>1, <1>2 DEF HandlersInTurn

-----------------------------------------------------------------------------
(* Steps of the abstract service, recognised by what they change.          *)

Given == {"value", "error"}

LEMMA StateMap ==
    /\ State = [c \in PushIds |-> State[c]] /\ State' = [c \in PushIds |-> State'[c]]
    /\ \A c \in PushIds : State[c] = StateOf(c) /\ State'[c] = StateOf(c)'
BY DEF State

\* Some waiting calls get their outcomes, the others stay as they are.
Completes(c) == State'[c] = State[c] \/ (State[c] = "waiting" /\ State'[c] \in Given)

LEMMA IssueStep ==
    ASSUME NEW c \in PushIds, Asked = 0, UNCHANGED <<Asked, Late>>, Told' = {},
           State[c] = "unissued", \A b \in 1..(c - 1) : State[b] # "unissued",
           State'[c] \in {"waiting", "gone"} \cup Given,
           \A b \in PushIds : b # c => Completes(b)
    PROVE  Service!Issue(c)
<1> DEFINE waiting == {b \in PushIds : State[b] = "waiting"}
<1> DEFINE done == {b \in waiting : State'[b] # State[b]}
<1> DEFINE outcome == [b \in waiting |-> IF b \in done THEN State'[b] ELSE "value"]
<1>1. Service!Waiting = waiting
  BY DEF Service!Waiting, Service!Calls, PushIds
<1>2. c \notin waiting
  OBVIOUS
<1>3. outcome \in [waiting -> Given]
  BY <1>2 DEF Completes, Given
<1>4. \A b \in PushIds : State'[b] = IF b = c THEN State'[c]
                                     ELSE IF b \in done THEN outcome[b] ELSE State[b]
  BY DEF Completes
<1>5. State' = [b \in PushIds |-> IF b = c THEN State'[c]
                                  ELSE IF b \in done THEN outcome[b] ELSE State[b]]
  BY <1>4, StateMap
<1>6. done \in SUBSET waiting
  OBVIOUS
<1> HIDE DEF waiting, done, outcome
<1>7. \E d \in SUBSET waiting, first \in {"waiting", "gone"} \cup Given, o \in [waiting -> Given] :
         State' = [b \in PushIds |-> IF b = c THEN first
                                     ELSE IF b \in d THEN o[b] ELSE State[b]]
  BY <1>3, <1>5, <1>6
<1> QED
  BY <1>1, <1>7 DEF Service!Issue, Service!Outcomes, Service!Calls, PushIds, Given

LEMMA CompleteStep ==
    ASSUME NEW done, \A b \in PushIds : b \notin done => State'[b] = State[b],
           \A b \in done : State'[b] \in Given
    PROVE  Service!Complete(done)
<1> DEFINE outcome == [b \in done |-> State'[b]]
<1>1. outcome \in [done -> Given]
  OBVIOUS
<1>2. State' = [b \in PushIds |-> IF b \in done THEN outcome[b] ELSE State[b]]
  BY StateMap
<1> QED
  BY <1>1, <1>2 DEF Service!Complete, Service!Outcomes, Service!Calls, PushIds, Given

LEMMA WorkStep ==
    ASSUME UNCHANGED <<Asked, Late>>, Told' = {}, \A b \in PushIds : Completes(b)
    PROVE  Service!Work
<1> DEFINE done == {b \in PushIds : State'[b] # State[b]}
<1>1. done \in SUBSET Service!Waiting
  BY DEF Service!Waiting, Service!Calls, PushIds, Completes
<1>2. Service!Complete(done)
  BY CompleteStep DEF Completes
<1> HIDE DEF done
<1> QED
  BY <1>1, <1>2 DEF Service!Work

LEMMA WorkLateStep ==
    ASSUME Asked \in PushIds, State[Asked] = "waiting", ~Late, Late', UNCHANGED Asked, Told' = {},
           Late' \in BOOLEAN,
           State'[Asked] \in Given, \A b \in PushIds : Completes(b)
    PROVE  Service!WorkLate
<1> DEFINE done == {b \in PushIds : State'[b] # State[b]}
<1>1. /\ done \in SUBSET Service!Waiting
      /\ Asked \in Service!Waiting /\ Asked \in done
  BY DEF Service!Waiting, Service!Calls, PushIds, Completes, Given
<1>2. Service!Complete(done)
  BY CompleteStep DEF Completes
<1>3. Late' = TRUE
  OBVIOUS
<1> HIDE DEF done
<1> QED
  BY <1>1, <1>2, <1>3 DEF Service!WorkLate

\* A step about no call.
LEMMA OtherStep ==
    ASSUME Told' = {}, UNCHANGED <<Asked, Late>>, \A b \in PushIds : State'[b] = State[b]
    PROVE  Service!Other
BY StateMap DEF Service!Other

LEMMA TellStep ==
    ASSUME Asked \in PushIds, Asked' = 0, Late' = FALSE, NEW type \in Service!TypesOf(Asked),
           Told' = {[call |-> Asked, type |-> type]},
           State'[Asked] = IF Late \/ State[Asked] \in {"unissued", "ended"}
                           THEN State[Asked] ELSE "gone",
           \A b \in PushIds \ {Asked} : \/ State'[b] = State[b]
                                        \/ State[Asked] = "waiting" /\ Completes(b)
    PROVE  Service!Tell
<1> DEFINE waiting == {b \in PushIds : State[b] = "waiting"}
<1> DEFINE done == {b \in waiting \ {Asked} : State'[b] # State[b]}
<1> DEFINE outcome == [b \in waiting |-> IF b \in done THEN State'[b] ELSE "value"]
<1> DEFINE left(b) == IF b # Asked \/ Late \/ State[b] \in {"unissued", "ended"}
                      THEN State[b] ELSE "gone"
<1>1. Service!Waiting = waiting
  BY DEF Service!Waiting, Service!Calls, PushIds
<1>2. outcome \in [waiting -> Given]
  BY DEF Completes, Given
<1>3. \A b \in PushIds : State'[b] = IF b \in done THEN outcome[b] ELSE left(b)
  <2> SUFFICES ASSUME NEW b \in PushIds
               PROVE  State'[b] = IF b \in done THEN outcome[b] ELSE left(b)
    OBVIOUS
  <2>1. CASE b = Asked
    BY <2>1
  <2>2. CASE b # Asked
    BY <2>2 DEF Completes
  <2> QED
    BY <2>1, <2>2
<1>4. State' = [b \in PushIds |-> IF b \in done THEN outcome[b] ELSE left(b)]
  BY <1>3, StateMap
<1>5. done \in SUBSET {c \in waiting \ {Asked} : Asked \in waiting}
  OBVIOUS
<1> HIDE DEF waiting, done, outcome
<1>6. \E d \in SUBSET {c \in waiting \ {Asked} : Asked \in waiting}, o \in [waiting -> Given] :
         State' = [b \in PushIds |-> IF b \in d THEN o[b] ELSE left(b)]
  BY <1>2, <1>4, <1>5
<1>7. Asked # 0
  BY DEF PushIds
<1> QED
  BY <1>1, <1>6, <1>7 DEF Service!Tell, Service!Outcomes, Service!Calls, PushIds, Given

LEMMA EndStep ==
    ASSUME Asked' = 0, Late' = FALSE, Told' = {}, \A b \in PushIds : State'[b] = "ended"
    PROVE  Service!End
BY StateMap DEF Service!End, Service!Calls, PushIds

LEMMA AskStep ==
    ASSUME Asked = 0, Asked' \in PushIds, UNCHANGED Late, Told' = {},
           \A b \in PushIds : State'[b] = State[b]
    PROVE  Service!Ask(Asked')
BY StateMap DEF Service!Ask

LEMMA ForgetStep ==
    ASSUME NEW c \in PushIds, Asked = 0, UNCHANGED <<Asked, Late>>, Told' = {},
           State[c] \in {"waiting"} \cup Given, State'[c] = "gone",
           \A b \in PushIds : b # c => State'[b] = State[b]
    PROVE  Service!Forget(c)
<1>1. State' = [State EXCEPT ![c] = "gone"]
  BY StateMap
<1> QED
  BY <1>1 DEF Service!Forget, Service!Outcomes, Given

-----------------------------------------------------------------------------
(* What the session's steps are seen to do.                                *)

\* A step that sends no answer to a pull of a pushed call tells nothing.
LEMMA Silent ==
    ASSUME \A k \in 1..Len(out') : out'[k].type \in {"resolve", "reject"} => out'[k].id \notin PushIds
    PROVE  Told' = {}
BY DEF Told, Answers

LEMMA NothingSent == ASSUME out' = <<>> PROVE Told' = {}
BY Silent

\* Without an open pull, nothing is asked.
LEMMA NotAsked == pulling = NoPull => Asked = 0 /\ Late = FALSE /\ ~Asks
BY TablesAssumption DEF Asked, Late, Asks, NoPull, PushIds

LEMMA NotAskedNext == pulling' = NoPull => Asked' = 0 /\ Late' = FALSE
BY TablesAssumption DEF Asked, Late, Asks, NoPull, PushIds

LEMMA PullUnchanged == UNCHANGED pulling => UNCHANGED <<Asked, Late>>
BY DEF Asked, Late, Asks

\* A call whose entry stays or advances stays or gets its outcome.
LEMMA EntryCompletes ==
    ASSUME TypeOK, FutureIsFree, status = "open", UNCHANGED status,
           NEW x \in PushIds, Advances(x), (x >= nextExportId') = (x >= nextExportId)
    PROVE  Completes(x)
<1>1. exports[x].phase = "operation" => x < nextExportId
  BY PushesAreNotNegative DEF FutureIsFree, TypeOK
<1>2. State[x] = StateOf(x) /\ State'[x] = StateOf(x)'
  BY StateMap
<1> QED
  BY <1>1, <1>2, PushesAreNotNegative DEF StateOf, Completes, Advances, Given, TypeOK

\* A step that keeps the entries of the pushes keeps their states.
LEMMA EntriesKeepStates ==
    ASSUME UNCHANGED <<nextExportId, status>>, NEW x \in PushIds, exports'[x] = exports[x]
    PROVE  State'[x] = State[x]
BY StateMap DEF StateOf

\* The server's calls on the client are pushes and pulls of its own.
LEMMA ClientCallSilent ==
    ASSUME NEW called, NEW awaited, NEW last, UseClient(called, awaited, last)
    PROVE  Told' = {}
<1>1. CASE out' = <<>>
  BY <1>1, NothingSent
<1>2. CASE out' # <<>>
  <2> DEFINE frame == [type |-> "calls", refs |-> called, first |-> nextImportId]
  <2>1. out' = <<frame>> /\ frame.type = "calls"
    BY <1>2 DEF UseClient
  <2> HIDE DEF frame
  <2>2. Len(out') = 1 /\ out'[1] = frame /\ \A k \in 1..1 : k = 1
    BY <2>1
  <2> QED
    BY <2>1, <2>2, Silent
<1> QED
  BY <1>1, <1>2

LEMMA MethodBodySilent ==
    ASSUME NEW table, NEW id, NEW copied, MethodBody(table, id, copied)
    PROVE  Told' = {}
BY MethodBodyParts, ClientCallSilent

LEMMA SettlementSilent ==
    ASSUME TypeOK, NEW i \in CallIds \cup ClientPromises, NEW type, ReceiveSettlement(i, type)
    PROVE  Told' = {}
<1> DEFINE n == importToPromiseExport[i]
<1> DEFINE last == [type |-> "release", id |-> i, count |-> 1]
<1> DEFINE first == [type |-> type, id |-> n, value |-> [kind |-> "forwarded"]]
<1>1. out' = (IF n = 0 THEN <<>> ELSE <<first>>) \o <<last>>
  BY DEF ReceiveSettlement
<1>2. n \in NegIds \cup {0} /\ first.id = n /\ last.type = "release"
  BY TablesAssumption DEF TypeOK
<1> HIDE DEF n, first, last
<1>3. \/ Len(out') = 1 /\ out'[1] = last
      \/ n # 0 /\ Len(out') = 2 /\ out'[1] = first /\ out'[2] = last
  <2>1. CASE n = 0
    <3>1. out' = <<>> \o <<last>>
      BY <1>1, <2>1
    <3> QED
      BY <3>1
  <2>2. CASE n # 0
    <3>1. out' = <<first>> \o <<last>>
      BY <1>1, <2>2
    <3>2. Len(<<first>> \o <<last>>) = 2
      OBVIOUS
    <3>3. (<<first>> \o <<last>>)[1] = first /\ (<<first>> \o <<last>>)[2] = last
      OBVIOUS
    <3> QED
      BY <2>2, <3>1, <3>2, <3>3
  <2> QED
    BY <2>1, <2>2
<1>4. (\A k \in 1..2 : k = 1 \/ k = 2) /\ (\A k \in 1..1 : k = 1)
  OBVIOUS
<1> QED
  BY <1>2, <1>3, <1>4, Silent, PushesAreNotNegative

\* What the answer to a pull tells.
LEMMA ReplyTells ==
    ASSUME NEW table, NEW frame, Reply(table, frame),
           frame.id = pulling.id, frame.type \in {"resolve", "reject"}
    PROVE  Told' = IF Asks THEN {[call |-> pulling.id, type |-> frame.type]} ELSE {}
<1>1. out' = <<frame>> \o Releases(table[pulling.id].refs)
  BY DEF Reply
<1>2. /\ out'[1] = frame /\ Len(out') \in {1, 2}
      /\ Len(out') = 2 => out'[2].type = "releases"
  <2>1. CASE Releases(table[pulling.id].refs) = <<>>
    BY <1>1, <2>1
  <2>2. ASSUME NEW bag, Releases(table[pulling.id].refs) = << [type |-> "releases", refs |-> bag] >>
        PROVE  out'[1] = frame /\ Len(out') = 2 /\ out'[2].type = "releases"
    <3> DEFINE last == [type |-> "releases", refs |-> bag]
    <3>1. last.type = "releases"
      OBVIOUS
    <3>2. out' = <<frame>> \o <<last>>
      BY <1>1, <2>2
    <3> HIDE DEF last
    <3> QED
      BY <3>1, <3>2
  <2> QED
    BY <2>1, <2>2 DEF Releases
<1>3. 1..1 = {1} /\ 1..2 = {1, 2}
  OBVIOUS
<1>4. 1 \in 1..Len(out') /\ \A k \in 1..Len(out') : k = 1 \/ (k = 2 /\ out'[k].type = "releases")
  <2>1. CASE Len(out') = 1
    <3>1. 1..Len(out') = {1}
      BY <1>3, <2>1
    <3> QED
      BY <3>1
  <2>2. CASE Len(out') = 2
    <3>1. 1..Len(out') = {1, 2}
      BY <1>3, <2>2
    <3> QED
      BY <1>2, <2>2, <3>1
  <2> QED
    BY <1>2, <2>1, <2>2
<1>5. Answers' = {1}
  BY <1>2, <1>4 DEF Answers
<1>6. Told' = {[call |-> out'[k].id, type |-> out'[k].type] :
                  k \in {j \in {1} : out'[j].id \in PushIds}}
  BY <1>5 DEF Told
<1> QED
  BY <1>2, <1>6 DEF Asks

\* The table a failed late dispatch leaves.
Thrown == {ClearResult(Cached(early), pulling.id) :
              early \in SUBSET {p \in Ids : HasOperation(exports, p)}}

\* Which answer a pull gets, and what it leaves of the entries.
LEMMA AnswerCases ==
    ASSUME TypeOK, Answer
    PROVE  \E table : \E type \in {"resolve", "reject"} :
              /\ \A x \in PushIds : /\ exports'[x].phase = table[x].phase
                                    /\ exports'[x].result = table[x].result
              /\ Told' = IF Asks THEN {[call |-> pulling.id, type |-> type]} ELSE {}
              /\ LET entry == exports[pulling.id] IN
                 \/ /\ entry.phase \in {"free", "bare"}
                    /\ table = exports /\ type = "reject"
                 \/ /\ entry.phase = "operation"
                    /\ table \in Thrown /\ type = "reject"
                 \/ /\ entry.phase = "result" /\ table = Sent(exports)
                    /\ type = IF entry.result = Error /\ ~pulling.late THEN "reject" ELSE "resolve"
<1>0. /\ pulling.id \in Ids /\ exports \in [Ids -> Entry]
      /\ Sent(exports) \in [Ids -> Entry]
  <2>1. pulling.id \in Ids /\ exports \in [Ids -> Entry]
    BY DEF TypeOK, Answer, AnswerNotFound, AnswerThrow, AnswerError, AnswerValue,
         AnswerKnownStub, AnswerNewStub, AnswerPromise, AnsweringResult, Answering
  <2> QED
    BY <2>1, ClearResultTyped DEF Sent
<1> DEFINE Case(table, type) ==
       /\ \A x \in PushIds : /\ exports'[x].phase = table[x].phase
                             /\ exports'[x].result = table[x].result
       /\ Told' = IF Asks THEN {[call |-> pulling.id, type |-> type]} ELSE {}
       /\ LET entry == exports[pulling.id] IN
          \/ /\ entry.phase \in {"free", "bare"}
             /\ table = exports /\ type = "reject"
          \/ /\ entry.phase = "operation"
             /\ table \in Thrown /\ type = "reject"
          \/ /\ entry.phase = "result" /\ table = Sent(exports)
             /\ type = IF entry.result = Error /\ ~pulling.late THEN "reject" ELSE "resolve"
<1> SUFFICES \E table : \E type \in {"resolve", "reject"} : Case(table, type)
  OBVIOUS
<1>1. /\ Reject.id = pulling.id /\ Reject.type = "reject"
      /\ \A v : Resolve(v).id = pulling.id /\ Resolve(v).type = "resolve"
  BY DEF Reject, Resolve
\* The answers that reject.
<1>r. ASSUME NEW table \in [Ids -> Entry], Reply(table, Reject)
      PROVE  /\ \A x \in PushIds : /\ exports'[x].phase = table[x].phase
                                   /\ exports'[x].result = table[x].result
             /\ Told' = IF Asks THEN {[call |-> pulling.id, type |-> "reject"]} ELSE {}
  <2>1. \A x \in PushIds : /\ exports'[x].phase = table[x].phase
                           /\ exports'[x].result = table[x].result
    BY <1>0, <1>r, ReplyEntries, PushesAreNotNegative
  <2>2. Told' = IF Asks THEN {[call |-> pulling.id, type |-> "reject"]} ELSE {}
    BY <1>1, <1>r, ReplyTells
  <2> QED
    BY <2>1, <2>2
<1>2. CASE AnswerNotFound
  <2>1. Case(exports, "reject")
    BY <1>0, <1>2, <1>r DEF AnswerNotFound
  <2> HIDE DEF Case
  <2> QED
    BY <2>1
<1>3. CASE AnswerThrow
  <2>1. PICK early \in Ran(Refs(pulling.id)) :
           Reply(ClearResult(Cached(early), pulling.id), Reject)
    BY <1>3 DEF AnswerThrow
  <2> DEFINE table == ClearResult(Cached(early), pulling.id)
  <2>2. early \in SUBSET {p \in Ids : HasOperation(exports, p)}
    BY RanAreOperations
  <2>3. HasOperation(exports, pulling.id)
    BY <1>3 DEF AnswerThrow, LateRuns
  <2>4. table \in [Ids -> Entry] /\ table \in Thrown
    BY <1>0, <2>2, <2>3, ThrowEntries DEF Thrown
  <2>5. Reply(table, Reject)
    BY <2>1
  <2> HIDE DEF table
  <2>6. Case(table, "reject")
    BY <1>r, <2>3, <2>4, <2>5 DEF HasOperation
  <2> HIDE DEF Case
  <2> QED
    BY <2>6
<1>4. CASE AnswerError
  <2>1. Case(Sent(exports), "reject")
    BY <1>0, <1>4, <1>r DEF AnswerError, AnsweringResult, HasResult
  <2> HIDE DEF Case
  <2> QED
    BY <2>1
\* The answers that resolve.
<1>5. ASSUME NEW table \in [Ids -> Entry], NEW v, Reply(table, Resolve(v)), AnsweringResult,
             \A x \in PushIds : table[x].phase = Sent(exports)[x].phase
                                /\ table[x].result = Sent(exports)[x].result,
             exports[pulling.id].result # Error \/ pulling.late
      PROVE  /\ \A x \in PushIds : /\ exports'[x].phase = Sent(exports)[x].phase
                                   /\ exports'[x].result = Sent(exports)[x].result
             /\ Told' = IF Asks THEN {[call |-> pulling.id, type |-> "resolve"]} ELSE {}
             /\ exports[pulling.id].phase = "result"
  <2>1. \A x \in PushIds : /\ exports'[x].phase = table[x].phase
                           /\ exports'[x].result = table[x].result
    BY <1>0, <1>5, ReplyEntries, PushesAreNotNegative
  <2>2. Told' = IF Asks THEN {[call |-> pulling.id, type |-> "resolve"]} ELSE {}
    BY <1>1, <1>5, ReplyTells
  <2> QED
    BY <1>5, <2>1, <2>2 DEF AnsweringResult, HasResult
<1>6. CASE \/ AnswerValue \/ AnswerKnownStub \/ AnswerNewStub \/ AnswerPromise
  <2>1. PICK table, v :
           /\ table \in [Ids -> Entry]
           /\ Reply(table, Resolve(v)) /\ AnsweringResult
           /\ \A x \in PushIds : table[x].phase = Sent(exports)[x].phase
                                 /\ table[x].result = Sent(exports)[x].result
           /\ exports[pulling.id].result # Error \/ pulling.late
    <3>1. CASE AnswerValue
      <4>1. Error.kind = "error"
        BY DEF Error
      <4>2. exports[pulling.id].result # Error \/ pulling.late
        BY <3>1, <4>1 DEF AnswerValue
      <4> QED
        BY <1>0, <3>1, <4>2 DEF AnswerValue
    <3>2. CASE AnswerKnownStub
      <4>1. PICK t \in Targets :
               /\ exports[pulling.id].result = StubOf(t)
               /\ Reply(IF Found(exports, targetExportId[t])
                        THEN AddReference(Sent(exports), targetExportId[t]) ELSE Sent(exports),
                        Resolve(Export(targetExportId[t])))
        BY <3>2 DEF AnswerKnownStub
      <4>2. StubOf(t) # Error
        BY DEF StubOf, Error
      <4> DEFINE table == IF Found(exports, targetExportId[t])
                          THEN AddReference(Sent(exports), targetExportId[t]) ELSE Sent(exports)
      <4>3. table \in [Ids -> Entry]
        BY <1>0, AddReferenceTyped DEF Found
      <4>4. \A x \in Ids : table[x].phase = Sent(exports)[x].phase
                           /\ table[x].result = Sent(exports)[x].result
        BY <1>0 DEF Found, AddReference, Entry
      <4>5. Reply(table, Resolve(Export(targetExportId[t])))
        BY <4>1
      <4> HIDE DEF table
      <4> QED
        BY <3>2, <4>1, <4>2, <4>3, <4>4, <4>5, PushesAreNotNegative DEF AnswerKnownStub
    <3>3. CASE AnswerNewStub
      <4>1. PICK t \in Targets :
               /\ exports[pulling.id].result = StubOf(t)
               /\ Reply(Put(Sent(exports), nextExportIdNegative, Bare(StubHook(t))),
                        Resolve(Export(nextExportIdNegative)))
        BY <3>3 DEF AnswerNewStub
      <4>2. StubOf(t) # Error
        BY DEF StubOf, Error
      <4>3. nextExportIdNegative \in NegIds /\ nextExportIdNegative \in Ids
        BY <3>3 DEF AnswerNewStub, RoomForExport, Ids
      <4>4. Bare(StubHook(t)) \in Entry
        BY FreshEntries, TablesAssumption DEF StubHook
      <4>5. Put(Sent(exports), nextExportIdNegative, Bare(StubHook(t))) \in [Ids -> Entry]
        BY <1>0, <4>3, <4>4, PutTyped
      <4>6. \A x \in PushIds : Put(Sent(exports), nextExportIdNegative, Bare(StubHook(t)))[x]
                               = Sent(exports)[x]
        BY <1>0, <4>3, PushesAreNotNegative DEF Put
      <4> QED
        BY <3>3, <4>1, <4>2, <4>5, <4>6 DEF AnswerNewStub
    <3>4. CASE AnswerPromise
      <4> DEFINE result == exports[pulling.id].result
      <4> DEFINE entry == Finished(result.payload, Main, NoRefs)
      <4>1. result.kind = "promise" /\ Error.kind = "error" /\ result \in Results
        BY <1>0, <3>4 DEF AnswerPromise, Error, Entry
      <4>2. nextExportIdNegative \in NegIds /\ nextExportIdNegative \in Ids
        BY <3>4 DEF AnswerPromise, RoomForExport, Ids
      <4>3. entry \in Entry
        BY <4>1, ResultKinds, FreshEntries, TablesAssumption
      <4>4. Reply(Put(Sent(exports), nextExportIdNegative, entry),
                  Resolve(PromiseRef(nextExportIdNegative)))
        BY <3>4 DEF AnswerPromise
      <4> HIDE DEF entry
      <4>5. Put(Sent(exports), nextExportIdNegative, entry) \in [Ids -> Entry]
        BY <1>0, <4>2, <4>3, PutTyped
      <4>6. \A x \in PushIds : Put(Sent(exports), nextExportIdNegative, entry)[x]
                               = Sent(exports)[x]
        BY <1>0, <4>2, PushesAreNotNegative DEF Put
      <4> QED
        BY <3>4, <4>1, <4>4, <4>5, <4>6 DEF AnswerPromise
    <3> QED
      BY <1>6, <3>1, <3>2, <3>3, <3>4
  <2>2. /\ \A x \in PushIds : /\ exports'[x].phase = Sent(exports)[x].phase
                              /\ exports'[x].result = Sent(exports)[x].result
        /\ Told' = IF Asks THEN {[call |-> pulling.id, type |-> "resolve"]} ELSE {}
        /\ exports[pulling.id].phase = "result"
    BY <1>5, <2>1
  <2>3. Case(Sent(exports), "resolve")
    BY <2>1, <2>2
  <2> HIDE DEF Case
  <2> QED
    BY <2>3
<1> QED
  BY <1>2, <1>3, <1>4, <1>6 DEF Answer

-----------------------------------------------------------------------------
(* Every step of the session is a step of the service, or a stutter.       *)

LEMMA PushMaps ==
    ASSUME Drains, TypeOK, HandlersInTurn, Idle,
           nextExportId \in PushIds, nextExportId' = nextExportId + 1,
           UNCHANGED <<pulling, status>>, Told' = {},
           \A x \in PushIds : x # nextExportId => Advances(x)
    PROVE  Service!Issue(nextExportId)
<1> DEFINE c == nextExportId
<1>1. status = "open" /\ Asked = 0 /\ c \in Nat
  BY IdleMeansEmpty, NotAsked, PushesAreNotNegative
<1>2. State[c] = "unissued" /\ \A b \in 1..(c - 1) : State[b] # "unissued"
  <2>1. State[c] = "unissued"
    BY <1>1, StateMap DEF StateOf
  <2>2. ASSUME NEW b \in 1..(c - 1) PROVE State[b] # "unissued"
    <3>1. b \in PushIds /\ ~(b >= c)
      BY <1>1, TablesAssumption DEF PushIds
    <3> QED
      BY <1>1, <3>1, StateMap DEF StateOf
  <2> QED
    BY <2>1, <2>2
<1>3. State'[c] \in {"waiting", "gone"} \cup Given
  <2>1. ~(c >= nextExportId') /\ status' = "open"
    BY <1>1
  <2> QED
    BY <2>1, StateMap DEF StateOf, Given
<1>4. \A b \in PushIds : b # c => Completes(b)
  <2> SUFFICES ASSUME NEW b \in PushIds, b # c PROVE Completes(b)
    OBVIOUS
  <2>1. (b >= nextExportId') = (b >= nextExportId)
    BY <1>1, PushesAreNotNegative
  <2> QED
    BY <1>1, <2>1, EntryCompletes DEF HandlersInTurn
<1>5. UNCHANGED <<Asked, Late>>
  BY PullUnchanged
<1> QED
  BY <1>1, <1>2, <1>3, <1>4, <1>5, IssueStep

\* A step that leaves the pushes and the pull alone, and tells nothing.
LEMMA QuietMaps ==
    ASSUME UNCHANGED <<nextExportId, status, pulling>>, Told' = {},
           \A x \in PushIds : exports'[x] = exports[x]
    PROVE  Service!Other
BY PullUnchanged, EntriesKeepStates, OtherStep

LEMMA TaskMaps ==
    ASSUME TypeOK, HandlersInTurn, RunTask \/ RunTaskUnresolved \/ RunTaskForeign
    PROVE  Service!Work
<1>1. PopTask
  BY DEF RunTask, RunTaskUnresolved, RunTaskForeign
<1>2. UNCHANGED <<nextExportId, status, pulling>> /\ status = "open"
  BY <1>1 DEF PopTask, TasksRun
<1>3. \A x \in PushIds : Completes(x)
  BY <1>1, <1>2, PoppedQueue, TaskAdvances, EntryCompletes DEF HandlersInTurn
<1>4. Told' = {}
  BY MethodBodySilent, NothingSent DEF RunTask, RunTaskUnresolved, RunTaskForeign
<1> QED
  BY <1>2, <1>3, <1>4, PullUnchanged, WorkStep

LEMMA LateMaps ==
    ASSUME TypeOK, HandlersInTurn, RunLate
    PROVE  Service!WorkLate \/ Service!Work
<1>1. /\ UNCHANGED <<nextExportId, status>> /\ status = "open"
      /\ pulling.id \in Ids /\ exports[pulling.id].phase = "operation"
      /\ pulling' = [pulling EXCEPT !.late = TRUE] /\ ~pulling.late
  BY DEF RunLate, LateRuns, HasOperation, TypeOK, HandlersInTurn, PullIsServed
<1>2. Told' = {}
  BY MethodBodySilent DEF RunLate
<1>3. \A x \in PushIds : Completes(x)
  BY <1>1, LateAdvances, EntryCompletes DEF HandlersInTurn
<1>5. pulling'.id = pulling.id /\ pulling'.late = TRUE
  BY <1>1 DEF TypeOK, NoPull
<1>6. CASE Asks
  <2>1. Asked = pulling.id /\ Asked' = Asked /\ ~Late /\ Late' = TRUE
    BY <1>1, <1>5, <1>6 DEF Asked, Late, Asks
  <2>2. State[Asked] = "waiting"
    <3>1. ~(pulling.id >= nextExportId)
      BY <1>1, <1>6 DEF Asks, HandlersInTurn, FutureIsFree
    <3> QED
      BY <1>1, <1>6, <2>1, <3>1, StateMap DEF Asks, StateOf
  <2>3. exports'[pulling.id].phase = "result"
    BY <1>6, LateAdvances DEF Asks
  <2>4. State'[Asked] # "waiting"
    BY <1>6, <2>1, <2>3, StateMap DEF Asks, StateOf
  <2>5. State'[Asked] \in Given
    BY <1>3, <1>6, <2>1, <2>2, <2>4 DEF Asks, Completes
  <2> QED
    BY <1>2, <1>3, <1>6, <2>1, <2>2, <2>5, WorkLateStep DEF Asks
<1>7. CASE ~Asks
  <2>1. UNCHANGED <<Asked, Late>>
    BY <1>5, <1>7 DEF Asked, Late, Asks
  <2> QED
    BY <1>2, <1>3, <2>1, WorkStep
<1> QED
  BY <1>6, <1>7

LEMMA AnswerMaps ==
    ASSUME TypeOK, HandlersInTurn, Answer
    PROVE  Service!Tell \/ Service!Work
<1>1. /\ UNCHANGED <<nextExportId, status>> /\ pulling # NoPull /\ pulling' = NoPull
      /\ status = "open" /\ exports \in [Ids -> Entry]
  BY DEF Answer, AnswerNotFound, AnswerThrow, AnswerError, AnswerValue, AnswerKnownStub,
         AnswerNewStub, AnswerPromise, AnsweringResult, Answering, TypeOK, HandlersInTurn,
         PullIsServed
<1>2. Asked' = 0 /\ Late' = FALSE
  BY <1>1, NotAskedNext
<1>3. PICK table : \E type \in {"resolve", "reject"} :
         /\ \A x \in PushIds : /\ exports'[x].phase = table[x].phase
                               /\ exports'[x].result = table[x].result
         /\ Told' = IF Asks THEN {[call |-> pulling.id, type |-> type]} ELSE {}
         /\ LET entry == exports[pulling.id] IN
            \/ /\ entry.phase \in {"free", "bare"}
               /\ table = exports /\ type = "reject"
            \/ /\ entry.phase = "operation"
               /\ table \in Thrown /\ type = "reject"
            \/ /\ entry.phase = "result" /\ table = Sent(exports)
               /\ type = IF entry.result = Error /\ ~pulling.late THEN "reject" ELSE "resolve"
  BY AnswerCases
<1>4. PICK type \in {"resolve", "reject"} :
         /\ \A x \in PushIds : /\ exports'[x].phase = table[x].phase
                               /\ exports'[x].result = table[x].result
         /\ Told' = IF Asks THEN {[call |-> pulling.id, type |-> type]} ELSE {}
         /\ LET entry == exports[pulling.id] IN
            \/ /\ entry.phase \in {"free", "bare"}
               /\ table = exports /\ type = "reject"
            \/ /\ entry.phase = "operation"
               /\ table \in Thrown /\ type = "reject"
            \/ /\ entry.phase = "result" /\ table = Sent(exports)
               /\ type = IF entry.result = Error /\ ~pulling.late THEN "reject" ELSE "resolve"
  BY <1>3
<1>t. table \in Thrown =>
         \E early : /\ \A p \in early : HasOperation(exports, p)
                    /\ table = ClearResult(Cached(early), pulling.id)
                    /\ Cached(early) \in [Ids -> Entry]
  BY <1>1, CachedStaysTyped DEF Thrown
<1>5. ASSUME NEW x \in PushIds, x # pulling.id
      PROVE  \/ table[x].phase = exports[x].phase /\ table[x].result = exports[x].result
             \/ /\ exports[pulling.id].phase = "operation"
                /\ exports[x].phase = "operation" /\ table[x].phase = "result"
  <2>0. x \in Ids
    BY PushesAreNotNegative
  <2>1. CASE table \in Thrown /\ exports[pulling.id].phase = "operation"
    <3>1. PICK early : /\ \A p \in early : HasOperation(exports, p)
                       /\ table = ClearResult(Cached(early), pulling.id)
                       /\ Cached(early) \in [Ids -> Entry]
      BY <1>t, <2>1
    <3>2. table[x] = Cached(early)[x]
      BY <1>5, <2>0, <3>1 DEF ClearResult
    <3> QED
      BY <2>0, <2>1, <3>1, <3>2, CachedAdvances
  <2>2. CASE table \in {exports, Sent(exports)}
    <3>1. table[x] = exports[x]
      BY <1>1, <1>5, <2>0, <2>2 DEF ClearResult, Sent
    <3> QED
      BY <3>1
  <2> QED
    BY <1>4, <2>1, <2>2
<1>6. ASSUME NEW x \in PushIds, x # pulling.id
      PROVE  \/ State'[x] = State[x]
             \/ exports[pulling.id].phase = "operation" /\ Completes(x)
  <2>1. \/ exports'[x].phase = exports[x].phase /\ exports'[x].result = exports[x].result
        \/ /\ exports[pulling.id].phase = "operation"
           /\ exports[x].phase = "operation" /\ exports'[x].phase = "result"
    BY <1>4, <1>5, <1>6
  <2>2. State[x] = StateOf(x) /\ State'[x] = StateOf(x)'
    BY StateMap
  <2>3. CASE exports'[x].phase = exports[x].phase /\ exports'[x].result = exports[x].result
    BY <1>1, <2>2, <2>3 DEF StateOf
  <2>4. CASE /\ exports[pulling.id].phase = "operation"
             /\ exports[x].phase = "operation" /\ exports'[x].phase = "result"
    BY <1>1, <2>4, EntryCompletes DEF HandlersInTurn, Advances
  <2> QED
    BY <2>1, <2>3, <2>4
<1>7. CASE ~Asks
  <2>1. Asked = 0 /\ Late = FALSE /\ Told' = {}
    BY <1>4, <1>7 DEF Asked, Late
  <2>2. \A x \in PushIds : Completes(x)
    BY <1>6, <1>7 DEF Asks, Completes
  <2> QED
    BY <1>2, <2>1, <2>2, WorkStep
<1>8. CASE Asks
  <2>p. PICK c \in PushIds : c = pulling.id
    BY <1>8 DEF Asks
  <2>0. /\ c = pulling.id /\ c \in Ids /\ Asked = c /\ Late = pulling.late
        /\ c >= nextExportId => exports[c].phase = "free"
    BY <1>1, <1>8, <2>p, PushesAreNotNegative DEF Asked, Late, HandlersInTurn, FutureIsFree
  <2>1. Told' = {[call |-> c, type |-> type]}
    BY <1>4, <1>8, <2>0
  <2>2. pulling.late => exports[c].phase = "result"
    BY <1>1, <2>0 DEF HandlersInTurn, PullIsServed
  <2>3. State[c] = StateOf(c) /\ State'[c] = StateOf(c)'
    BY StateMap
  <2>4. exports'[c].phase = table[c].phase /\ exports'[c].result = table[c].result
    BY <1>4, <2>0
  <2>8. exports[c].phase = "operation" => State[c] = "waiting"
    BY <1>1, <2>0, <2>3 DEF StateOf
  <2>9. ASSUME NEW x \in PushIds \ {Asked}
        PROVE  \/ State'[x] = State[x]
               \/ State[Asked] = "waiting" /\ Completes(x)
    BY <1>6, <2>0, <2>8
  <2>5. CASE exports[c].phase \in {"free", "bare"}
    <3>1. table = exports /\ type = "reject" /\ ~Late
      BY <1>4, <2>0, <2>2, <2>5
    <3>2. State[c] \in {"unissued", "gone"}
      BY <1>1, <2>3, <2>5 DEF StateOf
    <3>3. State'[c] = State[c]
      BY <1>1, <2>3, <2>4, <2>5, <3>1 DEF StateOf
    <3>4. type \in Service!TypesOf(c)
      BY <3>1, <3>2 DEF Service!TypesOf
    <3> QED
      BY <1>2, <2>0, <2>1, <2>9, <3>1, <3>2, <3>3, <3>4, TellStep
  <2>6. CASE exports[c].phase = "operation"
    <3>1. table \in Thrown /\ type = "reject" /\ ~Late
      BY <1>4, <2>0, <2>2, <2>6
    <3>2. State[c] = "waiting" /\ ~(c >= nextExportId)
      BY <1>1, <2>0, <2>3, <2>6 DEF StateOf
    <3>3. table[c].phase = "bare"
      <4>1. PICK early : /\ table = ClearResult(Cached(early), c)
                         /\ Cached(early) \in [Ids -> Entry]
        BY <1>t, <2>0, <3>1
      <4> QED
        BY <2>0, <4>1 DEF ClearResult, Entry
    <3>4. State'[c] = "gone"
      BY <1>1, <2>3, <2>4, <3>2, <3>3 DEF StateOf
    <3>5. type \in Service!TypesOf(c)
      BY <3>1, <3>2 DEF Service!TypesOf
    <3> QED
      BY <1>2, <2>0, <2>1, <2>9, <3>1, <3>2, <3>4, <3>5, TellStep
  <2>7. CASE exports[c].phase = "result"
    <3>1. /\ table = Sent(exports)
          /\ type = IF exports[c].result = Error /\ ~pulling.late THEN "reject" ELSE "resolve"
      BY <1>4, <2>0, <2>7
    <3>2. /\ State[c] = IF exports[c].result = Error THEN "error" ELSE "value"
          /\ ~(c >= nextExportId)
      BY <1>1, <2>0, <2>3, <2>7 DEF StateOf
    <3>3. type \in Service!TypesOf(c)
      BY <2>0, <3>1, <3>2 DEF Service!TypesOf
    <3>4. CASE pulling.late
      <4>1. table = exports
        BY <3>1, <3>4 DEF Sent
      <4>2. State'[c] = State[c]
        BY <1>1, <2>3, <2>4, <4>1 DEF StateOf
      <4> QED
        BY <1>2, <2>0, <2>1, <2>9, <3>3, <3>4, <4>2, TellStep
    <3>5. CASE ~pulling.late
      <4>1. table = ClearResult(exports, c)
        BY <2>0, <3>1, <3>5 DEF Sent
      <4>2. table[c].phase = "bare"
        BY <1>1, <2>0, <4>1 DEF ClearResult, Entry
      <4>3. State'[c] = "gone"
        BY <1>1, <2>3, <2>4, <3>2, <4>2 DEF StateOf
      <4> QED
        BY <1>2, <2>0, <2>1, <2>9, <3>2, <3>3, <3>5, <4>3, TellStep
    <3> QED
      BY <3>4, <3>5
  <2> QED
    BY <1>1, <2>0, <2>5, <2>6, <2>7 DEF Entry, Phases
<1> QED
  BY <1>7, <1>8

LEMMA ReleaseMaps ==
    ASSUME Drains, TypeOK, HandlersInTurn, NEW id \in Ids, NEW count \in 1..MaxRc,
           ReceiveRelease(id, count)
    PROVE  (\E c \in PushIds : Service!Forget(c)) \/ Service!Other
<1>1. /\ UNCHANGED <<nextExportId, status, pulling>> /\ status = "open" /\ Asked = 0
      /\ exports \in [Ids -> Entry] /\ exports' = Release(exports, id, count)
  BY IdleMeansEmpty, NotAsked DEF ReceiveRelease, control, TypeOK
<1>2. Told' = {} /\ UNCHANGED <<Asked, Late>>
  BY <1>1, NothingSent, PullUnchanged DEF ReceiveRelease
<1>3. \A x \in PushIds : x # id => State'[x] = State[x]
  BY <1>1, EntriesKeepStates, PushesAreNotNegative DEF Release
<1>4. CASE id \notin PushIds
  BY <1>2, <1>3, <1>4, OtherStep
<1>5. CASE id \in PushIds
  <2>0. State[id] = StateOf(id) /\ State'[id] = StateOf(id)'
    BY <1>5, StateMap
  <2>1. CASE exports'[id] = exports[id]
    BY <1>1, <1>2, <1>3, <1>5, <2>1, EntriesKeepStates, OtherStep
  <2>2. CASE exports'[id].phase = exports[id].phase /\ exports'[id].result = exports[id].result
    <3>1. State'[id] = State[id]
      BY <1>1, <2>0, <2>2 DEF StateOf
    <3> QED
      BY <1>2, <1>3, <3>1, OtherStep
  <2>3. CASE exports[id].phase # "free" /\ exports'[id] = Free
    <3>1. ~(id >= nextExportId)
      BY <1>1, <1>5, <2>3 DEF HandlersInTurn, FutureIsFree
    <3>2. State'[id] = "gone"
      BY <1>1, <2>0, <2>3, <3>1 DEF StateOf, Free
    <3>3. State[id] \in {"waiting", "gone"} \cup Given
      BY <1>1, <2>0, <3>1 DEF StateOf, Given
    <3>4. CASE State[id] = "gone"
      BY <1>2, <1>3, <3>2, <3>4, OtherStep
    <3>5. CASE State[id] # "gone"
      BY <1>1, <1>2, <1>3, <1>5, <3>2, <3>3, <3>5, ForgetStep
    <3> QED
      BY <3>4, <3>5
  <2> QED
    BY <1>1, <2>1, <2>2, <2>3 DEF Release, Found, Entry
<1> QED
  BY <1>4, <1>5

\* The process ends, and with it every call and the pull.
LEMMA CrashMaps ==
    ASSUME Crash
    PROVE  Service!End
<1>1. Asked' = 0 /\ Late' = FALSE /\ Told' = {}
  BY NotAskedNext, NothingSent DEF Crash
<1>2. \A x \in PushIds : State'[x] = "ended"
  BY StateMap DEF Crash, StateOf
<1> QED
  BY <1>1, <1>2, EndStep

LEMMA ReceiveMaps ==
    ASSUME Drains, TypeOK, HandlersInTurn, Receive
    PROVE  Service!Next
<1>0. exports \in [Ids -> Entry]
  BY DEF TypeOK
<1>1. ASSUME NEW subject \in Subjects, NEW args \in Args, NEW pipes \in Pipes,
             ReceiveCall(subject, args, pipes)
      PROVE  Service!Issue(nextExportId) /\ nextExportId \in PushIds
  <2>1. \A x \in PushIds : x # nextExportId => Advances(x)
    BY <1>0, <1>1, PushesAreNotNegative DEF ReceiveCall, Put, Advances
  <2> QED
    BY <1>1, <2>1, NothingSent, PushMaps DEF ReceiveCall
<1>2. ASSUME ReceiveOtherPush
      PROVE  Service!Issue(nextExportId) /\ nextExportId \in PushIds
  BY <1>2, NothingSent, PushMaps DEF ReceiveOtherPush, Advances, control
<1>3. ASSUME NEW base \in {0} \cup Ids, NEW names \in Pipes, NEW captures \in Args,
             ReceiveRemap(base, names, captures)
      PROVE  Service!Issue(nextExportId) /\ nextExportId \in PushIds
  <2>1. \A x \in PushIds : x # nextExportId => Advances(x)
    BY <1>3, RemapAdvances
  <2>2. Told' = {}
    BY <1>3, MethodBodySilent DEF ReceiveRemap
  <2> QED
    BY <1>3, <2>1, <2>2, PushMaps DEF ReceiveRemap, control
<1>4. ASSUME NEW id \in Ids, ReceivePull(id)
      PROVE  (\E c \in PushIds : Service!Ask(c)) \/ Service!Other
  <2>1. /\ UNCHANGED <<exports, nextExportId, status>> /\ Told' = {}
        /\ Asked = 0 /\ Late = FALSE /\ pulling'.id = id /\ pulling'.late = FALSE
    BY <1>4, IdleMeansEmpty, NotAsked, NothingSent DEF ReceivePull, tables
  <2>2. \A x \in PushIds : State'[x] = State[x]
    BY <2>1, EntriesKeepStates
  <2>3. Late' = FALSE
    BY <2>1 DEF Late
  <2>4. CASE id \in PushIds
    <3>1. Asked' = id
      BY <2>1, <2>4 DEF Asked, Asks
    <3> QED
      BY <2>1, <2>2, <2>3, <2>4, <3>1, AskStep
  <2>5. CASE id \notin PushIds
    <3>1. Asked' = 0
      BY <2>1, <2>5 DEF Asked, Asks
    <3> QED
      BY <2>1, <2>2, <2>3, <3>1, OtherStep
  <2> QED
    BY <2>4, <2>5
<1>5. ASSUME NEW i \in CallIds \cup ClientPromises, NEW type, ReceiveSettlement(i, type)
      PROVE  Service!Other
  BY <1>5, SettlementSilent, QuietMaps DEF ReceiveSettlement, control
<1>6. CASE \E id \in Ids, count \in 1..MaxRc : ReceiveRelease(id, count)
  BY <1>6, ReleaseMaps DEF Service!Next, Service!Calls, PushIds
<1>7. ASSUME ReceiveAbort \/ ReceiveFatal
      PROVE  Service!End
  <2>1. Abort /\ (out' = <<>> \/ out' = << [type |-> "abort"] >>)
    BY <1>7 DEF ReceiveAbort, ReceiveFatal
  <2>2. Told' = {}
    <3>1. CASE out' = <<>>
      BY <3>1, NothingSent
    <3>2. CASE out' = << [type |-> "abort"] >>
      <4>1. Len(out') = 1 /\ out'[1].type = "abort" /\ \A k \in 1..1 : k = 1
        BY <3>2
      <4> QED
        BY <4>1, Silent
    <3> QED
      BY <2>1, <3>1, <3>2
  <2>3. status' # "open" /\ UNCHANGED pulling /\ pulling = NoPull
    BY <2>1, IdleMeansEmpty DEF Abort
  <2>4. \A x \in PushIds : State'[x] = "ended"
    BY <2>3, StateMap DEF StateOf
  <2> QED
    BY <2>2, <2>3, <2>4, NotAsked, PullUnchanged, EndStep
<1>8. CASE RemapCrashes
  BY <1>8, CrashMaps DEF RemapCrashes, Service!Next
<1> QED
  BY <1>1, <1>2, <1>3, <1>4, <1>5, <1>6, <1>7, <1>8
     DEF Receive, Service!Next, Service!Calls, PushIds

LEMMA CloseMaps ==
    ASSUME Drains, Close
    PROVE  Service!End
<1>1. status' # "open" /\ UNCHANGED pulling /\ pulling = NoPull
  BY IdleMeansEmpty DEF Close
<1>2. Told' = {}
  <2>1. PICK r : out' = << [type |-> "flush", refs |-> r] >>
    BY DEF Close
  <2> DEFINE frame == [type |-> "flush", refs |-> r]
  <2>2. frame.type = "flush" /\ out' = <<frame>>
    BY <2>1
  <2> HIDE DEF frame
  <2>3. Len(out') = 1 /\ out'[1] = frame /\ \A k \in 1..1 : k = 1
    BY <2>2
  <2> QED
    BY <2>2, <2>3, Silent
<1>3. \A x \in PushIds : State'[x] = "ended"
  BY <1>1, StateMap DEF StateOf
<1> QED
  BY <1>1, <1>2, <1>3, NotAsked, PullUnchanged, EndStep

LEMMA NextMaps ==
    ASSUME Drains, TypeOK, HandlersInTurn, [Next]_vars
    PROVE  [Service!Next]_(Service!vars)
<1> USE DEF Service!Next
<1>1. CASE Receive
  BY <1>1, ReceiveMaps
<1>2. CASE RunTask \/ RunTaskUnresolved \/ RunTaskForeign
  BY <1>2, TaskMaps
<1>3. CASE RunTaskReleased
  BY <1>3, NothingSent, QuietMaps DEF RunTaskReleased, PopTask
<1>4. CASE RunLate
  BY <1>4, LateMaps
<1>5. CASE Answer
  BY <1>5, AnswerMaps
<1>6. ASSUME NEW r \in ClientRefs, AppUsesClient(r) PROVE Service!Other
  <2>1. Told' = {}
    BY <1>6, ClientCallSilent DEF AppUsesClient
  <2> QED
    BY <1>6, <2>1, ClientCallsKeepPushes, QuietMaps DEF AppUsesClient, control
<1>7. CASE Close
  BY <1>7, CloseMaps
<1>8. CASE UNCHANGED vars
  <2>1. UNCHANGED <<State, Asked, Late, Told>>
    BY <1>8 DEF vars, tables, control, State, StateOf, Asked, Late, Asks, Told, Answers
  <2> QED
    BY <2>1 DEF Service!vars
<1>9. CASE TaskCrashes \/ LateCrashes
  BY <1>9, CrashMaps DEF TaskCrashes, LateCrashes
<1> QED
  BY <1>1, <1>2, <1>3, <1>4, <1>5, <1>6, <1>7, <1>8, <1>9 DEF Next, Handle, Ended

LEMMA InitMaps == Init => Service!Init
<1> SUFFICES ASSUME Init PROVE Service!Init
  OBVIOUS
<1>1. \A c \in PushIds : State[c] = "unissued"
  BY StateMap, PushesAreNotNegative DEF Init, StateOf, PushIds
<1>2. State = [c \in PushIds |-> "unissued"]
  BY <1>1, StateMap
<1>3. Asked = 0 /\ Late = FALSE
  BY NotAsked DEF Init
<1>4. Told = {}
  BY DEF Init, Told, Answers
<1> QED
  BY <1>2, <1>3, <1>4 DEF Service!Init, Service!Calls, PushIds

\* Under a host that drains the queue after each frame, whatever the peer sends and
\* the methods do, a session behaves as the call service promises: calls are accepted
\* in order, get at most one outcome, and a pull gets one answer, the outcome's.
THEOREM SessionIsService == Drains => (Spec => ImplementsService)
<1> SUFFICES ASSUME Drains PROVE Spec => ImplementsService
  OBVIOUS
<1>1. Init => HandlersInTurn /\ Service!Init
  BY HandlersInTurnInit, InitMaps
<1>2. TypeOK /\ HandlersInTurn /\ [Next]_vars => HandlersInTurn'
  BY FutureIsFreeInductive, OneWaitsInductive, PullIsServedInductive DEF HandlersInTurn
<1>3. TypeOK /\ HandlersInTurn /\ [Next]_vars => [Service!Next]_(Service!vars)
  BY NextMaps
<1> QED
  BY <1>1, <1>2, <1>3, TypeCorrect, PTL DEF Spec, ImplementsService, Service!Spec
=============================================================================
