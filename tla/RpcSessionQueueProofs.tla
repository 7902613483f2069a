----------------------- MODULE RpcSessionQueueProofs -----------------------
(* Theorems about what RpcSession keeps for later: the calls in its queue,  *)
(* whose references find their results or never can, and the links that     *)
(* wait for the client's settlements.                                       *)
EXTENDS RpcSessionProofs

-----------------------------------------------------------------------------
(* How the parts that several actions share change an entry.               *)

\* An id of the server's own that the step takes.
Taken(x) ==
    x \in NegIds /\ x <= nextExportIdNegative /\ x > nextExportIdNegative'

LEMMA FreshAreTaken ==
    ASSUME TypeOK, NEW last \in Lasts, nextExportIdNegative' = last,
           NEW x \in FreshExports(last)
    PROVE  Taken(x)
<1>1. x \in NegIds
  BY FreshAreFree
<1>2. x \in (last + 1)..nextExportIdNegative /\ last \in Int /\ nextExportIdNegative \in Int
  BY FreshAreFree, TablesAssumption DEF FreshExports, TypeOK
<1> QED
  BY <1>1, <1>2 DEF Taken

\* A method gives its own entry a result and exports bare promises.
LEMMA MethodBodyEntries ==
    ASSUME TypeOK, NEW table \in [Ids -> Entry], NEW id \in Ids, NEW copied,
           MethodBody(table, id, copied), NEW x \in Ids
    PROVE  \/ Taken(x) /\ exports'[x] = Bare(NoHook)
           \/ /\ x = id
              /\ exports'[x].phase = "result" /\ exports'[x].rc = table[x].rc
              /\ exports'[x].hook = table[x].hook /\ exports'[x].refs = table[x].refs
           \/ x # id /\ exports'[x] = table[x]
<1>1. PICK last \in Lasts :
         /\ nextExportIdNegative' = last
         /\ \E result : exports' = WithPromises(SetResult(table, id, result), last)
  BY MethodBodyParts DEF UseClient, AllocateExports
<1>2. PICK result : exports' = WithPromises(SetResult(table, id, result), last)
  BY <1>1
<1>3. CASE x \in FreshExports(last)
  BY <1>1, <1>2, <1>3, FreshAreTaken DEF WithPromises
<1>4. CASE x \notin FreshExports(last)
  <2>1. exports'[x] = SetResult(table, id, result)[x]
    BY <1>2, <1>4 DEF WithPromises
  <2> QED
    BY <2>1 DEF SetResult, Entry
<1> QED
  BY <1>3, <1>4

\* A reference that runs a call leaves its value in place of the operation.
LEMMA CachedEntries ==
    ASSUME TypeOK, NEW early, \A p \in early : HasOperation(exports, p), NEW x \in Ids
    PROVE  /\ Cached(early) \in [Ids -> Entry]
           /\ Cached(early)[x].hook = exports[x].hook
           /\ Cached(early)[x].refs = exports[x].refs
           /\ Cached(early)[x].rc = exports[x].rc
           /\ Cached(early)[x].result \in {exports[x].result, Value}
           /\ \/ Cached(early)[x].phase = exports[x].phase
              \/ exports[x].phase = "operation" /\ Cached(early)[x].phase = "result"
<1>1. exports \in [Ids -> Entry] /\ exports[x] \in Entry
  BY DEF TypeOK
<1>2. Cached(early) \in [Ids -> Entry]
  BY <1>1, CachedStaysTyped
<1>3. x \in early => exports[x].phase = "operation"
  BY DEF HasOperation
<1>4. Cached(early)[x] \in
         {exports[x], [exports[x] EXCEPT !.phase = "result", !.result = Value, !.pipes = {}]}
  BY DEF Cached
<1>5. Cached(early)[x] = exports[x] \/ x \in early
  BY DEF Cached
<1> QED
  BY <1>1, <1>2, <1>3, <1>4, <1>5 DEF Entry

\* A remap's push consumes the next id for an entry with a result; of the others it
\* changes at most those it runs.
LEMMA RemapEntries ==
    ASSUME TypeOK, NEW base \in {0} \cup Ids, NEW names \in Pipes, NEW captures \in Args,
           ReceiveRemap(base, names, captures), NEW x \in Ids
    PROVE  \/ Taken(x) /\ exports'[x] = Bare(NoHook)
           \/ /\ x = nextExportId
              /\ exports'[x].phase = "result" /\ exports'[x].refs = captures
           \/ /\ x # nextExportId /\ exports'[x].rc = exports[x].rc
              /\ exports'[x].hook = exports[x].hook /\ exports'[x].refs = exports[x].refs
              /\ \/ exports'[x].phase = exports[x].phase
                 \/ exports[x].phase = "operation" /\ exports'[x].phase = "result"
<1>1. nextExportId \in Ids
  BY DEF ReceiveRemap, Ids
<1>2. PICK early \in Ran({base} \cup names) :
         MethodBody(Put(Cached(early), nextExportId, Finished(None, NoHook, captures)),
                    nextExportId, ResultsOf(Cached(early), {base} \cup names))
  BY DEF ReceiveRemap
<1> DEFINE read == Cached(early)
<1> DEFINE copied == ResultsOf(read, {base} \cup names)
<1> DEFINE table == Put(read, nextExportId, Finished(None, NoHook, captures))
<1>3. /\ read \in [Ids -> Entry]
      /\ read[x].hook = exports[x].hook /\ read[x].refs = exports[x].refs
      /\ read[x].rc = exports[x].rc
      /\ \/ read[x].phase = exports[x].phase
         \/ exports[x].phase = "operation" /\ read[x].phase = "result"
  BY RanAreOperations, CachedEntries
<1>4. table \in [Ids -> Entry]
  BY <1>1, <1>3, ArgsAreBags, ResultKinds, FreshEntries, PutTyped
<1>5. /\ table[nextExportId].refs = captures
      /\ x # nextExportId => table[x] = read[x]
  BY <1>1, <1>3 DEF Put, Finished
<1>6. MethodBody(table, nextExportId, copied)
  BY <1>2
<1> HIDE DEF read, table, copied
<1> QED
  BY <1>1, <1>3, <1>4, <1>5, <1>6, MethodBodyEntries

\* A task gives its entry an outcome, or leaves it as it was, and changes no other
\* but those it runs early.
LEMMA TaskEntries ==
    ASSUME TypeOK, RunTask \/ RunTaskUnresolved \/ RunTaskForeign, NEW x \in Ids
    PROVE  \/ Taken(x) /\ exports'[x] = Bare(NoHook)
           \/ /\ exports'[x].hook = exports[x].hook /\ exports'[x].refs = exports[x].refs
              /\ exports'[x].rc = exports[x].rc
              /\ \/ exports'[x].phase = exports[x].phase
                 \/ exports[x].phase # "free" /\ exports'[x].phase = "result"
<1> DEFINE task == Head(microtasks)
<1>1. task.id \in Ids /\ exports[task.id].phase # "free"
  BY PipesTyped DEF RunTask, RunTaskUnresolved, RunTaskForeign, PopTask, TasksRun, Ids, Found
<1>2. CASE RunTask
  <2> DEFINE early == Pending(task.pipes)
  <2> DEFINE copied == ResultsOf(Cached(early), task.pipes)
  <2>1. MethodBody(Cached(early), task.id, copied)
    BY <1>2 DEF RunTask
  <2>2. \A p \in early : HasOperation(exports, p)
    BY PendingAreOperations
  <2> HIDE DEF early, copied, task
  <2> QED
    BY <1>1, <2>1, <2>2, CachedEntries, MethodBodyEntries
<1>3. CASE RunTaskUnresolved
  <2>1. PICK early \in Ran(task.pipes) : exports' = SetResult(Cached(early), task.id, Error)
    BY <1>3 DEF RunTaskUnresolved
  <2>2. \A p \in early : HasOperation(exports, p)
    BY RanAreOperations
  <2>3. Cached(early) \in [Ids -> Entry]
    BY <2>2, CachedEntries
  <2>4. \/ x # task.id /\ exports'[x] = Cached(early)[x]
        \/ /\ x = task.id /\ exports'[x].phase = "result"
           /\ exports'[x].hook = Cached(early)[x].hook /\ exports'[x].rc = Cached(early)[x].rc
           /\ exports'[x].refs = Cached(early)[x].refs
    BY <2>1, <2>3 DEF SetResult, Entry
  <2> QED
    BY <1>1, <2>2, <2>4, CachedEntries
<1>4. CASE RunTaskForeign
  <2>1. PICK early \in Ran(task.pipes) : exports' = Cached(early)
    BY <1>4 DEF RunTaskForeign
  <2> QED
    BY <2>1, RanAreOperations, CachedEntries
<1> QED
  BY <1>2, <1>3, <1>4

\* So does a pull that runs its call itself.
LEMMA LateEntries ==
    ASSUME TypeOK, RunLate, NEW x \in Ids
    PROVE  /\ pulling.id \in Ids
           /\ \/ Taken(x) /\ exports'[x] = Bare(NoHook)
              \/ /\ exports'[x].hook = exports[x].hook /\ exports'[x].refs = exports[x].refs
                 /\ exports'[x].rc = exports[x].rc
                 /\ \/ exports'[x].phase = exports[x].phase
                    \/ exports[x].phase = "operation" /\ exports'[x].phase = "result"
<1> DEFINE early == Pending(Refs(pulling.id))
<1> DEFINE copied == ResultsOf(Cached(early), Refs(pulling.id))
<1>1. pulling.id \in Ids /\ exports[pulling.id].phase = "operation"
  BY DEF RunLate, LateRuns, HasOperation
<1>2. MethodBody(Cached(early), pulling.id, copied)
  BY DEF RunLate
<1>3. \A p \in early : HasOperation(exports, p)
  BY PendingAreOperations
<1> HIDE DEF early, copied
<1> QED
  BY <1>1, <1>2, <1>3, CachedEntries, MethodBodyEntries

\* The table an answer starts from: the pulled result may have been cleared.
LEMMA SentEntries ==
    ASSUME TypeOK, pulling.id \in Ids,
           NEW table \in {exports, ClearResult(exports, pulling.id), Sent(exports)},
           table = exports \/ exports[pulling.id].phase # "free",
           NEW x \in Ids
    PROVE  /\ table \in [Ids -> Entry]
           /\ table[x].hook = exports[x].hook /\ table[x].refs = exports[x].refs
           /\ table[x].rc = exports[x].rc
           /\ table[x].result \in {exports[x].result, None}
           /\ x # pulling.id => table[x].phase = exports[x].phase
           /\ table[x].phase = "free" <=> exports[x].phase = "free"
<1>1. exports \in [Ids -> Entry]
  BY DEF TypeOK
<1>2. ClearResult(exports, pulling.id) \in [Ids -> Entry]
  BY <1>1, ClearResultTyped
<1> QED
  BY <1>1, <1>2 DEF Sent, ClearResult, Entry

\* A late dispatch that failed has dropped its call, and may have run others.
LEMMA ThrowEntries ==
    ASSUME TypeOK, HasOperation(exports, pulling.id),
           NEW early, \A p \in early : HasOperation(exports, p), NEW x \in Ids
    PROVE  LET table == ClearResult(Cached(early), pulling.id) IN
           /\ table \in [Ids -> Entry]
           /\ table[x].hook = exports[x].hook /\ table[x].refs = exports[x].refs
           /\ table[x].rc = exports[x].rc
           /\ table[x].result \in {exports[x].result, Value, None}
           /\ x # pulling.id =>
                 \/ table[x].phase = exports[x].phase
                 \/ exports[x].phase = "operation" /\ table[x].phase = "result"
           /\ table[x].phase = "free" <=> exports[x].phase = "free"
<1> DEFINE read == Cached(early)
<1>1. pulling.id \in Ids /\ exports[pulling.id].phase = "operation"
  BY DEF HasOperation
<1>2. /\ read \in [Ids -> Entry]
      /\ read[x].hook = exports[x].hook /\ read[x].refs = exports[x].refs
      /\ read[x].rc = exports[x].rc /\ read[x].result \in {exports[x].result, Value}
      /\ \/ read[x].phase = exports[x].phase
         \/ exports[x].phase = "operation" /\ read[x].phase = "result"
  BY CachedEntries
<1> HIDE DEF read
<1>3. ClearResult(read, pulling.id) \in [Ids -> Entry]
  BY <1>1, <1>2, ClearResultTyped
<1>4. LET cleared == ClearResult(read, pulling.id)[x] IN
      /\ cleared.hook = read[x].hook /\ cleared.refs = read[x].refs
      /\ cleared.rc = read[x].rc /\ cleared.result \in {read[x].result, None}
      /\ cleared.phase = IF x = pulling.id THEN "bare" ELSE read[x].phase
  BY <1>1, <1>2 DEF ClearResult, Entry
<1> QED
  BY <1>1, <1>2, <1>3, <1>4 DEF read

LEMMA ReplyEntries ==
    ASSUME NEW table \in [Ids -> Entry], NEW frame, Reply(table, frame), pulling.id \in Ids,
           NEW x \in Ids
    PROVE  /\ exports'[x].phase = table[x].phase
           /\ exports'[x].hook = table[x].hook /\ exports'[x].result = table[x].result
           /\ exports'[x].rc = table[x].rc
           /\ exports'[x].refs = IF x = pulling.id THEN NoRefs ELSE table[x].refs
           /\ released \in [Ids -> Bags] =>
                 released'[x] = IF x = pulling.id THEN AddBags(released[x], table[x].refs)
                                ELSE released[x]
           /\ pulling.id \in PushIds => pulling.id \in spent'
BY DEF Reply, Entry

\* An answer clears the pulled entry, whose result it has sent, and may export one
\* stub or promise under a new id.
LEMMA AnswerEntries ==
    ASSUME TypeOK, Answer, NEW x \in Ids
    PROVE  /\ pulling.id \in Ids /\ (pulling.id \in PushIds => pulling.id \in spent')
           /\ exports'[x].refs \in {NoRefs, exports[x].refs}
           /\ \/ /\ x = nextExportIdNegative /\ x \in NegIds
                 /\ nextExportIdNegative' = nextExportIdNegative - 1
                 /\ AnswerNewStub \/ AnswerPromise
                 /\ exports'[x].refs = NoRefs
                 /\ released'[x] \in {released[x], AddBags(released[x], NoRefs)}
              \/ /\ exports'[x].hook = exports[x].hook
                 /\ exports'[x].result \in {exports[x].result, Value, None}
                 /\ x # pulling.id =>
                       \/ exports'[x].phase = exports[x].phase
                       \/ exports[x].phase = "operation" /\ exports'[x].phase = "result"
                 /\ \/ exports'[x].refs = exports[x].refs /\ released'[x] = released[x]
                    \/ /\ exports'[x].refs = NoRefs
                       /\ released'[x] = AddBags(released[x], exports[x].refs)
                 /\ exports'[x].phase = "free" <=> exports[x].phase = "free"
<1>1. /\ pulling.id \in Ids /\ exports \in [Ids -> Entry]
      /\ released \in [Ids -> Bags]
  BY DEF TypeOK, Answer, AnswerNotFound, AnswerThrow, AnswerError, AnswerValue,
         AnswerKnownStub, AnswerNewStub, AnswerPromise, AnsweringResult, Answering
<1> DEFINE Follows(table) ==
      /\ table \in [Ids -> Entry]
      /\ table[x].hook = exports[x].hook /\ table[x].refs = exports[x].refs
      /\ table[x].result \in {exports[x].result, Value, None}
      /\ x # pulling.id =>
            \/ table[x].phase = exports[x].phase
            \/ exports[x].phase = "operation" /\ table[x].phase = "result"
      /\ table[x].phase = "free" <=> exports[x].phase = "free"
<1>2. ASSUME NEW table, Follows(table), NEW frame, Reply(table, frame)
      PROVE  /\ pulling.id \in PushIds => pulling.id \in spent'
             /\ exports'[x].hook = exports[x].hook
             /\ exports'[x].result \in {exports[x].result, Value, None}
             /\ x # pulling.id =>
                   \/ exports'[x].phase = exports[x].phase
                   \/ exports[x].phase = "operation" /\ exports'[x].phase = "result"
             /\ \/ exports'[x].refs = exports[x].refs /\ released'[x] = released[x]
                \/ /\ exports'[x].refs = NoRefs
                   /\ released'[x] = AddBags(released[x], exports[x].refs)
             /\ exports'[x].phase = "free" <=> exports[x].phase = "free"
  BY <1>1, <1>2, ReplyEntries
<1>3. Follows(exports)
  BY <1>1, SentEntries
<1>4. exports[pulling.id].phase # "free" => Follows(Sent(exports))
  BY <1>1, SentEntries
<1>5. CASE AnswerNotFound \/ AnswerError \/ AnswerValue
  <2>1. \E table : Follows(table) /\ \E frame : Reply(table, frame)
    <3> HIDE DEF Follows
    <3> QED
      BY <1>3, <1>4, <1>5 DEF AnswerNotFound, AnswerError, AnswerValue, AnsweringResult, HasResult
  <2> HIDE DEF Follows
  <2> QED
    BY <1>1, <1>2, <2>1
<1>6. CASE AnswerThrow
  <2>1. PICK early \in Ran(Refs(pulling.id)) :
           Reply(ClearResult(Cached(early), pulling.id), Reject)
    BY <1>6 DEF AnswerThrow
  <2>2. Follows(ClearResult(Cached(early), pulling.id))
    BY <1>6, RanAreOperations, ThrowEntries DEF AnswerThrow, LateRuns
  <2> HIDE DEF Follows
  <2> QED
    BY <1>1, <1>2, <2>1, <2>2
<1>7. CASE AnswerKnownStub
  <2>0. exports[pulling.id].phase # "free"
    BY <1>7 DEF AnswerKnownStub, AnsweringResult, HasResult
  <2>1. PICK n : Reply(IF Found(exports, n) THEN AddReference(Sent(exports), n)
                                            ELSE Sent(exports), Resolve(Export(n)))
    BY <1>7 DEF AnswerKnownStub
  <2>2. CASE Found(exports, n)
    <3>1. n \in Ids /\ Sent(exports) \in [Ids -> Entry]
      BY <1>1, <2>0, <2>2, <1>4 DEF Found
    <3>2. AddReference(Sent(exports), n) \in [Ids -> Entry]
      BY <3>1, AddReferenceTyped
    <3>3. /\ AddReference(Sent(exports), n)[x].phase = Sent(exports)[x].phase
          /\ AddReference(Sent(exports), n)[x].hook = Sent(exports)[x].hook
          /\ AddReference(Sent(exports), n)[x].result = Sent(exports)[x].result
          /\ AddReference(Sent(exports), n)[x].refs = Sent(exports)[x].refs
      BY <3>1 DEF AddReference, Entry
    <3> QED
      BY <1>1, <2>0, <2>1, <2>2, <3>2, <3>3, <1>4, ReplyEntries
  <2>3. CASE ~Found(exports, n)
    <3> HIDE DEF Follows
    <3> QED
      BY <1>1, <1>2, <1>4, <2>0, <2>1, <2>3
  <2> QED
    BY <2>2, <2>3
<1>8. CASE AnswerNewStub \/ AnswerPromise
  <2> DEFINE n == nextExportIdNegative
  <2>1. /\ n \in NegIds /\ n \in Ids /\ nextExportIdNegative' = n - 1
        /\ exports[pulling.id].phase # "free"
    BY <1>8 DEF AnswerNewStub, AnswerPromise, RoomForExport, Ids, AnsweringResult, HasResult
  <2>2. PICK entry \in Entry : /\ \E frame : Reply(Put(Sent(exports), n, entry), frame)
                                /\ entry.refs = NoRefs
    <3>1. CASE AnswerNewStub
      <4>1. PICK t \in Targets :
               Reply(Put(Sent(exports), n, Bare(StubHook(t))), Resolve(Export(n)))
        BY <3>1 DEF AnswerNewStub
      <4>2. Bare(StubHook(t)) \in Entry /\ Bare(StubHook(t)).refs = NoRefs
        BY FreshEntries, TablesAssumption DEF StubHook, Bare
      <4> QED
        BY <4>1, <4>2
    <3>2. CASE AnswerPromise
      <4> DEFINE entry == Finished(exports[pulling.id].result.payload, Main, NoRefs)
      <4>1. exports[pulling.id].result \in Results
        BY <1>1 DEF Entry
      <4>2. entry \in Entry /\ entry.refs = NoRefs
        BY <3>2, <4>1, ResultKinds, FreshEntries, TablesAssumption DEF AnswerPromise, Finished
      <4> QED
        BY <3>2, <4>2 DEF AnswerPromise
    <3> QED
      BY <1>8, <3>1, <3>2
  <2>3. PICK frame : Reply(Put(Sent(exports), n, entry), frame)
    BY <2>2
  <2>4. Sent(exports) \in [Ids -> Entry] /\ Put(Sent(exports), n, entry) \in [Ids -> Entry]
    BY <1>1, <2>1, <1>4, PutTyped
  <2>5. Put(Sent(exports), n, entry)[x] = IF x = n THEN entry ELSE Sent(exports)[x]
    BY <2>1, <2>4 DEF Put
  <2> HIDE DEF n
  <2> QED
    BY <1>1, <1>8, <2>1, <2>2, <2>3, <2>4, <2>5, <1>4, ReplyEntries DEF n
<1> QED
  BY <1>5, <1>6, <1>7, <1>8 DEF Answer

-----------------------------------------------------------------------------
(* The queue is in push order.                                             *)

\* Ids grow along the queue; a process that is gone has none.
QueueIsOrdered ==
    /\ \A k \in 1..Len(microtasks) : microtasks[k].id < nextExportId
    /\ \A j, k \in 1..Len(microtasks) : j < k => microtasks[j].id < microtasks[k].id
    /\ status = "crashed" => microtasks = <<>>

\* What each step does to the queue and to the next push id.
LEMMA QueueSteps ==
    ASSUME TypeOK, [Next]_vars
    PROVE  \/ \E subject \in Subjects, args \in Args, pipes \in Pipes :
                 ReceiveCall(subject, args, pipes)
           \/ PopTask
           \/ microtasks' = <<>>
           \/ /\ UNCHANGED microtasks
              /\ nextExportId' \in {nextExportId, nextExportId + 1}
              /\ status' = "crashed" => status = "crashed"
<1>1. CASE Receive
  BY <1>1 DEF Receive, ReceiveOtherPush, ReceiveRemap, RemapCrashes, Crash, ReceivePull,
              ReceiveSettlement, ReceiveRelease, ReceiveAbort, ReceiveFatal, Abort, control,
              tables
<1>2. CASE RunTaskReleased \/ RunTaskUnresolved \/ RunTask \/ RunTaskForeign
  BY <1>2 DEF RunTaskReleased, RunTaskUnresolved, RunTask, RunTaskForeign
<1>3. CASE TaskCrashes \/ LateCrashes \/ RunLate \/ Answer
  BY <1>3 DEF TaskCrashes, LateCrashes, Crash, RunLate, LateRuns, Answer, AnswerNotFound,
              AnswerThrow, AnswerError, AnswerValue, AnswerKnownStub, AnswerNewStub,
              AnswerPromise, AnsweringResult, Answering
<1>4. CASE (\E r \in ClientRefs : AppUsesClient(r)) \/ Close \/ UNCHANGED vars
  BY <1>4 DEF AppUsesClient, Close, control, tables, vars
<1> QED
  BY <1>1, <1>2, <1>3, <1>4 DEF Next, Handle, Ended

LEMMA QueuedIds ==
    ASSUME TypeOK, NEW k \in 1..Len(microtasks)
    PROVE  microtasks[k].id \in PushIds /\ microtasks[k].id \in Nat
<1>1. microtasks[k] \in Task
  BY DEF TypeOK
<1> QED
  BY <1>1, TablesAssumption DEF Task, PushIds

LEMMA QueueIsOrderedInductive ==
    ASSUME TypeOK, QueueIsOrdered, [Next]_vars
    PROVE  QueueIsOrdered'
<1>0. microtasks \in Seq(Task) /\ nextExportId \in Nat /\ PushIds \subseteq Nat
  BY TablesAssumption DEF TypeOK, PushIds
<1>1. ASSUME NEW subject \in Subjects, NEW args \in Args, NEW pipes \in Pipes,
             ReceiveCall(subject, args, pipes)
      PROVE  QueueIsOrdered'
  <2> DEFINE task == [id |-> nextExportId, subject |-> subject,
                      hook |-> CalleeOf(subject), pipes |-> pipes]
  <2>1. /\ microtasks' = Append(microtasks, task)
        /\ nextExportId' = nextExportId + 1
        /\ status' # "crashed"
    BY <1>1 DEF ReceiveCall, Idle
  <2>2. /\ Len(microtasks') = Len(microtasks) + 1 /\ Len(microtasks) \in Nat
        /\ microtasks'[Len(microtasks) + 1] = task
        /\ \A k \in 1..Len(microtasks) : microtasks'[k] = microtasks[k]
    BY <1>0, <2>1
  <2>3. task.id = nextExportId
    OBVIOUS
  <2>4. \A k \in 1..Len(microtasks) : microtasks[k].id \in Nat
    BY QueuedIds
  <2> HIDE DEF task
  <2>5. ASSUME NEW k \in 1..Len(microtasks')
        PROVE  microtasks'[k].id < nextExportId'
    <3>1. CASE k = Len(microtasks) + 1
      BY <1>0, <2>1, <2>2, <2>3, <3>1
    <3>2. CASE k # Len(microtasks) + 1
      <4>1. k \in 1..Len(microtasks)
        BY <2>2, <3>2
      <4>2. microtasks[k].id < nextExportId + 1
        BY <1>0, <2>4, <4>1 DEF QueueIsOrdered
      <4> QED
        BY <2>1, <2>2, <4>1, <4>2
    <3> QED
      BY <3>1, <3>2
  <2>6. ASSUME NEW j \in 1..Len(microtasks'), NEW k \in 1..Len(microtasks'), j < k
        PROVE  microtasks'[j].id < microtasks'[k].id
    <3>1. j \in 1..Len(microtasks) /\ j \in Nat /\ k \in Nat
      BY <2>2, <2>6
    <3>2. CASE k = Len(microtasks) + 1
      BY <2>2, <2>3, <3>1, <3>2 DEF QueueIsOrdered
    <3>3. CASE k # Len(microtasks) + 1
      <4>1. k \in 1..Len(microtasks)
        BY <2>2, <3>3
      <4> QED
        BY <2>2, <2>6, <3>1, <4>1 DEF QueueIsOrdered
    <3> QED
      BY <3>2, <3>3
  <2> QED
    BY <2>1, <2>5, <2>6 DEF QueueIsOrdered
<1>2. CASE PopTask
  <2>1. /\ microtasks' = Tail(microtasks) /\ microtasks # <<>> /\ UNCHANGED nextExportId
        /\ status' # "crashed"
    BY <1>2 DEF PopTask, TasksRun
  <2>2. /\ Len(microtasks') = Len(microtasks) - 1 /\ Len(microtasks) \in Nat
        /\ \A k \in 1..Len(microtasks') : microtasks'[k] = microtasks[k + 1]
    BY <1>0, <2>1
  <2>3. \A k \in 1..Len(microtasks') : k \in Nat /\ k + 1 \in 1..Len(microtasks)
    BY <2>2
  <2>4. \A k \in 1..Len(microtasks') : microtasks'[k].id < nextExportId'
    BY <2>1, <2>2, <2>3 DEF QueueIsOrdered
  <2>5. ASSUME NEW j \in 1..Len(microtasks'), NEW k \in 1..Len(microtasks'), j < k
        PROVE  microtasks'[j].id < microtasks'[k].id
    <3>1. j + 1 < k + 1
      BY <2>3, <2>5
    <3> QED
      BY <2>2, <2>3, <3>1 DEF QueueIsOrdered
  <2> QED
    BY <2>1, <2>4, <2>5 DEF QueueIsOrdered
<1>3. CASE microtasks' = <<>>
  BY <1>3 DEF QueueIsOrdered
<1>4. CASE /\ UNCHANGED microtasks
           /\ nextExportId' \in {nextExportId, nextExportId + 1}
           /\ status' = "crashed" => status = "crashed"
  <2>1. \A k \in 1..Len(microtasks) : microtasks[k].id \in Nat
    BY QueuedIds
  <2> QED
    BY <1>0, <1>4, <2>1 DEF QueueIsOrdered
<1> QED
  BY <1>1, <1>2, <1>3, <1>4, QueueSteps

LEMMA QueueAlwaysOrdered == Spec => []QueueIsOrdered
<1>1. Init => QueueIsOrdered
  BY DEF Init, QueueIsOrdered
<1>2. TypeOK /\ QueueIsOrdered /\ [Next]_vars => QueueIsOrdered'
  BY QueueIsOrderedInductive
<1> QED
  BY <1>1, <1>2, TypeCorrect, PTL DEF Spec

\* A reference back runs its call early, on the main target whatever the call was
\* pushed on (rpc_session.cpp:429), only if the call's own task has run and ended in a
\* foreign exception, however long the chain of references that leads back.  A call
\* that waits is stranded or in the queue, and no call in the queue is before the
\* front task.
THEOREM EarlyRunsAreForStranded == Spec => []EarlyRunsAreRetries
<1>1. TypeOK /\ PendingAreQueued /\ QueueIsOrdered => EarlyRunsAreRetries
  <2> SUFFICES ASSUME TypeOK, PendingAreQueued, QueueIsOrdered, microtasks # <<>>,
                      NEW p \in Pending(Head(microtasks).pipes),
                      p < Head(microtasks).id
               PROVE  p \in stranded
    BY DEF EarlyRunsAreRetries
  <2>1. microtasks \in Seq(Task) /\ Head(microtasks) = microtasks[1] /\ 1 \in 1..Len(microtasks)
    BY DEF TypeOK
  <2>2. p \in Ids /\ exports[p].phase = "operation"
    BY PendingAreOperations DEF HasOperation
  <2>3. ASSUME NEW k \in 1..Len(microtasks), microtasks[k].id = p
        PROVE  FALSE
    <3>1. microtasks[1].id \in Nat /\ microtasks[k].id \in Nat
      BY <2>1, QueuedIds
    <3>2. k = 1 \/ microtasks[1].id < microtasks[k].id
      BY <2>1 DEF QueueIsOrdered
    <3>3. p < microtasks[1].id
      BY <2>1
    <3> QED
      BY <2>3, <3>1, <3>2, <3>3
  <2>4. status # "crashed"
    BY DEF QueueIsOrdered
  <2> QED
    BY <2>2, <2>3, <2>4 DEF PendingAreQueued
<1>2. Init => PendingAreQueued
  BY DEF Init, PendingAreQueued, Free
<1>3. TypeOK /\ PendingAreQueued /\ [Next]_vars => PendingAreQueued'
  BY PendingAreQueuedInductive
<1> QED
  BY <1>1, <1>2, <1>3, TypeCorrect, QueueAlwaysOrdered, PTL DEF Spec

-----------------------------------------------------------------------------
(* References are ready.                                                   *)

\* Every push accepted so far has its entry, with an operation or a result, unless
\* it is spent.
PushesAreStored ==
    \A p \in PushIds : p < nextExportId =>
        p \in spent \/ exports[p].phase \in {"operation", "result"}

LEMMA PushesAreNotNegative == \A p \in PushIds : p \in Ids /\ p \notin NegIds /\ p \in Nat
BY TablesAssumption DEF PushIds, NegIds, Ids

LEMMA PushesAreStoredInductive ==
    ASSUME TypeOK, PushesAreStored, [Next]_vars
    PROVE  PushesAreStored'
<1> SUFFICES ASSUME NEW p \in PushIds, p < nextExportId'
             PROVE  p \in spent' \/ exports'[p].phase \in {"operation", "result"}
  BY DEF PushesAreStored
<1>0. /\ p \in Ids /\ p \notin NegIds /\ p \in Nat /\ nextExportId \in Nat
      /\ exports \in [Ids -> Entry] /\ ~Taken(p)
  BY PushesAreNotNegative, TablesAssumption DEF TypeOK, Taken
<1>1. ASSUME p < nextExportId, spent \subseteq spent',
             exports'[p].phase \in {exports[p].phase, "result"}
      PROVE  p \in spent' \/ exports'[p].phase \in {"operation", "result"}
  BY <1>1 DEF PushesAreStored
<1>2. ASSUME NEW subject \in Subjects, NEW args \in Args, NEW pipes \in Pipes,
             ReceiveCall(subject, args, pipes)
      PROVE  p \in spent' \/ exports'[p].phase \in {"operation", "result"}
  <2>1. /\ exports' = Put(exports, nextExportId, Operation(CalleeOf(subject), args, pipes))
        /\ nextExportId' = nextExportId + 1 /\ spent' = spent
    BY <1>2 DEF ReceiveCall
  <2>2. CASE p = nextExportId
    BY <1>0, <2>1, <2>2 DEF Put, Operation
  <2>3. CASE p # nextExportId
    BY <1>0, <1>1, <2>1, <2>3 DEF Put
  <2> QED
    BY <2>2, <2>3
<1>3. CASE ReceiveOtherPush
  <2>1. /\ exports' = exports /\ nextExportId' = nextExportId + 1
        /\ spent' = spent \cup {nextExportId}
    BY <1>3 DEF ReceiveOtherPush
  <2> QED
    BY <1>0, <1>1, <2>1
<1>4. ASSUME NEW base \in {0} \cup Ids, NEW names \in Pipes, NEW captures \in Args,
             ReceiveRemap(base, names, captures)
      PROVE  p \in spent' \/ exports'[p].phase \in {"operation", "result"}
  <2>1. nextExportId' = nextExportId + 1 /\ spent' = spent
    BY <1>4 DEF ReceiveRemap
  <2>2. CASE p = nextExportId
    BY <1>0, <1>4, <2>2, RemapEntries
  <2>3. CASE p # nextExportId
    <3>1. exports'[p].phase \in {exports[p].phase, "result"}
      BY <1>0, <1>4, <2>3, RemapEntries
    <3> QED
      BY <1>0, <1>1, <2>1, <2>3, <3>1
  <2> QED
    BY <2>2, <2>3
<1>5. CASE RunTask \/ RunTaskUnresolved \/ RunTaskForeign
  <2>1. UNCHANGED <<nextExportId, spent>>
    BY <1>5 DEF RunTask, RunTaskUnresolved, RunTaskForeign, PopTask
  <2>2. exports'[p].phase \in {exports[p].phase, "result"}
    BY <1>0, <1>5, TaskEntries
  <2> QED
    BY <1>1, <2>1, <2>2
<1>6. CASE RunTaskReleased
  BY <1>1, <1>6 DEF RunTaskReleased, PopTask
<1>7. CASE RunLate
  <2>1. exports'[p].phase \in {exports[p].phase, "result"}
    BY <1>0, <1>7, LateEntries
  <2> QED
    BY <1>1, <1>7, <2>1 DEF RunLate
<1>8. CASE Answer
  <2>1. UNCHANGED nextExportId
    BY <1>8 DEF Answer, AnswerNotFound, AnswerThrow, AnswerError, AnswerValue,
                AnswerKnownStub, AnswerNewStub, AnswerPromise, AnsweringResult, Answering
  <2>2. spent \subseteq spent'
    BY <1>8 DEF Answer, AnswerNotFound, AnswerThrow, AnswerError, AnswerValue,
                AnswerKnownStub, AnswerNewStub, AnswerPromise, Reply
  <2>3. p = pulling.id \/ exports'[p].phase \in {exports[p].phase, "result"}
    BY <1>0, <1>8, AnswerEntries
  <2>4. p = pulling.id => p \in spent'
    BY <1>0, <1>8, AnswerEntries
  <2> QED
    BY <1>1, <2>1, <2>2, <2>3, <2>4
<1>9. CASE \E id \in Ids, count \in 1..MaxRc : ReceiveRelease(id, count)
  <2>1. PICK id \in Ids, count \in 1..MaxRc : ReceiveRelease(id, count)
    BY <1>9
  <2>2. /\ exports' = Release(exports, id, count) /\ nextExportId' = nextExportId
        /\ spent' = spent \cup {q \in {id} \cap PushIds :
                                  Found(exports, id) /\ ~Found(exports', id)}
    BY <2>1 DEF ReceiveRelease
  <2>3. \/ exports'[p].phase = exports[p].phase
        \/ p = id /\ Found(exports, id) /\ exports'[p] = Free
    BY <1>0, <2>2 DEF Release, Entry
  <2>4. p = id /\ Found(exports, id) /\ exports'[p] = Free => p \in spent'
    BY <2>2 DEF Found, Free
  <2> QED
    BY <1>1, <2>2, <2>3, <2>4
<1>10. CASE \E r \in ClientRefs : AppUsesClient(r)
  <2>1. /\ \E last \in Lasts : exports' = WithPromises(exports, last)
        /\ UNCHANGED <<nextExportId, spent>>
    BY <1>10 DEF AppUsesClient
  <2>2. exports'[p] = exports[p]
    BY <1>0, <2>1, FreshAreFree DEF WithPromises
  <2> QED
    BY <1>1, <2>1, <2>2
<1>11. CASE Abort
  BY <1>0, <1>11 DEF Abort, PushIds
<1>12. CASE Close
  <2>1. exports'[p].phase = exports[p].phase
    BY <1>0, <1>12 DEF Close, Entry
  <2> QED
    BY <1>1, <1>12, <2>1 DEF Close
<1>13. CASE \/ \E id \in Ids : ReceivePull(id)
            \/ \E i \in CallIds \cup ClientPromises, type \in {"resolve", "reject"} :
                  ReceiveSettlement(i, type)
            \/ Crash
            \/ UNCHANGED vars
  <2>1. UNCHANGED <<exports, nextExportId, spent>>
    BY <1>13 DEF ReceivePull, ReceiveSettlement, Crash, tables, vars, calls
  <2> QED
    BY <1>1, <2>1
<1> QED
  BY <1>2, <1>3, <1>4, <1>5, <1>6, <1>7, <1>8, <1>9, <1>10, <1>11, <1>12, <1>13
     DEF Next, Receive, Handle, ReceiveAbort, ReceiveFatal, RemapCrashes, TaskCrashes,
         LateCrashes, Ended

\* A reference to a push the server has taken, in a queued call or in one it leads to,
\* can fail only because that push stored nothing, or its result was sent or its
\* export erased, never because the result is late (rpc_session.cpp:405-440): what is
\* neither spent nor run is still an operation, which the reference runs.
THEOREM ReferencesAlwaysReady == Spec => []ReferencesAreReady
<1>1. TypeOK /\ PushesAreStored => ReferencesAreReady
  <2> SUFFICES ASSUME TypeOK, PushesAreStored,
                      NEW k \in 1..Len(microtasks),
                      NEW p \in Unreadable(microtasks[k].pipes) \cap 1..(nextExportId - 1)
               PROVE  p \in spent
    BY DEF ReferencesAreReady
  <2>1. nextExportId \in 1..(MaxPush + 1) /\ MaxPush \in Nat
    BY TablesAssumption DEF TypeOK
  <2>2. p \in PushIds /\ p < nextExportId /\ p \in Ids
    BY <2>1 DEF PushIds, Ids
  <2>3. exports[p].phase \notin {"operation", "result"}
    BY <2>2 DEF Unreadable, HasResult, HasOperation
  <2> QED
    BY <2>2, <2>3 DEF PushesAreStored
<1>2. Init => PushesAreStored
  BY TablesAssumption DEF Init, PushesAreStored, PushIds
<1>3. TypeOK /\ PushesAreStored /\ [Next]_vars => PushesAreStored'
  BY PushesAreStoredInductive
<1> QED
  BY <1>1, <1>2, <1>3, TypeCorrect, PTL DEF Spec

-----------------------------------------------------------------------------
(* Links.                                                                  *)

\* Ids are not used again while the session is open: every linked or settled promise
\* was allocated.
LinksAreAllocated ==
    /\ \A i \in CallIds \cup ClientRefs : importToPromiseExport[i] # 0 =>
          /\ importToPromiseExport[i] > nextExportIdNegative
          /\ importToPromiseExport[i] \notin settled
    /\ \A n \in settled : n > nextExportIdNegative

\* No two imports are linked to one promise.
LinksAreDistinct ==
    \A i, j \in CallIds \cup ClientRefs :
        importToPromiseExport[i] # 0 /\ importToPromiseExport[j] = importToPromiseExport[i]
            => j = i

\* A call keeps its link until its answer.
CallsAreLinked ==
    \A i \in CallIds : i < nextImportId /\ i \notin answered => importToPromiseExport[i] # 0

\* The inductive invariant; an abort empties the map and numbers ids afresh.
LinksAreOwn ==
    status = "open" => LinksAreAllocated /\ LinksAreDistinct /\ CallsAreLinked

\* Application code used the client: it made calls and awaited promises.
ClientUsed ==
    \E called \in CallLists, awaited \in SUBSET ClientPromises, last \in Lasts :
        UseClient(called, awaited, last)

\* What each step does to the map and to what its links depend on.
LEMMA LinkSteps ==
    ASSUME TypeOK, [Next]_vars
    PROVE  \/ status' # "open"
           \/ /\ UNCHANGED <<importToPromiseExport, nextImportId, promises, status>>
              /\ nextExportIdNegative' \in {nextExportIdNegative, nextExportIdNegative - 1}
           \/ ClientUsed /\ UNCHANGED <<promises, status>>
           \/ \E i \in CallIds \cup ClientPromises, type \in {"resolve", "reject"} :
                 ReceiveSettlement(i, type)
<1>1. ASSUME NEW base, NEW id, NEW copied, MethodBody(base, id, copied)
      PROVE  ClientUsed
  BY <1>1, MethodBodyParts DEF ClientUsed
<1>2. CASE \E base \in {0} \cup Ids, names \in Pipes, captures \in Args :
               ReceiveRemap(base, names, captures)
  <2>1. /\ \E table, copied : MethodBody(table, nextExportId, copied)
        /\ UNCHANGED <<promises, status>>
    BY <1>2 DEF ReceiveRemap, control
  <2> QED
    BY <1>1, <2>1
<1>3. CASE RunTask
  <2>1. /\ \E table, id, copied : MethodBody(table, id, copied)
        /\ UNCHANGED <<promises, status>>
    BY <1>3 DEF RunTask, PopTask
  <2> QED
    BY <1>1, <2>1
<1>4. CASE RunLate
  <2>1. /\ \E table, id, copied : MethodBody(table, id, copied)
        /\ UNCHANGED <<promises, status>>
    BY <1>4 DEF RunLate
  <2> QED
    BY <1>1, <2>1
<1>5. CASE \E r \in ClientRefs : AppUsesClient(r)
  <2>1. UNCHANGED <<promises, status>>
    BY <1>5 DEF AppUsesClient, control
  <2> QED
    BY <1>5, <2>1, AppUsesAreUses DEF ClientUsed
<1>6. CASE RunTaskReleased \/ RunTaskUnresolved \/ RunTaskForeign
  BY <1>6 DEF RunTaskReleased, RunTaskUnresolved, RunTaskForeign, PopTask
<1>7. CASE Answer
  BY <1>7 DEF Answer, AnswerNotFound, AnswerThrow, AnswerError, AnswerValue, AnswerKnownStub,
              AnswerNewStub, AnswerPromise, AnsweringResult, Answering, promises
<1>8. CASE ReceiveAbort \/ ReceiveFatal \/ Close \/ Crash
  BY <1>8 DEF ReceiveAbort, ReceiveFatal, Abort, Close, Crash
<1>9. CASE \/ \E subject \in Subjects, args \in Args, pipes \in Pipes :
                 ReceiveCall(subject, args, pipes)
           \/ ReceiveOtherPush
           \/ \E id \in Ids : ReceivePull(id)
           \/ \E id \in Ids, count \in 1..MaxRc : ReceiveRelease(id, count)
           \/ UNCHANGED vars
  BY <1>9 DEF ReceiveCall, ReceiveOtherPush, ReceivePull, ReceiveRelease, tables, control, vars
<1> QED
  BY <1>2, <1>3, <1>4, <1>5, <1>6, <1>7, <1>8, <1>9
     DEF Next, Receive, Handle, RemapCrashes, TaskCrashes, LateCrashes, Ended

\* The imports that a use of the client links, calls made in this step and promises
\* the client passed, lead to promises of their own, taken in this step.
LEMMA UseLinks ==
    ASSUME TypeOK, ClientUsed
    PROVE  \E links :
              /\ \A i \in DOMAIN links : Taken(links[i])
              /\ \A i, j \in DOMAIN links : i # j => links[i] # links[j]
              /\ \A i \in DOMAIN links :
                    \/ i \in CallIds /\ nextImportId <= i /\ i < nextImportId'
                    \/ i \in ClientPromises
              /\ \A c \in CallIds : nextImportId <= c /\ c < nextImportId' => c \in DOMAIN links
              /\ LinkImports(links)
              /\ nextImportId <= nextImportId'
              /\ nextExportIdNegative' <= nextExportIdNegative
<1>1. PICK called \in CallLists, awaited \in SUBSET ClientPromises, last \in Lasts :
         UseClient(called, awaited, last)
  BY DEF ClientUsed
<1>2. PICK links \in [CallImports(called) \cup awaited -> FreshExports(last)] :
         /\ \A i, j \in DOMAIN links : i # j => links[i] # links[j]
         /\ LinkImports(links)
  BY <1>1 DEF UseClient
<1>3. /\ CallImports(called) \subseteq CallIds /\ nextExportIdNegative' = last
      /\ nextImportId' = nextImportId + Len(called)
  BY <1>1 DEF UseClient, AllocateExports, AllocateImports
<1>4. /\ Len(called) \in Nat /\ nextImportId \in Int /\ CallIds \subseteq Int
      /\ last <= nextExportIdNegative
  BY CallListsAreFinite, FreshAreFree, TablesAssumption DEF TypeOK, CallIds
<1>5. \A c \in CallIds : c \in CallImports(called) <=> nextImportId <= c /\ c < nextImportId'
  BY <1>3, <1>4 DEF CallImports
<1>6. \A i \in DOMAIN links : Taken(links[i])
  BY <1>2, <1>3, FreshAreTaken
<1>7. DOMAIN links = CallImports(called) \cup awaited
  BY <1>2
<1>8. nextImportId <= nextImportId'
  BY <1>3, <1>4
<1> QED
  BY <1>2, <1>3, <1>4, <1>5, <1>6, <1>7, <1>8

LEMMA LinksAreOwnInductive ==
    ASSUME TypeOK, LinksAreOwn, [Next]_vars
    PROVE  LinksAreOwn'
<1> SUFFICES ASSUME status' = "open" PROVE LinksAreOwn'
  BY DEF LinksAreOwn
<1>0. /\ importToPromiseExport \in [CallIds \cup ClientRefs -> NegIds \cup {0}]
      /\ nextExportIdNegative \in Int /\ nextImportId \in Int
      /\ settled \subseteq NegIds /\ NegIds \subseteq Int /\ CallIds \subseteq Int
      /\ 0 \notin NegIds
      /\ \A i \in CallIds \cup ClientRefs : importToPromiseExport[i] \in Int
      /\ \A n \in settled : n \in Int
  <2>1. /\ importToPromiseExport \in [CallIds \cup ClientRefs -> NegIds \cup {0}]
        /\ nextExportIdNegative \in (-MaxNeg - 1)..(-1) /\ nextImportId \in 1..(MaxCalls + 1)
        /\ settled \subseteq NegIds
    BY DEF TypeOK
  <2>2. NegIds \subseteq Int /\ CallIds \subseteq Int /\ 0 \notin NegIds
    BY TablesAssumption DEF NegIds, CallIds
  <2>3. nextExportIdNegative \in Int /\ nextImportId \in Int
    BY <2>1, TablesAssumption
  <2>4. \A i \in CallIds \cup ClientRefs : importToPromiseExport[i] \in Int
    <3>1. \A i \in CallIds \cup ClientRefs : importToPromiseExport[i] \in NegIds \cup {0}
      BY <2>1
    <3>2. \A n \in NegIds \cup {0} : n \in Int
      BY TablesAssumption DEF NegIds
    <3> QED
      BY <3>1, <3>2
  <2> QED
    BY <2>1, <2>2, <2>3, <2>4
<1>1. ASSUME status = "open"
      PROVE  LinksAreAllocated /\ LinksAreDistinct /\ CallsAreLinked
  BY <1>1 DEF LinksAreOwn
<1>2. CASE /\ UNCHANGED <<importToPromiseExport, nextImportId, promises, status>>
           /\ nextExportIdNegative' \in {nextExportIdNegative, nextExportIdNegative - 1}
  <2>1. LinksAreAllocated /\ LinksAreDistinct /\ CallsAreLinked
    BY <1>1, <1>2
  <2>2. LinksAreAllocated'
    BY <1>0, <1>2, <2>1 DEF LinksAreAllocated, promises
  <2>3. LinksAreDistinct' /\ CallsAreLinked'
    BY <1>2, <2>1 DEF LinksAreDistinct, CallsAreLinked, promises
  <2> QED
    BY <2>2, <2>3 DEF LinksAreOwn
<1>3. CASE ClientUsed /\ UNCHANGED <<promises, status>>
  <2>1. LinksAreAllocated /\ LinksAreDistinct /\ CallsAreLinked
    BY <1>1, <1>3
  <2>2. settled' = settled /\ answered' = answered
    BY <1>3 DEF promises
  <2>3. PICK links :
           /\ \A i \in DOMAIN links : Taken(links[i])
           /\ \A i, j \in DOMAIN links : i # j => links[i] # links[j]
           /\ \A c \in CallIds : nextImportId <= c /\ c < nextImportId' => c \in DOMAIN links
           /\ LinkImports(links)
           /\ nextImportId <= nextImportId'
           /\ nextExportIdNegative' <= nextExportIdNegative
    BY <1>3, UseLinks
  <2>4. /\ \A i \in CallIds \cup ClientRefs :
              importToPromiseExport'[i] = IF i \in DOMAIN links THEN links[i]
                                          ELSE importToPromiseExport[i]
        /\ nextExportIdNegative' \in Int /\ nextImportId' \in Int
        /\ \A i \in CallIds \cup ClientRefs : importToPromiseExport'[i] \in Int
    <3>1. \A i \in CallIds \cup ClientRefs :
             importToPromiseExport'[i] = IF i \in DOMAIN links THEN links[i]
                                         ELSE importToPromiseExport[i]
      BY <2>3 DEF LinkImports
    <3>2. \A i \in DOMAIN links : links[i] \in Int
      BY <1>0, <2>3 DEF Taken
    <3>3. nextExportIdNegative' \in Int /\ nextImportId' \in Int
      <4>1. /\ nextExportIdNegative' \in (-MaxNeg - 1)..(-1)
            /\ nextImportId' \in 1..(MaxCalls + 1)
        BY <1>3, UseClientTyped DEF ClientUsed
      <4> QED
        BY <4>1, TablesAssumption
    <3>4. ASSUME NEW i \in CallIds \cup ClientRefs
          PROVE  importToPromiseExport'[i] \in Int
      <4>1. CASE i \in DOMAIN links
        BY <3>1, <3>2, <4>1
      <4>2. CASE i \notin DOMAIN links
        BY <1>0, <3>1, <4>2
      <4> QED
        BY <4>1, <4>2
    <3> QED
      BY <3>1, <3>3, <3>4
  <2>5. \A i \in DOMAIN links : /\ links[i] \in Int /\ links[i] # 0
                                /\ links[i] <= nextExportIdNegative
                                /\ links[i] > nextExportIdNegative'
    BY <1>0, <2>3 DEF Taken
  <2>6. LinksAreAllocated'
    <3>1. \A n \in settled : n > nextExportIdNegative'
      BY <1>0, <2>1, <2>3, <2>4 DEF LinksAreAllocated
    <3>2. \A i \in DOMAIN links : links[i] \notin settled
      BY <1>0, <2>1, <2>5 DEF LinksAreAllocated
    <3>3. ASSUME NEW i \in CallIds \cup ClientRefs, importToPromiseExport'[i] # 0
          PROVE  /\ importToPromiseExport'[i] > nextExportIdNegative'
                 /\ importToPromiseExport'[i] \notin settled
      <4>1. CASE i \in DOMAIN links
        BY <2>4, <2>5, <3>2, <4>1
      <4>2. CASE i \notin DOMAIN links
        <5>1. /\ importToPromiseExport[i] > nextExportIdNegative
              /\ importToPromiseExport[i] \notin settled
          BY <2>1, <2>4, <3>3, <4>2 DEF LinksAreAllocated
        <5> QED
          BY <1>0, <2>3, <2>4, <4>2, <5>1
      <4> QED
        BY <4>1, <4>2
    <3> QED
      BY <2>2, <3>1, <3>3 DEF LinksAreAllocated
  <2>7. LinksAreDistinct'
    <3> SUFFICES ASSUME NEW i \in CallIds \cup ClientRefs, NEW j \in CallIds \cup ClientRefs,
                        importToPromiseExport'[i] # 0,
                        importToPromiseExport'[j] = importToPromiseExport'[i]
                 PROVE  j = i
      BY DEF LinksAreDistinct
    <3>1. \A k \in CallIds \cup ClientRefs : importToPromiseExport[k] # 0 =>
             importToPromiseExport[k] > nextExportIdNegative
      BY <2>1 DEF LinksAreAllocated
    <3>2. CASE i \in DOMAIN links /\ j \in DOMAIN links
      BY <2>3, <2>4, <3>2
    <3>3. ASSUME NEW a \in DOMAIN links, NEW b \in CallIds \cup ClientRefs,
                 links[a] = importToPromiseExport[b]
          PROVE  FALSE
      <4>1. links[a] \in Int /\ links[a] # 0 /\ links[a] <= nextExportIdNegative
        BY <2>5
      <4>2. importToPromiseExport[b] > nextExportIdNegative
        BY <3>1, <3>3, <4>1
      <4> QED
        BY <1>0, <3>3, <4>1, <4>2
    <3>4. CASE i \in DOMAIN links /\ j \notin DOMAIN links
      BY <2>4, <3>4, <3>3
    <3>5. CASE i \notin DOMAIN links /\ j \in DOMAIN links
      BY <2>4, <3>5, <3>3
    <3>6. CASE i \notin DOMAIN links /\ j \notin DOMAIN links
      BY <2>1, <2>4, <3>6 DEF LinksAreDistinct
    <3> QED
      BY <3>2, <3>4, <3>5, <3>6
  <2>8. CallsAreLinked'
    <3> SUFFICES ASSUME NEW i \in CallIds, i < nextImportId', i \notin answered
                 PROVE  importToPromiseExport'[i] # 0
      BY <2>2 DEF CallsAreLinked
    <3>1. i \in DOMAIN links \/ i < nextImportId
      BY <1>0, <2>3, <2>4
    <3> QED
      BY <2>1, <2>4, <2>5, <3>1 DEF CallsAreLinked
  <2> QED
    BY <2>6, <2>7, <2>8 DEF LinksAreOwn
<1>4. ASSUME NEW i \in CallIds \cup ClientPromises, NEW type \in {"resolve", "reject"},
             ReceiveSettlement(i, type)
      PROVE  LinksAreOwn'
  <2> DEFINE n == importToPromiseExport[i]
  <2>1. /\ settled' = settled \cup ({n} \ {0}) /\ answered' = answered \cup {i}
        /\ importToPromiseExport' = [importToPromiseExport EXCEPT ![i] = 0]
        /\ UNCHANGED <<nextExportIdNegative, nextImportId>>
        /\ status = "open"
    BY <1>4 DEF ReceiveSettlement, Idle
  <2>2. LinksAreAllocated /\ LinksAreDistinct /\ CallsAreLinked
    BY <1>1, <2>1
  <2>3. i \in CallIds \cup ClientRefs
    BY TablesAssumption
  <2>4. LinksAreAllocated'
    BY <1>0, <2>1, <2>2, <2>3 DEF LinksAreAllocated, LinksAreDistinct
  <2>5. LinksAreDistinct' /\ CallsAreLinked'
    BY <1>0, <2>1, <2>2, <2>3 DEF LinksAreDistinct, CallsAreLinked
  <2> QED
    BY <2>4, <2>5 DEF LinksAreOwn
<1> QED
  BY <1>2, <1>3, <1>4, LinkSteps

LEMMA LinksAlwaysOwn == Spec => []LinksAreOwn
<1>1. Init => LinksAreOwn
  BY TablesAssumption
     DEF Init, LinksAreOwn, LinksAreAllocated, LinksAreDistinct, CallsAreLinked, CallIds
<1>2. TypeOK /\ LinksAreOwn /\ [Next]_vars => LinksAreOwn'
  BY LinksAreOwnInductive
<1> QED
  BY <1>1, <1>2, TypeCorrect, PTL DEF Spec

\* However calls, awaits and answers interleave over the shared map
\* (rpc_session.cpp:390, 401, 297), a call the server made stays linked to a promise
\* export of its own, not yet settled, until its answer arrives.
THEOREM CallsAlwaysLinked == Spec => []CallsStayLinked
<1>1. TypeOK /\ LinksAreOwn => CallsStayLinked
  <2> SUFFICES ASSUME TypeOK, LinksAreOwn, status = "open",
                      NEW i \in {c \in CallIds : c < nextImportId} \ answered
               PROVE  LET n == importToPromiseExport[i] IN
                      /\ n \in NegIds \ settled
                      /\ \A j \in CallIds \cup ClientRefs :
                            importToPromiseExport[j] = n => j = i
    BY DEF CallsStayLinked
  <2>1. importToPromiseExport[i] # 0
    BY DEF LinksAreOwn, CallsAreLinked
  <2>2. importToPromiseExport[i] \in NegIds
    BY <2>1 DEF TypeOK
  <2> QED
    BY <2>1, <2>2 DEF LinksAreOwn, LinksAreAllocated, LinksAreDistinct
<1> QED
  BY <1>1, LinksAlwaysOwn, TypeCorrect, PTL

-----------------------------------------------------------------------------
(* How links end.                                                          *)

\* Import ids still to be allocated are linked to nothing.
FutureCallsAreUnlinked ==
    status = "open" =>
        \A i \in CallIds : i >= nextImportId => importToPromiseExport[i] = 0

LEMMA FutureCallsAreUnlinkedInductive ==
    ASSUME TypeOK, FutureCallsAreUnlinked, [Next]_vars
    PROVE  FutureCallsAreUnlinked'
<1>1. /\ importToPromiseExport \in [CallIds \cup ClientRefs -> NegIds \cup {0}]
      /\ nextImportId \in Int /\ CallIds \subseteq Int
  BY TablesAssumption DEF TypeOK, CallIds
<1>2. CASE ClientUsed /\ UNCHANGED <<promises, status>>
  <2>1. PICK links :
           /\ \A i \in DOMAIN links : \/ i \in CallIds /\ i < nextImportId'
                                     \/ i \in ClientPromises
           /\ LinkImports(links) /\ nextImportId <= nextImportId'
    BY <1>2, UseLinks
  <2>2. nextImportId' \in Int
    BY <1>2, UseClientTyped, TablesAssumption DEF ClientUsed
  <2>3. \A i \in ClientPromises : i \notin CallIds
    BY TablesAssumption DEF CallIds
  <2>4. \A i \in CallIds : i >= nextImportId' => i \notin DOMAIN links /\ i >= nextImportId
    BY <1>1, <2>1, <2>2, <2>3
  <2> QED
    BY <1>2, <2>1, <2>4 DEF LinkImports, FutureCallsAreUnlinked
<1>3. CASE \E i \in CallIds \cup ClientPromises, type \in {"resolve", "reject"} :
               ReceiveSettlement(i, type)
  <2>1. PICK i \in CallIds \cup ClientPromises :
           /\ importToPromiseExport' = [importToPromiseExport EXCEPT ![i] = 0]
           /\ nextImportId' = nextImportId /\ status = "open"
    BY <1>3 DEF ReceiveSettlement, Idle
  <2> QED
    BY <1>1, <2>1 DEF FutureCallsAreUnlinked
<1>4. CASE UNCHANGED <<importToPromiseExport, nextImportId, promises, status>>
  BY <1>4 DEF FutureCallsAreUnlinked
<1>5. CASE status' # "open"
  BY <1>5 DEF FutureCallsAreUnlinked
<1> QED
  BY <1>2, <1>3, <1>4, <1>5, LinkSteps

LEMMA FutureCallsAlwaysUnlinked == Spec => []FutureCallsAreUnlinked
<1>1. Init => FutureCallsAreUnlinked
  BY DEF Init, FutureCallsAreUnlinked
<1>2. TypeOK /\ FutureCallsAreUnlinked /\ [Next]_vars => FutureCallsAreUnlinked'
  BY FutureCallsAreUnlinkedInductive
<1> QED
  BY <1>1, <1>2, TypeCorrect, PTL DEF Spec

\* A settlement that finds a link forwards the client's answer to it
\* (rpc_session.cpp:80-111).
LEMMA SettlementsForward ==
    ASSUME NEW i, NEW type \in {"resolve", "reject"}, ReceiveSettlement(i, type),
           importToPromiseExport[i] # 0
    PROVE  \E k \in 1..Len(out') : /\ out'[k].type \in {"resolve", "reject"}
                                   /\ out'[k].id = importToPromiseExport[i]
<1> DEFINE answer == [type |-> type, id |-> importToPromiseExport[i],
                      value |-> [kind |-> "forwarded"]]
<1> DEFINE release == [type |-> "release", id |-> i, count |-> 1]
<1>1. out' = <<answer>> \o <<release>>
  BY DEF ReceiveSettlement
<1>2. 1 \in 1..Len(out') /\ out'[1] = answer
  <2> HIDE DEF answer, release
  <2> QED
    BY <1>1
<1>3. answer.type = type /\ answer.id = importToPromiseExport[i]
  OBVIOUS
<1> QED
  BY <1>2, <1>3

\* A promise the server exported for a client's answer is not forgotten: the map that
\* leads to it, which calls, remaps and awaits write under ids of two spaces
\* (rpc_session.cpp:390, 401, 297), loses it only with the answer forwarded, or to a
\* second await of the same import.
THEOREM LinksEndWithAnswers == Spec => LinksEndAnswered
<1>1. TypeOK /\ FutureCallsAreUnlinked /\ [Next]_vars =>
          [status' = "open" => \A i \in CallIds \cup ClientRefs :
              LET n == importToPromiseExport[i] IN
              n # 0 /\ importToPromiseExport'[i] # n =>
                 \/ \E k \in 1..Len(out') : /\ out'[k].type \in {"resolve", "reject"}
                                            /\ out'[k].id = n
                 \/ i \in ClientPromises /\ importToPromiseExport'[i]
                         \in (nextExportIdNegative' + 1)..nextExportIdNegative]_vars
  <2> SUFFICES ASSUME TypeOK, FutureCallsAreUnlinked, [Next]_vars, status' = "open",
                      NEW i \in CallIds \cup ClientRefs, importToPromiseExport[i] # 0,
                      importToPromiseExport'[i] # importToPromiseExport[i]
               PROVE  \/ \E k \in 1..Len(out') : /\ out'[k].type \in {"resolve", "reject"}
                                                 /\ out'[k].id = importToPromiseExport[i]
                      \/ /\ i \in ClientPromises
                         /\ importToPromiseExport'[i]
                               \in (nextExportIdNegative' + 1)..nextExportIdNegative
    OBVIOUS
  <2>1. importToPromiseExport \in [CallIds \cup ClientRefs -> NegIds \cup {0}]
    BY DEF TypeOK
  <2>2. CASE ClientUsed /\ UNCHANGED <<promises, status>>
    <3>1. PICK links :
             /\ \A j \in DOMAIN links : Taken(links[j])
             /\ \A j \in DOMAIN links : \/ j \in CallIds /\ nextImportId <= j
                                        \/ j \in ClientPromises
             /\ LinkImports(links)
      BY <2>2, UseLinks
    <3>2. i \in DOMAIN links /\ importToPromiseExport'[i] = links[i]
      BY <2>1, <3>1 DEF LinkImports
    <3>3. importToPromiseExport'[i] \in (nextExportIdNegative' + 1)..nextExportIdNegative
      <4>1. links[i] \in Int /\ nextExportIdNegative \in Int /\ nextExportIdNegative' \in Int
        <5>1. links[i] \in NegIds
          BY <3>1, <3>2 DEF Taken
        <5>2. links[i] \in Int
          BY <5>1, TablesAssumption DEF NegIds
        <5>3. /\ nextExportIdNegative \in (-MaxNeg - 1)..(-1)
              /\ nextExportIdNegative' \in (-MaxNeg - 1)..(-1)
          BY <2>2, UseClientTyped DEF ClientUsed, TypeOK
        <5> QED
          BY <5>2, <5>3, TablesAssumption
      <4> QED
        BY <3>1, <3>2, <4>1 DEF Taken
    <3>4. ASSUME i \in CallIds, nextImportId <= i
          PROVE  FALSE
      <4>1. status = "open" /\ i \in Int /\ nextImportId \in Int
        BY <2>2, <3>4, TablesAssumption DEF CallIds, TypeOK
      <4> QED
        BY <3>4, <4>1 DEF FutureCallsAreUnlinked
    <3> QED
      BY <3>1, <3>2, <3>3, <3>4
  <2>3. CASE \E j \in CallIds \cup ClientPromises, type \in {"resolve", "reject"} :
                 ReceiveSettlement(j, type)
    <3>1. PICK j \in CallIds \cup ClientPromises, type \in {"resolve", "reject"} :
                   ReceiveSettlement(j, type)
      BY <2>3
    <3>2. importToPromiseExport' = [importToPromiseExport EXCEPT ![j] = 0]
      BY <3>1 DEF ReceiveSettlement
    <3>3. i = j
      BY <2>1, <3>2
    <3> QED
      BY <3>1, <3>3, SettlementsForward
  <2> QED
    BY <2>2, <2>3, LinkSteps
<1> QED
  BY <1>1, FutureCallsAlwaysUnlinked, TypeCorrect, PTL DEF Spec, LinksEndAnswered

-----------------------------------------------------------------------------
(* What is forwarded.                                                      *)

\* A frame that carries an answer of the client on to its promise.
Forwards(frame) == frame.type \in {"resolve", "reject"} /\ frame.value.kind = "forwarded"

LEMMA UsesForwardNothing ==
    ASSUME ClientUsed, NEW k \in 1..Len(out')
    PROVE  ~Forwards(out'[k])
<1>1. PICK called : out' = IF called = <<>> THEN <<>>
                          ELSE << [type |-> "calls", refs |-> called, first |-> nextImportId] >>
  BY DEF ClientUsed, UseClient
<1>2. called # <<>> /\ out'[k].type = "calls"
  BY <1>1
<1> QED
  BY <1>2 DEF Forwards

LEMMA RepliesForwardNothing ==
    ASSUME NEW table, NEW frame, Reply(table, frame), ~Forwards(frame),
           NEW k \in 1..Len(out')
    PROVE  ~Forwards(out'[k])
<1>1. out' = <<frame>> \o Releases(table[pulling.id].refs)
  BY DEF Reply
<1>2. \/ Releases(table[pulling.id].refs) = <<>>
      \/ Releases(table[pulling.id].refs) =
            << [type |-> "releases", refs |-> table[pulling.id].refs] >>
  BY DEF Releases
<1>3. out'[k] \in {frame, [type |-> "releases", refs |-> table[pulling.id].refs]}
  BY <1>1, <1>2
<1>4. ~Forwards([type |-> "releases", refs |-> table[pulling.id].refs])
  BY DEF Forwards
<1> QED
  BY <1>3, <1>4

LEMMA AnswersForwardNothing ==
    ASSUME Answer, NEW k \in 1..Len(out')
    PROVE  ~Forwards(out'[k])
<1>1. \E table : \E frame : Reply(table, frame) /\ ~Forwards(frame)
  <2>1. ~Forwards(Reject)
    BY DEF Forwards, Reject, Error
  <2>2. ASSUME NEW value, value.kind # "forwarded"
        PROVE  ~Forwards(Resolve(value))
    BY <2>2 DEF Forwards, Resolve
  <2>3. CASE AnswerNotFound \/ AnswerThrow \/ AnswerError
    BY <2>1, <2>3 DEF AnswerNotFound, AnswerThrow, AnswerError
  <2>4. CASE AnswerValue
    BY <2>2, <2>4 DEF AnswerValue, Error
  <2>5. \A n : Export(n).kind # "forwarded" /\ PromiseRef(n).kind # "forwarded"
    BY DEF Export, PromiseRef
  <2>6. CASE AnswerKnownStub \/ AnswerNewStub \/ AnswerPromise
    BY <2>2, <2>5, <2>6 DEF AnswerKnownStub, AnswerNewStub, AnswerPromise
  <2> QED
    BY <2>3, <2>4, <2>6 DEF Answer
<1> QED
  BY <1>1, RepliesForwardNothing

\* No step but a settlement sends a forwarded answer.
LEMMA OnlySettlementsForward ==
    ASSUME TypeOK, Next, ~UNCHANGED vars, NEW k \in 1..Len(out'), Forwards(out'[k])
    PROVE  \E i \in CallIds \cup ClientPromises, type \in {"resolve", "reject"} :
              ReceiveSettlement(i, type)
<1>1. ASSUME out' = <<>> PROVE FALSE
  BY <1>1
<1>2. ASSUME NEW table, NEW id, NEW copied, MethodBody(table, id, copied) PROVE FALSE
  BY <1>2, MethodBodyParts, UsesForwardNothing DEF ClientUsed
<1>3. ASSUME \E base \in {0} \cup Ids, names \in Pipes, captures \in Args :
                 ReceiveRemap(base, names, captures)
      PROVE  FALSE
  BY <1>2, <1>3 DEF ReceiveRemap
<1>4. ASSUME RunTask \/ RunLate PROVE FALSE
  BY <1>2, <1>4 DEF RunTask, RunLate
<1>5. ASSUME \E r \in ClientRefs : AppUsesClient(r) PROVE FALSE
  BY <1>5, AppUsesAreUses, UsesForwardNothing DEF ClientUsed
<1>6. ASSUME Answer PROVE FALSE
  BY <1>6, AnswersForwardNothing
<1>7. ASSUME ReceiveFatal \/ Close PROVE FALSE
  BY <1>7 DEF ReceiveFatal, Close, Forwards
<1>8. ASSUME \/ \E subject \in Subjects, args \in Args, pipes \in Pipes :
                   ReceiveCall(subject, args, pipes)
             \/ ReceiveOtherPush
             \/ \E id \in Ids : ReceivePull(id)
             \/ \E id \in Ids, count \in 1..MaxRc : ReceiveRelease(id, count)
             \/ ReceiveAbort \/ Crash
             \/ RunTaskReleased \/ RunTaskUnresolved \/ RunTaskForeign
      PROVE  FALSE
  BY <1>1, <1>8 DEF ReceiveCall, ReceiveOtherPush, ReceivePull, ReceiveRelease, ReceiveAbort,
                    Crash, RunTaskReleased, RunTaskUnresolved, RunTaskForeign
<1> QED
  BY <1>3, <1>4, <1>5, <1>6, <1>7, <1>8
     DEF Next, Receive, Handle, RemapCrashes, TaskCrashes, LateCrashes, Ended

\* A promise exported for a call on the client is forwarded at most one answer
\* (rpc_session.cpp:281-330), whatever the client answers twice, awaits again or is
\* called meanwhile: what a settlement forwards goes to a link, a link leads to a
\* promise not yet settled, and no two imports share one.
THEOREM PromisesSettleOnce == Spec => SettledOnce
<1>1. TypeOK /\ LinksAreOwn /\ [Next]_vars =>
          [\A k \in 1..Len(out') :
              out'[k].type \in {"resolve", "reject"} /\ out'[k].value.kind = "forwarded"
                  => out'[k].id \notin settled]_vars
  <2> SUFFICES ASSUME TypeOK, LinksAreOwn, Next, ~UNCHANGED vars,
                      NEW k \in 1..Len(out'), Forwards(out'[k])
               PROVE  out'[k].id \notin settled
    BY DEF Forwards
  <2>1. PICK i \in CallIds \cup ClientPromises, type \in {"resolve", "reject"} :
               ReceiveSettlement(i, type)
    BY OnlySettlementsForward
  <2> DEFINE n == importToPromiseExport[i]
  <2> DEFINE answer == [type |-> type, id |-> n, value |-> [kind |-> "forwarded"]]
  <2> DEFINE release == [type |-> "release", id |-> i, count |-> 1]
  <2>2. /\ out' = (IF n = 0 THEN <<>> ELSE <<answer>>) \o <<release>>
        /\ status = "open"
    BY <2>1 DEF ReceiveSettlement, Idle
  <2>3. out'[k] = release \/ (n # 0 /\ out'[k] = answer)
    <3> HIDE DEF n, answer, release
    <3> QED
      BY <2>2
  <2>4. ~Forwards(release)
    BY DEF Forwards
  <2>5. n # 0 /\ out'[k].id = n
    BY <2>3, <2>4
  <2>6. i \in CallIds \cup ClientRefs
    BY TablesAssumption
  <2> QED
    BY <2>2, <2>5, <2>6 DEF LinksAreOwn, LinksAreAllocated
<1> QED
  BY <1>1, LinksAlwaysOwn, TypeCorrect, PTL DEF Spec, SettledOnce
=============================================================================
