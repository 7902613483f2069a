---------------------------- MODULE RpcSession ----------------------------
(***************************************************************************)
(* One server-side RPC session: class RpcSession and its RpcSessionData    *)
(* behind a persistent transport.  The hosts in the repository            *)
(* (rpc_endpoint.h, batch.h, the examples) call processTasks after each    *)
(* frame (Drains); the tests' hosts leave the queue to the next pull.  The *)
(* peer is any client that sends well-formed frames, chosen by \E.         *)
(*                                                                         *)
(* Grain of atomicity.  The host's event loop runs one handler to its end. *)
(* A handler that calls application methods is cut at those calls, because *)
(* each may itself change the session: one step accepts the frame, one     *)
(* step runs each microtask, one step answers the pull.  Frames are only   *)
(* accepted between handlers (Idle).  "out" is what the step sent.         *)
(***************************************************************************)
EXTENDS SessionTables, Sequences

CONSTANTS
    Drains,          \* the host runs processTasks after every frame
    MaxRc,           \* bound: references the client may hold on one export
    MaxRefs,         \* bound: times one call passes the same client reference
    Subjects,        \* bound: exports that calls are made on, 0 for the main target
    Pipes,           \* bound: sets of ids that one call or remap names
    Returned         \* bound: results of their own that methods return, besides errors

ASSUME SessionAssumption ==
    /\ Drains \in BOOLEAN /\ MaxRc \in Nat \ {0} /\ MaxRefs \in Nat
    /\ Subjects \subseteq {0} \cup Ids /\ Pipes \subseteq SUBSET Ids /\ Returned \subseteq Returns

VARIABLES
    exports,                 \* exporter.table
    nextExportId,            \* exporter.nextExportId
    nextExportIdNegative,    \* exporter.nextExportIdNegative
    nextImportId,            \* importer.nextImportId
    importToPromiseExport,   \* import id -> promise export id, 0 if none
    targetExportId,          \* target -> its export id, 0 if none
    targetRegistry,          \* targets exportTarget() has registered
    microtasks,              \* queued calls: [id, subject, hook, pipes]
    pulling,                 \* the pull being answered: [id, late]
    status,                  \* "open", "aborted", "closed" or "crashed"
    out,                     \* frames sent by the last step, in order
    \* History, read by the properties only.
    ran,                     \* calls whose outcome the last step recorded
    finished,                \* calls whose outcome has ever been recorded
    stranded,                \* calls whose task ended in a foreign exception
    spent,                   \* pushes whose result was sent, erased or never was
    settled,                 \* promise exports already forwarded to the client
    answered,                \* import ids the client has resolved or rejected
    granted,                 \* per export, client references its call passed
    released,                \* per export, client references given back
    held                     \* per export, references to a stub the client holds

tables  == <<exports, nextExportId, nextExportIdNegative, nextImportId,
             importToPromiseExport, targetExportId, targetRegistry>>
control == <<microtasks, pulling, status>>
calls   == <<ran, finished, stranded, spent>>
refs    == <<granted, released, held>>
promises == <<settled, answered>>
vars    == <<tables, control, out, calls, promises, refs>>

NoPull == [id |-> 0, late |-> FALSE]
Task   == [id : PushIds, subject : Ids \cup {0}, hook : Targets, pipes : SUBSET Ids]

Init ==
    /\ exports = [id \in Ids |-> Free]
    /\ nextExportId = 1 /\ nextExportIdNegative = -1 /\ nextImportId = 1
    /\ importToPromiseExport = [i \in CallIds \cup ClientRefs |-> 0]
    /\ targetExportId = [t \in Targets |-> 0]
    /\ targetRegistry = {}
    /\ microtasks = <<>> /\ pulling = NoPull /\ status = "open"
    /\ out = <<>>
    /\ ran = {} /\ finished = {} /\ stranded = {} /\ spent = {}
    /\ settled = {} /\ answered = {}
    /\ granted = [id \in Ids |-> NoRefs] /\ released = [id \in Ids |-> NoRefs]
    /\ held = [id \in Ids |-> 0]

\* Mutant of Idle: the host does not wait for processTasks.
IdleUndrained == status = "open" /\ pulling = NoPull

\* Between two handlers: no pull is open, and processTasks has emptied the queue
\* if the host calls it.
Idle == status = "open" /\ pulling = NoPull /\ (Drains => microtasks = <<>>)

RoomForExport == nextExportIdNegative \in NegIds

NoDispatch == ran' = {} /\ UNCHANGED finished
Dispatched(ids) == ran' = ids /\ finished' = finished \cup ids

-----------------------------------------------------------------------------
(* Server-to-client calls.                                                 *)

\* The export ids a step takes that leaves "last" as the next one.
FreshExports(last) == (last + 1)..nextExportIdNegative

\* Mutant of AllocateExports: allocateNegativeExportId forgets its decrement.
AllocateNoExports(last) == UNCHANGED nextExportIdNegative

AllocateExports(last) == nextExportIdNegative' = last

\* Mutant of AllocateImports: allocatePositiveImportId forgets its increment.
AllocateNoImports(count) == UNCHANGED nextImportId

AllocateImports(count) == nextImportId' = nextImportId + count

\* Mutant of LinkImports: promises are exported, and not linked.
LinkNothing(links) == UNCHANGED importToPromiseExport

LinkImports(links) ==
    importToPromiseExport' = [i \in CallIds \cup ClientRefs |->
                                 IF i \in DOMAIN links THEN links[i] ELSE importToPromiseExport[i]]

\* An import for each call made in a row, in order.
CallImports(called) == nextImportId..(nextImportId + Len(called) - 1)

\* callClient (a remap's callExport) on each of "called" and awaitClientPromise on
\* each of "awaited", in any order: a call's push and pull go out, one promise per
\* use is exported under the next free id and linked to the import that settles it.
UseClient(called, awaited, last) ==
    /\ CallImports(called) \subseteq CallIds
    /\ \E links \in [CallImports(called) \cup awaited -> FreshExports(last)] :
          /\ \A n \in FreshExports(last) : \E i \in DOMAIN links : links[i] = n
          /\ \A i, j \in DOMAIN links : i # j => links[i] # links[j]
          /\ \A i, j \in CallImports(called) : i < j => links[i] > links[j]
          /\ LinkImports(links)
    /\ AllocateImports(Len(called))
    /\ AllocateExports(last)
    /\ out' = IF called = <<>> THEN <<>>
              ELSE << [type |-> "calls", refs |-> called, first |-> nextImportId] >>

WithPromises(table, last) ==
    [id \in Ids |-> IF id \in FreshExports(last) THEN Bare(NoHook) ELSE table[id]]

CallLists == UNION {[1..k -> ClientRefs] : k \in 0..MaxCalls}
Lasts     == (-MaxNeg - 1)..nextExportIdNegative

\* What application code may do while it computes the result of entry id, and
\* the result it leaves there.  It may call the client references it was passed, and
\* await those that are promises.  It returns a value, a stub, a promise or an error
\* of its own, one of the results "copied" that its arguments gave it, or the promise
\* that one of its uses exported.
MethodBody(table, id, copied) ==
    \E called \in CallLists, awaited \in SUBSET ClientPromises, last \in Lasts :
       /\ \A k \in 1..Len(called) : table[id].refs[called[k]] > 0
       /\ \A r \in awaited : table[id].refs[r] > 0
       /\ pulling # NoPull => last \in NegIds   \* a pull keeps room for its answer
       /\ UseClient(called, awaited, last)
       /\ \E result \in {Error} \cup Returned \cup copied
                             \cup {PromiseRef(n) : n \in FreshExports(last)} :
             /\ exports' = WithPromises(SetResult(table, id, result), last)
             /\ targetRegistry' = targetRegistry \cup {t \in Targets \ {Main} :
                    result \in {StubOf(t), PromiseOf(StubOf(t))}}

-----------------------------------------------------------------------------
(* Reading the references of a call (evaluateValue).                       *)

\* A reference finds a result, or an operation, whose own references are read
\* before it runs; or it finds neither and throws.
Refs(id) == IF HasOperation(exports, id) THEN exports[id].pipes ELSE {}

\* The operations that reading the references "ids" comes to,
Pending(ids) ==
    LET waiting == {p \in Ids : HasOperation(exports, p)}
        closed  == {S \in SUBSET waiting : /\ ids \cap waiting \subseteq S
                                           /\ \A p \in S : exports[p].pipes \cap waiting \subseteq S}
    IN  {q \in waiting : \A S \in closed : q \in S}

\* with everything it reads on the way,
Reached(ids) == (ids \cap Ids) \cup UNION {exports[p].pipes : p \in Pending(ids)}

\* and what of that is not there.
Unreadable(ids) == {p \in Reached(ids) : ~HasResult(exports, p) /\ ~HasOperation(exports, p)}

\* Nothing in the evaluator notices an operation whose arguments lead back to it: it
\* calls itself until the stack overflows.
Recursing(ids) == \E p \in Pending(ids) : p \in Pending(Refs(p))

\* With the calls "early" run, what call p refers to can all be read.
Ready(p, early) == Unreadable(Refs(p)) = {} /\ Pending(Refs(p)) \subseteq early

\* The sets of calls that may have been run when the reading of "ids" ends.
Ran(ids) == {early \in SUBSET Pending(ids) : \A p \in early : Ready(p, early \ {p})}

\* It may read all of them,
Readable(ids) == Unreadable(ids) = {} /\ Pending(ids) \in Ran(ids)

\* or end with an exception once "early" ran: at a missing export, at a path its result
\* does not have, or in the method of a call it runs.
Stops(ids, early) ==
    \E p \in Reached(ids) : p \notin Pending(ids) \/ p \in early \/ Ready(p, early)

\* Methods throw what they like: that of a call run early, or the one they all are for.
MethodThrows(ids, early) ==
    \/ \E p \in Pending(ids) \ early : Ready(p, early)
    \/ Readable(ids) /\ early = Pending(ids)

\* resolvePipelineReferences ran these operations, on the main target, and
\* cached what they returned.
Cached(early) ==
    [id \in Ids |-> IF id \in early
                    THEN [exports[id] EXCEPT !.phase = "result", !.result = Value, !.pipes = {}]
                    ELSE exports[id]]

ResultsOf(table, ids) == {table[p].result : p \in {q \in ids : HasResult(table, q)}}

\* The process is gone: its stack overflowed, or nothing caught an exception.
Crash ==
    /\ status' = "crashed" /\ microtasks' = <<>> /\ pulling' = NoPull
    /\ out' = <<>> /\ NoDispatch
    /\ UNCHANGED <<tables, stranded, spent, promises, refs>>

-----------------------------------------------------------------------------
(* Push.                                                                   *)

\* The hook a call on export "subject" runs on: a missing or hook-less export
\* falls back to the main target.
CalleeOf(subject) ==
    IF Found(exports, subject) /\ exports[subject].hook # NoHook
    THEN exports[subject].hook ELSE Main

\* ["push", ["pipeline", subject, path, args]]: args pass the client references
\* of bag "args" and name the exports "pipes", whatever these are: earlier pushes,
\* the server's own exports, the push itself or pushes still to come.
ReceiveCall(subject, args, pipes) ==
    /\ Idle /\ nextExportId \in PushIds
    /\ exports' = Put(exports, nextExportId, Operation(CalleeOf(subject), args, pipes))
    /\ microtasks' = Append(microtasks, [id |-> nextExportId, subject |-> subject,
                                         hook |-> CalleeOf(subject), pipes |-> pipes])
    /\ nextExportId' = nextExportId + 1
    /\ granted' = [granted EXCEPT ![nextExportId] = args]
    /\ out' = <<>> /\ NoDispatch
    /\ UNCHANGED <<nextExportIdNegative, nextImportId, importToPromiseExport,
                   targetExportId, targetRegistry, pulling, status,
                   stranded, spent, promises, released, held>>

\* A push of any other expression uses up its id and stores nothing.
ReceiveOtherPush ==
    /\ Idle /\ nextExportId \in PushIds
    /\ nextExportId' = nextExportId + 1
    /\ spent' = spent \cup {nextExportId}
    /\ out' = <<>> /\ NoDispatch
    /\ UNCHANGED <<exports, nextExportIdNegative, nextImportId, importToPromiseExport,
                   targetExportId, targetRegistry, control, stranded, promises, refs>>

\* ["push", ["remap", base, path, captures, instructions]] is evaluated at once.
\* Any failure to read the base counts as null; the exports "names" that captures and
\* instructions refer to must be read, or the result is an error.  The instructions
\* may return what was read, run a method of the main target or call captured client
\* references back.
ReceiveRemap(base, names, captures) ==
    /\ Idle /\ nextExportId \in PushIds
    /\ \A r \in ClientPromises : captures[r] = 0
    /\ \E early \in Ran({base} \cup names) :
          /\ Dispatched(early)
          /\ MethodBody(Put(Cached(early), nextExportId, Finished(None, NoHook, captures)),
                        nextExportId, ResultsOf(Cached(early), {base} \cup names))
          /\ \/ \A p \in names : HasResult(Cached(early), p)
             \/ Stops(names, early) /\ exports'[nextExportId].result = Error
    /\ nextExportId' = nextExportId + 1
    /\ granted' = [granted EXCEPT ![nextExportId] = captures]
    /\ UNCHANGED <<targetExportId, control, stranded, spent, promises, released, held>>

\* A remap that names a call that leads back to itself, or whose method throws
\* something other than std::exception.
RemapCrashes == Idle /\ nextExportId \in PushIds /\ Crash

-----------------------------------------------------------------------------
(* Microtasks (processTasks and the closures handlePush enqueues).         *)

\* Without a draining host only handlePull calls processTasks.
TasksRun == status = "open" /\ microtasks # <<>> /\ (Drains \/ pulling # NoPull)

\* Mutant of PopTask: the task at the front is run but not removed.
PopNothing ==
    /\ TasksRun
    /\ UNCHANGED <<nextExportId, targetExportId, microtasks, pulling, status, spent,
                   promises, refs>>

PopTask ==
    /\ TasksRun
    /\ microtasks' = Tail(microtasks)
    /\ UNCHANGED <<nextExportId, targetExportId, pulling, status, spent, promises, refs>>

\* The client released the export before its task ran.
RunTaskReleased ==
    /\ PopTask
    /\ ~Found(exports, Head(microtasks).id)
    /\ out' = <<>> /\ NoDispatch
    /\ UNCHANGED <<exports, nextExportIdNegative, nextImportId, importToPromiseExport,
                   targetRegistry, stranded>>

\* Mutant of RunTaskUnresolved: the error is not recorded.
RunTaskUnrecorded ==
    /\ PopTask
    /\ LET task == Head(microtasks)
       IN  /\ Found(exports, task.id)
           /\ \E early \in Ran(task.pipes) :
                 /\ Stops(task.pipes, early)
                 /\ exports' = Cached(early)
                 /\ Dispatched(early)
    /\ out' = <<>>
    /\ UNCHANGED <<nextExportIdNegative, nextImportId, importToPromiseExport,
                   targetRegistry, stranded>>

\* The arguments cannot be read: the call itself is not dispatched, and references
\* read before stay cached.
RunTaskUnresolved ==
    /\ PopTask
    /\ LET task == Head(microtasks)
       IN  /\ Found(exports, task.id)
           /\ \E early \in Ran(task.pipes) :
                 /\ Stops(task.pipes, early)
                 /\ exports' = SetResult(Cached(early), task.id, Error)
                 /\ Dispatched(early)
    /\ out' = <<>>
    /\ UNCHANGED <<nextExportIdNegative, nextImportId, importToPromiseExport,
                   targetRegistry, stranded>>

RunTask ==
    /\ PopTask
    /\ LET task  == Head(microtasks)
           early == Pending(task.pipes)
       IN  /\ Found(exports, task.id)
           /\ Readable(task.pipes)
           /\ MethodBody(Cached(early), task.id, ResultsOf(Cached(early), task.pipes))
           /\ Dispatched(early \cup {task.id})
    /\ UNCHANGED stranded

\* A method throws something other than std::exception: processTasks swallows it
\* and the entry stays as it was.
RunTaskForeign ==
    /\ PopTask
    /\ LET task == Head(microtasks)
       IN  /\ Found(exports, task.id)
           /\ \E early \in Ran(task.pipes) :
                 /\ MethodThrows(task.pipes, early)
                 /\ exports' = Cached(early)
                 /\ Dispatched(early)
           /\ stranded' = stranded \cup {task.id}
    /\ out' = <<>>
    /\ UNCHANGED <<nextExportIdNegative, nextImportId, importToPromiseExport,
                   targetRegistry>>

TaskCrashes ==
    /\ TasksRun
    /\ Found(exports, Head(microtasks).id)
    /\ Recursing(Head(microtasks).pipes)
    /\ Crash

-----------------------------------------------------------------------------
(* Pull.                                                                   *)

\* The client pulls while the bounds leave room for the answer.
ReceivePull(id) ==
    /\ Idle /\ RoomForExport
    /\ \A n \in NegIds : exports[n].rc < MaxRc
    /\ pulling' = [id |-> id, late |-> FALSE]
    /\ out' = <<>> /\ NoDispatch
    /\ UNCHANGED <<tables, microtasks, status, stranded, spent, promises, refs>>

\* handlePull reached its own dispatch: the export still is an operation.
LateRuns ==
    /\ pulling # NoPull /\ microtasks = <<>> /\ ~pulling.late
    /\ HasOperation(exports, pulling.id)

RunLate ==
    /\ LateRuns
    /\ LET pipes == Refs(pulling.id)
           early == Pending(pipes)
       IN  /\ Readable(pipes)
           /\ MethodBody(Cached(early), pulling.id, ResultsOf(Cached(early), pipes))
           /\ Dispatched(early \cup {pulling.id})
    /\ pulling' = [pulling EXCEPT !.late = TRUE]
    /\ UNCHANGED <<nextExportId, targetExportId, microtasks, status, stranded, spent,
                   promises, refs>>

\* Here nothing catches what is not std::exception, and nothing ends a recursion.
LateCrashes ==
    /\ LateRuns
    /\ \/ Recursing(Refs(pulling.id))
       \/ \E early \in Ran(Refs(pulling.id)) : MethodThrows(Refs(pulling.id), early)
    /\ Crash

Resolve(value) == [type |-> "resolve", id |-> pulling.id, value |-> value]
Reject         == [type |-> "reject", id |-> pulling.id, value |-> Error]
Export(n)      == [kind |-> "export", id |-> n]

\* The run of ["release", id, count] frames for the references of one export.
Releases(bag) == IF bag = NoRefs THEN <<>> ELSE << [type |-> "releases", refs |-> bag] >>
AddBags(a, b) == [r \in ClientRefs |-> a[r] + b[r]]

Answering ==
    /\ pulling # NoPull /\ microtasks = <<>>
    /\ pulling' = NoPull
    /\ UNCHANGED <<nextExportId, nextImportId, importToPromiseExport, targetRegistry,
                   microtasks, status, stranded, settled, answered, granted>>

AnsweringResult == Answering /\ HasResult(exports, pulling.id) /\ NoDispatch

\* Mutant of Sent: a result that was sent is kept.
SentKept(table) == table

\* The result is cleared once sent, unless handlePull computed it itself.
Sent(table) == IF pulling.late THEN table ELSE ClearResult(table, pulling.id)

\* What the client holds once it has the frame: one more reference, to the stub
\* that a resolve carries.
Holding(frame) ==
    [id \in Ids |-> IF frame.type = "resolve" /\ frame.value = Export(id)
                    THEN held[id] + 1 ELSE held[id]]

\* Mutant of Reply: the pulled export's references are not cleared.
ReplyKeepingReferences(table, frame) ==
    LET id == pulling.id IN
    /\ exports'  = table
    /\ out'      = <<frame>> \o Releases(table[id].refs)
    /\ released' = [released EXCEPT ![id] = AddBags(@, table[id].refs)]
    /\ spent'    = spent \cup ({id} \cap PushIds)
    /\ held'     = Holding(frame)

\* pumpMessage: the response, then the releases of the pulled export.
Reply(table, frame) ==
    LET id == pulling.id IN
    /\ exports'  = [table EXCEPT ![id].refs = NoRefs]
    /\ out'      = <<frame>> \o Releases(table[id].refs)
    /\ released' = [released EXCEPT ![id] = AddBags(@, table[id].refs)]
    /\ spent'    = spent \cup ({id} \cap PushIds)
    /\ held'     = Holding(frame)

AnswerNotFound ==
    /\ Answering
    /\ exports[pulling.id].phase \in {"free", "bare"}
    /\ NoDispatch
    /\ Reply(exports, Reject)
    /\ UNCHANGED <<nextExportIdNegative, targetExportId>>

\* The late dispatch failed: its references cannot be read, or its method threw.
AnswerThrow ==
    /\ Answering
    /\ LateRuns
    /\ \E early \in Ran(Refs(pulling.id)) :
          /\ Stops(Refs(pulling.id), early) \/ MethodThrows(Refs(pulling.id), early)
          /\ Dispatched(early)
          /\ Reply(ClearResult(Cached(early), pulling.id), Reject)
    /\ UNCHANGED <<nextExportIdNegative, targetExportId>>

AnswerError ==
    /\ AnsweringResult
    /\ ~pulling.late /\ exports[pulling.id].result = Error
    /\ Reply(Sent(exports), Reject)
    /\ UNCHANGED <<nextExportIdNegative, targetExportId>>

\* A plain value, an error tuple on the late path, or a promise already exported.
AnswerValue ==
    /\ AnsweringResult
    /\ LET result == exports[pulling.id].result IN
       /\ result.kind \in {"value", "promiseRef"} \/ (pulling.late /\ result = Error)
       /\ Reply(Sent(exports), Resolve(result))
    /\ UNCHANGED <<nextExportIdNegative, targetExportId>>

\* A target exported before keeps its id; its entry gains a reference if the
\* client has not released the last one.
AnswerKnownStub ==
    /\ AnsweringResult
    /\ \E t \in Targets :
          LET n == targetExportId[t] IN
          /\ exports[pulling.id].result = StubOf(t)
          /\ n # 0
          /\ Reply(IF Found(exports, n) THEN AddReference(Sent(exports), n) ELSE Sent(exports),
                   Resolve(Export(n)))
    /\ UNCHANGED <<nextExportIdNegative, targetExportId>>

\* Mutant of StubHook: a new stub is bound to the session's own target.
StubHookOfSession(t) == Main

\* The hook a new stub is bound to: the target's own, or the main target's if
\* nothing registered it.
StubHook(t) == IF t \in targetRegistry THEN t ELSE Main

\* A target exported for the first time.
AnswerNewStub ==
    /\ AnsweringResult /\ RoomForExport
    /\ \E t \in Targets :
          LET n == nextExportIdNegative IN
          /\ exports[pulling.id].result = StubOf(t)
          /\ targetExportId[t] = 0
          /\ Reply(Put(Sent(exports), n, Bare(StubHook(t))), Resolve(Export(n)))
          /\ targetExportId' = [targetExportId EXCEPT ![t] = n]
    /\ nextExportIdNegative' = nextExportIdNegative - 1

\* A promise marker becomes an export that already holds its payload.
AnswerPromise ==
    /\ AnsweringResult /\ RoomForExport
    /\ LET n == nextExportIdNegative
           result == exports[pulling.id].result
       IN  /\ result.kind = "promise"
           /\ Reply(Put(Sent(exports), n, Finished(result.payload, Main, NoRefs)),
                    Resolve(PromiseRef(n)))
    /\ nextExportIdNegative' = nextExportIdNegative - 1
    /\ UNCHANGED targetExportId

Answer == \/ AnswerNotFound \/ AnswerThrow \/ AnswerError \/ AnswerValue
          \/ AnswerKnownStub \/ AnswerNewStub \/ AnswerPromise

-----------------------------------------------------------------------------
(* The other frames.                                                       *)

Granted(r) == \E id \in Ids : granted[id][r] > 0

\* Imports a correct client may still settle: the server's calls and the
\* promises it passed.
Awaited == {i \in CallIds : i < nextImportId} \cup {r \in ClientPromises : Granted(r)}

\* resolve or reject: forwarded to the linked promise export, then released.
ReceiveSettlement(i, type) ==
    /\ Idle /\ i \in Awaited \ answered
    /\ LET n == importToPromiseExport[i] IN
       /\ out' = (IF n = 0 THEN <<>>
                  ELSE << [type |-> type, id |-> n, value |-> [kind |-> "forwarded"]] >>)
                 \o << [type |-> "release", id |-> i, count |-> 1] >>
       /\ settled' = settled \cup ({n} \ {0})
    /\ importToPromiseExport' = [importToPromiseExport EXCEPT ![i] = 0]
    /\ answered' = answered \cup {i}
    /\ NoDispatch
    /\ UNCHANGED <<exports, nextExportId, nextExportIdNegative, nextImportId,
                   targetExportId, targetRegistry, control, stranded, spent, refs>>

ReceiveRelease(id, count) ==
    /\ Idle
    /\ exports' = Release(exports, id, count)
    /\ spent' = spent \cup {p \in {id} \cap PushIds :
                               Found(exports, id) /\ ~Found(exports', id)}
    /\ held' = [held EXCEPT ![id] = IF @ > count THEN @ - count ELSE 0]
    /\ out' = <<>> /\ NoDispatch
    /\ UNCHANGED <<nextExportId, nextExportIdNegative, nextImportId,
                   importToPromiseExport, targetExportId, targetRegistry, control,
                   stranded, promises, granted, released>>

\* markAborted(sessionData, reason): the flag is set, every table is emptied.
Abort ==
    /\ Idle
    /\ status' = "aborted"
    /\ exports' = [id \in Ids |-> Free]
    /\ nextExportId' = 1 /\ nextExportIdNegative' = -1 /\ nextImportId' = 1
    /\ importToPromiseExport' = [i \in CallIds \cup ClientRefs |-> 0]
    /\ targetExportId' = [t \in Targets |-> 0]
    /\ targetRegistry' = {}
    /\ microtasks' = <<>>
    /\ held' = [id \in Ids |-> 0]
    /\ NoDispatch
    /\ UNCHANGED <<pulling, stranded, spent, promises, granted, released>>

ReceiveAbort == Abort /\ out' = <<>>

\* A frame whose handler throws std::exception: the endpoint sends an abort.
ReceiveFatal == Abort /\ out' = << [type |-> "abort"] >>

\* Application code outside a method calls, or awaits, a client reference that a
\* method was passed.
AppUsesClient(r) ==
    /\ Idle /\ Granted(r)
    /\ \E last \in Lasts :
          /\ UseClient(<<r>>, {}, last) \/ (r \in ClientPromises /\ UseClient(<<>>, {r}, last))
          /\ exports' = WithPromises(exports, last)
    /\ NoDispatch
    /\ UNCHANGED <<nextExportId, targetExportId, targetRegistry, control, stranded,
                   spent, promises, refs>>

\* The transport closes: emitPendingReleases gives every pending reference back.
Close ==
    /\ Idle
    /\ status' = "closed"
    /\ exports' = [id \in Ids |-> [exports[id] EXCEPT !.refs = NoRefs]]
    /\ released' = [id \in Ids |-> AddBags(released[id], exports[id].refs)]
    /\ out' = << [type |-> "flush", refs |-> [id \in Ids |-> exports[id].refs]] >>
    /\ NoDispatch
    /\ UNCHANGED <<nextExportId, nextExportIdNegative, nextImportId,
                   importToPromiseExport, targetExportId, targetRegistry, microtasks,
                   pulling, stranded, spent, promises, granted, held>>

-----------------------------------------------------------------------------

Args == [ClientRefs -> 0..MaxRefs]

Receive ==
    \/ \E subject \in Subjects, args \in Args, pipes \in Pipes :
          ReceiveCall(subject, args, pipes)
    \/ ReceiveOtherPush
    \/ \E base \in {0} \cup Ids, names \in Pipes, captures \in Args :
          ReceiveRemap(base, names, captures)
    \/ RemapCrashes
    \/ \E id \in Ids : ReceivePull(id)
    \/ \E i \in CallIds \cup ClientPromises, type \in {"resolve", "reject"} :
          ReceiveSettlement(i, type)
    \/ \E id \in Ids, count \in 1..MaxRc : ReceiveRelease(id, count)
    \/ ReceiveAbort
    \/ ReceiveFatal

\* What the event loop does once a frame is accepted.
Handle == RunTaskReleased \/ RunTaskUnresolved \/ RunTask \/ RunTaskForeign
          \/ TaskCrashes \/ RunLate \/ LateCrashes \/ Answer

Ended == status # "open" /\ UNCHANGED vars

Next == Receive \/ Handle \/ (\E r \in ClientRefs : AppUsesClient(r)) \/ Close \/ Ended

Spec == Init /\ [][Next]_vars

\* The loop thread runs a handler it has started; methods return.
FairSpec == Spec /\ WF_vars(Handle)

-----------------------------------------------------------------------------
(* Properties.                                                             *)

\* The tables hold entries, links and tasks of the shapes the code declares.
TypeOK ==
    /\ exports \in [Ids -> Entry]
    /\ nextExportId \in 1..(MaxPush + 1)
    /\ nextExportIdNegative \in (-MaxNeg - 1)..(-1)
    /\ nextImportId \in 1..(MaxCalls + 1)
    /\ importToPromiseExport \in [CallIds \cup ClientRefs -> NegIds \cup {0}]
    /\ targetExportId \in [Targets -> NegIds \cup {0}]
    /\ targetRegistry \subseteq Targets
    /\ microtasks \in Seq(Task)
    /\ pulling \in [id : Ids, late : BOOLEAN] \cup {NoPull}
    /\ status \in {"open", "aborted", "closed", "crashed"}
    /\ finished \subseteq Ids /\ stranded \subseteq PushIds /\ spent \subseteq PushIds
    /\ settled \subseteq NegIds
    /\ answered \subseteq CallIds \cup ClientPromises
    /\ granted \in [Ids -> Bags] /\ released \in [Ids -> Bags]
    /\ held \in [Ids -> Nat]

\* handlePull's second branch, which dispatches the method again, is only ever
\* reached for a call whose microtask an unknown exception ended: processTasks
\* has given every other pushed call its outcome before the pull is looked up.
PullFindsOutcome ==
    pulling # NoPull /\ microtasks = <<>> /\ HasOperation(exports, pulling.id)
        => pulling.id \in stranded

\* A call whose outcome the session has recorded is never dispatched again, by
\* its task, by a pull, by a pipelined reference or by a remap.
RecordedOnce == [][ran' \cap finished = {}]_vars

\* A reference to a push the server has taken, its own or one that such a reference
\* leads to, can only fail because that push stored nothing, or its result was already
\* sent or its export erased: whatever the order of the queue, no result is merely late.
ReferencesAreReady ==
    \A k \in 1..Len(microtasks) :
        Unreadable(microtasks[k].pipes) \cap 1..(nextExportId - 1) \subseteq spent

\* A reference back runs a call early, on the main target instead of the call's own
\* hook, only if the call's own task has run and ended in a foreign exception: that
\* goes for every earlier call the task at the front reaches, through later ones too.
EarlyRunsAreRetries ==
    microtasks # <<>> =>
        \A p \in Pending(Head(microtasks).pipes) : p < Head(microtasks).id => p \in stranded

\* Per export, the client references given back and those still to be given back
\* are those its call passed; nothing is returned twice, even after a release.
ReferenceAccounts ==
    \A id \in Ids, r \in ClientRefs :
        LET accounted == released[id][r] + exports[id].refs[r] IN
        IF Found(exports, id) THEN accounted = granted[id][r]
                              ELSE accounted <= granted[id][r]

\* A target's export id leads to that target, and no two targets share an id.
StubIdentity ==
    \A t \in Targets :
        LET n == targetExportId[t] IN
        n # 0 => /\ Found(exports, n) => exports[n].hook = t
                 /\ \A u \in Targets \ {t} : targetExportId[u] # n

\* The count of a stub's entry is the number of references to it the client holds: no
\* export, re-export, release or copy of the stub makes the two ends differ, so the
\* entry goes with the client's last reference and not before.
StubsAreCounted ==
    \A t \in Targets :
        LET n == targetExportId[t] IN
        n # 0 /\ Found(exports, n) => exports[n].rc = held[n]

\* A promise exported for a client call is resolved or rejected at most once.
SettledOnce ==
    [][\A k \in 1..Len(out') :
          out'[k].type \in {"resolve", "reject"} /\ out'[k].value.kind = "forwarded"
              => out'[k].id \notin settled]_vars

\* Until its answer arrives, a call the server made is linked to a promise export of
\* its own, whatever other calls, awaits and answers change in the shared map.
CallsStayLinked ==
    status = "open" => \A i \in {c \in CallIds : c < nextImportId} \ answered :
        LET n == importToPromiseExport[i] IN
        /\ n \in NegIds \ settled
        /\ \A j \in CallIds \cup ClientRefs : importToPromiseExport[j] = n => j = i

\* While the session is open, a promise leaves the shared map only with the client's
\* answer forwarded to it.  The one exception: awaiting an unanswered import once more
\* links a new promise in place of the first, which is then never settled.
LinksEndAnswered ==
    [][status' = "open" => \A i \in CallIds \cup ClientRefs :
          LET n == importToPromiseExport[i] IN
          n # 0 /\ importToPromiseExport'[i] # n =>
             \/ \E k \in 1..Len(out') : /\ out'[k].type \in {"resolve", "reject"}
                                        /\ out'[k].id = n
             \/ i \in ClientPromises /\ importToPromiseExport'[i]
                     \in (nextExportIdNegative' + 1)..nextExportIdNegative]_vars

\* What is left of the handler: two for each queued task, two for a pull
\* and one once it has run its call itself.
WorkLeft ==
    2 * Len(microtasks)
    + (IF pulling = NoPull THEN 0 ELSE IF pulling.late THEN 1 ELSE 2)

\* While a handler runs, the loop does nothing but bring it nearer its end: whatever
\* its methods return, throw and call, no step queues another task, runs the pulled
\* call a second time or begins another frame.
HandlersShrink == [][status = "open" /\ ~Idle => WorkLeft' < WorkLeft]_vars

\* Waiting calls whose arguments name each other, or themselves.
CallsNameEachOther ==
    \E cycle \in SUBSET Ids :
        /\ cycle # {}
        /\ \A p \in cycle : HasOperation(exports, p) /\ exports[p].pipes \cap cycle # {}

\* A handler the loop has started ends: its tasks run and its pull is answered.  Two
\* things end the process first, calls that name each other and a method that
\* throws a foreign exception once more, when a pull runs its call again.
HandlersEnd ==
    (status = "open" /\ ~Idle) ~>
        \/ Idle
        \/ /\ status = "crashed"
           /\ CallsNameEachOther \/ \E p \in stranded : HasOperation(exports, p)

-----------------------------------------------------------------------------
(* Statements of the code's comments and of its peer that the code breaks. *)

\* dist/index.d.ts:283: calling a method on the promise of a call "will make a
\* pipelined network request", so if the call returned a stub, the stub's target
\* runs the method.
PipelinedCallsReachTheStub ==
    \A k \in 1..Len(microtasks), t \in Targets :
        LET task == microtasks[k] IN
        HasResult(exports, task.subject) /\ exports[task.subject].result = StubOf(t)
            => task.hook = t

\* export_target.h:15: a target's export id has a "stable identity", so the
\* id a resolve carries is the id of an export.
ExportedStubsExist ==
    [][\A k \in 1..Len(out') :
          out'[k].type = "resolve" /\ out'[k].value.kind = "export"
              => Found(exports', out'[k].value.id)]_vars
=============================================================================
