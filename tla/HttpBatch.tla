----------------------------- MODULE HttpBatch -----------------------------
(***************************************************************************)
(* HTTP batches: the POST route of setupRpcEndpoint (rpc_endpoint.h, and   *)
(* processBatch in batch.h), which gives every request a fresh session,    *)
(* under its two clients: RpcClient (client_api.h), whose import ids go on *)
(* counting from one batch to the next, and the JavaScript client, which   *)
(* is new for every batch.                                                 *)
(*                                                                         *)
(* Grain of atomicity.  The server handles one line of the body per step:  *)
(* the frame, then the microtask it queued (pumpMessage, processTasks).    *)
(* The network may lose a request or its answer.  The target has the       *)
(* methods of Wire!Dispatch.                                               *)
(*                                                                         *)
(* The conversions that walk a value are parameters: Values defines them,  *)
(* and MCHttpBatch puts the two together.                                  *)
(***************************************************************************)
EXTENDS Wire

CONSTANTS
    Samples,                  \* values the clients pass to methods
    Shapes,                   \* what a JavaScript batch does with its first call's result
    MaxImport,                \* bound: calls one RpcClient makes
    EvaluateValue(_, _),      \* Evaluator::evaluateValue, in a session
    EvaluateRemap(_, _),      \* Evaluator::evaluateValueWithCaller of a remap, in a session
    DevaluateForResult(_),    \* devaluateForResult
    JsToWire(_), JsFromWire(_), \* the JavaScript client's Devaluator and Evaluator
    Parts(_)                  \* every value inside a value, itself included

ASSUME BatchAssumption == MaxImport \in Nat

VARIABLES
    nextImportId,    \* RpcClient::nextImportId
    request,         \* the batch: who sent it, its frames, the id it pulls
    status,          \* "idle", "sent", "serving", "answered" or "done"
    taken,           \* lines the server has handled
    nextExportId,    \* the fresh session's exporter.nextExportId
    session,         \* its results, operations and what references ran early
    borrowed,        \* its importedClientIds, per export
    outbox,          \* frames the batch answers with
    got              \* what the client's call returned

server == <<taken, nextExportId, session, borrowed, outbox>>
vars   == <<nextImportId, request, status, server, got>>

Call(subject, path, args) ==
    [type |-> "call", subject |-> subject, path |-> path, args |-> args]
Method(name) == Array(<<Str(name)>>)
RemapOf(x)   == [type |-> "remap", of |-> x]
Pull(id)     == [type |-> "pull", id |-> id]

NoRequest == [by |-> "none", id |-> 0, frames |-> <<>>, passes |-> Null, wants |-> Null]
Fresh     == [results |-> <<>>, operations |-> <<>>, ran |-> <<>>, called |-> <<>>]
Nothing   == [kind |-> "nothing"]
Returned(v) == [kind |-> "value", value |-> v]
Failed      == [kind |-> "error"]
Lost        == [kind |-> "lost"]

Init ==
    /\ nextImportId = 1 /\ request = NoRequest /\ status = "idle"
    /\ taken = 0 /\ nextExportId = 1 /\ session = Fresh /\ borrowed = <<>> /\ outbox = <<>>
    /\ got = Nothing

Cleared ==
    /\ taken' = 0 /\ nextExportId' = 1 /\ session' = Fresh /\ borrowed' = <<>>
    /\ outbox' = <<>> /\ got' = Nothing

\* sendBatch: the POST starts on a session of its own.
SendBatch(by, id, frames, passes, wants) ==
    /\ status' = "sent"
    /\ request' = [by |-> by, id |-> id, frames |-> frames,
                    passes |-> passes, wants |-> wants]
    /\ Cleared

-----------------------------------------------------------------------------
(* RpcClient.                                                              *)

Allocate ==
    /\ status = "idle" /\ nextImportId <= MaxImport
    /\ nextImportId' = nextImportId + 1

\* callMethod, callStubMethod (on a stub another batch returned) and
\* getStubProperty, which sends no arguments: a push and the pull of its id.
RpcCall(subject, path, args, passes, wants) ==
    /\ Allocate
    /\ SendBatch("rpcClient", nextImportId,
                 <<Call(subject, path, args), Pull(nextImportId)>>, passes, wants)

CallMethod(v)     == RpcCall(0, Method("echo"), Array(<<v>>), v, v)
CallThrowing(m)   == RpcCall(0, Method(m), Array(<<>>), Null, Thrown)
CallForStub       == RpcCall(0, Method("self"), Array(<<>>), Null, Only("$stub", Num(-1)))
CallStubMethod(v) == nextImportId > 1 /\ RpcCall(-1, Method("echo"), Array(<<v>>), v, v)
GetStubProperty   == nextImportId > 1 /\ RpcCall(-1, Method("echo"), Array(<<>>), Null, Null)

AnswersTo(id, lines) ==
    {k \in DOMAIN lines : lines[k].type \in {"resolve", "reject"} /\ lines[k].id = id}
FirstAnswer(id, lines) ==
    lines[CHOOSE k \in AnswersTo(id, lines) : \A j \in AnswersTo(id, lines) : k <= j]

\* parseResultFor: the first answer to the import id, unwrapped and decoded.
ParseResultFor(id, lines) ==
    IF AnswersTo(id, lines) = {} \/ FirstAnswer(id, lines).type = "reject" THEN Failed
    ELSE Returned(DecodeSpecial(UnwrapArrayIfNeeded(FirstAnswer(id, lines).value)))

-----------------------------------------------------------------------------
(* The JavaScript client.                                                  *)

\* The argument list of a call: devaluated as an array, sent without the escape.
JsArgs(v) == JsToWire(Array(<<v>>)).items[1]

Ref(id, path)  == Array(<<Str("pipeline"), Num(id), path>>)
FieldA         == Array(<<Str("a")>>)
MapOver(captures, ins) == [kind |-> "remap", base |-> 1, path |-> Array(<<>>),
                           captures |-> captures, instrs |-> <<ins>>]

\* What the batch does with the result of its first call, echo(v): nothing, pass
\* it or its field a to another call, pass it twice, map it to its field, read it
\* as a capture, or map it through a function of the client's.
Second(shape) ==
    CASE shape = "none"    -> <<>>
      [] shape = "pass"    -> <<Call(0, Method("echo"), Array(<<Ref(1, Array(<<>>))>>))>>
      [] shape = "twice"   -> <<Call(0, Method("echo"),
                                     Array(<<Ref(1, Array(<<>>)), Ref(1, Array(<<>>))>>))>>
      [] shape = "field"   -> <<Call(0, Method("echo"), Array(<<Ref(1, FieldA)>>))>>
      [] shape = "map"     -> <<RemapOf(MapOver(<<>>,
                                  [op |-> "pipeline", subject |-> 0, path |-> FieldA]))>>
      [] shape = "object"  -> <<RemapOf(MapOver(<<>>,
                                  [op |-> "object", of |-> Only("a", Ref(1, FieldA))]))>>
      [] shape = "capture" -> <<RemapOf(MapOver(<<[import |-> TRUE, id |-> 1]>>,
                                  [op |-> "get", subject |-> -1, path |-> Array(<<>>)]))>>
      [] shape = "through" -> <<RemapOf(MapOver(<<[import |-> FALSE, id |-> -1]>>,
                                  [op |-> "pipeline", subject |-> -1, path |-> Method("greet"),
                                   args |-> Array(<<>>)]))>>

\* The value the pulled call stands for.
Wanted(shape, v) ==
    CASE shape \in {"field", "map"} -> Property(v, Str("a"))
      [] shape = "object"  -> Only("a", Property(v, Str("a")))
      [] shape = "through" -> Only("$server_promise", Num(-1))
      [] OTHER -> v

JsBatch(shape, v) ==
    /\ status = "idle"
    /\ JsToWire(Array(<<v>>)) # Thrown
    /\ shape \in {"field", "map", "object"} => Has(v, "a")
    /\ LET pushes == <<Call(0, Method("echo"), JsArgs(v))>> \o Second(shape)
       IN  SendBatch("js", Len(pushes), Append(pushes, Pull(Len(pushes))),
                      v, Wanted(shape, v))
    /\ UNCHANGED nextImportId

\* The answer to the pull settles the call.
JsParse(id, lines) ==
    IF AnswersTo(id, lines) = {} \/ FirstAnswer(id, lines).type = "reject" THEN Failed
    ELSE LET v == JsFromWire(FirstAnswer(id, lines).value)
         IN  IF v = Thrown THEN Failed ELSE Returned(v)

-----------------------------------------------------------------------------
(* The POST handler.                                                       *)

StartServing ==
    /\ status = "sent" /\ status' = "serving"
    /\ UNCHANGED <<nextImportId, request, server, got>>

\* The next line of the body.
Line == request.frames[taken + 1]
TakeLine(type) ==
    /\ status = "serving" /\ taken < Len(request.frames)
    /\ Line.type = type
    /\ taken' = taken + 1
    /\ UNCHANGED <<nextImportId, request, got>>

With(f, id, v)  == [i \in DOMAIN f \cup {id} |-> IF i = id THEN v ELSE f[i]]
Without(f, id)  == [i \in DOMAIN f \ {id} |-> f[i]]
MethodError     == ErrorTuple("MethodError", "what")

\* The client references an expression passes.
RefsIn(x) == {v.items[2].number : v \in {u \in Parts(x) :
                  IsReference(u, "export") \/ IsReference(u, "promise")}}

\* setOperation: the call waits for its microtask.
Queued(s, id, method, args) ==
    [s EXCEPT !.operations = With(@, id, [method |-> method, args |-> args])]

\* The microtask of call id: its outcome is recorded.  A method that throws
\* something other than std::exception leaves the operation in place.
Recorded(run, id) ==
    \/ session' = [run.env EXCEPT
           !.results = With(@, id, IF run.json = Thrown THEN MethodError ELSE run.json),
           !.operations = Without(@, id)]
    \/ run.json # Thrown /\ session' = run.env

\* handlePush of a pipeline expression and, in processTasks, its microtask.
TakeCall ==
    /\ TakeLine("call")
    /\ LET method == Head(Line.path.items).string
           queued == Queued(session, nextExportId, method, Line.args)
       IN  Recorded(Run(method, EvaluateValue(Line.args, queued)), nextExportId)
    /\ borrowed' = With(borrowed, nextExportId, RefsIn(Line.args))
    /\ nextExportId' = nextExportId + 1
    /\ UNCHANGED <<status, outbox>>

\* The calls a remap makes on exports of the client: a push and a pull each.
CallBacks(called) ==
    [k \in 1..(2 * Len(called)) |->
        IF k % 2 = 1 THEN [type |-> "push", ref |-> called[(k + 1) \div 2]]
                     ELSE [type |-> "pull", id |-> k \div 2]]

Stored(run, id) ==
    /\ session' = [run.env EXCEPT
           !.results = With(@, id, IF run.json = Thrown THEN MethodError ELSE run.json)]
    /\ outbox' = outbox \o CallBacks(session'.called)

\* handlePush of a remap expression, evaluated at once; a batch has at most one.
TakeRemap ==
    /\ TakeLine("remap")
    /\ Stored(EvaluateRemap(Line.of, session), nextExportId)
    /\ borrowed' = With(borrowed, nextExportId,
                        {Line.of.captures[k].id :
                            k \in {j \in DOMAIN Line.of.captures : ~Line.of.captures[j].import}})
    /\ nextExportId' = nextExportId + 1
    /\ UNCHANGED status

Answer(type, id, v) == [type |-> type, id |-> id, value |-> v]

\* The run of ["release", id, 1] frames for the references of one export.
Releases(id) == IF id \notin DOMAIN borrowed \/ borrowed[id] = {} THEN <<>>
                ELSE << [type |-> "releases", refs |-> borrowed[id]] >>

Respond(id, answer) ==
    /\ outbox' = Append(outbox, answer) \o Releases(id)
    /\ borrowed' = IF id \in DOMAIN borrowed THEN With(borrowed, id, {}) ELSE borrowed
    /\ UNCHANGED <<status, nextExportId>>

\* Mutant of Framed: a tagged array is escaped like any other.
FramedAlways(sent) == WrapArrayIfNeeded(sent)

\* Arrays are escaped unless they are special.
Framed(sent) == IF IsSpecialArray(sent) THEN sent ELSE WrapArrayIfNeeded(sent)

\* handlePull's frame for a result: a reject for an error tuple, else a resolve.
FrameOf(result) ==
    IF Tag(result) = "error" /\ Len(result.items) >= 2
    THEN [type |-> "reject", value |-> result]
    ELSE [type |-> "resolve", value |-> Framed(DevaluateForResult(result))]

\* handlePull of a result: it is framed, sent and cleared.
PullResult ==
    /\ TakeLine("pull")
    /\ Line.id \in DOMAIN session.results
    /\ LET frame == FrameOf(session.results[Line.id])
       IN  /\ frame.value # Thrown
           /\ Respond(Line.id, Answer(frame.type, Line.id, frame.value))
    /\ session' = [session EXCEPT !.results = Without(@, Line.id)]

\* The result nests too deep: the exception leaves the handler and the batch is
\* answered with a 500 and none of its frames.
PullUndeliverable ==
    /\ TakeLine("pull")
    /\ Line.id \in DOMAIN session.results
    /\ FrameOf(session.results[Line.id]).value = Thrown
    /\ outbox' = << [type |-> "error500"] >> /\ status' = "answered"
    /\ UNCHANGED <<nextExportId, session, borrowed>>

\* handlePull's own call of an operation: even an error tuple is a resolve, and a
\* result too deep to send is kept.
AnswerLate(id, run, sent) ==
    /\ Respond(id, IF sent = Thrown THEN Answer("reject", id, MethodError)
                   ELSE Answer("resolve", id, Framed(sent)))
    /\ session' = [run.env EXCEPT
           !.results = IF run.json = Thrown THEN @ ELSE With(@, id, run.json),
           !.operations = Without(@, id)]

RespondLate(id, run) ==
    AnswerLate(id, run, IF run.json = Thrown THEN Thrown ELSE DevaluateForResult(run.json))

\* handlePull of an export that still is an operation.
PullOperation ==
    /\ TakeLine("pull")
    /\ Line.id \in DOMAIN session.operations
    /\ LET op == session.operations[Line.id]
       IN  RespondLate(Line.id, Run(op.method, EvaluateValue(op.args, session)))

PullNotFound ==
    /\ TakeLine("pull")
    /\ Line.id \notin DOMAIN session.results \cup DOMAIN session.operations
    /\ Respond(Line.id, Answer("reject", Line.id, ErrorTuple("ExportNotFound", "what")))
    /\ UNCHANGED session

\* drain() finds nothing left and the response body is written.
EndBatch ==
    /\ status = "serving" /\ taken = Len(request.frames)
    /\ status' = "answered"
    /\ UNCHANGED <<nextImportId, request, server, got>>

Serve == \/ StartServing \/ TakeCall \/ TakeRemap \/ PullResult \/ PullUndeliverable
         \/ PullOperation \/ PullNotFound \/ EndBatch

-----------------------------------------------------------------------------

Receive ==
    /\ status = "answered" /\ status' = "done"
    /\ got' = IF request.by = "js" THEN JsParse(request.id, outbox)
              ELSE ParseResultFor(request.id, outbox)
    /\ UNCHANGED <<nextImportId, request, server>>

\* sendBatch throws: the request, or its answer, is lost.
Lose ==
    /\ status \in {"sent", "answered"} /\ status' = "done"
    /\ got' = Lost
    /\ UNCHANGED <<nextImportId, request, server>>

\* The call returns, or throws, to the application.
Return ==
    /\ status = "done" /\ status' = "idle"
    /\ request' = NoRequest /\ Cleared
    /\ UNCHANGED nextImportId

Next ==
    \/ \E v \in Samples : CallMethod(v) \/ CallStubMethod(v)
    \/ CallThrowing("fail") \/ CallThrowing("deep") \/ CallForStub \/ GetStubProperty
    \/ \E v \in Samples, shape \in Shapes : JsBatch(shape, v)
    \/ Serve \/ Receive \/ Lose \/ Return

Spec == Init /\ [][Next]_vars

-----------------------------------------------------------------------------
(* Properties.                                                             *)

\* What no conversion takes for something else: a value in which no string stands
\* where a tag would.
Untagged(v) ==
    /\ \A w \in Parts(v) : Tag(w) \notin SpecialTags \cup {"value"}
    /\ IsStr(v) => v.string \notin SpecialTags \cup {"value"}

\* Portable to the JavaScript client and back: no array, no promise.
Portable(v) == Untagged(v) /\ \A w \in Parts(v) : ~IsArray(w) /\ ~Has(w, "$promise_stub")

\* Readable by RpcClient, which decodes no marker below the top of a result, and
\* no capability it passed.
Flat(v) == /\ Untagged(v)
           /\ \A child \in Children(v) :
                 \A w \in Parts(child) : Devalued(w) = Null
           /\ Devalued(v) = Null \/ IsMarker(v)

\* Evaluating the arguments of a first call finds nothing to convert.
Arrives(method, args) ==
    LET s == Queued(Fresh, 1, method, args) IN EvaluateValue(args, s) = Ret(args, s)

\* What the theorems need of the conversions: on a flat sample the evaluator changes
\* nothing and the devaluator only a marker; no value nests too deep to be sent but
\* the one a method makes so.
ASSUME ConversionsAssumption ==
    /\ Thrown \notin Samples
    /\ \A v \in Samples : v \in Parts(v)
    /\ \A v \in {w \in Samples : Flat(w)} :
          /\ Arrives("echo", Array(<<v>>))
          /\ DevaluateForResult(v) = IF Devalued(v) = Null THEN v ELSE Devalued(v)
    /\ \A method \in {"echo", "self", "deep", "fail"} : Arrives(method, Array(<<>>))
    /\ LET stub == Dispatch("self", Array(<<>>)) IN DevaluateForResult(stub) = Devalued(stub)
    /\ DevaluateForResult(Dispatch("deep", Array(<<>>))) = Thrown

Ended(by) == status = "done" /\ request.by = by /\ got # Lost

\* A remap that runs its base itself, in mode "caller", leaves the client's
\* references unread, so they come back as the server's.
RanInRemap == (\E k \in DOMAIN session.ran : session.ran[k] = 1) /\ \E k \in DOMAIN request.frames :
                  request.frames[k].type = "remap"
HasStub(v) == \E w \in Parts(v) : Has(w, "$stub")

\* A value that goes from the JavaScript client through a call's arguments, an
\* earlier call's result, a path or a remap and back is the value it expects, up
\* to the depth both ends allow and even if the method had to be run late.
JsGetsWhatItSent ==
    Ended("js") /\ Portable(request.passes) /\ ~(RanInRemap /\ HasStub(request.passes))
        => got = Returned(request.wants)

\* RpcClient never returns another call's value, and returns its own only on its
\* first call: later ones pull ids that a fresh session has not pushed.
OnlyFirstCallsReturn ==
    Ended("rpcClient") /\ Flat(request.passes) =>
        got = IF request.wants = Thrown \/ request.id > 1 THEN Failed
              ELSE Returned(request.wants)


\* README.md:11: "the library interoperates with the original TypeScript/JavaScript
\* capnweb client", so a method that returns its argument returns what the
\* client passed.
EveryValueEchoes ==
    Ended("js") /\ request.passes = request.wants => got = Returned(request.wants)
=============================================================================
