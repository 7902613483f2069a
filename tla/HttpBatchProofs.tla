-------------------------- MODULE HttpBatchProofs --------------------------
(* Theorems about the conversions of Wire and about what an RpcClient's     *)
(* call returns over HTTP, whatever the conversions of whole values are     *)
(* that ConversionsAssumption holds of.                                    *)
EXTENDS HttpBatch, TLAPS

-----------------------------------------------------------------------------
(* Conversions of the top of a value.                                      *)

LEMMA Strings == ASSUME NEW s PROVE IsStr(Str(s)) /\ Str(s).string = s
  BY DEF IsStr, Str

LEMMA Arrays == ASSUME NEW items PROVE IsArray(Array(items)) /\ Array(items).items = items
  BY DEF IsArray, Array

LEMMA One == ASSUME NEW a PROVE <<a>> # <<>> /\ <<a>>[1] = a /\ Len(<<a>>) = 1
<1>1. <<a>> # <<>>
  OBVIOUS
<1>2. <<a>>[1] = a
  OBVIOUS
<1>3. Len(<<a>>) = 1
  OBVIOUS
<1> QED
  BY <1>1, <1>2, <1>3

LEMMA TagOfArray ==
    ASSUME NEW items, NEW s, items # <<>>, items[1] = Str(s)
    PROVE  Tag(Array(items)) = s
<1>1. Head(items) = Str(s)
  OBVIOUS
<1> QED
  BY <1>1, Strings, Arrays DEF Tag

LEMMA HeadIsFirst == ASSUME NEW s, s # <<>> PROVE Head(s) = s[1]
  OBVIOUS

\* An array whose first element is a string is not taken for an escaped one.
LEMMA TaggedIsNotUnwrapped ==
    ASSUME NEW v, Tag(v) # ""
    PROVE  UnwrapArrayIfNeeded(v) = v
<1>1. IsArray(v) /\ v.items # <<>> /\ IsStr(Head(v.items))
  BY DEF Tag
<1>2. Head(v.items) = v.items[1]
  BY <1>1, HeadIsFirst
<1>3. ~IsArray(v.items[1])
  BY <1>1, <1>2 DEF IsStr, IsArray
<1> QED
  BY <1>3 DEF UnwrapArrayIfNeeded

\* What the server escapes the client unescapes.
LEMMA FramedIsUnwrapped ==
    ASSUME NEW v
    PROVE  UnwrapArrayIfNeeded(Framed(v)) = v
<1>1. CASE IsSpecialArray(v)
  <2>1. Tag(v) # ""
    BY <1>1 DEF IsSpecialArray, SpecialTags
  <2> QED
    BY <1>1, <2>1, TaggedIsNotUnwrapped DEF Framed
<1>2. CASE ~IsSpecialArray(v) /\ IsArray(v)
  <2>1. Framed(v) = Array(<<v>>)
    BY <1>2 DEF Framed, WrapArrayIfNeeded
  <2>2. /\ IsArray(Framed(v)) /\ Len(Framed(v).items) = 1 /\ Framed(v).items[1] = v
    BY <2>1, Arrays, One
  <2> QED
    BY <1>2, <2>2 DEF UnwrapArrayIfNeeded
<1>3. CASE ~IsSpecialArray(v) /\ ~IsArray(v)
  BY <1>3 DEF Framed, WrapArrayIfNeeded, UnwrapArrayIfNeeded
<1> QED
  BY <1>1, <1>2, <1>3

LEMMA MarkerNames ==
    /\ DOMAIN Marker = {"bigint", "date", "bytes"}
    /\ Marker["bigint"] = "$bigint" /\ Marker["date"] = "$date" /\ Marker["bytes"] = "$bytes"
  BY DEF Marker

\* A value without a tag is not decoded.
LEMMA UntaggedIsNotDecoded ==
    ASSUME NEW v, Tag(v) \notin SpecialTags
    PROVE  DecodeSpecial(v) = v
  BY MarkerNames DEF DecodeSpecial, IsReference, IsErrorTuple, SpecialTags

LEMMA OnlyHas ==
    ASSUME NEW key, NEW v
    PROVE  /\ \A k : Has(Only(key, v), k) <=> k = key
           /\ Only(key, v).fields[key] = v
<1>1. Only(key, v).kind = "object" /\ Only(key, v).fields = [k \in {key} |-> v]
  BY DEF Only, Object
<1>2. [k \in {key} |-> v][key] = v
  OBVIOUS
<1>3. DOMAIN [k \in {key} |-> v] = {key}
  OBVIOUS
<1> QED
  BY <1>1, <1>2, <1>3 DEF Has

\* The three markers with a payload: the client restores what devaluateForResult made
\* of them, tag and payload.
LEMMA PayloadMarkerDecodes ==
    ASSUME NEW v, NEW tag \in DOMAIN Marker, Holds(v, tag),
           v = Only(Marker[tag], v.fields[Marker[tag]])
    PROVE  /\ Tag(Devalued(v)) = tag
           /\ DecodeSpecial(Devalued(v)) = v
<1> DEFINE p == v.fields[Marker[tag]]
           w == Devalued(v)
<1>1. \A t \in DOMAIN Marker : Holds(v, t) => t = tag
  BY OnlyHas, MarkerNames DEF Holds
<1>2. w = Array(<<Str(tag), p>>)
  <2>1. (CHOOSE t \in DOMAIN Marker : Holds(v, t)) = tag
    BY <1>1
  <2> QED
    BY <2>1 DEF Devalued
<1> HIDE DEF p, w
<1>3. Tag(w) = tag
  BY <1>2, TagOfArray
<1>4. Len(w.items) = 2 /\ w.items[2] = p
  BY <1>2, Arrays
<1>5. Fits(tag, p)
  BY DEF Holds, p
<1>6. ~IsReference(w, "export") /\ ~IsReference(w, "promise") /\ Tag(w) # "undefined"
      /\ ~IsErrorTuple(w)
  BY <1>3, MarkerNames DEF IsReference, IsErrorTuple
<1>7. DecodeSpecial(w) = Only(Marker[tag], p)
  BY <1>3, <1>4, <1>5, <1>6 DEF DecodeSpecial
<1> QED
  BY <1>3, <1>7 DEF p, w

LEMMA UndefinedDecodes ==
    ASSUME NEW v, v = Only("$undefined", True)
    PROVE  Tag(Devalued(v)) = "undefined" /\ DecodeSpecial(Devalued(v)) = v
<1> DEFINE w == Devalued(v)
<1>1. /\ \A t \in DOMAIN Marker : ~Holds(v, t)
      /\ IsSet(v, "$undefined")
  BY OnlyHas, MarkerNames DEF Holds, IsSet
<1>2. w = Array(<<Str("undefined")>>)
  BY <1>1 DEF Devalued
<1> HIDE DEF w
<1>3. Tag(w) = "undefined"
  BY <1>2, TagOfArray, One
<1>4. ~IsReference(w, "export") /\ ~IsReference(w, "promise") /\ ~IsErrorTuple(w)
  BY <1>3 DEF IsReference, IsErrorTuple
<1>5. DecodeSpecial(w) = Only("$undefined", True)
  BY <1>3, <1>4, MarkerNames DEF DecodeSpecial
<1> QED
  BY <1>3, <1>5 DEF w

LEMMA ErrorMarkerDecodes ==
    ASSUME NEW name, NEW message, NEW v, v = ErrorMarker(name, message)
    PROVE  Tag(Devalued(v)) = "error" /\ DecodeSpecial(Devalued(v)) = v
<1> DEFINE e == Object([name |-> Str(name), message |-> Str(message)])
           w == Devalued(v)
<1>1. /\ \A t \in DOMAIN Marker : ~Holds(v, t)
      /\ ~IsSet(v, "$undefined") /\ Has(v, "$error") /\ v.fields["$error"] = e
  BY OnlyHas, MarkerNames DEF Holds, ErrorMarker, IsSet
<1>2. /\ e.kind = "object" /\ Has(e, "name") /\ Has(e, "message")
      /\ e.fields["name"] = Str(name) /\ e.fields["message"] = Str(message)
  BY DEF Object, Has
<1>3. w = Array(<<Str("error"), Str(name), Str(message)>>)
  <2> HIDE DEF e
  <2> QED
    BY <1>1, <1>2 DEF Devalued
<1> HIDE DEF e, w
<1>4. Tag(w) = "error"
  BY <1>3, TagOfArray
<1>5. Len(w.items) = 3 /\ w.items[2] = Str(name) /\ w.items[3] = Str(message)
  BY <1>3, Arrays
<1>6. ~IsReference(w, "export") /\ ~IsReference(w, "promise") /\ IsErrorTuple(w)
  BY <1>4, <1>5, Strings DEF IsReference, IsErrorTuple
<1>7. DecodeSpecial(w) = v
  BY <1>4, <1>5, <1>6, Strings, MarkerNames DEF DecodeSpecial
<1> QED
  BY <1>4, <1>7 DEF w

\* RpcClient gets back every value that is no marker, and every marker object that is
\* nothing else, escaped or not: unwrapArrayIfNeeded and decodeSpecial undo what
\* handlePull and the top of devaluateForResult did.
THEOREM ResultsRoundTrip ==
    ASSUME NEW v, Tag(v) \notin SpecialTags, Devalued(v) = Null \/ IsMarker(v)
    PROVE  LET sent == IF Devalued(v) = Null THEN v ELSE Devalued(v)
           IN  DecodeSpecial(UnwrapArrayIfNeeded(Framed(sent))) = v
<1> DEFINE sent == IF Devalued(v) = Null THEN v ELSE Devalued(v)
<1>1. DecodeSpecial(sent) = v
  <2>1. CASE Devalued(v) = Null
    BY <2>1, UntaggedIsNotDecoded
  <2>2. CASE Devalued(v) # Null /\ IsMarker(v)
    <3>1. DecodeSpecial(Devalued(v)) = v
      BY <2>2, PayloadMarkerDecodes, UndefinedDecodes, ErrorMarkerDecodes DEF IsMarker
    <3> QED
      BY <2>2, <3>1
  <2> QED
    BY <2>1, <2>2
<1> HIDE DEF sent
<1>2. UnwrapArrayIfNeeded(Framed(sent)) = sent
  BY FramedIsUnwrapped
<1> QED
  BY <1>1, <1>2 DEF sent

\* A target that a method returns becomes an export, which the client reads as a stub.
LEMMA TargetRoundTrip ==
    LET stub == Only("$export_target_ptr", Num(1))
    IN  /\ Tag(stub) = "" /\ stub # Thrown /\ Devalued(stub) # Thrown
        /\ DecodeSpecial(UnwrapArrayIfNeeded(Framed(Devalued(stub)))) = Only("$stub", Num(-1))
<1> DEFINE stub == Only("$export_target_ptr", Num(1))
           w == Devalued(stub)
<1>1. stub.kind = "object"
  BY DEF Only, Object
<1>2. HoldsNum(stub, "$export_target_ptr") /\ \A k : Has(stub, k) => k = "$export_target_ptr"
  BY OnlyHas DEF HoldsNum, IsNum, Num
<1> HIDE DEF stub, w
<1>3. Tag(stub) = "" /\ stub # Thrown
  BY <1>1 DEF Tag, IsArray, Thrown
<1>4. w = Array(<<Str("export"), Num(-1)>>)
  BY <1>2, MarkerNames DEF Devalued, Holds, HoldsNum, IsSet, w
<1>5. Tag(w) = "export" /\ Len(w.items) = 2 /\ w.items[2] = Num(-1)
  BY <1>4, TagOfArray, Arrays
<1>6. w # Thrown
  BY <1>4 DEF Array, Thrown
<1>7. IsReference(w, "export") /\ ~IsReference(w, "promise") /\ ~IsErrorTuple(w)
  BY <1>5 DEF IsReference, IsErrorTuple, IsNum, Num
<1>8. DecodeSpecial(w) = Only("$stub", Num(-1))
  BY <1>5, <1>7, MarkerNames DEF DecodeSpecial
<1> QED
  BY <1>3, <1>6, <1>8, FramedIsUnwrapped DEF stub, w

-----------------------------------------------------------------------------
(* An RpcClient's request, and what the server makes of it.                *)

MethodOf(r) == Head(r.frames[1].path.items).string
ArgumentsOf(r)   == r.frames[1].args

\* Its call passes a sample to echo, or has no arguments.
PassesSample(r) ==
    /\ r.passes \in Samples /\ r.wants = r.passes
    /\ MethodOf(r) = "echo" /\ ArgumentsOf(r) = Array(<<r.passes>>)

PassesNothing(r) ==
    /\ ArgumentsOf(r) = Array(<<>>)
    /\ \/ MethodOf(r) = "self" /\ r.wants = Only("$stub", Num(-1))
       \/ MethodOf(r) \in {"fail", "deep"} /\ r.wants = Thrown
       \/ MethodOf(r) = "echo" /\ r.id > 1

IsCall(r) ==
    /\ r.id \in Nat \ {0}
    /\ Len(r.frames) = 2
    /\ r.frames[1].type = "call"
    /\ r.frames[2] = Pull(r.id)
    /\ PassesSample(r) \/ PassesNothing(r)

Outcome(r) == Dispatch(MethodOf(r), ArgumentsOf(r))

\* The session once the call's line was handled: its outcome is recorded, or its
\* method threw what processTasks swallows.
HasOutcome(r) ==
    /\ DOMAIN session.results = {1} /\ DOMAIN session.operations = {}
    /\ session.results[1] = IF Outcome(r) = Thrown THEN MethodError ELSE Outcome(r)
IsPending(r) == session = Queued(Fresh, 1, MethodOf(r), ArgumentsOf(r))

\* What the call is to return if its answer arrives.
Expected(r) == IF r.wants = Thrown \/ r.id > 1 THEN Failed ELSE Returned(r.wants)

Answered == ParseResultFor(request.id, outbox) = Expected(request)

Untouched == taken = 0 /\ nextExportId = 1 /\ session = Fresh /\ outbox = <<>>

Pushed == taken = 1 /\ outbox = <<>> /\ (HasOutcome(request) \/ IsPending(request))

\* How far an RpcClient's request is.
Progress ==
    /\ IsCall(request)
    /\ status = "sent" => Untouched
    /\ status = "serving" => Untouched \/ Pushed \/ (taken = 2 /\ Answered)
    /\ status = "answered" => Answered
    /\ status = "done" => got \in {Lost, Expected(request)}

IInv ==
    /\ nextImportId \in Nat \ {0}
    /\ status \in {"idle", "sent", "serving", "answered", "done"}
    /\ status # "idle" /\ request.by = "rpcClient" /\ Flat(request.passes) => Progress

-----------------------------------------------------------------------------
(* What its method makes of the call, and how that is answered.            *)

\* The error tuple that handlePush and handlePull answer a throwing method with.
LEMMA MethodErrorIsRejected ==
    /\ Tag(MethodError) = "error" /\ Len(MethodError.items) = 3
    /\ MethodError # Thrown
    /\ FrameOf(MethodError) = [type |-> "reject", value |-> MethodError]
<1>1. MethodError = Array(<<Str("error"), Str("MethodError"), Str("what")>>)
  BY DEF MethodError, ErrorTuple
<1>2. Tag(MethodError) = "error" /\ Len(MethodError.items) = 3
  BY <1>1, TagOfArray, Arrays
<1>3. MethodError # Thrown
  BY <1>1 DEF Array, Thrown
<1> QED
  BY <1>2, <1>3 DEF FrameOf

LEMMA ThrownFrames == Tag(Thrown) = "" /\ Framed(Thrown) = Thrown
<1>1. Tag(Thrown) = ""
  BY DEF Tag, IsArray, Thrown
<1> QED
  BY <1>1 DEF Framed, WrapArrayIfNeeded, IsSpecialArray, SpecialTags, IsArray, Thrown

\* A call that is to return a value does, and its value is one the client reads back.
LEMMA GoodOutcome ==
    ASSUME NEW r, IsCall(r), Flat(r.passes), r.id = 1, r.wants # Thrown
    PROVE  LET sent == DevaluateForResult(Outcome(r))
           IN  /\ Outcome(r) # Thrown /\ Tag(Outcome(r)) # "error" /\ Framed(sent) # Thrown
               /\ sent # Thrown
               /\ DecodeSpecial(UnwrapArrayIfNeeded(Framed(sent))) = r.wants
<1> DEFINE v == Outcome(r)
           sent == DevaluateForResult(v)
<1>1. CASE PassesSample(r)
  <2>1. v = r.passes
    <3>1. ArgumentsOf(r).items = <<r.passes>> /\ IsArray(ArgumentsOf(r))
      BY <1>1, Arrays DEF PassesSample
    <3>2. Head(ArgumentsOf(r).items) = r.passes
      BY <3>1
    <3> QED
      BY <1>1, <3>1, <3>2, One DEF PassesSample, Outcome, Dispatch
  <2> HIDE DEF v
  <2>2. v # Thrown /\ v \in Samples /\ Tag(v) \notin SpecialTags
    BY <1>1, <2>1, ConversionsAssumption DEF PassesSample, Flat, Untagged
  <2>3. sent = IF Devalued(v) = Null THEN v ELSE Devalued(v)
    BY <2>1, <2>2, ConversionsAssumption DEF v
  <2>4. DecodeSpecial(UnwrapArrayIfNeeded(Framed(sent))) = v
    BY <2>1, <2>2, <2>3, ResultsRoundTrip DEF Flat
  <2>5. UnwrapArrayIfNeeded(Framed(sent)) = sent /\ DecodeSpecial(Thrown) = Thrown
    BY FramedIsUnwrapped, UntaggedIsNotDecoded, ThrownFrames DEF SpecialTags
  <2>6. sent # Thrown
    BY <2>2, <2>4, <2>5
  <2>7. Framed(sent) # Thrown
    BY <2>6 DEF Framed, WrapArrayIfNeeded, Array, Thrown
  <2> QED
    BY <1>1, <2>1, <2>2, <2>4, <2>6, <2>7 DEF PassesSample, SpecialTags, v
<1>2. CASE PassesNothing(r)
  <2>1. MethodOf(r) = "self" /\ r.wants = Only("$stub", Num(-1)) /\ ArgumentsOf(r) = Array(<<>>)
    BY <1>2 DEF PassesNothing
  <2>2. v = Only("$export_target_ptr", Num(1))
    BY <2>1 DEF Outcome, Dispatch
  <2>3. sent = Devalued(v)
    BY <2>2, ConversionsAssumption DEF Dispatch
  <2> HIDE DEF v, sent
  <2>4. Framed(sent) # Thrown
    BY <2>2, <2>3, TargetRoundTrip DEF Framed, WrapArrayIfNeeded, Array, Thrown
  <2> QED
    BY <2>1, <2>2, <2>3, <2>4, TargetRoundTrip DEF v, sent
<1> QED
  BY <1>1, <1>2 DEF IsCall

\* A call that is to fail throws, or returns what nests too deep to be sent.
LEMMA BadOutcome ==
    ASSUME NEW r, IsCall(r), r.id = 1, r.wants = Thrown
    PROVE  Outcome(r) = Thrown \/ DevaluateForResult(Outcome(r)) = Thrown
<1>1. ~PassesSample(r)
  BY ConversionsAssumption DEF PassesSample
<1>2. ArgumentsOf(r) = Array(<<>>) /\ MethodOf(r) \in {"fail", "deep"}
  <2>1. Only("$stub", Num(-1)) # Thrown
    BY DEF Only, Object, Thrown
  <2> QED
    BY <1>1, <2>1 DEF IsCall, PassesNothing
<1>3. CASE MethodOf(r) = "fail"
  BY <1>2, <1>3 DEF Outcome, Dispatch
<1>4. CASE MethodOf(r) = "deep"
  BY <1>2, <1>4, ConversionsAssumption DEF Outcome
<1> QED
  BY <1>2, <1>3, <1>4

\* The frames of a batch that answers one pull are that answer and releases, so the
\* client finds it.
LEMMA AnswerIsParsed ==
    ASSUME NEW id, NEW answer, answer.id = id, outbox = <<>>
    PROVE  LET lines == Append(outbox, answer) \o Releases(id)
           IN  /\ answer.type = "reject" => ParseResultFor(id, lines) = Failed
               /\ answer.type = "resolve" =>
                      ParseResultFor(id, lines) =
                          Returned(DecodeSpecial(UnwrapArrayIfNeeded(answer.value)))
<1> SUFFICES ASSUME answer.type \in {"resolve", "reject"}
             PROVE  ParseResultFor(id, Append(outbox, answer) \o Releases(id)) =
                        IF answer.type = "reject" THEN Failed
                        ELSE Returned(DecodeSpecial(UnwrapArrayIfNeeded(answer.value)))
  OBVIOUS
<1> DEFINE lines == Append(outbox, answer) \o Releases(id)
<1>1. 1 \in DOMAIN lines /\ lines[1] = answer /\ \A k \in DOMAIN lines : k >= 1
  BY DEF Releases
<1>2. 1 \in AnswersTo(id, lines) /\ \A j \in AnswersTo(id, lines) : 1 <= j
  BY <1>1 DEF AnswersTo
<1>3. \A k \in AnswersTo(id, lines) :
          (\A j \in AnswersTo(id, lines) : k <= j) => k = 1
  BY <1>1, <1>2 DEF AnswersTo
<1>4. FirstAnswer(id, lines) = answer
  BY <1>1, <1>2, <1>3 DEF FirstAnswer
<1> QED
  BY <1>2, <1>4 DEF ParseResultFor

\* A reject is what the client expects of every call but a good one.
LEMMA Rejected ==
    ASSUME NEW answer, answer.type = "reject", answer.id = request.id,
           request.wants = Thrown \/ request.id > 1, outbox = <<>>,
           outbox' = Append(outbox, answer) \o Releases(request.id), UNCHANGED request
    PROVE  Answered'
<1>1. ParseResultFor(request.id, outbox') = Failed
  BY AnswerIsParsed
<1> QED
  BY <1>1 DEF Answered, Expected

-----------------------------------------------------------------------------
(* The invariant is inductive.                                             *)

LEMMA InitIInv == Init => IInv
  BY DEF Init, IInv

\* Every call of an RpcClient starts as a call.
LEMMA RequestStarts ==
    ASSUME nextImportId \in Nat \ {0}, NEW subject, NEW method, NEW args, NEW passes, NEW wants,
           RpcCall(subject, Method(method), args, passes, wants)
    PROVE  /\ request'.id = nextImportId
           /\ Len(request'.frames) = 2 /\ request'.frames[1].type = "call"
           /\ request'.frames[2] = Pull(request'.id)
           /\ MethodOf(request') = method /\ ArgumentsOf(request') = args
           /\ request'.passes = passes /\ request'.wants = wants
           /\ status' = "sent" /\ Untouched' /\ nextImportId' \in Nat \ {0}
<1> DEFINE call == Call(subject, Method(method), args)
<1>1. request' = [by |-> "rpcClient", id |-> nextImportId,
                  frames |-> <<call, Pull(nextImportId)>>, passes |-> passes, wants |-> wants]
  BY DEF RpcCall, SendBatch
<1>2. call.type = "call" /\ call.args = args /\ call.path = Method(method)
  BY DEF Call
<1> HIDE DEF call
<1>3. /\ request'.id = nextImportId /\ request'.passes = passes /\ request'.wants = wants
      /\ request'.frames = <<call, Pull(nextImportId)>>
  BY <1>1
<1>4. /\ Len(request'.frames) = 2 /\ request'.frames[1] = call
      /\ request'.frames[2] = Pull(nextImportId)
  BY <1>3
<1>5. Head(Method(method).items).string = method
  <2>1. Method(method).items = <<Str(method)>>
    BY Arrays DEF Method
  <2>2. Head(<<Str(method)>>) = Str(method)
    OBVIOUS
  <2> QED
    BY <2>1, <2>2, Strings
<1>6. status' = "sent" /\ Untouched' /\ nextImportId' \in Nat \ {0}
  BY DEF RpcCall, SendBatch, Cleared, Allocate, Untouched
<1> QED
  BY <1>2, <1>3, <1>4, <1>5, <1>6 DEF MethodOf, ArgumentsOf

LEMMA CallsStart ==
    ASSUME IInv,
           \/ \E v \in Samples : CallMethod(v) \/ CallStubMethod(v)
           \/ CallThrowing("fail") \/ CallThrowing("deep") \/ CallForStub \/ GetStubProperty
    PROVE  IInv'
<1>1. nextImportId \in Nat \ {0}
  BY DEF IInv
<1>2. SUFFICES nextImportId' \in Nat \ {0} /\ status' = "sent" /\ IsCall(request') /\ Untouched'
  BY DEF IInv, Progress
<1>3. ASSUME NEW v \in Samples, CallMethod(v) \/ CallStubMethod(v)
      PROVE  nextImportId' \in Nat \ {0} /\ status' = "sent" /\ IsCall(request') /\ Untouched'
  BY <1>1, <1>3, RequestStarts DEF CallMethod, CallStubMethod, IsCall, PassesSample
<1>4. ASSUME NEW m \in {"fail", "deep"}, CallThrowing(m)
      PROVE  nextImportId' \in Nat \ {0} /\ status' = "sent" /\ IsCall(request') /\ Untouched'
  BY <1>1, <1>4, RequestStarts DEF CallThrowing, IsCall, PassesNothing
<1>5. CASE CallForStub
  BY <1>1, <1>5, RequestStarts DEF CallForStub, IsCall, PassesNothing
<1>6. CASE GetStubProperty
  BY <1>1, <1>6, RequestStarts DEF GetStubProperty, IsCall, PassesNothing
<1> QED
  BY <1>3, <1>4, <1>5, <1>6

\* The call's line leaves its outcome recorded or its operation waiting.
LEMMA TakeCallPushes ==
    ASSUME Progress, Flat(request.passes), status = "serving", TakeCall
    PROVE  Progress'
<1>1. IsCall(request) /\ taken < Len(request.frames) /\ Line.type = "call"
  BY DEF Progress, TakeCall, TakeLine
<1>2. Untouched
  <2>1. taken # 2
    BY <1>1 DEF IsCall
  <2>2. ~Pushed
    BY <1>1 DEF Pushed, Line, IsCall, Pull
  <2> QED
    BY <2>1, <2>2 DEF Progress
<1>3. Line = request.frames[1]
  BY <1>2 DEF Line, Untouched
<1> DEFINE m == MethodOf(request)
           args == ArgumentsOf(request)
           q == Queued(Fresh, 1, m, args)
           run == Run(m, EvaluateValue(args, q))
<1>4. Recorded(run, 1)
  BY <1>2, <1>3 DEF TakeCall, Untouched, MethodOf, ArgumentsOf
<1>5. Arrives(m, args) /\ args # Thrown
  <2>1. CASE PassesSample(request)
    BY <2>1, ConversionsAssumption DEF PassesSample, Array, Thrown
  <2>2. CASE PassesNothing(request)
    BY <2>2, ConversionsAssumption DEF PassesNothing, Array, Thrown
  <2> QED
    BY <1>1, <2>1, <2>2 DEF IsCall
<1>6. run.json = Outcome(request) /\ run.env = q
  BY <1>5 DEF Arrives, Run, Ret, Outcome
<1>7. /\ DOMAIN q.results = {} /\ DOMAIN q.operations = {1}
      /\ DOMAIN q = {"results", "operations", "ran", "called"}
  BY DEF Queued, Fresh, With
<1> HIDE DEF run, q
<1>8. HasOutcome(request)' \/ IsPending(request)'
  <2>1. CASE session' = [run.env EXCEPT
           !.results = With(@, 1, IF run.json = Thrown THEN MethodError ELSE run.json),
           !.operations = Without(@, 1)]
    <3>1. /\ session'.results = With(q.results, 1, IF Outcome(request) = Thrown
                                                   THEN MethodError ELSE Outcome(request))
          /\ session'.operations = Without(q.operations, 1)
      BY <2>1, <1>6, <1>7
    <3>2. request' = request
      BY DEF TakeCall, TakeLine
    <3> QED
      BY <3>1, <3>2, <1>7 DEF HasOutcome, With, Without
  <2>2. CASE session' = run.env
    BY <2>2, <1>6 DEF IsPending, q, TakeCall, TakeLine
  <2> QED
    BY <1>4, <2>1, <2>2 DEF Recorded
<1> QED
  BY <1>1, <1>2, <1>8 DEF TakeCall, TakeLine, Progress, Pushed, Untouched

\* The pull's line is answered with what the client expects.
LEMMA PullAnswers ==
    ASSUME Progress, Flat(request.passes), status = "serving",
           PullResult \/ PullUndeliverable \/ PullOperation \/ PullNotFound
    PROVE  Progress'
<1>1. IsCall(request) /\ request' = request /\ taken < Len(request.frames) /\ Line.type = "pull"
      /\ taken' = taken + 1
  BY DEF Progress, PullResult, PullUndeliverable, PullOperation, PullNotFound, TakeLine
<1>2. Pushed
  <2>1. taken # 2
    BY <1>1 DEF IsCall
  <2>2. ~Untouched
    BY <1>1 DEF Untouched, Line, IsCall
  <2> QED
    BY <2>1, <2>2 DEF Progress
<1>3. Line = Pull(request.id) /\ Line.id = request.id
  <2>1. Line = request.frames[2]
    BY <1>2 DEF Line, Pushed
  <2> QED
    BY <1>1, <2>1 DEF IsCall, Pull
<1>4. taken' = 2 /\ outbox = <<>> /\ (HasOutcome(request) \/ IsPending(request))
  BY <1>1, <1>2 DEF Pushed
<1>5. DOMAIN session.results \cup DOMAIN session.operations = {1}
  <2>1. CASE HasOutcome(request)
    BY <2>1 DEF HasOutcome
  <2>2. CASE IsPending(request)
    BY <2>2 DEF IsPending, Queued, Fresh, With
  <2> QED
    BY <1>4, <2>1, <2>2
<1> DEFINE v == Outcome(request)
           sent == DevaluateForResult(v)
<1>6. CASE PullNotFound
  <2>1. request.id > 1
    BY <1>1, <1>3, <1>5, <1>6 DEF PullNotFound, IsCall
  <2> DEFINE answer == Answer("reject", request.id, ErrorTuple("ExportNotFound", "what"))
  <2>2. outbox' = Append(outbox, answer) \o Releases(request.id) /\ status' = status
    BY <1>3, <1>6 DEF PullNotFound, Respond
  <2>3. answer.type = "reject" /\ answer.id = request.id
    BY DEF Answer
  <2> HIDE DEF answer
  <2>4. Answered'
    BY <1>1, <1>4, <2>1, <2>2, <2>3, Rejected
  <2> QED
    BY <1>1, <1>4, <2>2, <2>4 DEF Progress
<1>7. CASE PullResult \/ PullUndeliverable
  <2>1. request.id = 1 /\ HasOutcome(request)
    <3>1. request.id \in DOMAIN session.results
      BY <1>3, <1>7 DEF PullResult, PullUndeliverable
    <3> QED
      BY <1>4, <1>5, <3>1 DEF IsPending, Queued, Fresh
  <2> DEFINE result == IF v = Thrown THEN MethodError ELSE v
             frame  == FrameOf(result)
  <2>2. session.results[Line.id] = result
    BY <1>3, <2>1 DEF HasOutcome
  <2>3. request.wants # Thrown =>
            /\ frame.type = "resolve" /\ frame.value # Thrown
            /\ DecodeSpecial(UnwrapArrayIfNeeded(frame.value)) = request.wants
    <3> SUFFICES ASSUME request.wants # Thrown
                 PROVE  /\ frame.type = "resolve" /\ frame.value # Thrown
                        /\ DecodeSpecial(UnwrapArrayIfNeeded(frame.value)) = request.wants
      OBVIOUS
    <3>1. /\ v # Thrown /\ Tag(v) # "error" /\ Framed(sent) # Thrown
          /\ DecodeSpecial(UnwrapArrayIfNeeded(Framed(sent))) = request.wants
      BY <1>1, <2>1, GoodOutcome
    <3> HIDE DEF v
    <3>2. frame = [type |-> "resolve", value |-> Framed(sent)]
      BY <3>1 DEF FrameOf
    <3> QED
      BY <3>1, <3>2
  <2>4. request.wants = Thrown => frame.type = "reject" \/ frame.value = Thrown
    <3> SUFFICES ASSUME request.wants = Thrown
                 PROVE  frame.type = "reject" \/ frame.value = Thrown
      OBVIOUS
    <3>1. v = Thrown \/ sent = Thrown
      BY <1>1, <2>1, BadOutcome
    <3> HIDE DEF v
    <3> QED
      BY <3>1, MethodErrorIsRejected, ThrownFrames DEF FrameOf
  <2> HIDE DEF v, frame
  <2>5. CASE PullResult
    <3> DEFINE answer == Answer(frame.type, request.id, frame.value)
    <3>1. /\ frame.value # Thrown
          /\ outbox' = Append(outbox, answer) \o Releases(request.id) /\ status' = status
      BY <1>3, <2>2, <2>5 DEF PullResult, Respond, frame
    <3>2. answer.type = frame.type /\ answer.id = request.id /\ answer.value = frame.value
      BY DEF Answer
    <3> HIDE DEF answer
    <3>3. Answered'
      <4>1. CASE request.wants = Thrown
        BY <1>1, <1>4, <2>4, <3>1, <3>2, <4>1, Rejected
      <4>2. CASE request.wants # Thrown
        <5>1. ParseResultFor(request.id, outbox') = Returned(request.wants)
          BY <1>4, <2>3, <3>1, <3>2, <4>2, AnswerIsParsed
        <5> QED
          BY <1>1, <2>1, <4>2, <5>1 DEF Answered, Expected
      <4> QED
        BY <4>1, <4>2
    <3> QED
      BY <1>1, <1>4, <3>1, <3>3 DEF Progress
  <2>6. CASE PullUndeliverable
    <3>1. frame.value = Thrown
      BY <2>2, <2>6 DEF PullUndeliverable, frame
    <3>2. request.wants = Thrown
      BY <2>3, <3>1
    <3>3. outbox' = << [type |-> "error500"] >> /\ status' = "answered"
      BY <2>6 DEF PullUndeliverable
    <3>4. AnswersTo(request.id, outbox') = {}
      BY <3>3 DEF AnswersTo
    <3>5. Answered'
      BY <1>1, <3>2, <3>4 DEF Answered, ParseResultFor, Expected
    <3> QED
      BY <1>1, <1>4, <3>3, <3>5 DEF Progress
  <2> QED
    BY <1>7, <2>5, <2>6
<1>8. CASE PullOperation
  <2>1. request.id = 1 /\ IsPending(request)
    <3>1. request.id \in DOMAIN session.operations
      BY <1>3, <1>8 DEF PullOperation
    <3> QED
      BY <1>4, <1>5, <3>1 DEF HasOutcome
  <2>2. /\ session.operations[1].method = MethodOf(request)
        /\ session.operations[1].args = ArgumentsOf(request)
    BY <2>1 DEF IsPending, Queued, Fresh, With
  <2>3. /\ EvaluateValue(ArgumentsOf(request), session) = Ret(ArgumentsOf(request), session)
        /\ ArgumentsOf(request) # Thrown
    <3>1. Arrives(MethodOf(request), ArgumentsOf(request)) /\ ArgumentsOf(request) # Thrown
      BY <1>1, ConversionsAssumption DEF IsCall, PassesSample, PassesNothing, Array, Thrown
    <3> QED
      BY <2>1, <3>1 DEF Arrives, IsPending
  <2> DEFINE run  == Run(MethodOf(request), EvaluateValue(ArgumentsOf(request), session))
             late == IF run.json = Thrown THEN Thrown ELSE DevaluateForResult(run.json)
             answer == IF late = Thrown THEN Answer("reject", request.id, MethodError)
                       ELSE Answer("resolve", request.id, Framed(late))
  <2>4. run.json = v
    BY <2>3 DEF Run, Ret, Outcome
  <2>5. outbox' = Append(outbox, answer) \o Releases(request.id) /\ status' = status
    BY <1>3, <1>8, <2>1, <2>2 DEF PullOperation, RespondLate, AnswerLate, Respond
  <2> HIDE DEF v, run
  <2>6. late = IF v = Thrown THEN Thrown ELSE sent
    BY <2>4
  <2> HIDE DEF late
  <2>7. /\ answer.id = request.id
        /\ answer.type = (IF late = Thrown THEN "reject" ELSE "resolve")
        /\ late # Thrown => answer.value = Framed(late)
    BY DEF Answer
  <2> HIDE DEF answer
  <2>8. Answered'
    <3>1. CASE request.wants = Thrown
      <4>1. late = Thrown
        BY <1>1, <2>1, <2>6, <3>1, BadOutcome DEF v
      <4> QED
        BY <1>1, <1>4, <2>5, <2>7, <3>1, <4>1, Rejected
    <3>2. CASE request.wants # Thrown
      <4>1. /\ v # Thrown /\ sent # Thrown
            /\ DecodeSpecial(UnwrapArrayIfNeeded(Framed(sent))) = request.wants
        BY <1>1, <2>1, <3>2, GoodOutcome DEF v
      <4>2. answer.type = "resolve" /\ answer.value = Framed(sent)
        BY <2>6, <2>7, <4>1
      <4>3. ParseResultFor(request.id, outbox') = Returned(request.wants)
        BY <1>4, <2>5, <2>7, <4>1, <4>2, AnswerIsParsed
      <4> QED
        BY <1>1, <2>1, <3>2, <4>3 DEF Answered, Expected
    <3> QED
      BY <3>1, <3>2
  <2> QED
    BY <1>1, <1>4, <2>5, <2>8 DEF Progress
<1> QED
  BY <1>6, <1>7, <1>8

\* A batch of an RpcClient's has no remap.
LEMMA ServeKeepsProgress ==
    ASSUME Progress, Flat(request.passes), Serve
    PROVE  Progress'
<1>1. CASE StartServing
  BY <1>1 DEF StartServing, Progress, Untouched, server
<1>2. CASE TakeCall
  BY <1>2, TakeCallPushes DEF TakeCall, TakeLine
<1>3. ~TakeRemap
  <2> SUFFICES ASSUME TakeRemap PROVE FALSE
    OBVIOUS
  <2>1. /\ status = "serving" /\ taken < 2 /\ request.frames[taken + 1].type = "remap"
        /\ IsCall(request)
    BY DEF TakeRemap, TakeLine, Line, Progress, IsCall
  <2>2. taken = 0 \/ taken = 1
    BY <2>1 DEF Progress, Untouched, Pushed
  <2> QED
    BY <2>1, <2>2 DEF IsCall, Pull
<1>4. CASE PullResult \/ PullUndeliverable \/ PullOperation \/ PullNotFound
  BY <1>4, PullAnswers DEF PullResult, PullUndeliverable, PullOperation, PullNotFound, TakeLine
<1>5. CASE EndBatch
  <2>1. taken = 2 /\ Answered
    BY <1>5 DEF EndBatch, Progress, IsCall, Untouched, Pushed
  <2> QED
    BY <1>5, <2>1 DEF EndBatch, Progress, Answered, server
<1> QED
  BY <1>1, <1>2, <1>3, <1>4, <1>5 DEF Serve

LEMMA NextIInv ==
    ASSUME IInv, [Next]_vars
    PROVE  IInv'
<1> DEFINE Mine == request.by = "rpcClient" /\ Flat(request.passes)
<1>1. CASE \/ \E v \in Samples : CallMethod(v) \/ CallStubMethod(v)
           \/ CallThrowing("fail") \/ CallThrowing("deep") \/ CallForStub \/ GetStubProperty
  BY <1>1, CallsStart
<1>2. ASSUME NEW v \in Samples, NEW shape \in Shapes, JsBatch(shape, v)
      PROVE  IInv'
  BY <1>2 DEF JsBatch, SendBatch, IInv
<1>3. CASE Serve
  <2>1. /\ request' = request /\ nextImportId' = nextImportId
        /\ status' \in {"serving", "answered"} /\ status # "idle"
    BY <1>3 DEF Serve, StartServing, TakeCall, TakeRemap, PullResult, PullUndeliverable,
                PullOperation, PullNotFound, TakeLine, Respond, EndBatch, RespondLate, AnswerLate
  <2>2. CASE Mine
    BY <1>3, <2>1, <2>2, ServeKeepsProgress DEF IInv
  <2>3. CASE ~Mine
    BY <2>1, <2>3 DEF IInv
  <2> QED
    BY <2>2, <2>3
<1>4. CASE Receive
  BY <1>4 DEF Receive, IInv, Progress, Answered
<1>5. CASE Lose
  BY <1>5 DEF Lose, IInv, Progress
<1>6. CASE Return
  BY <1>6 DEF Return, IInv
<1>7. CASE UNCHANGED vars
  BY <1>7 DEF vars, server, IInv, Progress, Untouched, Pushed, HasOutcome, IsPending, Answered
<1> QED
  BY <1>1, <1>2, <1>3, <1>4, <1>5, <1>6, <1>7 DEF Next

LEMMA IInvImplies == IInv => OnlyFirstCallsReturn
  BY DEF IInv, Progress, Expected, OnlyFirstCallsReturn, Ended

\* Over HTTP an RpcClient's first call returns what its method returned and every later
\* one fails, however the server's microtasks end, frames are lost or JavaScript clients
\* use the server in between.
THEOREM FirstCallsReturn == Spec => []OnlyFirstCallsReturn
<1>1. Init => IInv
  BY InitIInv
<1>2. IInv /\ [Next]_vars => IInv'
  BY NextIInv
<1>3. IInv => OnlyFirstCallsReturn
  BY IInvImplies
<1> QED
  BY <1>1, <1>2, <1>3, PTL DEF Spec
=============================================================================
