------------------------------- MODULE Values -------------------------------
(***************************************************************************)
(* The conversions that walk a value: what the evaluator makes of a        *)
(* received expression, what the devaluator makes of a result              *)
(* (src/serialize.cpp), and the JavaScript client's own (dist/index.js).   *)
(*                                                                         *)
(* Abstractions.  Those of Wire.  A remap expression is a record of its    *)
(* own, with one record per instruction; a malformed instruction has op    *)
(* "other".                                                                *)
(***************************************************************************)
EXTENDS Wire, SequencesExt

RECURSIVE Depth(_)
Depth(v) == IF Children(v) = {} THEN 0
            ELSE LET depths == {Depth(child) : child \in Children(v)}
                 IN  1 + CHOOSE d \in depths : \A e \in depths : e <= d

RECURSIVE Within(_)
\* Every value inside a value, itself included.
Within(v) == {v} \cup UNION {Within(child) : child \in Children(v)}

-----------------------------------------------------------------------------
(* devaluateForResult.                                                     *)

\* Nested arrays stay as they are: nothing escapes them.
RECURSIVE Devaluate(_, _)
Devaluate(v, depth) ==
    IF v.kind \notin {"array", "object"} THEN v
    ELSE IF depth > MaxDepth THEN Thrown
    ELSE IF Devalued(v) # Null THEN Devalued(v)
    ELSE Rebuilt(v, LAMBDA child : Devaluate(child, depth + 1))

-----------------------------------------------------------------------------
(* Evaluator.  "env" is what its callbacks reach: the results and the       *)
(* operations of earlier pushes, the references "ran" early and the client  *)
(* exports "called".  Mode "plain" is evaluateValue, mode "caller" is       *)
(* evaluateValueWithCaller.                                                 *)


\* Exporter::cacheResult.
Cache(env, id, result) ==
    [env EXCEPT !.results = [i \in DOMAIN @ \cup {id} |-> IF i = id THEN result ELSE @[i]],
                !.operations = [i \in DOMAIN @ \ {id} |-> @[i]]]

IsValidPath(path) ==
    IsArray(path) /\ \A i \in DOMAIN path.items : IsStr(path.items[i]) \/ IsNum(path.items[i])

TraversePath(v, path) == IF IsArray(path) THEN FoldLeft(Property, v, path.items) ELSE v

\* Keys an object loses on the way in.
Dropped == {"__proto__", "toJSON"}

RECURSIVE Evaluate(_, _, _)

Collect(done, one) ==
    Ret(IF one.json = Thrown THEN Thrown ELSE Array(Append(done.json.items, one.json)), one.env)

\* The values of a sequence in order, until one throws.
EvaluateAll(xs, env, mode) ==
    FoldLeft(LAMBDA done, x : IF done.json = Thrown THEN done
                              ELSE Collect(done, Evaluate(x, done.env, mode)),
             Ret(Array(<<>>), env), xs)

Named(all, keys, kept) ==
    Ret(IF all.json = Thrown THEN Thrown
        ELSE Object([k \in kept |-> all.json.items[CHOOSE i \in DOMAIN keys : keys[i] = k]]),
        all.env)

ByKey(x, keys, kept, env, mode) ==
    Named(EvaluateAll([i \in DOMAIN keys |-> x.fields[keys[i]]], env, mode), keys, kept)

\* The fields of an object, of which the keys in "kept" remain.
EvaluateFields(x, kept, env, mode) == ByKey(x, SetToSeq(DOMAIN x.fields), kept, env, mode)

\* The path of a reference is looked at last.
Read(v, path, env, mode) ==
    Ret(IF mode = "plain" /\ ~IsValidPath(path) THEN Thrown ELSE TraversePath(v, path), env)

\* The operation of a reference, run early; "ran" notes that it was dispatched.
RunEarly(id, method, args) ==
    Run(method, IF args.json = Thrown THEN args
                ELSE [args EXCEPT !.env.ran = Append(@, id)])

Keep(run, id, path, mode) ==
    IF run.json = Thrown THEN run
    ELSE Read(run.json, path, Cache(run.env, id, run.json), mode)

\* ["pipeline", id, path]: the result of an earlier push, which is run now, and
\* kept, if it still is an operation.
Reference(id, path, env, mode) ==
    CASE id \in DOMAIN env.results    -> Read(env.results[id], path, env, mode)
      [] id \in DOMAIN env.operations ->
             LET op == env.operations[id]
             IN  Keep(RunEarly(id, op.method, Evaluate(op.args, env, mode)), id, path, mode)
      [] OTHER -> Ret(Thrown, env)

CallBack(id, args) ==
    IF args.json = Thrown THEN args
    ELSE Ret(Array(<<Str("promise"), Num(-1)>>), [args.env EXCEPT !.called = Append(@, id)])

\* A property read has no arguments.
ArgsOf(ins, env, mode) ==
    IF ins.op = "get" THEN Ret(Null, env) ELSE Evaluate(ins.args, env, mode)

\* A call or a property read on a captured import (the main target's method, the
\* import's result) or on a captured export of the client (a call back to it).
OnCapture(cap, ins, env, mode) ==
    CASE ~cap.import /\ mode = "plain" -> Ret(Thrown, env)
      [] ~cap.import /\ mode = "caller" -> CallBack(cap.id, ArgsOf(ins, env, mode))
      [] cap.import /\ ins.op = "get" -> Reference(cap.id, ins.path, env, mode)
      [] OTHER -> Run(Head(ins.path.items).string, ArgsOf(ins, env, mode))

Instruction(ins, variables, captures, env, mode) ==
    CASE ins.op \in {"pipeline", "get"} /\ ins.subject >= 0 ->
             Ret(IF ins.subject < Len(variables)
                 THEN TraversePath(variables[ins.subject + 1], ins.path) ELSE Thrown, env)
      [] ins.op \in {"pipeline", "get"} /\ -ins.subject \in DOMAIN captures ->
             OnCapture(captures[-ins.subject], ins, env, mode)
      [] ins.op = "array"            -> EvaluateAll(ins.of.items, env, mode)
      [] ins.op = "object"           -> EvaluateFields(ins.of, DOMAIN ins.of.fields, env, mode)
      [] ins.op \in {"value", "remap"} -> Evaluate(ins.of, env, mode)
      [] OTHER -> Ret(Thrown, env)

AddVariable(run, one) == Ret(Append(run.json, one.json), one.env)
Value(run)            == Ret(Last(run.json), run.env)

\* The input and then each instruction define one variable; the last is the value.
\* A base that cannot be read counts as null.
RemapOver(base, x, mode) ==
    Value(FoldLeft(LAMBDA run, ins :
                       IF Last(run.json) = Thrown THEN run
                       ELSE AddVariable(run, Instruction(ins, run.json, x.captures, run.env, mode)),
                   Ret(<<IF base.json = Thrown THEN Null ELSE base.json>>, base.env), x.instrs))

Remap(x, env, mode) == RemapOver(Reference(x.base, x.path, env, mode), x, mode)

TooDeep(x, mode) == mode = "plain" /\ Depth(x) > MaxDepth

Evaluate(x, env, mode) ==
    CASE TooDeep(x, mode) -> Ret(Thrown, env)
      [] x.kind = "object" -> EvaluateFields(x, DOMAIN x.fields \ Dropped, env, mode)
      [] x.kind = "remap" -> Remap(x, env, mode)
      [] Tag(x) = "value" -> IF Len(x.items) = 2 THEN Evaluate(x.items[2], env, mode)
                             ELSE Ret(Thrown, env)
      [] Tag(x) \in DOMAIN Marker /\ Len(x.items) >= 2 /\ Fits(Tag(x), x.items[2]) ->
             Ret(Only(Marker[Tag(x)], x.items[2]), env)
      [] Tag(x) = "undefined" -> Ret(Only("$undefined", True), env)
      [] IsErrorTuple(x) -> Ret(ErrorMarker(x.items[2].string, x.items[3].string), env)
      [] mode = "plain" /\ IsReference(x, "export")  -> Ret(Only("$stub", x.items[2]), env)
      [] mode = "plain" /\ IsReference(x, "promise") -> Ret(Only("$promise_stub", x.items[2]), env)
      [] IsReference(x, "pipeline") ->
             Reference(x.items[2].number,
                       IF Len(x.items) >= 3 THEN x.items[3] ELSE Array(<<>>), env, mode)
      [] IsArray(x) -> EvaluateAll(x.items, env, mode)
      [] OTHER -> Ret(x, env)

-----------------------------------------------------------------------------
(* The JavaScript client.  A value of its application is written as the C++ *)
(* side would hold it: a stub of its own is a "$stub", one of the server's a *)
(* "$server_stub".  A marker object that reaches it is a plain object.      *)

RECURSIVE JsDevaluate(_, _)
JsDevaluate(v, depth) ==
    CASE depth >= MaxDepth     -> Thrown
      [] Has(v, "$stub")        -> Array(<<Str("export"), v.fields["$stub"]>>)
      [] Has(v, "$server_stub") -> Array(<<Str("import"), v.fields["$server_stub"]>>)
      [] Devalued(v) # Null    -> Devalued(v)
      [] IsArray(v)            -> LET items == Rebuilt(v, LAMBDA c : JsDevaluate(c, depth + 1))
                                  IN  IF items = Thrown THEN Thrown ELSE Array(<<items>>)
      [] OTHER                 -> Rebuilt(v, LAMBDA c : JsDevaluate(c, depth + 1))

RECURSIVE JsEvaluate(_)
JsEvaluate(x) ==
    CASE IsArray(x) /\ Len(x.items) = 1 /\ IsArray(x.items[1]) ->
             Rebuilt(x.items[1], JsEvaluate)
      [] Tag(x) \in DOMAIN Marker /\ Len(x.items) >= 2 /\ Fits(Tag(x), x.items[2]) ->
             Only(Marker[Tag(x)], x.items[2])
      [] Tag(x) = "undefined" /\ Len(x.items) = 1 -> Only("$undefined", True)
      [] IsErrorTuple(x) -> ErrorMarker(x.items[2].string, x.items[3].string)
      [] IsReference(x, "import")  -> Only("$stub", x.items[2])
      [] IsReference(x, "export")  -> Only("$server_stub", x.items[2])
      [] IsReference(x, "promise") -> Only("$server_promise", x.items[2])
      [] IsArray(x) -> Thrown
      [] Devalued(x) # Null -> [kind |-> "plain", of |-> x]
      [] x.kind = "object" ->
             LET all == Rebuilt(x, JsEvaluate)
             IN  IF all = Thrown THEN Thrown
                 ELSE Object([k \in DOMAIN x.fields \ Dropped |-> all.fields[k]])
      [] OTHER -> x
=============================================================================
