---------------------------- MODULE MCHttpBatch ----------------------------
(* HttpBatch with the conversions of Values, on a sample of every form of   *)
(* value, alone and inside others.                                         *)
EXTENDS HttpBatch, Values

MCEvaluateValue(x, env)  == Evaluate(x, env, "plain")
MCEvaluateRemap(x, env)  == Remap(x, env, "caller")
MCDevaluateForResult(v)  == Devaluate(v, 0)
MCJsToWire(v)            == JsDevaluate(v, 0)

Leaves  == {Num(1), Null, Str("x"), Str("undefined"), Str("value")}
Markers == {Only("$bigint", Str("1")), Only("$date", Num(1)), Only("$bytes", Str("AA")),
            Only("$undefined", True), ErrorMarker("Error", "m"),
            Only("$stub", Num(-1)), Only("$promise_stub", Num(-1))}
Atoms   == Leaves \cup Markers
Pairs   == {Object([a |-> v, b |-> w]) : v, w \in {Num(1), Only("$bigint", Str("1"))}}
Arrays  == {Array(<<>>)} \cup {Array(<<v>>) : v \in Leaves}
           \cup {Array(<<Array(<<v>>)>>) : v \in Leaves}
           \cup {Array(<<Str("error"), Str("x")>>), Array(<<Num(1), Null>>)}

MCSamples == Atoms \cup Pairs \cup Arrays
             \cup {Only("a", v) : v \in Atoms \cup Arrays}
             \cup {Only("a", Only("b", v)) : v \in Atoms}
             \cup {Only("a", Only("b", Only("c", v))) : v \in Atoms}

\* Data only: no capability.
PlainSamples == LET plain == {Num(1), Str("x"), Array(<<Num(1)>>)}
                IN  plain \cup {Only("a", v) : v \in plain}
=============================================================================
