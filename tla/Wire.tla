-------------------------------- MODULE Wire --------------------------------
(***************************************************************************)
(* JSON values, the tagged arrays of the wire and the marker objects that  *)
(* stand for them in C++, and the conversions that look at the top of a    *)
(* value only (src/serialize.cpp, client_api.h).  Values has those that    *)
(* walk a whole value.                                                     *)
(*                                                                         *)
(* Abstractions.  A JSON value is a tree of records.  An exception is the  *)
(* value Thrown.  At most one capability is exported per value, as id -1.  *)
(***************************************************************************)
EXTENDS Integers, Sequences

CONSTANT MaxDepth       \* MAX_SERIALIZE_DEPTH (64), and the client's own limit

ASSUME MaxDepthAssumption == MaxDepth \in Nat

-----------------------------------------------------------------------------
(* JSON.                                                                   *)

Null          == [kind |-> "null"]
True          == [kind |-> "true"]
Num(n)        == [kind |-> "number", number |-> n]
Str(s)        == [kind |-> "string", string |-> s]
Array(items)  == [kind |-> "array", items |-> items]
Object(fs)    == [kind |-> "object", fields |-> fs]
Only(key, v)  == Object([k \in {key} |-> v])
Thrown        == [kind |-> "thrown"]

IsStr(v)   == v.kind = "string"
IsNum(v)   == v.kind = "number"
IsArray(v) == v.kind = "array"

\* The string an array starts with, "" if it starts with none.
Tag(v) == IF IsArray(v) /\ v.items # <<>> /\ IsStr(Head(v.items))
          THEN Head(v.items).string ELSE ""

Children(v) == CASE v.kind = "array"  -> {v.items[i] : i \in DOMAIN v.items}
                 [] v.kind = "object" -> {v.fields[k] : k \in DOMAIN v.fields}
                 [] OTHER             -> {}

\* A container with every child replaced; it throws if one of them does.
Rebuilt(v, F(_)) ==
    IF \E child \in Children(v) : F(child) = Thrown THEN Thrown
    ELSE CASE v.kind = "array"  -> Array([i \in DOMAIN v.items |-> F(v.items[i])])
           [] v.kind = "object" -> Object([k \in DOMAIN v.fields |-> F(v.fields[k])])
           [] OTHER             -> v

-----------------------------------------------------------------------------
(* The tagged arrays of the wire and the marker objects of the C++ side.   *)

Marker == [bigint |-> "$bigint", date |-> "$date", bytes |-> "$bytes"]

\* The payload a tag or its marker asks for.
Fits(tag, v) == IF tag = "date" THEN IsNum(v) ELSE IsStr(v)

SpecialTags == {"export", "promise", "error", "bigint", "date", "bytes",
                "undefined", "import", "pipeline", "remap"}

IsSpecialArray(v) == Tag(v) \in SpecialTags

ErrorTuple(name, message) == Array(<<Str("error"), Str(name), Str(message)>>)
ErrorMarker(name, message) ==
    Only("$error", Object([name |-> Str(name), message |-> Str(message)]))
IsErrorTuple(v) == Tag(v) = "error" /\ Len(v.items) >= 3
                   /\ IsStr(v.items[2]) /\ IsStr(v.items[3])

\* ["export", id] and ["promise", id].
IsReference(v, tag) == Tag(v) = tag /\ Len(v.items) >= 2 /\ IsNum(v.items[2])

Has(v, key) == v.kind = "object" /\ key \in DOMAIN v.fields

-----------------------------------------------------------------------------
(* devaluateForResult, at the top of a value.                              *)

HoldsNum(v, key) == Has(v, key) /\ IsNum(v.fields[key])
IsSet(v, key)    == Has(v, key) /\ v.fields[key] = True
Holds(v, tag)    == Has(v, Marker[tag]) /\ Fits(tag, v.fields[Marker[tag]])

\* The wire form of a marker object, Null of any other value.
Devalued(v) ==
    IF \E tag \in DOMAIN Marker : Holds(v, tag) THEN
        LET tag == CHOOSE t \in DOMAIN Marker : Holds(v, t)
        IN  Array(<<Str(tag), v.fields[Marker[tag]]>>)
    ELSE IF IsSet(v, "$undefined") THEN
        Array(<<Str("undefined")>>)
    ELSE IF Has(v, "$error") /\ v.fields["$error"].kind = "object" THEN
        LET e == v.fields["$error"]
        IN  Array(<<Str("error"),
                    IF Has(e, "name") THEN e.fields["name"] ELSE Str("Error"),
                    IF Has(e, "message") THEN e.fields["message"] ELSE Str("")>>)
    ELSE IF HoldsNum(v, "$stub") THEN Array(<<Str("import"), v.fields["$stub"]>>)
    ELSE IF HoldsNum(v, "$promise_stub") THEN
        Array(<<Str("promise"), v.fields["$promise_stub"]>>)
    ELSE IF IsSet(v, "$export") \/ HoldsNum(v, "$export_target_ptr") THEN
        Array(<<Str("export"), Num(-1)>>)
    ELSE IF Has(v, "$promise") THEN Array(<<Str("promise"), Num(-1)>>)
    ELSE Null

\* A marker object that is nothing else, so that its wire form has all of it.
IsMarker(v) ==
    \/ \E tag \in DOMAIN Marker :
          Holds(v, tag) /\ v = Only(Marker[tag], v.fields[Marker[tag]])
    \/ v = Only("$undefined", True)
    \/ /\ Has(v, "$error") /\ Has(v.fields["$error"], "name") /\ Has(v.fields["$error"], "message")
       /\ LET e == v.fields["$error"].fields IN
          /\ IsStr(e["name"]) /\ IsStr(e["message"])
          /\ v = ErrorMarker(e["name"].string, e["message"].string)

WrapArrayIfNeeded(v) == IF IsArray(v) THEN Array(<<v>>) ELSE v

-----------------------------------------------------------------------------
(* Calls.  A conversion that may run a call or throw returns the value and  *)
(* the session it leaves.                                                  *)

Ret(v, env) == [json |-> v, env |-> env]

Nested[depth \in Nat] == IF depth = 0 THEN Null ELSE Only("a", Nested[depth - 1])

\* RpcTarget::dispatch on a target whose methods return their first argument, a
\* stub of the target, or an object too deep to send; any other name throws.
Dispatch(method, args) ==
    CASE method = "echo" -> IF IsArray(args) /\ args.items # <<>> THEN Head(args.items) ELSE Null
      [] method = "self" -> Only("$export_target_ptr", Num(1))
      [] method = "deep" -> Nested[MaxDepth + 2]
      [] OTHER           -> Thrown

Run(method, args) ==
    IF args.json = Thrown THEN args ELSE Ret(Dispatch(method, args.json), args.env)

\* One key of a path; a missing field or element reads as null.
Property(v, key) ==
    CASE IsStr(key) /\ v.kind = "object" ->
             IF key.string \in DOMAIN v.fields THEN v.fields[key.string] ELSE Null
      [] IsNum(key) /\ IsArray(v) ->
             IF key.number + 1 \in DOMAIN v.items THEN v.items[key.number + 1] ELSE Null
      [] OTHER -> v

-----------------------------------------------------------------------------
(* The C++ client: RpcClient::parseResultFor's conversions.                *)

\* Mutant of UnwrapArrayIfNeeded: escaped arrays are returned as they are.
UnwrapNothing(v) == v

UnwrapArrayIfNeeded(v) ==
    IF IsArray(v) /\ Len(v.items) = 1 /\ IsArray(v.items[1]) THEN v.items[1] ELSE v

DecodeSpecial(v) ==
    CASE IsReference(v, "export")  -> Only("$stub", v.items[2])
      [] IsReference(v, "promise") -> Only("$promise_stub", v.items[2])
      [] Tag(v) = "undefined"      -> Only("$undefined", True)
      [] Tag(v) \in DOMAIN Marker /\ Len(v.items) >= 2 /\ Fits(Tag(v), v.items[2]) ->
             Only(Marker[Tag(v)], v.items[2])
      [] IsErrorTuple(v)           -> ErrorMarker(v.items[2].string, v.items[3].string)
      [] OTHER                     -> v
=============================================================================
