--------------------------- MODULE SessionTables ---------------------------
(***************************************************************************)
(* The data of one RPC session (include/capnwebcpp/session_state.h): the   *)
(* identifiers, the results a method can leave in an export entry, the     *)
(* entries, and the Exporter's operations on its table.                    *)
(*                                                                         *)
(* Abstractions.  A JSON value is reduced to the capability it carries: a  *)
(* plain value, an error tuple, a stub of one server target, a promise, or *)
(* a reference to a promise exported earlier.  A value carries at most one *)
(* capability.  The arguments of a waiting call are the client references  *)
(* they pass and the set of ids they name.  The pair                       *)
(* hasOperation/hasResult is one field, phase, and a table id without an   *)
(* entry is an entry in phase "free".                                      *)
(***************************************************************************)
EXTENDS Integers

CONSTANTS
    Targets,         \* the RpcTarget instances of the server application
    Main,            \* the one every call on id 0 reaches
    NoHook,          \* an entry whose callHook is null
    ClientRefs,      \* ids the client puts in ["export", id] / ["promise", id]
    ClientPromises,  \* those it sent as ["promise", id]
    MaxPush,         \* bound: pushes the client sends
    MaxNeg,          \* bound: negative export ids the server allocates
    MaxCalls         \* bound: calls the server makes on the client

ASSUME TablesAssumption ==
    /\ Main \in Targets
    /\ NoHook \notin Targets
    /\ ClientPromises \subseteq ClientRefs
    /\ MaxPush \in Nat \ {0} /\ MaxNeg \in Nat /\ MaxCalls \in Nat
    /\ ClientRefs \cap 1..MaxCalls = {}

PushIds == 1..MaxPush              \* ids the client's pushes consume
NegIds  == (-MaxNeg)..(-1)         \* ids the server chooses
Ids     == PushIds \cup NegIds
CallIds == 1..MaxCalls             \* import ids of server-to-client calls

-----------------------------------------------------------------------------
(* What a method leaves behind.                                            *)

None          == [kind |-> "none"]
Value         == [kind |-> "value"]
Error         == [kind |-> "error"]
StubOf(t)     == [kind |-> "stub", target |-> t]
PromiseOf(p)  == [kind |-> "promise", payload |-> p]
PromiseRef(n) == [kind |-> "promiseRef", id |-> n]

Payloads == {Value, Error} \cup {StubOf(t) : t \in Targets}
Returns  == Payloads \cup {PromiseOf(p) : p \in Payloads}
Results  == {None} \cup Returns \cup {PromiseRef(n) : n \in NegIds}

-----------------------------------------------------------------------------
(* Export entries.                                                         *)

Bags   == [ClientRefs -> Nat]      \* importedClientIds: id -> count
NoRefs == [r \in ClientRefs |-> 0]
Phases == {"free", "bare", "operation", "result"}

Entry == [rc : Nat, phase : Phases, result : Results,
          hook : Targets \cup {NoHook}, refs : Bags,
          pipes : SUBSET Ids]      \* ids in the operation's ["pipeline", id] arguments

Free == [rc |-> 0, phase |-> "free", result |-> None,
         hook |-> NoHook, refs |-> NoRefs, pipes |-> {}]

\* setOperation: a call waiting for its microtask.
Operation(hook, refs, pipes) == [rc |-> 1, phase |-> "operation", result |-> None,
                                 hook |-> hook, refs |-> refs, pipes |-> pipes]

\* An entry that already holds its result (a remap, a promise with a payload).
Finished(result, hook, refs) == [rc |-> 1, phase |-> "result", result |-> result,
                                 hook |-> hook, refs |-> refs, pipes |-> {}]

\* A stub, or a promise the client's answer will settle: nothing to pull.
Bare(hook) == [rc |-> 1, phase |-> "bare", result |-> None,
               hook |-> hook, refs |-> NoRefs, pipes |-> {}]

-----------------------------------------------------------------------------
(* Operations on a table.                                                  *)

Put(table, id, entry) == [table EXCEPT ![id] = entry]

Found(table, id) == id \in Ids /\ table[id].phase # "free"

HasResult(table, id) == id \in Ids /\ table[id].phase = "result"

HasOperation(table, id) == id \in Ids /\ table[id].phase = "operation"

\* Mutant of SetResult: an error outcome drops the operation, sets no result.
SetResultOfSuccess(table, id, result) ==
    [table EXCEPT ![id].phase = IF result = Error THEN "bare" ELSE "result",
                  ![id].result = result, ![id].pipes = {}]

SetResult(table, id, result) ==
    [table EXCEPT ![id].phase = "result", ![id].result = result,
                  ![id].pipes = {}]

\* handlePull's last lines: the result, or the operation that threw, goes and the
\* entry stays for its refcount.
ClearResult(table, id) ==
    [table EXCEPT ![id].phase = "bare", ![id].result = None, ![id].pipes = {}]

\* Mutant of AddReference: the new reference is not counted.
AddReferenceUncounted(table, id) == table

AddReference(table, id) == [table EXCEPT ![id].rc = @ + 1]

\* Mutant of Release: only a count of exactly zero erases the entry.
ReleaseUnchecked(table, id, count) ==
    IF ~Found(table, id) THEN table
    ELSE IF table[id].rc # count
         THEN [table EXCEPT ![id].rc = @ - count]
         ELSE [table EXCEPT ![id] = Free]

\* Exporter::release, with handleRelease's lookup: the last reference erases.
Release(table, id, count) ==
    IF ~Found(table, id) THEN table
    ELSE IF table[id].rc > count
         THEN [table EXCEPT ![id].rc = @ - count]
         ELSE [table EXCEPT ![id] = Free]
=============================================================================
