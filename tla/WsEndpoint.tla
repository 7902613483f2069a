----------------------------- MODULE WsEndpoint -----------------------------
(***************************************************************************)
(* The WebSocket hosts: the ws route of setupRpcEndpoint (rpc_endpoint.h)  *)
(* and the websocket-callback example.  Each makes one RpcSession for all  *)
(* of its connections: the microtask queue and the aborted flag are        *)
(* shared, the tables belong to the connection.  The example also tells    *)
(* its target, before each frame, whose connection it is (context), so     *)
(* that a method can call its client back.                                 *)
(*                                                                         *)
(* Grain of atomicity.  One loop thread runs every handler to its end; a   *)
(* message handler is cut where it calls a method.  A connection's frames  *)
(* are pushes of calls that refer to no other call, pulls, aborts and      *)
(* malformed pushes; RpcSession has the rest.  Closing a socket runs its   *)
(* close handler at once (uWebSockets).                                    *)
(***************************************************************************)
EXTENDS Integers, Sequences, FiniteSets

CONSTANTS
    Conns,           \* connections; each is opened once
    NoConn,          \* no connection
    Hosts,           \* the hosts considered: "endpoint", "callback"
    MaxPush          \* bound: calls a connection pushes

ASSUME EndpointAssumption ==
    /\ NoConn \notin Conns /\ MaxPush \in Nat
    /\ Hosts \subseteq {"endpoint", "callback"}

VARIABLES
    host,            \* the program that runs
    phase,           \* per connection: "new", "open" or "closed"
    calls,           \* per connection, exporter.table: what each push id holds
    nextExportId,    \* per connection, exporter.nextExportId
    microtasks,      \* RpcSession::microtasks: [conn, id]
    aborted,         \* RpcSession::aborted
    context,         \* CallbackServer::data
    handler,         \* the handler that runs, or ran last: [conn, pull, late, busy]
    pulled,          \* per connection, pulls that have had no answer yet
    out              \* frames the last step sent: [conn, type, id]

shared == <<microtasks, aborted>>
tables == <<calls, nextExportId>>
vars   == <<host, phase, tables, shared, context, handler, pulled, out>>

PushIds == 1..MaxPush
Empty   == [id \in PushIds |-> "none"]
Task    == [conn : Conns, id : PushIds]
Results == {"value", "error"}
Held    == {"none", "operation"} \cup Results
Handler == [conn : Conns \cup {NoConn}, pull : {0} \cup PushIds, late : BOOLEAN, busy : BOOLEAN]

Init ==
    /\ host \in Hosts
    /\ phase = [c \in Conns |-> "new"]
    /\ calls = [c \in Conns |-> Empty] /\ nextExportId = [c \in Conns |-> 1]
    /\ microtasks = <<>> /\ aborted = FALSE
    /\ context = NoConn
    /\ handler = [conn |-> NoConn, pull |-> 0, late |-> FALSE, busy |-> FALSE]
    /\ pulled = [c \in Conns |-> {}]
    /\ out = <<>>

Idle == ~handler.busy

Runs(c, pull) == handler' = [conn |-> c, pull |-> pull, late |-> FALSE, busy |-> TRUE]
Ran(c)        == handler' = [conn |-> c, pull |-> 0, late |-> FALSE, busy |-> FALSE]

Frame(c, type, id) == [conn |-> c, type |-> type, id |-> id]
Sends(c, types)    == out' = [k \in DOMAIN types |-> Frame(c, types[k], 0)]

\* Mutant of ResetTables: push ids start at 0.
ResetTablesToZero(c) ==
    /\ calls' = [calls EXCEPT ![c] = Empty]
    /\ nextExportId' = [nextExportId EXCEPT ![c] = 0]

\* Mutant of ResetTables: every connection's tables are reset.
ResetAllTables(c) ==
    /\ calls' = [d \in Conns |-> Empty]
    /\ nextExportId' = [d \in Conns |-> 1]

\* exporter.reset().
ResetTables(c) ==
    /\ calls' = [calls EXCEPT ![c] = Empty]
    /\ nextExportId' = [nextExportId EXCEPT ![c] = 1]

\* The open handler; onOpen also revives an aborted session.
Open(c) ==
    /\ Idle /\ phase[c] = "new"
    /\ phase' = [phase EXCEPT ![c] = "open"]
    /\ ResetTables(c)
    /\ aborted' = FALSE
    /\ context' = IF host = "callback" THEN c ELSE context
    /\ Ran(c) /\ Sends(c, <<>>)
    /\ UNCHANGED <<host, microtasks, pulled>>

\* The close handler: the endpoint gives the pending references back.
Close(c) ==
    /\ Idle /\ phase[c] = "open"
    /\ phase' = [phase EXCEPT ![c] = "closed"]
    /\ Ran(c) /\ Sends(c, IF host = "endpoint" THEN <<"release">> ELSE <<>>)
    /\ UNCHANGED <<host, tables, shared, context, pulled>>

-----------------------------------------------------------------------------
(* The message handler.                                                    *)

\* Mutant of SetSessionContext: the context is set when a connection opens only.
KeepSessionContext(c) == context' = context

SetSessionContext(c) == context' = IF host = "callback" THEN c ELSE context

Receive(c) ==
    /\ Idle /\ phase[c] = "open"
    /\ SetSessionContext(c)
    /\ UNCHANGED host

ReceivePush(c) ==
    /\ Receive(c) /\ ~aborted
    /\ nextExportId[c] \in PushIds
    /\ calls' = [calls EXCEPT ![c][nextExportId[c]] = "operation"]
    /\ microtasks' = Append(microtasks, [conn |-> c, id |-> nextExportId[c]])
    /\ nextExportId' = [nextExportId EXCEPT ![c] = @ + 1]
    /\ Runs(c, 0) /\ Sends(c, <<>>)
    /\ UNCHANGED <<phase, aborted, pulled>>

ReceivePull(c, id) ==
    /\ Receive(c) /\ ~aborted
    /\ pulled' = [pulled EXCEPT ![c] = @ \cup {id}]
    /\ Runs(c, id) /\ Sends(c, <<>>)
    /\ UNCHANGED <<phase, tables, shared>>

\* markAborted(sessionData, reason), and the socket is closed.
AbortAndClose(c) ==
    /\ aborted' = TRUE /\ microtasks' = <<>>
    /\ ResetTables(c)
    /\ phase' = [phase EXCEPT ![c] = "closed"]

ReceiveAbort(c) ==
    /\ Receive(c) /\ ~aborted
    /\ AbortAndClose(c)
    /\ Ran(c) /\ Sends(c, <<>>)
    /\ UNCHANGED pulled

\* An exception leaves pumpMessage and is logged; the frame used up "used" ids.
Log(c, used) ==
    /\ nextExportId' = [nextExportId EXCEPT ![c] = @ + used]
    /\ Ran(c) /\ Sends(c, <<>>)
    /\ UNCHANGED <<phase, calls, shared>>

\* An exception skips processTasks.  The endpoint tells the peer and aborts.
Fail(c, used) ==
    \/ host = "endpoint" /\ Ran(c) /\ Sends(c, <<"abort">>) /\ AbortAndClose(c)
    \/ host = "callback" /\ Log(c, used)

\* A push whose fields have the wrong types throws once it has its id.
ReceiveMalformed(c) ==
    /\ Receive(c) /\ ~aborted
    /\ nextExportId[c] \in PushIds
    /\ Fail(c, 1)
    /\ UNCHANGED pulled

\* An aborted session handles no frame; pumpMessage closes whoever sent it.
ReceiveAborted(c) ==
    /\ Receive(c) /\ aborted
    /\ phase' = [phase EXCEPT ![c] = "closed"]
    /\ Ran(c) /\ Sends(c, <<>>)
    /\ UNCHANGED <<tables, shared, pulled>>

\* In the example a method may call the client whose connection the context names.
MethodSends == {<<>>} \cup
    IF host = "callback" THEN {<< Frame(context, "push", 0), Frame(context, "pull", 0) >>}
    ELSE {}

Stores(c, id, held) == calls' = [calls EXCEPT ![c][id] = held]

\* processTasks: the method returns or throws, or throws something unknown.
RunTask ==
    /\ handler.busy /\ microtasks # <<>>
    /\ microtasks' = Tail(microtasks)
    /\ \/ UNCHANGED calls
       \/ \E result \in Results :
              Stores(Head(microtasks).conn, Head(microtasks).id, result)
    /\ out' \in MethodSends
    /\ UNCHANGED <<host, phase, nextExportId, aborted, context, handler, pulled>>

\* handlePull, once the queue is empty.
Pulling == handler.busy /\ handler.pull # 0 /\ microtasks = <<>>

Pulled == calls[handler.conn][handler.pull]

\* handlePull runs an operation now; it returns.
RunLate ==
    /\ Pulling /\ Pulled = "operation"
    /\ \E result \in Results : Stores(handler.conn, handler.pull, result)
    /\ handler' = [handler EXCEPT !.late = TRUE]
    /\ out' \in MethodSends
    /\ UNCHANGED <<host, phase, nextExportId, shared, context, pulled>>

Answers(type) == << Frame(handler.conn, type, handler.pull) >>

\* The pulled export holds "held" once the answer has gone out.
Answering(held) ==
    /\ Pulling
    /\ Stores(handler.conn, handler.pull, held)
    /\ pulled' = [pulled EXCEPT ![handler.conn] = @ \ {handler.pull}]
    /\ Runs(handler.conn, 0)
    /\ UNCHANGED <<host, phase, nextExportId, shared, context>>

\* Mutant of AnswerResult: a result that was sent is kept.
AnswerResultKept ==
    /\ Answering(Pulled)
    /\ Pulled \in Results /\ ~handler.late
    /\ out' = Answers(IF Pulled = "value" THEN "resolve" ELSE "reject")

\* A result is cleared once sent.
AnswerResult ==
    /\ Answering("none")
    /\ Pulled \in Results /\ ~handler.late
    /\ out' = Answers(IF Pulled = "value" THEN "resolve" ELSE "reject")

\* What was run for this pull is sent and kept; if it nests too deep, the exception
\* is caught and the pull rejected.
AnswerLate ==
    /\ Answering(Pulled) /\ handler.late
    /\ \E type \in {"resolve", "reject"} : out' = Answers(type)

\* The operation is run now and throws.
AnswerThrow ==
    /\ Answering("none")
    /\ Pulled = "operation"
    /\ \E sent \in MethodSends : out' = sent \o Answers("reject")

AnswerNotFound ==
    /\ Answering("none")
    /\ Pulled = "none"
    /\ out' = Answers("reject")

AnswerPull == AnswerResult \/ AnswerLate \/ AnswerThrow \/ AnswerNotFound

\* A result that nests too deep: the exception leaves handlePull.
AnswerThrows ==
    /\ Pulling /\ Pulled = "value" /\ ~handler.late
    /\ Fail(handler.conn, 0)
    /\ UNCHANGED <<host, context, pulled>>

\* Mutant of EndHandler: processTasks is not called after the frame.
EndUndrained ==
    /\ handler.busy /\ handler.pull = 0
    /\ Ran(handler.conn) /\ Sends(handler.conn, <<>>)
    /\ UNCHANGED <<host, phase, tables, shared, context, pulled>>

EndHandler ==
    /\ handler.busy /\ handler.pull = 0 /\ microtasks = <<>>
    /\ Ran(handler.conn) /\ Sends(handler.conn, <<>>)
    /\ UNCHANGED <<host, phase, tables, shared, context, pulled>>

-----------------------------------------------------------------------------

Message(c) ==
    \/ ReceivePush(c) \/ (\E id \in PushIds : ReceivePull(c, id))
    \/ ReceiveAbort(c) \/ ReceiveMalformed(c) \/ ReceiveAborted(c)

Finished == (\A c \in Conns : phase[c] = "closed") /\ Idle /\ UNCHANGED vars

Next ==
    \/ \E c \in Conns : Open(c) \/ Close(c) \/ Message(c)
    \/ RunTask \/ RunLate \/ AnswerPull \/ AnswerThrows \/ EndHandler
    \/ Finished

Spec == Init /\ [][Next]_vars

-----------------------------------------------------------------------------
(* Properties.                                                             *)

TypeOK ==
    /\ host \in Hosts /\ phase \in [Conns -> {"new", "open", "closed"}]
    /\ calls \in [Conns -> [PushIds -> Held]]
    /\ nextExportId \in [Conns -> 1..(MaxPush + 1)]
    /\ microtasks \in Seq(Task) /\ aborted \in BOOLEAN
    /\ context \in Conns \cup {NoConn}
    /\ handler \in Handler
    /\ pulled \in [Conns -> SUBSET PushIds]

\* A queued call keeps a raw pointer to its connection's data, and an exception
\* skips processTasks: still, no call waits for a connection that is gone.
TasksHaveConnections ==
    \A k \in DOMAIN microtasks : phase[microtasks[k].conn] = "open"

\* Whatever a handler sends goes to its own connection, the calls that a method of
\* the shared target makes on its client among them.
FramesGoToTheCaller == [][\A k \in DOMAIN out' : out'[k].conn = handler'.conn]_vars

QueuedFor(c, queue) == {queue[k] : k \in {j \in DOMAIN queue : queue[j].conn = c}}

\* A connection that opens, fails, aborts or closes leaves the calls of the others
\* where they are, in their tables and in the shared queue.
OthersKeepTheirCalls ==
    [][\A c \in Conns \ {handler'.conn} :
          /\ calls'[c] = calls[c]
          /\ QueuedFor(c, microtasks') = QueuedFor(c, microtasks)]_vars

\* Under the endpoint a connection that is still open has had an answer to each of
\* its pulls.
PullsAreAnswered ==
    host = "endpoint" /\ Idle =>
        \A c \in Conns : phase[c] = "open" => pulled[c] = {}
=============================================================================
