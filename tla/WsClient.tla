------------------------------ MODULE WsClient ------------------------------
(***************************************************************************)
(* The C++ WebSocket client: class RpcWsClient (client_ws.h) over          *)
(* UwsWebSocketClient (transports/uws_websocket_client.h).  Application    *)
(* threads make blocking calls, one uWS loop thread delivers what the      *)
(* server sends, and one application thread opens the client and may close *)
(* it.                                                                     *)
(*                                                                         *)
(* Grain of atomicity.  A critical section that takes no second lock is    *)
(* one step, enabled while its mutex is free.  The three that do more are  *)
(* cut and hold the mutex in a variable: awaitResolution keeps p->m while  *)
(* it locks mu to erase, the abort handler keeps mu while it locks each    *)
(* p->m, close() keeps mu while it joins the loop thread.  A Pending is    *)
(* named by its import id, which is never reused.                          *)
(***************************************************************************)
EXTENDS Integers, Sequences, FiniteSets

CONSTANTS
    Callers,       \* application threads that make calls
    MaxCalls,      \* bound: calls made in all
    NoThread       \* the holder of a mutex that is free

LoopThread == "loop"
Closer     == "owner"

ASSUME ClientAssumption ==
    NoThread \notin Callers \cup {LoopThread, Closer} /\ MaxCalls \in Nat

ImportIds == 1..MaxCalls

VARIABLES
    nextImportId,  \* RpcWsClient::nextImportId
    pending,       \* keys of RpcWsClient::pending
    mu,            \* holder of RpcWsClient::mu
    cell,          \* per import id, its Pending: "open", "resolved" or "failed"
    answer,        \* per import id, the call whose result value holds, 0 if none
    holder,        \* per import id, the holder of its Pending::m
    asleep,        \* callers blocked in Pending::cv
    call,          \* per caller: where it stands and the import id it uses
    outcome,       \* per import id: "none", "returned", "rejected" or "unsent"
    deferred,      \* closures deferred to the loop: frames and the stop
    loop,          \* where the loop thread stands
    owner,         \* the thread that opens and closes the client: where it stands
    exports,       \* the server: the call each push belongs to, in arrival order
    aborted,       \* the server has aborted the session
    inbound        \* frames from the server, in order

locks   == <<mu, holder>>
cells   == <<cell, answer>>
peer    == <<exports, aborted>>
server  == <<peer, inbound>>
vars    == <<nextImportId, pending, locks, cells, asleep, call, outcome,
             deferred, loop, owner, server>>

Resting == [at |-> "ready", id |-> 0]
Polling == [at |-> "poll", id |-> 0, left |-> {}]

Init ==
    /\ nextImportId = 1 /\ pending = {}
    /\ mu = NoThread /\ holder = [id \in ImportIds |-> NoThread]
    /\ cell = [id \in ImportIds |-> "open"] /\ answer = [id \in ImportIds |-> 0]
    /\ asleep = {}
    /\ call = [c \in Callers |-> Resting]
    /\ outcome = [id \in ImportIds |-> "none"]
    /\ deferred = <<>>
    /\ loop = [Polling EXCEPT !.at = "connect"] /\ owner = "connecting"
    /\ exports = <<>> /\ aborted = FALSE /\ inbound = <<>>

\* A caller's step from one line of the call to the next.
At(c, line)   == call[c].at = line
Goes(c, line) == call' = [call EXCEPT ![c].at = line]
Ends(c, how)  == /\ call' = [call EXCEPT ![c] = Resting]
                 /\ outcome' = [outcome EXCEPT ![call[c].id] = how]

-----------------------------------------------------------------------------
(* The constructor: connect() starts the loop thread and waits until the   *)
(* socket is open or closed.                                               *)

\* The loop's open handler, which also sets scheduleSend.
Opens ==
    /\ loop.at = "connect"
    /\ loop' = Polling /\ owner' = "opened"
    /\ UNCHANGED <<nextImportId, pending, locks, cells, asleep, call, outcome,
                   deferred, server>>

\* The socket closes before it was open.
Refuses ==
    /\ loop.at = "connect"
    /\ loop' = [loop EXCEPT !.at = "stopping"] /\ owner' = "refused"
    /\ UNCHANGED <<nextImportId, pending, locks, cells, asleep, call, outcome,
                   deferred, server>>

Connected ==
    /\ owner = "opened" /\ owner' = "ready"
    /\ UNCHANGED <<nextImportId, pending, locks, cells, asleep, call, outcome,
                   deferred, loop, server>>

\* connect() throws; the socket's destructor joins the loop thread.
ConnectFails ==
    /\ owner = "refused" /\ loop.at = "ended"
    /\ owner' = "failed"
    /\ UNCHANGED <<nextImportId, pending, locks, cells, asleep, call, outcome,
                   deferred, loop, server>>

-----------------------------------------------------------------------------
(* A calling thread: callMethod, callStubMethod, getStubProperty.          *)

\* There is a client to call once its constructor has returned.
Usable == owner \in {"ready", "joining", "done"}

\* allocateImportId.
Allocate(c) ==
    /\ Usable /\ At(c, "ready") /\ mu = NoThread /\ nextImportId \in ImportIds
    /\ nextImportId' = nextImportId + 1
    /\ pending' = pending \cup {nextImportId}
    /\ call' = [call EXCEPT ![c] = [at |-> "push", id |-> nextImportId]]
    /\ UNCHANGED <<locks, cells, asleep, outcome, deferred, loop, owner, server>>

\* scheduleSend, set since the socket opened, is cleared when app->run() returns.
Sendable == loop.at \notin {"connect", "ended"}

\* UwsWebSocketClient::send throws once the loop has cleared scheduleSend, and
\* the exception leaves the call.
Send(c, line, frame, next) ==
    /\ At(c, line)
    /\ IF Sendable
       THEN deferred' = Append(deferred, frame) /\ Goes(c, next) /\ UNCHANGED outcome
       ELSE Ends(c, "unsent") /\ UNCHANGED deferred
    /\ UNCHANGED <<nextImportId, pending, locks, cells, asleep, loop, owner, server>>

Frame(type, id) == [type |-> type, id |-> id]

SendPush(c) == Send(c, "push", Frame("push", call[c].id), "pull")
SendPull(c) == Send(c, "pull", Frame("pull", call[c].id), "lookup")

\* awaitResolution finds its Pending, or throws: an abort emptied the map.
Lookup(c) ==
    /\ At(c, "lookup") /\ mu = NoThread
    /\ IF call[c].id \in pending
       THEN Goes(c, "check") /\ UNCHANGED outcome
       ELSE Ends(c, "rejected")
    /\ UNCHANGED <<nextImportId, pending, locks, cells, asleep, deferred, loop,
                   owner, server>>

\* Mutant of Check: the wait keeps p->m.
CheckKeepingLock(c) ==
    LET id == call[c].id IN
    /\ At(c, "check") /\ holder[id] \in {NoThread, c}
    /\ \/ cell[id] = "open"
          /\ asleep' = asleep \cup {c} /\ Goes(c, "wait")
          /\ holder' = [holder EXCEPT ![id] = c]
          /\ UNCHANGED outcome
       \/ cell[id] = "failed"
          /\ Ends(c, "rejected")
          /\ UNCHANGED <<holder, asleep>>
       \/ cell[id] = "resolved"
          /\ holder' = [holder EXCEPT ![id] = c] /\ Goes(c, "erase")
          /\ UNCHANGED <<outcome, asleep>>
    /\ UNCHANGED <<nextImportId, pending, mu, cells, deferred, loop, owner, server>>

\* cv.wait: the predicate is read under p->m; if it does not hold, the thread
\* sleeps until it is notified.
Check(c) ==
    LET id == call[c].id IN
    /\ At(c, "check") /\ holder[id] = NoThread
    /\ \/ cell[id] = "open"
          /\ asleep' = asleep \cup {c} /\ Goes(c, "wait")
          /\ UNCHANGED <<holder, outcome>>
       \/ cell[id] = "failed"
          /\ Ends(c, "rejected")
          /\ UNCHANGED <<holder, asleep>>
       \/ cell[id] = "resolved"
          /\ holder' = [holder EXCEPT ![id] = c] /\ Goes(c, "erase")
          /\ UNCHANGED <<outcome, asleep>>
    /\ UNCHANGED <<nextImportId, pending, mu, cells, deferred, loop, owner, server>>

Wake(c) ==
    /\ At(c, "wait") /\ c \notin asleep
    /\ Goes(c, "check")
    /\ UNCHANGED <<nextImportId, pending, locks, cells, asleep, outcome, deferred,
                   loop, owner, server>>

\* Mutant of Erase: the result is returned, its entry stays in the map.
EraseNothing(c) ==
    /\ At(c, "erase") /\ mu = NoThread
    /\ holder' = [holder EXCEPT ![call[c].id] = NoThread]
    /\ Goes(c, "release")
    /\ UNCHANGED <<nextImportId, pending, mu, cells, asleep, outcome, deferred,
                   loop, owner, server>>

\* The entry goes under mu, with p->m still held; then awaitResolution returns.
Erase(c) ==
    /\ At(c, "erase") /\ mu = NoThread
    /\ pending' = pending \ {call[c].id}
    /\ holder' = [holder EXCEPT ![call[c].id] = NoThread]
    /\ Goes(c, "release")
    /\ UNCHANGED <<nextImportId, mu, cells, asleep, outcome, deferred, loop,
                   owner, server>>

\* The release goes out, and only then is the value returned.
SendRelease(c) ==
    /\ At(c, "release")
    /\ deferred' = IF Sendable THEN Append(deferred, Frame("release", call[c].id))
                               ELSE deferred
    /\ Ends(c, IF Sendable THEN "returned" ELSE "unsent")
    /\ UNCHANGED <<nextImportId, pending, locks, cells, asleep, loop, owner, server>>

-----------------------------------------------------------------------------
(* The closing thread: close(), also called by the destructor.             *)

\* ws->close() defers the loop's stop; the thread joins it, holding mu.
StartClose ==
    /\ owner = "ready" /\ mu = NoThread
    /\ owner' = "joining" /\ mu' = Closer
    /\ deferred' = Append(deferred, Frame("stop", 0))
    /\ UNCHANGED <<nextImportId, pending, holder, cells, asleep, call, outcome,
                   loop, server>>

Joined ==
    /\ owner = "joining" /\ loop.at = "ended"
    /\ owner' = "done" /\ mu' = NoThread
    /\ UNCHANGED <<nextImportId, pending, holder, cells, asleep, call, outcome,
                   deferred, loop, server>>

-----------------------------------------------------------------------------
(* The server: its session (RpcSession) numbers pushes as they arrive and  *)
(* answers each pull at once; any frame may make it abort instead, and it  *)
(* answers nothing after that.                                             *)

Reply(id) ==
    IF id <= Len(exports)
    THEN {[type |-> "resolve", id |-> id, of |-> exports[id]],
          [type |-> "reject", id |-> id, of |-> exports[id]]}
    ELSE {[type |-> "reject", id |-> id, of |-> 0]}

ServerTakes(frame) ==
    \/ /\ frame.type = "push" /\ ~aborted
       /\ exports' = Append(exports, frame.id) /\ UNCHANGED <<aborted, inbound>>
    \/ /\ frame.type = "pull" /\ ~aborted
       /\ \E reply \in Reply(frame.id) : inbound' = Append(inbound, reply)
       /\ UNCHANGED peer
    \/ /\ frame.type = "release" \/ aborted
       /\ UNCHANGED server
    \/ /\ ~aborted /\ aborted' = TRUE
       /\ inbound' = Append(inbound, [type |-> "abort", id |-> 0, of |-> 0])
       /\ UNCHANGED exports

-----------------------------------------------------------------------------
(* The loop thread.                                                        *)

\* A deferred send reaches the server, or the deferred stop closes the socket.
RunDeferred ==
    /\ loop.at = "poll" /\ deferred # <<>>
    /\ deferred' = Tail(deferred)
    /\ IF Head(deferred).type = "stop"
       THEN loop' = [loop EXCEPT !.at = "stopping"] /\ UNCHANGED server
       ELSE ServerTakes(Head(deferred)) /\ UNCHANGED loop
    /\ UNCHANGED <<nextImportId, pending, locks, cells, asleep, call, outcome, owner>>

\* A frame has arrived: the loop is in handleMessage until it is done with it.
ReceiveFrame ==
    /\ loop.at = "poll" /\ inbound # <<>>
    /\ loop' = [loop EXCEPT !.at = "handle"]
    /\ UNCHANGED <<nextImportId, pending, locks, cells, asleep, call, outcome,
                   deferred, owner, server>>

Handling(types) ==
    loop.at = "handle" /\ mu = NoThread /\ Head(inbound).type \in types

\* Mutant of TakeAnswer: the answer is taken for the oldest call's.
TakeAnswerInOrder ==
    /\ Handling({"resolve", "reject"})
    /\ IF pending # {}
       THEN loop' = [loop EXCEPT !.at = "deliver",
                                 !.id = CHOOSE id \in pending : \A j \in pending : id <= j]
            /\ UNCHANGED inbound
       ELSE inbound' = Tail(inbound) /\ loop' = Polling
    /\ UNCHANGED <<nextImportId, pending, locks, cells, asleep, call, outcome,
                   deferred, owner, peer>>

\* resolve or reject: handleMessage looks its Pending up under mu.
TakeAnswer ==
    /\ Handling({"resolve", "reject"})
    /\ IF Head(inbound).id \in pending
       THEN loop' = [loop EXCEPT !.at = "deliver", !.id = Head(inbound).id] /\ UNCHANGED inbound
       ELSE inbound' = Tail(inbound) /\ loop' = Polling
    /\ UNCHANGED <<nextImportId, pending, locks, cells, asleep, call, outcome,
                   deferred, owner, peer>>

\* The outcome is stored under p->m; an error, once stored, stays.
Deliver ==
    LET frame == Head(inbound) IN
    /\ loop.at = "deliver" /\ holder[loop.id] = NoThread
    /\ cell' = [cell EXCEPT ![loop.id] =
                    IF frame.type = "resolve" /\ @ # "failed" THEN "resolved" ELSE "failed"]
    /\ answer' = [answer EXCEPT ![loop.id] = IF frame.type = "resolve" THEN frame.of ELSE @]
    /\ inbound' = Tail(inbound)
    /\ loop' = [loop EXCEPT !.at = "notify"]
    /\ UNCHANGED <<nextImportId, pending, locks, asleep, call, outcome, deferred,
                   owner, peer>>

Sleepers(id) == {c \in asleep : call[c].id = id}

\* Mutant of Notify: the waiter is not notified.
NotifyNobody ==
    /\ loop.at = "notify"
    /\ loop' = Polling
    /\ UNCHANGED <<nextImportId, pending, locks, cells, asleep, call, outcome,
                   deferred, owner, server>>

Notify ==
    /\ loop.at = "notify"
    /\ asleep' = asleep \ Sleepers(loop.id)
    /\ loop' = Polling
    /\ UNCHANGED <<nextImportId, pending, locks, cells, call, outcome, deferred,
                   owner, server>>

\* abort: mu is held from here to the end of the iteration over pending.
TakeAbort ==
    /\ Handling({"abort"})
    /\ inbound' = Tail(inbound)
    /\ mu' = LoopThread
    /\ loop' = [loop EXCEPT !.at = "abort", !.left = pending]
    /\ UNCHANGED <<nextImportId, pending, holder, cells, asleep, call, outcome,
                   deferred, owner, peer>>

\* Mutant of FailNext: p->m is not given back.
FailNextKeepingLock ==
    /\ loop.at = "abort"
    /\ \E id \in loop.left :
       /\ \A j \in loop.left : id <= j
       /\ holder[id] = NoThread
       /\ holder' = [holder EXCEPT ![id] = LoopThread]
       /\ cell' = [cell EXCEPT ![id] = "failed"]
       /\ asleep' = asleep \ Sleepers(id)
       /\ loop' = [loop EXCEPT !.left = @ \ {id}]
    /\ UNCHANGED <<nextImportId, pending, mu, answer, call, outcome, deferred,
                   owner, server>>

\* The map is walked in the order of its keys.
FailNext ==
    /\ loop.at = "abort"
    /\ \E id \in loop.left :
       /\ \A j \in loop.left : id <= j
       /\ holder[id] = NoThread
       /\ cell' = [cell EXCEPT ![id] = "failed"]
       /\ asleep' = asleep \ Sleepers(id)
       /\ loop' = [loop EXCEPT !.left = @ \ {id}]
    /\ UNCHANGED <<nextImportId, pending, locks, answer, call, outcome, deferred,
                   owner, server>>

FinishAbort ==
    /\ loop.at = "abort" /\ loop.left = {}
    /\ pending' = {} /\ mu' = NoThread
    /\ loop' = Polling
    /\ UNCHANGED <<nextImportId, holder, cells, asleep, call, outcome, deferred,
                   owner, server>>

\* The peer or the network closes the socket: no pending call is told.
SocketCloses ==
    /\ loop.at = "poll"
    /\ loop' = [loop EXCEPT !.at = "stopping"]
    /\ UNCHANGED <<nextImportId, pending, locks, cells, asleep, call, outcome,
                   deferred, owner, server>>

\* app->run() returns; scheduleSend is cleared.
LoopEnds ==
    /\ loop.at = "stopping"
    /\ loop' = [loop EXCEPT !.at = "ended"]
    /\ UNCHANGED <<nextImportId, pending, locks, cells, asleep, call, outcome, deferred,
                   owner, server>>

-----------------------------------------------------------------------------

Caller(c) == Allocate(c) \/ SendPush(c) \/ SendPull(c) \/ Lookup(c) \/ Check(c) \/ Wake(c)
             \/ Erase(c) \/ SendRelease(c)

Loop == RunDeferred \/ ReceiveFrame \/ TakeAnswer \/ Deliver \/ Notify \/ TakeAbort \/ FailNext
        \/ FinishAbort \/ LoopEnds

Connect == Opens \/ Refuses \/ Connected \/ ConnectFails

Next == Connect \/ (\E c \in Callers : Caller(c)) \/ StartClose \/ Joined \/ Loop \/ SocketCloses

Spec == Init /\ [][Next]_vars

\* The operating system runs every thread that can run; a mutex that is free
\* again and again is granted in the end.
Fairness == /\ WF_vars(Loop) /\ WF_vars(Joined)
            /\ \A c \in Callers : SF_vars(Caller(c))

FairSpec == Spec /\ Fairness

-----------------------------------------------------------------------------
(* Properties.                                                             *)

Calls == {id \in ImportIds : id < nextImportId}

Lines  == {"push", "pull", "lookup", "check", "wait", "erase", "release"}
Frames == [type : {"push", "pull", "release"}, id : ImportIds] \cup {Frame("stop", 0)}
Answers == [type : {"resolve", "reject", "abort"}, id : {0} \cup ImportIds,
            of : {0} \cup ImportIds]

TypeOK ==
    /\ nextImportId \in 1..(MaxCalls + 1)
    /\ pending \subseteq ImportIds
    /\ mu \in {NoThread, LoopThread, Closer}
    /\ cell \in [ImportIds -> {"open", "resolved", "failed"}]
    /\ answer \in [ImportIds -> {0} \cup ImportIds]
    /\ deferred \in Seq(Frames)
    /\ holder \in [ImportIds -> Callers \cup {NoThread}]
    /\ asleep \subseteq Callers
    /\ call \in [Callers -> {Resting} \cup [at : Lines, id : ImportIds]]
    /\ outcome \in [ImportIds -> {"none", "returned", "rejected", "unsent"}]
    /\ loop \in [at : {"connect", "poll", "handle", "deliver", "notify", "abort", "stopping",
                       "ended"},
                 id : {0} \cup ImportIds, left : SUBSET ImportIds]
    /\ owner \in {"connecting", "opened", "refused", "failed", "ready", "joining", "done"}
    /\ exports \in Seq(ImportIds) /\ aborted \in BOOLEAN
    /\ inbound \in Seq(Answers)

\* What is in the map: calls in progress, calls whose frames could not be sent, and
\* calls whose rejection it still holds.  A call that returned has left nothing there,
\* however its erase and the deliveries of other calls and of an abort interleave.
OnlyFailuresAreLeft ==
    \A id \in pending :
        \/ outcome[id] = "none" /\ \E c \in Callers : call[c].id = id
        \/ outcome[id] = "unsent"
        \/ outcome[id] = "rejected" /\ cell[id] = "failed"

\* cv.wait loses no wakeup: a sleeping caller's outcome is still to come, or the
\* loop is about to notify it.
SleepersAreNotified ==
    \A c \in asleep : \/ cell[call[c].id] = "open"
                      \/ loop.at = "notify" /\ loop.id = call[c].id

\* A call that returned its value got the result of the push that the server gave the
\* call's import id, whoever sent that push, and no two calls got the same result.
ReturnedMatchPushes ==
    \A id \in Calls : outcome[id] = "returned" =>
        /\ id \in DOMAIN exports /\ answer[id] = exports[id]
        /\ \A j \in Calls \ {id} : outcome[j] = "returned" => answer[j] # answer[id]

\* The loop thread waits for mu only while close() joins it, never for the lock of
\* the call whose answer it delivers, and for that of a call it aborts only while the
\* call, resolved, waits for mu itself.
LoopIsBlockedBy ==
    /\ loop.at = "handle" /\ mu # NoThread => owner = "joining"
    /\ loop.at = "deliver" => holder[loop.id] = NoThread
    /\ loop.at = "abort" =>
           \A id \in loop.left : holder[id] # NoThread =>
               At(holder[id], "erase") /\ call[holder[id]].id = id /\ cell[id] = "resolved"

\* Unless an abort or a close never gives mu back, every call whose resolution
\* has arrived ends: it is woken, takes mu and returns its value or throws.
ResolvedCallsEnd ==
    []<>(mu = NoThread) =>
        \A id \in ImportIds : cell[id] = "resolved" ~> outcome[id] # "none"

\* client_ws.h:44: callMethod "blocks until resolution and returns decoded JSON",
\* so a call whose resolution has arrived ends.
BlocksUntilResolution ==
    \A id \in ImportIds : cell[id] = "resolved" ~> outcome[id] # "none"

\* client_ws.h:44 again: the JSON is the result of the caller's own method.
OwnResult ==
    \A id \in ImportIds : outcome[id] = "returned" => answer[id] = id
=============================================================================
