---------------------------- MODULE CallService ----------------------------
(***************************************************************************)
(* What a session promises about the calls a client pushes: each is        *)
(* accepted in order and gets at most one outcome, which never changes; a  *)
(* pull is answered once, by the outcome the call has by then, unless the  *)
(* session ends first, and the answer uses the outcome up.  Nothing is     *)
(* said unasked.                                                           *)
(*                                                                         *)
(* RpcSession implements it (RpcSessionService has the mapping), and so    *)
(* does each connection of a session that several share (WsService).       *)
(***************************************************************************)
EXTENDS Integers

CONSTANT MaxPush         \* bound: calls pushed

Calls    == 1..MaxPush
Outcomes == {"value", "error"}
States   == {"unissued", "waiting", "gone", "ended"} \cup Outcomes

VARIABLES
    state,       \* per call, how far it is
    asked,       \* the call whose outcome the client waits for, 0 if none
    late,        \* it was only run for this pull
    told         \* what the last step told the client: [call, type]

vars == <<state, asked, late, told>>

Init ==
    /\ state = [c \in Calls |-> "unissued"]
    /\ asked = 0 /\ late = FALSE /\ told = {}

Waiting == {c \in Calls : state[c] = "waiting"}

\* Some waiting calls get their outcome.
Complete(done) ==
    \E outcome \in [done -> Outcomes] :
        state' = [c \in Calls |-> IF c \in done THEN outcome[c] ELSE state[c]]

\* The next call is accepted, and waits, has its outcome at once or will have none;
\* the ones it refers to may be run for it.
Issue(c) ==
    /\ asked = 0
    /\ state[c] = "unissued" /\ \A b \in 1..(c - 1) : state[b] # "unissued"
    /\ \E done \in SUBSET Waiting, first \in {"waiting", "gone"} \cup Outcomes,
          outcome \in [Waiting -> Outcomes] :
             state' = [b \in Calls |-> IF b = c THEN first
                                       ELSE IF b \in done THEN outcome[b] ELSE state[b]]
    /\ told' = {} /\ UNCHANGED <<asked, late>>

Work ==
    /\ \E done \in SUBSET Waiting : Complete(done)
    /\ told' = {} /\ UNCHANGED <<asked, late>>

\* The client no longer wants to know.
Forget(c) ==
    /\ asked = 0
    /\ state[c] \in {"waiting"} \cup Outcomes
    /\ state' = [state EXCEPT ![c] = "gone"]
    /\ told' = {} /\ UNCHANGED <<asked, late>>

Ask(c) ==
    /\ asked = 0 /\ asked' = c
    /\ told' = {} /\ UNCHANGED <<state, late>>

\* A call that still waits when it is asked for is run then, after those it refers to.
WorkLate ==
    /\ asked \in Waiting /\ ~late
    /\ \E done \in SUBSET Waiting : asked \in done /\ Complete(done)
    /\ late' = TRUE
    /\ told' = {} /\ UNCHANGED asked

\* An error of a call run late is told as a value is; either may turn out not to be
\* sendable.
TypesOf(c) == IF late THEN {"resolve", "reject"}
              ELSE IF state[c] = "value" THEN {"resolve"} ELSE {"reject"}

\* Told of without an outcome, a call has failed, perhaps after some it refers to ran.
Tell ==
    /\ asked # 0
    /\ \E type \in TypesOf(asked) : told' = {[call |-> asked, type |-> type]}
    /\ \E done \in SUBSET {c \in Waiting \ {asked} : asked \in Waiting},
          outcome \in [Waiting -> Outcomes] :
             state' = [c \in Calls |->
                 IF c \in done THEN outcome[c]
                 ELSE IF c # asked \/ late \/ state[c] \in {"unissued", "ended"} THEN state[c]
                 ELSE "gone"]
    /\ asked' = 0 /\ late' = FALSE

\* The session is aborted, its connection closes or its process ends, the pull it
\* serves with it.
End ==
    /\ state' = [c \in Calls |-> "ended"]
    /\ asked' = 0 /\ late' = FALSE /\ told' = {}

\* Frames and work that are about no call.
Other == told' = {} /\ UNCHANGED <<state, asked, late>>

Next ==
    \/ \E c \in Calls : Issue(c) \/ Forget(c) \/ Ask(c)
    \/ Work \/ WorkLate \/ Tell \/ End \/ Other

Spec == Init /\ [][Next]_vars
=============================================================================
