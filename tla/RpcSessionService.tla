------------------------- MODULE RpcSessionService -------------------------
(* RpcSession implements CallService.                                      *)
EXTENDS RpcSession

\* How far a pushed call is, read off the export table.
StateOf(id) ==
    IF status # "open" THEN "ended"
    ELSE IF id >= nextExportId THEN "unissued"
    ELSE IF exports[id].phase = "operation" THEN "waiting"
    ELSE IF exports[id].phase # "result" THEN "gone"
    ELSE IF exports[id].result = Error THEN "error" ELSE "value"

State == [id \in PushIds |-> StateOf(id)]

\* Pulls of the session's own exports are not about a call.
Asks  == pulling.id \in PushIds
Asked == IF Asks THEN pulling.id ELSE 0
Late  == IF Asks THEN pulling.late ELSE FALSE

Answers == {k \in 1..Len(out) : out[k].type \in {"resolve", "reject"}}

Told == {[call |-> out[k].id, type |-> out[k].type] :
             k \in {j \in Answers : out[j].id \in PushIds}}

Service == INSTANCE CallService WITH
               state <- State, asked <- Asked, late <- Late, told <- Told

\* The session's pushes, tasks and pulls are steps of the abstract service: a call
\* has one outcome, a pull one answer, and the two agree.
ImplementsService == Service!Spec
=============================================================================
