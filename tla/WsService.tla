----------------------------- MODULE WsService -----------------------------
(* Each connection of a session that several share is a CallService of its  *)
(* own.                                                                     *)
EXTENDS WsEndpoint

\* How far a call of connection c is, read off its export table.
StateOf(c, id) ==
    IF phase[c] = "closed" THEN "ended"
    ELSE IF id >= nextExportId[c] THEN "unissued"
    ELSE IF calls[c][id] = "operation" THEN "waiting"
    ELSE IF calls[c][id] = "none" THEN "gone" ELSE calls[c][id]

State(c) == [id \in PushIds |-> StateOf(c, id)]

\* The pull being handled, if it is of connection c.
Serves(c) == handler.busy /\ handler.conn = c
Asked(c)  == IF Serves(c) THEN handler.pull ELSE 0
Late(c)   == IF Serves(c) THEN handler.late ELSE FALSE

Told(c) == {[call |-> out[k].id, type |-> out[k].type] :
                k \in {j \in DOMAIN out : out[j].conn = c /\ out[j].type \in {"resolve", "reject"}}}

Service(c) == INSTANCE CallService WITH
                  state <- State(c), asked <- Asked(c), late <- Late(c), told <- Told(c)

\* Under the endpoint a connection can tell that its session is shared only by being
\* closed: whatever the others push, abort or close, its own calls are accepted in
\* order, keep their one outcome, and each of its pulls has the answer of its call.
ImplementsServices ==
    /\ host = "endpoint" => \A c \in Conns : Service(c)!Init
    /\ [][host = "endpoint" => \A c \in Conns : [Service(c)!Next]_(Service(c)!vars)]_vars
=============================================================================
