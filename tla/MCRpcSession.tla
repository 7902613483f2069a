--------------------------- MODULE MCRpcSession ---------------------------
(* RpcSession on small instances, and a property that needs a sum over the *)
(* exports of an instance.                                                 *)
EXTENDS RpcSessionService, FiniteSets

LOCAL INSTANCE FiniteSetsExt

\* Values of Subjects.
AnySubject == {0} \cup Ids

\* Values of Pipes.
OnePipe   == {{}} \cup {{p} : p \in Ids}
WithFirst == OnePipe \cup {{1, p} : p \in PushIds}

\* Values of Returned.
ValueOrPromise == {Value, PromiseOf(Value)}
ValueOrStub    == {Value} \cup {StubOf(t) : t \in Targets}
                          \cup {PromiseOf(StubOf(t)) : t \in Targets \ {Main}}

\* The references on r that a bag per export holds.
Total(bags, r) == MapThenSumSet(LAMBDA id : bags[id][r], Ids)

\* dist/index.js:1700: a client takes a release of more references than it gave
\* for an error.  A reference is given back by the pull of the call that passed it
\* and, if it is a promise, by its settlement.
NeverOverReleased ==
    status = "open" => \A r \in ClientRefs :
        Total(released, r) + (IF r \in answered THEN 1 ELSE 0) <= Total(granted, r)
=============================================================================
