---------------------- MODULE RpcSessionExportProofs ----------------------
(* Theorems about the entries of RpcSession's export table: the client      *)
(* references they hold, and the target a stub's id leads to.               *)
EXTENDS RpcSessionQueueProofs

-----------------------------------------------------------------------------
(* Client references are given back once.                                  *)

\* The account of one export.
Balanced(id, r) ==
    LET accounted == released[id][r] + exports[id].refs[r] IN
    IF Found(exports, id) THEN accounted = granted[id][r]
                          ELSE accounted <= granted[id][r]

\* The inductive invariant: accounts balance, and ids not yet pushed, like the ids the
\* server chooses, have none.
AccountsBalance ==
    /\ \A id \in Ids, r \in ClientRefs : Balanced(id, r)
    /\ \A id \in Ids, r \in ClientRefs :
          id \in NegIds \/ (status = "open" /\ id >= nextExportId)
              => granted[id][r] = 0

\* An entry that keeps its references, or gives all of them back, stays balanced; an
\* erased one may have lost some.
LEMMA BalanceKept ==
    ASSUME TypeOK, NEW id \in Ids, NEW r \in ClientRefs, Balanced(id, r),
           granted' = granted, exports' \in [Ids -> Entry], released' \in [Ids -> Bags],
           exports[id].phase = "free" => exports'[id].phase = "free",
           \/ exports'[id].refs = exports[id].refs /\ released'[id] = released[id]
           \/ /\ exports'[id].refs = NoRefs
              /\ released'[id] = AddBags(released[id], exports[id].refs)
           \/ /\ exports'[id] = Free /\ released'[id] = released[id]
    PROVE  Balanced(id, r)'
<1>1. /\ exports[id].refs[r] \in Nat /\ released[id][r] \in Nat /\ granted[id][r] \in Nat
      /\ exports'[id].refs[r] \in Nat /\ released'[id][r] \in Nat
  BY DEF TypeOK, Entry, Bags
<1>2. \/ exports'[id].refs[r] = exports[id].refs[r] /\ released'[id][r] = released[id][r]
      \/ /\ exports'[id].refs[r] = 0
         /\ released'[id][r] = released[id][r] + exports[id].refs[r]
      \/ /\ exports'[id].phase = "free" /\ exports'[id].refs[r] = 0
         /\ released'[id][r] = released[id][r]
  BY DEF AddBags, NoRefs, Free
<1>3. Found(exports, id) <=> exports[id].phase # "free"
  BY DEF Found
<1>4. Found(exports, id)' <=> exports'[id].phase # "free"
  BY DEF Found
<1> QED
  BY <1>1, <1>2, <1>3, <1>4 DEF Balanced

\* An entry the server has just put under an id of its own holds nothing.
LEMMA NewEntryBalanced ==
    ASSUME TypeOK, AccountsBalance, NEW id \in NegIds, NEW r \in ClientRefs,
           granted' = granted, exports'[id].refs = NoRefs,
           released'[id] \in {released[id], AddBags(released[id], NoRefs)}
    PROVE  Balanced(id, r)'
<1>1. id \in Ids
  BY DEF Ids
<1>2. granted[id][r] = 0 /\ Balanced(id, r)
  BY <1>1 DEF AccountsBalance
<1>3. exports[id].refs[r] \in Nat /\ released[id][r] \in Nat
  BY <1>1 DEF TypeOK, Entry, Bags
<1>4. released[id][r] = 0
  BY <1>2, <1>3 DEF Balanced
<1>5. released'[id][r] = 0 /\ exports'[id].refs[r] = 0
  BY <1>4 DEF AddBags, NoRefs
<1> QED
  BY <1>2, <1>5 DEF Balanced

\* So does an entry a push has just put, with the references the push passed.
LEMMA PushedEntryBalanced ==
    ASSUME TypeOK, AccountsBalance, status = "open", NEW id \in PushIds, id = nextExportId,
           NEW args \in Bags, granted' = [granted EXCEPT ![id] = args],
           released' = released, exports'[id].refs = args, NEW r \in ClientRefs
    PROVE  Balanced(id, r)'
<1>1. id \in Ids /\ id >= nextExportId
  BY TablesAssumption DEF Ids, PushIds
<1>2. granted[id][r] = 0 /\ Balanced(id, r)
  BY <1>1 DEF AccountsBalance
<1>3. exports[id].refs[r] \in Nat /\ released[id][r] \in Nat
  BY <1>1 DEF TypeOK, Entry, Bags
<1>4. released'[id][r] = 0
  BY <1>2, <1>3 DEF Balanced
<1>5. granted'[id][r] = args[r] /\ args[r] \in Nat
  BY <1>1 DEF TypeOK, Bags
<1> QED
  BY <1>4, <1>5 DEF Balanced

\* A push grants what it passes to the entry it puts, and to no other.
LEMMA PushBalanced ==
    ASSUME TypeOK, TypeOK', AccountsBalance, Idle, nextExportId \in PushIds,
           NEW args \in Args, granted' = [granted EXCEPT ![nextExportId] = args],
           released' = released, NEW id \in Ids, NEW r \in ClientRefs,
           \/ id = nextExportId /\ exports'[id].refs = args
           \/ id # nextExportId /\ id \in NegIds /\ exports'[id].refs = NoRefs
           \/ /\ id # nextExportId /\ exports'[id].refs = exports[id].refs
              /\ exports[id].phase = "free" => exports'[id].phase = "free"
    PROVE  Balanced(id, r)'
<1>1. status = "open" /\ args \in Bags /\ Balanced(id, r)
  BY ArgsAreBags DEF Idle, AccountsBalance
<1>2. exports' \in [Ids -> Entry] /\ released' \in [Ids -> Bags] /\ granted \in [Ids -> Bags]
  BY DEF TypeOK
<1>3. CASE id = nextExportId
  <2>1. exports'[id].refs = args
    BY <1>3
  <2> QED
    BY <1>1, <1>3, <2>1, PushedEntryBalanced
<1>4. CASE id # nextExportId /\ id \in NegIds /\ exports'[id].refs = NoRefs
  <2>1. granted'[id] = granted[id]
    BY <1>2, <1>4
  <2>2. granted[id][r] = 0
    BY <1>4 DEF AccountsBalance
  <2>3. released[id][r] \in Nat /\ exports[id].refs[r] \in Nat
    BY DEF TypeOK, Entry, Bags
  <2>4. released[id][r] = 0
    BY <1>1, <2>2, <2>3 DEF Balanced
  <2> QED
    BY <1>4, <2>1, <2>2, <2>4 DEF Balanced, NoRefs
<1>5. CASE /\ id # nextExportId /\ exports'[id].refs = exports[id].refs
           /\ exports[id].phase = "free" => exports'[id].phase = "free"
  <2>1. granted'[id] = granted[id]
    BY <1>2, <1>5
  <2>2. Found(exports, id)' => Found(exports, id)
    BY <1>5 DEF Found
  <2>3. released[id][r] \in Nat /\ exports[id].refs[r] \in Nat /\ granted[id][r] \in Nat
    BY DEF TypeOK, Entry, Bags
  <2> QED
    BY <1>1, <1>5, <2>1, <2>2, <2>3 DEF Balanced
<1> QED
  BY <1>3, <1>4, <1>5

\* What a step does to the references of entry x.
GivenBack(x) ==
    \/ /\ x \in NegIds /\ exports'[x].refs = NoRefs
       /\ released'[x] \in {released[x], AddBags(released[x], NoRefs)}
    \/ /\ exports[x].phase = "free" => exports'[x].phase = "free"
       /\ \/ exports'[x].refs = exports[x].refs /\ released'[x] = released[x]
          \/ /\ exports'[x].refs = NoRefs
             /\ released'[x] = AddBags(released[x], exports[x].refs)
          \/ exports'[x] = Free /\ released'[x] = released[x]

\* Of the steps that grant nothing, each keeps an entry's references, gives them all
\* back, erases the entry, or puts a new one under an id of the server's.
LEMMA ReferenceSteps ==
    ASSUME TypeOK, Next, NEW x \in Ids
    PROVE  \/ granted' = granted /\ GivenBack(x)
           \/ \E subject \in Subjects, args \in Args, pipes \in Pipes :
                 ReceiveCall(subject, args, pipes)
           \/ \E base \in {0} \cup Ids, names \in Pipes, captures \in Args :
                 ReceiveRemap(base, names, captures)
<1>0. exports \in [Ids -> Entry] /\ released \in [Ids -> Bags] /\ Bare(NoHook).refs = NoRefs
  BY DEF TypeOK, Bare
<1> USE DEF GivenBack
<1>1. CASE RunTask \/ RunTaskUnresolved \/ RunTaskForeign
  <2>1. released' = released /\ granted' = granted
    BY <1>1 DEF RunTask, RunTaskUnresolved, RunTaskForeign, PopTask, refs
  <2> QED
    BY <1>0, <1>1, <2>1, TaskEntries DEF Taken
<1>2. CASE RunTaskReleased
  BY <1>2 DEF RunTaskReleased, PopTask, refs
<1>3. CASE RunLate
  <2>1. released' = released /\ granted' = granted
    BY <1>3 DEF RunLate, refs
  <2> QED
    BY <1>0, <1>3, <2>1, LateEntries DEF Taken
<1>4. CASE Answer
  <2>1. granted' = granted
    BY <1>4 DEF Answer, AnswerNotFound, AnswerThrow, AnswerError, AnswerValue,
                AnswerKnownStub, AnswerNewStub, AnswerPromise, AnsweringResult, Answering
  <2> QED
    BY <1>4, <2>1, AnswerEntries
<1>5. CASE \E id \in Ids, count \in 1..MaxRc : ReceiveRelease(id, count)
  <2>1. PICK id \in Ids, count \in 1..MaxRc : ReceiveRelease(id, count)
    BY <1>5
  <2>2. exports' = Release(exports, id, count) /\ UNCHANGED <<granted, released>>
    BY <2>1 DEF ReceiveRelease, refs
  <2>3. \/ exports'[x].refs = exports[x].refs /\ exports'[x].phase = exports[x].phase
        \/ exports'[x] = Free
    BY <1>0, <2>2 DEF Release, Entry
  <2>4. Free.phase = "free"
    BY DEF Free
  <2> QED
    BY <2>2, <2>3, <2>4
<1>6. CASE \E r \in ClientRefs : AppUsesClient(r)
  <2>1. /\ \E last \in Lasts : exports' = WithPromises(exports, last)
        /\ UNCHANGED <<granted, released>>
    BY <1>6 DEF AppUsesClient, refs
  <2> QED
    BY <1>0, <2>1, FreshAreFree DEF WithPromises
<1>7. CASE ReceiveAbort \/ ReceiveFatal
  <2>1. exports'[x] = Free /\ UNCHANGED <<granted, released>>
    BY <1>7 DEF ReceiveAbort, ReceiveFatal, Abort, refs
  <2>2. Free.phase = "free"
    BY DEF Free
  <2> QED
    BY <2>1, <2>2
<1>8. CASE Close
  <2>1. /\ exports'[x] = [exports[x] EXCEPT !.refs = NoRefs]
        /\ released'[x] = AddBags(released[x], exports[x].refs) /\ granted' = granted
    BY <1>8 DEF Close
  <2>2. exports'[x].phase = exports[x].phase /\ exports'[x].refs = NoRefs
    BY <1>0, <2>1 DEF Entry
  <2> QED
    BY <2>1, <2>2
<1>9. CASE \/ ReceiveOtherPush
           \/ \E id \in Ids : ReceivePull(id)
           \/ \E i \in CallIds \cup ClientPromises, type \in {"resolve", "reject"} :
                 ReceiveSettlement(i, type)
           \/ Crash \/ Ended
  BY <1>9 DEF ReceiveOtherPush, ReceivePull, ReceiveSettlement, Crash, Ended, refs, tables, vars
<1> QED
  BY <1>1, <1>2, <1>3, <1>4, <1>5, <1>6, <1>7, <1>8, <1>9
     DEF Next, Receive, Handle, RemapCrashes, TaskCrashes, LateCrashes

\* A session never opens again, and counts pushes up while it is open.
LEMMA StatusSteps ==
    ASSUME TypeOK, Next, status' = "open"
    PROVE  status = "open" /\ nextExportId' \in {nextExportId, nextExportId + 1}
<1>1. CASE Receive
  BY <1>1 DEF Receive, ReceiveCall, ReceiveOtherPush, ReceiveRemap, RemapCrashes, Crash,
              ReceivePull, ReceiveSettlement, ReceiveRelease, ReceiveAbort, ReceiveFatal,
              Abort, Idle, control, tables
<1>2. CASE RunTaskReleased \/ RunTaskUnresolved \/ RunTask \/ RunTaskForeign
  BY <1>2 DEF RunTaskReleased, RunTaskUnresolved, RunTask, RunTaskForeign, PopTask
<1>3. CASE TaskCrashes \/ LateCrashes
  BY <1>3 DEF TaskCrashes, LateCrashes, Crash
<1>4. CASE RunLate \/ Answer
  BY <1>4 DEF RunLate, Answer, AnswerNotFound, AnswerThrow, AnswerError, AnswerValue,
              AnswerKnownStub, AnswerNewStub, AnswerPromise, AnsweringResult, Answering
<1>5. CASE (\E r \in ClientRefs : AppUsesClient(r)) \/ Close \/ Ended
  BY <1>5 DEF AppUsesClient, Close, Ended, Idle, control, tables, vars
<1> QED
  BY <1>1, <1>2, <1>3, <1>4, <1>5 DEF Next, Handle

LEMMA AccountsBalanceInductive ==
    ASSUME TypeOK, TypeOK', AccountsBalance, [Next]_vars
    PROVE  AccountsBalance'
<1>0. /\ nextExportId \in Nat /\ granted \in [Ids -> Bags]
      /\ exports' \in [Ids -> Entry] /\ released' \in [Ids -> Bags]
      /\ \A id \in Ids : id \in NegIds \/ id \in PushIds
  BY TablesAssumption DEF TypeOK, Ids
<1>1. ASSUME granted' = granted, NEW id \in Ids, NEW r \in ClientRefs, GivenBack(id)
      PROVE  Balanced(id, r)'
  <2>1. Balanced(id, r)
    BY DEF AccountsBalance
  <2> QED
    BY <1>0, <1>1, <2>1, BalanceKept, NewEntryBalanced DEF GivenBack
<1>2. ASSUME granted' = granted, status' = "open" => status = "open" /\ nextExportId' \in Nat
                                                   /\ nextExportId' >= nextExportId
      PROVE  \A id \in Ids, r \in ClientRefs :
                id \in NegIds \/ (status' = "open" /\ id >= nextExportId')
                    => granted'[id][r] = 0
  <2> SUFFICES ASSUME NEW id \in Ids, NEW r \in ClientRefs,
                      id \in NegIds \/ (status' = "open" /\ id >= nextExportId')
               PROVE  granted[id][r] = 0
    BY <1>2
  <2>1. id \in PushIds => id \in Nat
    BY PushesAreNotNegative
  <2> QED
    BY <1>0, <1>2, <2>1 DEF AccountsBalance
<1>3. ASSUME NEW args \in Args, granted' = [granted EXCEPT ![nextExportId] = args],
             released' = released, Idle, nextExportId \in PushIds,
             nextExportId' = nextExportId + 1, status' = status,
             \A x \in Ids : \/ x = nextExportId /\ exports'[x].refs = args
                            \/ x # nextExportId /\ x \in NegIds /\ exports'[x].refs = NoRefs
                            \/ /\ x # nextExportId /\ exports'[x].refs = exports[x].refs
                               /\ exports[x].phase = "free" => exports'[x].phase = "free"
      PROVE  AccountsBalance'
  <2>1. \A id \in Ids, r \in ClientRefs : Balanced(id, r)'
    BY <1>3, PushBalanced
  <2>2. ASSUME NEW id \in Ids, NEW r \in ClientRefs,
               id \in NegIds \/ (status' = "open" /\ id >= nextExportId')
        PROVE  granted'[id][r] = 0
    <3>1. id \in PushIds => id \in Nat /\ id \notin NegIds
      BY PushesAreNotNegative
    <3>2. id # nextExportId
      BY <1>0, <1>3, <2>2, <3>1, PushesAreNotNegative
    <3>3. granted'[id] = granted[id]
      BY <1>0, <1>3, <3>2
    <3>4. id \in NegIds \/ (status = "open" /\ id >= nextExportId)
      BY <1>0, <1>3, <2>2, <3>1
    <3> QED
      BY <3>3, <3>4 DEF AccountsBalance
  <2> QED
    BY <2>1, <2>2 DEF AccountsBalance
<1>4. ASSUME NEW subject \in Subjects, NEW args \in Args, NEW pipes \in Pipes,
             ReceiveCall(subject, args, pipes)
      PROVE  AccountsBalance'
  <2>1. /\ exports' = Put(exports, nextExportId, Operation(CalleeOf(subject), args, pipes))
        /\ nextExportId \in Ids /\ exports \in [Ids -> Entry]
    BY <1>4, PushesAreNotNegative DEF ReceiveCall, TypeOK
  <2>2. \A x \in Ids : \/ x = nextExportId /\ exports'[x].refs = args
                       \/ x # nextExportId /\ exports'[x] = exports[x]
    BY <2>1 DEF Put, Operation
  <2>3. /\ granted' = [granted EXCEPT ![nextExportId] = args] /\ released' = released
        /\ Idle /\ nextExportId \in PushIds /\ nextExportId' = nextExportId + 1
        /\ status' = status
    BY <1>4 DEF ReceiveCall
  <2> QED
    BY <1>3, <2>2, <2>3
<1>5. ASSUME NEW base \in {0} \cup Ids, NEW names \in Pipes, NEW captures \in Args,
             ReceiveRemap(base, names, captures)
      PROVE  AccountsBalance'
  <2>1. /\ granted' = [granted EXCEPT ![nextExportId] = captures] /\ released' = released
        /\ Idle /\ nextExportId \in PushIds /\ nextExportId' = nextExportId + 1
        /\ status' = status
    BY <1>5 DEF ReceiveRemap, control
  <2>2. Bare(NoHook).refs = NoRefs
    BY DEF Bare
  <2>3. \A x \in Ids : \/ x = nextExportId /\ exports'[x].refs = captures
                       \/ x # nextExportId /\ x \in NegIds /\ exports'[x].refs = NoRefs
                       \/ /\ x # nextExportId /\ exports'[x].refs = exports[x].refs
                          /\ exports[x].phase = "free" => exports'[x].phase = "free"
    BY <1>5, <2>1, <2>2, RemapEntries, PushesAreNotNegative DEF Taken
  <2> QED
    BY <1>3, <2>1, <2>3
<1>6. CASE Next /\ granted' = granted /\ \A x \in Ids : GivenBack(x)
  <2>1. status' = "open" => status = "open" /\ nextExportId' \in Nat
                            /\ nextExportId' >= nextExportId
    BY <1>0, <1>6, StatusSteps
  <2>2. \A id \in Ids, r \in ClientRefs : Balanced(id, r)'
    BY <1>1, <1>6
  <2> QED
    BY <1>2, <1>6, <2>1, <2>2 DEF AccountsBalance
<1>7. CASE UNCHANGED vars
  BY <1>7 DEF vars, tables, control, refs, AccountsBalance, Balanced, Found
<1>8. 1 \in Ids
  BY TablesAssumption DEF Ids, PushIds
<1>9. \/ \E subject \in Subjects, args \in Args, pipes \in Pipes :
            ReceiveCall(subject, args, pipes)
      \/ \E base \in {0} \cup Ids, names \in Pipes, captures \in Args :
                 ReceiveRemap(base, names, captures)
      \/ Next /\ granted' = granted /\ \A x \in Ids : GivenBack(x)
      \/ UNCHANGED vars
  BY <1>8, ReferenceSteps
<1> QED
  BY <1>4, <1>5, <1>6, <1>7, <1>9

\* Whatever a client releases, pulls and pushes, and whenever the connection closes,
\* each reference it passed to a call is given back at most once, and while the
\* call's export exists, what was given back and what is still to be given back are
\* what the call passed (session_state.h:38, transport.h:19-34, rpc_session.cpp:127).
THEOREM ReferencesAreAccounted == Spec => []ReferenceAccounts
<1>1. Init => AccountsBalance
  <2> SUFFICES ASSUME Init PROVE AccountsBalance
    OBVIOUS
  <2>1. \A id \in Ids, r \in ClientRefs :
           granted[id][r] = 0 /\ released[id][r] = 0 /\ exports[id].refs[r] = 0
    BY DEF Init, NoRefs, Free
  <2> QED
    BY <2>1 DEF AccountsBalance, Balanced
<1>2. TypeOK /\ TypeOK' /\ AccountsBalance /\ [Next]_vars => AccountsBalance'
  BY AccountsBalanceInductive
<1>3. AccountsBalance => ReferenceAccounts
  BY DEF AccountsBalance, ReferenceAccounts, Balanced
<1> QED
  BY <1>1, <1>2, <1>3, TypeCorrect, PTL DEF Spec

-----------------------------------------------------------------------------
(* Every target a result carries is registered.                            *)

\* The targets of a result, other than the main one, are in the registry.
Registers(result, registry) ==
    \A t \in Targets \ {Main} :
        result \in {StubOf(t), PromiseOf(StubOf(t))} => t \in registry

ResultsAreRegistered == \A id \in Ids : Registers(exports[id].result, targetRegistry)

LEMMA PlainResultsRegister ==
    ASSUME NEW registry
    PROVE  /\ Registers(None, registry) /\ Registers(Value, registry)
           /\ Registers(Error, registry) /\ \A n : Registers(PromiseRef(n), registry)
<1>1. ASSUME NEW t
      PROVE  /\ StubOf(t).kind = "stub" /\ PromiseOf(StubOf(t)).kind = "promise"
  BY DEF StubOf, PromiseOf
<1>2. /\ None.kind = "none" /\ Value.kind = "value" /\ Error.kind = "error"
      /\ \A n : PromiseRef(n).kind = "promiseRef"
  BY DEF None, Value, Error, PromiseRef
<1> QED
  BY <1>1, <1>2 DEF Registers

\* The payload of a promise is a target's stub only if the promise carries it.
LEMMA PayloadsRegister ==
    ASSUME NEW result \in Results, result.kind = "promise", NEW registry,
           Registers(result, registry)
    PROVE  Registers(result.payload, registry)
<1>1. PICK p \in Payloads : result = PromiseOf(p)
  <2>1. \A t : StubOf(t).kind = "stub"
    BY DEF StubOf
  <2>2. None.kind = "none" /\ Value.kind = "value" /\ Error.kind = "error"
    BY DEF None, Value, Error
  <2>3. \A n : PromiseRef(n).kind = "promiseRef"
    BY DEF PromiseRef
  <2> QED
    BY <2>1, <2>2, <2>3 DEF Results, Returns, Payloads
<1>2. result.payload = p
  BY <1>1 DEF PromiseOf
<1> SUFFICES ASSUME NEW t \in Targets \ {Main}, p \in {StubOf(t), PromiseOf(StubOf(t))}
             PROVE  t \in registry
  BY <1>2 DEF Registers
<1>3. p # PromiseOf(StubOf(t))
  <2>1. PromiseOf(StubOf(t)).kind = "promise"
    BY DEF PromiseOf
  <2>2. p.kind # "promise"
    BY DEF Payloads, Value, Error, StubOf
  <2> QED
    BY <2>1, <2>2
<1> QED
  BY <1>1, <1>3 DEF Registers

LEMMA RegistryGrows ==
    ASSUME NEW result, NEW registry, NEW larger, registry \subseteq larger,
           Registers(result, registry)
    PROVE  Registers(result, larger)
BY DEF Registers

\* exportTarget registers what a method returns; what it copies was registered.
LEMMA MethodBodyRegisters ==
    ASSUME NEW table \in [Ids -> Entry], NEW id \in Ids, NEW copied,
           \A c \in copied : Registers(c, targetRegistry),
           \A x \in Ids : Registers(table[x].result, targetRegistry),
           MethodBody(table, id, copied)
    PROVE  ResultsAreRegistered' /\ targetRegistry \subseteq targetRegistry'
<1>1. ASSUME NEW result, NEW x \in Ids
      PROVE  SetResult(table, id, result)[x].result = IF x = id THEN result ELSE table[x].result
  BY DEF SetResult, Entry
<1>0. PICK last \in Lasts :
         \E result \in Returns \cup copied \cup {PromiseRef(n) : n \in FreshExports(last)} :
            /\ exports' = WithPromises(SetResult(table, id, result), last)
            /\ targetRegistry' = targetRegistry \cup {t \in Targets \ {Main} :
                   result \in {StubOf(t), PromiseOf(StubOf(t))}}
  BY MethodBodyParts
<1>2. PICK result \in Returns \cup copied \cup {PromiseRef(n) : n \in FreshExports(last)} :
         /\ exports' = WithPromises(SetResult(table, id, result), last)
         /\ targetRegistry' = targetRegistry \cup {t \in Targets \ {Main} :
                result \in {StubOf(t), PromiseOf(StubOf(t))}}
  BY <1>0
<1>3. targetRegistry \subseteq targetRegistry'
  BY <1>2
<1>4. Registers(result, targetRegistry')
  BY <1>2 DEF Registers
<1>5. ASSUME NEW x \in Ids PROVE Registers(exports'[x].result, targetRegistry')
  <2>1. Bare(NoHook).result = None
    BY DEF Bare
  <2>2. exports'[x] \in {SetResult(table, id, result)[x], Bare(NoHook)}
    BY <1>2 DEF WithPromises
  <2> QED
    BY <1>1, <1>3, <1>4, <2>1, <2>2, PlainResultsRegister, RegistryGrows
<1> QED
  BY <1>3, <1>5 DEF ResultsAreRegistered

\* What the references of a call or a remap read.
LEMMA CachedRegisters ==
    ASSUME TypeOK, ResultsAreRegistered, NEW early
    PROVE  /\ Cached(early) \in [Ids -> Entry]
           /\ \A x \in Ids : Registers(Cached(early)[x].result, targetRegistry)
           /\ \A ids : \A c \in ResultsOf(Cached(early), ids) : Registers(c, targetRegistry)
<1>1. Cached(early) \in [Ids -> Entry]
  BY CachedStaysTyped DEF TypeOK
<1>2. ASSUME NEW x \in Ids PROVE Registers(Cached(early)[x].result, targetRegistry)
  <2>1. Cached(early)[x].result \in {exports[x].result, Value}
    BY DEF Cached, TypeOK, Entry
  <2> QED
    BY <2>1, PlainResultsRegister DEF ResultsAreRegistered
<1>3. ASSUME NEW ids, NEW c \in ResultsOf(Cached(early), ids)
      PROVE  Registers(c, targetRegistry)
  <2>1. PICK p \in Ids : c = Cached(early)[p].result
    BY <1>3 DEF ResultsOf, HasResult
  <2> QED
    BY <1>2, <2>1
<1> QED
  BY <1>1, <1>2, <1>3

LEMMA TaskRegisters ==
    ASSUME TypeOK, ResultsAreRegistered, RunTask \/ RunTaskUnresolved \/ RunTaskForeign
    PROVE  ResultsAreRegistered' /\ targetRegistry \subseteq targetRegistry'
<1>1. Head(microtasks).id \in Ids
  BY PipesTyped DEF RunTask, RunTaskUnresolved, RunTaskForeign, PopTask, TasksRun, Ids
<1>2. CASE RunTask
  <2> DEFINE read == Cached(Pending(Head(microtasks).pipes))
  <2> DEFINE copied == ResultsOf(read, Head(microtasks).pipes)
  <2>1. MethodBody(read, Head(microtasks).id, copied)
    BY <1>2 DEF RunTask
  <2>2. /\ read \in [Ids -> Entry]
        /\ \A x \in Ids : Registers(read[x].result, targetRegistry)
        /\ \A c \in copied : Registers(c, targetRegistry)
    BY CachedRegisters
  <2> HIDE DEF read, copied
  <2> QED
    BY <1>1, <2>1, <2>2, MethodBodyRegisters
<1>3. CASE RunTaskUnresolved
  <2>1. PICK early : exports' = SetResult(Cached(early), Head(microtasks).id, Error)
    BY <1>3 DEF RunTaskUnresolved
  <2>2. targetRegistry' = targetRegistry /\ Cached(early) \in [Ids -> Entry]
    BY <1>3, CachedRegisters DEF RunTaskUnresolved
  <2>3. ASSUME NEW x \in Ids PROVE Registers(exports'[x].result, targetRegistry)
    <3>1. exports'[x].result \in {Cached(early)[x].result, Error}
      BY <1>1, <2>1, <2>2 DEF SetResult, Entry
    <3> QED
      BY <3>1, CachedRegisters, PlainResultsRegister
  <2> QED
    BY <2>2, <2>3 DEF ResultsAreRegistered
<1>4. CASE RunTaskForeign
  <2>1. PICK early : exports' = Cached(early) /\ targetRegistry' = targetRegistry
    BY <1>4 DEF RunTaskForeign
  <2> QED
    BY <2>1, CachedRegisters DEF ResultsAreRegistered
<1> QED
  BY <1>2, <1>3, <1>4

LEMMA LateRegisters ==
    ASSUME TypeOK, ResultsAreRegistered, RunLate
    PROVE  ResultsAreRegistered' /\ targetRegistry \subseteq targetRegistry'
<1> DEFINE read == Cached(Pending(Refs(pulling.id)))
<1> DEFINE copied == ResultsOf(read, Refs(pulling.id))
<1>1. MethodBody(read, pulling.id, copied) /\ pulling.id \in Ids
  BY DEF RunLate, LateRuns, HasOperation
<1>2. /\ read \in [Ids -> Entry]
      /\ \A x \in Ids : Registers(read[x].result, targetRegistry)
      /\ \A c \in copied : Registers(c, targetRegistry)
  BY CachedRegisters
<1> HIDE DEF read, copied
<1> QED
  BY <1>1, <1>2, MethodBodyRegisters

LEMMA RemapRegisters ==
    ASSUME TypeOK, ResultsAreRegistered, NEW base \in {0} \cup Ids, NEW names \in Pipes,
           NEW captures \in Args, ReceiveRemap(base, names, captures)
    PROVE  ResultsAreRegistered' /\ targetRegistry \subseteq targetRegistry'
<1>1. nextExportId \in Ids
  BY DEF ReceiveRemap, Ids
<1>2. PICK early \in Ran({base} \cup names) :
         MethodBody(Put(Cached(early), nextExportId, Finished(None, NoHook, captures)),
                    nextExportId, ResultsOf(Cached(early), {base} \cup names))
  BY DEF ReceiveRemap
<1> DEFINE read == Cached(early)
<1> DEFINE table == Put(read, nextExportId, Finished(None, NoHook, captures))
<1> DEFINE copied == ResultsOf(read, {base} \cup names)
<1>3. /\ read \in [Ids -> Entry]
      /\ \A x \in Ids : Registers(read[x].result, targetRegistry)
      /\ \A c \in copied : Registers(c, targetRegistry)
  BY CachedRegisters
<1>4. table \in [Ids -> Entry]
  BY <1>1, <1>3, ArgsAreBags, ResultKinds, FreshEntries, PutTyped
<1>5. \A x \in Ids : Registers(table[x].result, targetRegistry)
  <2> SUFFICES ASSUME NEW x \in Ids PROVE Registers(table[x].result, targetRegistry)
    OBVIOUS
  <2>1. table[x].result \in {read[x].result, None}
    BY <1>3 DEF Put, Finished
  <2> QED
    BY <1>3, <2>1, PlainResultsRegister
<1>6. MethodBody(table, nextExportId, copied)
  BY <1>2
<1> HIDE DEF read, table, copied
<1> QED
  BY <1>1, <1>3, <1>4, <1>5, <1>6, MethodBodyRegisters

LEMMA AnswerRegisters ==
    ASSUME TypeOK, ResultsAreRegistered, Answer
    PROVE  ResultsAreRegistered' /\ targetRegistry' = targetRegistry
<1>1. targetRegistry' = targetRegistry
  BY DEF Answer, AnswerNotFound, AnswerThrow, AnswerError, AnswerValue, AnswerKnownStub,
         AnswerNewStub, AnswerPromise, AnsweringResult, Answering
<1>2. pulling.id \in Ids /\ exports \in [Ids -> Entry]
  BY AnswerEntries, TablesAssumption DEF TypeOK, Ids, PushIds
<1>3. ASSUME NEW x \in Ids PROVE Registers(exports'[x].result, targetRegistry)
  <2>1. CASE exports'[x].result \in {exports[x].result, Value, None}
    BY <2>1, PlainResultsRegister DEF ResultsAreRegistered
  <2>2. CASE (AnswerNewStub \/ AnswerPromise) /\ x = nextExportIdNegative
    <3> DEFINE payload == exports[pulling.id].result.payload
    <3>1. PICK entry \in Entry : /\ \E frame : Reply(Put(Sent(exports), x, entry), frame)
                                  /\ \/ entry.result = None
                                     \/ /\ exports[pulling.id].result.kind = "promise"
                                        /\ entry.result = payload
      <4>1. CASE AnswerNewStub
        <5>1. PICK t \in Targets : Reply(Put(Sent(exports), x, Bare(StubHook(t))),
                                        Resolve(Export(x)))
          BY <2>2, <4>1 DEF AnswerNewStub
        <5>2. Bare(StubHook(t)) \in Entry /\ Bare(StubHook(t)).result = None
          BY FreshEntries, TablesAssumption DEF StubHook, Bare
        <5> QED
          BY <5>1, <5>2
      <4>2. CASE AnswerPromise
        <5> DEFINE entry == Finished(payload, Main, NoRefs)
        <5>1. exports[pulling.id].result \in Results
          BY <1>2 DEF Entry
        <5>2. entry \in Entry /\ entry.result = payload
          BY <4>2, <5>1, ResultKinds, FreshEntries, TablesAssumption
             DEF AnswerPromise, Finished
        <5> QED
          BY <2>2, <4>2, <5>2 DEF AnswerPromise
      <4> QED
        BY <2>2, <4>1, <4>2
    <3>2. PICK frame : Reply(Put(Sent(exports), x, entry), frame)
      BY <3>1
    <3>3. Sent(exports) \in [Ids -> Entry]
      BY <1>2, ClearResultTyped DEF Sent
    <3>4. Put(Sent(exports), x, entry) \in [Ids -> Entry]
          /\ Put(Sent(exports), x, entry)[x] = entry
      BY <3>3, PutTyped DEF Put
    <3>5. exports'[x].result = entry.result
      BY <1>2, <3>2, <3>4, ReplyEntries
    <3>6. Registers(exports[pulling.id].result, targetRegistry)
          /\ exports[pulling.id].result \in Results
      BY <1>2 DEF ResultsAreRegistered, Entry
    <3> QED
      BY <3>1, <3>5, <3>6, PayloadsRegister, PlainResultsRegister
  <2>3. \/ exports'[x].result \in {exports[x].result, Value, None}
        \/ (AnswerNewStub \/ AnswerPromise) /\ x = nextExportIdNegative
    BY AnswerEntries
  <2> QED
    BY <2>1, <2>2, <2>3
<1> QED
  BY <1>1, <1>3 DEF ResultsAreRegistered

LEMMA ResultsAreRegisteredInductive ==
    ASSUME TypeOK, ResultsAreRegistered, [Next]_vars
    PROVE  ResultsAreRegistered'
<1>0. exports \in [Ids -> Entry]
  BY DEF TypeOK
<1>1. ASSUME targetRegistry' = targetRegistry,
             \A x \in Ids : exports'[x].result \in {exports[x].result, None}
      PROVE  ResultsAreRegistered'
  BY <1>1, PlainResultsRegister DEF ResultsAreRegistered
<1>2. CASE RunTask \/ RunTaskUnresolved \/ RunTaskForeign
  BY <1>2, TaskRegisters
<1>3. CASE \E base \in {0} \cup Ids, names \in Pipes, captures \in Args :
                 ReceiveRemap(base, names, captures)
  BY <1>3, RemapRegisters
<1>4. CASE RunLate
  BY <1>4, LateRegisters
<1>5. CASE Answer
  BY <1>5, AnswerRegisters
<1>6. CASE \E subject \in Subjects, args \in Args, pipes \in Pipes :
              ReceiveCall(subject, args, pipes)
  <2>1. PICK subject \in Subjects, args \in Args, pipes \in Pipes :
           /\ exports' = Put(exports, nextExportId, Operation(CalleeOf(subject), args, pipes))
           /\ targetRegistry' = targetRegistry
    BY <1>6 DEF ReceiveCall
  <2>2. Operation(CalleeOf(subject), args, pipes).result = None
    BY DEF Operation
  <2> QED
    BY <1>0, <1>1, <2>1, <2>2 DEF Put
<1>7. CASE \E id \in Ids, count \in 1..MaxRc : ReceiveRelease(id, count)
  <2>1. PICK id \in Ids, count \in 1..MaxRc :
           exports' = Release(exports, id, count) /\ targetRegistry' = targetRegistry
    BY <1>7 DEF ReceiveRelease
  <2>2. \A x \in Ids : exports'[x].result \in {exports[x].result, None}
    BY <1>0, <2>1 DEF Release, Free, Entry
  <2> QED
    BY <1>1, <2>1, <2>2
<1>8. CASE \E r \in ClientRefs : AppUsesClient(r)
  <2>1. PICK last : exports' = WithPromises(exports, last) /\ targetRegistry' = targetRegistry
    BY <1>8 DEF AppUsesClient
  <2>2. Bare(NoHook).result = None
    BY DEF Bare
  <2> QED
    BY <1>0, <1>1, <2>1, <2>2 DEF WithPromises
<1>9. CASE ReceiveAbort \/ ReceiveFatal
  <2>1. \A x \in Ids : exports'[x].result = None
    BY <1>9 DEF ReceiveAbort, ReceiveFatal, Abort, Free
  <2> QED
    BY <2>1, PlainResultsRegister DEF ResultsAreRegistered
<1>10. CASE Close
  BY <1>0, <1>1, <1>10 DEF Close, Entry
<1>11. CASE \/ ReceiveOtherPush
            \/ \E id \in Ids : ReceivePull(id)
            \/ \E i \in CallIds \cup ClientPromises, type \in {"resolve", "reject"} :
                  ReceiveSettlement(i, type)
            \/ RunTaskReleased \/ Crash
            \/ UNCHANGED vars
  BY <1>1, <1>11 DEF ReceiveOtherPush, ReceivePull, ReceiveSettlement, RunTaskReleased,
                     Crash, vars, tables
<1> QED
  BY <1>2, <1>3, <1>4, <1>5, <1>6, <1>7, <1>8, <1>9, <1>10, <1>11
     DEF Next, Receive, Handle, RemapCrashes, TaskCrashes, LateCrashes, Ended

-----------------------------------------------------------------------------
(* A stub's id leads to its target.                                        *)

\* The inductive invariant over the ids targetExportId holds: they were allocated,
\* lead to their targets while they exist, and are distinct.
StubsAreBound ==
    /\ \A t \in Targets : targetExportId[t] # 0 =>
          /\ targetExportId[t] > nextExportIdNegative
          /\ \/ exports[targetExportId[t]].phase = "free"
             \/ exports[targetExportId[t]].hook = t
    /\ \A t, u \in Targets :
          targetExportId[t] # 0 /\ targetExportId[t] = targetExportId[u] => t = u

\* An entry under an id of the server's keeps its hook until it is erased.
LEMMA HookSteps ==
    ASSUME TypeOK, Next, NEW x \in NegIds
    PROVE  \/ x <= nextExportIdNegative
           \/ exports'[x].phase = "free"
           \/ exports'[x].hook = exports[x].hook /\ exports[x].phase # "free"
<1>0. exports \in [Ids -> Entry] /\ x \in Ids /\ x \notin PushIds /\ Free.phase = "free"
  BY PushesAreNotNegative DEF TypeOK, Ids, Free
<1>1. CASE RunTask \/ RunTaskUnresolved \/ RunTaskForeign
  BY <1>0, <1>1, TaskEntries DEF Taken
<1>2. CASE \E base \in {0} \cup Ids, names \in Pipes, captures \in Args :
                 ReceiveRemap(base, names, captures)
  <2>1. x # nextExportId
    BY <1>0, <1>2 DEF ReceiveRemap
  <2> QED
    BY <1>0, <1>2, <2>1, RemapEntries DEF Taken
<1>3. CASE RunLate
  BY <1>0, <1>3, LateEntries DEF Taken
<1>4. CASE Answer
  <2>1. x = nextExportIdNegative => x <= nextExportIdNegative
    BY TablesAssumption DEF NegIds
  <2> QED
    BY <1>0, <1>4, <2>1, AnswerEntries
<1>5. CASE \E subject \in Subjects, args \in Args, pipes \in Pipes :
              ReceiveCall(subject, args, pipes)
  <2>1. x # nextExportId
    BY <1>0, <1>5 DEF ReceiveCall
  <2>2. exports'[x] = exports[x]
    BY <1>0, <1>5, <2>1 DEF ReceiveCall, Put
  <2> QED
    BY <2>2
<1>6. CASE \E id \in Ids, count \in 1..MaxRc : ReceiveRelease(id, count)
  <2>1. PICK id \in Ids, count \in 1..MaxRc : exports' = Release(exports, id, count)
    BY <1>6 DEF ReceiveRelease
  <2>2. \/ exports'[x].hook = exports[x].hook /\ exports'[x].phase = exports[x].phase
        \/ exports'[x] = Free
    BY <1>0, <2>1 DEF Release, Entry
  <2> QED
    BY <1>0, <2>2
<1>7. CASE \E r \in ClientRefs : AppUsesClient(r)
  <2>1. PICK last \in Lasts : exports' = WithPromises(exports, last)
    BY <1>7 DEF AppUsesClient
  <2>2. x \in FreshExports(last) => x <= nextExportIdNegative
    BY DEF FreshExports
  <2> QED
    BY <1>0, <2>1, <2>2 DEF WithPromises
<1>8. CASE ReceiveAbort \/ ReceiveFatal
  BY <1>0, <1>8 DEF ReceiveAbort, ReceiveFatal, Abort
<1>9. CASE Close
  <2>1. exports'[x].hook = exports[x].hook /\ exports'[x].phase = exports[x].phase
    BY <1>0, <1>9 DEF Close, Entry
  <2> QED
    BY <2>1
<1>10. CASE \/ ReceiveOtherPush
            \/ \E id \in Ids : ReceivePull(id)
            \/ \E i \in CallIds \cup ClientPromises, type \in {"resolve", "reject"} :
                  ReceiveSettlement(i, type)
            \/ RunTaskReleased \/ Crash
            \/ Ended
  BY <1>10 DEF ReceiveOtherPush, ReceivePull, ReceiveSettlement, RunTaskReleased,
               Crash, Ended, vars, tables
<1> QED
  BY <1>1, <1>2, <1>3, <1>4, <1>5, <1>6, <1>7, <1>8, <1>9, <1>10
     DEF Next, Receive, Handle, RemapCrashes, TaskCrashes, LateCrashes

\* Only an answer with a new stub gives a target its id; an abort forgets them all.
LEMMA TargetIdSteps ==
    ASSUME TypeOK, Next
    PROVE  \/ AnswerNewStub
           \/ /\ ReceiveAbort \/ ReceiveFatal
              /\ \A t \in Targets : targetExportId'[t] = 0
           \/ /\ UNCHANGED targetExportId
              /\ nextExportIdNegative' <= nextExportIdNegative
<1>0. nextExportIdNegative \in Int /\ nextExportIdNegative <= nextExportIdNegative
  BY TablesAssumption DEF TypeOK
<1>1. ASSUME NEW table, NEW id, NEW copied, MethodBody(table, id, copied)
      PROVE  nextExportIdNegative' <= nextExportIdNegative
  BY <1>1, MethodBodyParts, FreshAreFree DEF UseClient, AllocateExports
<1>2. CASE RunTask \/ RunLate
  BY <1>1, <1>2 DEF RunTask, RunLate, PopTask
<1>3. CASE \E base \in {0} \cup Ids, names \in Pipes, captures \in Args :
                 ReceiveRemap(base, names, captures)
  BY <1>1, <1>3 DEF ReceiveRemap
<1>4. CASE RunTaskReleased \/ RunTaskUnresolved \/ RunTaskForeign
  BY <1>0, <1>4 DEF RunTaskReleased, RunTaskUnresolved, RunTaskForeign, PopTask
<1>5. CASE Answer
  BY <1>0, <1>5 DEF Answer, AnswerNotFound, AnswerThrow, AnswerError, AnswerValue,
              AnswerKnownStub, AnswerPromise
<1>6. CASE ReceiveAbort \/ ReceiveFatal
  BY <1>6 DEF ReceiveAbort, ReceiveFatal, Abort
<1>7. CASE \E r \in ClientRefs : AppUsesClient(r)
  BY <1>7, AppUsesAreUses, FreshAreFree DEF AppUsesClient, UseClient, AllocateExports
<1>8. CASE \/ \E subject \in Subjects, args \in Args, pipes \in Pipes :
                 ReceiveCall(subject, args, pipes)
           \/ ReceiveOtherPush
           \/ \E id \in Ids : ReceivePull(id)
           \/ \E i \in CallIds \cup ClientPromises, type \in {"resolve", "reject"} :
                 ReceiveSettlement(i, type)
           \/ \E id \in Ids, count \in 1..MaxRc : ReceiveRelease(id, count)
           \/ Close \/ Crash \/ Ended
  BY <1>0, <1>8 DEF ReceiveCall, ReceiveOtherPush, ReceivePull, ReceiveSettlement,
              ReceiveRelease, Close, Crash, Ended, vars, tables
<1> QED
  BY <1>2, <1>3, <1>4, <1>5, <1>6, <1>7, <1>8
     DEF Next, Receive, Handle, RemapCrashes, TaskCrashes, LateCrashes

\* A new stub is bound to the target it stands for, registered or main.
LEMMA NewStubHook ==
    ASSUME TypeOK, ResultsAreRegistered, AnswerNewStub
    PROVE  \E t \in Targets :
              /\ nextExportIdNegative \in NegIds /\ targetExportId[t] = 0
              /\ targetExportId' = [targetExportId EXCEPT ![t] = nextExportIdNegative]
              /\ nextExportIdNegative' = nextExportIdNegative - 1
              /\ exports'[nextExportIdNegative].hook = t
<1> DEFINE n == nextExportIdNegative
<1>1. PICK t \in Targets :
         /\ exports[pulling.id].result = StubOf(t) /\ targetExportId[t] = 0
         /\ Reply(Put(Sent(exports), n, Bare(StubHook(t))), Resolve(Export(n)))
         /\ targetExportId' = [targetExportId EXCEPT ![t] = n]
  BY DEF AnswerNewStub
<1>2. /\ n \in NegIds /\ n \in Ids /\ n - 1 = nextExportIdNegative' /\ pulling.id \in Ids
      /\ exports \in [Ids -> Entry]
  BY DEF AnswerNewStub, RoomForExport, Ids, AnsweringResult, HasResult, TypeOK
<1>3. StubHook(t) = t
  BY <1>1, <1>2 DEF StubHook, ResultsAreRegistered, Registers
<1>4. Bare(t) \in Entry /\ Bare(t).hook = t
  BY FreshEntries DEF Bare
<1>5. Sent(exports) \in [Ids -> Entry]
  BY <1>2, ClearResultTyped DEF Sent
<1>6. /\ Put(Sent(exports), n, Bare(t)) \in [Ids -> Entry]
      /\ Put(Sent(exports), n, Bare(t))[n] = Bare(t)
  BY <1>2, <1>4, <1>5, PutTyped DEF Put
<1>7. exports'[n].hook = t
  <2> HIDE DEF n
  <2> QED
    BY <1>1, <1>2, <1>3, <1>4, <1>6, ReplyEntries
<1> QED
  BY <1>1, <1>2, <1>7

LEMMA StubsAreBoundInductive ==
    ASSUME TypeOK, TypeOK', ResultsAreRegistered, StubsAreBound, [Next]_vars
    PROVE  StubsAreBound'
<1>0. /\ nextExportIdNegative \in Int /\ NegIds \subseteq Int /\ 0 \notin NegIds
      /\ targetExportId \in [Targets -> NegIds \cup {0}]
      /\ \A t \in Targets : targetExportId[t] \in Int
  BY TablesAssumption DEF TypeOK, NegIds
<1>1. ASSUME Next, NEW t \in Targets, targetExportId[t] # 0
      PROVE  \/ exports'[targetExportId[t]].phase = "free"
             \/ exports'[targetExportId[t]].hook = t
  <2>1. PICK n \in NegIds : n = targetExportId[t]
    BY <1>0, <1>1
  <2>2. /\ n > nextExportIdNegative
        /\ exports[n].phase = "free" \/ exports[n].hook = t
    BY <1>1, <2>1 DEF StubsAreBound
  <2>3. ~(n <= nextExportIdNegative)
    BY <1>0, <2>2
  <2>4. \/ exports'[n].phase = "free"
        \/ exports'[n].hook = exports[n].hook /\ exports[n].phase # "free"
    BY <1>1, <2>3, HookSteps
  <2> QED
    BY <2>1, <2>2, <2>4
<1>2. CASE Next /\ AnswerNewStub
  <2>1. PICK t \in Targets :
           /\ nextExportIdNegative \in NegIds /\ targetExportId[t] = 0
           /\ targetExportId' = [targetExportId EXCEPT ![t] = nextExportIdNegative]
           /\ nextExportIdNegative' = nextExportIdNegative - 1
           /\ exports'[nextExportIdNegative].hook = t
    BY <1>2, NewStubHook
  <2>2. \A u \in Targets :
           targetExportId'[u] = IF u = t THEN nextExportIdNegative ELSE targetExportId[u]
    BY <1>0, <2>1
  <2>3. \A u \in Targets : targetExportId[u] # 0 => targetExportId[u] > nextExportIdNegative
    BY DEF StubsAreBound
  <2>4. ASSUME NEW u \in Targets, targetExportId'[u] # 0
        PROVE  /\ targetExportId'[u] > nextExportIdNegative'
               /\ \/ exports'[targetExportId'[u]].phase = "free"
                  \/ exports'[targetExportId'[u]].hook = u
    <3>1. CASE u = t
      BY <1>0, <2>1, <2>2, <3>1
    <3>2. CASE u # t
      <4>1. targetExportId'[u] = targetExportId[u] /\ targetExportId[u] # 0
        BY <2>2, <2>4, <3>2
      <4>2. targetExportId[u] > nextExportIdNegative - 1
        BY <1>0, <2>3, <4>1
      <4> QED
        BY <1>1, <1>2, <2>1, <4>1, <4>2
    <3> QED
      BY <3>1, <3>2
  <2>5. ASSUME NEW u \in Targets, NEW v \in Targets, targetExportId'[u] # 0,
               targetExportId'[u] = targetExportId'[v]
        PROVE  u = v
    BY <1>0, <2>1, <2>2, <2>3, <2>5 DEF StubsAreBound
  <2> QED
    BY <2>4, <2>5 DEF StubsAreBound
<1>3. CASE \A t \in Targets : targetExportId'[t] = 0
  BY <1>3 DEF StubsAreBound
<1>4. CASE /\ Next /\ UNCHANGED targetExportId
           /\ nextExportIdNegative' <= nextExportIdNegative
  <2>0. nextExportIdNegative' \in Int
    BY TablesAssumption DEF TypeOK
  <2>1. \A t \in Targets : targetExportId[t] # 0 => targetExportId[t] > nextExportIdNegative'
    BY <1>0, <1>4, <2>0 DEF StubsAreBound
  <2> QED
    BY <1>1, <1>4, <2>1 DEF StubsAreBound
<1>5. CASE UNCHANGED vars
  BY <1>5 DEF vars, tables, StubsAreBound
<1> QED
  BY <1>2, <1>3, <1>4, <1>5, TargetIdSteps

\* The export id a target was given leads to that target's hook while the entry
\* exists, and no two targets share an id, through every export, re-export, release,
\* remap and call (export_target.h:15, serialize.cpp:718-800): ids are never used
\* again while the session is open, and every target a result carries is registered.
THEOREM StubsKeepIdentity == Spec => []StubIdentity
<1>1. Init => ResultsAreRegistered /\ StubsAreBound
  <2> SUFFICES ASSUME Init PROVE ResultsAreRegistered /\ StubsAreBound
    OBVIOUS
  <2>1. \A id \in Ids : exports[id].result = None
    BY DEF Init, Free
  <2>2. \A t \in Targets : targetExportId[t] = 0
    BY DEF Init
  <2> QED
    BY <2>1, <2>2, PlainResultsRegister DEF ResultsAreRegistered, StubsAreBound
<1>2. /\ TypeOK /\ TypeOK' /\ ResultsAreRegistered /\ StubsAreBound /\ [Next]_vars
      => ResultsAreRegistered' /\ StubsAreBound'
  BY ResultsAreRegisteredInductive, StubsAreBoundInductive
<1>3. StubsAreBound => StubIdentity
  BY DEF StubsAreBound, StubIdentity, Found
<1> QED
  BY <1>1, <1>2, <1>3, TypeCorrect, PTL DEF Spec
-----------------------------------------------------------------------------
(* A stub's entry counts the references the client holds.                  *)

\* The inductive invariant over the ids targetExportId holds, and the ids still to be
\* allocated, to which the client has no reference.
CountsAgree ==
    /\ \A t \in Targets : targetExportId[t] # 0 =>
          \/ exports[targetExportId[t]].phase = "free"
          \/ exports[targetExportId[t]].rc = held[targetExportId[t]]
    /\ \A n \in NegIds : n <= nextExportIdNegative => held[n] = 0

\* Only a resolve with a stub in it gives the client a reference.
LEMMA HoldingNothing ==
    ASSUME TypeOK, NEW frame, frame.type # "resolve" \/ frame.value.kind # "export"
    PROVE  Holding(frame) = held
<1>1. held \in [Ids -> Nat]
  BY DEF TypeOK
<1>2. \A id \in Ids : ~(frame.type = "resolve" /\ frame.value = Export(id))
  BY DEF Export
<1> QED
  BY <1>1, <1>2 DEF Holding

\* And that one reference, to the stub it names.
LEMMA HoldingStub ==
    ASSUME TypeOK, NEW n \in Ids, NEW x \in Ids
    PROVE  Holding(Resolve(Export(n)))[x] = IF x = n THEN held[x] + 1 ELSE held[x]
<1>1. Resolve(Export(n)).type = "resolve" /\ Resolve(Export(n)).value = Export(n)
  BY DEF Resolve
<1>2. Export(n) = Export(x) <=> n = x
  BY DEF Export
<1> QED
  BY <1>1, <1>2 DEF Holding

\* Of the answers, two kinds carry a stub.
LEMMA AnswersHold ==
    ASSUME TypeOK, Answer
    PROVE  AnswerKnownStub \/ AnswerNewStub \/ held' = held
<1>1. ASSUME NEW table, Reply(table, Reject)
      PROVE  held' = held
  BY <1>1, HoldingNothing DEF Reply, Reject
<1>2. ASSUME NEW table, NEW value, value.kind # "export", Reply(table, Resolve(value))
      PROVE  held' = held
  <2>1. Resolve(value).value = value
    BY DEF Resolve
  <2> QED
    BY <1>2, <2>1, HoldingNothing DEF Reply
<1>3. CASE AnswerNotFound \/ AnswerThrow \/ AnswerError
  BY <1>1, <1>3 DEF AnswerNotFound, AnswerThrow, AnswerError
<1>4. CASE AnswerValue
  <2>1. exports[pulling.id].result.kind # "export"
    BY <1>4 DEF AnswerValue, Error
  <2> QED
    BY <1>2, <1>4, <2>1 DEF AnswerValue
<1>5. CASE AnswerPromise
  <2>1. PromiseRef(nextExportIdNegative).kind # "export"
    BY DEF PromiseRef
  <2> QED
    BY <1>2, <1>5, <2>1 DEF AnswerPromise
<1> QED
  BY <1>3, <1>4, <1>5 DEF Answer

\* Otherwise the client gains no reference, and loses some by a release or an abort.
LEMMA HeldSteps ==
    ASSUME TypeOK, Next
    PROVE  \/ held' = held
           \/ AnswerKnownStub \/ AnswerNewStub
           \/ \E id \in Ids, count \in 1..MaxRc : ReceiveRelease(id, count)
           \/ ReceiveAbort \/ ReceiveFatal
<1>1. CASE Answer
  BY <1>1, AnswersHold
<1>2. CASE \/ \E subject \in Subjects, args \in Args, pipes \in Pipes :
                 ReceiveCall(subject, args, pipes)
           \/ ReceiveOtherPush
           \/ \E base \in {0} \cup Ids, names \in Pipes, captures \in Args :
                 ReceiveRemap(base, names, captures)
           \/ \E id \in Ids : ReceivePull(id)
           \/ \E i \in CallIds \cup ClientPromises, type \in {"resolve", "reject"} :
                 ReceiveSettlement(i, type)
  BY <1>2 DEF ReceiveCall, ReceiveOtherPush, ReceiveRemap, ReceivePull, ReceiveSettlement,
              refs
<1>3. CASE RunTaskReleased \/ RunTaskUnresolved \/ RunTask \/ RunTaskForeign \/ RunLate
  BY <1>3 DEF RunTaskReleased, RunTaskUnresolved, RunTask, RunTaskForeign, PopTask,
              RunLate, refs
<1>4. CASE (\E r \in ClientRefs : AppUsesClient(r)) \/ Close \/ Crash \/ Ended
  BY <1>4 DEF AppUsesClient, Close, Crash, Ended, refs, vars
<1> QED
  BY <1>1, <1>2, <1>3, <1>4 DEF Next, Receive, Handle, RemapCrashes, TaskCrashes, LateCrashes

\* An answer that exports no stub again leaves every count, and puts at most one entry.
LEMMA AnswersKeepCounts ==
    ASSUME TypeOK, Answer, ~AnswerKnownStub, NEW x \in Ids, x # nextExportIdNegative
    PROVE  exports'[x].rc = exports[x].rc
<1>1. pulling.id \in Ids /\ exports \in [Ids -> Entry]
  BY AnswerEntries DEF TypeOK
<1>2. CASE AnswerNotFound \/ AnswerError \/ AnswerValue
  <2>1. PICK table \in {exports, Sent(exports)} :
           /\ \E frame : Reply(table, frame)
           /\ table = exports \/ exports[pulling.id].phase # "free"
    BY <1>2 DEF AnswerNotFound, AnswerError, AnswerValue, AnsweringResult, HasResult
  <2>2. table \in [Ids -> Entry] /\ table[x].rc = exports[x].rc
    BY <1>1, <2>1, SentEntries
  <2> QED
    BY <1>1, <2>1, <2>2, ReplyEntries
<1>4. CASE AnswerThrow
  <2>1. PICK early \in Ran(Refs(pulling.id)) :
           Reply(ClearResult(Cached(early), pulling.id), Reject)
    BY <1>4 DEF AnswerThrow
  <2>2. HasOperation(exports, pulling.id) /\ \A p \in early : HasOperation(exports, p)
    BY <1>4, RanAreOperations DEF AnswerThrow, LateRuns
  <2> DEFINE table == ClearResult(Cached(early), pulling.id)
  <2>3. table \in [Ids -> Entry] /\ table[x].rc = exports[x].rc
    BY <2>2, ThrowEntries
  <2>4. Reply(table, Reject)
    BY <2>1
  <2> HIDE DEF table
  <2> QED
    BY <1>1, <2>3, <2>4, ReplyEntries
<1>3. CASE AnswerNewStub \/ AnswerPromise
  <2> DEFINE n == nextExportIdNegative
  <2>1. n \in NegIds /\ n \in Ids /\ exports[pulling.id].phase # "free"
    BY <1>3 DEF AnswerNewStub, AnswerPromise, RoomForExport, Ids, AnsweringResult, HasResult
  <2>2. PICK entry \in Entry : \E frame : Reply(Put(Sent(exports), n, entry), frame)
    <3>1. CASE AnswerNewStub
      <4>1. \A t \in Targets : Bare(StubHook(t)) \in Entry
        BY FreshEntries, TablesAssumption DEF StubHook
      <4> QED
        BY <3>1, <4>1 DEF AnswerNewStub
    <3>2. CASE AnswerPromise
      <4>1. exports[pulling.id].result \in Results
        BY <1>1 DEF Entry
      <4>2. Finished(exports[pulling.id].result.payload, Main, NoRefs) \in Entry
        BY <3>2, <4>1, ResultKinds, FreshEntries, TablesAssumption DEF AnswerPromise
      <4> QED
        BY <3>2, <4>2 DEF AnswerPromise
    <3> QED
      BY <1>3, <3>1, <3>2
  <2>3. /\ Sent(exports) \in [Ids -> Entry] /\ Sent(exports)[x].rc = exports[x].rc
        /\ Put(Sent(exports), n, entry) \in [Ids -> Entry]
    BY <1>1, <2>1, SentEntries, PutTyped
  <2>4. Put(Sent(exports), n, entry)[x] = Sent(exports)[x]
    BY <2>3 DEF Put
  <2> HIDE DEF n
  <2> QED
    BY <1>1, <2>2, <2>3, <2>4, ReplyEntries
<1> QED
  BY <1>2, <1>3, <1>4 DEF Answer

\* A stub that is exported again gains one reference on both sides, if it is still there.
LEMMA KnownStubCounts ==
    ASSUME TypeOK, AnswerKnownStub
    PROVE  \E t \in Targets :
              /\ targetExportId[t] \in NegIds
              /\ \A x \in Ids :
                    /\ held'[x] = IF x = targetExportId[t] THEN held[x] + 1 ELSE held[x]
                    /\ exports'[x].rc = IF x = targetExportId[t] /\ exports[x].phase # "free"
                                        THEN exports[x].rc + 1 ELSE exports[x].rc
<1>1. PICK t \in Targets :
         /\ targetExportId[t] # 0
         /\ Reply(IF Found(exports, targetExportId[t])
                  THEN AddReference(Sent(exports), targetExportId[t]) ELSE Sent(exports),
                  Resolve(Export(targetExportId[t])))
  BY DEF AnswerKnownStub
<1>2. PICK n \in NegIds : n = targetExportId[t]
  BY <1>1 DEF TypeOK
<1>3. /\ n \in Ids /\ pulling.id \in Ids /\ exports[pulling.id].phase # "free"
      /\ Sent(exports) \in [Ids -> Entry]
      /\ \A x \in Ids : Sent(exports)[x].rc = exports[x].rc
  BY SentEntries DEF Ids, AnswerKnownStub, AnsweringResult, HasResult
<1> DEFINE table == IF Found(exports, n) THEN AddReference(Sent(exports), n) ELSE Sent(exports)
<1>4. /\ table \in [Ids -> Entry] /\ Reply(table, Resolve(Export(n)))
  BY <1>1, <1>2, <1>3, AddReferenceTyped
<1>5. ASSUME NEW x \in Ids
      PROVE  table[x].rc = IF x = n /\ exports[x].phase # "free"
                           THEN exports[x].rc + 1 ELSE exports[x].rc
  <2>1. Found(exports, n) <=> exports[n].phase # "free"
    BY <1>3 DEF Found
  <2>2. AddReference(Sent(exports), n)[x].rc = IF x = n THEN exports[x].rc + 1
                                                        ELSE exports[x].rc
    BY <1>3 DEF AddReference, Entry
  <2> QED
    BY <1>3, <2>1, <2>2
<1>6. ASSUME NEW x \in Ids
      PROVE  /\ held'[x] = IF x = n THEN held[x] + 1 ELSE held[x]
             /\ exports'[x].rc = table[x].rc
  <2>1. held' = Holding(Resolve(Export(n)))
    BY <1>4 DEF Reply
  <2> HIDE DEF table
  <2> QED
    BY <1>3, <1>4, <2>1, HoldingStub, ReplyEntries
<1> QED
  BY <1>2, <1>5, <1>6

\* A stub that is exported for the first time is held once and counted once.
LEMMA NewStubCounts ==
    ASSUME TypeOK, AnswerNewStub
    PROVE  /\ exports'[nextExportIdNegative].rc = 1
           /\ \A x \in Ids :
                 held'[x] = IF x = nextExportIdNegative THEN held[x] + 1 ELSE held[x]
<1>1. PICK n \in NegIds : n = nextExportIdNegative
  BY DEF AnswerNewStub, RoomForExport
<1>2. PICK t \in Targets :
         Reply(Put(Sent(exports), n, Bare(StubHook(t))), Resolve(Export(n)))
  BY <1>1 DEF AnswerNewStub
<1>3. /\ n \in Ids /\ pulling.id \in Ids /\ exports[pulling.id].phase # "free"
      /\ Sent(exports) \in [Ids -> Entry]
  BY SentEntries DEF Ids, AnswerNewStub, AnsweringResult, HasResult
<1>4. Bare(StubHook(t)) \in Entry /\ Bare(StubHook(t)).rc = 1
  BY FreshEntries, TablesAssumption DEF StubHook, Bare
<1>5. /\ Put(Sent(exports), n, Bare(StubHook(t))) \in [Ids -> Entry]
      /\ Put(Sent(exports), n, Bare(StubHook(t)))[n].rc = 1
  BY <1>3, <1>4, PutTyped DEF Put
<1>6. exports'[n].rc = 1
  BY <1>2, <1>3, <1>5, ReplyEntries
<1>7. held' = Holding(Resolve(Export(n)))
  BY <1>2 DEF Reply
<1> QED
  BY <1>1, <1>3, <1>6, <1>7, HoldingStub

\* A target that has no id yet is not a target that has one.
LEMMA NewStubIsNotKnown ==
    ASSUME AnswerNewStub
    PROVE  ~AnswerKnownStub
<1>1. \A t, u \in Targets : StubOf(t) = StubOf(u) => t = u
  BY DEF StubOf
<1> QED
  BY <1>1 DEF AnswerNewStub, AnswerKnownStub

\* Every other step keeps the count of an allocated entry, or finds it erased.
LEMMA CountSteps ==
    ASSUME TypeOK, Next, NEW x \in NegIds, ~(x <= nextExportIdNegative),
           ~AnswerKnownStub,
           ~\E id \in Ids, count \in 1..MaxRc : ReceiveRelease(id, count)
    PROVE  exports'[x].phase = "free" \/ exports'[x].rc = exports[x].rc
<1>0. exports \in [Ids -> Entry] /\ x \in Ids /\ x \notin PushIds /\ Free.phase = "free"
  BY PushesAreNotNegative DEF TypeOK, Ids, Free
<1>1. CASE RunTask \/ RunTaskUnresolved \/ RunTaskForeign
  BY <1>0, <1>1, TaskEntries DEF Taken
<1>2. CASE \E base \in {0} \cup Ids, names \in Pipes, captures \in Args :
                 ReceiveRemap(base, names, captures)
  <2>1. x # nextExportId
    BY <1>0, <1>2 DEF ReceiveRemap
  <2> QED
    BY <1>0, <1>2, <2>1, RemapEntries DEF Taken
<1>3. CASE RunLate
  BY <1>0, <1>3, LateEntries DEF Taken
<1>4. CASE Answer
  <2>1. x # nextExportIdNegative
    BY TablesAssumption DEF NegIds
  <2> QED
    BY <1>0, <1>4, <2>1, AnswersKeepCounts
<1>5. CASE \E subject \in Subjects, args \in Args, pipes \in Pipes :
              ReceiveCall(subject, args, pipes)
  <2>1. x # nextExportId
    BY <1>0, <1>5 DEF ReceiveCall
  <2>2. exports'[x] = exports[x]
    BY <1>0, <1>5, <2>1 DEF ReceiveCall, Put
  <2> QED
    BY <2>2
<1>6. CASE \E r \in ClientRefs : AppUsesClient(r)
  <2>1. PICK last \in Lasts : exports' = WithPromises(exports, last)
    BY <1>6 DEF AppUsesClient
  <2>2. x \notin FreshExports(last)
    BY DEF FreshExports
  <2> QED
    BY <1>0, <2>1, <2>2 DEF WithPromises
<1>7. CASE ReceiveAbort \/ ReceiveFatal
  BY <1>0, <1>7 DEF ReceiveAbort, ReceiveFatal, Abort
<1>8. CASE Close
  <2>1. exports'[x].rc = exports[x].rc
    BY <1>0, <1>8 DEF Close, Entry
  <2> QED
    BY <2>1
<1>9. CASE \/ ReceiveOtherPush
           \/ \E id \in Ids : ReceivePull(id)
           \/ \E i \in CallIds \cup ClientPromises, type \in {"resolve", "reject"} :
                 ReceiveSettlement(i, type)
           \/ RunTaskReleased \/ Crash
           \/ Ended
  BY <1>9 DEF ReceiveOtherPush, ReceivePull, ReceiveSettlement, RunTaskReleased,
              Crash, Ended, vars, tables
<1> QED
  BY <1>1, <1>2, <1>3, <1>4, <1>5, <1>6, <1>7, <1>8, <1>9
     DEF Next, Receive, Handle, RemapCrashes, TaskCrashes, LateCrashes

\* A release takes as many references from the client as from the entry, and the entry
\* with the last of them.
LEMMA ReleaseKeepsCounts ==
    ASSUME TypeOK, CountsAgree, NEW id \in Ids, NEW count \in 1..MaxRc,
           ReceiveRelease(id, count)
    PROVE  CountsAgree'
<1>1. /\ exports \in [Ids -> Entry] /\ held \in [Ids -> Nat]
      /\ exports' = Release(exports, id, count)
      /\ held' = [held EXCEPT ![id] = IF @ > count THEN @ - count ELSE 0]
      /\ UNCHANGED <<targetExportId, nextExportIdNegative>>
  BY DEF ReceiveRelease, TypeOK
<1>2. count \in Nat /\ ~(0 > count)
  BY SessionAssumption
<1>3. \A x \in Ids : held'[x] = IF x # id THEN held[x]
                                ELSE IF held[x] > count THEN held[x] - count ELSE 0
  BY <1>1
<1>4. ASSUME NEW x \in Ids, exports[x].phase = "free" \/ exports[x].rc = held[x]
      PROVE  exports'[x].phase = "free" \/ exports'[x].rc = held'[x]
  <2>1. CASE exports[x].phase = "free"
    <3>1. exports'[x] = exports[x] \/ exports'[x] = Free
      BY <1>1, <2>1 DEF Release, Found
    <3> QED
      BY <2>1, <3>1 DEF Free
  <2>2. CASE x # id
    <3>1. exports'[x] = exports[x]
      BY <1>1, <2>2 DEF Release
    <3> QED
      BY <1>3, <1>4, <2>2, <3>1
  <2>3. CASE x = id /\ exports[x].phase # "free"
    <3>1. Found(exports, id) /\ exports[x].rc = held[x]
      BY <1>4, <2>3 DEF Found
    <3>2. CASE exports[x].rc > count
      BY <1>1, <1>3, <2>3, <3>1, <3>2 DEF Release, Entry
    <3>3. CASE ~(exports[x].rc > count)
      BY <1>1, <2>3, <3>1, <3>3 DEF Release, Free
    <3> QED
      BY <3>2, <3>3
  <2> QED
    BY <2>1, <2>2, <2>3
<1>5. \A t \in Targets : targetExportId[t] # 0 => targetExportId[t] \in Ids
  BY DEF TypeOK, Ids
<1>6. \A n \in NegIds : held[n] = 0 => held'[n] = 0
  BY <1>2, <1>3 DEF Ids
<1> QED
  BY <1>1, <1>4, <1>5, <1>6 DEF CountsAgree

LEMMA CountsAgreeInductive ==
    ASSUME TypeOK, TypeOK', StubsAreBound, CountsAgree, [Next]_vars
    PROVE  CountsAgree'
<1>0. /\ nextExportIdNegative \in Int /\ NegIds \subseteq Int /\ 0 \notin NegIds
      /\ NegIds \subseteq Ids
      /\ targetExportId \in [Targets -> NegIds \cup {0}]
      /\ \A n \in NegIds : held[n] \in Nat
  <2>1. nextExportIdNegative \in Int /\ NegIds \subseteq Int /\ 0 \notin NegIds
    BY TablesAssumption DEF TypeOK, NegIds
  <2>2. NegIds \subseteq Ids
    BY DEF Ids
  <2>3. targetExportId \in [Targets -> NegIds \cup {0}] /\ held \in [Ids -> Nat]
    BY DEF TypeOK
  <2> QED
    BY <2>1, <2>2, <2>3
<1>1. \A t \in Targets : targetExportId[t] # 0 =>
         /\ targetExportId[t] \in NegIds /\ targetExportId[t] > nextExportIdNegative
         /\ targetExportId[t] # nextExportIdNegative
  BY <1>0 DEF StubsAreBound
<1>2. CASE Next /\ AnswerNewStub
  <2>1. PICK t \in Targets :
           /\ nextExportIdNegative \in NegIds
           /\ targetExportId' = [targetExportId EXCEPT ![t] = nextExportIdNegative]
    BY <1>2 DEF AnswerNewStub, RoomForExport
  <2>2. nextExportIdNegative' = nextExportIdNegative - 1
    BY <1>2 DEF AnswerNewStub
  <2>3. \A u \in Targets :
           targetExportId'[u] = IF u = t THEN nextExportIdNegative ELSE targetExportId[u]
    BY <1>0, <2>1
  <2>4. held[nextExportIdNegative] = 0
    BY <1>0, <2>1 DEF CountsAgree
  <2>5. ASSUME NEW u \in Targets, targetExportId'[u] # 0
        PROVE  \/ exports'[targetExportId'[u]].phase = "free"
               \/ exports'[targetExportId'[u]].rc = held'[targetExportId'[u]]
    <3>1. CASE u = t
      <4>1. /\ exports'[nextExportIdNegative].rc = 1
            /\ held'[nextExportIdNegative] = held[nextExportIdNegative] + 1
        BY <1>0, <1>2, <2>1, NewStubCounts
      <4> QED
        BY <2>3, <2>4, <3>1, <4>1
    <3>2. CASE u # t
      <4>1. PICK n \in NegIds : n = targetExportId[u]
        BY <1>1, <2>3, <2>5, <3>2
      <4>2. /\ n # nextExportIdNegative /\ n \in Ids /\ targetExportId'[u] = n
            /\ exports[n].phase = "free" \/ exports[n].rc = held[n]
        BY <1>0, <1>1, <2>3, <2>5, <3>2, <4>1 DEF CountsAgree
      <4>3. held'[n] = held[n]
        BY <1>2, <4>2, NewStubCounts
      <4>4. exports'[n].rc = exports[n].rc
        BY <1>2, <4>2, NewStubIsNotKnown, AnswersKeepCounts DEF Answer
      <4>5. exports[n].phase = "free" => exports'[n].phase = "free"
        BY <1>2, <4>2, AnswerEntries DEF Answer
      <4> QED
        BY <4>2, <4>3, <4>4, <4>5
    <3> QED
      BY <3>1, <3>2
  <2>6. ASSUME NEW n \in NegIds, n <= nextExportIdNegative'
        PROVE  held'[n] = 0
    <3>1. n <= nextExportIdNegative /\ n # nextExportIdNegative
      BY <1>0, <2>2, <2>6
    <3>2. held'[n] = held[n]
      BY <1>0, <1>2, <3>1, NewStubCounts
    <3> QED
      BY <3>1, <3>2 DEF CountsAgree
  <2> QED
    BY <2>5, <2>6 DEF CountsAgree
<1>3. CASE Next /\ AnswerKnownStub
  <2>1. PICK u \in Targets :
           /\ targetExportId[u] \in NegIds
           /\ \A x \in Ids :
                 /\ held'[x] = IF x = targetExportId[u] THEN held[x] + 1 ELSE held[x]
                 /\ exports'[x].rc = IF x = targetExportId[u] /\ exports[x].phase # "free"
                                     THEN exports[x].rc + 1 ELSE exports[x].rc
    BY <1>3, KnownStubCounts
  <2>2. UNCHANGED <<targetExportId, nextExportIdNegative>>
    BY <1>3 DEF AnswerKnownStub
  <2>3. ASSUME NEW x \in NegIds, exports[x].phase = "free" \/ exports[x].rc = held[x],
               x # nextExportIdNegative
        PROVE  exports'[x].phase = "free" \/ exports'[x].rc = held'[x]
    <3>1. exports[x].phase = "free" => exports'[x].phase = "free"
      BY <1>0, <1>3, <2>3, AnswerEntries DEF Answer
    <3> QED
      BY <1>0, <2>1, <2>3, <3>1
  <2>4. \A n \in NegIds : n <= nextExportIdNegative => held'[n] = 0
    <3>1. ASSUME NEW n \in NegIds, n <= nextExportIdNegative
          PROVE  n # targetExportId[u]
      <4>1. targetExportId[u] > nextExportIdNegative
        BY <1>0, <1>1, <2>1
      <4> QED
        BY <1>0, <2>1, <3>1, <4>1
    <3> QED
      BY <1>0, <2>1, <3>1 DEF CountsAgree
  <2> QED
    BY <1>1, <2>2, <2>3, <2>4 DEF CountsAgree
<1>4. CASE \E id \in Ids, count \in 1..MaxRc : ReceiveRelease(id, count)
  BY <1>4, ReleaseKeepsCounts
<1>5. CASE ReceiveAbort \/ ReceiveFatal
  <2>1. /\ \A t \in Targets : targetExportId'[t] = 0
        /\ \A n \in NegIds : held'[n] = 0
    BY <1>0, <1>5 DEF ReceiveAbort, ReceiveFatal, Abort
  <2> QED
    BY <2>1 DEF CountsAgree
<1>6. CASE /\ Next /\ ~AnswerNewStub /\ ~AnswerKnownStub
           /\ ~\E id \in Ids, count \in 1..MaxRc : ReceiveRelease(id, count)
           /\ ~(ReceiveAbort \/ ReceiveFatal)
  <2>1. /\ held' = held /\ UNCHANGED targetExportId
        /\ nextExportIdNegative' <= nextExportIdNegative
    BY <1>6, HeldSteps, TargetIdSteps
  <2>2. ASSUME NEW t \in Targets, targetExportId[t] # 0
        PROVE  \/ exports'[targetExportId[t]].phase = "free"
               \/ exports'[targetExportId[t]].rc = held[targetExportId[t]]
    <3>1. PICK n \in NegIds : n = targetExportId[t]
      BY <1>1, <2>2
    <3>2. /\ ~(n <= nextExportIdNegative)
          /\ exports[n].phase = "free" \/ exports[n].rc = held[n]
      BY <1>0, <1>1, <2>2, <3>1 DEF CountsAgree
    <3>3. exports'[n].phase = "free" \/ exports'[n].rc = exports[n].rc
      BY <1>6, <3>2, CountSteps
    <3>4. exports'[n].phase = "free" \/ exports[n].phase # "free"
      BY <1>6, <3>2, HookSteps
    <3> QED
      BY <3>1, <3>2, <3>3, <3>4
  <2>0. nextExportIdNegative' \in Int
    BY TablesAssumption DEF TypeOK
  <2>3. \A n \in NegIds : n <= nextExportIdNegative' => n <= nextExportIdNegative
    BY <1>0, <2>0, <2>1
  <2> QED
    BY <2>1, <2>2, <2>3 DEF CountsAgree
<1>7. CASE UNCHANGED vars
  BY <1>7 DEF vars, tables, refs, CountsAgree
<1> QED
  BY <1>2, <1>3, <1>4, <1>5, <1>6, <1>7

\* While a stub's entry lives, its count (remoteRefcount) is the number of references
\* the client was given and has not released, whatever the order of exports, re-exports,
\* copies of the stub and releases of any size: the entry goes with the last of them
\* (session_state.h:74-88, rpc_session.cpp:465-490).
THEOREM StubsAlwaysCounted == Spec => []StubsAreCounted
<1>1. Init => ResultsAreRegistered /\ StubsAreBound /\ CountsAgree
  <2> SUFFICES ASSUME Init PROVE ResultsAreRegistered /\ StubsAreBound /\ CountsAgree
    OBVIOUS
  <2>1. \A id \in Ids : exports[id].result = None /\ held[id] = 0
    BY DEF Init, Free
  <2>2. \A t \in Targets : targetExportId[t] = 0
    BY DEF Init
  <2>3. NegIds \subseteq Ids
    BY DEF Ids
  <2> QED
    BY <2>1, <2>2, <2>3, PlainResultsRegister
       DEF ResultsAreRegistered, StubsAreBound, CountsAgree
<1>2. /\ TypeOK /\ TypeOK' /\ ResultsAreRegistered /\ StubsAreBound /\ CountsAgree
      /\ [Next]_vars
      => ResultsAreRegistered' /\ StubsAreBound' /\ CountsAgree'
  BY ResultsAreRegisteredInductive, StubsAreBoundInductive, CountsAgreeInductive
<1>3. CountsAgree => StubsAreCounted
  BY DEF CountsAgree, StubsAreCounted, Found
<1> QED
  BY <1>1, <1>2, <1>3, TypeCorrect, PTL DEF Spec
=============================================================================
