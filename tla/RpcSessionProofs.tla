------------------------- MODULE RpcSessionProofs -------------------------
(* Theorems about RpcSession, for every set of targets and client           *)
(* references, every bound and every peer.                                  *)
EXTENDS RpcSession, SequenceTheorems, TLAPS

-----------------------------------------------------------------------------
(* What the table operators return.                                        *)

LEMMA ResultKinds ==
    /\ None \in Results /\ Value \in Results /\ Error \in Results
    /\ Returns \subseteq Results
    /\ \A n \in NegIds : PromiseRef(n) \in Results
    /\ \A x \in Results : x.kind = "promise" => x.payload \in Results
<1>1. None \in Results /\ Value \in Results /\ Error \in Results /\ Returns \subseteq Results
  BY DEF Results, Returns, Payloads
<1>2. \A n \in NegIds : PromiseRef(n) \in Results
  BY DEF Results
<1>3. ASSUME NEW x \in Results, x.kind = "promise"
      PROVE  x.payload \in Results
  <2>1. x.kind # "promise" \/ \E p \in Payloads : x = PromiseOf(p)
    <3>1. x = None \/ x \in Payloads \/ (\E p \in Payloads : x = PromiseOf(p))
          \/ \E n \in NegIds : x = PromiseRef(n)
      BY DEF Results, Returns
    <3>2. None.kind # "promise"
      BY DEF None
    <3>3. \A p \in Payloads : p.kind # "promise"
      BY DEF Payloads, Value, Error, StubOf
    <3>4. \A n : PromiseRef(n).kind # "promise"
      BY DEF PromiseRef
    <3> QED
      BY <3>1, <3>2, <3>3, <3>4
  <2>2. \A p : PromiseOf(p).payload = p
    BY DEF PromiseOf
  <2> QED
    BY <1>1, <1>3, <2>1, <2>2 DEF Returns
<1> QED
  BY <1>1, <1>2, <1>3

LEMMA FreshEntries ==
    /\ NoRefs \in Bags
    /\ Free \in Entry
    /\ \A hook \in Targets \cup {NoHook} : Bare(hook) \in Entry
    /\ \A hook \in Targets \cup {NoHook}, bag \in Bags, pipes \in SUBSET Ids :
          Operation(hook, bag, pipes) \in Entry
    /\ \A hook \in Targets \cup {NoHook}, bag \in Bags, result \in Results :
          Finished(result, hook, bag) \in Entry
BY ResultKinds DEF NoRefs, Bags, Free, Bare, Operation, Finished, Entry, Phases

LEMMA PutTyped ==
    ASSUME NEW table \in [Ids -> Entry], NEW id \in Ids, NEW entry \in Entry
    PROVE  Put(table, id, entry) \in [Ids -> Entry]
BY DEF Put

\* A call that is no longer waiting names nothing.
LEMMA EntryUpdates ==
    ASSUME NEW entry \in Entry, NEW phase \in Phases, NEW result \in Results
    PROVE  [entry EXCEPT !.phase = phase, !.result = result, !.pipes = {}] \in Entry
<1>1. {} \in SUBSET Ids
  OBVIOUS
<1> DEFINE first  == [entry EXCEPT !.phase = phase]
<1> DEFINE second == [first EXCEPT !.result = result]
<1>2. first \in Entry /\ second \in Entry
  BY DEF Entry
<1>3. [second EXCEPT !.pipes = {}] \in Entry
  <2> HIDE DEF second
  <2> QED
    BY <1>1, <1>2 DEF Entry
<1>4. [entry EXCEPT !.phase = phase, !.result = result, !.pipes = {}] = [second EXCEPT !.pipes = {}]
  BY DEF Entry
<1> QED
  BY <1>3, <1>4

LEMMA SetResultTyped ==
    ASSUME NEW table \in [Ids -> Entry], NEW id \in Ids, NEW result \in Results
    PROVE  SetResult(table, id, result) \in [Ids -> Entry]
<1>1. SetResult(table, id, result)
         = [table EXCEPT ![id] = [table[id] EXCEPT !.phase = "result", !.result = result,
                                                   !.pipes = {}]]
  BY DEF SetResult, Entry
<1>2. [table[id] EXCEPT !.phase = "result", !.result = result, !.pipes = {}] \in Entry
  BY EntryUpdates DEF Phases
<1> QED
  BY <1>1, <1>2

LEMMA ClearResultTyped ==
    ASSUME NEW table \in [Ids -> Entry], NEW id \in Ids
    PROVE  ClearResult(table, id) \in [Ids -> Entry]
<1>1. ClearResult(table, id)
         = [table EXCEPT ![id] = [table[id] EXCEPT !.phase = "bare", !.result = None,
                                                   !.pipes = {}]]
  BY DEF ClearResult, Entry
<1>2. [table[id] EXCEPT !.phase = "bare", !.result = None, !.pipes = {}] \in Entry
  BY ResultKinds, EntryUpdates DEF Phases
<1> QED
  BY <1>1, <1>2

LEMMA ClearRefsTyped ==
    ASSUME NEW table \in [Ids -> Entry], NEW id \in Ids
    PROVE  [table EXCEPT ![id].refs = NoRefs] \in [Ids -> Entry]
BY FreshEntries DEF Entry

LEMMA AddReferenceTyped ==
    ASSUME NEW table \in [Ids -> Entry], NEW id \in Ids
    PROVE  AddReference(table, id) \in [Ids -> Entry]
<1>1. table[id].rc + 1 \in Nat
  BY DEF Entry
<1> QED
  BY <1>1 DEF AddReference, Entry

LEMMA ReleaseTyped ==
    ASSUME NEW table \in [Ids -> Entry], NEW id \in Ids, NEW count \in Nat
    PROVE  Release(table, id, count) \in [Ids -> Entry]
<1>1. ASSUME table[id].rc > count
      PROVE  [table EXCEPT ![id].rc = @ - count] \in [Ids -> Entry]
  <2>1. table[id].rc - count \in Nat
    BY <1>1 DEF Entry
  <2> QED
    BY <2>1 DEF Entry
<1>2. [table EXCEPT ![id] = Free] \in [Ids -> Entry]
  BY FreshEntries
<1> QED
  BY <1>1, <1>2 DEF Release

LEMMA CachedStaysTyped ==
    ASSUME exports \in [Ids -> Entry], NEW early
    PROVE  Cached(early) \in [Ids -> Entry]
<1>1. \A id \in Ids :
         [exports[id] EXCEPT !.phase = "result", !.result = Value, !.pipes = {}] \in Entry
  BY ResultKinds, EntryUpdates DEF Phases
<1> QED
  BY <1>1 DEF Cached

\* Caching what ran early leaves the other waiting calls as they were.
LEMMA CachedOperations ==
    ASSUME exports \in [Ids -> Entry], NEW early,
           NEW y \in Ids, Cached(early)[y].phase = "operation"
    PROVE  y \notin early /\ exports[y].phase = "operation"
<1>1. [exports[y] EXCEPT !.phase = "result", !.result = Value, !.pipes = {}].phase = "result"
  BY DEF Entry
<1> QED
  BY <1>1 DEF Cached

LEMMA PendingAreOperations ==
    ASSUME NEW ids, NEW p \in Pending(ids)
    PROVE  p \in Ids /\ HasOperation(exports, p)
BY DEF Pending

LEMMA RanAreOperations ==
    ASSUME NEW ids, NEW early \in Ran(ids)
    PROVE  early \subseteq Ids /\ \A p \in early : HasOperation(exports, p)
BY PendingAreOperations DEF Ran

LEMMA ResultsTyped ==
    ASSUME NEW table \in [Ids -> Entry], NEW ids
    PROVE  ResultsOf(table, ids) \in SUBSET Results
BY DEF ResultsOf, HasResult, Entry

-----------------------------------------------------------------------------
(* Type correctness.                                                       *)

LEMMA CallListsAreFinite ==
    ASSUME NEW called \in CallLists
    PROVE  Len(called) \in Nat /\ \A k \in 1..Len(called) : called[k] \in ClientRefs
<1>1. PICK k \in 0..MaxCalls : called \in [1..k -> ClientRefs]
  BY DEF CallLists
<1>2. k \in Nat
  BY TablesAssumption
<1>3. called \in Seq(ClientRefs)
  BY <1>1, <1>2, SeqDef
<1> QED
  BY <1>3

LEMMA FreshAreFree ==
    ASSUME TypeOK, NEW last \in Lasts
    PROVE  /\ FreshExports(last) \subseteq NegIds
           /\ last \in (-MaxNeg - 1)..(-1)
           /\ last <= nextExportIdNegative
BY TablesAssumption DEF TypeOK, Lasts, FreshExports, NegIds

LEMMA UseClientTyped ==
    ASSUME TypeOK, NEW called \in CallLists, NEW awaited \in SUBSET ClientPromises,
           NEW last \in Lasts, UseClient(called, awaited, last)
    PROVE  /\ nextExportIdNegative' \in (-MaxNeg - 1)..(-1)
           /\ nextImportId' \in 1..(MaxCalls + 1)
           /\ importToPromiseExport' \in [CallIds \cup ClientRefs -> NegIds \cup {0}]
<1>1. nextExportIdNegative' \in (-MaxNeg - 1)..(-1)
  BY FreshAreFree DEF UseClient, AllocateExports
<1>2. nextImportId' \in 1..(MaxCalls + 1)
  <2>1. Len(called) \in Nat /\ nextImportId \in 1..(MaxCalls + 1) /\ MaxCalls \in Nat
    BY CallListsAreFinite, TablesAssumption DEF TypeOK
  <2>2. CallImports(called) \subseteq CallIds /\ nextImportId' = nextImportId + Len(called)
    BY DEF UseClient, AllocateImports
  <2>3. CASE Len(called) = 0
    BY <2>1, <2>2, <2>3
  <2>4. CASE Len(called) > 0
    <3>1. nextImportId + Len(called) - 1 \in CallImports(called)
      BY <2>1, <2>4 DEF CallImports
    <3>2. nextImportId + Len(called) - 1 \in CallIds
      BY <2>2, <3>1
    <3> QED
      BY <2>1, <2>2, <3>2 DEF CallIds
  <2> QED
    BY <2>1, <2>3, <2>4
<1>3. importToPromiseExport' \in [CallIds \cup ClientRefs -> NegIds \cup {0}]
  <2>1. PICK links \in [CallImports(called) \cup awaited -> FreshExports(last)] :
           LinkImports(links)
    BY DEF UseClient
  <2>2. \A i \in DOMAIN links : links[i] \in NegIds
    BY FreshAreFree
  <2> QED
    BY <2>1, <2>2 DEF LinkImports, TypeOK
<1> QED
  BY <1>1, <1>2, <1>3

\* What a run of application code amounts to.
LEMMA MethodBodyParts ==
    ASSUME NEW table, NEW id, NEW copied, MethodBody(table, id, copied)
    PROVE  \E called \in CallLists, awaited \in SUBSET ClientPromises, last \in Lasts :
              /\ UseClient(called, awaited, last)
              /\ \E result \in Returns \cup copied \cup {PromiseRef(n) : n \in FreshExports(last)} :
                    /\ exports' = WithPromises(SetResult(table, id, result), last)
                    /\ targetRegistry' = targetRegistry \cup {t \in Targets \ {Main} :
                           result \in {StubOf(t), PromiseOf(StubOf(t))}}
<1>1. Error \in Returns /\ Returned \subseteq Returns
  BY SessionAssumption DEF Returns, Payloads
<1> QED
  BY <1>1 DEF MethodBody

LEMMA WithPromisesTyped ==
    ASSUME NEW table \in [Ids -> Entry], NEW last
    PROVE  WithPromises(table, last) \in [Ids -> Entry]
BY FreshEntries DEF WithPromises

LEMMA AppUsesAreUses ==
    ASSUME TypeOK, NEW r \in ClientRefs, AppUsesClient(r)
    PROVE  \E called \in CallLists, awaited \in SUBSET ClientPromises, last \in Lasts :
              UseClient(called, awaited, last) /\ exports' = WithPromises(exports, last)
<1>1. PICK last \in Lasts :
         /\ UseClient(<<r>>, {}, last) \/ (r \in ClientPromises /\ UseClient(<<>>, {r}, last))
         /\ exports' = WithPromises(exports, last)
  BY DEF AppUsesClient
<1>2. CASE UseClient(<<r>>, {}, last)
  <2>1. CallImports(<<r>>) = nextImportId..nextImportId
    BY DEF CallImports, TypeOK
  <2>2. 1 \in 0..MaxCalls
    <3>1. nextImportId \in Nat /\ MaxCalls \in Nat
      BY TablesAssumption DEF TypeOK
    <3>2. nextImportId..nextImportId \subseteq 1..MaxCalls
      BY <1>2, <2>1 DEF UseClient, CallIds
    <3> QED
      BY <3>1, <3>2
  <2>3. <<r>> \in [1..1 -> ClientRefs]
    OBVIOUS
  <2>4. <<r>> \in CallLists
    BY <2>2, <2>3 DEF CallLists
  <2> QED
    BY <1>1, <1>2, <2>4
<1>3. CASE r \in ClientPromises /\ UseClient(<<>>, {r}, last)
  <2>1. <<>> \in [1..0 -> ClientRefs] /\ 0 \in 0..MaxCalls
    BY TablesAssumption
  <2>2. <<>> \in CallLists
    BY <2>1 DEF CallLists
  <2> QED
    BY <1>1, <1>3, <2>2
<1> QED
  BY <1>1, <1>2, <1>3

LEMMA MethodBodyTyped ==
    ASSUME TypeOK, NEW table \in [Ids -> Entry], NEW id \in Ids,
           NEW copied \in SUBSET Results, MethodBody(table, id, copied)
    PROVE  /\ exports' \in [Ids -> Entry]
           /\ nextExportIdNegative' \in (-MaxNeg - 1)..(-1)
           /\ nextImportId' \in 1..(MaxCalls + 1)
           /\ importToPromiseExport' \in [CallIds \cup ClientRefs -> NegIds \cup {0}]
           /\ targetRegistry' \subseteq Targets
<1>1. PICK called \in CallLists, awaited \in SUBSET ClientPromises, last \in Lasts :
         /\ UseClient(called, awaited, last)
         /\ \E result \in Returns \cup copied \cup {PromiseRef(n) : n \in FreshExports(last)} :
               /\ exports' = WithPromises(SetResult(table, id, result), last)
               /\ targetRegistry' = targetRegistry \cup {t \in Targets \ {Main} :
                      result \in {StubOf(t), PromiseOf(StubOf(t))}}
  BY MethodBodyParts
<1>2. PICK result \in Returns \cup copied \cup {PromiseRef(n) : n \in FreshExports(last)} :
         /\ exports' = WithPromises(SetResult(table, id, result), last)
         /\ targetRegistry' = targetRegistry \cup {t \in Targets \ {Main} :
                result \in {StubOf(t), PromiseOf(StubOf(t))}}
  BY <1>1
<1>3. result \in Results
  BY FreshAreFree, ResultKinds
<1>4. exports' \in [Ids -> Entry]
  BY <1>2, <1>3, WithPromisesTyped, SetResultTyped
<1>5. targetRegistry' \subseteq Targets
  BY <1>2 DEF TypeOK
<1> QED
  BY <1>1, <1>4, <1>5, UseClientTyped

LEMMA BagsAdd == \A a \in Bags, b \in Bags : AddBags(a, b) \in Bags
BY DEF Bags, AddBags

LEMMA ReplyTyped ==
    ASSUME TypeOK, Answering, NEW table \in [Ids -> Entry], NEW frame, Reply(table, frame)
    PROVE  /\ exports' \in [Ids -> Entry]
           /\ released' \in [Ids -> Bags]
           /\ held' \in [Ids -> Nat]
           /\ spent' \subseteq PushIds
           /\ pulling' = NoPull
           /\ UNCHANGED <<nextExportId, nextImportId, importToPromiseExport,
                          targetRegistry, microtasks, status, stranded,
                          settled, answered, granted>>
<1>1. pulling.id \in Ids
  BY DEF TypeOK, Answering
<1>2. exports' \in [Ids -> Entry]
  BY <1>1, ClearRefsTyped DEF Reply
<1>3. released' \in [Ids -> Bags]
  <2>1. table[pulling.id].refs \in Bags /\ released[pulling.id] \in Bags
    BY <1>1 DEF TypeOK, Entry
  <2> QED
    BY <1>1, <2>1, BagsAdd DEF Reply, TypeOK
<1>4. spent' \subseteq PushIds
  BY DEF Reply, TypeOK
<1>5. held' \in [Ids -> Nat]
  BY DEF Reply, Holding, TypeOK
<1> QED
  BY <1>2, <1>3, <1>4, <1>5 DEF Answering

LEMMA AnswerTyped ==
    ASSUME TypeOK, Answer
    PROVE  TypeOK'
<1>1. Answering /\ pulling.id \in Ids
  BY DEF TypeOK, Answer, AnswerNotFound, AnswerThrow, AnswerError, AnswerValue,
         AnswerKnownStub, AnswerNewStub, AnswerPromise, AnsweringResult, Answering
<1>2. exports \in [Ids -> Entry] /\ Sent(exports) \in [Ids -> Entry]
  BY <1>1, ClearResultTyped DEF Sent, TypeOK
<1>3. /\ \E table \in [Ids -> Entry] : \E frame : Reply(table, frame)
      /\ nextExportIdNegative' \in (-MaxNeg - 1)..(-1)
      /\ targetExportId' \in [Targets -> NegIds \cup {0}]
      /\ finished' \subseteq Ids
  <2>1. CASE AnswerNotFound \/ AnswerError \/ AnswerValue
    BY <1>2, <2>1 DEF AnswerNotFound, AnswerError, AnswerValue, AnsweringResult,
                      NoDispatch, TypeOK
  <2>2. CASE AnswerThrow
    <3>1. PICK early \in Ran(Refs(pulling.id)) :
             /\ Dispatched(early)
             /\ Reply(ClearResult(Cached(early), pulling.id), Reject)
      BY <2>2 DEF AnswerThrow
    <3>2. ClearResult(Cached(early), pulling.id) \in [Ids -> Entry]
      BY <1>1, <1>2, CachedStaysTyped, ClearResultTyped
    <3>3. finished' \subseteq Ids
      BY <3>1, RanAreOperations DEF Dispatched, TypeOK
    <3> QED
      BY <2>2, <3>1, <3>2, <3>3 DEF AnswerThrow, TypeOK
  <2>3. CASE AnswerKnownStub
    <3>1. PICK t \in Targets :
             LET n == targetExportId[t] IN
             Reply(IF Found(exports, n) THEN AddReference(Sent(exports), n)
                                        ELSE Sent(exports), Resolve(Export(n)))
      BY <2>3 DEF AnswerKnownStub
    <3>2. Found(exports, targetExportId[t]) => targetExportId[t] \in Ids
      BY DEF Found
    <3> QED
      BY <1>2, <2>3, <3>1, <3>2, AddReferenceTyped
         DEF AnswerKnownStub, AnsweringResult, NoDispatch, TypeOK
  <2>4. CASE AnswerNewStub
    <3>1. nextExportIdNegative \in NegIds /\ nextExportIdNegative \in Ids
      BY <2>4 DEF AnswerNewStub, RoomForExport, Ids
    <3>2. PICK t \in Targets :
             /\ Reply(Put(Sent(exports), nextExportIdNegative,
                          Bare(StubHook(t))),
                      Resolve(Export(nextExportIdNegative)))
             /\ targetExportId' = [targetExportId EXCEPT ![t] = nextExportIdNegative]
      BY <2>4 DEF AnswerNewStub
    <3>3. Bare(StubHook(t)) \in Entry
      BY FreshEntries, TablesAssumption DEF StubHook
    <3>4. nextExportIdNegative' \in (-MaxNeg - 1)..(-1)
      BY <2>4, <3>1, TablesAssumption DEF AnswerNewStub, NegIds
    <3>5. finished' \subseteq Ids
      BY <2>4 DEF AnswerNewStub, AnsweringResult, NoDispatch, TypeOK
    <3> QED
      BY <1>2, <3>1, <3>2, <3>3, <3>4, <3>5, PutTyped DEF TypeOK
  <2>5. CASE AnswerPromise
    <3>1. nextExportIdNegative \in NegIds /\ nextExportIdNegative \in Ids
      BY <2>5 DEF AnswerPromise, RoomForExport, Ids
    <3>2. exports[pulling.id].result \in Results
      BY <1>1 DEF TypeOK, Entry
    <3>3. Finished(exports[pulling.id].result.payload, Main, NoRefs) \in Entry
      BY <2>5, <3>2, ResultKinds, FreshEntries, TablesAssumption DEF AnswerPromise
    <3>4. nextExportIdNegative' \in (-MaxNeg - 1)..(-1)
      BY <2>5, <3>1, TablesAssumption DEF AnswerPromise, NegIds
    <3>5. finished' \subseteq Ids
      BY <2>5 DEF AnswerPromise, AnsweringResult, NoDispatch, TypeOK
    <3> QED
      BY <1>2, <2>5, <3>1, <3>3, <3>4, <3>5, PutTyped DEF AnswerPromise, TypeOK
  <2> QED
    BY <2>1, <2>2, <2>3, <2>4, <2>5 DEF Answer
<1> QED
  BY <1>1, <1>3, ReplyTyped DEF TypeOK

LEMMA InitTyped == Init => TypeOK
<1> SUFFICES ASSUME Init PROVE TypeOK
  OBVIOUS
<1>1. exports \in [Ids -> Entry]
  BY FreshEntries DEF Init
<1>2. granted \in [Ids -> Bags] /\ released \in [Ids -> Bags]
  BY FreshEntries DEF Init
<1>3. /\ nextExportId \in 1..(MaxPush + 1)
      /\ nextExportIdNegative \in (-MaxNeg - 1)..(-1)
      /\ nextImportId \in 1..(MaxCalls + 1)
  BY TablesAssumption DEF Init
<1> QED
  BY <1>1, <1>2, <1>3 DEF Init, TypeOK

LEMMA ArgsAreBags == Args \subseteq Bags
BY SessionAssumption DEF Args, Bags

LEMMA ReceiveCallTyped ==
    ASSUME TypeOK, NEW subject \in Subjects, NEW args \in Args, NEW pipes \in Pipes,
           ReceiveCall(subject, args, pipes)
    PROVE  TypeOK'
<1>0. subject \in {0} \cup Ids /\ pipes \in SUBSET Ids
  BY SessionAssumption
<1>1. nextExportId \in PushIds /\ nextExportId \in Ids
  BY DEF ReceiveCall, Ids
<1>2. CalleeOf(subject) \in Targets
  BY TablesAssumption DEF CalleeOf, Found, TypeOK, Entry
<1>3. args \in Bags
  BY ArgsAreBags
<1>4. exports' \in [Ids -> Entry]
  BY <1>0, <1>1, <1>2, <1>3, FreshEntries, PutTyped DEF ReceiveCall, TypeOK
<1>5. microtasks' \in Seq(Task)
  <2>1. [id |-> nextExportId, subject |-> subject, hook |-> CalleeOf(subject),
         pipes |-> pipes] \in Task
    BY <1>0, <1>1, <1>2 DEF Task
  <2> QED
    BY <2>1 DEF ReceiveCall, TypeOK
<1>6. nextExportId' \in 1..(MaxPush + 1)
  BY <1>1, TablesAssumption DEF ReceiveCall, PushIds
<1>7. granted' \in [Ids -> Bags]
  BY <1>1, <1>3 DEF ReceiveCall, TypeOK
<1> QED
  BY <1>4, <1>5, <1>6, <1>7 DEF ReceiveCall, TypeOK, NoDispatch, promises

LEMMA ReceiveRemapTyped ==
    ASSUME TypeOK, NEW base \in {0} \cup Ids, NEW names \in Pipes, NEW captures \in Args,
           ReceiveRemap(base, names, captures)
    PROVE  TypeOK'
<1>1. nextExportId \in PushIds /\ nextExportId \in Ids
  BY DEF ReceiveRemap, Ids
<1>2. PICK early \in Ran({base} \cup names) :
         /\ Dispatched(early)
         /\ MethodBody(Put(Cached(early), nextExportId, Finished(None, NoHook, captures)),
                       nextExportId, ResultsOf(Cached(early), {base} \cup names))
  BY DEF ReceiveRemap
<1> DEFINE table == Put(Cached(early), nextExportId, Finished(None, NoHook, captures))
<1> DEFINE copied == ResultsOf(Cached(early), {base} \cup names)
<1>3. early \subseteq Ids
  BY RanAreOperations
<1>4. Cached(early) \in [Ids -> Entry]
  BY CachedStaysTyped DEF TypeOK
<1>5. table \in [Ids -> Entry]
  BY <1>1, <1>4, ArgsAreBags, ResultKinds, FreshEntries, PutTyped
<1>6. copied \in SUBSET Results
  BY <1>4, ResultsTyped
<1>7. MethodBody(table, nextExportId, copied)
  BY <1>2
<1>8. /\ exports' \in [Ids -> Entry]
      /\ nextExportIdNegative' \in (-MaxNeg - 1)..(-1)
      /\ nextImportId' \in 1..(MaxCalls + 1)
      /\ importToPromiseExport' \in [CallIds \cup ClientRefs -> NegIds \cup {0}]
      /\ targetRegistry' \subseteq Targets
  <2> HIDE DEF table, copied
  <2> QED
    BY <1>1, <1>5, <1>6, <1>7, MethodBodyTyped
<1>9. nextExportId' \in 1..(MaxPush + 1)
  BY <1>1, TablesAssumption DEF ReceiveRemap, PushIds
<1>10. granted' \in [Ids -> Bags]
  BY <1>1, ArgsAreBags DEF ReceiveRemap, TypeOK
<1>11. finished' \subseteq Ids
  BY <1>2, <1>3 DEF Dispatched, TypeOK
<1> QED
  BY <1>8, <1>9, <1>10, <1>11 DEF ReceiveRemap, TypeOK, control, promises

LEMMA PipesTyped ==
    ASSUME TypeOK, microtasks # <<>>
    PROVE  /\ Head(microtasks) \in Task
           /\ Head(microtasks).id \in PushIds
           /\ Head(microtasks).pipes \subseteq Ids
           /\ Tail(microtasks) \in Seq(Task)
<1>1. Head(microtasks) \in Task /\ Tail(microtasks) \in Seq(Task)
  BY DEF TypeOK
<1> QED
  BY <1>1 DEF Task

LEMMA RunTaskTyped ==
    ASSUME TypeOK, RunTask
    PROVE  TypeOK'
<1> DEFINE task   == Head(microtasks)
<1> DEFINE early  == Pending(task.pipes)
<1> DEFINE read   == Cached(early)
<1> DEFINE copied == ResultsOf(read, task.pipes)
<1>1. /\ microtasks' \in Seq(Task) /\ task.id \in PushIds /\ task.id \in Ids
      /\ early \subseteq Ids
  BY PipesTyped, PendingAreOperations DEF RunTask, PopTask, TasksRun, Ids
<1>2. read \in [Ids -> Entry]
  BY CachedStaysTyped DEF TypeOK
<1>3. copied \in SUBSET Results
  BY <1>2, ResultsTyped
<1>4. MethodBody(read, task.id, copied)
  BY DEF RunTask
<1>5. /\ exports' \in [Ids -> Entry]
      /\ nextExportIdNegative' \in (-MaxNeg - 1)..(-1)
      /\ nextImportId' \in 1..(MaxCalls + 1)
      /\ importToPromiseExport' \in [CallIds \cup ClientRefs -> NegIds \cup {0}]
      /\ targetRegistry' \subseteq Targets
  <2> HIDE DEF task, read, copied
  <2> QED
    BY <1>1, <1>2, <1>3, <1>4, MethodBodyTyped
<1>6. finished' \subseteq Ids
  <2>1. finished' = finished \cup early \cup {task.id}
    BY DEF RunTask, Dispatched
  <2> QED
    BY <1>1, <2>1 DEF TypeOK
<1> QED
  BY <1>1, <1>5, <1>6 DEF RunTask, PopTask, TypeOK, promises, refs

LEMMA RunTaskUnresolvedTyped ==
    ASSUME TypeOK, RunTaskUnresolved
    PROVE  TypeOK'
<1>1. PICK early \in Ran(Head(microtasks).pipes) :
         /\ exports' = SetResult(Cached(early), Head(microtasks).id, Error)
         /\ Dispatched(early)
  BY DEF RunTaskUnresolved
<1>2. /\ microtasks' \in Seq(Task) /\ Head(microtasks).id \in Ids /\ early \subseteq Ids
  BY PipesTyped, RanAreOperations DEF RunTaskUnresolved, PopTask, TasksRun, Ids
<1>3. Cached(early) \in [Ids -> Entry]
  BY CachedStaysTyped DEF TypeOK
<1>4. exports' \in [Ids -> Entry]
  BY <1>1, <1>2, <1>3, ResultKinds, SetResultTyped
<1>5. finished' \subseteq Ids
  BY <1>1, <1>2 DEF Dispatched, TypeOK
<1> QED
  BY <1>2, <1>4, <1>5 DEF RunTaskUnresolved, PopTask, TypeOK, promises, refs

LEMMA RunTaskReleasedTyped ==
    ASSUME TypeOK, RunTaskReleased
    PROVE  TypeOK'
<1>1. microtasks' \in Seq(Task)
  BY PipesTyped DEF RunTaskReleased, PopTask, TasksRun
<1> QED
  BY <1>1 DEF RunTaskReleased, PopTask, NoDispatch, TypeOK, promises, refs

LEMMA RunTaskForeignTyped ==
    ASSUME TypeOK, RunTaskForeign
    PROVE  TypeOK'
<1>1. PICK early \in Ran(Head(microtasks).pipes) : exports' = Cached(early) /\ Dispatched(early)
  BY DEF RunTaskForeign
<1>2. /\ microtasks' \in Seq(Task) /\ Head(microtasks).id \in PushIds
      /\ early \subseteq Ids
  BY PipesTyped, RanAreOperations DEF RunTaskForeign, PopTask, TasksRun
<1>3. exports' \in [Ids -> Entry]
  BY <1>1, CachedStaysTyped DEF TypeOK
<1>4. finished' \subseteq Ids
  BY <1>1, <1>2 DEF Dispatched, TypeOK
<1>5. stranded' \subseteq PushIds
  BY <1>2 DEF RunTaskForeign, TypeOK
<1> QED
  BY <1>2, <1>3, <1>4, <1>5 DEF RunTaskForeign, PopTask, TypeOK, promises, refs

LEMMA CrashTyped ==
    ASSUME TypeOK, Crash
    PROVE  TypeOK'
BY DEF Crash, NoDispatch, TypeOK, tables, promises, refs

LEMMA RunLateTyped ==
    ASSUME TypeOK, RunLate
    PROVE  TypeOK'
<1> DEFINE early  == Pending(Refs(pulling.id))
<1> DEFINE read   == Cached(early)
<1> DEFINE copied == ResultsOf(read, Refs(pulling.id))
<1>1. pulling.id \in Ids /\ early \subseteq Ids
  BY PendingAreOperations DEF RunLate, LateRuns, HasOperation
<1>2. read \in [Ids -> Entry] /\ copied \in SUBSET Results
  BY CachedStaysTyped, ResultsTyped DEF TypeOK
<1>3. MethodBody(read, pulling.id, copied) /\ Dispatched(early \cup {pulling.id})
  BY DEF RunLate
<1>4. /\ exports' \in [Ids -> Entry]
      /\ nextExportIdNegative' \in (-MaxNeg - 1)..(-1)
      /\ nextImportId' \in 1..(MaxCalls + 1)
      /\ importToPromiseExport' \in [CallIds \cup ClientRefs -> NegIds \cup {0}]
      /\ targetRegistry' \subseteq Targets
  <2> HIDE DEF read, copied
  <2> QED
    BY <1>1, <1>2, <1>3, MethodBodyTyped
<1>5. pulling' \in [id : Ids, late : BOOLEAN]
  BY <1>1 DEF RunLate, LateRuns, TypeOK, NoPull
<1>6. finished' \subseteq Ids
  BY <1>1, <1>3 DEF Dispatched, TypeOK
<1> QED
  BY <1>4, <1>5, <1>6 DEF RunLate, TypeOK, promises, refs

LEMMA OtherFramesTyped ==
    ASSUME TypeOK,
           \/ ReceiveOtherPush
           \/ \E id \in Ids : ReceivePull(id)
           \/ \E i \in CallIds \cup ClientPromises, type \in {"resolve", "reject"} :
                 ReceiveSettlement(i, type)
           \/ \E id \in Ids, count \in 1..MaxRc : ReceiveRelease(id, count)
    PROVE  TypeOK'
<1>1. CASE ReceiveOtherPush
  <2>1. nextExportId' \in 1..(MaxPush + 1) /\ spent' \subseteq PushIds
    BY <1>1, TablesAssumption DEF ReceiveOtherPush, PushIds, TypeOK
  <2> QED
    BY <1>1, <2>1 DEF ReceiveOtherPush, NoDispatch, TypeOK, control, promises, refs
<1>2. CASE \E id \in Ids : ReceivePull(id)
  BY <1>2 DEF ReceivePull, NoDispatch, TypeOK, tables, promises, refs
<1>3. CASE \E i \in CallIds \cup ClientPromises, type \in {"resolve", "reject"} :
             ReceiveSettlement(i, type)
  <2>1. PICK i \in CallIds \cup ClientPromises, type \in {"resolve", "reject"} :
           ReceiveSettlement(i, type)
    BY <1>3
  <2>2. importToPromiseExport' \in [CallIds \cup ClientRefs -> NegIds \cup {0}]
    BY <2>1 DEF ReceiveSettlement, TypeOK
  <2>3. settled' \subseteq NegIds
    <3>1. importToPromiseExport[i] \in NegIds \cup {0}
      BY <2>1, TablesAssumption DEF TypeOK
    <3> QED
      BY <2>1, <3>1 DEF ReceiveSettlement, TypeOK
  <2>4. answered' \subseteq CallIds \cup ClientPromises
    BY <2>1 DEF ReceiveSettlement, TypeOK
  <2> QED
    BY <2>1, <2>2, <2>3, <2>4 DEF ReceiveSettlement, NoDispatch, TypeOK, control, refs
<1>4. CASE \E id \in Ids, count \in 1..MaxRc : ReceiveRelease(id, count)
  <2>1. PICK id \in Ids, count \in 1..MaxRc : ReceiveRelease(id, count)
    BY <1>4
  <2>2. exports' \in [Ids -> Entry]
    <3>1. exports \in [Ids -> Entry] /\ exports' = Release(exports, id, count)
      BY <2>1 DEF ReceiveRelease, TypeOK
    <3> QED
      BY <3>1, SessionAssumption, ReleaseTyped
  <2>3. spent' \subseteq PushIds
    BY <2>1 DEF ReceiveRelease, TypeOK
  <2>4. held' \in [Ids -> Nat]
    <3>1. held \in [Ids -> Nat] /\ held' = [held EXCEPT ![id] = IF @ > count THEN @ - count ELSE 0]
      BY <2>1 DEF ReceiveRelease, TypeOK
    <3>2. (IF held[id] > count THEN held[id] - count ELSE 0) \in Nat
      BY <3>1, SessionAssumption
    <3> QED
      BY <3>1, <3>2
  <2> QED
    BY <2>1, <2>2, <2>3, <2>4 DEF ReceiveRelease, NoDispatch, TypeOK, control, promises
<1> QED
  BY <1>1, <1>2, <1>3, <1>4

LEMMA AbortTyped ==
    ASSUME TypeOK, Abort
    PROVE  TypeOK'
<1>1. exports' \in [Ids -> Entry]
  BY FreshEntries DEF Abort
<1>2. /\ nextExportId' \in 1..(MaxPush + 1)
      /\ nextExportIdNegative' \in (-MaxNeg - 1)..(-1)
      /\ nextImportId' \in 1..(MaxCalls + 1)
  BY TablesAssumption DEF Abort
<1> QED
  BY <1>1, <1>2 DEF Abort, NoDispatch, TypeOK, promises, refs

LEMMA CloseTyped ==
    ASSUME TypeOK, Close
    PROVE  TypeOK'
<1>1. exports' \in [Ids -> Entry]
  BY FreshEntries DEF Close, TypeOK, Entry
<1>2. released' \in [Ids -> Bags]
  BY BagsAdd DEF Close, TypeOK, Entry
<1> QED
  BY <1>1, <1>2 DEF Close, NoDispatch, TypeOK, promises

LEMMA AppUsesClientTyped ==
    ASSUME TypeOK, NEW r \in ClientRefs, AppUsesClient(r)
    PROVE  TypeOK'
<1>1. PICK called \in CallLists, awaited \in SUBSET ClientPromises, last \in Lasts :
         UseClient(called, awaited, last) /\ exports' = WithPromises(exports, last)
  BY AppUsesAreUses
<1>2. exports' \in [Ids -> Entry]
  BY <1>1, WithPromisesTyped DEF TypeOK
<1>3. /\ nextExportIdNegative' \in (-MaxNeg - 1)..(-1)
      /\ nextImportId' \in 1..(MaxCalls + 1)
      /\ importToPromiseExport' \in [CallIds \cup ClientRefs -> NegIds \cup {0}]
  BY <1>1, UseClientTyped
<1> QED
  BY <1>2, <1>3 DEF AppUsesClient, NoDispatch, TypeOK, control, promises, refs

LEMMA NextTyped ==
    ASSUME TypeOK, [Next]_vars
    PROVE  TypeOK'
<1>1. CASE Receive
  BY <1>1, ReceiveCallTyped, ReceiveRemapTyped, CrashTyped, OtherFramesTyped, AbortTyped
     DEF Receive, RemapCrashes, ReceiveAbort, ReceiveFatal
<1>2. CASE Handle
  BY <1>2, RunTaskTyped, RunTaskUnresolvedTyped, RunTaskReleasedTyped, RunTaskForeignTyped,
     CrashTyped, RunLateTyped, AnswerTyped
     DEF Handle, TaskCrashes, LateCrashes
<1>3. CASE \E r \in ClientRefs : AppUsesClient(r)
  BY <1>3, AppUsesClientTyped
<1>4. CASE Close
  BY <1>4, CloseTyped
<1>5. CASE UNCHANGED vars
  BY <1>5 DEF vars, tables, control, calls, promises, refs, TypeOK
<1> QED
  BY <1>1, <1>2, <1>3, <1>4, <1>5 DEF Next, Ended

\* Whatever the peer sends and the methods return, every table keeps the shape
\* the C++ types give it, and every id stays in the range it was allocated from.
THEOREM TypeCorrect == Spec => []TypeOK
<1>1. Init => TypeOK
  BY InitTyped
<1>2. TypeOK /\ [Next]_vars => TypeOK'
  BY NextTyped
<1> QED
  BY <1>1, <1>2, PTL DEF Spec

-----------------------------------------------------------------------------
(* Every step of a handler brings it nearer its end.                       *)

\* The steps that are no part of a handler wait until none runs.
LEMMA OthersNeedIdle ==
    ASSUME Receive \/ Close \/ (\E r \in ClientRefs : AppUsesClient(r))
    PROVE  Idle
<1>1. CASE Receive
  BY <1>1 DEF Receive, ReceiveCall, ReceiveOtherPush, ReceiveRemap, RemapCrashes,
              ReceivePull, ReceiveSettlement, ReceiveRelease, ReceiveAbort, ReceiveFatal, Abort
<1>2. CASE Close
  BY <1>2 DEF Close
<1>3. CASE \E r \in ClientRefs : AppUsesClient(r)
  BY <1>3 DEF AppUsesClient
<1> QED
  BY <1>1, <1>2, <1>3

\* A task leaves the queue, a call is run late, the pull is answered, or the process
\* ends, and nothing else of the handler's work changes.
LEMMA HandlerSteps ==
    ASSUME Handle
    PROVE  \/ /\ microtasks # <<>> /\ microtasks' = Tail(microtasks)
              /\ pulling' = pulling
           \/ /\ pulling # NoPull /\ ~pulling.late
              /\ pulling' = [pulling EXCEPT !.late = TRUE]
              /\ microtasks' = microtasks
           \/ /\ pulling # NoPull /\ pulling' = NoPull
              /\ microtasks' = microtasks
           \/ /\ pulling # NoPull \/ microtasks # <<>>
              /\ pulling' = NoPull /\ microtasks' = <<>>
<1>1. CASE RunTaskReleased \/ RunTaskUnresolved \/ RunTask \/ RunTaskForeign
  BY <1>1 DEF RunTaskReleased, RunTaskUnresolved, RunTask, RunTaskForeign, PopTask, TasksRun
<1>2. CASE RunLate
  BY <1>2 DEF RunLate, LateRuns
<1>3. CASE Answer
  BY <1>3 DEF Answer, AnswerNotFound, AnswerThrow, AnswerError, AnswerValue,
              AnswerKnownStub, AnswerNewStub, AnswerPromise, AnsweringResult, Answering
<1>4. CASE TaskCrashes \/ LateCrashes
  BY <1>4 DEF TaskCrashes, LateCrashes, TasksRun, LateRuns, Crash
<1> QED
  BY <1>1, <1>2, <1>3, <1>4 DEF Handle

LEMMA HandleShrinksWork ==
    ASSUME TypeOK, Handle
    PROVE  WorkLeft' < WorkLeft
<1> DEFINE Left(p) == IF p = NoPull THEN 0 ELSE IF p.late THEN 1 ELSE 2
<1>1. /\ WorkLeft  = 2 * Len(microtasks) + Left(pulling)
      /\ WorkLeft' = 2 * Len(microtasks') + Left(pulling')
  BY DEF WorkLeft
<1>2. \A p : Left(p) \in Nat
  OBVIOUS
<1>3. microtasks \in Seq(Task) /\ Len(microtasks) \in Nat
  BY DEF TypeOK
<1>4. \A m, n \in Nat : m < n => \A k \in Nat : 2 * m + k < 2 * n + k /\ 2 * k + m < 2 * k + n
  OBVIOUS
<1>5. CASE microtasks # <<>> /\ microtasks' = Tail(microtasks) /\ pulling' = pulling
  <2>1. Len(microtasks') \in Nat /\ Len(microtasks') < Len(microtasks)
    BY <1>3, <1>5
  <2> HIDE DEF Left
  <2> QED
    BY <1>1, <1>2, <1>3, <1>4, <1>5, <2>1
<1>6. CASE /\ pulling # NoPull /\ microtasks' = microtasks
           /\ \/ ~pulling.late /\ pulling' = [pulling EXCEPT !.late = TRUE]
              \/ pulling' = NoPull
  <2>1. Left(pulling) \in {1, 2} /\ (~pulling.late => Left(pulling) = 2)
    BY <1>6
  <2>2. Left(pulling') < Left(pulling)
    <3>1. CASE ~pulling.late /\ pulling' = [pulling EXCEPT !.late = TRUE]
      <4>1. pulling \in [id : Ids, late : BOOLEAN]
        BY <1>6 DEF TypeOK
      <4>2. pulling'.late = TRUE /\ NoPull.late = FALSE
        BY <3>1, <4>1 DEF NoPull
      <4>3. Left(pulling') = 1
        BY <4>2
      <4> QED
        BY <2>1, <3>1, <4>3
    <3>2. CASE pulling' = NoPull
      BY <2>1, <3>2
    <3> QED
      BY <1>6, <3>1, <3>2
  <2> HIDE DEF Left
  <2> QED
    BY <1>1, <1>2, <1>3, <1>4, <1>6, <2>2
<1>7. CASE /\ pulling # NoPull \/ microtasks # <<>>
           /\ pulling' = NoPull /\ microtasks' = <<>>
  <2>1. WorkLeft' = 0
    BY <1>1, <1>7
  <2>2. Len(microtasks) > 0 \/ Left(pulling) > 0
    BY <1>3, <1>7
  <2> HIDE DEF Left
  <2> QED
    BY <1>1, <1>2, <1>3, <2>1, <2>2
<1> QED
  BY <1>5, <1>6, <1>7, HandlerSteps

\* Whatever the methods of a handler return, throw and call, each step the loop takes
\* while it runs leaves less of it: no
\* handler takes more steps than the work it began with.
THEOREM HandlersAlwaysShrink == Spec => HandlersShrink
<1>1. TypeOK /\ [Next]_vars => [status = "open" /\ ~Idle => WorkLeft' < WorkLeft]_vars
  BY OthersNeedIdle, HandleShrinksWork DEF Next, Ended
<1> QED
  BY <1>1, TypeCorrect, PTL DEF Spec, HandlersShrink

-----------------------------------------------------------------------------
(* A pull finds the outcome of its call.                                   *)

\* The strengthening: until the process ends, a call that has no outcome yet is in the
\* queue, or its task ended in a foreign exception.  With an empty queue it is
\* PullFindsOutcome.
PendingAreQueued ==
    /\ pulling # NoPull => status = "open"
    /\ status # "crashed" =>
          \A id \in Ids : exports[id].phase = "operation" =>
              id \in stranded \/ \E k \in 1..Len(microtasks) : microtasks[k].id = id

LEMMA MethodBodyOperations ==
    ASSUME NEW table \in [Ids -> Entry], NEW id \in Ids, NEW copied,
           MethodBody(table, id, copied),
           NEW x \in Ids, exports'[x].phase = "operation"
    PROVE  x # id /\ table[x].phase = "operation"
<1>1. PICK last, result : exports' = WithPromises(SetResult(table, id, result), last)
  BY MethodBodyParts
<1>2. Bare(NoHook).phase # "operation"
  BY DEF Bare
<1>3. SetResult(table, id, result)[x].phase = "operation"
  BY <1>1, <1>2 DEF WithPromises
<1> QED
  BY <1>3 DEF SetResult, Entry

LEMMA ReplyOperations ==
    ASSUME NEW table \in [Ids -> Entry], NEW frame, Reply(table, frame), pulling.id \in Ids
    PROVE  \A x \in Ids : exports'[x].phase = table[x].phase
BY DEF Reply, Entry

LEMMA ClearResultOperations ==
    ASSUME NEW table \in [Ids -> Entry], NEW id \in Ids
    PROVE  \A x \in Ids : ClearResult(table, id)[x].phase = "operation"
               => table[x].phase = "operation"
BY DEF ClearResult, Entry

\* Answering a pull leaves no call waiting that was not waiting before, or that ran.
LEMMA AnswerOperations ==
    ASSUME TypeOK, Answer, NEW x \in Ids, exports'[x].phase = "operation"
    PROVE  exports[x].phase = "operation" /\ x \notin ran'
<1>1. pulling.id \in Ids
  BY DEF TypeOK, Answer, AnswerNotFound, AnswerThrow, AnswerError, AnswerValue,
         AnswerKnownStub, AnswerNewStub, AnswerPromise, AnsweringResult, Answering
<1>2. exports \in [Ids -> Entry]
  BY DEF TypeOK
<1>3. /\ ClearResult(exports, pulling.id) \in [Ids -> Entry] /\ Sent(exports) \in [Ids -> Entry]
      /\ ClearResult(exports, pulling.id)[x].phase = "operation" => exports[x].phase = "operation"
      /\ Sent(exports)[x].phase = "operation" => exports[x].phase = "operation"
  BY <1>1, <1>2, ClearResultTyped, ClearResultOperations DEF Sent
<1>4. CASE AnswerNotFound \/ AnswerError \/ AnswerValue
  BY <1>1, <1>2, <1>3, <1>4, ReplyOperations
     DEF AnswerNotFound, AnswerError, AnswerValue, AnsweringResult, NoDispatch
<1>7. CASE AnswerThrow
  <2>1. PICK early : Dispatched(early) /\ Reply(ClearResult(Cached(early), pulling.id), Reject)
    BY <1>7 DEF AnswerThrow
  <2>2. /\ Cached(early) \in [Ids -> Entry]
        /\ ClearResult(Cached(early), pulling.id) \in [Ids -> Entry]
    BY <1>1, <1>2, CachedStaysTyped, ClearResultTyped
  <2>3. ClearResult(Cached(early), pulling.id)[x].phase = "operation"
    BY <1>1, <2>1, <2>2, ReplyOperations
  <2>4. Cached(early)[x].phase = "operation"
    BY <1>1, <2>2, <2>3, ClearResultOperations
  <2> QED
    BY <1>2, <2>1, <2>4, CachedOperations DEF Dispatched
<1>5. CASE AnswerKnownStub
  <2>1. PICK n : Reply(IF Found(exports, n) THEN AddReference(Sent(exports), n)
                                            ELSE Sent(exports), Resolve(Export(n)))
    BY <1>5 DEF AnswerKnownStub
  <2>2. CASE Found(exports, n)
    <3>1. n \in Ids
      BY <2>2 DEF Found
    <3>2. AddReference(Sent(exports), n) \in [Ids -> Entry]
      BY <1>3, <3>1, AddReferenceTyped
    <3>3. AddReference(Sent(exports), n)[x].phase = Sent(exports)[x].phase
      BY <1>3, <3>1 DEF AddReference, Entry
    <3> QED
      BY <1>1, <1>3, <1>5, <2>1, <2>2, <3>2, <3>3, ReplyOperations
         DEF AnswerKnownStub, AnsweringResult, NoDispatch
  <2>3. CASE ~Found(exports, n)
    BY <1>1, <1>3, <1>5, <2>1, <2>3, ReplyOperations
       DEF AnswerKnownStub, AnsweringResult, NoDispatch
  <2> QED
    BY <2>2, <2>3
<1>6. CASE AnswerNewStub \/ AnswerPromise
  <2>1. nextExportIdNegative \in Ids
    BY <1>6 DEF AnswerNewStub, AnswerPromise, RoomForExport, Ids
  <2>2. PICK entry \in Entry :
           /\ \E frame : Reply(Put(Sent(exports), nextExportIdNegative, entry), frame)
           /\ entry.phase # "operation"
    <3>1. CASE AnswerNewStub
      <4>1. PICK t \in Targets :
               Reply(Put(Sent(exports), nextExportIdNegative, Bare(StubHook(t))),
                     Resolve(Export(nextExportIdNegative)))
        BY <3>1 DEF AnswerNewStub
      <4>2. Bare(StubHook(t)) \in Entry /\ Bare(StubHook(t)).phase # "operation"
        BY FreshEntries, TablesAssumption DEF StubHook, Bare
      <4> QED
        BY <4>1, <4>2
    <3>2. CASE AnswerPromise
      <4> DEFINE entry == Finished(exports[pulling.id].result.payload, Main, NoRefs)
      <4>1. exports[pulling.id].result \in Results
        BY <1>1, <1>2 DEF Entry
      <4>2. entry \in Entry
        BY <3>2, <4>1, ResultKinds, FreshEntries, TablesAssumption DEF AnswerPromise
      <4>3. entry.phase # "operation"
        BY DEF Finished
      <4> QED
        BY <3>2, <4>2, <4>3 DEF AnswerPromise
    <3> QED
      BY <1>6, <3>1, <3>2
  <2>3. Put(Sent(exports), nextExportIdNegative, entry) \in [Ids -> Entry]
    BY <1>3, <2>1, PutTyped
  <2>4. exports'[x].phase = Put(Sent(exports), nextExportIdNegative, entry)[x].phase
    BY <1>1, <2>2, <2>3, ReplyOperations
  <2> QED
    BY <1>3, <1>6, <2>1, <2>2, <2>4
       DEF Put, AnswerNewStub, AnswerPromise, AnsweringResult, NoDispatch
<1> QED
  BY <1>4, <1>5, <1>6, <1>7 DEF Answer

LEMMA QueueShrinks ==
    ASSUME TypeOK, PopTask, NEW x, x # Head(microtasks).id,
           \E k \in 1..Len(microtasks) : microtasks[k].id = x
    PROVE  \E k \in 1..Len(microtasks') : microtasks'[k].id = x
<1>1. microtasks \in Seq(Task) /\ microtasks # <<>> /\ microtasks' = Tail(microtasks)
  BY DEF TypeOK, PopTask, TasksRun
<1>2. PICK k \in 1..Len(microtasks) : microtasks[k].id = x
  OBVIOUS
<1>3. k # 1
  BY <1>1, <1>2
<1>4. k - 1 \in 1..Len(microtasks') /\ microtasks'[k - 1] = microtasks[k]
  BY <1>1, <1>3
<1> QED
  BY <1>2, <1>4

\* Every step but a call's arrival only takes calls out of the waiting ones.
LEMMA RunOperations ==
    ASSUME TypeOK, RunTask \/ RunTaskUnresolved \/ RunTaskForeign,
           NEW x \in Ids, exports'[x].phase = "operation"
    PROVE  /\ x # Head(microtasks).id \/ RunTaskForeign
           /\ x \notin ran' /\ exports[x].phase = "operation"
<1>1. /\ Head(microtasks).id \in Ids
      /\ exports \in [Ids -> Entry]
  BY PipesTyped DEF RunTask, RunTaskUnresolved, RunTaskForeign, PopTask, TasksRun, Ids, TypeOK
<1>2. \A early : Cached(early) \in [Ids -> Entry]
  BY <1>1, CachedStaysTyped
<1>3. CASE RunTask
  <2> DEFINE early == Pending(Head(microtasks).pipes)
  <2> DEFINE copied == ResultsOf(Cached(early), Head(microtasks).pipes)
  <2>1. /\ MethodBody(Cached(early), Head(microtasks).id, copied)
        /\ ran' = early \cup {Head(microtasks).id}
    BY <1>3 DEF RunTask, Dispatched
  <2> HIDE DEF early, copied
  <2>2. x # Head(microtasks).id /\ Cached(early)[x].phase = "operation"
    BY <1>1, <1>2, <2>1, MethodBodyOperations
  <2> QED
    BY <1>1, <2>1, <2>2, CachedOperations
<1>4. CASE RunTaskUnresolved
  <2>1. PICK early : /\ exports' = SetResult(Cached(early), Head(microtasks).id, Error)
                     /\ ran' = early
    BY <1>4 DEF RunTaskUnresolved, Dispatched
  <2>2. x # Head(microtasks).id /\ Cached(early)[x].phase = "operation"
    BY <1>1, <1>2, <2>1 DEF SetResult, Entry
  <2> QED
    BY <1>1, <2>1, <2>2, CachedOperations
<1>5. CASE RunTaskForeign
  <2>1. PICK early : exports' = Cached(early) /\ ran' = early
    BY <1>5 DEF RunTaskForeign, Dispatched
  <2> QED
    BY <1>1, <1>5, <2>1, CachedOperations
<1> QED
  BY <1>3, <1>4, <1>5

LEMMA LateOperations ==
    ASSUME TypeOK, RunLate, NEW x \in Ids, exports'[x].phase = "operation"
    PROVE  x \notin ran' /\ exports[x].phase = "operation"
<1> DEFINE early  == Pending(Refs(pulling.id))
<1> DEFINE copied == ResultsOf(Cached(early), Refs(pulling.id))
<1>1. /\ pulling.id \in Ids /\ exports \in [Ids -> Entry]
      /\ MethodBody(Cached(early), pulling.id, copied)
      /\ ran' = early \cup {pulling.id}
  BY DEF RunLate, LateRuns, HasOperation, Dispatched, TypeOK
<1> HIDE DEF early, copied
<1>2. Cached(early) \in [Ids -> Entry]
  BY <1>1, CachedStaysTyped
<1>3. x # pulling.id /\ Cached(early)[x].phase = "operation"
  BY <1>1, <1>2, MethodBodyOperations
<1> QED
  BY <1>1, <1>3, CachedOperations

LEMMA RemapOperations ==
    ASSUME TypeOK, NEW base \in {0} \cup Ids, NEW names \in Pipes, NEW captures \in Args,
           ReceiveRemap(base, names, captures),
           NEW x \in Ids, exports'[x].phase = "operation"
    PROVE  x # nextExportId /\ x \notin ran' /\ exports[x].phase = "operation"
<1>1. nextExportId \in Ids /\ exports \in [Ids -> Entry]
  BY DEF ReceiveRemap, Ids, TypeOK
<1>2. PICK early, copied :
         /\ ran' = early
         /\ MethodBody(Put(Cached(early), nextExportId, Finished(None, NoHook, captures)),
                       nextExportId, copied)
  BY DEF ReceiveRemap, Dispatched
<1> DEFINE table == Put(Cached(early), nextExportId, Finished(None, NoHook, captures))
<1>3. Cached(early) \in [Ids -> Entry]
  BY <1>1, CachedStaysTyped
<1>4. table \in [Ids -> Entry]
  BY <1>1, <1>3, ArgsAreBags, ResultKinds, FreshEntries, PutTyped
<1>5. x # nextExportId /\ table[x].phase = "operation"
  BY <1>1, <1>2, <1>4, MethodBodyOperations
<1>6. Cached(early)[x].phase = "operation"
  BY <1>3, <1>5 DEF Put
<1> QED
  BY <1>1, <1>2, <1>5, <1>6, CachedOperations

LEMMA OtherOperations ==
    ASSUME TypeOK,
           \/ ReceiveOtherPush
           \/ \E id \in Ids : ReceivePull(id)
           \/ \E i \in CallIds \cup ClientPromises, type \in {"resolve", "reject"} :
                 ReceiveSettlement(i, type)
           \/ \E id \in Ids, count \in 1..MaxRc : ReceiveRelease(id, count)
           \/ \E r \in ClientRefs : AppUsesClient(r)
           \/ Close,
           NEW x \in Ids, exports'[x].phase = "operation"
    PROVE  exports[x].phase = "operation" /\ ran' = {} /\ finished' = finished
<1>1. exports \in [Ids -> Entry]
  BY DEF TypeOK
<1>2. CASE \/ ReceiveOtherPush
           \/ \E id \in Ids : ReceivePull(id)
           \/ \E i \in CallIds \cup ClientPromises, type \in {"resolve", "reject"} :
                 ReceiveSettlement(i, type)
  BY <1>2 DEF ReceiveOtherPush, ReceivePull, ReceiveSettlement, NoDispatch, tables
<1>3. CASE \E id \in Ids, count \in 1..MaxRc : ReceiveRelease(id, count)
  <2>1. PICK id \in Ids, count \in 1..MaxRc : ReceiveRelease(id, count)
    BY <1>3
  <2>2. exports' = Release(exports, id, count) /\ NoDispatch
    BY <2>1 DEF ReceiveRelease
  <2>3. Release(exports, id, count)[x].phase = "operation" => exports[x].phase = "operation"
    BY <1>1 DEF Release, Free, Entry
  <2> QED
    BY <2>2, <2>3 DEF NoDispatch
<1>4. CASE \E r \in ClientRefs : AppUsesClient(r)
  <2>1. /\ \E last : exports' = WithPromises(exports, last)
        /\ NoDispatch
    BY <1>4 DEF AppUsesClient
  <2>2. Bare(NoHook).phase # "operation"
    BY DEF Bare
  <2> QED
    BY <2>1, <2>2 DEF WithPromises, NoDispatch
<1>5. CASE Close
  BY <1>1, <1>5 DEF Close, NoDispatch, Entry
<1> QED
  BY <1>2, <1>3, <1>4, <1>5

LEMMA PendingAreQueuedInductive ==
    ASSUME TypeOK, PendingAreQueued, [Next]_vars
    PROVE  PendingAreQueued'
<1>0. pulling' # NoPull => status' = "open"
  <2>1. CASE Receive \/ Close \/ \E r \in ClientRefs : AppUsesClient(r)
    <3>1. pulling = NoPull /\ status = "open"
      BY <2>1, OthersNeedIdle DEF Idle
    <3> QED
      BY <2>1, <3>1
         DEF Receive, ReceiveCall, ReceiveOtherPush, ReceiveRemap, RemapCrashes, ReceivePull,
             ReceiveSettlement, ReceiveRelease, ReceiveAbort, ReceiveFatal, Abort, Crash,
             Close, AppUsesClient, control
  <2>2. CASE Handle
    <3>1. pulling' = NoPull \/ (pulling # NoPull /\ status' = status) \/ pulling' = pulling
      BY <2>2 DEF Handle, RunTaskReleased, RunTaskUnresolved, RunTask, RunTaskForeign, PopTask,
         TaskCrashes, RunLate, LateRuns, LateCrashes, Crash, Answer, AnswerNotFound, AnswerThrow,
         AnswerError, AnswerValue, AnswerKnownStub, AnswerNewStub, AnswerPromise,
         AnsweringResult, Answering
    <3>2. pulling' = pulling => status' = status \/ pulling' = NoPull
      BY <2>2 DEF Handle, RunTaskReleased, RunTaskUnresolved, RunTask, RunTaskForeign, PopTask,
         TaskCrashes, RunLate, LateRuns, LateCrashes, Crash, Answer, AnswerNotFound, AnswerThrow,
         AnswerError, AnswerValue, AnswerKnownStub, AnswerNewStub, AnswerPromise,
         AnsweringResult, Answering
    <3> QED
      BY <3>1, <3>2 DEF PendingAreQueued
  <2> QED
    BY <2>1, <2>2 DEF Next, Ended, vars, control, PendingAreQueued
<1> SUFFICES ASSUME status' # "crashed", NEW x \in Ids, exports'[x].phase = "operation"
             PROVE  x \in stranded' \/ \E k \in 1..Len(microtasks') : microtasks'[k].id = x
  BY <1>0 DEF PendingAreQueued
<1>1. ASSUME exports[x].phase = "operation", status # "crashed", UNCHANGED <<microtasks, stranded>>
      PROVE  x \in stranded' \/ \E k \in 1..Len(microtasks') : microtasks'[k].id = x
  BY <1>1 DEF PendingAreQueued
<1>2. ASSUME exports[x].phase = "operation", PopTask, x # Head(microtasks).id,
             stranded \subseteq stranded'
      PROVE  x \in stranded' \/ \E k \in 1..Len(microtasks') : microtasks'[k].id = x
  BY <1>2, QueueShrinks DEF PendingAreQueued, PopTask, TasksRun
<1>3. ASSUME NEW subject \in Subjects, NEW args \in Args, NEW pipes \in Pipes,
             ReceiveCall(subject, args, pipes)
      PROVE  x \in stranded' \/ \E k \in 1..Len(microtasks') : microtasks'[k].id = x
  <2> DEFINE task == [id |-> nextExportId, subject |-> subject,
                      hook |-> CalleeOf(subject), pipes |-> pipes]
  <2>1. /\ microtasks \in Seq(Task) /\ task \in Task
        /\ microtasks' = Append(microtasks, task) /\ UNCHANGED stranded
        /\ nextExportId \in Ids /\ exports \in [Ids -> Entry] /\ status # "crashed"
        /\ exports' = Put(exports, nextExportId, Operation(CalleeOf(subject), args, pipes))
    <3>1. CalleeOf(subject) \in Targets
      BY TablesAssumption DEF CalleeOf, Found, TypeOK, Entry
    <3> QED
      BY <1>3, <3>1, SessionAssumption DEF ReceiveCall, Idle, Ids, TypeOK, Task
  <2>2. /\ Len(microtasks') = Len(microtasks) + 1
        /\ microtasks'[Len(microtasks) + 1] = task
        /\ \A k \in 1..Len(microtasks) : microtasks'[k] = microtasks[k]
        /\ Len(microtasks) \in Nat
    BY <2>1
  <2>3. CASE x = nextExportId
    BY <2>2, <2>3
  <2>4. CASE x # nextExportId
    <3>1. exports[x].phase = "operation"
      BY <2>1, <2>4 DEF Put
    <3>2. x \in stranded \/ \E k \in 1..Len(microtasks) : microtasks[k].id = x
      BY <2>1, <3>1 DEF PendingAreQueued
    <3> QED
      BY <2>1, <2>2, <3>2
  <2> QED
    BY <2>3, <2>4
<1>4. ASSUME NEW base \in {0} \cup Ids, NEW names \in Pipes, NEW captures \in Args,
             ReceiveRemap(base, names, captures)
      PROVE  x \in stranded' \/ \E k \in 1..Len(microtasks') : microtasks'[k].id = x
  BY <1>1, <1>4, RemapOperations DEF ReceiveRemap, Idle, control
<1>5. CASE Abort
  <2>1. exports'[x] = Free
    BY <1>5 DEF Abort
  <2> QED
    BY <2>1 DEF Free
<1>6. CASE RunTask \/ RunTaskUnresolved
  <2>1. x # Head(microtasks).id \/ RunTaskForeign
    BY <1>6, RunOperations
  <2>2. CASE RunTaskForeign
    BY <1>2, <2>2, RunOperations DEF RunTaskForeign
  <2> QED
    BY <1>2, <1>6, <2>1, <2>2, RunOperations DEF RunTask, RunTaskUnresolved
<1>7. CASE RunTaskReleased
  <2>1. exports' = exports /\ PopTask /\ UNCHANGED stranded
        /\ ~Found(exports, Head(microtasks).id)
    BY <1>7 DEF RunTaskReleased
  <2> QED
    BY <1>2, <2>1 DEF Found
<1>8. CASE RunTaskForeign
  <2>1. PopTask /\ stranded' = stranded \cup {Head(microtasks).id}
    BY <1>8 DEF RunTaskForeign
  <2> QED
    BY <1>2, <1>8, <2>1, RunOperations
<1>9. CASE RunLate
  BY <1>1, <1>9, LateOperations DEF RunLate
<1>10. CASE Answer
  BY <1>1, <1>10, AnswerOperations
     DEF Answer, AnswerNotFound, AnswerThrow, AnswerError, AnswerValue, AnswerKnownStub,
         AnswerNewStub, AnswerPromise, AnsweringResult, Answering
<1>11. CASE \/ ReceiveOtherPush
            \/ \E id \in Ids : ReceivePull(id)
            \/ \E i \in CallIds \cup ClientPromises, type \in {"resolve", "reject"} :
                  ReceiveSettlement(i, type)
            \/ \E id \in Ids, count \in 1..MaxRc : ReceiveRelease(id, count)
            \/ \E r \in ClientRefs : AppUsesClient(r)
            \/ Close
  <2>1. exports[x].phase = "operation"
    BY <1>11, OtherOperations
  <2>2. UNCHANGED <<microtasks, stranded>> /\ status # "crashed"
    BY <1>11 DEF ReceiveOtherPush, ReceivePull, ReceiveSettlement, ReceiveRelease,
                 AppUsesClient, Close, Idle, control
  <2> QED
    BY <1>1, <2>1, <2>2
<1>12. CASE UNCHANGED vars
  BY <1>1, <1>12 DEF vars, tables, control, calls
<1>13. CASE Crash
  BY <1>13 DEF Crash
<1> QED
  BY <1>3, <1>4, <1>5, <1>6, <1>7, <1>8, <1>9, <1>10, <1>11, <1>12, <1>13
     DEF Next, Receive, Handle, ReceiveAbort, ReceiveFatal, RemapCrashes, TaskCrashes,
         LateCrashes, Ended

\* Whatever the host drains, the client sends and the methods throw: a pull that
\* has run the queue looks up a call that has its outcome, unless the call's own
\* task ended in a foreign exception (rpc_session.cpp:445 and 534).
THEOREM PullsFindOutcomes == Spec => []PullFindsOutcome
<1>1. Init => PendingAreQueued
  BY DEF Init, PendingAreQueued, Free
<1>2. TypeOK /\ PendingAreQueued /\ [Next]_vars => PendingAreQueued'
  BY PendingAreQueuedInductive
<1>3. PendingAreQueued => PullFindsOutcome
  BY DEF PendingAreQueued, PullFindsOutcome, HasOperation
<1> QED
  BY <1>1, <1>2, <1>3, TypeCorrect, PTL DEF Spec

-----------------------------------------------------------------------------
(* A recorded outcome is final.                                            *)

\* The strengthening, for a host that drains the queue: no call still waiting has
\* an outcome, the queue holds one task at most, and the ids of the calls to come
\* are new.
WaitingHaveNoOutcome ==
    /\ \A id \in Ids : exports[id].phase = "operation" => id \notin finished
    /\ \A k \in 1..Len(microtasks) : microtasks[k].id \notin finished
    /\ Len(microtasks) <= 1
    /\ status = "open" =>
          /\ \A id \in PushIds : id \in finished \/ exports[id].phase = "operation"
                 => id < nextExportId
          /\ \A k \in 1..Len(microtasks) : microtasks[k].id < nextExportId

LEMMA OneTask ==
    ASSUME NEW S, NEW seq \in Seq(S), seq # <<>>, Len(seq) <= 1
    PROVE  Len(seq) = 1 /\ Tail(seq) = <<>> /\ Head(seq) = seq[1] /\ 1 \in 1..Len(seq)
<1>1. Len(seq) = 1
  <2>1. Len(seq) \in Nat
    OBVIOUS
  <2>2. Len(seq) # 0
    OBVIOUS
  <2>3. ASSUME NEW n \in Nat, n # 0, n <= 1 PROVE n = 1
    BY <2>3
  <2> QED
    BY <2>1, <2>2, <2>3
<1>2. Tail(seq) = <<>>
  <2>1. Tail(seq) \in Seq(S)
    OBVIOUS
  <2>2. Len(Tail(seq)) = 0
    BY <1>1
  <2> QED
    BY <2>1, <2>2, EmptySeq
<1>3. Head(seq) = seq[1] /\ 1 \in 1..Len(seq)
  BY <1>1
<1> QED
  BY <1>1, <1>2, <1>3

\* What a step runs was waiting, as an operation or at the head of the queue.
LEMMA RunsWereWaiting ==
    ASSUME TypeOK, Next
    PROVE  \/ UNCHANGED vars
           \/ /\ finished' = finished \cup ran'
              /\ \A d \in ran' : \/ HasOperation(exports, d)
                                 \/ PopTask /\ d = Head(microtasks).id
<1>1. CASE ran' = {} /\ UNCHANGED finished
  BY <1>1
<1>2. CASE RunTask
  <2>1. ran' = Pending(Head(microtasks).pipes) \cup {Head(microtasks).id}
        /\ finished' = finished \cup ran' /\ PopTask
    BY <1>2 DEF RunTask, Dispatched
  <2> QED
    BY <2>1, PendingAreOperations
<1>3. CASE RunTaskUnresolved \/ RunTaskForeign
  <2>1. PICK early \in Ran(Head(microtasks).pipes) :
           ran' = early /\ finished' = finished \cup ran'
    BY <1>3 DEF RunTaskUnresolved, RunTaskForeign, Dispatched
  <2> QED
    BY <2>1, RanAreOperations
<1>4. CASE RunLate
  <2>1. ran' = Pending(Refs(pulling.id)) \cup {pulling.id}
        /\ finished' = finished \cup ran' /\ HasOperation(exports, pulling.id)
    BY <1>4 DEF RunLate, LateRuns, Dispatched
  <2> QED
    BY <2>1, PendingAreOperations
<1>5. CASE \E base \in {0} \cup Ids, names \in Pipes, captures \in Args :
               ReceiveRemap(base, names, captures)
  <2>1. PICK base, names : \E early \in Ran({base} \cup names) :
           ran' = early /\ finished' = finished \cup ran'
    BY <1>5 DEF ReceiveRemap, Dispatched
  <2> QED
    BY <2>1, RanAreOperations
<1>6. CASE \/ \E subject \in Subjects, args \in Args, pipes \in Pipes :
                 ReceiveCall(subject, args, pipes)
           \/ ReceiveOtherPush
           \/ \E id \in Ids : ReceivePull(id)
           \/ \E i \in CallIds \cup ClientPromises, type \in {"resolve", "reject"} :
                 ReceiveSettlement(i, type)
           \/ \E id \in Ids, count \in 1..MaxRc : ReceiveRelease(id, count)
           \/ \E r \in ClientRefs : AppUsesClient(r)
           \/ Close \/ Abort \/ Crash
  BY <1>1, <1>6 DEF ReceiveCall, ReceiveOtherPush, ReceivePull, ReceiveSettlement,
                    ReceiveRelease, AppUsesClient, Close, Abort, Crash, NoDispatch
<1>7. CASE RunTaskReleased \/ AnswerNotFound \/ AnswerError \/ AnswerValue
           \/ AnswerKnownStub \/ AnswerNewStub \/ AnswerPromise
  BY <1>1, <1>7 DEF RunTaskReleased, AnswerNotFound, AnswerError, AnswerValue,
     AnswerKnownStub, AnswerNewStub, AnswerPromise, AnsweringResult, NoDispatch
<1>9. CASE AnswerThrow
  <2>1. PICK early \in Ran(Refs(pulling.id)) : ran' = early /\ finished' = finished \cup ran'
    BY <1>9 DEF AnswerThrow, Dispatched
  <2> QED
    BY <2>1, RanAreOperations
<1>8. CASE Ended
  BY <1>8 DEF Ended
<1> QED
  BY <1>2, <1>3, <1>4, <1>5, <1>6, <1>7, <1>8, <1>9
     DEF Next, Receive, Handle, Answer, ReceiveAbort, ReceiveFatal, RemapCrashes,
         TaskCrashes, LateCrashes

LEMMA WaitingHaveNoOutcomeInductive ==
    ASSUME Drains, TypeOK, WaitingHaveNoOutcome, [Next]_vars
    PROVE  WaitingHaveNoOutcome'
<1> USE DEF WaitingHaveNoOutcome
<1>0. /\ microtasks \in Seq(Task) /\ nextExportId \in Nat /\ PushIds \subseteq Nat
      /\ exports \in [Ids -> Entry] /\ PushIds \subseteq Ids
  BY DEF TypeOK, PushIds, Ids
\* A step that runs nothing and leaves the queue alone.
<1>1. ASSUME \A x \in Ids : exports'[x].phase = "operation" => exports[x].phase = "operation",
             UNCHANGED <<finished, microtasks>>,
             \/ UNCHANGED <<nextExportId, status>>
             \/ nextExportId' = nextExportId + 1 /\ UNCHANGED status
             \/ status' # "open"
      PROVE  WaitingHaveNoOutcome'
  <2>1. status' = "open" => status = "open" /\ nextExportId' \in Nat /\ nextExportId' >= nextExportId
    BY <1>0, <1>1
  <2>2. status' = "open" =>
          /\ \A id \in PushIds : id \in finished' \/ exports'[id].phase = "operation"
                 => id < nextExportId'
          /\ \A k \in 1..Len(microtasks') : microtasks'[k].id < nextExportId'
    <3> SUFFICES ASSUME status' = "open"
                 PROVE  /\ \A id \in PushIds : id \in finished' \/ exports'[id].phase = "operation"
                               => id < nextExportId'
                        /\ \A k \in 1..Len(microtasks') : microtasks'[k].id < nextExportId'
      OBVIOUS
    <3>1. \A k \in 1..Len(microtasks) : microtasks[k].id \in Nat
      <4>1. \A k \in 1..Len(microtasks) : microtasks[k] \in Task
        BY <1>0
      <4>2. \A task \in Task : task.id \in PushIds
        BY DEF Task
      <4> QED
        BY <1>0, <4>1, <4>2
    <3> QED
      BY <1>0, <1>1, <2>1, <3>1
  <2> QED
    BY <1>1, <2>2
\* A step that runs waiting calls and leaves the queue empty.
<1>2. ASSUME \A x \in Ids : exports'[x].phase = "operation" =>
                exports[x].phase = "operation" /\ x \notin ran',
             finished' = finished \cup ran',
             status = "open" => \A d \in ran' : d \in PushIds => d < nextExportId,
             microtasks' = <<>>, UNCHANGED status,
             nextExportId' \in {nextExportId, nextExportId + 1}
      PROVE  WaitingHaveNoOutcome'
  <2>1. status = "open" => \A id \in PushIds :
           id \in finished' \/ exports'[id].phase = "operation" => id < nextExportId'
    BY <1>0, <1>2
  <2> QED
    BY <1>2, <2>1
<1>3. Idle => microtasks = <<>> /\ status = "open"
  BY DEF Idle
<1>4. PopTask => /\ microtasks' = <<>> /\ UNCHANGED <<status, nextExportId>>
                 /\ status = "open"
                 /\ Head(microtasks) = microtasks[1] /\ 1 \in 1..Len(microtasks)
  <2> SUFFICES ASSUME PopTask
               PROVE  /\ microtasks' = <<>>
                      /\ Head(microtasks) = microtasks[1] /\ 1 \in 1..Len(microtasks)
    BY DEF PopTask, TasksRun
  <2>1. microtasks # <<>> /\ microtasks' = Tail(microtasks)
    BY DEF PopTask, TasksRun
  <2> QED
    BY <1>0, <2>1, OneTask
<1>5. Next => \/ UNCHANGED vars
              \/ /\ finished' = finished \cup ran'
                 /\ status = "open" => \A d \in ran' : d \in PushIds => d < nextExportId
  BY <1>4, RunsWereWaiting DEF HasOperation
<1>6. ASSUME NEW subject \in Subjects, NEW args \in Args, NEW pipes \in Pipes,
             ReceiveCall(subject, args, pipes)
      PROVE  WaitingHaveNoOutcome'
  <2> DEFINE task == [id |-> nextExportId, subject |-> subject,
                      hook |-> CalleeOf(subject), pipes |-> pipes]
  <2>1. /\ microtasks = <<>> /\ status = "open" /\ UNCHANGED <<status, finished>>
        /\ microtasks' = Append(microtasks, task)
        /\ nextExportId \in PushIds /\ nextExportId' = nextExportId + 1
        /\ exports' = Put(exports, nextExportId, Operation(CalleeOf(subject), args, pipes))
    BY <1>3, <1>6 DEF ReceiveCall, NoDispatch
  <2>2. microtasks' = <<task>> /\ Len(microtasks') = 1 /\ microtasks'[1].id = nextExportId
    BY <2>1
  <2>3. nextExportId \notin finished
    BY <1>0, <2>1
  <2>4. \A x \in Ids : exports'[x].phase = "operation" =>
           x = nextExportId \/ exports[x].phase = "operation"
    BY <1>0, <2>1 DEF Put
  <2>5. \A k \in 1..Len(microtasks') : microtasks'[k].id = nextExportId
    BY <2>2
  <2>6. nextExportId < nextExportId'
    BY <1>0, <2>1
  <2>7. \A id \in PushIds : id \in finished' \/ exports'[id].phase = "operation"
           => id < nextExportId'
    BY <1>0, <2>1, <2>4
  <2>8. \A id \in Ids : exports'[id].phase = "operation" => id \notin finished'
    BY <2>1, <2>3, <2>4
  <2> QED
    BY <2>1, <2>2, <2>3, <2>5, <2>6, <2>7, <2>8
<1>7. ASSUME NEW base \in {0} \cup Ids, NEW names \in Pipes, NEW captures \in Args,
             ReceiveRemap(base, names, captures)
      PROVE  WaitingHaveNoOutcome'
  <2>1. /\ microtasks' = <<>> /\ UNCHANGED status /\ nextExportId' = nextExportId + 1
        /\ finished' = finished \cup ran'
    BY <1>3, <1>7 DEF ReceiveRemap, control, Dispatched
  <2>2. \A d \in ran' : d \in PushIds => d < nextExportId
    BY <1>3, <1>7, RanAreOperations DEF ReceiveRemap, Dispatched, HasOperation
  <2> QED
    BY <1>2, <1>7, <2>1, <2>2, RemapOperations
<1>8. CASE RunTask \/ RunTaskUnresolved \/ RunTaskForeign
  <2>1. Next /\ PopTask
    BY <1>8 DEF RunTask, RunTaskUnresolved, RunTaskForeign, Next, Handle
  <2>2. ~UNCHANGED vars
    <3>1. microtasks # <<>> /\ microtasks' = <<>>
      BY <1>4, <2>1 DEF PopTask, TasksRun
    <3> QED
      BY <3>1 DEF vars, control
  <2> QED
    BY <1>2, <1>4, <1>5, <1>8, <2>1, <2>2, RunOperations
<1>9. CASE RunTaskReleased
  <2>1. /\ PopTask /\ ran' = {} /\ finished' = finished /\ exports' = exports
    BY <1>9 DEF RunTaskReleased, NoDispatch
  <2> QED
    BY <1>2, <1>4, <2>1
<1>10. CASE RunLate \/ Answer
  <2>1. Next /\ microtasks' = <<>> /\ UNCHANGED <<status, nextExportId>>
    BY <1>10 DEF Next, Handle, RunLate, LateRuns, Answer, AnswerNotFound, AnswerThrow,
         AnswerError, AnswerValue, AnswerKnownStub, AnswerNewStub, AnswerPromise,
         AnsweringResult, Answering
  <2>2. pulling' # pulling
    <3>1. CASE RunLate
      BY <3>1 DEF RunLate, LateRuns, TypeOK
    <3>2. CASE Answer
      BY <3>2 DEF Answer, AnswerNotFound, AnswerThrow, AnswerError, AnswerValue,
         AnswerKnownStub, AnswerNewStub, AnswerPromise, AnsweringResult, Answering
    <3> QED
      BY <1>10, <3>1, <3>2
  <2>3. \A x \in Ids : exports'[x].phase = "operation" =>
           exports[x].phase = "operation" /\ x \notin ran'
    BY <1>10, LateOperations, AnswerOperations
  <2> QED
    BY <1>2, <1>5, <2>1, <2>2, <2>3 DEF vars, control
<1>11. CASE Crash
  <2>1. /\ microtasks' = <<>> /\ Len(microtasks') = 0 /\ status' = "crashed"
        /\ UNCHANGED <<exports, finished>>
    BY <1>11 DEF Crash, NoDispatch, tables
  <2> QED
    BY <2>1
<1>12. CASE \/ ReceiveOtherPush
            \/ \E id \in Ids : ReceivePull(id)
            \/ \E i \in CallIds \cup ClientPromises, type \in {"resolve", "reject"} :
                  ReceiveSettlement(i, type)
            \/ \E id \in Ids, count \in 1..MaxRc : ReceiveRelease(id, count)
            \/ \E r \in ClientRefs : AppUsesClient(r)
            \/ Close
  <2>1. \A x \in Ids : exports'[x].phase = "operation" => exports[x].phase = "operation"
    BY <1>12, OtherOperations
  <2>2. /\ UNCHANGED <<finished, microtasks>>
        /\ \/ UNCHANGED <<nextExportId, status>>
           \/ nextExportId' = nextExportId + 1 /\ UNCHANGED status
           \/ status' # "open"
    BY <1>12 DEF ReceiveOtherPush, ReceivePull, ReceiveSettlement, ReceiveRelease,
                 AppUsesClient, Close, NoDispatch, control, tables
  <2> QED
    BY <1>1, <2>1, <2>2
<1>13. CASE Abort
  <2>1. /\ microtasks' = <<>> /\ status' = "aborted"
        /\ \A x \in Ids : exports'[x] = Free
    BY <1>13 DEF Abort
  <2> QED
    BY <2>1 DEF Free
<1>14. CASE UNCHANGED vars
  BY <1>1, <1>14 DEF vars, tables, control, calls
<1> QED
  BY <1>6, <1>7, <1>8, <1>9, <1>10, <1>11, <1>12, <1>13, <1>14
     DEF Next, Receive, Handle, ReceiveAbort, ReceiveFatal, RemapCrashes, TaskCrashes,
         LateCrashes, Ended

\* Under a host that drains the queue after each frame, as every host of the
\* repository does: no call is dispatched again once its outcome is recorded,
\* for any number of calls that refer to it, pull it or remap it.
THEOREM OutcomesAreFinal == Drains => (Spec => RecordedOnce)
<1> SUFFICES ASSUME Drains PROVE Spec => RecordedOnce
  OBVIOUS
<1>1. Init => WaitingHaveNoOutcome
  <2> SUFFICES ASSUME Init PROVE WaitingHaveNoOutcome
    OBVIOUS
  <2>1. \A id \in Ids : exports[id].phase = "free"
    BY DEF Init, Free
  <2>2. microtasks = <<>> /\ Len(microtasks) = 0 /\ finished = {}
    BY DEF Init
  <2>3. PushIds \subseteq Ids
    BY DEF Ids
  <2> QED
    BY <2>1, <2>2, <2>3 DEF WaitingHaveNoOutcome
<1>2. TypeOK /\ WaitingHaveNoOutcome /\ [Next]_vars => WaitingHaveNoOutcome'
  BY WaitingHaveNoOutcomeInductive
<1>3. TypeOK /\ WaitingHaveNoOutcome /\ [Next]_vars => [ran' \cap finished = {}]_vars
  <2> SUFFICES ASSUME TypeOK, WaitingHaveNoOutcome, Next, ~UNCHANGED vars, NEW d \in ran'
               PROVE  d \notin finished
    OBVIOUS
  <2>1. CASE HasOperation(exports, d)
    BY <2>1 DEF HasOperation, WaitingHaveNoOutcome
  <2>2. CASE PopTask /\ d = Head(microtasks).id
    <3>1. microtasks \in Seq(Task) /\ microtasks # <<>>
      BY <2>2 DEF PopTask, TasksRun, TypeOK
    <3>2. Head(microtasks) = microtasks[1] /\ 1 \in 1..Len(microtasks)
      BY <3>1
    <3> QED
      BY <2>2, <3>2 DEF WaitingHaveNoOutcome
  <2> QED
    BY <2>1, <2>2, RunsWereWaiting
<1> QED
  BY <1>1, <1>2, <1>3, TypeCorrect, PTL DEF Spec, RecordedOnce
=============================================================================
