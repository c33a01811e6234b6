------------------------------- MODULE Accounting -------------------------------
(***************************************************************************)
(* Cost accounting (cost/, request/request.go, endpoint/completion.go).    *)
(*                                                                         *)
(* A Recorder collects the usage of one operation: a request or a job.     *)
(* It is found through a context, so a goroutine of a handler records on   *)
(* it, and starts operations below it, for as long as it likes; requests   *)
(* may be served in the context of another operation.  At the end of a     *)
(* request the completion event takes a snapshot of its recorder and goes  *)
(* to the completion sink, which the application may exchange meanwhile.   *)
(* The recorder locks one call at a time: completing it, reading it and    *)
(* delivering what was read are separate steps.                            *)
(***************************************************************************)
EXTENDS Integers, Sequences, SequencesExt

CONSTANTS
    Units,          \* the usage units a program reports
    Sinks,          \* the completion sinks it installs
    NoopSink,       \* the sink in force before that
    ClientID,       \* a request id sent by a client
    ClientTrace,    \* a trace id sent by a client
    MaxOperations,  \* bound: recorders
    MaxUnits,       \* bound: units recorded
    MaxRequests,    \* bound: requests served
    MaxFlushes,     \* bound: calls of Flush
    MaxOverrides    \* bound: calls of ConfigureCompletionSink

UsageUnits == [identified : BOOLEAN, quantity : Int, labelled : BOOLEAN]
None == 0           \* an empty id, and a context without a recorder

ASSUME UnitsAssumption == Units \subseteq UsageUnits
ASSUME SinksAssumption == NoopSink \notin Sinks
ASSUME ClientAssumption == None \notin {ClientID, ClientTrace}
ASSUME BoundsAssumption ==
    {MaxOperations, MaxUnits, MaxRequests, MaxFlushes, MaxOverrides} \subseteq Nat

VARIABLES
    recorders,      \* every Recorder, an operation id is its place
    requests,       \* the requests served, with the progress of each
    flushes,        \* the calls of Recorder.Flush
    sink,           \* completionSinkState.sink
    overrides, nested

costVars == <<recorders, requests, flushes>>
vars == <<recorders, requests, flushes, sink, overrides, nested>>

Config == INSTANCE PackageConfig WITH
    Values <- Sinks, Default <- NoopSink, current <- sink

Operations == DOMAIN recorders
Contexts == Operations \cup {None}

Init ==
    /\ recorders = <<>>
    /\ requests = <<>>
    /\ flushes = <<>>
    /\ Config!ConfigInit

(***************************************************************************)
(* The lineage of an operation.  Given are the fields its creator sets;    *)
(* the empty ones are filled from the parent, and then by default.         *)
(***************************************************************************)
Unset == [root |-> None, parent |-> None, trace |-> None, causation |-> None]

\* Mutant: an operation without a parent is left without a root.
NormalizeRootless(id, given) ==
    [given EXCEPT !.root = IF @ # None THEN @ ELSE given.parent]

NormalizeOperation(id, given) ==
    [given EXCEPT !.root = IF @ # None THEN @
                           ELSE IF given.parent # None THEN given.parent ELSE id]

\* Mutant: what was given is looked up after the defaults were filled in.
ChildNormalizedFirst(parent, id, given) ==
    LET operation == NormalizeOperation(id, given)
        inherited == recorders[parent].operation
    IN [field \in DOMAIN operation |->
            IF operation[field] # None THEN operation[field]
            ELSE IF field = "parent" THEN parent ELSE inherited[field]]

ChildOperation(parent, id, given) ==
    LET operation == NormalizeOperation(id, given)
        inherited == recorders[parent].operation
    IN [field \in DOMAIN given |->
            IF given[field] # None THEN operation[field]
            ELSE IF field = "parent" THEN parent ELSE inherited[field]]

\* NewChildRecorder in a context, or NewRecorder where that has none.
NewRecorder(context, given, kind) ==
    LET id == Len(recorders) + 1
    IN [operation |-> IF context = None THEN NormalizeOperation(id, given)
                      ELSE ChildOperation(context, id, given),
        context |-> context, kind |-> kind, units |-> <<>>, completed |-> FALSE]

\* A request is the root of its operation, and caused by what its client
\* says or else by itself.
DefaultCostOperation(id, fromClient) ==
    [Unset EXCEPT !.root = id,
                  !.trace = IF fromClient THEN ClientTrace ELSE None,
                  !.causation = IF fromClient THEN ClientID ELSE id]

NewRequestRecorder(context, fromClient) ==
    NewRecorder(context, DefaultCostOperation(Len(recorders) + 1, fromClient), "request")

\* cost.StartChild; or cost.NewRecorder, by a process that was only sent the
\* id of the operation it continues.
StartJob(context, parent) ==
    /\ Len(recorders) < MaxOperations
    /\ recorders' = Append(recorders, NewRecorder(context, [Unset EXCEPT !.parent = parent], "job"))
    /\ UNCHANGED <<requests, flushes, sink, overrides, nested>>

Validate(unit) == unit.identified /\ unit.quantity > 0 /\ unit.labelled

\* Recorder.Record: an invalid unit is an error, and leaves no trace.
Record(i, unit) ==
    /\ FoldSeq(LAMBDA r, n : n + Len(r.units), 0, recorders) < MaxUnits
    /\ Validate(unit)
    /\ recorders' = [recorders EXCEPT ![i].units = Append(@, unit)]
    /\ UNCHANGED <<requests, flushes, sink, overrides, nested>>

NoEvent == [accounted |-> FALSE, operation |-> Unset, completed |-> FALSE, usage |-> <<>>]

\* Recorder.Event.
Snapshot(i) ==
    [accounted |-> TRUE, operation |-> recorders[i].operation,
     completed |-> recorders[i].completed, usage |-> recorders[i].units]

(***************************************************************************)
(* A request has its recorder from NewReq on.  One that is refused before  *)
(* that has none until it completes.                                       *)
(***************************************************************************)
Request(recorder, context, fromClient, accounting, step) ==
    [recorder |-> recorder, context |-> context, fromClient |-> fromClient,
     accounting |-> accounting, step |-> step, handled |-> 0,
     event |-> NoEvent, sinks |-> <<>>]

Serve(context, fromClient, accounting) ==
    /\ Len(requests) < MaxRequests /\ Len(recorders) < MaxOperations
    /\ recorders' = Append(recorders, NewRequestRecorder(context, fromClient))
    /\ requests' = Append(requests, Request(Len(recorders) + 1, context, fromClient,
                                            accounting, "serving"))
    /\ UNCHANGED <<flushes, sink, overrides, nested>>

Refuse(context, fromClient, accounting) ==
    /\ Len(requests) < MaxRequests
    /\ requests' = Append(requests, Request(None, context, fromClient, accounting, "returned"))
    /\ UNCHANGED <<recorders, flushes, sink, overrides, nested>>

\* The handler returns, or panics: what it recorded itself is recorded.
HandlerReturns(q) ==
    /\ requests[q].step = "serving"
    /\ requests' = [requests EXCEPT ![q] =
                    [@ EXCEPT !.step = "returned",
                              !.handled = Len(recorders[requests[q].recorder].units)]]
    /\ UNCHANGED <<recorders, flushes, sink, overrides, nested>>

\* completionCostEvent: no event is made for an endpoint that is not accounted.
SkipAccounting(q) ==
    /\ requests[q].step = "returned" /\ ~ requests[q].accounting
    /\ requests' = [requests EXCEPT ![q].step = "captured"]
    /\ UNCHANGED <<recorders, flushes, sink, overrides, nested>>

\* ensureCostRecorder, then Recorder.Complete.
CompleteOperation(q) ==
    LET i == requests[q].recorder
    IN /\ requests[q].step = "returned" /\ requests[q].accounting
       /\ \/ /\ i # None
             /\ recorders' = [recorders EXCEPT ![i].completed = TRUE]
             /\ requests' = [requests EXCEPT ![q].step = "completed"]
          \/ /\ i = None /\ Len(recorders) < MaxOperations
             /\ recorders' = Append(recorders,
                    [NewRequestRecorder(requests[q].context, requests[q].fromClient)
                        EXCEPT !.completed = TRUE])
             /\ requests' = [requests EXCEPT ![q] =
                    [@ EXCEPT !.step = "completed", !.recorder = Len(recorders) + 1]]
       /\ UNCHANGED <<flushes, sink, overrides, nested>>

\* Mutant: the event is made of the operation, without its usage.
CaptureHandled(q) ==
    /\ requests[q].step = "completed"
    /\ requests' = [requests EXCEPT ![q] =
                    [@ EXCEPT !.step = "captured",
                              !.event = [Snapshot(requests[q].recorder) EXCEPT !.usage = <<>>]]]
    /\ UNCHANGED <<recorders, flushes, sink, overrides, nested>>

CaptureEvent(q) ==
    /\ requests[q].step = "completed"
    /\ requests' = [requests EXCEPT ![q] =
                    [@ EXCEPT !.step = "captured", !.event = Snapshot(requests[q].recorder)]]
    /\ UNCHANGED <<recorders, flushes, sink, overrides, nested>>

\* The sink is looked up last.  It may fail or panic: nothing is retried.
CompleteEndpoint(q) ==
    /\ requests[q].step = "captured"
    /\ requests' = [requests EXCEPT ![q] =
                    [@ EXCEPT !.step = "delivered", !.sinks = Append(requests[q].sinks, sink)]]
    /\ UNCHANGED <<recorders, flushes, sink, overrides, nested>>

(***************************************************************************)
(* Recorder.Flush, by whoever holds the recorder.                          *)
(***************************************************************************)
Flush(i) ==
    /\ Len(flushes) < MaxFlushes
    /\ recorders' = [recorders EXCEPT ![i].completed = TRUE]
    /\ flushes' = Append(flushes, [recorder |-> i, event |-> NoEvent])
    /\ UNCHANGED <<requests, sink, overrides, nested>>

FlushEvent(f) ==
    /\ flushes[f].event = NoEvent
    /\ flushes' = [flushes EXCEPT ![f].event = Snapshot(flushes[f].recorder)]
    /\ UNCHANGED <<recorders, requests, sink, overrides, nested>>

ConfigureSink ==
    /\ Config!Reconfigure
    /\ Len(overrides') <= MaxOverrides
    /\ UNCHANGED costVars

Next ==
    \/ \E context \in Contexts :
        \/ \E parent \in Contexts : StartJob(context, parent)
        \/ \E fromClient, accounting \in BOOLEAN :
              Serve(context, fromClient, accounting) \/ Refuse(context, fromClient, accounting)
    \/ \E i \in Operations : Flush(i) \/ \E unit \in Units : Record(i, unit)
    \/ \E q \in DOMAIN requests :
        \/ HandlerReturns(q)
        \/ SkipAccounting(q)
        \/ CompleteOperation(q)
        \/ CaptureEvent(q)
        \/ CompleteEndpoint(q)
    \/ \E f \in DOMAIN flushes : FlushEvent(f)
    \/ ConfigureSink

Spec == Init /\ [][Next]_vars

-----------------------------------------------------------------------------
TypeOK ==
    /\ \A i \in Operations :
          /\ recorders[i].units \in Seq(Units)
          /\ recorders[i].operation.root \in Operations
          /\ recorders[i].operation.parent \in 0 .. i - 1
    /\ \A q \in DOMAIN requests : requests[q].recorder \in Contexts
    /\ Config!ConfigTypeOK

\* The completion event of a request has everything its handler recorded
\* ("the final usage snapshot", request.go:531), and no event has more than
\* was recorded on its operation, or in another order: events of the same
\* operation, sent by Flush and by its completion, agree.
CompletionCoversHandler ==
    /\ \A q \in DOMAIN requests :
          requests[q].event # NoEvent =>
              /\ requests[q].event.completed
              /\ Len(requests[q].event.usage) >= requests[q].handled
              /\ IsPrefix(requests[q].event.usage, recorders[requests[q].recorder].units)
    /\ \A f \in DOMAIN flushes :
          IsPrefix(flushes[f].event.usage, recorders[flushes[f].recorder].units)

\* The request, or the first job, whose work a job is.
Owner[i \in Operations] ==
    IF recorders[i].kind = "request" \/ recorders[i].context = None THEN i
    ELSE Owner[recorders[i].context]

\* Whatever jobs a request starts, and those start, on whatever goroutine and
\* also after it was answered: all roll up to the request, with its trace and
\* its cause (recorder.go:33-44, operation.go:89-112).
WorkIsAttributed ==
    \A i \in Operations :
        LET operation == recorders[i].operation
            owner == recorders[Owner[i]]
        IN /\ operation.root = owner.operation.root
           /\ operation.trace = owner.operation.trace
           /\ operation.causation = owner.operation.causation
           /\ owner.kind = "request" => operation.root = Owner[i]

\* "A request, job, workflow, activity, provider call, or repository call can
\* all have an operation id and can all point back to the same root operation
\* for accounting rollups" (operation.go:18-20).
RollupToRoot ==
    \A i \in Operations :
        recorders[i].context # None =>
            recorders[i].operation.root = recorders[recorders[i].context].operation.root
=============================================================================
