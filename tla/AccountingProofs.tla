---------------------------- MODULE AccountingProofs ----------------------------
(***************************************************************************)
(* Work is attributed to the request that caused it, and completion events *)
(* have what was recorded, for any number of operations, requests and      *)
(* flushes.                                                                *)
(***************************************************************************)
EXTENDS Accounting, ProofFacts, TLAPS

Up(i) == recorders[i].context
IsOwner(i) == recorders[i].kind = "request" \/ recorders[i].context = None

\* A recorder's context is an operation that was there before it.
ContextsPrecede ==
    /\ Operations = 1 .. Len(recorders) /\ Len(recorders) \in Nat
    /\ \A i \in Operations : Up(i) \in 0 .. i - 1

OwnersTo(n, f) == f = [i \in 1 .. n |-> IF IsOwner(i) THEN i ELSE f[Up(i)]]

\* The owner of an operation is defined.
LEMMA OwnerEquation ==
    ASSUME ContextsPrecede
    PROVE  \A i \in Operations : Owner[i] = IF IsOwner(i) THEN i ELSE Owner[Up(i)]
  <1> DEFINE N == Len(recorders)
             Without == {n \in 0 .. N : \A f : ~ OwnersTo(n, f)}
  <1>1. Without = {}
    <2> SUFFICES ASSUME Without # {} PROVE FALSE
      OBVIOUS
    <2>1. PICK n \in Without : \A m \in Without : n <= m
      <3>1. Without \subseteq Nat
        OBVIOUS
      <3> QED
        BY <3>1, Least
    <2>2. n # 0
      <3> DEFINE f == [i \in 1 .. 0 |-> 0]
      <3>1. OwnersTo(0, f)
        BY DEF OwnersTo
      <3> QED
        BY <3>1
    <2>3. n - 1 \in 0 .. N /\ ~ (n <= n - 1) /\ n \in 1 .. N
      BY <2>2 DEF ContextsPrecede
    <2>4. PICK f : OwnersTo(n - 1, f)
      BY <2>1, <2>3
    <2> DEFINE g == [i \in 1 .. n |-> IF i = n THEN IF IsOwner(n) THEN n ELSE f[Up(n)]
                                      ELSE f[i]]
    <2>5. OwnersTo(n, g)
      <3>1. \A i \in 1 .. n - 1 : f[i] = IF IsOwner(i) THEN i ELSE f[Up(i)]
        BY <2>4 DEF OwnersTo
      <3>2. \A i \in 1 .. n : ~ IsOwner(i) => Up(i) \in 1 .. i - 1
        BY <2>3 DEF ContextsPrecede, IsOwner, Up, None
      <3>3. \A i \in 1 .. n : g[i] = IF IsOwner(i) THEN i ELSE g[Up(i)]
        BY <2>3, <3>1, <3>2
      <3> QED
        BY <3>3 DEF OwnersTo
    <2> QED
      BY <2>1, <2>5
  <1>2. \E f : OwnersTo(N, f)
    BY <1>1 DEF ContextsPrecede
  <1>3. OwnersTo(N, Owner)
    <2>1. Owner = CHOOSE f : f = [i \in Operations |-> IF IsOwner(i) THEN i ELSE f[Up(i)]]
      BY DEF Owner, IsOwner, Up
    <2> QED
      BY <1>2, <2>1 DEF OwnersTo, ContextsPrecede
  <1> QED
    BY <1>3 DEF OwnersTo, ContextsPrecede

-----------------------------------------------------------------------------
(***************************************************************************)
(* The invariant.                                                          *)
(***************************************************************************)
Ids == Nat \cup {ClientID, ClientTrace}
CostOperations == [root : Nat, parent : Nat, trace : Ids, causation : Ids]
Recorders == [operation : CostOperations, context : Nat, kind : {"request", "job"},
              units : Seq(Units), completed : BOOLEAN]
Events == [accounted : BOOLEAN, operation : CostOperations, completed : BOOLEAN,
           usage : Seq(Units)]
Steps == {"serving", "returned", "completed", "captured", "delivered"}
Requests == [recorder : Nat, context : Nat, fromClient : BOOLEAN, accounting : BOOLEAN,
             step : Steps, handled : Nat, event : Events,
             sinks : Seq(Sinks \cup {NoopSink})]
Flushes == [recorder : Nat, event : Events]

Typed ==
    /\ recorders \in Seq(Recorders)
    /\ requests \in Seq(Requests)
    /\ flushes \in Seq(Flushes)
    /\ Config!ConfigTypeOK

\* A job has the root, the trace and the cause of the operation it was started
\* in; a request is its own root.
Lineage(i) ==
    LET recorder == recorders[i]
        operation == recorder.operation
    IN /\ recorder.context \in 0 .. i - 1
       /\ operation.root \in Operations
       /\ operation.parent \in 0 .. i - 1
       /\ recorder.kind = "request" => operation.root = i
       /\ recorder.kind = "job" /\ recorder.context # None =>
             LET above == recorders[recorder.context].operation
             IN /\ operation.root = above.root
                /\ operation.trace = above.trace
                /\ operation.causation = above.causation

\* What the event of a request covers, before and after it is made.
Covered(request) ==
    /\ request.recorder \in Contexts
    /\ request.context \in Contexts
    /\ request.step \in {"serving", "completed"} => request.recorder # None
    /\ request.recorder = None => request.handled = 0
    /\ request.recorder # None => request.handled <= Len(recorders[request.recorder].units)
    /\ request.step = "completed" => recorders[request.recorder].completed
    /\ request.event = NoEvent
       \/ /\ request.recorder # None
          /\ request.event.completed
          /\ request.handled <= Len(request.event.usage)
          /\ IsPrefix(request.event.usage, recorders[request.recorder].units)
    /\ request.step \in {"serving", "returned", "completed"} => request.event = NoEvent

Flushed(flush) ==
    /\ flush.recorder \in Operations
    /\ IsPrefix(flush.event.usage, recorders[flush.recorder].units)

CostInv ==
    /\ Typed
    /\ \A i \in Operations : Lineage(i)
    /\ \A q \in DOMAIN requests : Covered(requests[q])
    /\ \A f \in DOMAIN flushes : Flushed(flushes[f])

-----------------------------------------------------------------------------
(***************************************************************************)
(* What a step may do to recorders: add one, and add to one.               *)
(***************************************************************************)
LEMMA PrefixSelf ==
    ASSUME NEW S, NEW s \in Seq(S)
    PROVE  IsPrefix(s, s) /\ IsPrefix(<<>>, s)
  BY DEF IsPrefix

LEMMA PrefixGrows ==
    ASSUME NEW S, NEW s \in Seq(S), NEW t \in Seq(S), NEW x \in S, IsPrefix(s, t)
    PROVE  IsPrefix(s, Append(t, x))
  <1>1. Len(s) <= Len(Append(t, x))
    BY DEF IsPrefix
  <1>2. SubSeq(t, 1, Len(s)) = SubSeq(Append(t, x), 1, Len(s))
    BY DEF IsPrefix
  <1> QED
    BY <1>1, <1>2 DEF IsPrefix

Grown(old, new) ==
    /\ new.operation = old.operation
    /\ new.context = old.context
    /\ new.kind = old.kind
    /\ old.completed => new.completed
    /\ new.units = old.units \/ \E unit \in Units : new.units = Append(old.units, unit)

Grows ==
    /\ recorders' \in Seq(Recorders)
    /\ Len(recorders) <= Len(recorders')
    /\ \A i \in Operations : Grown(recorders[i], recorders'[i])

LEMMA KeepsOperations ==
    ASSUME CostInv, Grows
    PROVE  /\ Operations \subseteq Operations' /\ Contexts \subseteq Contexts'
           /\ Operations = 1 .. Len(recorders) /\ Len(recorders) \in Nat
           /\ \A i \in Operations : recorders[i] \in Recorders
  BY Elements DEF CostInv, Typed, Grows, Operations, Contexts

LEMMA LineageKept ==
    ASSUME CostInv, Grows, NEW i \in Operations
    PROVE  Lineage(i)'
  <1>1. Lineage(i)
    BY DEF CostInv
  <1>2. recorders[i].context # None => recorders[i].context \in Operations
    BY <1>1, KeepsOperations DEF Lineage, None
  <1>3. Grown(recorders[i], recorders'[i])
    BY DEF Grows
  <1>4. recorders[i].context # None =>
            Grown(recorders[recorders[i].context], recorders'[recorders[i].context])
    BY <1>2 DEF Grows
  <1> QED
    BY <1>1, <1>3, <1>4, KeepsOperations DEF Lineage, Grown

LEMMA UnitsKept ==
    ASSUME CostInv, Grows, NEW i \in Operations
    PROVE  /\ Len(recorders[i].units) <= Len(recorders'[i].units)
           /\ recorders[i].completed => recorders'[i].completed
           /\ \A usage \in Seq(Units) : IsPrefix(usage, recorders[i].units)
                                            => IsPrefix(usage, recorders'[i].units)
  <1>1. recorders[i].units \in Seq(Units)
    BY KeepsOperations DEF Recorders
  <1>2. Grown(recorders[i], recorders'[i])
    BY DEF Grows
  <1>3. CASE recorders'[i].units = recorders[i].units
    BY <1>1, <1>2, <1>3 DEF Grown
  <1>4. CASE \E unit \in Units : recorders'[i].units = Append(recorders[i].units, unit)
    <2>1. PICK unit \in Units : recorders'[i].units = Append(recorders[i].units, unit)
      BY <1>4
    <2>2. Len(recorders[i].units) <= Len(recorders'[i].units)
      BY <1>1, <2>1
    <2> QED
      BY <1>1, <1>2, <2>1, <2>2, PrefixGrows DEF Grown
  <1> QED
    BY <1>2, <1>3, <1>4 DEF Grown

\* In the state after a step, with its own recorders.
LEMMA CoveredKept ==
    ASSUME CostInv, Grows, NEW request \in Requests, Covered(request)
    PROVE  Covered(request)'
  <1>1. request.recorder # None => request.recorder \in Operations
    BY DEF Covered, Contexts
  <1>2. request.event.usage \in Seq(Units)
    BY DEF Requests, Events
  <1>3. request.recorder # None =>
          /\ Len(recorders[request.recorder].units) <= Len(recorders'[request.recorder].units)
          /\ recorders[request.recorder].completed => recorders'[request.recorder].completed
          /\ IsPrefix(request.event.usage, recorders[request.recorder].units)
                => IsPrefix(request.event.usage, recorders'[request.recorder].units)
          /\ Len(recorders[request.recorder].units) \in Nat
          /\ Len(recorders'[request.recorder].units) \in Nat
    <2> SUFFICES ASSUME request.recorder # None PROVE request.recorder # None =>
          /\ Len(recorders[request.recorder].units) <= Len(recorders'[request.recorder].units)
          /\ recorders[request.recorder].completed => recorders'[request.recorder].completed
          /\ IsPrefix(request.event.usage, recorders[request.recorder].units)
                => IsPrefix(request.event.usage, recorders'[request.recorder].units)
          /\ Len(recorders[request.recorder].units) \in Nat
          /\ Len(recorders'[request.recorder].units) \in Nat
      OBVIOUS
    <2>1. request.recorder \in Operations
      BY <1>1
    <2>2. recorders[request.recorder] \in Recorders /\ recorders'[request.recorder] \in Recorders
      <3>1. request.recorder \in Operations'
        BY <2>1, KeepsOperations
      <3>2. recorders' \in Seq(Recorders)
        BY DEF Grows
      <3> QED
        BY <2>1, <3>1, <3>2, KeepsOperations, Elements DEF Operations
    <2>3. /\ Len(recorders[request.recorder].units) \in Nat
          /\ Len(recorders'[request.recorder].units) \in Nat
      BY <2>2 DEF Recorders
    <2> QED
      BY <1>2, <2>1, <2>3, UnitsKept
  <1>4. request.handled \in Nat
    BY DEF Requests
  <1> QED
    BY <1>1, <1>3, <1>4, KeepsOperations, SMTT(30) DEF Covered

LEMMA FlushedKept ==
    ASSUME CostInv, Grows, NEW flush \in Flushes, Flushed(flush)
    PROVE  Flushed(flush)'
  <1>1. flush.recorder \in Operations /\ flush.event.usage \in Seq(Units)
    BY DEF Flushed, Flushes, Events
  <1> QED
    BY <1>1, UnitsKept, KeepsOperations DEF Flushed

-----------------------------------------------------------------------------
(***************************************************************************)
(* Recorders that are new, and recorders that change.                      *)
(***************************************************************************)
\* What an operation inherits (NewChildRecorder, NormalizeOperation).
LEMMA Inherits ==
    ASSUME CostInv, NEW context \in Contexts, NEW given \in CostOperations,
           NEW kind \in {"request", "job"}, given.parent \in Contexts,
           kind = "request" => given.root = Len(recorders) + 1,
           kind = "job" => given.root = None /\ given.trace = None /\ given.causation = None
    PROVE  LET recorder == NewRecorder(context, given, kind)
               operation == recorder.operation
           IN /\ recorder \in Recorders
              /\ recorder.context = context /\ recorder.kind = kind /\ recorder.units = <<>>
              /\ operation.root \in 1 .. Len(recorders) + 1
              /\ operation.parent \in Contexts
              /\ kind = "request" => operation.root = Len(recorders) + 1
              /\ kind = "job" /\ context # None =>
                    LET above == recorders[context].operation
                    IN /\ operation.root = above.root
                       /\ operation.trace = above.trace
                       /\ operation.causation = above.causation
  <1> DEFINE id == Len(recorders) + 1
             recorder == NewRecorder(context, given, kind)
             operation == recorder.operation
  <1>1. /\ Len(recorders) \in Nat /\ id \in Nat /\ id # None
        /\ Contexts = 0 .. Len(recorders)
        /\ \A i \in Operations : i \in 1 .. Len(recorders) /\ recorders[i] \in Recorders
    BY Elements DEF CostInv, Typed, Operations, Contexts, None
  <1>2. /\ recorder.operation = IF context = None THEN NormalizeOperation(id, given)
                                ELSE ChildOperation(context, id, given)
        /\ recorder = [operation |-> operation, context |-> context, kind |-> kind,
                       units |-> <<>>, completed |-> FALSE]
    BY DEF NewRecorder
  <1> HIDE DEF recorder, operation
  <1>3. /\ NormalizeOperation(id, given) \in CostOperations
        /\ NormalizeOperation(id, given).root \in 1 .. id
        /\ NormalizeOperation(id, given).parent = given.parent
        /\ NormalizeOperation(id, given).trace = given.trace
        /\ NormalizeOperation(id, given).causation = given.causation
        /\ given.root # None => NormalizeOperation(id, given).root = given.root
    <2>1. given.root # None => given.root = id
      OBVIOUS
    <2> QED
      BY <1>1, <2>1 DEF NormalizeOperation, CostOperations, None
  <1>4. ASSUME context # None
        PROVE  LET above == recorders[context].operation
                   made == ChildOperation(context, id, given)
               IN /\ made \in CostOperations
                  /\ made.root = IF given.root # None THEN given.root ELSE above.root
                  /\ made.parent = IF given.parent # None THEN given.parent ELSE context
                  /\ made.trace = IF given.trace # None THEN given.trace ELSE above.trace
                  /\ made.causation = IF given.causation # None THEN given.causation
                                      ELSE above.causation
    <2> DEFINE above == recorders[context].operation
               normal == NormalizeOperation(id, given)
               made == ChildOperation(context, id, given)
    <2>1. above \in CostOperations /\ context \in Nat
      BY <1>1, <1>4 DEF Contexts, Recorders
    <2>2. made = [field \in DOMAIN given |->
                     IF given[field] # None THEN normal[field]
                     ELSE IF field = "parent" THEN context ELSE above[field]]
      BY DEF ChildOperation
    <2> HIDE DEF normal, above, made
    <2>3. DOMAIN given = {"root", "parent", "trace", "causation"}
      BY DEF CostOperations
    <2>4. /\ normal \in CostOperations
          /\ given.root # None => normal.root = given.root
          /\ normal.parent = given.parent /\ normal.trace = given.trace
          /\ normal.causation = given.causation
      BY <1>3 DEF normal
    <2>5. /\ made = [root |-> made.root, parent |-> made.parent, trace |-> made.trace,
                     causation |-> made.causation]
          /\ made.root = IF given.root # None THEN given.root ELSE above.root
          /\ made.parent = IF given.parent # None THEN given.parent ELSE context
          /\ made.trace = IF given.trace # None THEN given.trace ELSE above.trace
          /\ made.causation = IF given.causation # None THEN given.causation
                              ELSE above.causation
      BY <2>2, <2>3, <2>4
    <2>6. made \in CostOperations
      BY <2>1, <2>4, <2>5 DEF CostOperations
    <2> QED
      BY <2>5, <2>6 DEF made, above
  <1>5. context # None => /\ recorders[context].operation.root \in 1 .. Len(recorders)
                          /\ recorders[context].operation \in CostOperations
    BY <1>1 DEF CostInv, Lineage, Contexts, Operations, Recorders
  <1>6. recorder \in Recorders
    <2>1. operation \in CostOperations
      BY <1>2, <1>3, <1>4
    <2>2. context \in Nat
      BY <1>1
    <2> QED
      BY <1>2, <2>1, <2>2 DEF Recorders
  <1>7. operation.root \in 1 .. id
    BY <1>1, <1>2, <1>3, <1>4, <1>5
  <1>8. operation.parent \in Contexts
    BY <1>1, <1>2, <1>3, <1>4
  <1>9. /\ kind = "request" => operation.root = id
        /\ kind = "job" /\ context # None =>
              /\ operation.root = recorders[context].operation.root
              /\ operation.trace = recorders[context].operation.trace
              /\ operation.causation = recorders[context].operation.causation
    BY <1>1, <1>2, <1>3, <1>4
  <1>10. recorder.context = context /\ recorder.kind = kind /\ recorder.units = <<>>
    BY <1>2
  <1>11. recorder.operation = operation
    BY DEF operation
  <1> HIDE DEF id
  <1> QED
    BY <1>6, <1>7, <1>8, <1>9, <1>10, <1>11 DEF recorder, id

-----------------------------------------------------------------------------
(***************************************************************************)
(* How a step is put together.                                             *)
(***************************************************************************)
LEMMA RequestKept ==
    ASSUME CostInv, Grows, NEW q \in DOMAIN requests, requests'[q] = requests[q]
    PROVE  Covered(requests[q])'
  <1>1. requests[q] \in Requests /\ Covered(requests[q])
    BY Elements DEF CostInv, Typed
  <1>2. PICK old \in Requests : old = requests[q]
    BY <1>1
  <1>3. Covered(old)
    BY <1>1, <1>2 DEF Covered
  <1>4. Covered(old)'
    BY <1>3, CoveredKept
  <1> QED
    BY <1>2, <1>4 DEF Covered

LEMMA FlushKept ==
    ASSUME CostInv, Grows, NEW f \in DOMAIN flushes, flushes'[f] = flushes[f]
    PROVE  Flushed(flushes[f])'
  <1>1. flushes[f] \in Flushes /\ Flushed(flushes[f])
    BY Elements DEF CostInv, Typed
  <1>2. PICK old \in Flushes : old = flushes[f]
    BY <1>1
  <1>3. Flushed(old)
    BY <1>1, <1>2 DEF Flushed
  <1>4. Flushed(old)'
    BY <1>3, FlushedKept
  <1> QED
    BY <1>2, <1>4 DEF Flushed

LEMMA Assembled ==
    ASSUME CostInv, Grows, Typed',
           \A i \in Operations' : i \in Operations \/ Lineage(i)',
           \A q \in DOMAIN requests' :
              (q \in DOMAIN requests /\ requests'[q] = requests[q]) \/ Covered(requests[q])',
           \A f \in DOMAIN flushes' :
              (f \in DOMAIN flushes /\ flushes'[f] = flushes[f]) \/ Flushed(flushes[f])'
    PROVE  CostInv'
  BY LineageKept, RequestKept, FlushKept DEF CostInv

\* Recorders that stay as they are, and those one of which changes.
LEMMA SameRecorders ==
    ASSUME CostInv, recorders' = recorders
    PROVE  Grows /\ Operations' = Operations
  BY Elements DEF CostInv, Typed, Grows, Grown, Operations

LEMMA ChangedRecorder ==
    ASSUME CostInv, NEW i \in Operations, NEW changed \in Recorders,
           Grown(recorders[i], changed), recorders' = [recorders EXCEPT ![i] = changed]
    PROVE  Grows /\ Operations' = Operations /\ recorders'[i] = changed
  <1>1. recorders \in Seq(Recorders) /\ i \in DOMAIN recorders
    BY DEF CostInv, Typed, Operations
  <1>2. /\ recorders' \in Seq(Recorders) /\ Len(recorders') = Len(recorders)
        /\ DOMAIN recorders' = DOMAIN recorders /\ recorders'[i] = changed
        /\ \A j \in DOMAIN recorders : j # i => recorders'[j] = recorders[j]
    BY <1>1, Replaced
  <1>3. \A j \in Operations : Grown(recorders[j], recorders'[j])
    BY <1>2 DEF Grown, Operations
  <1>4. Len(recorders) <= Len(recorders')
    BY <1>1, <1>2, Elements
  <1> QED
    BY <1>2, <1>3, <1>4 DEF Grows, Operations

LEMMA AddedRecorder ==
    ASSUME CostInv, NEW context \in Contexts, NEW given \in CostOperations,
           NEW kind \in {"request", "job"}, given.parent \in Contexts,
           kind = "request" => given.root = Len(recorders) + 1,
           kind = "job" => given.root = None /\ given.trace = None /\ given.causation = None,
           NEW completed \in BOOLEAN, NEW n \in Nat, n = Len(recorders) + 1,
           recorders' = Append(recorders,
                            [NewRecorder(context, given, kind) EXCEPT !.completed = completed])
    PROVE  /\ Grows
           /\ Operations' = Operations \cup {n} /\ n # None
           /\ Lineage(n)'
           /\ recorders'[n].units = <<>> /\ recorders'[n].completed = completed
  <1> DEFINE made == NewRecorder(context, given, kind)
             added == [made EXCEPT !.completed = completed]
             operation == made.operation
  <1>1. /\ made \in Recorders
        /\ made.context = context /\ made.kind = kind /\ made.units = <<>>
        /\ operation.root \in 1 .. n
        /\ operation.parent \in Contexts
        /\ kind = "request" => operation.root = n
        /\ kind = "job" /\ context # None =>
              /\ operation.root = recorders[context].operation.root
              /\ operation.trace = recorders[context].operation.trace
              /\ operation.causation = recorders[context].operation.causation
    BY Inherits
  <1>2. recorders' = Append(recorders, added) /\ recorders \in Seq(Recorders)
    BY DEF CostInv, Typed
  <1> HIDE DEF made
  <1>3. /\ added \in Recorders
        /\ added.operation = operation /\ added.context = context /\ added.kind = kind
        /\ added.units = <<>> /\ added.completed = completed
    BY <1>1 DEF Recorders
  <1> HIDE DEF added
  <1>4. /\ recorders' \in Seq(Recorders) /\ Len(recorders') = n
        /\ DOMAIN recorders' = 1 .. n /\ DOMAIN recorders = 1 .. Len(recorders)
        /\ Len(recorders) \in Nat
        /\ \A i \in 1 .. Len(recorders) : recorders'[i] = recorders[i]
        /\ recorders'[n] = added
    BY <1>2, <1>3, Appended, Elements
  <1>5. Operations = 1 .. Len(recorders) /\ Operations' = 1 .. n /\ Contexts = 0 .. n - 1
    BY <1>4 DEF Operations, Contexts, None
  <1>6. Operations' = Operations \cup {n} /\ n # None
    BY <1>4, <1>5 DEF None
  <1>7. Grows
    BY <1>4, <1>5 DEF Grows, Grown
  <1>8. Lineage(n)'
    <2> HIDE DEF operation
    <2>1. /\ recorders'[n].operation = operation
          /\ recorders'[n].context = context
          /\ recorders'[n].kind = kind
      BY <1>3, <1>4
    <2>2. /\ context \in 0 .. n - 1
          /\ operation.root \in Operations'
          /\ operation.parent \in 0 .. n - 1
      BY <1>1, <1>5
    <2>3. context # None => recorders'[context] = recorders[context]
      BY <1>4, <1>5 DEF None
    <2>4. kind = "job" /\ context # None =>
              /\ operation.root = recorders'[context].operation.root
              /\ operation.trace = recorders'[context].operation.trace
              /\ operation.causation = recorders'[context].operation.causation
      BY <1>1, <2>3
    <2>5. kind = "request" => operation.root = n
      BY <1>1
    <2> QED
      BY <2>1, <2>2, <2>4, <2>5 DEF Lineage
  <1> QED
    BY <1>3, <1>4, <1>6, <1>7, <1>8

-----------------------------------------------------------------------------
(***************************************************************************)
(* The steps.                                                              *)
(***************************************************************************)
LEMMA InitInv == Init => CostInv
  <1> SUFFICES ASSUME Init PROVE CostInv
    OBVIOUS
  <1>1. Config!ConfigTypeOK
    BY DEF Init, Config!ConfigInit, Config!ConfigTypeOK
  <1>2. recorders = <<>> /\ requests = <<>> /\ flushes = <<>>
    BY DEF Init
  <1> QED
    BY <1>1, <1>2 DEF CostInv, Typed, Operations

LEMMA SinkKept ==
    ASSUME CostInv, UNCHANGED <<sink, overrides, nested>>
    PROVE  Config!ConfigTypeOK'
  BY DEF CostInv, Typed, Config!ConfigTypeOK

\* The fields of what the state is made of.
LEMMA Parts ==
    ASSUME CostInv
    PROVE  /\ recorders \in Seq(Recorders) /\ requests \in Seq(Requests)
           /\ flushes \in Seq(Flushes)
           /\ Operations = 1 .. Len(recorders) /\ Len(recorders) \in Nat
           /\ Contexts = 0 .. Len(recorders)
           /\ \A i \in Operations : recorders[i] \in Recorders
           /\ \A q \in DOMAIN requests : requests[q] \in Requests /\ Covered(requests[q])
           /\ \A f \in DOMAIN flushes : flushes[f] \in Flushes /\ Flushed(flushes[f])
  BY Elements DEF CostInv, Typed, Operations, Contexts, None

\* A recorder as it is made.
LEMMA MadeOpen ==
    ASSUME NEW context, NEW given, NEW kind, NewRecorder(context, given, kind) \in Recorders
    PROVE  [NewRecorder(context, given, kind) EXCEPT !.completed = FALSE]
              = NewRecorder(context, given, kind)
  <1> DEFINE made == NewRecorder(context, given, kind)
  <1>1. made.completed = FALSE
    BY DEF NewRecorder
  <1> HIDE DEF made
  <1>2. made \in Recorders => [made EXCEPT !.completed = FALSE] = made
    BY <1>1 DEF Recorders
  <1> QED
    BY <1>2 DEF made

LEMMA JobOperation ==
    ASSUME NEW parent \in Nat
    PROVE  LET given == [Unset EXCEPT !.parent = parent]
           IN /\ given \in CostOperations /\ given.parent = parent
              /\ given.root = None /\ given.trace = None /\ given.causation = None
  BY DEF Unset, CostOperations, Ids, None

LEMMA RequestOperation ==
    ASSUME NEW id \in Nat, NEW fromClient \in BOOLEAN
    PROVE  LET given == DefaultCostOperation(id, fromClient)
           IN given \in CostOperations /\ given.root = id /\ given.parent = None
  BY DEF Unset, CostOperations, Ids, None, DefaultCostOperation

LEMMA StartJobInv ==
    ASSUME CostInv, NEW context \in Contexts, NEW parent \in Contexts, StartJob(context, parent)
    PROVE  CostInv'
  <1> DEFINE given == [Unset EXCEPT !.parent = parent]
  <1>1. /\ recorders' = Append(recorders, NewRecorder(context, given, "job"))
        /\ UNCHANGED <<requests, flushes>> /\ UNCHANGED <<sink, overrides, nested>>
    BY DEF StartJob
  <1>2. /\ given \in CostOperations /\ given.parent \in Contexts
        /\ given.root = None /\ given.trace = None /\ given.causation = None
    <2>1. parent \in Nat
      BY Parts
    <2> QED
      BY <2>1, JobOperation
  <1> HIDE DEF given
  <1>3. PICK n \in Nat : n = Len(recorders) + 1
    BY Parts
  <1>4. [NewRecorder(context, given, "job") EXCEPT !.completed = FALSE]
            = NewRecorder(context, given, "job")
    BY <1>2, Inherits, MadeOpen
  <1>5. recorders' = Append(recorders,
                         [NewRecorder(context, given, "job") EXCEPT !.completed = FALSE])
    BY <1>1, <1>4
  <1>6. Grows /\ Operations' = Operations \cup {n} /\ Lineage(n)'
    BY <1>2, <1>3, <1>5, AddedRecorder, ZenonT(60)
  <1>7. Typed'
    BY <1>1, <1>6, SinkKept DEF CostInv, Typed, Grows
  <1> QED
    BY <1>1, <1>6, <1>7, Assembled

LEMMA ServeInv ==
    ASSUME CostInv, NEW context \in Contexts, NEW fromClient \in BOOLEAN,
           NEW accounting \in BOOLEAN, Serve(context, fromClient, accounting)
    PROVE  CostInv'
  <1>1. PICK n \in Nat : n = Len(recorders) + 1
    BY Parts
  <1> DEFINE given == DefaultCostOperation(n, fromClient)
             request == Request(n, context, fromClient, accounting, "serving")
  <1>2. /\ recorders' = Append(recorders, NewRecorder(context, given, "request"))
        /\ requests' = Append(requests, request)
        /\ UNCHANGED flushes /\ UNCHANGED <<sink, overrides, nested>>
    BY <1>1 DEF Serve, NewRequestRecorder
  <1>3. given \in CostOperations /\ given.root = n /\ given.parent \in Contexts
    BY <1>1, RequestOperation DEF Contexts
  <1> HIDE DEF given
  <1>4. [NewRecorder(context, given, "request") EXCEPT !.completed = FALSE]
            = NewRecorder(context, given, "request")
    BY <1>1, <1>3, Inherits, MadeOpen
  <1>5. recorders' = Append(recorders,
                         [NewRecorder(context, given, "request") EXCEPT !.completed = FALSE])
    BY <1>2, <1>4
  <1>6. /\ Grows /\ Operations' = Operations \cup {n} /\ n # None /\ Lineage(n)'
        /\ recorders'[n].units = <<>>
    <2>1. /\ "request" \in {"request", "job"} /\ "request" # "job" /\ FALSE \in BOOLEAN
          /\ given.root = Len(recorders) + 1
      BY <1>1, <1>3
    <2> QED
      BY <1>1, <1>3, <1>5, <2>1, AddedRecorder, ZenonT(60)
  <1>7. /\ request \in Requests
        /\ request.recorder = n /\ request.context = context /\ request.step = "serving"
        /\ request.handled = 0 /\ request.event = NoEvent
    BY <1>1, Parts DEF Request, Requests, NoEvent, Events, Steps, CostOperations, Unset, None, Ids
  <1> HIDE DEF request
  <1>8. /\ requests' \in Seq(Requests)
        /\ DOMAIN requests' = 1 .. Len(requests) + 1
        /\ DOMAIN requests = 1 .. Len(requests) /\ Len(requests) \in Nat
        /\ \A q \in DOMAIN requests : requests'[q] = requests[q]
        /\ requests'[Len(requests) + 1] = request
    BY <1>2, <1>7, Parts, Appended, Elements
  <1>9. Typed'
    BY <1>2, <1>6, <1>8, SinkKept DEF CostInv, Typed, Grows
  <1>10. \A q \in DOMAIN requests' : q \in DOMAIN requests \/ requests'[q] = request
    BY <1>8
  <1>11. \A q \in DOMAIN requests' : requests'[q] = request => Covered(requests[q])'
    BY <1>6, <1>7 DEF Covered, Contexts
  <1> QED
    BY <1>2, <1>6, <1>8, <1>9, <1>10, <1>11, Assembled

LEMMA ChangedRequest ==
    ASSUME CostInv, Grows, NEW q \in DOMAIN requests, NEW changed \in Requests,
           requests' = [requests EXCEPT ![q] = changed], Covered(changed)',
           UNCHANGED flushes, UNCHANGED <<sink, overrides, nested>>,
           \A i \in Operations' : i \in Operations \/ Lineage(i)'
    PROVE  CostInv'
  <1>1. /\ requests' \in Seq(Requests) /\ DOMAIN requests' = DOMAIN requests
        /\ requests'[q] = changed
        /\ \A j \in DOMAIN requests : j # q => requests'[j] = requests[j]
    BY Parts, Replaced
  <1>2. Typed'
    BY <1>1, SinkKept DEF CostInv, Typed, Grows
  <1>3. Covered(requests[q])'
    BY <1>1 DEF Covered
  <1>4. \A j \in DOMAIN requests' :
            (j \in DOMAIN requests /\ requests'[j] = requests[j]) \/ Covered(requests[j])'
    BY <1>1, <1>3
  <1> QED
    BY <1>2, <1>4, Assembled

LEMMA ChangedRecords ==
    ASSUME CostInv, Grows, Operations' = Operations, UNCHANGED <<requests, flushes>>,
           UNCHANGED <<sink, overrides, nested>>
    PROVE  CostInv'
  <1>1. Typed'
    BY SinkKept DEF CostInv, Typed, Grows
  <1> QED
    BY <1>1, Assembled

LEMMA RefuseInv ==
    ASSUME CostInv, NEW context \in Contexts, NEW fromClient \in BOOLEAN,
           NEW accounting \in BOOLEAN, Refuse(context, fromClient, accounting)
    PROVE  CostInv'
  <1> DEFINE request == Request(None, context, fromClient, accounting, "returned")
  <1>1. /\ requests' = Append(requests, request)
        /\ recorders' = recorders /\ UNCHANGED flushes /\ UNCHANGED <<sink, overrides, nested>>
    BY DEF Refuse
  <1>2. /\ request \in Requests
        /\ request.recorder = None /\ request.context = context /\ request.step = "returned"
        /\ request.handled = 0 /\ request.event = NoEvent
    BY Parts DEF Request, Requests, NoEvent, Events, Steps, CostOperations, Unset, None, Ids
  <1> HIDE DEF request
  <1>3. /\ requests' \in Seq(Requests)
        /\ DOMAIN requests' = 1 .. Len(requests) + 1
        /\ DOMAIN requests = 1 .. Len(requests) /\ Len(requests) \in Nat
        /\ \A q \in DOMAIN requests : requests'[q] = requests[q]
        /\ requests'[Len(requests) + 1] = request
    BY <1>1, <1>2, Parts, Appended, Elements
  <1>4. Grows /\ Operations' = Operations /\ Contexts' = Contexts
    BY <1>1, SameRecorders DEF Contexts
  <1>5. Typed'
    BY <1>1, <1>3, SinkKept DEF CostInv, Typed
  <1>6. \A q \in DOMAIN requests' : q \in DOMAIN requests \/ requests'[q] = request
    BY <1>3
  <1>7. \A q \in DOMAIN requests' : requests'[q] = request => Covered(requests[q])'
    BY <1>2, <1>4 DEF Covered, Contexts
  <1> QED
    BY <1>1, <1>3, <1>4, <1>5, <1>6, <1>7, Assembled

LEMMA RecordInv ==
    ASSUME CostInv, NEW i \in Operations, NEW unit \in Units, Record(i, unit)
    PROVE  CostInv'
  <1> DEFINE changed == [recorders[i] EXCEPT !.units = Append(@, unit)]
  <1>1. /\ recorders' = [recorders EXCEPT ![i] = changed]
        /\ UNCHANGED <<requests, flushes>> /\ UNCHANGED <<sink, overrides, nested>>
    BY DEF Record
  <1>2. recorders[i] \in Recorders
    BY Parts
  <1>3. changed \in Recorders /\ Grown(recorders[i], changed)
    <2>1. Append(recorders[i].units, unit) \in Seq(Units)
      BY <1>2 DEF Recorders
    <2>2. /\ changed \in Recorders
          /\ changed.operation = recorders[i].operation
          /\ changed.context = recorders[i].context
          /\ changed.kind = recorders[i].kind
          /\ changed.completed = recorders[i].completed
          /\ changed.units = Append(recorders[i].units, unit)
      BY <1>2, <2>1 DEF Recorders
    <2> HIDE DEF changed
    <2> QED
      BY <2>2 DEF Grown
  <1> HIDE DEF changed
  <1> QED
    BY <1>1, <1>3, ChangedRecorder, ChangedRecords

LEMMA HandlerReturnsInv ==
    ASSUME CostInv, NEW q \in DOMAIN requests, HandlerReturns(q)
    PROVE  CostInv'
  <1> DEFINE units == recorders[requests[q].recorder].units
             new == [requests[q] EXCEPT !.step = "returned", !.handled = Len(units)]
  <1>1. /\ requests[q].step = "serving"
        /\ requests' = [requests EXCEPT ![q] = new]
        /\ recorders' = recorders /\ UNCHANGED flushes /\ UNCHANGED <<sink, overrides, nested>>
    BY DEF HandlerReturns
  <1>2. /\ requests[q] \in Requests /\ Covered(requests[q])
        /\ requests[q].recorder \in Operations
        /\ Len(units) \in Nat
    BY <1>1, Parts, SMTT(30) DEF Covered, Contexts, Recorders
  <1> HIDE DEF units
  <1>3. new \in Requests
    BY <1>2 DEF Requests, Steps
  <1>4. /\ new.step = "returned" /\ new.handled = Len(units)
        /\ new.recorder = requests[q].recorder /\ new.context = requests[q].context
        /\ new.event = requests[q].event
    BY <1>2 DEF Requests
  <1> HIDE DEF new
  <1>5. PICK changed \in Requests : changed = new
    BY <1>3
  <1>6. Grows /\ Operations' = Operations /\ Contexts' = Contexts
    BY <1>1, SameRecorders DEF Contexts
  <1>7. Covered(changed)'
    BY <1>1, <1>2, <1>4, <1>5, <1>6 DEF Covered, units
  <1> QED
    BY <1>1, <1>5, <1>6, <1>7, ChangedRequest

LEMMA SkipAccountingInv ==
    ASSUME CostInv, NEW q \in DOMAIN requests, SkipAccounting(q)
    PROVE  CostInv'
  <1> DEFINE new == [requests[q] EXCEPT !.step = "captured"]
  <1>1. /\ requests[q].step = "returned"
        /\ requests' = [requests EXCEPT ![q] = new]
        /\ recorders' = recorders /\ UNCHANGED flushes /\ UNCHANGED <<sink, overrides, nested>>
    BY DEF SkipAccounting
  <1>2. requests[q] \in Requests /\ Covered(requests[q])
    BY Parts
  <1>3. new \in Requests
    BY <1>2 DEF Requests, Steps
  <1>4. /\ new.step = "captured" /\ new.handled = requests[q].handled
        /\ new.recorder = requests[q].recorder /\ new.context = requests[q].context
        /\ new.event = requests[q].event
    BY <1>2 DEF Requests
  <1> HIDE DEF new
  <1>5. PICK changed \in Requests : changed = new
    BY <1>3
  <1>6. Grows /\ Operations' = Operations /\ Contexts' = Contexts
    BY <1>1, SameRecorders DEF Contexts
  <1>7. Covered(changed)'
    BY <1>1, <1>2, <1>4, <1>5, <1>6 DEF Covered
  <1> QED
    BY <1>1, <1>5, <1>6, <1>7, ChangedRequest

LEMMA CompleteEndpointInv ==
    ASSUME CostInv, NEW q \in DOMAIN requests, CompleteEndpoint(q)
    PROVE  CostInv'
  <1> DEFINE new == [requests[q] EXCEPT !.step = "delivered", !.sinks = Append(requests[q].sinks, sink)]
  <1>1. /\ requests[q].step = "captured"
        /\ requests' = [requests EXCEPT ![q] = new]
        /\ recorders' = recorders /\ UNCHANGED flushes /\ UNCHANGED <<sink, overrides, nested>>
    BY DEF CompleteEndpoint
  <1>2. requests[q] \in Requests /\ Covered(requests[q])
    BY Parts
  <1>3. sink \in Sinks \cup {NoopSink}
    BY DEF CostInv, Typed, Config!ConfigTypeOK
  <1>4. new \in Requests
    <2>1. Append(requests[q].sinks, sink) \in Seq(Sinks \cup {NoopSink})
      BY <1>2, <1>3 DEF Requests
    <2> QED
      BY <1>2, <2>1 DEF Requests, Steps
  <1>5. /\ new.step = "delivered" /\ new.handled = requests[q].handled
        /\ new.recorder = requests[q].recorder /\ new.context = requests[q].context
        /\ new.event = requests[q].event
    BY <1>2 DEF Requests
  <1> HIDE DEF new
  <1>6. PICK changed \in Requests : changed = new
    BY <1>4
  <1>7. Grows /\ Operations' = Operations /\ Contexts' = Contexts
    BY <1>1, SameRecorders DEF Contexts
  <1>8. Covered(changed)'
    BY <1>1, <1>2, <1>5, <1>6, <1>7 DEF Covered
  <1> QED
    BY <1>1, <1>6, <1>7, <1>8, ChangedRequest

\* Recorder.Complete of an operation.
LEMMA Completes ==
    ASSUME CostInv, NEW i \in Operations,
           recorders' = [recorders EXCEPT ![i].completed = TRUE]
    PROVE  Grows /\ Operations' = Operations /\ recorders'[i].completed
                 /\ recorders'[i].units = recorders[i].units
  <1> DEFINE changed == [recorders[i] EXCEPT !.completed = TRUE]
  <1>1. recorders' = [recorders EXCEPT ![i] = changed]
    OBVIOUS
  <1>2. recorders[i] \in Recorders
    BY Parts
  <1>3. /\ changed \in Recorders
        /\ changed.operation = recorders[i].operation
        /\ changed.context = recorders[i].context
        /\ changed.kind = recorders[i].kind
        /\ changed.completed = TRUE
        /\ changed.units = recorders[i].units
    BY <1>2 DEF Recorders
  <1> HIDE DEF changed
  <1>4. Grown(recorders[i], changed)
    BY <1>3 DEF Grown
  <1> QED
    BY <1>1, <1>3, <1>4, ChangedRecorder

LEMMA CompleteOperationInv ==
    ASSUME CostInv, NEW q \in DOMAIN requests, CompleteOperation(q)
    PROVE  CostInv'
  <1> DEFINE i == requests[q].recorder
  <1>1. requests[q] \in Requests /\ Covered(requests[q])
    BY Parts
  <1>2. requests[q].step = "returned" /\ UNCHANGED flushes /\ UNCHANGED <<sink, overrides, nested>>
    BY DEF CompleteOperation
  <1>3. ASSUME i # None, recorders' = [recorders EXCEPT ![i].completed = TRUE],
               requests' = [requests EXCEPT ![q].step = "completed"]
        PROVE  CostInv'
    <2> DEFINE new == [requests[q] EXCEPT !.step = "completed"]
    <2>1. requests' = [requests EXCEPT ![q] = new]
      BY <1>3
    <2>2. /\ new \in Requests
          /\ new.step = "completed" /\ new.handled = requests[q].handled
          /\ new.recorder = i /\ new.context = requests[q].context
          /\ new.event = requests[q].event
      BY <1>1 DEF Requests, Steps
    <2> HIDE DEF new
    <2>3. i \in Operations
      BY <1>1, <1>3 DEF Covered, Contexts
    <2>4. PICK changed \in Requests : changed = new
      BY <2>2
    <2>5. /\ Grows /\ Operations' = Operations /\ Contexts' = Contexts
          /\ recorders'[i].completed /\ recorders'[i].units = recorders[i].units
      BY <1>3, <2>3, Completes DEF Contexts
    <2>6. Covered(changed)'
      BY <1>1, <1>2, <1>3, <2>2, <2>3, <2>4, <2>5 DEF Covered
    <2> QED
      BY <1>2, <2>1, <2>4, <2>5, <2>6, ChangedRequest
  <1>4. ASSUME i = None,
               recorders' = Append(recorders,
                   [NewRequestRecorder(requests[q].context, requests[q].fromClient)
                       EXCEPT !.completed = TRUE]),
               requests' = [requests EXCEPT ![q] =
                   [@ EXCEPT !.step = "completed", !.recorder = Len(recorders) + 1]]
        PROVE  CostInv'
    <2>1. PICK n \in Nat : n = Len(recorders) + 1
      BY Parts
    <2> DEFINE new == [requests[q] EXCEPT !.step = "completed", !.recorder = n]
    <2>2. requests' = [requests EXCEPT ![q] = new]
      BY <1>4, <2>1
    <2>3. /\ new \in Requests
          /\ new.step = "completed" /\ new.handled = requests[q].handled
          /\ new.recorder = n /\ new.context = requests[q].context
          /\ new.event = requests[q].event
      BY <1>1 DEF Requests, Steps
    <2> HIDE DEF new
    <2>4. PICK changed \in Requests : changed = new
      BY <2>3
    <2>5. PICK context \in Contexts, fromClient \in BOOLEAN :
              context = requests[q].context /\ fromClient = requests[q].fromClient
      BY <1>1 DEF Covered, Requests
    <2> DEFINE given == DefaultCostOperation(n, fromClient)
    <2>6. recorders' = Append(recorders,
                          [NewRecorder(context, given, "request") EXCEPT !.completed = TRUE])
      BY <1>4, <2>1, <2>5 DEF NewRequestRecorder
    <2>7. /\ given \in CostOperations /\ given.root = Len(recorders) + 1
          /\ given.parent \in Contexts
      BY <2>1, RequestOperation DEF Contexts
    <2> HIDE DEF given
    <2>8. "request" \in {"request", "job"} /\ "request" # "job" /\ TRUE \in BOOLEAN
      OBVIOUS
    <2>9. /\ Grows /\ Operations' = Operations \cup {n} /\ n # None /\ Lineage(n)'
          /\ recorders'[n].units = <<>> /\ recorders'[n].completed = TRUE
      BY <2>1, <2>6, <2>7, <2>8, AddedRecorder, ZenonT(60)
    <2>10. Covered(changed)'
      <3>1. /\ changed.step = "completed" /\ changed.handled = 0
            /\ changed.recorder = n /\ changed.event = NoEvent /\ changed.context \in Contexts
        BY <1>1, <1>2, <1>4, <2>3, <2>4 DEF Covered
      <3>2. /\ n \in Contexts' /\ changed.context \in Contexts'
            /\ 0 <= Len(recorders'[n].units)
        BY <2>9, <3>1 DEF Contexts
      <3> QED
        BY <2>9, <3>1, <3>2 DEF Covered
    <2> QED
      BY <1>2, <2>2, <2>4, <2>9, <2>10, ChangedRequest
  <1> QED
    BY <1>3, <1>4 DEF CompleteOperation

\* Recorder.Event of an operation.
LEMMA SnapshotLemma ==
    ASSUME CostInv, NEW i \in Operations
    PROVE  /\ Snapshot(i) \in Events
           /\ Snapshot(i).usage = recorders[i].units
           /\ Snapshot(i).completed = recorders[i].completed
           /\ IsPrefix(recorders[i].units, recorders[i].units)
           /\ Len(recorders[i].units) \in Nat
  <1>1. recorders[i] \in Recorders
    BY Parts
  <1>2. recorders[i].units \in Seq(Units)
    BY <1>1 DEF Recorders
  <1> QED
    BY <1>1, <1>2, PrefixSelf DEF Snapshot, Events, Recorders

LEMMA CaptureEventInv ==
    ASSUME CostInv, NEW q \in DOMAIN requests, CaptureEvent(q)
    PROVE  CostInv'
  <1> DEFINE i == requests[q].recorder
             new == [requests[q] EXCEPT !.step = "captured", !.event = Snapshot(i)]
  <1>1. /\ requests[q].step = "completed"
        /\ requests' = [requests EXCEPT ![q] = new]
        /\ recorders' = recorders /\ UNCHANGED flushes /\ UNCHANGED <<sink, overrides, nested>>
    BY DEF CaptureEvent
  <1>2. requests[q] \in Requests /\ Covered(requests[q])
    BY Parts
  <1>3. i \in Operations /\ i # None /\ recorders[i].completed
    BY <1>1, <1>2 DEF Covered, Contexts
  <1>4. /\ Snapshot(i) \in Events
        /\ Snapshot(i).usage = recorders[i].units
        /\ Snapshot(i).completed = recorders[i].completed
        /\ IsPrefix(recorders[i].units, recorders[i].units)
        /\ Len(recorders[i].units) \in Nat
    BY <1>3, SnapshotLemma
  <1>5. /\ new \in Requests
        /\ new.step = "captured" /\ new.handled = requests[q].handled
        /\ new.recorder = i /\ new.context = requests[q].context
        /\ new.event = Snapshot(i)
    BY <1>2, <1>4 DEF Requests, Steps
  <1> HIDE DEF new
  <1>6. PICK changed \in Requests : changed = new
    BY <1>5
  <1>7. Grows /\ Operations' = Operations /\ Contexts' = Contexts
    BY <1>1, SameRecorders DEF Contexts
  <1>8. Covered(changed)'
    BY <1>1, <1>2, <1>3, <1>4, <1>5, <1>6, <1>7 DEF Covered
  <1> QED
    BY <1>1, <1>6, <1>7, <1>8, ChangedRequest

LEMMA FlushInv ==
    ASSUME CostInv, NEW i \in Operations, Flush(i)
    PROVE  CostInv'
  <1> DEFINE flush == [recorder |-> i, event |-> NoEvent]
  <1>1. /\ recorders' = [recorders EXCEPT ![i].completed = TRUE]
        /\ flushes' = Append(flushes, flush)
        /\ UNCHANGED requests /\ UNCHANGED <<sink, overrides, nested>>
    BY DEF Flush
  <1>2. flush \in Flushes /\ flush.recorder = i /\ flush.event.usage = <<>>
    BY Parts DEF Flushes, NoEvent, Events, CostOperations, Unset, None, Ids
  <1> HIDE DEF flush
  <1>3. Grows /\ Operations' = Operations /\ recorders'[i].units = recorders[i].units
    BY <1>1, Completes
  <1>4. /\ flushes' \in Seq(Flushes)
        /\ DOMAIN flushes' = 1 .. Len(flushes) + 1
        /\ DOMAIN flushes = 1 .. Len(flushes) /\ Len(flushes) \in Nat
        /\ \A f \in DOMAIN flushes : flushes'[f] = flushes[f]
        /\ flushes'[Len(flushes) + 1] = flush
    BY <1>1, <1>2, Parts, Appended, Elements
  <1>5. IsPrefix(<<>>, recorders'[i].units)
    <2>1. recorders[i].units \in Seq(Units)
      BY Parts DEF Recorders
    <2> QED
      BY <1>3, <2>1, PrefixSelf
  <1>6. \A f \in DOMAIN flushes' : f \in DOMAIN flushes \/ flushes'[f] = flush
    BY <1>4
  <1>7. \A f \in DOMAIN flushes' : flushes'[f] = flush => Flushed(flushes[f])'
    BY <1>2, <1>3, <1>5 DEF Flushed
  <1>8. Typed'
    BY <1>1, <1>3, <1>4, SinkKept DEF CostInv, Typed, Grows
  <1> QED
    BY <1>1, <1>3, <1>4, <1>6, <1>7, <1>8, Assembled

LEMMA FlushEventInv ==
    ASSUME CostInv, NEW f \in DOMAIN flushes, FlushEvent(f)
    PROVE  CostInv'
  <1> DEFINE i == flushes[f].recorder
             new == [flushes[f] EXCEPT !.event = Snapshot(i)]
  <1>1. /\ flushes' = [flushes EXCEPT ![f] = new]
        /\ recorders' = recorders /\ UNCHANGED requests /\ UNCHANGED <<sink, overrides, nested>>
    BY DEF FlushEvent
  <1>2. flushes[f] \in Flushes /\ i \in Operations
    BY Parts DEF Flushed
  <1>3. /\ Snapshot(i) \in Events
        /\ Snapshot(i).usage = recorders[i].units
        /\ IsPrefix(recorders[i].units, recorders[i].units)
    BY <1>2, SnapshotLemma
  <1>4. new \in Flushes /\ new.recorder = i /\ new.event = Snapshot(i)
    BY <1>2, <1>3 DEF Flushes
  <1> HIDE DEF new
  <1>5. /\ flushes' \in Seq(Flushes) /\ DOMAIN flushes' = DOMAIN flushes
        /\ flushes'[f] = new
        /\ \A j \in DOMAIN flushes : j # f => flushes'[j] = flushes[j]
    BY <1>1, <1>4, Parts, Replaced
  <1>6. Grows /\ Operations' = Operations
    BY <1>1, SameRecorders
  <1>7. Flushed(flushes[f])'
    BY <1>1, <1>2, <1>3, <1>4, <1>5, <1>6 DEF Flushed
  <1>8. Typed'
    BY <1>1, <1>5, <1>6, SinkKept DEF CostInv, Typed, Grows
  <1>9. \A j \in DOMAIN flushes' :
            (j \in DOMAIN flushes /\ flushes'[j] = flushes[j]) \/ Flushed(flushes[j])'
    BY <1>5, <1>7
  <1> QED
    BY <1>1, <1>6, <1>8, <1>9, Assembled

LEMMA ConfigureSinkInv == CostInv /\ ConfigureSink => CostInv'
  <1> SUFFICES ASSUME CostInv, ConfigureSink PROVE CostInv'
    OBVIOUS
  <1>1. /\ recorders' = recorders /\ UNCHANGED <<requests, flushes>>
        /\ Config!Reconfigure
    BY DEF ConfigureSink, costVars
  <1>2. Config!ConfigTypeOK
    BY DEF CostInv, Typed
  <1>3. Config!ConfigTypeOK'
    <2>1. ASSUME NEW value \in Sinks \cup {NoopSink}, Config!Configure(value)
          PROVE  Config!ConfigTypeOK'
      <3> DEFINE override == [value |-> value, previous |-> sink, restored |-> FALSE]
      <3>1. override \in [value : Sinks \cup {NoopSink}, previous : Sinks \cup {NoopSink},
                          restored : BOOLEAN]
        BY <1>2 DEF Config!ConfigTypeOK
      <3> QED
        BY <1>2, <2>1, <3>1, Appended DEF Config!ConfigTypeOK, Config!Configure
    <2>2. ASSUME NEW i \in DOMAIN overrides, Config!Restore(i)
          PROVE  Config!ConfigTypeOK'
      <3> DEFINE closed == [overrides[i] EXCEPT !.restored = TRUE]
      <3>1. /\ overrides[i].previous \in Sinks \cup {NoopSink}
            /\ closed \in [value : Sinks \cup {NoopSink}, previous : Sinks \cup {NoopSink},
                           restored : BOOLEAN]
        <4>1. overrides[i] \in [value : Sinks \cup {NoopSink}, previous : Sinks \cup {NoopSink},
                                restored : BOOLEAN]
          BY <1>2, Elements DEF Config!ConfigTypeOK
        <4> QED
          BY <4>1
      <3>2. /\ sink' = overrides[i].previous
            /\ overrides' = [overrides EXCEPT ![i] = closed]
            /\ nested' \in BOOLEAN
        BY <2>2 DEF Config!Restore
      <3> HIDE DEF closed
      <3> QED
        BY <1>2, <3>1, <3>2, Replaced DEF Config!ConfigTypeOK
    <2> QED
      BY <1>1, <2>1, <2>2, Zenon DEF Config!Reconfigure
  <1>4. Grows /\ Operations' = Operations
    BY <1>1, SameRecorders
  <1>5. Typed'
    BY <1>1, <1>3, <1>4 DEF CostInv, Typed, Grows
  <1> QED
    BY <1>1, <1>4, <1>5, Assembled

LEMMA StutterInv == CostInv /\ UNCHANGED vars => CostInv'
  BY SameRecorders, ChangedRecords DEF vars

\* The invariant of the cost accounting.
THEOREM CostInvariant == Spec => []CostInv
  <1>1. CostInv /\ [Next]_vars => CostInv'
    <2> SUFFICES ASSUME CostInv, [Next]_vars PROVE CostInv'
      OBVIOUS
    <2> QED
      BY StartJobInv, ServeInv, RefuseInv, FlushInv, RecordInv, HandlerReturnsInv,
         SkipAccountingInv, CompleteOperationInv, CaptureEventInv, CompleteEndpointInv,
         FlushEventInv, ConfigureSinkInv, StutterInv DEF Next
  <1> QED
    BY <1>1, InitInv, PTL DEF Spec

\* Operations have roots, parents that were there before them and valid usage
\* (NormalizeOperation, ChildOperation, Recorder.Record).
THEOREM TypeCorrect == Spec => []TypeOK
  <1>1. CostInv => TypeOK
    <2> SUFFICES ASSUME CostInv PROVE TypeOK
      OBVIOUS
    <2>1. \A i \in Operations : recorders[i].units \in Seq(Units) /\ Lineage(i)
      BY Parts DEF Recorders, CostInv
    <2>2. \A q \in DOMAIN requests : requests[q].recorder \in Contexts
      BY DEF CostInv, Covered
    <2> QED
      BY <2>1, <2>2 DEF TypeOK, Lineage, CostInv, Typed
  <1> QED
    BY <1>1, CostInvariant, PTL

\* The completion event has everything its handler recorded, and events of one
\* operation agree (completionCostEvent, Recorder.Flush).
THEOREM EventsCoverHandlers == Spec => []CompletionCoversHandler
  <1>1. CostInv => CompletionCoversHandler
    BY DEF CostInv, Covered, Flushed, CompletionCoversHandler
  <1> QED
    BY <1>1, CostInvariant, PTL

\* All work a request causes rolls up to it: the operations that do not are
\* looked at from the least one on (StartChild, ChildOperation).
THEOREM AllWorkIsAttributed == Spec => []WorkIsAttributed
  <1>1. CostInv => WorkIsAttributed
    <2> SUFFICES ASSUME CostInv PROVE WorkIsAttributed
      OBVIOUS
    <2> DEFINE Attributed(i) ==
                   LET operation == recorders[i].operation
                       owner == recorders[Owner[i]]
                   IN /\ operation.root = owner.operation.root
                      /\ operation.trace = owner.operation.trace
                      /\ operation.causation = owner.operation.causation
                      /\ owner.kind = "request" => operation.root = Owner[i]
               Astray == {i \in Operations : ~ Attributed(i)}
    <2>1. ContextsPrecede
      BY Parts DEF ContextsPrecede, CostInv, Lineage, Up
    <2>2. \A i \in Operations : Owner[i] = IF IsOwner(i) THEN i ELSE Owner[Up(i)]
      BY <2>1, OwnerEquation
    <2>3. ASSUME NEW i \in Operations, IsOwner(i)
          PROVE  Attributed(i)
      BY <2>2, <2>3 DEF CostInv, Lineage
    <2>4. ASSUME NEW i \in Operations, ~ IsOwner(i)
          PROVE  /\ Up(i) \in Operations /\ Up(i) < i
                 /\ Attributed(Up(i)) => Attributed(i)
      <3>1. recorders[i].kind = "job" /\ Up(i) # None
        BY <2>4, Parts DEF IsOwner, Recorders, Up
      <3>2. Up(i) \in Operations /\ Up(i) < i
        BY <2>1, <3>1 DEF ContextsPrecede, None
      <3>3. /\ recorders[i].operation.root = recorders[Up(i)].operation.root
            /\ recorders[i].operation.trace = recorders[Up(i)].operation.trace
            /\ recorders[i].operation.causation = recorders[Up(i)].operation.causation
        BY <3>1 DEF CostInv, Lineage, Up
      <3> QED
        BY <2>2, <2>4, <3>2, <3>3
    <2>5. Astray = {}
      <3> SUFFICES ASSUME Astray # {} PROVE FALSE
        OBVIOUS
      <3>1. Astray \subseteq Nat
        BY Parts
      <3>2. PICK i \in Astray : \A j \in Astray : i <= j
        BY <3>1, Least
      <3>3. ~ IsOwner(i)
        BY <2>3, <3>2
      <3>4. Up(i) \in Operations /\ Up(i) < i /\ Up(i) \in Nat /\ i \in Nat
        BY <2>4, <3>1, <3>2, <3>3, Parts
      <3>5. Attributed(Up(i))
        BY <3>2, <3>4
      <3> QED
        BY <2>4, <3>2, <3>3, <3>5
    <2> QED
      BY <2>5 DEF WorkIsAttributed
  <1> QED
    BY <1>1, CostInvariant, PTL
=============================================================================
