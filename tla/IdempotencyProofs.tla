-------------------------- MODULE IdempotencyProofs --------------------------
(***************************************************************************)
(* Proofs about Idempotency, for any sets of requests, slots and           *)
(* fingerprints, any retention and any combination of faults.              *)
(***************************************************************************)
EXTENDS Idempotency, TLAPS

\* Where a request is determines what its response holds and whether it has a
\* scope.
Progress(r) ==
    /\ pc[r] \in {"received", "reserving", "running", "bypassing"} => res[r] = "nothing"
    /\ pc[r] = "completing" => res[r] = "success"
    /\ pc[r] = "releasing" => res[r] \in HandlerResults \ {"success"}
    /\ pc[r] \in AtWork => r \notin Scopeless
    /\ pc[r] = "bypassing" => r \in Scopeless

\* A record describes a request of its slot that asked for it.
RecordDescribes(s) ==
    store[s] # Absent =>
        /\ pc[store[s].owner] \notin {"received", "reserving", "bypassing"}
        /\ slot[store[s].owner] = s
        /\ store[s].fingerprint = fingerprint[store[s].owner]
        /\ store[s].expiresAt = expiresAt[store[s].owner]
        /\ store[s].status = "complete" =>
             /\ res[store[s].owner] = "success"
             /\ pc[store[s].owner] \in {"writing", "closed", "crashed"}

\* The clock cannot pass the expiry of a request at work unnoticed.
LateIsNoted(r) == pc[r] \in AtWork /\ expiresAt[r] < now => r \in overstayed

\* The strengthening OneHolder needs: a holder's own reservation is in the store.
HolderHasRecord(r) ==
    Holding(r) /\ Punctual(slot[r]) => store[slot[r]] = Reservation(r)

\* The strengthening NoSecondRun needs: a success keeps its record until expiry.
SuccessKeepsRecord(r) ==
    Succeeded(r) /\ Punctual(slot[r]) =>
        \/ expiresAt[r] < now
        \/ store[slot[r]] # Absent /\ store[slot[r]].owner = r

Replayed(r) ==
    res[r] = "replay" =>
        /\ slot[origin[r]] = slot[r]
        /\ fingerprint[origin[r]] = fingerprint[r]
        /\ res[origin[r]] = "success"
        /\ origin[r] # r

Orphan(s) ==
    store[s].status = "reserved" /\ pc[store[s].owner] \in Ended \cup {"writing"}
        => store[s].owner \in faulted \/ ~Punctual(s)

IInv ==
    /\ TypeOK
    /\ \A r \in Requests : Progress(r)
    /\ \A s \in Slots : RecordDescribes(s)
    /\ \A r \in Requests : LateIsNoted(r)
    /\ \A r \in Requests : HolderHasRecord(r)
    /\ \A r \in Requests : SuccessKeepsRecord(r)
    /\ \A r \in Requests : Replayed(r)
    /\ \A s \in Slots : Orphan(s)

-----------------------------------------------------------------------------
\* A slot is free exactly when its record says so; another record names a request.
LEMMA RecordFacts ==
    ASSUME TypeOK, NEW s \in Slots
    PROVE  /\ store[s] \in Record \cup {Absent}
           /\ store[s] = Absent <=> store[s].status = "absent"
           /\ store[s] # Absent => store[s] \in Record /\ store[s].owner \in Requests
BY DEF TypeOK, Record, Absent

\* A reservation and a completed record are records that name their request.
LEMMA ReservationFacts ==
    ASSUME TypeOK, NEW r \in Requests
    PROVE  /\ Reservation(r) \in Record
           /\ Completed(r) \in Record
           /\ Reservation(r).status = "reserved" /\ Completed(r).status = "complete"
           /\ Reservation(r).owner = r /\ Completed(r).owner = r
BY DEF TypeOK, Record, Reservation, Completed

\* Every store operation leaves a well-formed store.
LEMMA StoreOperations ==
    ASSUME TypeOK, NEW r \in Requests, NEW s \in Slots
    PROVE  /\ Released(s) \in [Slots -> Record \cup {Absent}]
           /\ Stored(s, r) \in [Slots -> Record \cup {Absent}]
           /\ [store EXCEPT ![s] = Reservation(r)] \in [Slots -> Record \cup {Absent}]
           /\ [store EXCEPT ![s] = Absent] \in [Slots -> Record \cup {Absent}]
BY ReservationFacts DEF TypeOK, Released, Stored

\* Type correctness is inductive.
LEMMA TypeStep == TypeOK /\ [Next]_vars => TypeOK'
<1> SUFFICES ASSUME TypeOK, [Next]_vars PROVE TypeOK'
    OBVIOUS
<1> USE DEF TypeOK
<1>1. ASSUME NEW r \in Requests, Serve(r) PROVE TypeOK'
  <2>1. CASE Bypass(r) \/ BypassReturns(r) \/ ParseFails(r) \/ HandlerReturns(r)
        BY <2>1 DEF Bypass, BypassReturns, ParseFails, HandlerReturns, Settlement,
                    Render, Locations, Responses, HandlerResults, input
  <2>2. CASE Parse(r)
    <3>1. now + Retention \in Nat
          BY ClockAssumption
    <3> QED BY <2>2, <3>1 DEF Parse, Locations, input
  <2>3. CASE Reserve(r)
        BY <2>3, StoreOperations DEF Reserve, Locations, input
  <2>4. CASE ReserveFails(r)
        BY <2>4, StoreOperations DEF ReserveFails, Render, Locations, Responses, input
  <2>5. CASE ReplayOrReject(r)
    <3>1. Verdict(r, store[slot[r]]) \in {"in_progress", "conflict", "replay"}
          BY DEF Verdict
    <3>2. store[slot[r]].owner \in Requests
          BY <2>5, RecordFacts DEF ReplayOrReject
    <3> QED BY <2>5, <3>1, <3>2 DEF ReplayOrReject, Render, Locations, Responses, input
  <2>6. CASE HandlerPanics(r)
        BY <2>6 DEF HandlerPanics, Locations, Replies, input
  <2>7. CASE Release(r)
        BY <2>7, StoreOperations DEF Release, Locations, input
  <2>8. CASE Complete(r)
        BY <2>8, StoreOperations DEF Complete, Locations, input
  <2>9. CASE Write(r)
    <3>1. Written(r) \subseteq Replies
          BY DEF Written, Replies
    <3> QED BY <2>9, <3>1 DEF Write, Locations, input
  <2> QED BY <1>1, <2>1, <2>2, <2>3, <2>4, <2>5, <2>6, <2>7, <2>8, <2>9 DEF Serve
<1>2. ASSUME NEW r \in Requests, ContextDone(r) \/ Crash(r) PROVE TypeOK'
      BY <1>2 DEF ContextDone, Crash, Locations, input
<1>3. ASSUME NEW s \in Slots, Discard(s) PROVE TypeOK'
      BY <1>3, StoreOperations DEF Discard, input
<1>4. CASE Tick
      BY <1>4 DEF Tick, input
<1>5. CASE UNCHANGED vars
      BY <1>5 DEF vars
<1> QED BY <1>1, <1>2, <1>3, <1>4, <1>5 DEF Next

LEMMA ProgressStep ==
    ASSUME TypeOK, \A r \in Requests : Progress(r), [Next]_vars
    PROVE  \A r \in Requests : Progress(r)'
<1> SUFFICES ASSUME NEW r \in Requests PROVE Progress(r)'
    OBVIOUS
<1> USE DEF TypeOK, Progress, AtWork, HandlerResults
<1>1. ASSUME NEW q \in Requests, Serve(q) PROVE Progress(r)'
  <2>1. CASE Bypass(q) \/ Parse(q)
        BY <2>1 DEF Bypass, Parse, input
  <2>2. CASE ParseFails(q) \/ ReserveFails(q) \/ BypassReturns(q)
        BY <2>2 DEF ParseFails, ReserveFails, BypassReturns, Render, input
  <2>3. CASE Reserve(q)
        BY <2>3 DEF Reserve, input
  <2>4. CASE ReplayOrReject(q)
        BY <2>4 DEF ReplayOrReject, Render, input
  <2>5. CASE HandlerReturns(q)
        BY <2>5 DEF HandlerReturns, Settlement, input
  <2>6. CASE HandlerPanics(q) \/ Release(q) \/ Complete(q) \/ Write(q)
        BY <2>6 DEF HandlerPanics, Release, Complete, Write, input
  <2> QED BY <1>1, <2>1, <2>2, <2>3, <2>4, <2>5, <2>6 DEF Serve
<1>2. ASSUME NEW q \in Requests, ContextDone(q) \/ Crash(q) PROVE Progress(r)'
      BY <1>2 DEF ContextDone, Crash, input
<1>3. ASSUME NEW s \in Slots, Discard(s) PROVE Progress(r)'
      BY <1>3 DEF Discard, input
<1>4. CASE Tick \/ UNCHANGED vars
      BY <1>4 DEF Tick, vars, input
<1> QED BY <1>1, <1>2, <1>3, <1>4 DEF Next

LEMMA RecordStep ==
    ASSUME TypeOK, \A r \in Requests : Progress(r),
           \A s \in Slots : RecordDescribes(s), [Next]_vars
    PROVE  \A s \in Slots : RecordDescribes(s)'
<1> SUFFICES ASSUME NEW s \in Slots PROVE RecordDescribes(s)'
    OBVIOUS
<1> USE DEF TypeOK, RecordDescribes
<1>0. /\ store[s] = Absent <=> store[s].status = "absent"
      /\ store[s] # Absent => store[s] \in Record /\ store[s].owner \in Requests
      BY RecordFacts
<1>1. ASSUME NEW q \in Requests, Serve(q) PROVE RecordDescribes(s)'
  <2>1. CASE Bypass(q) \/ Parse(q)
        BY <1>0, <2>1 DEF Bypass, Parse, input
  <2>2. CASE ParseFails(q) \/ BypassReturns(q)
        BY <1>0, <2>2 DEF ParseFails, BypassReturns, Render, input
  <2>3. CASE Reserve(q)
        BY <1>0, <2>3 DEF Reserve, Reservation, input
  <2>4. CASE ReserveFails(q)
    <3>1. \/ store'[s] = store[s]
          \/ slot[q] = s /\ store'[s] = Reservation(q)
          BY <2>4 DEF ReserveFails
    <3> QED BY <1>0, <2>4, <3>1 DEF ReserveFails, Render, Reservation, input
  <2>5. CASE ReplayOrReject(q)
        BY <1>0, <2>5 DEF ReplayOrReject, Render, input
  <2>6. CASE HandlerReturns(q)
        BY <1>0, <2>6 DEF HandlerReturns, Settlement, input
  <2>7. CASE HandlerPanics(q)
        BY <1>0, <2>7 DEF HandlerPanics, input
  <2>8. CASE Release(q)
    <3>1. store'[s] = store[s] \/ store'[s] = Absent
          BY <2>8 DEF Release, Released
    <3> QED BY <1>0, <2>8, <3>1 DEF Release, input
  <2>9. CASE Complete(q)
    <3>1. \/ store'[s] = store[s]
          \/ slot[q] = s /\ store'[s] = Completed(q)
          BY <2>9 DEF Complete, Stored
    <3>2. /\ Completed(q).fingerprint = fingerprint[q]
          /\ Completed(q).expiresAt = expiresAt[q]
          /\ Completed(q).owner = q
          BY DEF Completed, Reservation
    <3>3. res[q] = "success"
          BY <2>9 DEF Complete, Progress
    <3> QED BY <1>0, <2>9, <3>1, <3>2, <3>3 DEF Complete, input
  <2>10. CASE Write(q)
        BY <1>0, <2>10 DEF Write, input
  <2> QED BY <1>1, <2>1, <2>2, <2>3, <2>4, <2>5, <2>6, <2>7, <2>8, <2>9, <2>10 DEF Serve
<1>2. ASSUME NEW q \in Requests, ContextDone(q) \/ Crash(q) PROVE RecordDescribes(s)'
      BY <1>0, <1>2 DEF ContextDone, Crash, input
<1>3. ASSUME NEW t \in Slots, Discard(t) PROVE RecordDescribes(s)'
  <2>1. store'[s] = store[s] \/ store'[s] = Absent
        BY <1>3 DEF Discard
  <2> QED BY <1>0, <1>3, <2>1 DEF Discard, input
<1>4. CASE Tick \/ UNCHANGED vars
      BY <1>0, <1>4 DEF Tick, vars, input
<1> QED BY <1>1, <1>2, <1>3, <1>4 DEF Next

LEMMA LateStep ==
    ASSUME TypeOK, \A r \in Requests : LateIsNoted(r), [Next]_vars
    PROVE  \A r \in Requests : LateIsNoted(r)'
<1> SUFFICES ASSUME NEW r \in Requests PROVE LateIsNoted(r)'
    OBVIOUS
<1> USE ClockAssumption DEF TypeOK, LateIsNoted, AtWork
<1>1. ASSUME NEW q \in Requests, Serve(q) PROVE LateIsNoted(r)'
  <2>1. CASE Bypass(q) \/ Reserve(q) \/ HandlerPanics(q)
        BY <2>1 DEF Bypass, Reserve, HandlerPanics, input
  <2>2. CASE Parse(q)
        BY <2>2 DEF Parse, input
  <2>3. CASE ParseFails(q) \/ ReserveFails(q) \/ BypassReturns(q) \/ ReplayOrReject(q)
        BY <2>3 DEF ParseFails, ReserveFails, BypassReturns, ReplayOrReject, Render, input
  <2>4. CASE HandlerReturns(q)
        BY <2>4 DEF HandlerReturns, Settlement, input
  <2>5. CASE Release(q) \/ Complete(q) \/ Write(q)
        BY <2>5 DEF Release, Complete, Write, input
  <2> QED BY <1>1, <2>1, <2>2, <2>3, <2>4, <2>5 DEF Serve
<1>2. ASSUME NEW q \in Requests, ContextDone(q) \/ Crash(q) PROVE LateIsNoted(r)'
      BY <1>2 DEF ContextDone, Crash, input
<1>3. ASSUME NEW s \in Slots, Discard(s) PROVE LateIsNoted(r)'
      BY <1>3 DEF Discard, input
<1>4. CASE Tick \/ UNCHANGED vars
      BY <1>4 DEF Tick, vars, input
<1> QED BY <1>1, <1>2, <1>3, <1>4 DEF Next

\* Requests keep their inputs, and a slot late once stays late.
LEMMA History ==
    ASSUME TypeOK, [Next]_vars, NEW s \in Slots
    PROVE  /\ slot' = slot /\ fingerprint' = fingerprint
           /\ Punctual(s)' => Punctual(s)
<1>1. slot' = slot /\ fingerprint' = fingerprint /\ overstayed \subseteq overstayed'
      BY DEF Next, Serve, Bypass, ParseFails, Parse, Reserve, ReserveFails,
             ReplayOrReject, HandlerReturns, BypassReturns, HandlerPanics, Release,
             Complete, Write, ContextDone, Crash, Discard, Tick, vars, input
<1> QED BY <1>1 DEF Punctual, TypeOK

\* Two holders of a punctual slot are one: each finds its own record there.
LEMMA HoldersAgree ==
    ASSUME TypeOK, \A r \in Requests : HolderHasRecord(r),
           NEW r \in Requests, NEW q \in Requests,
           Holding(r), Holding(q), slot[r] = slot[q], Punctual(slot[r])
    PROVE  r = q
BY ReservationFacts DEF HolderHasRecord

LEMMA HolderStep ==
    ASSUME TypeOK, \A s \in Slots : RecordDescribes(s),
           \A r \in Requests : LateIsNoted(r),
           \A r \in Requests : HolderHasRecord(r), [Next]_vars
    PROVE  \A r \in Requests : HolderHasRecord(r)'
<1> SUFFICES ASSUME NEW r \in Requests, Holding(r)', Punctual(slot[r])'
             PROVE  store'[slot[r]] = Reservation(r)'
    BY History DEF HolderHasRecord, TypeOK
<1> USE DEF Holding
<1>0. /\ slot \in [Requests -> Slots] /\ pc \in [Requests -> Locations]
      /\ store \in [Slots -> Record \cup {Absent}]
      /\ expiresAt \in [Requests -> Nat]
      /\ slot[r] \in Slots /\ Punctual(slot[r])
      /\ slot' = slot /\ fingerprint' = fingerprint
      BY History DEF TypeOK
<1>1. ASSUME Holding(r) PROVE store[slot[r]] = Reservation(r) /\ store[slot[r]] # Absent
      BY <1>0, <1>1, ReservationFacts, RecordFacts DEF HolderHasRecord, Absent
<1>2. ASSUME UNCHANGED <<store, expiresAt>>, Holding(r)
      PROVE  store'[slot[r]] = Reservation(r)'
      BY <1>0, <1>1, <1>2 DEF Reservation
<1>3. ASSUME NEW q \in Requests, Serve(q) PROVE store'[slot[r]] = Reservation(r)'
  <2>1. CASE \/ Bypass(q) \/ ParseFails(q) \/ BypassReturns(q) \/ ReplayOrReject(q)
             \/ HandlerReturns(q) \/ HandlerPanics(q) \/ Write(q)
    <3>1. UNCHANGED <<store, expiresAt>> /\ Holding(r)
          BY <1>0, <2>1 DEF Bypass, ParseFails, BypassReturns, ReplayOrReject,
                            HandlerReturns, HandlerPanics, Write, Render
    <3> QED BY <1>2, <3>1
  <2>2. CASE Parse(q)
    <3>1. store' = store /\ r # q /\ Holding(r) /\ expiresAt'[r] = expiresAt[r]
          BY <1>0, <2>2 DEF Parse
    <3> QED BY <1>0, <1>1, <3>1 DEF Reservation
  <2>3. CASE Reserve(q)
    <3>1. CASE q = r
          BY <1>0, <2>3, <3>1 DEF Reserve, Reservation
    <3>2. CASE q # r
      <4>1. Holding(r)
            BY <1>0, <2>3, <3>2 DEF Reserve
      <4>2. slot[q] # slot[r]
            BY <1>1, <2>3, <4>1 DEF Reserve
      <4> QED BY <1>0, <1>1, <2>3, <4>1, <4>2 DEF Reserve, Reservation
    <3> QED BY <3>1, <3>2
  <2>4. CASE ReserveFails(q)
    <3>1. Holding(r)
          BY <1>0, <2>4 DEF ReserveFails, Render
    <3>2. store'[slot[r]] = store[slot[r]]
          BY <1>0, <1>1, <2>4, <3>1 DEF ReserveFails
    <3> QED BY <1>0, <1>1, <2>4, <3>1, <3>2 DEF ReserveFails, Reservation
  <2>5. CASE Release(q) \/ Complete(q)
    <3>1. Holding(r) /\ Holding(q) /\ q # r
          BY <1>0, <2>5 DEF Release, Complete
    <3>2. slot[q] # slot[r]
          BY <1>0, <3>1, HoldersAgree
    <3>3. store'[slot[r]] = store[slot[r]] /\ expiresAt' = expiresAt
          BY <1>0, <2>5, <3>2 DEF Release, Complete, Released, Stored
    <3> QED BY <1>0, <1>1, <3>1, <3>3 DEF Reservation
  <2> QED BY <1>3, <2>1, <2>2, <2>3, <2>4, <2>5 DEF Serve
<1>4. ASSUME NEW q \in Requests, ContextDone(q) \/ Crash(q)
      PROVE  store'[slot[r]] = Reservation(r)'
  <2>1. UNCHANGED <<store, expiresAt>> /\ Holding(r)
        BY <1>0, <1>4 DEF ContextDone, Crash
  <2> QED BY <1>2, <2>1
<1>5. ASSUME NEW s \in Slots, Discard(s) PROVE store'[slot[r]] = Reservation(r)'
  <2>1. Holding(r) /\ expiresAt' = expiresAt
        BY <1>0, <1>5 DEF Discard
  <2>2. s # slot[r]
    <3> SUFFICES ASSUME s = slot[r] PROVE FALSE
        OBVIOUS
    <3>1. expiresAt[r] < now
          BY <1>1, <1>5, <2>1 DEF Discard, Reservation
    <3>2. r \in overstayed
          BY <2>1, <3>1 DEF LateIsNoted, AtWork
    <3> QED BY <1>0, <3>2 DEF Punctual
  <2> QED BY <1>0, <1>1, <1>5, <2>1, <2>2 DEF Discard, Reservation
<1>6. CASE Tick \/ UNCHANGED vars
  <2>1. UNCHANGED <<store, expiresAt>> /\ Holding(r)
        BY <1>6 DEF Tick, vars
  <2> QED BY <1>2, <2>1
<1> QED BY <1>3, <1>4, <1>5, <1>6 DEF Next

\* What a request holds can only be removed by that request, in a punctual slot.
LEMMA SuccessStep ==
    ASSUME TypeOK, \A r \in Requests : Progress(r),
           \A s \in Slots : RecordDescribes(s),
           \A r \in Requests : HolderHasRecord(r),
           \A r \in Requests : SuccessKeepsRecord(r), [Next]_vars
    PROVE  \A r \in Requests : SuccessKeepsRecord(r)'
<1> SUFFICES ASSUME NEW r \in Requests, Succeeded(r)', Punctual(slot[r])',
                    ~(expiresAt'[r] < now')
             PROVE  store'[slot[r]] # Absent /\ store'[slot[r]].owner = r
    BY History DEF SuccessKeepsRecord, TypeOK
<1>0. /\ slot \in [Requests -> Slots] /\ pc \in [Requests -> Locations]
      /\ store \in [Slots -> Record \cup {Absent}]
      /\ res \in [Requests -> Responses]
      /\ expiresAt \in [Requests -> Nat] /\ now \in Nat
      /\ slot[r] \in Slots /\ Punctual(slot[r])
      /\ slot' = slot /\ fingerprint' = fingerprint
      /\ r \notin Scopeless
      BY History DEF TypeOK, Succeeded
<1>1. ASSUME res[r] = "success", ~(expiresAt[r] < now)
      PROVE  store[slot[r]] # Absent /\ store[slot[r]].owner = r
      BY <1>0, <1>1 DEF SuccessKeepsRecord, Succeeded
<1>2. ASSUME UNCHANGED <<store, expiresAt, now>>, res[r] = "success"
      PROVE  store'[slot[r]] # Absent /\ store'[slot[r]].owner = r
      BY <1>1, <1>2
<1>3. ASSUME NEW q \in Requests, Serve(q)
      PROVE  store'[slot[r]] # Absent /\ store'[slot[r]].owner = r
  <2>1. CASE \/ Bypass(q) \/ ParseFails(q) \/ BypassReturns(q) \/ ReplayOrReject(q)
             \/ HandlerPanics(q) \/ Write(q)
    <3>1. UNCHANGED <<store, expiresAt, now>> /\ res'[r] = "success"
          BY <2>1 DEF Bypass, ParseFails, BypassReturns, ReplayOrReject, HandlerPanics,
                      Write, Render, Succeeded
    <3>2. res[r] = "success"
          BY <1>0, <2>1, <3>1 DEF Bypass, ParseFails, BypassReturns, ReplayOrReject,
                      HandlerPanics, Write, Render, Verdict, Progress
    <3> QED BY <1>2, <3>1, <3>2
  <2>2. CASE HandlerReturns(q)
    <3>1. UNCHANGED <<store, expiresAt, now>>
          BY <2>2 DEF HandlerReturns
    <3>2. CASE q = r
      <4>1. store[slot[r]] = Reservation(r)
            BY <1>0, <2>2, <3>2 DEF HandlerReturns, HolderHasRecord, Holding
      <4> QED BY <3>1, <4>1, ReservationFacts, RecordFacts, <1>0
    <3>3. CASE q # r
      <4>1. res[r] = "success"
            BY <1>0, <2>2, <3>3 DEF HandlerReturns, Succeeded
      <4> QED BY <1>2, <3>1, <4>1
    <3> QED BY <3>2, <3>3
  <2>3. CASE Parse(q)
    <3>1. store' = store /\ now' = now /\ res[r] = "success"
          BY <2>3 DEF Parse, Succeeded
    <3>2. q # r
          BY <2>3, <3>1 DEF Parse, Progress
    <3>3. expiresAt'[r] = expiresAt[r]
          BY <1>0, <2>3, <3>2 DEF Parse
    <3> QED BY <1>1, <3>1, <3>3
  <2>4. CASE Reserve(q) \/ ReserveFails(q)
    <3>1. now' = now /\ expiresAt' = expiresAt /\ res[r] = "success"
          BY <1>0, <2>4 DEF Reserve, ReserveFails, Render, Succeeded
    <3>2. store[slot[r]] # Absent /\ store[slot[r]].owner = r
          BY <1>1, <3>1
    <3>3. store'[slot[r]] = store[slot[r]]
          BY <1>0, <2>4, <3>2 DEF Reserve, ReserveFails
    <3> QED BY <3>2, <3>3
  <2>5. CASE Release(q)
    <3>1. now' = now /\ expiresAt' = expiresAt /\ res[r] = "success"
          BY <2>5 DEF Release, Succeeded
    <3>2. store[slot[r]] # Absent /\ store[slot[r]].owner = r
          BY <1>1, <3>1
    <3>3. q # r
          BY <2>5, <3>1 DEF Release, Progress
    <3>4. slot[q] # slot[r]
          BY <1>0, <2>5, <3>2, <3>3, ReservationFacts DEF Release, HolderHasRecord, Holding
    <3>5. store'[slot[r]] = store[slot[r]]
          BY <1>0, <2>5, <3>4 DEF Release, Released
    <3> QED BY <3>2, <3>5
  <2>6. CASE Complete(q)
    <3>1. now' = now /\ expiresAt' = expiresAt /\ res[r] = "success"
          BY <2>6 DEF Complete, Succeeded
    <3>2. store[slot[r]] # Absent /\ store[slot[r]].owner = r
          BY <1>1, <3>1
    <3>3. CASE q = r
      <4>1. store'[slot[r]] = store[slot[r]] \/ store'[slot[r]] = Completed(r)
            BY <1>0, <2>6, <3>3 DEF Complete, Stored
      <4>2. Completed(r) # Absent
            BY ReservationFacts DEF Absent
      <4> QED BY <3>2, <4>1, <4>2, ReservationFacts
    <3>4. CASE q # r
      <4>1. slot[q] # slot[r]
            BY <1>0, <2>6, <3>2, <3>4, ReservationFacts DEF Complete, HolderHasRecord, Holding
      <4>2. store'[slot[r]] = store[slot[r]]
            BY <1>0, <2>6, <4>1 DEF Complete, Stored
      <4> QED BY <3>2, <4>2
    <3> QED BY <3>3, <3>4
  <2> QED BY <1>3, <2>1, <2>2, <2>3, <2>4, <2>5, <2>6 DEF Serve
<1>4. ASSUME NEW q \in Requests, ContextDone(q) \/ Crash(q)
      PROVE  store'[slot[r]] # Absent /\ store'[slot[r]].owner = r
  <2>1. UNCHANGED <<store, expiresAt, now>> /\ res[r] = "success"
        BY <1>4 DEF ContextDone, Crash, Succeeded
  <2> QED BY <1>2, <2>1
<1>5. ASSUME NEW s \in Slots, Discard(s)
      PROVE  store'[slot[r]] # Absent /\ store'[slot[r]].owner = r
  <2>1. now' = now /\ expiresAt' = expiresAt /\ res[r] = "success"
        BY <1>5 DEF Discard, Succeeded
  <2>2. store[slot[r]] # Absent /\ store[slot[r]].owner = r
        BY <1>1, <2>1
  <2>3. store[slot[r]].expiresAt = expiresAt[r]
        BY <1>0, <2>2 DEF RecordDescribes
  <2>4. s # slot[r]
        BY <1>5, <2>1, <2>3 DEF Discard
  <2> QED BY <1>0, <1>5, <2>2, <2>4 DEF Discard
<1>6. CASE Tick \/ UNCHANGED vars
  <2>1. /\ UNCHANGED <<store, expiresAt>> /\ res[r] = "success"
        /\ now' = now \/ now' = now + 1
        BY <1>6 DEF Tick, vars, Succeeded
  <2>2. ~(expiresAt[r] < now)
        BY <1>0, <2>1
  <2> QED BY <1>1, <2>1, <2>2
<1> QED BY <1>3, <1>4, <1>5, <1>6 DEF Next

LEMMA ReplayStep ==
    ASSUME TypeOK, \A r \in Requests : Progress(r),
           \A s \in Slots : RecordDescribes(s),
           \A r \in Requests : Replayed(r), [Next]_vars
    PROVE  \A r \in Requests : Replayed(r)'
<1> SUFFICES ASSUME NEW r \in Requests PROVE Replayed(r)'
    OBVIOUS
<1> USE DEF TypeOK, Replayed, Progress
<1>1. ASSUME NEW q \in Requests, Serve(q) PROVE Replayed(r)'
  <2>1. CASE Bypass(q) \/ Parse(q) \/ Reserve(q) \/ HandlerPanics(q)
        BY <2>1 DEF Bypass, Parse, Reserve, HandlerPanics, input
  <2>2. CASE ParseFails(q) \/ ReserveFails(q)
        BY <2>2 DEF ParseFails, ReserveFails, Render, input
  <2>3. CASE BypassReturns(q) \/ HandlerReturns(q)
        BY <2>3 DEF BypassReturns, HandlerReturns, Render, HandlerResults, input
  <2>4. CASE ReplayOrReject(q)
    <3> DEFINE existing == store[slot[q]]
    <3>1. /\ res' = [res EXCEPT ![q] = Verdict(q, existing)]
          /\ origin' = [origin EXCEPT ![q] = IF Verdict(q, existing) = "replay"
                                               THEN existing.owner ELSE q]
          /\ slot' = slot /\ fingerprint' = fingerprint
          BY <2>4 DEF ReplayOrReject, Render, input
    <3>2. res[q] = "nothing"
          BY <2>4 DEF ReplayOrReject
    <3>3. CASE Verdict(q, existing) # "replay"
          BY <3>1, <3>2, <3>3
    <3>4. CASE Verdict(q, existing) = "replay"
      <4>1. existing # Absent /\ pc[q] = "reserving"
            BY <2>4 DEF ReplayOrReject
      <4>2. existing.status = "complete" /\ existing.fingerprint = fingerprint[q]
            BY <3>4 DEF Verdict
      <4>3. /\ existing.owner \in Requests
            /\ existing.owner # q
            /\ slot[existing.owner] = slot[q]
            /\ fingerprint[existing.owner] = fingerprint[q]
            /\ res[existing.owner] = "success"
            BY <4>1, <4>2, RecordFacts DEF RecordDescribes
      <4> QED BY <3>1, <3>2, <3>4, <4>3
    <3> QED BY <3>3, <3>4
  <2>5. CASE Release(q) \/ Complete(q) \/ Write(q)
        BY <2>5 DEF Release, Complete, Write, input
  <2> QED BY <1>1, <2>1, <2>2, <2>3, <2>4, <2>5 DEF Serve
<1>2. ASSUME NEW q \in Requests, ContextDone(q) \/ Crash(q) PROVE Replayed(r)'
      BY <1>2 DEF ContextDone, Crash, input
<1>3. ASSUME NEW s \in Slots, Discard(s) PROVE Replayed(r)'
      BY <1>3 DEF Discard, input
<1>4. CASE Tick \/ UNCHANGED vars
      BY <1>4 DEF Tick, vars, input
<1> QED BY <1>1, <1>2, <1>3, <1>4 DEF Next

LEMMA OrphanStep ==
    ASSUME TypeOK, \A s \in Slots : RecordDescribes(s),
           \A r \in Requests : HolderHasRecord(r),
           \A s \in Slots : Orphan(s), [Next]_vars
    PROVE  \A s \in Slots : Orphan(s)'
<1> DEFINE Over(r) == pc[r] \in Ended \cup {"writing"}
           OverNow(r) == pc'[r] \in Ended \cup {"writing"}
<1> SUFFICES ASSUME NEW s \in Slots, Punctual(s)', store'[s].status = "reserved",
                    OverNow(store'[s].owner)
             PROVE  store'[s].owner \in faulted'
    BY History DEF Orphan
<1>0. /\ slot \in [Requests -> Slots] /\ pc \in [Requests -> Locations]
      /\ store \in [Slots -> Record \cup {Absent}]
      /\ faulted \subseteq Requests
      /\ Punctual(s) /\ slot' = slot
      BY History DEF TypeOK
<1> DEFINE o == store[s].owner
<1>1. ASSUME store'[s] = store[s]
      PROVE  o \in Requests /\ slot[o] = s /\ store[s].status = "reserved" /\ OverNow(o)
  <2>1. store[s] # Absent
        BY <1>1 DEF Absent
  <2> QED BY <1>1, <2>1, RecordFacts DEF RecordDescribes
<1>2. ASSUME store'[s] = store[s], faulted \subseteq faulted', Over(o)
      PROVE  store'[s].owner \in faulted'
      BY <1>0, <1>1, <1>2 DEF Orphan
<1> USE DEF Ended
<1>3. ASSUME NEW q \in Requests, Serve(q) PROVE store'[s].owner \in faulted'
  <2>1. CASE \/ Bypass(q) \/ Parse(q) \/ ParseFails(q) \/ BypassReturns(q)
             \/ ReplayOrReject(q) \/ HandlerReturns(q)
    <3>1. store' = store /\ faulted' = faulted
          BY <2>1 DEF Bypass, Parse, ParseFails, BypassReturns, ReplayOrReject,
                      HandlerReturns
    <3>2. Over(o)
          BY <1>0, <1>1, <2>1, <3>1 DEF Bypass, Parse, ParseFails, BypassReturns,
                      ReplayOrReject, HandlerReturns, Settlement, Render, RecordDescribes,
                      Absent
    <3> QED BY <1>2, <3>1, <3>2
  <2>2. CASE Reserve(q)
    <3>1. store'[s] = store[s] /\ faulted' = faulted
      <4>1. slot[q] # s
        <5> SUFFICES ASSUME slot[q] = s PROVE FALSE
            OBVIOUS
        <5>1. store'[s].owner = q /\ pc'[q] = "running"
              BY <1>0, <2>2, ReservationFacts DEF Reserve
        <5> QED BY <5>1
      <4> QED BY <1>0, <2>2, <4>1 DEF Reserve
    <3>2. Over(o)
          BY <1>0, <1>1, <2>2, <3>1 DEF Reserve
    <3> QED BY <1>2, <3>1, <3>2
  <2>3. CASE ReserveFails(q)
    <3>1. faulted' = faulted \cup {q}
          BY <2>3 DEF ReserveFails
    <3>2. \/ store'[s] = store[s]
          \/ store'[s] = Reservation(q)
          BY <1>0, <2>3 DEF ReserveFails
    <3>3. CASE store'[s] = store[s]
      <4>1. Over(o) \/ o = q
            BY <1>0, <1>1, <2>3, <3>3 DEF ReserveFails, Render
      <4> QED BY <1>2, <3>1, <3>3, <4>1
    <3>4. CASE store'[s] = Reservation(q)
          BY <3>1, <3>4, ReservationFacts
    <3> QED BY <3>2, <3>3, <3>4
  <2>4. CASE HandlerPanics(q)
    <3>1. store' = store /\ faulted' = faulted \cup {q}
          BY <2>4 DEF HandlerPanics
    <3>2. Over(o) \/ o = q
          BY <1>0, <1>1, <2>4, <3>1 DEF HandlerPanics
    <3> QED BY <1>2, <3>1, <3>2
  <2>5. CASE Release(q)
    <3>1. faulted \subseteq faulted'
          BY <2>5 DEF Release
    <3>2. store'[s] = store[s]
      <4>1. store'[s] = store[s] \/ store'[s] = Absent
            BY <1>0, <2>5 DEF Release, Released
      <4> QED BY <4>1 DEF Absent
    <3>3. CASE o # q
      <4>1. Over(o)
            BY <1>0, <1>1, <2>5, <3>2, <3>3 DEF Release
      <4> QED BY <1>2, <3>1, <3>2, <4>1
    <3>4. CASE o = q
      <4>1. q \in faulted'
        <5> SUFFICES ASSUME q \notin faulted' PROVE FALSE
            OBVIOUS
        <5>1. store' = Released(s)
              BY <1>1, <2>5, <3>2, <3>4 DEF Release
        <5>2. store'[s] = Absent
              BY <1>0, <1>1, <3>2, <5>1 DEF Released
        <5> QED BY <5>2 DEF Absent
      <4> QED BY <3>2, <3>4, <4>1
    <3> QED BY <3>3, <3>4
  <2>6. CASE Complete(q)
    <3>1. faulted \subseteq faulted'
          BY <2>6 DEF Complete
    <3>2. store'[s] = store[s]
      <4>1. store'[s] = store[s] \/ store'[s] = Completed(q)
            BY <1>0, <2>6 DEF Complete, Stored
      <4> QED BY <4>1, ReservationFacts
    <3>3. CASE o # q
      <4>1. Over(o)
            BY <1>0, <1>1, <2>6, <3>2, <3>3 DEF Complete
      <4> QED BY <1>2, <3>1, <3>2, <4>1
    <3>4. CASE o = q
      <4>1. q \in faulted'
        <5> SUFFICES ASSUME q \notin faulted' PROVE FALSE
            OBVIOUS
        <5>1. store' = Stored(s, q)
              BY <1>1, <2>6, <3>2, <3>4 DEF Complete
        <5>2. store'[s] = Completed(q)
              BY <1>0, <1>1, <3>2, <5>1 DEF Stored
        <5> QED BY <5>2, ReservationFacts
      <4> QED BY <3>2, <3>4, <4>1
    <3> QED BY <3>3, <3>4
  <2>7. CASE Write(q)
    <3>1. store' = store /\ faulted' = faulted
          BY <2>7 DEF Write
    <3>2. Over(o)
          BY <1>0, <1>1, <2>7, <3>1 DEF Write
    <3> QED BY <1>2, <3>1, <3>2
  <2> QED BY <1>3, <2>1, <2>2, <2>3, <2>4, <2>5, <2>6, <2>7 DEF Serve
<1>4. ASSUME NEW q \in Requests, ContextDone(q) \/ Crash(q)
      PROVE  store'[s].owner \in faulted'
  <2>1. store' = store /\ faulted \subseteq faulted'
        BY <1>4 DEF ContextDone, Crash
  <2>2. Over(o) \/ o \in faulted'
        BY <1>0, <1>1, <1>4, <2>1 DEF ContextDone, Crash
  <2> QED BY <1>2, <2>1, <2>2
<1>5. ASSUME NEW t \in Slots, Discard(t) PROVE store'[s].owner \in faulted'
  <2>1. store'[s] = store[s] \/ store'[s] = Absent
        BY <1>0, <1>5 DEF Discard
  <2>2. store'[s] = store[s] /\ faulted' = faulted /\ pc' = pc
        BY <1>5, <2>1 DEF Discard, Absent
  <2> QED BY <1>1, <1>2, <2>2
<1>6. CASE Tick \/ UNCHANGED vars
  <2>1. store' = store /\ faulted' = faulted /\ pc' = pc
        BY <1>6 DEF Tick, vars
  <2> QED BY <1>1, <1>2, <2>1
<1> QED BY <1>3, <1>4, <1>5, <1>6 DEF Next

-----------------------------------------------------------------------------
\* Every reachable state satisfies the inductive invariant.
THEOREM Invariance == Spec => []IInv
<1>1. Init => IInv
      BY DEF Init, IInv, TypeOK, Locations, Responses, HandlerResults, Replies, AtWork,
             Progress, RecordDescribes, LateIsNoted, HolderHasRecord, Holding,
             SuccessKeepsRecord, Succeeded, Replayed, Orphan, Absent
<1>2. IInv /\ [Next]_vars => IInv'
      BY TypeStep, ProgressStep, RecordStep, LateStep, HolderStep, SuccessStep,
         ReplayStep, OrphanStep DEF IInv
<1> QED BY <1>1, <1>2, PTL DEF Spec

\* The model is well typed.
THEOREM TypeCorrect == Spec => []TypeOK
<1>1. IInv => TypeOK
      BY DEF IInv
<1> QED BY <1>1, Invariance, PTL

\* Two requests of one key never hold its reservation at once, unless one of
\* that key was still at work when its own record expired: Reserve is atomic,
\* and Release and Complete are only called by a holder.
THEOREM MutualExclusion == Spec => []OneHolder
<1>1. IInv => OneHolder
      BY HoldersAgree DEF IInv, OneHolder
<1> QED BY <1>1, Invariance, PTL

\* replayOrRejectIdempotentRequest only replays what a successful request with
\* the same scope, key and fingerprint produced.
THEOREM ReplaysAreFaithful == Spec => []ReplayFaithful
<1>1. IInv => ReplayFaithful
      BY DEF IInv, ReplayFaithful, Replayed
<1> QED BY <1>1, Invariance, PTL

\* A reservation outlives its request only after a panic, a crash or a store error.
THEOREM OrphansComeFromFaults == Spec => []OrphansAreFaults
<1>1. IInv => OrphansAreFaults
      BY DEF IInv, OrphansAreFaults, Orphan
<1> QED BY <1>1, Invariance, PTL

\* handleIdempotently never runs a handler again for a key whose handler
\* succeeded, before that success's record expires.
THEOREM SuccessRunsOnce == Spec => NoSecondRun
<1> DEFINE Step ==
      \A q \in Requests :
          pc[q] = "reserving" /\ pc'[q] = "running" /\ Punctual(slot[q]) =>
              \A r \in Requests :
                  Succeeded(r) /\ slot[r] = slot[q] => expiresAt[r] < now
<1>1. IInv /\ [Next]_vars => Step
  <2> SUFFICES ASSUME IInv, [Next]_vars, NEW q \in Requests, NEW r \in Requests,
                      pc[q] = "reserving", pc'[q] = "running", Punctual(slot[q]),
                      Succeeded(r), slot[r] = slot[q]
               PROVE  expiresAt[r] < now
      OBVIOUS
  <2>0. TypeOK /\ pc \in [Requests -> Locations]
        BY DEF IInv, TypeOK
  <2>1. Reserve(q)
        BY <2>0 DEF Next, Serve, Bypass, ParseFails, Parse, Reserve, ReserveFails,
             ReplayOrReject, HandlerReturns, BypassReturns, HandlerPanics, Release,
             Complete, Write, ContextDone, Crash, Discard, Tick, vars, Render, Settlement
  <2>2. store[slot[r]] = Absent
        BY <2>1 DEF Reserve
  <2> QED BY <2>2 DEF IInv, SuccessKeepsRecord
<1>2. IInv /\ [Next]_vars => [Step]_vars
      BY <1>1
<1> QED BY <1>2, Invariance, PTL DEF Spec, NoSecondRun
=============================================================================
