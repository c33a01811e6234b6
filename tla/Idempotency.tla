----------------------------- MODULE Idempotency -----------------------------
(***************************************************************************)
(* Idempotent endpoints (endpoint/idempotency.go): any number of HTTP      *)
(* requests, served concurrently, share one IdempotencyStore.  Each runs   *)
(* handleIdempotently: parse the key, reserve it, run the application      *)
(* handler, then release or complete the reservation; the runtime writes   *)
(* what the request rendered.                                              *)
(*                                                                         *)
(* A slot is a (scope, key) pair.  A response body is identified with the  *)
(* request whose handler produced it.  The store is external code: it does *)
(* what the comments of the IdempotencyStore interface promise, and any    *)
(* call may fail before or after it took effect.                           *)
(***************************************************************************)
EXTENDS Naturals, FiniteSets

CONSTANTS
    Requests,       \* the HTTP requests of a behaviour, retries included
    Slots,          \* (scope, key) pairs
    Fingerprints,   \* digests of request bodies
    Scopeless,      \* requests neither authorized nor given a scope resolver
    Retention,      \* idempotencyRetention, in ticks of the clock
    MaxClock,       \* bound on the clock
    Faults          \* what may go wrong in a behaviour

ASSUME ScopelessAssumption == Scopeless \subseteq Requests
ASSUME ClockAssumption == Retention \in Nat /\ MaxClock \in Nat
ASSUME FaultsAssumption == Faults \subseteq {"panic", "crash", "ctx", "store"}

VARIABLES
    slot,           \* slot[r]: the scope and key request r resolves to
    fingerprint,    \* fingerprint[r]: the digest of its body
    pc,             \* pc[r]: where request r is
    ctx,            \* ctx[r]: state of r.Context()
    res,            \* res[r]: what r.Res holds
    origin,         \* origin[r]: the request whose handler produced that body
    expiresAt,      \* expiresAt[r]: ireq.ExpiresAt
    reply,          \* reply[r]: what the client of r was sent
    store,          \* store[s]: the record kept for slot s
    now,            \* the clock
    faulted,        \* history: requests that panicked, crashed or met a store error
    overstayed      \* history: requests still at work when their record expired

vars == <<slot, fingerprint, pc, ctx, res, origin, expiresAt,
          reply, store, now, faulted, overstayed>>

input == <<slot, fingerprint>>

Locations == {"received", "reserving", "running", "bypassing", "releasing",
              "completing", "writing", "closed", "crashed"}

(***************************************************************************)
(* What a handler can leave in Req.Res: nothing, a buffered 2xx, a 2xx     *)
(* whose body does not encode, a stream, or any other status.              *)
(***************************************************************************)
HandlerResults == {"nothing", "success", "unencodable", "stream", "failure"}

Responses == HandlerResults
                 \cup {"invalid", "unavailable", "in_progress", "conflict", "replay"}

Replies == Responses \cup {"unsent", "unexpected", "timed_out", "aborted"}

Record == [status : {"reserved", "complete"}, owner : Requests,
           fingerprint : Fingerprints, expiresAt : Nat]

Absent == [status |-> "absent"]

TypeOK ==
    /\ slot \in [Requests -> Slots]
    /\ fingerprint \in [Requests -> Fingerprints]
    /\ pc \in [Requests -> Locations]
    /\ ctx \in [Requests -> {"live", "done"}]
    /\ res \in [Requests -> Responses]
    /\ origin \in [Requests -> Requests]
    /\ expiresAt \in [Requests -> Nat]
    /\ reply \in [Requests -> Replies]
    /\ store \in [Slots -> Record \cup {Absent}]
    /\ now \in Nat
    /\ faulted \subseteq Requests
    /\ overstayed \subseteq Requests

Init ==
    /\ slot \in [Requests -> Slots]
    /\ fingerprint \in [Requests -> Fingerprints]
    /\ pc = [r \in Requests |-> "received"]
    /\ ctx = [r \in Requests |-> "live"]
    /\ res = [r \in Requests |-> "nothing"]
    /\ origin = [r \in Requests |-> r]
    /\ expiresAt = [r \in Requests |-> 0]
    /\ reply = [r \in Requests |-> "unsent"]
    /\ store = [s \in Slots |-> Absent]
    /\ now = 0
    /\ faulted = {}
    /\ overstayed = {}

-----------------------------------------------------------------------------
(***************************************************************************)
(* The store.  Every call answers "ok"; a failing one is "refused" when it *)
(* had no effect and "lost" when it took effect and the answer got lost.   *)
(* A call may fail because the store does, or because the request context  *)
(* it is given is already done.                                            *)
(***************************************************************************)
Answers(r) == IF "store" \in Faults \/ ctx[r] # "live"
                THEN {"ok", "refused", "lost"}
                ELSE {"ok"}

\* Mutant: the record is reserved before its Status is set.
UnmarkedReservation(r) == [status |-> "unset", owner |-> r,
                           fingerprint |-> fingerprint[r], expiresAt |-> expiresAt[r]]

Reservation(r) == [status |-> "reserved", owner |-> r,
                   fingerprint |-> fingerprint[r], expiresAt |-> expiresAt[r]]

Completed(r) == [Reservation(r) EXCEPT !.status = "complete"]

\* Release "removes an incomplete reservation"; it is not told whose.
Released(s) == IF store[s].status = "reserved"
                 THEN [store EXCEPT ![s] = Absent]
                 ELSE store

\* Complete "marks a reserved record complete and stores its replay response".
Stored(s, r) == IF store[s].status = "reserved"
                  THEN [store EXCEPT ![s] = Completed(r)]
                  ELSE store

\* A record "may be discarded" once ExpiresAt is past.
Discard(s) ==
    /\ store[s].status # "absent"
    /\ store[s].expiresAt < now
    /\ store' = [store EXCEPT ![s] = Absent]
    /\ UNCHANGED <<input, pc, ctx, res, origin, expiresAt, reply, now, faulted,
                   overstayed>>

-----------------------------------------------------------------------------
(***************************************************************************)
(* handleIdempotently.                                                     *)
(***************************************************************************)
Render(r, what) ==
    /\ res' = [res EXCEPT ![r] = what]
    /\ pc' = [pc EXCEPT ![r] = "writing"]

\* An anonymous request of an endpoint without a resolver has no safe scope:
\* its handler runs without a reservation.
Bypass(r) ==
    /\ pc[r] = "received"
    /\ r \in Scopeless
    /\ pc' = [pc EXCEPT ![r] = "bypassing"]
    /\ UNCHANGED <<input, ctx, res, origin, expiresAt, reply, store, now,
                   faulted, overstayed>>

\* parseIdempotencyRequest rejects the key, the body or the scope.
ParseFails(r) ==
    /\ pc[r] = "received"
    /\ r \notin Scopeless
    /\ Render(r, "invalid")
    /\ UNCHANGED <<input, ctx, origin, expiresAt, reply, store, now, faulted,
                   overstayed>>

Parse(r) ==
    /\ pc[r] = "received"
    /\ r \notin Scopeless
    /\ expiresAt' = [expiresAt EXCEPT ![r] = now + Retention]
    /\ pc' = [pc EXCEPT ![r] = "reserving"]
    /\ UNCHANGED <<input, ctx, res, origin, reply, store, now, faulted,
                   overstayed>>

\* store.Reserve finds the slot free and answers.
Reserve(r) ==
    /\ pc[r] = "reserving"
    /\ store[slot[r]] = Absent
    /\ store' = [store EXCEPT ![slot[r]] = Reservation(r)]
    /\ pc' = [pc EXCEPT ![r] = "running"]
    /\ UNCHANGED <<input, ctx, res, origin, expiresAt, reply, now, faulted,
                   overstayed>>

\* Mutant: the endpoint fails open when the store does.
ReserveFailsOpen(r) ==
    /\ pc[r] = "reserving"
    /\ "refused" \in Answers(r)
    /\ pc' = [pc EXCEPT ![r] = "running"]
    /\ faulted' = faulted \cup {r}
    /\ UNCHANGED <<input, ctx, res, origin, expiresAt, reply, store, now, overstayed>>

\* store.Reserve fails: the endpoint fails closed, and never learns whether
\* the reservation was made.
ReserveFails(r) ==
    /\ pc[r] = "reserving"
    /\ \E answer \in Answers(r) \ {"ok"} :
          store' = IF answer = "lost" /\ store[slot[r]] = Absent
                     THEN [store EXCEPT ![slot[r]] = Reservation(r)]
                     ELSE store
    /\ Render(r, "unavailable")
    /\ faulted' = faulted \cup {r}
    /\ UNCHANGED <<input, ctx, origin, expiresAt, reply, now, overstayed>>

\* Mutant: the fingerprint is not compared.
VerdictForAnyBody(r, record) ==
    IF record.status = "complete" THEN "replay" ELSE "in_progress"

\* What replayOrRejectIdempotentRequest answers to an existing record.
Verdict(r, record) ==
    CASE record.status # "complete" -> "in_progress"
      [] record.status = "complete" /\ record.fingerprint # fingerprint[r] -> "conflict"
      [] OTHER -> "replay"

\* Mutant: a request waits for the reservation it met to settle.
WaitThenReplayOrReject(r) ==
    LET existing == store[slot[r]] IN
    /\ pc[r] = "reserving"
    /\ existing.status = "complete"
    /\ Render(r, Verdict(r, existing))
    /\ origin' = [origin EXCEPT ![r] = existing.owner]
    /\ UNCHANGED <<input, ctx, expiresAt, reply, store, now, faulted, overstayed>>

ReplayOrReject(r) ==
    LET existing == store[slot[r]] IN
    /\ pc[r] = "reserving"
    /\ existing # Absent
    /\ Render(r, Verdict(r, existing))
    /\ origin' = [origin EXCEPT ![r] = IF Verdict(r, existing) = "replay"
                                         THEN existing.owner ELSE r]
    /\ UNCHANGED <<input, ctx, expiresAt, reply, store, now, faulted, overstayed>>

\* Mutant: a response that does not encode returns without a release.
SettlementForgetsEncoding(result) ==
    CASE result = "success" -> "completing"
      [] result = "unencodable" -> "writing"
      [] OTHER -> "releasing"

\* A reservation is completed for a buffered 2xx and released for anything else,
\* a body that does not encode included.
Settlement(result) == IF result = "success" THEN "completing" ELSE "releasing"

HandlerReturns(r) ==
    /\ pc[r] = "running"
    /\ \E result \in HandlerResults :
          /\ res' = [res EXCEPT ![r] = result]
          /\ pc' = [pc EXCEPT ![r] = Settlement(result)]
    /\ UNCHANGED <<input, ctx, origin, expiresAt, reply, store, now, faulted,
                   overstayed>>

BypassReturns(r) ==
    /\ pc[r] = "bypassing"
    /\ \E result \in HandlerResults : Render(r, result)
    /\ UNCHANGED <<input, ctx, origin, expiresAt, reply, store, now, faulted,
                   overstayed>>

\* A panic unwinds through handleIdempotently, which defers nothing, to the
\* runtime, which re-panics: net/http drops the connection.
HandlerPanics(r) ==
    /\ "panic" \in Faults
    /\ pc[r] \in {"running", "bypassing"}
    /\ pc' = [pc EXCEPT ![r] = "closed"]
    /\ reply' = [reply EXCEPT ![r] = "aborted"]
    /\ faulted' = faulted \cup {r}
    /\ UNCHANGED <<input, ctx, res, origin, expiresAt, store, now, overstayed>>

\* An error of Release is logged and nothing else.
Release(r) ==
    /\ pc[r] = "releasing"
    /\ \E answer \in Answers(r) :
          /\ store' = IF answer = "refused" THEN store ELSE Released(slot[r])
          /\ faulted' = IF answer = "ok" THEN faulted ELSE faulted \cup {r}
    /\ pc' = [pc EXCEPT ![r] = "writing"]
    /\ UNCHANGED <<input, ctx, res, origin, expiresAt, reply, now, overstayed>>

\* Mutant: the reservation is released when it cannot be completed.
CompleteOrRelease(r) ==
    /\ pc[r] = "completing"
    /\ \E answer \in Answers(r) :
          store' = CASE answer = "ok" -> Stored(slot[r], r)
                     [] answer = "refused" -> Released(slot[r])
                     [] OTHER -> store
    /\ pc' = [pc EXCEPT ![r] = "writing"]
    /\ UNCHANGED <<input, ctx, res, origin, expiresAt, reply, now, faulted, overstayed>>

\* An error of Complete is logged: the client gets the handler's 2xx anyway.
Complete(r) ==
    /\ pc[r] = "completing"
    /\ \E answer \in Answers(r) :
          /\ store' = IF answer = "refused" THEN store ELSE Stored(slot[r], r)
          /\ faulted' = IF answer = "ok" THEN faulted ELSE faulted \cup {r}
    /\ pc' = [pc EXCEPT ![r] = "writing"]
    /\ UNCHANGED <<input, ctx, res, origin, expiresAt, reply, now, overstayed>>

\* The end of httpHandler: a missing response becomes a timeout when the
\* handler deadline ended the context, else an unexpected error (a cancelled
\* context is one); a body that does not encode becomes an unexpected error.
Written(r) ==
    CASE res[r] = "nothing" /\ ctx[r] = "done" -> {"timed_out", "unexpected"}
      [] res[r] = "nothing" /\ ctx[r] # "done" -> {"unexpected"}
      [] res[r] = "unencodable" -> {"unexpected"}
      [] OTHER -> {res[r]}

Write(r) ==
    /\ pc[r] = "writing"
    /\ \E what \in Written(r) : reply' = [reply EXCEPT ![r] = what]
    /\ pc' = [pc EXCEPT ![r] = "closed"]
    /\ UNCHANGED <<input, ctx, res, origin, expiresAt, store, now, faulted,
                   overstayed>>

-----------------------------------------------------------------------------
(***************************************************************************)
(* The environment: contexts end, processes die, time passes.              *)
(***************************************************************************)
Ended == {"closed", "crashed"}

AtWork == {"reserving", "running", "releasing", "completing"}

ContextDone(r) ==
    /\ "ctx" \in Faults
    /\ pc[r] \notin Ended
    /\ ctx[r] = "live"
    /\ ctx' = [ctx EXCEPT ![r] = "done"]
    /\ UNCHANGED <<input, pc, res, origin, expiresAt, reply, store, now,
                   faulted, overstayed>>

Crash(r) ==
    /\ "crash" \in Faults
    /\ pc[r] \notin Ended \cup {"received"}
    /\ pc' = [pc EXCEPT ![r] = "crashed"]
    /\ faulted' = faulted \cup {r}
    /\ UNCHANGED <<input, ctx, res, origin, expiresAt, reply, store, now,
                   overstayed>>

Tick ==
    /\ now < MaxClock
    /\ now' = now + 1
    /\ overstayed' = overstayed \cup
                       {r \in Requests : pc[r] \in AtWork /\ expiresAt[r] < now'}
    /\ UNCHANGED <<input, pc, ctx, res, origin, expiresAt, reply, store, faulted>>

Serve(r) ==
    \/ Bypass(r) \/ ParseFails(r) \/ Parse(r)
    \/ Reserve(r) \/ ReserveFails(r) \/ ReplayOrReject(r)
    \/ HandlerReturns(r) \/ BypassReturns(r) \/ HandlerPanics(r)
    \/ Release(r) \/ Complete(r)
    \/ Write(r)

Next ==
    \/ \E r \in Requests : Serve(r) \/ ContextDone(r) \/ Crash(r)
    \/ \E s \in Slots : Discard(s)
    \/ Tick

Spec == Init /\ [][Next]_vars

\* The server's goroutines keep running; nothing makes a context end, a
\* process die, the clock advance or the store discard a record.
FairSpec == Spec /\ \A r \in Requests : WF_vars(Serve(r))

-----------------------------------------------------------------------------
(***************************************************************************)
(* Properties.                                                             *)
(***************************************************************************)

\* The requests between a granted reservation and the end of its release or
\* completion.
Holding(r) == pc[r] \in {"running", "releasing", "completing"}

\* No request of slot s was still at work when its own record expired.
Punctual(s) == \A r \in overstayed : slot[r] # s

\* Two handlers never run at once for one key, unless some request of that key
\* outlived its own reservation: Reserve grants a free slot, and only the
\* holder's Release, its Complete or the expiry of its record ends the grant.
\* (Release names no owner, so a late request can end another one's grant.)
OneHolder ==
    \A r, q \in Requests :
        Holding(r) /\ Holding(q) /\ slot[r] = slot[q] /\ Punctual(slot[r]) => r = q

\* A replayed body comes from a request of the same scope and key with the same
\* fingerprint, whose handler produced a buffered 2xx.
ReplayFaithful ==
    \A r \in Requests :
        res[r] = "replay" =>
            /\ slot[origin[r]] = slot[r]
            /\ fingerprint[origin[r]] = fingerprint[r]
            /\ res[origin[r]] = "success"
            /\ origin[r] # r

\* A reservation whose request is over was left behind by a fault: otherwise
\* every path of handleIdempotently out of the handler settles its record.
OrphansAreFaults ==
    \A s \in Slots :
        store[s].status = "reserved" /\ pc[store[s].owner] \in Ended \cup {"writing"}
            => store[s].owner \in faulted \/ ~Punctual(s)

\* The handler of a request that reserved its key produced a buffered 2xx.
Succeeded(r) == res[r] = "success" /\ r \notin Scopeless

\* A handler that succeeded is not run again for its key before its record
\* expires, even when Complete failed or the process died before it: the
\* reservation then stays and turns retries away.
NoSecondRun ==
    [][\A q \in Requests :
          pc[q] = "reserving" /\ pc'[q] = "running" /\ Punctual(slot[q]) =>
              \A r \in Requests :
                  Succeeded(r) /\ slot[r] = slot[q] => expiresAt[r] < now]_vars

\* Every request is answered, dropped by a panic, or dies with its process:
\* no path waits for another request.
EveryRequestEnds == \A r \in Requests : <>(pc[r] \in Ended)

\* Unless its request meets a fault, a reservation never outlives its handler:
\* the key is freed or turns replayable.
ReservationSettles ==
    \A r \in Requests :
        pc[r] = "running" ~> store[slot[r]] # Reservation(r) \/ r \in faulted

\* spec/v0.2.md, 11.2: "A failure, missing response, or stream releases the
\* reservation."  Once such a request is over its reservation is gone.
FailureReleases ==
    \A r \in Requests :
        pc[r] = "closed" /\ res[r] \in {"nothing", "failure", "stream"} =>
            store[slot[r]] # Reservation(r)
=============================================================================
