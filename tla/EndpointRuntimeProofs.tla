------------------------ MODULE EndpointRuntimeProofs ------------------------
(***************************************************************************)
(* Proofs about the way of a request to a handler and back, for any set of *)
(* endpoints and of requests: first EndpointRuntime, what a handler is run *)
(* behind; then HttpFront, what is around it.                              *)
(***************************************************************************)
EXTENDS EndpointRuntime, HttpFront, ProofFacts, TLAPS

\* The stretches of httpHandler, each with the one it is followed by.
FromHandler == {"idempotency", "handling"}
FromMeta == FromHandler \cup {"meta"}
FromControls == FromMeta \cup {"controls", "evaluating"}
FromCaller == FromControls \cup {"caller"}
FromAuthorization == FromCaller \cup {"authorization", "mode"}
FromAuthenticating == FromAuthorization \cup {"authenticating", "internal"}
FromReading == FromAuthenticating \cup {"reading"}
FromLimit == FromReading \cup {"limit"}
FromMediaType == FromLimit \cup {"media_type"}
Deciding == FromMediaType \cup {"method"}
Unwritten == Deciding \cup {"settling", "responding", "timing_out", "writing", "rewriting"}
Deferred == {"auditing", "completing", "ended"}

\* What the gates behind the present place have established.
GatesPassed ==
    /\ session # "none" => input.credential \in {"bearer", "service"}
    /\ pc \in FromMediaType => "method" \notin input.flaws
    /\ pc \in FromLimit => "media_type" \notin input.flaws
    /\ pc \in FromReading => "declared_size" \notin input.flaws
    /\ pc \in FromAuthenticating => input.flaws \cap {"streamed_size", "unreadable"} = {}
    /\ pc \in FromAuthorization => (endpoint.internal => input.credential = "service")
    /\ pc \in FromCaller =>
         /\ endpoint.authorization = "any" => input.credential \in {"bearer", "service"}
         /\ endpoint.authorization \in {"bearer", "service"} =>
                input.credential = endpoint.authorization
    /\ pc \in FromControls => "caller" \notin input.flaws
    /\ pc \in FromMeta => (endpoint.controlled => "control" \notin input.flaws)
    /\ pc \in FromHandler => "meta" \notin input.flaws
    /\ ran => Entitled

\* The wire is empty until the head is written, and from then on holds the
\* response of the request, unless a panic struck before.
WireFollows ==
    /\ pc \in Unwritten => wire = <<>>
    /\ pc \notin Deferred => ~panicking
    /\ pc = "sending" \/ (pc \in Deferred /\ ~panicking) => wire = <<res>>
    /\ pc \in Deferred /\ panicking => wire \in {<<>>, <<res>>}

\* A head on the wire is a rendered response, so that nothing renders another.
WireRendered ==
    /\ pc = "writing" => res # NoResponse
    /\ wire # <<>> => res # NoResponse

\* The audit and the completion belong to the deferred function.
DeferredOnce ==
    /\ audited <=> pc \in {"completing", "ended"}
    /\ pc # "ended" => report = NoReport /\ fate = "open"
    /\ pc = "ended" => fate # "open"
    /\ report # NoReport =>
         /\ report = [outcome |-> completionOutcome, res |-> res]
         /\ fate = IF panicking THEN "aborted" ELSE "returned"
    /\ fate = "returned" => report # NoReport

\* The outcome noted on the way to the response.
OutcomeNoted ==
    /\ outcome \in Rejections \cup {"unset", "access_denied", "timed_out"}
    /\ pc \in Deciding \cup {"settling"} => outcome = "unset"
    /\ pc = "responding" => outcome \in {"unset", "access_denied"}
    /\ pc = "responding" /\ outcome = "access_denied" => res # NoResponse
    /\ pc \in Deciding => res = NoResponse /\ ~ran
    /\ pc = "responding" /\ res = NoResponse => ran
    /\ pc = "settling" => ran
    /\ outcome \in Rejections \cup {"access_denied"} => ~ran
    /\ outcome \in Rejections => pc \in {"writing", "rewriting", "sending"} \cup Deferred
    /\ outcome = "timed_out" => ctx = "deadline" /\ ran
    /\ outcome = "access_denied" => denied

\* A reservation is held by a handler, by its settlement, or by a panic.
ReservationHeld ==
    /\ pc \in Deciding \ {"handling"} => reservation = "none"
    /\ reservation = "held" /\ ~panicking => pc \in {"handling", "settling"}
    /\ reservation = "held" /\ panicking => wire = <<>>

IInv ==
    /\ TypeOK
    /\ GatesPassed
    /\ WireFollows
    /\ WireRendered
    /\ DeferredOnce
    /\ OutcomeNoted
    /\ ReservationHeld
-----------------------------------------------------------------------------
\* The responses that the runtime renders itself are responses.
LEMMA RenderedResponses ==
    /\ \A why \in Failures : Failed(why) \in Responses
    /\ \A why \in Failures : Failed(why) # NoResponse
    /\ Replay \in Responses /\ Replay # NoResponse
    /\ NoResponse \in Responses
    /\ HandlerResponses \subseteq Responses
BY DEF Failures, Failed, Responses, HandlerResponses, NoResponse, Replay

\* The outcome of a completion is one of the documented ones.
LEMMA OutcomeTyped ==
    ASSUME TypeOK
    PROVE  completionOutcome \in Outcomes \ {"unset"}
BY DEF TypeOK, completionOutcome, Outcomes, Rejections

\* A report is no report of the missing one.
LEMMA NoReportApart == NoReport \notin Reports
BY DEF NoReport, Reports, Outcomes, Rejections




\* Type correctness is inductive.
LEMMA TypeStep ==
    ASSUME TypeOK, [Next]_vars
    PROVE  TypeOK'
<1> USE DEF TypeOK, static, ending
<1>1. CASE CheckMethod
      BY <1>1, RenderedResponses DEF CheckMethod, Pass, Reject, Locations, Outcomes,
               Rejections, Failures
<1>2. CASE CheckMediaType
      BY <1>2, RenderedResponses DEF CheckMediaType, Pass, Reject, Locations, Outcomes,
               Rejections, Failures
<1>3. CASE EnforceLimit
      BY <1>3, RenderedResponses DEF EnforceLimit, Pass, Reject, Locations, Outcomes,
               Rejections, Failures
<1>4. CASE ReadBody
      BY <1>4, RenderedResponses DEF ReadBody, Pass, Reject, Locations, Outcomes,
               Rejections, Failures
<1>5. CASE Authenticate
      BY <1>5, RenderedResponses DEF Authenticate, Locations
<1>6. CASE CheckInternal
  <2>1. res' \in Responses
        BY <1>6, RenderedResponses DEF CheckInternal, Admit, Deny, Failures
  <2>2. /\ denied' \in BOOLEAN
        /\ outcome' \in Outcomes
        BY <1>6 DEF CheckInternal, Admit, Deny, Outcomes
  <2>3. pc' \in Locations
        BY <1>6 DEF CheckInternal, Admit, Deny, Locations
  <2> QED BY <1>6, <2>1, <2>2, <2>3 DEF CheckInternal
<1>7. CASE CheckAuthenticated
  <2>1. res' \in Responses
        BY <1>7, RenderedResponses DEF CheckAuthenticated, Admit, Deny, Failures
  <2>2. /\ denied' \in BOOLEAN
        /\ outcome' \in Outcomes
        BY <1>7 DEF CheckAuthenticated, Admit, Deny, Outcomes
  <2>3. pc' \in Locations
        BY <1>7 DEF CheckAuthenticated, Admit, Deny, Locations
  <2> QED BY <1>7, <2>1, <2>2, <2>3 DEF CheckAuthenticated
<1>8. CASE CheckMode
  <2>1. res' \in Responses
        BY <1>8, RenderedResponses DEF CheckMode, Admit, Deny, Failures
  <2>2. /\ denied' \in BOOLEAN
        /\ outcome' \in Outcomes
        BY <1>8 DEF CheckMode, Admit, Deny, Outcomes
  <2>3. pc' \in Locations
        BY <1>8 DEF CheckMode, Admit, Deny, Locations
  <2> QED BY <1>8, <2>1, <2>2, <2>3 DEF CheckMode
<1>9. CASE CheckCaller
  <2>1. res' \in Responses
        BY <1>9, RenderedResponses DEF CheckCaller, Admit, Deny, Failures
  <2>2. /\ denied' \in BOOLEAN
        /\ outcome' \in Outcomes
        BY <1>9 DEF CheckCaller, Admit, Deny, Outcomes
  <2>3. pc' \in Locations
        BY <1>9 DEF CheckCaller, Admit, Deny, Locations
  <2> QED BY <1>9, <2>1, <2>2, <2>3 DEF CheckCaller
<1>10. CASE CheckControls
  <2>1. res' \in Responses
        BY <1>10, RenderedResponses DEF CheckControls, Admit, Deny, Failures
  <2>2. /\ denied' \in BOOLEAN
        /\ outcome' \in Outcomes
        BY <1>10 DEF CheckControls, Admit, Deny, Outcomes
  <2>3. pc' \in Locations
        BY <1>10 DEF CheckControls, Admit, Deny, Locations
  <2> QED BY <1>10, <2>1, <2>2, <2>3 DEF CheckControls
<1>11. CASE EvaluateControls
  <2>1. res' \in Responses
        BY <1>11, RenderedResponses DEF EvaluateControls, Admit, Deny, Failures
  <2>2. /\ denied' \in BOOLEAN
        /\ outcome' \in Outcomes
        BY <1>11 DEF EvaluateControls, Admit, Deny, Outcomes
  <2>3. pc' \in Locations
        BY <1>11 DEF EvaluateControls, Admit, Deny, Locations
  <2> QED BY <1>11, <2>1, <2>2, <2>3 DEF EvaluateControls
<1>12. CASE PrepareMeta
      BY <1>12, RenderedResponses DEF PrepareMeta, Locations, Failures
<1>13. CASE Bypass
      BY <1>13, RenderedResponses DEF Bypass, Locations
<1>14. CASE Reserve
      BY <1>14, RenderedResponses DEF Reserve, Locations, Failures
<1>15. CASE HandlerReturns
  <2>1. /\ res' \in Responses
        /\ denied' \in BOOLEAN
        BY <1>15, RenderedResponses DEF HandlerReturns, HandlerSets
  <2>2. pc' \in Locations
        BY <1>15 DEF HandlerReturns, Locations
  <2> QED BY <1>15, <2>1, <2>2 DEF HandlerReturns, HandlerSets
<1>16. CASE HandlerPanics
  <2>1. /\ res' \in Responses
        /\ denied' \in BOOLEAN
        BY <1>16, RenderedResponses DEF HandlerPanics, HandlerSets
  <2>2. pc' \in Locations
        BY <1>16 DEF HandlerPanics, Locations
  <2> QED BY <1>16, <2>1, <2>2 DEF HandlerPanics, HandlerSets
<1>17. CASE Settle
      BY <1>17, RenderedResponses DEF Settle, Locations
<1>18. CASE Respond
      BY <1>18, RenderedResponses DEF Respond, Locations, Outcomes, Rejections, Failures
<1>19. CASE HandleTimeout
      BY <1>19, RenderedResponses DEF HandleTimeout, Locations, Outcomes, Rejections,
               Failures
<1>20. CASE TimeoutHandlerPanics
      BY <1>20, RenderedResponses DEF TimeoutHandlerPanics, Locations
<1>21. CASE WriteHead
      BY <1>21, RenderedResponses DEF WriteHead, Locations
<1>22. CASE Rewrite
      BY <1>22, RenderedResponses DEF Rewrite, Locations, Failures
<1>23. CASE Send
      BY <1>23, RenderedResponses DEF Send, Locations
<1>24. CASE Panics
      BY <1>24 DEF Panics, Locations
<1>25. CASE Audit
  <2>1. res' \in Responses
        BY <1>25, RenderedResponses DEF Audit, Unwound, Failures
  <2> QED BY <1>25, <2>1 DEF Audit, Locations
<1>26. CASE AuditSinkPanics
  <2>1. res' \in Responses
        BY <1>26, RenderedResponses DEF AuditSinkPanics, Unwound, Failures
  <2> QED BY <1>26, <2>1 DEF AuditSinkPanics, Locations
<1>27. CASE Complete
      BY <1>27, OutcomeTyped DEF Complete, Reports, Locations
<1>28. CASE SessionExpires
      BY <1>28 DEF SessionExpires
<1>29. CASE ContextDone
      BY <1>29 DEF ContextDone
<1>30. CASE UNCHANGED vars
      BY <1>30, SMTT(30) DEF vars
<1> QED BY <1>1, <1>2, <1>3, <1>4, <1>5, <1>6, <1>7, <1>8, <1>9, <1>10, <1>11,
           <1>12, <1>13, <1>14, <1>15, <1>16, <1>17, <1>18, <1>19, <1>20, <1>21, <1>22,
           <1>23, <1>24, <1>25, <1>26, <1>27, <1>28, <1>29, <1>30
       DEF Next, Step, Transport, Access, Handle, Answer, Finish, Environment

\* No gate is passed by a request that should fail it.
LEMMA GatesStep ==
    ASSUME TypeOK, GatesPassed, [Next]_vars
    PROVE  GatesPassed'
<1> USE DEF TypeOK, GatesPassed, Entitled, FromHandler, FromMeta, FromControls, FromCaller,
            FromAuthorization, FromAuthenticating, FromReading, FromLimit, FromMediaType,
            static, ending
<1>1. CASE CheckMethod
      BY <1>1 DEF CheckMethod, Pass, Reject
<1>2. CASE CheckMediaType
      BY <1>2 DEF CheckMediaType, Pass, Reject
<1>3. CASE EnforceLimit
      BY <1>3 DEF EnforceLimit, Pass, Reject
<1>4. CASE ReadBody
      BY <1>4 DEF ReadBody, Pass, Reject
<1>5. CASE Authenticate
      BY <1>5 DEF Authenticate
<1>6. CASE CheckInternal
      BY <1>6 DEF CheckInternal, Admit, Deny, Satisfies, Authorized
<1>7. CASE CheckAuthenticated
      BY <1>7 DEF CheckAuthenticated, Admit, Deny
<1>8. CASE CheckMode
      BY <1>8 DEF CheckMode, Admit, Deny, Satisfies, Authorized
<1>9. CASE CheckCaller
      BY <1>9 DEF CheckCaller, Admit, Deny
<1>10. CASE CheckControls
      BY <1>10 DEF CheckControls, Admit, Deny
<1>11. CASE EvaluateControls
      BY <1>11 DEF EvaluateControls, Admit, Deny
<1>12. CASE PrepareMeta
      BY <1>12 DEF PrepareMeta
<1>13. CASE Bypass
      BY <1>13 DEF Bypass
<1>14. CASE Reserve
      BY <1>14 DEF Reserve
<1>15. CASE HandlerReturns
  <2>1. input.flaws \in SUBSET Flaws
        BY InputsAssumption DEF HttpRequests
  <2>2. Entitled
        BY <1>15, <2>1 DEF HandlerReturns, HandlerSets, Flaws
  <2> QED BY <1>15, <2>2 DEF HandlerReturns, HandlerSets
<1>16. CASE HandlerPanics
  <2>1. input.flaws \in SUBSET Flaws
        BY InputsAssumption DEF HttpRequests
  <2>2. Entitled
        BY <1>16, <2>1 DEF HandlerPanics, HandlerSets, Flaws
  <2> QED BY <1>16, <2>2 DEF HandlerPanics, HandlerSets
<1>17. CASE Settle
      BY <1>17 DEF Settle
<1>18. CASE Respond
      BY <1>18 DEF Respond
<1>19. CASE HandleTimeout
      BY <1>19 DEF HandleTimeout
<1>20. CASE TimeoutHandlerPanics
      BY <1>20 DEF TimeoutHandlerPanics
<1>21. CASE WriteHead
      BY <1>21 DEF WriteHead
<1>22. CASE Rewrite
      BY <1>22 DEF Rewrite
<1>23. CASE Send
      BY <1>23 DEF Send
<1>24. CASE Panics
      BY <1>24 DEF Panics
<1>25. CASE Audit
      BY <1>25 DEF Audit
<1>26. CASE AuditSinkPanics
      BY <1>26 DEF AuditSinkPanics
<1>27. CASE Complete
      BY <1>27 DEF Complete
<1>28. CASE SessionExpires
      BY <1>28 DEF SessionExpires
<1>29. CASE ContextDone
      BY <1>29 DEF ContextDone
<1>30. CASE UNCHANGED vars
      BY <1>30 DEF vars
<1> QED BY <1>1, <1>2, <1>3, <1>4, <1>5, <1>6, <1>7, <1>8, <1>9, <1>10, <1>11,
           <1>12, <1>13, <1>14, <1>15, <1>16, <1>17, <1>18, <1>19, <1>20, <1>21, <1>22,
           <1>23, <1>24, <1>25, <1>26, <1>27, <1>28, <1>29, <1>30
       DEF Next, Step, Transport, Access, Handle, Answer, Finish, Environment

\* The wire follows the response.
LEMMA WireStep ==
    ASSUME TypeOK, WireFollows, WireRendered, OutcomeNoted, [Next]_vars
    PROVE  (WireFollows /\ WireRendered)'
<1> USE DEF TypeOK, WireFollows, WireRendered, OutcomeNoted, Unwritten, Deciding,
            Deferred, FromHandler, FromMeta, FromControls, FromCaller,
            FromAuthorization, FromAuthenticating, FromReading, FromLimit, FromMediaType,
            static, ending
<1>1. CASE CheckMethod
      BY <1>1, RenderedResponses DEF CheckMethod, Pass, Reject, Failures
<1>2. CASE CheckMediaType
      BY <1>2, RenderedResponses DEF CheckMediaType, Pass, Reject, Failures
<1>3. CASE EnforceLimit
      BY <1>3, RenderedResponses DEF EnforceLimit, Pass, Reject, Failures
<1>4. CASE ReadBody
      BY <1>4, RenderedResponses DEF ReadBody, Pass, Reject, Failures
<1>5. CASE Authenticate
      BY <1>5, RenderedResponses DEF Authenticate
<1>6. CASE CheckInternal
      BY <1>6, RenderedResponses DEF CheckInternal, Admit, Deny, Failures
<1>7. CASE CheckAuthenticated
      BY <1>7, RenderedResponses DEF CheckAuthenticated, Admit, Deny, Failures
<1>8. CASE CheckMode
      BY <1>8, RenderedResponses DEF CheckMode, Admit, Deny, Failures
<1>9. CASE CheckCaller
      BY <1>9, RenderedResponses DEF CheckCaller, Admit, Deny, Failures
<1>10. CASE CheckControls
      BY <1>10, RenderedResponses DEF CheckControls, Admit, Deny, Failures
<1>11. CASE EvaluateControls
      BY <1>11, RenderedResponses DEF EvaluateControls, Admit, Deny, Failures
<1>12. CASE PrepareMeta
      BY <1>12, RenderedResponses DEF PrepareMeta, Failures
<1>13. CASE Bypass
      BY <1>13, RenderedResponses DEF Bypass
<1>14. CASE Reserve
      BY <1>14, RenderedResponses DEF Reserve, Failures
<1>15. CASE HandlerReturns
      BY <1>15, RenderedResponses DEF HandlerReturns, HandlerSets
<1>16. CASE HandlerPanics
      BY <1>16, RenderedResponses DEF HandlerPanics, HandlerSets
<1>17. CASE Settle
      BY <1>17, RenderedResponses DEF Settle
<1>18. CASE Respond
      BY <1>18, RenderedResponses DEF Respond, Failures
<1>19. CASE HandleTimeout
      BY <1>19, RenderedResponses DEF HandleTimeout, Failures
<1>20. CASE TimeoutHandlerPanics
      BY <1>20, RenderedResponses DEF TimeoutHandlerPanics
<1>21. CASE WriteHead
  <2>1. wire = <<>> /\ Append(<<>>, res) = <<res>>
        BY <1>21 DEF WriteHead
  <2> QED BY <1>21, <2>1 DEF WriteHead
<1>22. CASE Rewrite
  <2>1. /\ wire = <<>>
        /\ Append(<<>>, Failed("unexpected")) = <<Failed("unexpected")>>
        BY <1>22 DEF Rewrite
  <2>2. Failed("unexpected") # NoResponse
        BY RenderedResponses DEF Failures
  <2> QED BY <1>22, <2>1, <2>2 DEF Rewrite
<1>23. CASE Send
      BY <1>23, RenderedResponses DEF Send
<1>24. CASE Panics
      BY <1>24 DEF Panics
<1>25. CASE Audit
      BY <1>25 DEF Audit, Unwound
<1>26. CASE AuditSinkPanics
      BY <1>26 DEF AuditSinkPanics, Unwound
<1>27. CASE Complete
      BY <1>27 DEF Complete
<1>28. CASE SessionExpires
      BY <1>28 DEF SessionExpires
<1>29. CASE ContextDone
      BY <1>29 DEF ContextDone
<1>30. CASE UNCHANGED vars
      BY <1>30 DEF vars
<1> QED BY <1>1, <1>2, <1>3, <1>4, <1>5, <1>6, <1>7, <1>8, <1>9, <1>10, <1>11,
           <1>12, <1>13, <1>14, <1>15, <1>16, <1>17, <1>18, <1>19, <1>20, <1>21, <1>22,
           <1>23, <1>24, <1>25, <1>26, <1>27, <1>28, <1>29, <1>30
       DEF Next, Step, Transport, Access, Handle, Answer, Finish, Environment

\* The deferred function audits once and completes once.
LEMMA DeferredStep ==
    ASSUME TypeOK, DeferredOnce, [Next]_vars
    PROVE  DeferredOnce'
<1> USE DEF TypeOK, DeferredOnce, static, ending
<1>1. CASE CheckMethod
      BY <1>1 DEF CheckMethod, Pass, Reject
<1>2. CASE CheckMediaType
      BY <1>2 DEF CheckMediaType, Pass, Reject
<1>3. CASE EnforceLimit
      BY <1>3 DEF EnforceLimit, Pass, Reject
<1>4. CASE ReadBody
      BY <1>4 DEF ReadBody, Pass, Reject
<1>5. CASE Authenticate
      BY <1>5 DEF Authenticate
<1>6. CASE CheckInternal
      BY <1>6 DEF CheckInternal, Admit, Deny
<1>7. CASE CheckAuthenticated
      BY <1>7 DEF CheckAuthenticated, Admit, Deny
<1>8. CASE CheckMode
      BY <1>8 DEF CheckMode, Admit, Deny
<1>9. CASE CheckCaller
      BY <1>9 DEF CheckCaller, Admit, Deny
<1>10. CASE CheckControls
      BY <1>10 DEF CheckControls, Admit, Deny
<1>11. CASE EvaluateControls
      BY <1>11 DEF EvaluateControls, Admit, Deny
<1>12. CASE PrepareMeta
      BY <1>12 DEF PrepareMeta
<1>13. CASE Bypass
      BY <1>13 DEF Bypass
<1>14. CASE Reserve
      BY <1>14 DEF Reserve
<1>15. CASE HandlerReturns
      BY <1>15 DEF HandlerReturns, HandlerSets
<1>16. CASE HandlerPanics
      BY <1>16 DEF HandlerPanics, HandlerSets
<1>17. CASE Settle
      BY <1>17 DEF Settle
<1>18. CASE Respond
      BY <1>18 DEF Respond
<1>19. CASE HandleTimeout
      BY <1>19 DEF HandleTimeout
<1>20. CASE TimeoutHandlerPanics
      BY <1>20 DEF TimeoutHandlerPanics
<1>21. CASE WriteHead
      BY <1>21 DEF WriteHead
<1>22. CASE Rewrite
      BY <1>22 DEF Rewrite
<1>23. CASE Send
      BY <1>23 DEF Send
<1>24. CASE Panics
      BY <1>24 DEF Panics
<1>25. CASE Audit
      BY <1>25 DEF Audit
<1>26. CASE AuditSinkPanics
      BY <1>26 DEF AuditSinkPanics
<1>27. CASE Complete
  <2>1. completionOutcome' = completionOutcome
        BY <1>27 DEF Complete, completionOutcome
  <2>2. report' # NoReport
        BY <1>27, OutcomeTyped, NoReportApart DEF Complete, Reports
  <2> QED BY <1>27, <2>1, <2>2 DEF Complete
<1>28. CASE SessionExpires
      BY <1>28 DEF SessionExpires
<1>29. CASE ContextDone
      BY <1>29 DEF ContextDone
<1>30. CASE UNCHANGED vars
  <2>1. completionOutcome' = completionOutcome
        BY <1>30 DEF vars, completionOutcome
  <2> QED BY <1>30, <2>1 DEF vars
<1> QED BY <1>1, <1>2, <1>3, <1>4, <1>5, <1>6, <1>7, <1>8, <1>9, <1>10, <1>11,
           <1>12, <1>13, <1>14, <1>15, <1>16, <1>17, <1>18, <1>19, <1>20, <1>21, <1>22,
           <1>23, <1>24, <1>25, <1>26, <1>27, <1>28, <1>29, <1>30
       DEF Next, Step, Transport, Access, Handle, Answer, Finish, Environment

\* The outcome is noted where its cause is met.
LEMMA OutcomeStep ==
    ASSUME TypeOK, OutcomeNoted, [Next]_vars
    PROVE  OutcomeNoted'
<1> USE DEF TypeOK, OutcomeNoted, Deciding, Deferred, Rejections, FromHandler, FromMeta,
            FromControls, FromCaller,
            FromAuthorization, FromAuthenticating, FromReading, FromLimit, FromMediaType,
            static, ending
<1>1. CASE CheckMethod
      BY <1>1, RenderedResponses DEF CheckMethod, Pass, Reject, Failures
<1>2. CASE CheckMediaType
      BY <1>2, RenderedResponses DEF CheckMediaType, Pass, Reject, Failures
<1>3. CASE EnforceLimit
      BY <1>3, RenderedResponses DEF EnforceLimit, Pass, Reject, Failures
<1>4. CASE ReadBody
      BY <1>4, RenderedResponses DEF ReadBody, Pass, Reject, Failures
<1>5. CASE Authenticate
      BY <1>5, RenderedResponses DEF Authenticate
<1>6. CASE CheckInternal
      BY <1>6, RenderedResponses DEF CheckInternal, Admit, Deny, Failures
<1>7. CASE CheckAuthenticated
      BY <1>7, RenderedResponses DEF CheckAuthenticated, Admit, Deny, Failures
<1>8. CASE CheckMode
      BY <1>8, RenderedResponses DEF CheckMode, Admit, Deny, Failures
<1>9. CASE CheckCaller
      BY <1>9, RenderedResponses DEF CheckCaller, Admit, Deny, Failures
<1>10. CASE CheckControls
      BY <1>10, RenderedResponses DEF CheckControls, Admit, Deny, Failures
<1>11. CASE EvaluateControls
      BY <1>11, RenderedResponses DEF EvaluateControls, Admit, Deny, Failures
<1>12. CASE PrepareMeta
      BY <1>12, RenderedResponses DEF PrepareMeta, Failures
<1>13. CASE Bypass
      BY <1>13, RenderedResponses DEF Bypass
<1>14. CASE Reserve
      BY <1>14, RenderedResponses DEF Reserve, Failures
<1>15. CASE HandlerReturns
      BY <1>15, RenderedResponses DEF HandlerReturns, HandlerSets
<1>16. CASE HandlerPanics
      BY <1>16, RenderedResponses DEF HandlerPanics, HandlerSets
<1>17. CASE Settle
      BY <1>17, RenderedResponses DEF Settle
<1>18. CASE Respond
      BY <1>18, RenderedResponses DEF Respond, Failures
<1>19. CASE HandleTimeout
      BY <1>19, RenderedResponses DEF HandleTimeout, Failures
<1>20. CASE TimeoutHandlerPanics
      BY <1>20, RenderedResponses DEF TimeoutHandlerPanics
<1>21. CASE WriteHead
      BY <1>21, RenderedResponses DEF WriteHead
<1>22. CASE Rewrite
      BY <1>22, RenderedResponses DEF Rewrite
<1>23. CASE Send
      BY <1>23, RenderedResponses DEF Send
<1>24. CASE Panics
      BY <1>24 DEF Panics
<1>25. CASE Audit
      BY <1>25 DEF Audit
<1>26. CASE AuditSinkPanics
      BY <1>26 DEF AuditSinkPanics
<1>27. CASE Complete
      BY <1>27 DEF Complete
<1>28. CASE SessionExpires
      BY <1>28 DEF SessionExpires
<1>29. CASE ContextDone
      BY <1>29 DEF ContextDone
<1>30. CASE UNCHANGED vars
      BY <1>30 DEF vars
<1> QED BY <1>1, <1>2, <1>3, <1>4, <1>5, <1>6, <1>7, <1>8, <1>9, <1>10, <1>11,
           <1>12, <1>13, <1>14, <1>15, <1>16, <1>17, <1>18, <1>19, <1>20, <1>21, <1>22,
           <1>23, <1>24, <1>25, <1>26, <1>27, <1>28, <1>29, <1>30
       DEF Next, Step, Transport, Access, Handle, Answer, Finish, Environment

\* A reservation is settled before anything is written.
LEMMA ReservationStep ==
    ASSUME TypeOK, WireFollows, ReservationHeld, [Next]_vars
    PROVE  ReservationHeld'
<1> USE DEF TypeOK, WireFollows, ReservationHeld, Unwritten, Deciding,
            Deferred, FromHandler, FromMeta, FromControls, FromCaller,
            FromAuthorization, FromAuthenticating, FromReading, FromLimit, FromMediaType,
            static, ending
<1>1. CASE CheckMethod
      BY <1>1 DEF CheckMethod, Pass, Reject
<1>2. CASE CheckMediaType
      BY <1>2 DEF CheckMediaType, Pass, Reject
<1>3. CASE EnforceLimit
      BY <1>3 DEF EnforceLimit, Pass, Reject
<1>4. CASE ReadBody
      BY <1>4 DEF ReadBody, Pass, Reject
<1>5. CASE Authenticate
      BY <1>5 DEF Authenticate
<1>6. CASE CheckInternal
      BY <1>6 DEF CheckInternal, Admit, Deny
<1>7. CASE CheckAuthenticated
      BY <1>7 DEF CheckAuthenticated, Admit, Deny
<1>8. CASE CheckMode
      BY <1>8 DEF CheckMode, Admit, Deny
<1>9. CASE CheckCaller
      BY <1>9 DEF CheckCaller, Admit, Deny
<1>10. CASE CheckControls
      BY <1>10 DEF CheckControls, Admit, Deny
<1>11. CASE EvaluateControls
      BY <1>11 DEF EvaluateControls, Admit, Deny
<1>12. CASE PrepareMeta
      BY <1>12 DEF PrepareMeta
<1>13. CASE Bypass
      BY <1>13 DEF Bypass
<1>14. CASE Reserve
      BY <1>14 DEF Reserve
<1>15. CASE HandlerReturns
      BY <1>15 DEF HandlerReturns, HandlerSets
<1>16. CASE HandlerPanics
      BY <1>16 DEF HandlerPanics, HandlerSets
<1>17. CASE Settle
      BY <1>17 DEF Settle
<1>18. CASE Respond
      BY <1>18 DEF Respond
<1>19. CASE HandleTimeout
      BY <1>19 DEF HandleTimeout
<1>20. CASE TimeoutHandlerPanics
      BY <1>20 DEF TimeoutHandlerPanics
<1>21. CASE WriteHead
      BY <1>21 DEF WriteHead
<1>22. CASE Rewrite
      BY <1>22 DEF Rewrite
<1>23. CASE Send
      BY <1>23 DEF Send
<1>24. CASE Panics
      BY <1>24 DEF Panics
<1>25. CASE Audit
      BY <1>25 DEF Audit
<1>26. CASE AuditSinkPanics
      BY <1>26 DEF AuditSinkPanics
<1>27. CASE Complete
      BY <1>27 DEF Complete
<1>28. CASE SessionExpires
      BY <1>28 DEF SessionExpires
<1>29. CASE ContextDone
      BY <1>29 DEF ContextDone
<1>30. CASE UNCHANGED vars
      BY <1>30 DEF vars
<1> QED BY <1>1, <1>2, <1>3, <1>4, <1>5, <1>6, <1>7, <1>8, <1>9, <1>10, <1>11,
           <1>12, <1>13, <1>14, <1>15, <1>16, <1>17, <1>18, <1>19, <1>20, <1>21, <1>22,
           <1>23, <1>24, <1>25, <1>26, <1>27, <1>28, <1>29, <1>30
       DEF Next, Step, Transport, Access, Handle, Answer, Finish, Environment

-----------------------------------------------------------------------------
\* The invariant holds of a request that arrives.
LEMMA InitInv == Init => IInv
<1> SUFFICES ASSUME Init PROVE IInv
    OBVIOUS
<1> USE DEF Init
<1>1. TypeOK
  <2>1. /\ pc \in Locations
        /\ outcome \in Outcomes
        BY DEF Locations, Outcomes
  <2>2. /\ res \in Responses
        /\ wire \in Seq(Responses)
        BY RenderedResponses
  <2> QED BY <2>1, <2>2 DEF TypeOK
<1>2. GatesPassed
      BY DEF GatesPassed, FromHandler, FromMeta, FromControls, FromCaller,
               FromAuthorization,
             FromAuthenticating, FromReading, FromLimit, FromMediaType
<1>3. WireFollows /\ WireRendered
      BY DEF WireFollows, WireRendered, Deferred
<1>4. DeferredOnce
      BY DEF DeferredOnce
<1>5. OutcomeNoted
      BY DEF OutcomeNoted, Rejections
<1>6. ReservationHeld
      BY DEF ReservationHeld
<1> QED BY <1>1, <1>2, <1>3, <1>4, <1>5, <1>6 DEF IInv

\* The invariant is inductive.
LEMMA StepInv == IInv /\ [Next]_vars => IInv'
BY TypeStep, GatesStep, WireStep, DeferredStep, OutcomeStep, ReservationStep DEF IInv

\* Whatever the application code, the session, the context and the client do, the
\* places of httpHandler (runtime.go:337-594) keep the invariant.
THEOREM Invariance == Spec => []IInv
BY InitInv, StepInv, PTL DEF Spec

\* Every variable of a request keeps its type.
THEOREM TypeCorrect == Spec => []TypeOK
<1>1. IInv => TypeOK
      BY DEF IInv
<1> QED BY Invariance, <1>1, PTL

\* The application handler only ever runs for a request that no transport check,
\* no access check and no metadata check would have turned away, for every set of
\* endpoint specifications (runtime.go:352-494).
THEOREM HandlerOnlyForTheEntitled == Spec => []NoHandlerPastAFailure
<1>1. IInv => NoHandlerPastAFailure
      BY DEF IInv, GatesPassed, NoHandlerPastAFailure
<1> QED BY Invariance, <1>1, PTL

\* At most one response head reaches the client, and one exactly when the
\* connection is handed back, however often the response is rendered again.
THEOREM OneHeadIsSent == Spec => []OneHead
<1>1. ASSUME IInv PROVE OneHead
  <2>1. wire = <<>> \/ wire = <<res>>
        BY <1>1 DEF IInv, TypeOK, WireFollows, Unwritten, Deciding, Deferred, FromMediaType,
                    FromLimit, FromReading, FromAuthenticating, FromAuthorization,
                    FromCaller, FromControls, FromMeta, FromHandler, Locations
  <2>2. fate = "returned" => wire = <<res>>
        BY <1>1 DEF IInv, TypeOK, WireFollows, DeferredOnce, Deferred
  <2>3. /\ Len(<<>>) = 0
        /\ Len(<<res>>) = 1
        /\ 0 <= 1 /\ 1 <= 1
        OBVIOUS
  <2> QED BY <2>1, <2>2, <2>3, Zenon DEF OneHead
<1>2. IInv => OneHead
      BY <1>1
<1> QED BY Invariance, <1>2, PTL

\* A request that does not panic is completed with the response its client got.
THEOREM ReportIsWhatWasSent == Spec => []ReportMatchesWire
<1>1. IInv => ReportMatchesWire
      BY DEF IInv, DeferredOnce, WireFollows, ReportMatchesWire, Deferred
<1> QED BY Invariance, <1>1, PTL

\* The outcome given to the completion sink is what happened to the request: no
\* rejection by the runtime of a request that was handled, no timeout without a
\* deadline.
THEOREM OutcomeIsRight == Spec => []OutcomeIsTheCause
<1>1. ASSUME IInv PROVE OutcomeIsTheCause
  <2>1. SUFFICES ASSUME report # NoReport PROVE
            /\ report.outcome \in Rejections => ~ran
            /\ outcome = "access_denied" => ~ran
            /\ report.outcome = "timed_out" => ctx = "deadline" /\ ran
            /\ report.outcome \in {"handled", "parse_failed"} => ~denied /\ ~panicking
            /\ report.outcome = "access_denied" => denied
            /\ panicking <=> report.outcome = "panicked"
        BY DEF OutcomeIsTheCause
  <2>2. report.outcome = completionOutcome
        BY <1>1, <2>1 DEF IInv, DeferredOnce
  <2>3. panicking \in BOOLEAN /\ denied \in BOOLEAN
        BY <1>1 DEF IInv, TypeOK
  <2> QED BY <1>1, <2>2, <2>3 DEF IInv, OutcomeNoted, Rejections, completionOutcome
<1>2. IInv => OutcomeIsTheCause
      BY <1>1
<1> QED BY Invariance, <1>2, PTL

\* The reservation of an idempotency key is settled before a byte of the answer.
THEOREM SettledFirst == Spec => []SettledBeforeAnswer
<1>1. IInv => SettledBeforeAnswer
      BY DEF IInv, TypeOK, ReservationHeld, WireFollows, SettledBeforeAnswer, Unwritten,
             Deciding, FromMediaType, FromLimit, FromReading, FromAuthenticating,
             FromAuthorization, FromCaller, FromControls, FromMeta, FromHandler
<1> QED BY Invariance, <1>1, PTL

-----------------------------------------------------------------------------
\* A request begins as the lifecycle does: nothing sent, audited or completed.
LEMMA LifecycleInit == Init => Lifecycle!Init
BY DEF Init, Lifecycle!Init

\* Every step of the request is a step of its lifecycle or none of it.
LEMMA LifecycleStep ==
    ASSUME IInv, [Next]_vars
    PROVE  [Lifecycle!Next]_(Lifecycle!vars)
<1> USE DEF Lifecycle!vars, static, ending
<1>1. CASE WriteHead
  <2>1. wire = <<>> /\ ~audited
        BY <1>1 DEF IInv, WireFollows, Unwritten, DeferredOnce, WriteHead
  <2>2. wire' = wire \/ wire' = <<res>>
        BY <1>1, <2>1 DEF WriteHead, IInv, TypeOK
  <2> QED BY <1>1, <2>1, <2>2 DEF WriteHead, Lifecycle!Next, Lifecycle!Answer
<1>2. CASE Rewrite
  <2>1. wire = <<>> /\ ~audited
        BY <1>2 DEF IInv, WireFollows, Unwritten, DeferredOnce, Rewrite
  <2>2. wire' = <<res'>>
        BY <1>2, <2>1 DEF Rewrite
  <2> QED BY <1>2, <2>1, <2>2 DEF Rewrite, Lifecycle!Next, Lifecycle!Answer
<1>3. CASE Audit
  <2>1. audited = FALSE
        BY <1>3 DEF IInv, TypeOK, DeferredOnce, Audit
  <2> QED BY <1>3, <2>1 DEF Audit, Lifecycle!Next, Lifecycle!Audit
<1>4. CASE AuditSinkPanics
  <2>1. audited = FALSE
        BY <1>4 DEF IInv, TypeOK, DeferredOnce, AuditSinkPanics
  <2> QED BY <1>4, <2>1 DEF AuditSinkPanics, Lifecycle!Next, Lifecycle!AuditAborts
<1>5. CASE Complete
  <2>1. /\ audited
        /\ fate = "open"
        BY <1>5 DEF IInv, DeferredOnce, Complete
  <2>2. ~panicking => wire # <<>>
        BY <1>5 DEF IInv, WireFollows, Deferred, Complete
  <2>3. report' # NoReport
        BY <1>5, OutcomeTyped, NoReportApart DEF IInv, TypeOK, Complete, Reports
  <2> QED BY <1>5, <2>1, <2>2, <2>3 DEF Complete, Lifecycle!Next, Lifecycle!Complete
<1>6. CASE UNCHANGED <<wire, audited, report, fate>>
      BY <1>6
<1>7. CASE Transport \/ Access \/ Handle \/ Panics \/ Environment
  <2>1. UNCHANGED <<wire, audited, report, fate>>
        BY <1>7 DEF Transport, Access, Handle, Environment, CheckMethod, CheckMediaType,
                    EnforceLimit, ReadBody, Authenticate, CheckInternal,
                    CheckAuthenticated, CheckMode, CheckCaller, CheckControls,
                    EvaluateControls, PrepareMeta, Bypass, Reserve, HandlerReturns,
                    HandlerPanics, Settle, Panics, SessionExpires, ContextDone, HandlerSets
  <2> QED BY <1>6, <2>1
<1>8. CASE Respond \/ HandleTimeout \/ TimeoutHandlerPanics \/ Send
      BY <1>6, <1>8 DEF Respond, HandleTimeout, TimeoutHandlerPanics, Send
<1> QED BY <1>1, <1>2, <1>3, <1>4, <1>5, <1>6, <1>7, <1>8
       DEF Next, Step, Answer, Finish, vars

\* The endpoint runtime implements the lifecycle: one head at most, one audit, and
\* one completion after it, both of them behind everything that is sent.
THEOREM KeepsThePromise == Spec => Promise
<1>1. Init => Lifecycle!Init
      BY LifecycleInit
<1>2. IInv /\ [Next]_vars => [Lifecycle!Next]_(Lifecycle!vars)
      BY LifecycleStep
<1> QED BY <1>1, <1>2, Invariance, PTL DEF Spec, Promise, Lifecycle!Spec
-----------------------------------------------------------------------------
(***************************************************************************)
(* HttpFront.  The request limit holds for every limit, every request and  *)
(* every way a body is framed and read: what a handler runs on is within   *)
(* the limit, and what is refused as too large is not.  And whatever the   *)
(* middleware and the handler do to the CORS headers, what a browser may   *)
(* read, at first hand or out of a cache, is what the policy says.         *)
(***************************************************************************)
\* An exchange has these fields, whatever their values.
Fields == {"at", "request", "layer", "read", "header", "wrote", "verdict", "vouched"}

\* What the limit has to do with an exchange: nothing is judged before the
\* endpoint, and a body is read within what the envelope left of the limit.
Metered(x) ==
    /\ DOMAIN x = Fields
    /\ x.request \in Requests
    /\ x.read \in Nat
    /\ x.at \in {"arrived", "middleware", "endpoint", "reading"} =>
           x.verdict \notin {"handled", "too large"}
    /\ x.at \in {"arrived", "middleware", "endpoint"} => x.read = 0
    /\ x.at = "reading" =>
           /\ ~ OverLimit(x.request)
           /\ x.read <= x.request.body
           /\ Limit # 0 => x.read <= RemainingBodyBytes(x.request)
    /\ x.verdict = "handled" /\ Limit # 0 => WireBytes(x.request) <= Limit
    /\ x.verdict = "too large" /\ Limit # 0 => ChargedBytes(x.request) > Limit

LimitInv == exchange = NoExchange \/ Metered(exchange)

\* The envelope of a request is at least its line and headers, and what is
\* charged for a request is its envelope and its body, however it is framed
\* (endpointRequestEnvelopeBytes).
LEMMA EnvelopeLemma ==
    ASSUME NEW request \in Requests
    PROVE  /\ EnvelopeBytes(request) \in Nat
           /\ request.head <= EnvelopeBytes(request)
           /\ ChargedBytes(request) = EnvelopeBytes(request) + request.body
  BY FrontAssumption, RequestsAssumption
     DEF EnvelopeBytes, WireBytes, ChargedBytes, Chunked

\* A request that is over the limit before its body is read is charged for
\* more than the limit (enforceEndpointRequestLimit).
LEMMA OverLimitLemma ==
    ASSUME NEW request \in Requests, OverLimit(request)
    PROVE  ChargedBytes(request) > Limit
  BY FrontAssumption, RequestsAssumption, EnvelopeLemma
     DEF OverLimit, RemainingBodyBytes, Chunked

LEMMA Started ==
    ASSUME LimitInv, exchange.at # "idle"
    PROVE  Metered(exchange)
  BY DEF LimitInv, NoExchange

LEMMA LimitInit == FrontInit => LimitInv
  BY DEF FrontInit, LimitInv

LEMMA LimitNext == LimitInv /\ [FrontNext]_frontVars => LimitInv'
<1> SUFFICES ASSUME LimitInv, [FrontNext]_frontVars PROVE LimitInv'
  OBVIOUS
<1>0. Metered(exchange') => LimitInv'
  BY DEF LimitInv
<1>1. CASE Arrive
  <2> PICK request \in Requests : exchange' = NewExchange(request)
    BY <1>1 DEF Arrive
  <2>1. Metered(NewExchange(request))
    BY DEF NewExchange, Metered, Fields, None
  <2> QED
    BY <1>0, <2>1
<1>2. CASE HandlePreflight
  <2>1. Metered(exchange)
    BY <1>2, Started DEF HandlePreflight, At
  <2>2. Metered(exchange')
    BY <1>2, <2>1 DEF HandlePreflight, At, Metered, Fields
  <2> QED
    BY <1>0, <2>2
<1>3. CASE ServeNext
  <2>1. Metered(exchange)
    BY <1>3, Started DEF ServeNext, At
  <2>2. Metered(exchange')
    BY <1>3, <2>1 DEF ServeNext, At, Go, Metered, Fields
  <2> QED
    BY <1>0, <2>2
<1>4. CASE PassOn
  <2>1. Metered(exchange)
    BY <1>4, Started DEF PassOn, At
  <2>2. Metered(exchange')
    BY <1>4, <2>1 DEF PassOn, At, Metered, Fields
  <2> QED
    BY <1>0, <2>2
<1>5. CASE AnswerEarly
  <2>1. Metered(exchange)
    BY <1>5, Started DEF AnswerEarly, At
  <2>2. Metered(exchange')
    BY <1>5, <2>1 DEF AnswerEarly, At, Metered, Fields
  <2> QED
    BY <1>0, <2>2
<1>6. CASE EnforceEndpointRequestLimit
  <2>1. Metered(exchange) /\ exchange.at = "endpoint" /\ exchange.request \in Requests
    BY <1>6, Started DEF EnforceEndpointRequestLimit, At, Metered
  <2>2. CASE OverLimit(exchange.request)
    <3>1. exchange' = [exchange EXCEPT !.at = "answering", !.verdict = "too large"]
      BY <1>6, <2>2 DEF EnforceEndpointRequestLimit
    <3>2. ChargedBytes(exchange.request) > Limit
      BY <2>1, <2>2, OverLimitLemma
    <3>3. Metered(exchange')
      BY <2>1, <3>1, <3>2 DEF Metered, Fields
    <3> QED
      BY <1>0, <3>3
  <2>3. CASE ~ OverLimit(exchange.request)
    <3>1. exchange' = [exchange EXCEPT !.at = "reading"]
      BY <1>6, <2>3 DEF EnforceEndpointRequestLimit, Go
    <3>2. exchange.request.body >= 0 /\ (Limit # 0 => RemainingBodyBytes(exchange.request) >= 0)
      BY <2>1, <2>3, EnvelopeLemma, FrontAssumption, RequestsAssumption
         DEF OverLimit, RemainingBodyBytes
    <3>3. Metered(exchange')
      BY <2>1, <2>3, <3>1, <3>2 DEF Metered, Fields
    <3> QED
      BY <1>0, <3>3
  <2> QED
    BY <2>2, <2>3
<1>7. CASE ReadBytes
  <2> DEFINE spent == Limit # 0 /\ exchange.read = RemainingBodyBytes(exchange.request)
  <2>1. Metered(exchange) /\ exchange.at = "reading" /\ exchange.request \in Requests
    BY <1>7, Started DEF ReadBytes, At, Metered
  <2>2. /\ exchange.read \in Nat
        /\ exchange.read <= exchange.request.body
        /\ Limit # 0 => exchange.read <= RemainingBodyBytes(exchange.request)
    BY <2>1 DEF Metered
  <2> DEFINE request == exchange.request
  <2>3. /\ request.body \in Nat /\ request.head \in Nat /\ Limit \in Nat
         /\ EnvelopeBytes(request) \in Nat
         /\ request.head <= EnvelopeBytes(request)
         /\ ChargedBytes(request) = EnvelopeBytes(request) + request.body
         /\ RemainingBodyBytes(request) = Limit - EnvelopeBytes(request)
    BY <2>1, EnvelopeLemma, FrontAssumption, RequestsAssumption DEF RemainingBodyBytes
  <2>4. CASE exchange.read = exchange.request.body
    <3>1. exchange' = [exchange EXCEPT !.at = "answering", !.verdict = "handled"]
      BY <1>7, <2>4 DEF ReadBytes
    <3>2. Limit # 0 => WireBytes(exchange.request) <= Limit
      BY <2>2, <2>3, <2>4 DEF WireBytes
    <3>3. Metered(exchange')
      BY <2>1, <3>1, <3>2 DEF Metered, Fields
    <3> QED
      BY <1>0, <3>3
  <2>5. CASE exchange.read # exchange.request.body /\ spent
    <3>1. exchange' = [exchange EXCEPT !.at = "answering", !.verdict = "too large"]
      BY <1>7, <2>5 DEF ReadBytes
    <3>2. ChargedBytes(exchange.request) > Limit
      BY <2>2, <2>3, <2>5
    <3>3. Metered(exchange')
      BY <2>1, <3>1, <3>2 DEF Metered, Fields
    <3> QED
      BY <1>0, <3>3
  <2>6. CASE exchange.read # exchange.request.body /\ ~ spent
    <3>1. exchange' = [exchange EXCEPT !.read = @ + 1]
      BY <1>7, <2>6 DEF ReadBytes
    <3>2. /\ exchange.read + 1 \in Nat
          /\ exchange.read + 1 <= exchange.request.body
          /\ Limit # 0 => exchange.read + 1 <= RemainingBodyBytes(exchange.request)
      BY <2>2, <2>3, <2>6
    <3>3. Metered(exchange')
      BY <2>1, <3>1, <3>2 DEF Metered, Fields
    <3> QED
      BY <1>0, <3>3
  <2> QED
    BY <2>4, <2>5, <2>6
<1>8. CASE ReadFails
  <2>1. Metered(exchange)
    BY <1>8, Started DEF ReadFails, At
  <2>2. Metered(exchange')
    BY <1>8, <2>1 DEF ReadFails, At, Metered, Fields
  <2> QED
    BY <1>0, <2>2
<1>9. CASE SetHeader
  <2>1. Metered(exchange)
    BY <1>9, Started DEF SetHeader, Running
  <2>2. Metered(exchange')
    BY <1>9, <2>1 DEF SetHeader, Running, Metered, Fields
  <2> QED
    BY <1>0, <2>2
<1>10. CASE WriteInformational
  <2>1. Metered(exchange)
    BY <1>10, Started DEF WriteInformational, Running
  <2>2. Metered(exchange')
    BY <1>10, <2>1 DEF WriteInformational, Running, Metered, Fields
  <2> QED
    BY <1>0, <2>2
<1>11. CASE WriteHeader
  <2>1. Metered(exchange)
    BY <1>11, Started DEF WriteHeader, At
  <2>2. Metered(exchange')
    BY <1>11, <2>1 DEF WriteHeader, At, Metered, Fields
  <2> QED
    BY <1>0, <2>2
<1>12. CASE SendUnseen
  <2>1. Metered(exchange)
    BY <1>12, Started DEF SendUnseen, At
  <2>2. Metered(exchange')
    BY <1>12, <2>1 DEF SendUnseen, At, Metered, Fields
  <2> QED
    BY <1>0, <2>2
<1>13. CASE Deliver
  BY <1>13 DEF Deliver, LimitInv
<1>14. CASE FromCache
  BY <1>14 DEF FromCache, LimitInv
<1>15. CASE UNCHANGED frontVars
  BY <1>15 DEF frontVars, LimitInv
<1> QED
  BY <1>1, <1>2, <1>3, <1>4, <1>5, <1>6, <1>7, <1>8, <1>9, <1>10, <1>11, <1>12, <1>13, <1>14, <1>15
     DEF FrontNext

LEMMA LimitInvSuffices == LimitInv => AdmittedWithinLimit
  BY Started DEF AdmittedWithinLimit, At, Metered

\* Whatever the limit, the requests and the configuration: a handler runs only
\* on a request that is within the limit, line and headers included, and a
\* request is refused as too large only when it is charged for more
\* (enforceEndpointRequestLimit and the bounded body it leaves).
THEOREM RequestsAreAdmittedWithinLimit == FrontSpec => []AdmittedWithinLimit
  BY LimitInit, LimitNext, LimitInvSuffices, PTL DEF FrontSpec
-----------------------------------------------------------------------------
(***************************************************************************)
(* The CORS policy.                                                        *)
(***************************************************************************)

\* No policy grants credentials to every origin: building it panics.
PolicyInv ==
    /\ DOMAIN policy.origins \subseteq Nat
    /\ None \notin Range(policy.origins)
    /\ policy.credentials => Wildcard \notin Range(policy.origins)

\* The header holds the decision about the request's origin, and says that it
\* depends on the origin unless it is the same for all of them.
Decided(header, request) ==
    LET origin == AllowedOrigin(request.origin)
    IN  /\ header.grant = origin
        /\ header.credentials => origin # None /\ policy.credentials
        /\ origin \in {None, Wildcard} \/ "Origin" \in header.vary

\* What is known of a response the CORS writer wrote at the end of the exchange.
Sound(response) ==
    /\ response.request \in Requests
    /\ response.vouched /\ response.verdict \notin {"preflight", "forbidden"} =>
           Decided(response.header, response.request)

\* An exchange whose headers were decided early is not vouched for, and one
\* that was sent is as its response.
Vouched(x) ==
    /\ DOMAIN x.header = {"grant", "credentials", "vary"}
    /\ x.wrote /\ x.at # "sent" => ~ x.vouched
    /\ x.at = "sent" => Sound(x)

\* A browser has its own response, or a cached one that does not vary with the
\* origin unless the origin is its own.
Honest(r) ==
    /\ r.by \in Requests
    /\ Sound(r.response)
    /\ r.fresh => r.by = r.response.request
    /\ "Origin" \in r.response.header.vary => r.by.origin = r.response.request.origin

GrantInv ==
    /\ LimitInv
    /\ PolicyInv
    /\ exchange = NoExchange \/ Vouched(exchange)
    /\ \A response \in cache : Sound(response)
    /\ reading = NoReading \/ Honest(reading)

\* The origin that is allowed is one the policy names, the caller's or the
\* wildcard, and there is one exactly when the policy is for that origin
\* (allowedOrigin).
LEMMA AllowedOriginLemma ==
    ASSUME PolicyInv, NEW origin
    PROVE  \/ AllowedOrigin(origin) = None /\ ~ ConfiguredFor(origin)
           \/ /\ AllowedOrigin(origin) \in Range(policy.origins) \cap {Wildcard, origin}
              /\ AllowedOrigin(origin) # None
              /\ ConfiguredFor(origin)
<1> DEFINE matches == {i \in DOMAIN policy.origins : policy.origins[i] \in {Wildcard, origin}}
<1>1. CASE origin = "" \/ matches = {}
  <2>1. AllowedOrigin(origin) = None
    BY <1>1 DEF AllowedOrigin
  <2>2. ~ ConfiguredFor(origin)
    BY <1>1 DEF ConfiguredFor, Range
  <2> QED
    BY <2>1, <2>2
<1>2. CASE origin # "" /\ matches # {}
  <2>1. matches \subseteq Nat
    BY DEF PolicyInv
  <2>2. Min(matches) \in matches
    <3> HIDE DEF matches
    <3>1. \E x \in matches : \A y \in matches : x <= y
      BY <1>2, <2>1, Least
    <3> QED
      BY <3>1 DEF Min
  <2>3. AllowedOrigin(origin) = policy.origins[Min(matches)]
    BY <1>2 DEF AllowedOrigin
  <2>4. policy.origins[Min(matches)] \in Range(policy.origins) \cap {Wildcard, origin}
    BY <2>2 DEF Range
  <2>5. ConfiguredFor(origin)
    BY <1>2, <2>4 DEF ConfiguredFor
  <2> QED
    BY <2>3, <2>4, <2>5 DEF PolicyInv
<1> QED
  BY <1>1, <1>2

\* Whatever a handler set, the writer leaves the decision about the origin
\* (applyActual).
LEMMA ApplyActualDecides ==
    ASSUME NEW header, DOMAIN header = {"grant", "credentials", "vary"}, NEW request
    PROVE  /\ Decided(ApplyActual(header, request), request)
           /\ DOMAIN ApplyActual(header, request) = {"grant", "credentials", "vary"}
<1> DEFINE origin == AllowedOrigin(request.origin)
<1>1. CASE origin = None
  <2>1. ApplyActual(header, request) = [header EXCEPT !.grant = None, !.credentials = FALSE]
    BY <1>1 DEF ApplyActual, ClearCORSHeaders
  <2> QED
    BY <1>1, <2>1 DEF Decided
<1>2. CASE origin # None
  <2>1. ApplyActual(header, request)
        = Granting(header, origin, IF origin = Wildcard THEN {} ELSE {"Origin"})
    BY <1>2 DEF ApplyActual
  <2> QED
    BY <1>2, <2>1 DEF Decided, Granting
<1> QED
  BY <1>1, <1>2

\* What is known of a response stays true while the policy stays.
LEMMA SoundStays ==
    ASSUME policy' = policy
    PROVE  \A response : Sound(response) => Sound(response)'
  BY DEF Sound, Decided, AllowedOrigin

\* The server's policy is the one it was built with.
LEMMA PolicyStays == [FrontNext]_frontVars => policy' = policy
  BY DEF FrontNext, frontVars, Arrive, HandlePreflight, ServeNext, PassOn, AnswerEarly,
         EnforceEndpointRequestLimit, ReadBytes, ReadFails, SetHeader,
         WriteInformational, WriteHeader, SendUnseen, Deliver, FromCache

LEMMA GrantInit == FrontInit => GrantInv
<1> SUFFICES ASSUME FrontInit PROVE GrantInv
  OBVIOUS
<1>1. PICK config \in Configs : ~ Refused(config) /\ policy = NormalizeCORSConfig(config)
  BY DEF FrontInit
<1>2. /\ policy.origins = [i \in {j \in DOMAIN config.origins : config.origins[j] # ""}
                              |-> config.origins[i]]
      /\ policy.credentials = config.credentials
  BY <1>1 DEF NormalizeCORSConfig, NormalizeCORSList, Restrict
<1>3. PolicyInv
  <2>1. /\ DOMAIN config.origins \subseteq Nat
        /\ \A i \in DOMAIN config.origins : config.origins[i] # None
    BY <1>1, OriginsAssumption
  <2>2. config.credentials => \A i \in DOMAIN config.origins : config.origins[i] # Wildcard
    BY <1>1 DEF Refused, Range
  <2>3. /\ DOMAIN policy.origins \subseteq DOMAIN config.origins
        /\ \A i \in DOMAIN policy.origins : policy.origins[i] = config.origins[i]
    BY <1>2
  <2>4. /\ \A i \in DOMAIN policy.origins : policy.origins[i] # None
        /\ policy.credentials => \A i \in DOMAIN policy.origins : policy.origins[i] # Wildcard
    BY <1>2, <2>1, <2>2, <2>3
  <2> QED
    BY <2>1, <2>3, <2>4 DEF PolicyInv, Range
<1> QED
  BY <1>3, LimitInit DEF FrontInit, GrantInv

LEMMA GrantNext == GrantInv /\ [FrontNext]_frontVars => GrantInv'
<1> SUFFICES ASSUME GrantInv, [FrontNext]_frontVars PROVE GrantInv'
  OBVIOUS
<1>a. LimitInv' /\ policy' = policy
  BY LimitNext, PolicyStays DEF GrantInv
<1>b. PolicyInv'
  BY <1>a DEF GrantInv, PolicyInv
<1>c. ASSUME exchange' = NoExchange \/ Vouched(exchange)', UNCHANGED <<cache, reading>>
      PROVE  GrantInv'
  <2>1. \A response \in cache' : Sound(response)'
    BY <1>a, <1>c, SoundStays DEF GrantInv
  <2>2. reading' = NoReading \/ Honest(reading)'
    BY <1>a, <1>c, SoundStays DEF GrantInv, Honest
  <2> QED
    BY <1>a, <1>b, <1>c, <2>1, <2>2 DEF GrantInv
<1>d. ASSUME exchange # NoExchange
      PROVE  Vouched(exchange) /\ DOMAIN exchange = Fields /\ exchange.request \in Requests
  BY <1>d DEF GrantInv, LimitInv, Metered
<1>1. CASE Arrive
  <2>1. PICK request \in Requests : exchange' = NewExchange(request)
    BY <1>1 DEF Arrive
  <2>2. Vouched(exchange)'
    BY <2>1 DEF Vouched, NewExchange, NoHeader
  <2>3. \A response \in cache' : Sound(response)'
    BY <1>1, <1>a, SoundStays DEF GrantInv, Arrive
  <2> QED
    BY <1>1, <1>a, <1>b, <2>2, <2>3 DEF GrantInv, Arrive
<1>2. CASE HandlePreflight
  <2>1. Vouched(exchange) /\ DOMAIN exchange = Fields /\ exchange.request \in Requests
    BY <1>2, <1>d DEF HandlePreflight, At, NoExchange
  <2>2. Vouched(exchange)'
    BY <1>2, <2>1 DEF HandlePreflight, At, Vouched, Fields, PreflightHeader, Granting, NoHeader, Sound
  <2> QED
    BY <1>2, <1>c, <2>2 DEF HandlePreflight
<1>3. CASE ServeNext
  <2>1. Vouched(exchange) /\ DOMAIN exchange = Fields /\ exchange.request \in Requests
    BY <1>3, <1>d DEF ServeNext, At, NoExchange
  <2>2. Vouched(exchange)'
    BY <1>3, <2>1 DEF ServeNext, At, Vouched, Fields, Go
  <2> QED
    BY <1>3, <1>c, <2>2 DEF ServeNext
<1>4. CASE PassOn
  <2>1. Vouched(exchange) /\ DOMAIN exchange = Fields /\ exchange.request \in Requests
    BY <1>4, <1>d DEF PassOn, At, NoExchange
  <2>2. Vouched(exchange)'
    BY <1>4, <2>1 DEF PassOn, At, Vouched, Fields
  <2> QED
    BY <1>4, <1>c, <2>2 DEF PassOn
<1>5. CASE AnswerEarly
  <2>1. Vouched(exchange) /\ DOMAIN exchange = Fields /\ exchange.request \in Requests
    BY <1>5, <1>d DEF AnswerEarly, At, NoExchange
  <2>2. Vouched(exchange)'
    BY <1>5, <2>1 DEF AnswerEarly, At, Vouched, Fields
  <2> QED
    BY <1>5, <1>c, <2>2 DEF AnswerEarly
<1>6. CASE EnforceEndpointRequestLimit
  <2>1. Vouched(exchange) /\ DOMAIN exchange = Fields /\ exchange.request \in Requests
    BY <1>6, <1>d DEF EnforceEndpointRequestLimit, At, NoExchange
  <2>2. Vouched(exchange)'
    BY <1>6, <2>1 DEF EnforceEndpointRequestLimit, At, Vouched, Fields, Go
  <2> QED
    BY <1>6, <1>c, <2>2 DEF EnforceEndpointRequestLimit
<1>7. CASE ReadBytes
  <2>1. Vouched(exchange) /\ DOMAIN exchange = Fields /\ exchange.request \in Requests
    BY <1>7, <1>d DEF ReadBytes, At, NoExchange
  <2>2. Vouched(exchange)'
    BY <1>7, <2>1 DEF ReadBytes, At, Vouched, Fields
  <2> QED
    BY <1>7, <1>c, <2>2 DEF ReadBytes
<1>8. CASE ReadFails
  <2>1. Vouched(exchange) /\ DOMAIN exchange = Fields /\ exchange.request \in Requests
    BY <1>8, <1>d DEF ReadFails, At, NoExchange
  <2>2. Vouched(exchange)'
    BY <1>8, <2>1 DEF ReadFails, At, Vouched, Fields
  <2> QED
    BY <1>8, <1>c, <2>2 DEF ReadFails
<1>9. CASE SetHeader
  <2>1. Vouched(exchange) /\ DOMAIN exchange = Fields /\ exchange.request \in Requests
    BY <1>9, <1>d DEF SetHeader, At, NoExchange, Running
  <2>2. Vouched(exchange)'
    BY <1>9, <2>1 DEF SetHeader, At, Vouched, Fields, Running
  <2> QED
    BY <1>9, <1>c, <2>2 DEF SetHeader
<1>10. CASE WriteInformational
  <2> DEFINE written == ApplyActual(exchange.header, exchange.request)
  <2>1. Vouched(exchange) /\ DOMAIN exchange = Fields /\ exchange.request \in Requests
    BY <1>10, <1>d DEF WriteInformational, At, Running, NoExchange
  <2>2. Decided(written, exchange.request) /\ DOMAIN written = {"grant", "credentials", "vary"}
    BY <2>1, ApplyActualDecides DEF Vouched
  <2>3. Vouched(exchange)'
    BY <1>10, <2>1, <2>2 DEF WriteInformational, At, Running, Vouched, Fields
  <2> QED
    BY <1>10, <1>c, <2>3 DEF WriteInformational
<1>11. CASE WriteHeader
  <2> DEFINE written == ApplyActual(exchange.header, exchange.request)
  <2>1. Vouched(exchange) /\ DOMAIN exchange = Fields /\ exchange.request \in Requests
    BY <1>11, <1>d DEF WriteHeader, At, Running, NoExchange
  <2>2. Decided(written, exchange.request) /\ DOMAIN written = {"grant", "credentials", "vary"}
    BY <2>1, ApplyActualDecides DEF Vouched
  <2>3. CASE exchange.wrote
    <3>1. exchange' = [exchange EXCEPT !.wrote = TRUE, !.at = "sent"] /\ ~ exchange.vouched
      BY <1>11, <2>1, <2>3 DEF WriteHeader, At, Vouched, Fields
    <3>2. Vouched(exchange)'
      BY <2>1, <3>1 DEF Vouched, Sound, Fields
    <3> QED
      BY <1>11, <1>c, <3>2 DEF WriteHeader
  <2>4. CASE ~ exchange.wrote
    <3>1. exchange' = [exchange EXCEPT !.header = written, !.wrote = TRUE, !.at = "sent"]
      BY <1>11, <2>4 DEF WriteHeader
    <3>2. /\ exchange'.at = "sent" /\ exchange'.header = written
          /\ exchange'.request = exchange.request
      BY <2>1, <3>1 DEF Fields
    <3>3. Sound(exchange)'
      BY <1>a, <2>1, <2>2, <3>2 DEF Sound, Decided, AllowedOrigin
    <3>4. Vouched(exchange)'
      BY <2>2, <3>2, <3>3 DEF Vouched
    <3> QED
      BY <1>11, <1>c, <3>4 DEF WriteHeader
  <2> QED
    BY <2>3, <2>4
<1>12. CASE SendUnseen
  <2>1. Vouched(exchange) /\ DOMAIN exchange = Fields /\ exchange.request \in Requests
    BY <1>12, <1>d DEF SendUnseen, At, NoExchange
  <2>2. Vouched(exchange)'
    BY <1>12, <2>1 DEF SendUnseen, At, Vouched, Sound, Fields
  <2> QED
    BY <1>12, <1>c, <2>2 DEF SendUnseen
<1>13. CASE Deliver
  <2>1. Vouched(exchange) /\ exchange.request \in Requests /\ exchange.at = "sent"
    BY <1>13, <1>d DEF Deliver, At, NoExchange
  <2>2. Sound(Response)
    BY <2>1 DEF Vouched, Sound, Response
  <2> DEFINE sent == Response
  <2>3. Sound(sent)
    BY <2>2
  <2> HIDE DEF sent
  <2>4. \A response \in cache \cup {sent} : Sound(response)'
    BY <1>a, <2>3, SoundStays DEF GrantInv
  <2>5. /\ cache' \subseteq cache \cup {sent}
        /\ reading' = [by |-> exchange.request, fresh |-> TRUE, response |-> sent]
        /\ sent.request = exchange.request
        /\ exchange' = NoExchange
    BY <1>13 DEF Deliver, sent, Response
  <2>6. Honest(reading)'
    BY <2>1, <2>4, <2>5 DEF Honest
  <2> QED
    BY <1>a, <1>b, <2>4, <2>5, <2>6 DEF GrantInv
<1>14. CASE FromCache
  <2>1. PICK request \in Requests, response \in cache :
            /\ "Origin" \in response.header.vary => request.origin = response.request.origin
            /\ reading' = [by |-> request, fresh |-> FALSE, response |-> response]
    BY <1>14 DEF FromCache
  <2>2. Sound(response)'
    BY <1>a, <2>1, SoundStays DEF GrantInv
  <2>3. Honest(reading)'
    BY <2>1, <2>2 DEF Honest
  <2> QED
    BY <1>14, <1>a, <1>b, <2>3, SoundStays DEF FromCache, GrantInv, Vouched
<1>15. CASE UNCHANGED frontVars
  BY <1>a, <1>c, <1>15, SoundStays DEF frontVars, GrantInv, Vouched
<1> QED
  BY <1>1, <1>2, <1>3, <1>4, <1>5, <1>6, <1>7, <1>8, <1>9, <1>10, <1>11, <1>12, <1>13, <1>14, <1>15
     DEF FrontNext

LEMMA GrantInvSuffices == GrantInv => GrantsFollowThePolicy
<1> SUFFICES ASSUME GrantInv,
                    Honest(reading),
                    reading.by.origin # "",
                    reading.response.vouched,
                    reading.response.verdict \notin {"preflight", "forbidden"}
             PROVE  LET header == reading.response.header
                        origin == reading.by.origin
                    IN  /\ reading.fresh => (Readable(header, origin) <=> ConfiguredFor(origin))
                        /\ Readable(header, origin) => ConfiguredFor(origin)
                        /\ ReadableWithCredentials(header, origin) => origin \in Range(policy.origins)
                        /\ header.grant \in {None, Wildcard, origin}
  BY DEF GrantInv, GrantsFollowThePolicy
<1> DEFINE header == reading.response.header
           origin == reading.by.origin
           asked  == reading.response.request.origin
<1>1. PolicyInv /\ origin # None /\ None # Wildcard
  BY OriginsAssumption DEF GrantInv, Honest, None, Wildcard
<1>2. /\ header.grant = AllowedOrigin(asked)
      /\ header.credentials => header.grant # None /\ policy.credentials
      /\ header.grant \in {None, Wildcard} \/ "Origin" \in header.vary
  BY DEF Honest, Sound, Decided
<1>3. /\ reading.fresh => origin = asked
      /\ "Origin" \in header.vary => origin = asked
  BY DEF Honest
<1>4. \/ header.grant = None /\ ~ ConfiguredFor(asked)
      \/ /\ header.grant \in Range(policy.origins) \cap {Wildcard, asked}
         /\ header.grant # None
         /\ ConfiguredFor(asked)
  BY <1>1, <1>2, AllowedOriginLemma
<1> HIDE DEF header, origin, asked
<1>5. header.grant \in Range(policy.origins) /\ header.grant \in {Wildcard, origin}
      => ConfiguredFor(origin)
  BY DEF ConfiguredFor, origin
<1>6. header.grant \in {None, Wildcard, origin}
  BY <1>2, <1>3, <1>4
<1>7. Readable(header, origin) => ConfiguredFor(origin)
  BY <1>1, <1>4, <1>5 DEF Readable
<1>8. reading.fresh /\ ConfiguredFor(origin) => Readable(header, origin)
  BY <1>3, <1>4 DEF Readable
<1>9. ReadableWithCredentials(header, origin) => origin \in Range(policy.origins)
  BY <1>1, <1>2, <1>4 DEF ReadableWithCredentials, PolicyInv
<1> QED
  BY <1>6, <1>7, <1>8, <1>9 DEF header, origin

\* Whatever the policy, the middleware and the headers a handler sets, and
\* whatever a shared cache reuses: a browser reads a response the CORS writer
\* wrote exactly when the policy names its origin, and never by the grant or
\* the credentials of another one (applyActual, corsResponseWriter).
THEOREM GrantsFollowTheCORSPolicy == FrontSpec => []GrantsFollowThePolicy
  BY GrantInit, GrantNext, GrantInvSuffices, PTL DEF FrontSpec
=============================================================================
