--------------------------- MODULE RequestLifecycle ---------------------------
(***************************************************************************)
(* What the endpoint runtime promises the two parties watching a request   *)
(* (spec/v0.2.md, section 10).  The client is sent at most one response    *)
(* head, and exactly one when the connection is handed back; the request   *)
(* is audited once, and completed once after that, both of them only when  *)
(* nothing more will be sent.                                              *)
(***************************************************************************)
VARIABLES
    answer,     \* "none", or "sent" once a response head is on the wire
    audited,    \* the audit sink was given the request
    completed,  \* the completion sink was given the completion
    fate        \* of the connection: "open", "returned" or "aborted"

vars == <<answer, audited, completed, fate>>

Init ==
    /\ answer = "none"
    /\ audited = FALSE
    /\ completed = FALSE
    /\ fate = "open"

Answer ==
    /\ answer = "none"
    /\ ~audited
    /\ answer' = "sent"
    /\ UNCHANGED <<audited, completed, fate>>

Audit ==
    /\ ~audited
    /\ audited' = TRUE
    /\ UNCHANGED <<answer, completed, fate>>

\* The audit sink itself fails so badly that the request ends there.
AuditAborts ==
    /\ ~audited
    /\ audited' = TRUE
    /\ fate' = "aborted"
    /\ UNCHANGED <<answer, completed>>

Complete ==
    /\ audited
    /\ fate = "open"
    /\ completed' = TRUE
    /\ \/ /\ answer = "sent"
          /\ fate' = "returned"
       \/ fate' = "aborted"
    /\ UNCHANGED <<answer, audited>>

Next == Answer \/ Audit \/ AuditAborts \/ Complete

Spec == Init /\ [][Next]_vars
=============================================================================
