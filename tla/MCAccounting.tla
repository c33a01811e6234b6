----------------------------- MODULE MCAccounting -----------------------------
(***************************************************************************)
(* One kind of usage and one that is not valid; the recorders of a request *)
(* and of two jobs, which it starts or in the context of which it is       *)
(* served.                                                                 *)
(***************************************************************************)
EXTENDS Accounting

Usage(quantity) == [identified |-> TRUE, quantity |-> quantity, labelled |-> TRUE]

MCUnits == {Usage(1), Usage(0)}
=============================================================================
