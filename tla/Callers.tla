------------------------------- MODULE Callers -------------------------------
(***************************************************************************)
(* Caller labels (caller/): allow-lists of callers, and the policy that    *)
(* says as which narrower caller a response may be projected.  An          *)
(* undefined caller is NoCaller; it is never a member of a restricted set. *)
(***************************************************************************)
EXTENDS FiniteSets, Sequences
LOCAL INSTANCE Graphs

CONSTANTS
    Caller,         \* the labels an application defines
    NoCaller        \* the zero Caller

ASSUME NoCallerAssumption == NoCaller \notin Caller

(***************************************************************************)
(* A Set restricts callers or allows every one.  A restricted set may be   *)
(* empty: it comes out of an intersection, never out of a declaration.     *)
(***************************************************************************)
CallerSets == [restricted : BOOLEAN, callers : SUBSET Caller]

Unrestricted == [restricted |-> FALSE, callers |-> {}]

\* An empty list of callers declares no restriction.
SetOf(callers) == IF callers = {} THEN Unrestricted
                  ELSE [restricted |-> TRUE, callers |-> callers]

Allows(set, caller) == set.restricted => caller \in set.callers

Intersect(set, other) ==
    IF ~ set.restricted THEN other
    ELSE IF ~ other.restricted THEN set
    ELSE [restricted |-> TRUE, callers |-> set.callers \cap other.callers]

(***************************************************************************)
(* A projection policy is built from rules <<from, to>>, given as a        *)
(* sequence: an undefined end, a loop, a duplicate or a cycle panics.      *)
(***************************************************************************)
Edges(rules) == {rules[i] : i \in DOMAIN rules}

\* What collectDescendants reaches from a caller, along any path of rules.
Narrower(rules, caller) ==
    Descendants([node |-> Caller, edge |-> Edges(rules)], caller)

Acyclic(rules) == \A caller \in Caller : caller \notin Narrower(rules, caller)

DefinesPolicy(rules) ==
    /\ \A i \in DOMAIN rules : /\ rules[i] \in Caller \X Caller
                               /\ rules[i][1] # rules[i][2]
    /\ Cardinality(Edges(rules)) = Len(rules)
    /\ Acyclic(rules)

\* The caller a response is projected as, or why it may not be.
Resolve(rules, granted, requested) ==
    IF granted = NoCaller THEN "undefined"
    ELSE IF requested \in {NoCaller, granted} THEN granted
    ELSE IF requested \in Narrower(rules, granted) THEN requested
    ELSE "elevation"
=============================================================================
