----------------------------- MODULE PackageConfig -----------------------------
(***************************************************************************)
(* A package-level setting (ConfigureCompletionSink, ConfigureAuditSink,   *)
(* ConfigureAuthenticator, ConfigureContextAnnotator, ...; all have one    *)
(* shape).  Configure installs a value and returns a closure that puts     *)
(* back what it replaced.  The closures may be called in any order, and    *)
(* while requests read the setting.                                        *)
(***************************************************************************)
EXTENDS Integers, Sequences

CONSTANTS
    Values,         \* what an application installs
    Default         \* what the package starts with, and nil stands for

VARIABLES
    current,        \* the setting
    overrides,      \* every call of Configure, with what its closure holds
    nested          \* history: each closure was called once, the latest first

configVars == <<current, overrides, nested>>

ConfigTypeOK ==
    /\ current \in Values \cup {Default}
    /\ overrides \in Seq([value : Values \cup {Default},
                          previous : Values \cup {Default}, restored : BOOLEAN])
    /\ nested \in BOOLEAN

ConfigInit == current = Default /\ overrides = <<>> /\ nested = TRUE

Configure(value) ==
    /\ current' = value
    /\ overrides' = Append(overrides, [value |-> value, previous |-> current, restored |-> FALSE])
    /\ UNCHANGED nested

Open == {i \in DOMAIN overrides : ~ overrides[i].restored}

\* The latest override that is still open.
Innermost(i) == i \in Open /\ \A j \in Open : j <= i

\* Mutant: a closure puts back the default.
RestoreDefault(i) ==
    /\ current' = Default
    /\ overrides' = [overrides EXCEPT ![i].restored = TRUE]
    /\ nested' = (nested /\ Innermost(i))

Restore(i) ==
    /\ current' = overrides[i].previous
    /\ overrides' = [overrides EXCEPT ![i].restored = TRUE]
    /\ nested' = (nested /\ Innermost(i))

Reconfigure ==
    \/ \E value \in Values \cup {Default} : Configure(value)
    \/ \E i \in DOMAIN overrides : Restore(i)

\* Overrides that end in the order they nest leave no trace ("a restore
\* function for tests and short-lived overrides"): in force is the innermost
\* one still open, or the default.
NestedOverridesEnd ==
    nested => /\ Open = {} => current = Default
              /\ \A i \in Open : Innermost(i) => current = overrides[i].value
=============================================================================
