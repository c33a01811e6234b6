------------------------------ MODULE ParamParser ------------------------------
(***************************************************************************)
(* Requests are parsed with one definition, as a program makes it at its   *)
(* start (param/doc.go).  Parsing writes to the definition: an object      *)
(* makes the index of its parameters again for every request (object.go:   *)
(* 112-131), and a list of variants makes its own when it is first used    *)
(* (discriminator.go:122-140).  Requests that are parsed at the same time  *)
(* share the index, and nothing locks it.                                  *)
(***************************************************************************)
EXTENDS ParamContract

CONSTANTS
    Workers,        \* the requests that are parsed at the same time
    Definitions,    \* the shapes a program may give its request bodies
    Bodies          \* the bodies that arrive: values, and text that is none

Empty == [json |-> "object", fields |-> <<>>]

ASSUME BodiesAssumption ==
    /\ \A shape \in Definitions : shape \in Shapes /\ shape.kind \in {"object", "variants"}
    /\ \A body \in Bodies \cup {Empty} : body.json = "object" => body \in Values

VARIABLES
    definition,     \* the definition the workers parse with
    index,          \* the names it looks up: nothing, or a set
    workers         \* what each worker does

vars == <<definition, index, workers>>

NoIndex == [built |-> FALSE, names |-> {}]
None == [kind |-> "none"]
Panicked == [kind |-> "panicked"]
Idle == [step |-> "idle", body |-> Empty, caller |-> NoCaller, next |-> 1, outcome |-> None]

\* What an object, or a list of variants, puts in its index, in order.
Entries(shape) ==
    IF shape.kind = "object" THEN [i \in DOMAIN shape.params |-> shape.params[i].name]
    ELSE [i \in DOMAIN shape.variants |-> shape.variants[i].value]

\* A definition is there once its builder returned: an object has its index.
Init ==
    /\ definition \in {shape \in Definitions : Defines(shape)}
    /\ index = IF definition.kind = "object"
               THEN [built |-> TRUE, names |-> Declared(definition)]
               ELSE NoIndex
    /\ workers = [w \in Workers |-> Idle]

Step(w, from, to) ==
    /\ workers[w].step = from
    /\ workers' = [workers EXCEPT ![w].step = to]

End(w, from, outcome) ==
    /\ workers[w].step = from
    /\ workers' = [workers EXCEPT ![w].step = "done", ![w].outcome = outcome]

\* Ends with no error, or with any one of them.
Report(w, from, errors) ==
    \/ errors = {} /\ End(w, from, [kind |-> "accepted"])
    \/ \E error \in errors : End(w, from, [kind |-> "rejected", error |-> error])

Receive(w, body, caller) ==
    /\ workers[w].step = "idle"
    /\ workers' = [workers EXCEPT ![w] = [Idle EXCEPT !.step = "decode", !.body = body,
                                                      !.caller = caller]]
    /\ UNCHANGED <<definition, index>>

\* decodeInput: no text is an empty object.
DecodeBody(w) ==
    LET body == workers[w].body
    IN /\ workers[w].step = "decode"
       /\ \/ /\ body.json = "blank"
             /\ workers' = [workers EXCEPT ![w].step = "normalize", ![w].body = Empty]
          \/ body.json = "object" /\ Step(w, "decode", "normalize")
          \/ /\ body.json \notin {"blank", "object"}
             /\ Report(w, "decode", Under("request_body", Fail("invalid_body")))
       /\ UNCHANGED <<definition, index>>

\* The first thing normalize does: an empty index, unless it has one to keep.
\* A list of no variants panics each time.
ResetIndex(w) ==
    /\ UNCHANGED definition
    /\ IF definition.kind = "variants" /\ Len(definition.variants) = 0
       THEN End(w, "normalize", Panicked) /\ UNCHANGED index
       ELSE IF definition.kind = "object" \/ ~ index.built
       THEN Step(w, "normalize", "insert") /\ index' = [built |-> TRUE, names |-> {}]
       ELSE Step(w, "normalize", "check") /\ UNCHANGED index

\* Then one entry after the other goes into whatever index is there.
InsertName(w) ==
    LET next == workers[w].next
        entries == Entries(definition)
    IN /\ UNCHANGED definition
       /\ \/ /\ next > Len(entries)
             /\ Step(w, "insert", IF definition.kind = "object" THEN "rules" ELSE "check")
             /\ UNCHANGED index
          \/ /\ next <= Len(entries) /\ entries[next] \in index.names
             /\ End(w, "insert", Panicked)
             /\ UNCHANGED index
          \/ /\ next <= Len(entries) /\ entries[next] \notin index.names
             /\ workers[w].step = "insert"
             /\ index' = [index EXCEPT !.names = @ \cup {entries[next]}]
             /\ workers' = [workers EXCEPT ![w].next = next + 1]

\* The names of the rules must be in the index.
CheckRules(w) ==
    /\ workers[w].step = "rules"
    /\ IF \A i \in DOMAIN definition.rules : definition.rules[i].names \subseteq index.names
       THEN Step(w, "rules", "check")
       ELSE End(w, "rules", Panicked)
    /\ UNCHANGED <<definition, index>>

\* The fields, or the variant, are looked up in the index. Definitions nested
\* in this one rebuild an index of their own: those are taken as whole here.
Parse(w) ==
    /\ workers[w].step = "check"
    /\ Report(w, "check", ParseBody(definition, index.names,
                                    workers[w].body.fields, workers[w].caller))
    /\ UNCHANGED <<definition, index>>

\* The parser returns, or its panic is recovered.
Return(w) ==
    /\ workers[w].step = "done"
    /\ workers' = [workers EXCEPT ![w] = Idle]
    /\ UNCHANGED <<definition, index>>

Next ==
    \E w \in Workers :
        \/ \E body \in Bodies, caller \in Calling : Receive(w, body, caller)
        \/ DecodeBody(w)
        \/ ResetIndex(w)
        \/ InsertName(w)
        \/ CheckRules(w)
        \/ Parse(w)
        \/ Return(w)

Spec == Init /\ [][Next]_vars

-----------------------------------------------------------------------------
Parsed(w) == workers[w].step = "done" /\ workers[w].body.json = "object"

\* A list of variants is looked at when it is first used, and panics if it has
\* none or its values are not distinct: what it does from then on is left out.
WellFormed ==
    \A part \in Parts[definition] : part.kind = "variants" => NormalizesVariants(part)

\* A request is accepted just when its body satisfies the contract that its
\* caller sees, where nothing can be sent for a parameter hidden from it
\* (doc.go:41-44); and a request that is parsed alone never panics.
AcceptsTheVisibleContract ==
    WellFormed => \A w \in Workers : Parsed(w) =>
        /\ workers[w].outcome # Panicked
        /\ workers[w].outcome.kind = "accepted" <=>
                Satisfies[<<definition, workers[w].body, workers[w].caller>>]

\* An error names the places it is about (error.go:66-73, rule.go:116-128): a
\* parameter that is missing is not there, is null or is blank; of the names of a
\* choice that is required one is not there or is null, and of the names of one
\* that excludes another two are there; everything else is there.  The variants
\* do not ask for the discriminator again, which is stripped.
ErrorsAreInPlace ==
    OmitsDiscriminator(definition) =>
        \A w \in Workers : Parsed(w) /\ workers[w].outcome.kind = "rejected" =>
            InPlace(workers[w].body, workers[w].outcome.error)

\* A parse has the result its body has, and does not depend on the other
\* requests: "A typical endpoint parser is defined once at package
\* initialization", and "Parsing either returns a complete, domain-ready value
\* or an Error explaining the first unacceptable parameter" (doc.go:48, 7-9).
ParsesAreIndependent ==
    WellFormed => \A w \in Workers : Parsed(w) =>
        LET errors == ParseBody(definition, Declared(definition),
                                workers[w].body.fields, workers[w].caller)
        IN workers[w].outcome \in
               IF errors = {} THEN {[kind |-> "accepted"]}
               ELSE {[kind |-> "rejected", error |-> error] : error \in errors}
=============================================================================
