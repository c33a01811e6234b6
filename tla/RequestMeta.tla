------------------------------ MODULE RequestMeta ------------------------------
(***************************************************************************)
(* The request_meta of a JSON body (request/meta.go).  A JSON value is a   *)
(* record with its kind in "json": "null", "number", "string" (text),      *)
(* "array" (items) or "object" (fields, a function from names to values).  *)
(* Parsing has a set of error codes, one of which is reported: the members *)
(* of a Go map are visited in any order.                                   *)
(***************************************************************************)
EXTENDS FiniteSets, Sequences, Naturals

CONSTANTS
    Trim,           \* each text without its leading and trailing spaces
    Segments        \* the names between the dots of each trimmed text that has
                    \* nothing but property names there

ASSUME SegmentsAssumption ==
    \A text \in DOMAIN Segments : Segments[text] \in Seq(STRING) /\ Segments[text] # <<>>

\* A member that is omitted or null has no effect.
Given(object, name) == name \in DOMAIN object.fields /\ object.fields[name].json # "null"

IsPropertyPath(text) == Trim[text] \in DOMAIN Segments

IsPropertyName(text) == IsPropertyPath(text) /\ Len(Segments[Trim[text]]) = 1

-----------------------------------------------------------------------------
\* json.Unmarshal into []string: null is no list, a null in it no text.
IsTexts(raw) ==
    raw.json = "null" \/ (raw.json = "array" /\ \A i \in DOMAIN raw.items :
                                                   raw.items[i].json \in {"string", "null"})

Texts(raw) ==
    IF raw.json = "null" THEN <<>>
    ELSE [i \in DOMAIN raw.items |->
            IF raw.items[i].json = "null" THEN "" ELSE raw.items[i].text]

\* definePropertyProjection
DefinesProjection(texts) ==
    /\ \A i \in DOMAIN texts : IsPropertyPath(texts[i])
    /\ Cardinality({Trim[texts[i]] : i \in DOMAIN texts}) = Len(texts)

Mode(selection) == CHOOSE mode \in {"pick", "omit"} : mode \in DOMAIN selection.fields

\* parseResourceProjection
SelectionErrors(resource, selection) ==
    LET modes == {"pick", "omit"} \cap DOMAIN selection.fields
        paths == selection.fields[Mode(selection)]
    IN IF ~ IsPropertyName(resource) THEN {"invalid"}
       ELSE IF selection.json # "object" THEN {"type_mismatch"}
       ELSE IF ~ (DOMAIN selection.fields \subseteq {"pick", "omit"}) THEN {"unexpected"}
       ELSE IF Cardinality(modes) = 2 THEN {"mutually_exclusive"}
       ELSE IF modes = {} THEN {"required_choice"}
       ELSE IF ~ IsTexts(paths) THEN {"type_mismatch"}
       ELSE IF Texts(paths) = <<>> THEN {"too_small"}
       ELSE IF ~ DefinesProjection(Texts(paths)) THEN {"invalid"}
       ELSE {}

\* parseProjection, and defineResponseProjection: names are compared trimmed.
ProjectionErrors(projection) ==
    LET resources == DOMAIN projection.fields
        errors == UNION {SelectionErrors(name, projection.fields[name]) : name \in resources}
    IN IF errors # {} THEN errors
       ELSE IF Cardinality({Trim[name] : name \in resources}) < Cardinality(resources)
       THEN {"invalid"}
       ELSE {}

ParseResponse(response) ==
    IF response.json # "object" THEN {"type_mismatch"}
    ELSE IF ~ Given(response, "projection") THEN {}
    ELSE IF response.fields["projection"].json # "object" THEN {"type_mismatch"}
    ELSE ProjectionErrors(response.fields["projection"])

\* parseMeta: first the key, then the preferences.
ParseMeta(meta) ==
    IF meta.json = "null" THEN {}
    ELSE IF meta.json # "object" THEN {"type_mismatch"}
    ELSE IF Given(meta, "idempotency_key") /\ meta.fields["idempotency_key"].json # "string"
    THEN {"type_mismatch"}
    ELSE IF Given(meta, "response") THEN ParseResponse(meta.fields["response"])
    ELSE {}

\* decodeEnvelope: a body that says nothing of request_meta is left alone.
PrepareMetaErrors(body) ==
    IF body.json \in {"blank", "plain"} THEN {}
    ELSE IF body.json # "object" THEN {"invalid_body"}
    ELSE ParseMeta(body.fields["request_meta"])

-----------------------------------------------------------------------------
\* What is asked for in a body that has no error: by resource, a mode and the
\* paths, as sequences of names.
NoProjection == <<>>

ProjectionOf(body) ==
    IF body.json # "object" \/ body.fields["request_meta"].json = "null"
          \/ ~ Given(body.fields["request_meta"], "response")
          \/ ~ Given(body.fields["request_meta"].fields["response"], "projection")
    THEN NoProjection
    ELSE LET wire == body.fields["request_meta"].fields["response"].fields["projection"]
         IN [resource \in {Trim[name] : name \in DOMAIN wire.fields} |->
               LET name == CHOOSE n \in DOMAIN wire.fields : Trim[n] = resource
                   selection == wire.fields[name]
                   texts == Texts(selection.fields[Mode(selection)])
               IN [mode |-> Mode(selection),
                   paths |-> {Segments[Trim[texts[i]]] : i \in DOMAIN texts}]]
=============================================================================
