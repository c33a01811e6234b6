---------------------------- MODULE MCRequestIntake ----------------------------
(***************************************************************************)
(* Schemes with an alias, with a blank name, and with an alias that says   *)
(* the same twice; credentials with each of these names, spelled in        *)
(* different ways, with a token, a blank one, or none; sessions with and   *)
(* without a token.                                                        *)
(***************************************************************************)
EXTENDS RequestIntake, TLC

MCFold == [Bearer |-> "bearer", BEARER |-> "bearer", Service |-> "service", svc |-> "svc",
           SVC |-> "svc", Key |-> "key", t |-> "t"]
          @@ [text \in {"", " "} |-> ""]

MCSchemeChoices ==
    {[bearer |-> "Key", service |-> " ", aliases |-> <<"svc", "", "SVC">>],
     [bearer |-> "", service |-> "svc", aliases |-> <<"Service", "svc">>]}

MCCredentials ==
    {NoCredential, [scheme |-> "Key", token |-> " "]}
    \cup [scheme : {"BEARER", "Service", "svc", "Key"}, token : {"", "t"}]

MCForwarded == {NoCredential, [scheme |-> " ", token |-> ""], [scheme |-> "SVC", token |-> "t"]}
=============================================================================
