------------------------------ MODULE MCHttpFront ------------------------------
(***************************************************************************)
(* Two origins, one of which some configurations name, with the wildcard   *)
(* before and after it; bodies around the limit, with a declared length    *)
(* and chunked.                                                            *)
(***************************************************************************)
EXTENDS HttpFront

MCConfigs ==
    [origins : {<<>>, <<"a">>, <<"a", "*">>, <<"", "*", "a">>}, methods : {<<"PUT">>, <<"*">>},
     headers : {<<"h">>}, credentials : BOOLEAN]

MCStacks == {<<>>, <<"nil", "middleware", "nil">>, <<"middleware", "middleware">>}

Plain(method, origin) ==
    [origin |-> origin, method |-> method, asks |-> "", headers |-> {},
     head |-> 2, declared |-> 0, listed |-> FALSE, body |-> 0]

Preflights ==
    {[Plain("OPTIONS", "a") EXCEPT !.asks = method, !.headers = headers] :
        method \in {"PUT", "GET"}, headers \in {{}, {"h"}, {"x"}}}

Posts ==
    {[Plain("POST", "a") EXCEPT !.head = 4, !.declared = n, !.listed = TRUE, !.body = n] : n \in 0..3}
    \cup {[Plain("POST", "b") EXCEPT !.head = 5, !.declared = Chunked, !.body = n] : n \in 0..3}

MCRequests ==
    {Plain("GET", origin) : origin \in {"", "a", "b"}}
    \cup {[Plain("GET", "a") EXCEPT !.head = head] : head \in 3..7}
    \cup Preflights \cup Posts
=============================================================================
