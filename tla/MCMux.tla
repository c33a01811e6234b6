-------------------------------- MODULE MCMux --------------------------------
(***************************************************************************)
(* Two groups over a handful of paths: "/x" and "/y" are different paths   *)
(* whose wildcards overlap, and the prefix of the second group makes its   *)
(* "/a" the path "/v/a" the first group may mount directly.  "/a/" is a     *)
(* path of its own for a ServeMux, and the path "/a" in a document; the    *)
(* alias "/y" declares the identifier "/a" gets when it declares none.     *)
(***************************************************************************)
EXTENDS MuxDocuments

CONSTANTS public, admin

MCGroups == {1, 2}
MCPaths == {"/a", "/v/a", "/x", "/y", "/a/"}

MCMountedPath == [p \in MCGroups \X MCPaths |->
                     IF p[1] = 1 THEN p[2] ELSE IF p[2] = "/a" THEN "/v/a" ELSE "/v" \o p[2]]

MCFullPaths == {MCMountedPath[p] : p \in MCGroups \X MCPaths}
MCDocumentPath == [path \in MCFullPaths |-> CASE path = "/a/" -> "/a"
                                               [] path = "/v/a/" -> "/v/a"
                                               [] OTHER -> path]
MCDefaultID == [p \in {"GET", "PATCH"} \X MCFullPaths |->
                   IF p = <<"GET", "/a">> THEN "get_a" ELSE p[1] \o p[2]]
MCDeclaredID == [path \in MCPaths |-> IF path = "/y" THEN "get_a" ELSE "none"]

MCOverlapping == {{"/x", "/y"}}
MCForeignKeys == {<<"GET", "/y">>, <<"GET", "/v/a">>}

Plain == [method |-> "GET", path |-> "/a", aliases |-> <<>>,
          handlers |-> {"Respond"}, internal |-> FALSE, auth |-> "none",
          callers |-> <<>>, timeout |-> 0, backend |-> "none"]

MCSpecs == {Plain,
            [Plain EXCEPT !.path = "/x", !.aliases = <<"/y", "/a/">>],
            [Plain EXCEPT !.path = "/v/a", !.auth = "service", !.callers = <<public, admin>>,
                          !.timeout = 1],
            [Plain EXCEPT !.method = "PATCH"],
            [Plain EXCEPT !.handlers = {"Handler", "Respond"}]}

MCBatches == {<<1>>, <<2>>, <<1, 2>>}
=============================================================================
