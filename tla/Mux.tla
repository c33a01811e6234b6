---------------------------------- MODULE Mux ----------------------------------
(***************************************************************************)
(* An application sets its endpoint groups up and mounts them (endpoint/   *)
(* mux.go, runtime.go, runtime_metadata.go).  It may configure a group     *)
(* before and after it adds endpoints, add one endpoint to two groups,     *)
(* mount groups one by one or together, go on after a Mount that failed or *)
(* panicked, and register patterns of its own on the ServeMux it passed.   *)
(*                                                                         *)
(* The Mux keeps the header of a mounted group and the slice of its        *)
(* endpoints.  The slice is still that of the application's group, until   *)
(* an Add has to reallocate it: setters of the group write through it.     *)
(***************************************************************************)
EXTENDS EndpointGroups, SequencesExt

CONSTANTS
    Groups,         \* the groups of an application
    Specs,          \* the endpoint declarations it has
    Batches,        \* the sequences of groups it passes to one Mount
    AuthKinds,      \* the authorizations it requires of its groups
    ForeignKeys,    \* the patterns it registers on the ServeMux itself
    MountedPath,    \* the full path of a path in a group (mountedEndpointPath)
    Overlapping,    \* pairs {p, q} of full paths where neither is more specific
    MaxMembers,     \* bound: endpoints in a group
    MaxCalls        \* bound: calls the application makes

ASSUME SpecsAssumption == Specs \subseteq EndpointSpecs
ASSUME BatchesAssumption == Batches \subseteq Seq(Groups)
ASSUME AuthKindsAssumption == AuthKinds \subseteq Authorizations \ {"none"}
ASSUME MountedPathAssumption == DOMAIN MountedPath = Groups \X Paths
ASSUME BoundsAssumption == MaxMembers \in Nat /\ MaxCalls \in Nat

VARIABLES
    header,         \* the defaults of each EndpointGroup
    members,        \* EndpointGroup.Endpoints
    served,         \* the patterns of the ServeMux, with the handler of each
    routes,         \* Mux.routes
    mounted,        \* Mux.mounted
    documents,      \* Mux.groups
    last,           \* how the last Mount ended, and the key it stopped at
    halted,         \* history: the keys of Mounts that panicked after them
    calls           \* history: the calls made so far

groupVars == <<header, members>>
muxVars == <<routes, mounted, halted>>
vars == <<header, members, served, routes, mounted, documents, last, halted, calls>>

NoKey == <<>>
Empty == [internal |-> FALSE, auth |-> "none", callers |-> {},
          timeout |-> NoTimeout, backend |-> NoBackend]

Init ==
    /\ header = [g \in Groups |-> Empty]
    /\ members = [g \in Groups |-> <<>>]
    /\ served = <<>>
    /\ routes = <<>>
    /\ mounted = <<>>
    /\ documents = <<>>
    /\ last = [outcome |-> "none", key |-> NoKey]
    /\ halted = {}
    /\ calls = 0

Call == calls < MaxCalls /\ calls' = calls + 1

(***************************************************************************)
(* The setters of a group write its header, then every endpoint it has,    *)
(* and rebuild the wrapper of each.                                        *)
(***************************************************************************)
Configure(g, field, value, endpoints) ==
    /\ Call
    /\ header' = [header EXCEPT ![g][field] = value]
    /\ members' = [members EXCEPT ![g] = [i \in DOMAIN endpoints |-> Rebuilt(endpoints[i])]]
    /\ UNCHANGED <<served, muxVars, documents, last>>

MarkInternal(g) ==
    Configure(g, "internal", TRUE,
              [i \in DOMAIN members[g] |-> [members[g][i] EXCEPT !.internal = TRUE]])

RequireAuthorization(g, auth) ==
    Configure(g, "auth", auth,
              [i \in DOMAIN members[g] |-> InheritAuth(members[g][i], auth)])

AvailableTo(g, callers) ==
    /\ callers # {}
    /\ Configure(g, "callers", callers,
                 [i \in DOMAIN members[g] |->
                     [members[g][i] EXCEPT !.groupCallers = SetOf(callers)]])

ConfigureTimeoutSpec(g, timeout) ==
    Configure(g, "timeout", timeout,
              [i \in DOMAIN members[g] |-> InheritTimeout(members[g][i], timeout)])

\* Writes the header alone.
ConfigureRouteBackend(g, backend) ==
    /\ Call
    /\ header' = [header EXCEPT ![g].backend = backend]
    /\ UNCHANGED <<members, served, muxVars, documents, last>>

(***************************************************************************)
(* Add appends to the slice of the group: in place, which a Mux that holds *)
(* the same array does not see, or in a new array, after which the Mux     *)
(* holds the old one as it is.                                             *)
(***************************************************************************)
Detached(g) ==
    [i \in DOMAIN documents |->
        IF documents[i].group = g /\ documents[i].shared
        THEN [documents[i] EXCEPT !.shared = FALSE,
                                  !.endpoints = SubSeq(members[g], 1, documents[i].count)]
        ELSE documents[i]]

Append_(g, endpoint) ==
    /\ Len(members[g]) < MaxMembers
    /\ Call
    /\ members' = [members EXCEPT ![g] =
                       Append(@, EndpointWithGroupMetadata(header[g], endpoint))]
    /\ documents' \in {documents, Detached(g)}
    /\ UNCHANGED <<header, served, muxVars, last>>

\* An endpoint the application just defined: a bad declaration panics before.
Add(g, spec) == Defines(spec) /\ Append_(g, DefineEndpoint(spec))

\* An endpoint that is already in a group.
AddAgain(g, h, i) == i \in DOMAIN members[h] /\ Append_(g, members[h][i])

(***************************************************************************)
(* What a group mounts: each resolved endpoint at its path, then at each   *)
(* of its aliases.                                                         *)
(***************************************************************************)
ResolvedEndpoints(g) ==
    [i \in DOMAIN members[g] |-> EndpointWithGroupMetadata(header[g], members[g][i])]

MountedEndpoint(g, endpoint, path) ==
    [method |-> endpoint.declared.method, path |-> MountedPath[g, path],
     endpoint |-> endpoint, header |-> header[g]]

\* Mutant: the aliases are documented and not mounted.
MountedWithoutAliases(g, endpoint) ==
    <<MountedEndpoint(g, endpoint, endpoint.declared.path)>>

MountedEndpoints(g, endpoint) ==
    LET paths == <<endpoint.declared.path>> \o endpoint.declared.aliases
    IN [i \in DOMAIN paths |-> MountedEndpoint(g, endpoint, paths[i])]

MountedEndpointsForGroup(g) ==
    LET resolved == ResolvedEndpoints(g)
    IN FlattenSeq([i \in DOMAIN resolved |-> MountedEndpoints(g, resolved[i])])

Prepared(batch) ==
    FlattenSeq([i \in DOMAIN batch |-> MountedEndpointsForGroup(batch[i])])

MuxRouteKey(mount) == <<mount.method, mount.path>>

\* Mutant: only the batch is searched for duplicates.
DuplicatesInBatch(prepared) ==
    {i \in DOMAIN prepared :
        \E j \in 1 .. i - 1 : MuxRouteKey(prepared[j]) = MuxRouteKey(prepared[i])}

\* The places of a batch whose key the Mux has, or had before in the batch.
Duplicates(prepared) ==
    {i \in DOMAIN prepared :
        \/ MuxRouteKey(prepared[i]) \in DOMAIN routes
        \/ \E j \in 1 .. i - 1 : MuxRouteKey(prepared[j]) = MuxRouteKey(prepared[i])}

\* ServeMux refuses a pattern it has, or one that overlaps one it has.
Clash(key, other) ==
    /\ key[1] = other[1]
    /\ \/ key[2] = other[2]
       \/ {key[2], other[2]} \in Overlapping

\* The places HandleFunc panics at, were everything before them registered.
Conflicts(prepared) ==
    {i \in DOMAIN prepared :
        LET key == MuxRouteKey(prepared[i])
        IN \/ \E other \in DOMAIN served : Clash(key, other)
           \/ \E j \in 1 .. i - 1 : Clash(key, MuxRouteKey(prepared[j]))}

Registry(prepared) ==
    [key \in {MuxRouteKey(prepared[i]) : i \in DOMAIN prepared} |->
        prepared[CHOOSE i \in DOMAIN prepared : MuxRouteKey(prepared[i]) = key]]

\* A map with entries added to it.
Put(entries, map) ==
    [key \in DOMAIN entries \cup DOMAIN map |->
        IF key \in DOMAIN entries THEN entries[key] ELSE map[key]]

Handlers(registry) == [key \in DOMAIN registry |-> registry[key].endpoint.handler]

\* Mutant: the registry keeps the last batch only.
RegisterAfresh(prepared) ==
    /\ served' = Put(Handlers(Registry(prepared)), served)
    /\ routes' = Put(Registry(prepared), routes)
    /\ mounted' = prepared

\* Mutant: the registry keeps the latest batch in front.
RegisterInFront(prepared) ==
    /\ served' = Put(Handlers(Registry(prepared)), served)
    /\ routes' = Put(Registry(prepared), routes)
    /\ mounted' = prepared \o mounted

\* registerPrepared, up to the pattern that does not go in, if there is one.
Register(prepared) ==
    /\ served' = Put(Handlers(Registry(prepared)), served)
    /\ routes' = Put(Registry(prepared), routes)
    /\ mounted' = mounted \o prepared

Snapshot(g) == [group |-> g, header |-> header[g],
                count |-> Len(members[g]), shared |-> TRUE, endpoints |-> <<>>]

Mount(batch) ==
    LET prepared == Prepared(batch)
        duplicates == Duplicates(prepared)
        conflicts == Conflicts(prepared)
    IN /\ Call
       /\ \/ /\ duplicates # {}
             /\ last' = [outcome |-> "duplicate", key |-> MuxRouteKey(prepared[Min(duplicates)])]
             /\ UNCHANGED <<served, muxVars, documents>>
          \/ /\ duplicates = {} /\ conflicts # {}
             /\ last' = [outcome |-> "panicked", key |-> MuxRouteKey(prepared[Min(conflicts)])]
             /\ LET begun == SubSeq(prepared, 1, Min(conflicts) - 1)
                IN /\ Register(begun)
                   /\ halted' = halted \cup {MuxRouteKey(begun[i]) : i \in DOMAIN begun}
             /\ UNCHANGED documents
          \/ /\ duplicates = {} /\ conflicts = {}
             /\ last' = [outcome |-> "mounted", key |-> NoKey]
             /\ Register(prepared)
             /\ documents' = documents \o [i \in DOMAIN batch |-> Snapshot(batch[i])]
             /\ UNCHANGED halted
       /\ UNCHANGED groupVars

\* The application, or a second Mux over the same ServeMux, registers a pattern.
HandleElsewhere(key) ==
    /\ Call
    /\ \A other \in DOMAIN served : ~ Clash(key, other)
    /\ served' = Put([foreign \in {key} |-> NoHandler], served)
    /\ UNCHANGED <<groupVars, muxVars, documents, last>>

Next ==
    \/ \E g \in Groups :
        \/ MarkInternal(g)
        \/ \E auth \in AuthKinds : RequireAuthorization(g, auth)
        \/ \E callers \in SUBSET Caller : AvailableTo(g, callers)
        \/ \E timeout \in Timeouts : ConfigureTimeoutSpec(g, timeout)
        \/ \E backend \in Backends : ConfigureRouteBackend(g, backend)
        \/ \E spec \in Specs : Add(g, spec)
        \/ \E h \in Groups, i \in 1 .. MaxMembers : AddAgain(g, h, i)
    \/ \E batch \in Batches : Mount(batch)
    \/ \E key \in ForeignKeys : HandleElsewhere(key)

Spec == Init /\ [][Next]_vars

-----------------------------------------------------------------------------
\* The endpoints a mounted group documents (Mux.Groups, ResolvedEndpoints).
Documented(document) ==
    LET endpoints == IF document.shared
                     THEN SubSeq(members[document.group], 1, document.count)
                     ELSE document.endpoints
    IN [i \in DOMAIN endpoints |-> EndpointWithGroupMetadata(document.header, endpoints[i])]

\* The keys of an endpoint that a document describes.
Keys(document, endpoint) ==
    {<<endpoint.declared.method, MountedPath[document.group, path]>> :
        path \in {endpoint.declared.path} \cup ToSet(endpoint.declared.aliases)}

TypeOK ==
    /\ header \in [Groups -> Headers]
    /\ \A g \in Groups : \A i \in DOMAIN members[g] :
          /\ members[g][i].declared \in Specs
          /\ members[g][i].callers \in CallerSets
          /\ members[g][i].groupCallers \in CallerSets
          /\ members[g][i].authInherited => members[g][i].auth # "none"
          /\ members[g][i].timeoutInherited => members[g][i].timeout # NoTimeout
    /\ DOMAIN routes \subseteq DOMAIN served
    /\ last.outcome \in {"none", "mounted", "duplicate", "panicked"}
    /\ calls \in 0 .. MaxCalls

\* The registry of the Mux (mux.go:14-15) says what its ServeMux serves, in
\* the order it was registered and each key once, whatever Mounts failed or
\* panicked half-way (registerPrepared, mux.go:192-210).
RegistryMatchesServer ==
    /\ \A key \in DOMAIN served :
          IF key \in DOMAIN routes THEN served[key] = routes[key].endpoint.handler
          ELSE served[key] = NoHandler
    /\ Len(mounted) = Cardinality(DOMAIN routes)
    /\ \A i \in DOMAIN mounted : routes[MuxRouteKey(mounted[i])] = mounted[i]

\* What an endpoint is served with is what it declares and, where it declares
\* nothing, what its group said when it was mounted: in whatever order the
\* setters and Add were called, and through whatever groups it came
\* (endpointWithGroupMetadata, runtime_metadata.go:127-160).  A group does
\* not widen its callers, and what it requires is required.
ServedAsDeclared ==
    \A key \in DOMAIN routes :
        LET spec == routes[key].endpoint.declared
            group == routes[key].header
            handler == served[key]
        IN /\ spec.internal \/ group.internal => handler.internal
           /\ spec.auth # "none" => handler.auth = spec.auth
           /\ spec.auth = "none" /\ group.auth # "none" => handler.auth = group.auth
           /\ handler.timeout = IF spec.timeout # NoTimeout THEN spec.timeout ELSE group.timeout
           /\ \A caller \in Caller \cup {NoCaller} :
                 Allows(handler.callers, caller) <=>
                     /\ Allows(AsSet(spec.callers), caller)
                     /\ Allows(SetOf(group.callers), caller)

\* The wrapper of an endpoint in a group enforces the policy the endpoint
\* has: no setter leaves a wrapper built from an older one
\* (withRebuiltHandler, runtime.go:316-319).
HandlerIsCurrent ==
    \A g \in Groups : \A i \in DOMAIN members[g] :
        members[g][i].handler = HttpHandler(members[g][i])

\* Mount panics only at a pattern the Mux did not know: its own routes are
\* reported as duplicates, with nothing mounted (mux.go:112-113).
PanicsAreForeign ==
    last.outcome = "panicked" => last.key \notin DOMAIN routes

\* What is mounted stays as it was mounted (mux.go:15, "a read-only snapshot
\* of mounted endpoints"), and a Mount that returns an error mounts nothing.
SnapshotIsReadOnly ==
    [][/\ IsPrefix(mounted, mounted')
       /\ \A key \in DOMAIN served : served'[key] = served[key]
       /\ last'.outcome = "duplicate" /\ last' # last => mounted' = mounted]_vars

\* The documents of a server describe the endpoints mounted on it
\* (server/describe.go:10-15, mux.go:14-16): an endpoint they show as public
\* is served to the public.
DocumentedAsServed ==
    \A i \in DOMAIN documents : \A j \in DOMAIN Documented(documents[i]) :
        LET endpoint == Documented(documents[i])[j]
        IN \A key \in Keys(documents[i], endpoint) :
               key \in DOMAIN routes => endpoint.internal = served[key].internal
=============================================================================
