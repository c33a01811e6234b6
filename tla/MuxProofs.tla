------------------------------- MODULE MuxProofs -------------------------------
(***************************************************************************)
(* Proofs about the groups of an application and the Mux it mounts them    *)
(* on, for any number of groups, endpoints, aliases and calls.             *)
(***************************************************************************)
EXTENDS MuxDocuments, FiniteSetTheorems, ProofFacts, TLAPS

-----------------------------------------------------------------------------
(***************************************************************************)
(* A sequence of sequences, put in one.                                    *)
(***************************************************************************)

\* f holds the sequences of seqs up to each place, put in one.
Flattens(seqs, n, f) == f = [i \in 1 .. n |-> IF i = 1 THEN seqs[i] ELSE f[i - 1] \o seqs[i]]

LEMMA Flattening ==
    ASSUME NEW S, NEW seqs \in Seq(Seq(S)), Len(seqs) # 0
    PROVE  \E f : Flattens(seqs, Len(seqs), f) /\ FlattenSeq(seqs) = f[Len(seqs)]
  <1> DEFINE N == Len(seqs)
             Without == {n \in 0 .. N : \A f : ~ Flattens(seqs, n, f)}
  <1>1. Without = {}
    <2> SUFFICES ASSUME Without # {} PROVE FALSE
      OBVIOUS
    <2>1. PICK n \in Without : \A m \in Without : n <= m
      <3>1. Without \subseteq Nat
        OBVIOUS
      <3> QED
        BY <3>1, Least
    <2>2. n # 0
      <3> DEFINE f == [i \in 1 .. 0 |-> 0]
      <3>1. Flattens(seqs, 0, f)
        BY DEF Flattens
      <3> QED
        BY <3>1
    <2>3. n - 1 \in 0 .. N /\ ~ (n <= n - 1) /\ n \in 1 .. N
      BY <2>2
    <2>4. PICK f : Flattens(seqs, n - 1, f)
      BY <2>1, <2>3
    <2> DEFINE g == [i \in 1 .. n |-> IF i = n THEN IF n = 1 THEN seqs[n] ELSE f[n - 1] \o seqs[n]
                                      ELSE f[i]]
    <2>5. Flattens(seqs, n, g)
      <3>1. \A i \in 1 .. n - 1 : f[i] = IF i = 1 THEN seqs[i] ELSE f[i - 1] \o seqs[i]
        BY <2>4 DEF Flattens
      <3>2. ASSUME NEW i \in 1 .. n
            PROVE  g[i] = IF i = 1 THEN seqs[i] ELSE g[i - 1] \o seqs[i]
        <4>1. i - 1 \in 1 .. n => g[i - 1] = f[i - 1]
          BY <2>3
        <4>2. i # 1 => i - 1 \in 1 .. n
          BY <2>3
        <4>3. i # n => i \in 1 .. n - 1
          BY <2>3
        <4>4. g[i] = IF i = n THEN IF n = 1 THEN seqs[n] ELSE f[n - 1] \o seqs[n] ELSE f[i]
          OBVIOUS
        <4> HIDE DEF g
        <4> QED
          BY <3>1, <4>1, <4>2, <4>3, <4>4, Zenon
      <3> QED
        BY <3>2 DEF Flattens
    <2> QED
      BY <2>1, <2>5
  <1>2. PICK f : Flattens(seqs, N, f)
    <2>1. N \in 0 .. N
      BY SMTT(30)
    <2> HIDE DEF N
    <2> QED
      BY <1>1, <2>1
  <1> DEFINE flatten == CHOOSE h : h = [i \in 1 .. N |-> IF i = 1 THEN seqs[i] ELSE h[i - 1] \o seqs[i]]
  <1>3. Flattens(seqs, N, flatten)
    BY <1>2 DEF Flattens
  <1>4. FlattenSeq(seqs) = flatten[N]
    BY DEF FlattenSeq
  <1> QED
    BY <1>3, <1>4

Holds(seq, x) == \E k \in DOMAIN seq : seq[k] = x

LEMMA Concatenated ==
    ASSUME NEW S, NEW a \in Seq(S), NEW b \in Seq(S)
    PROVE  a \o b \in Seq(S) /\ \A x : Holds(a \o b, x) <=> Holds(a, x) \/ Holds(b, x)
  <1>1. /\ a \o b \in Seq(S)
        /\ \A k \in DOMAIN a : k \in DOMAIN (a \o b) /\ (a \o b)[k] = a[k]
        /\ \A k \in DOMAIN b : /\ Len(a) + k \in DOMAIN (a \o b)
                              /\ (a \o b)[Len(a) + k] = b[k]
        /\ \A k \in DOMAIN (a \o b) : \/ k \in DOMAIN a /\ (a \o b)[k] = a[k]
                                     \/ /\ k - Len(a) \in DOMAIN b
                                        /\ (a \o b)[k] = b[k - Len(a)]
    BY SMTT(30)
  <1> DEFINE c == a \o b
  <1> HIDE DEF c
  <1>2. \A x : Holds(c, x) <=> Holds(a, x) \/ Holds(b, x)
    BY <1>1, Zenon DEF Holds, c
  <1> QED
    BY <1>1, <1>2 DEF c

\* It has the members of each, and no other.
LEMMA Flattened ==
    ASSUME NEW S, NEW seqs \in Seq(Seq(S))
    PROVE  /\ FlattenSeq(seqs) \in Seq(S)
           /\ \A x : Holds(FlattenSeq(seqs), x) <=> \E i \in DOMAIN seqs : Holds(seqs[i], x)
  <1>1. CASE Len(seqs) = 0
    <2>1. FlattenSeq(seqs) = seqs
      BY <1>1 DEF FlattenSeq
    <2>2. DOMAIN seqs = {} /\ seqs = <<>>
      BY <1>1
    <2> QED
      BY <2>1, <2>2 DEF Holds
  <1>2. CASE Len(seqs) # 0
    <2> DEFINE N == Len(seqs)
    <2>1. PICK f : Flattens(seqs, N, f) /\ FlattenSeq(seqs) = f[N]
      BY <1>2, Flattening
    <2>2. \A i \in 1 .. N : f[i] = IF i = 1 THEN seqs[i] ELSE f[i - 1] \o seqs[i]
      BY <2>1 DEF Flattens
    <2>3. N \in Nat /\ DOMAIN seqs = 1 .. N /\ \A i \in 1 .. N : seqs[i] \in Seq(S)
      OBVIOUS
    <2> DEFINE Has(n) == /\ f[n] \in Seq(S)
                         /\ \A x : Holds(f[n], x) <=> \E i \in 1 .. n : Holds(seqs[i], x)
               Bad == {n \in 1 .. N : ~ Has(n)}
    <2> HIDE DEF Has
    <2>4. Bad = {}
      <3> SUFFICES ASSUME Bad # {} PROVE FALSE
        OBVIOUS
      <3>1. PICK n \in Bad : \A m \in Bad : n <= m
        <4>1. Bad \subseteq Nat
          OBVIOUS
        <4> QED
          BY <4>1, Least
      <3>2. CASE n = 1
        <4>1. f[1] = seqs[1] /\ 1 \in 1 .. N
          BY <2>2, <2>3, <3>1, <3>2
        <4>2. Has(1)
          BY <2>3, <4>1 DEF Has
        <4> QED
          BY <3>1, <3>2, <4>2
      <3>3. CASE n # 1
        <4> DEFINE m == n - 1
        <4>1. m \in 1 .. N /\ n \in 1 .. N /\ ~ (n <= m) /\ m + 1 = n
          BY <2>3, <3>1, <3>3
        <4>2. Has(m)
          BY <3>1, <4>1
        <4>3. f[n] = f[m] \o seqs[n]
          BY <2>2, <3>3, <4>1
        <4>4. /\ f[n] \in Seq(S)
              /\ \A x : Holds(f[n], x) <=> Holds(f[m], x) \/ Holds(seqs[n], x)
          <5>1. f[m] \in Seq(S) /\ seqs[n] \in Seq(S)
            BY <2>3, <4>1, <4>2 DEF Has
          <5> HIDE DEF m
          <5> QED
            BY <4>3, <5>1, Concatenated
        <4>5. \A i : i \in 1 .. n <=> i \in 1 .. m \/ i = n
          BY <2>3, <4>1
        <4>6. \A x : Holds(f[n], x) <=> \E i \in 1 .. n : Holds(seqs[i], x)
          <5> HIDE DEF m
          <5> QED
            BY <4>2, <4>4, <4>5, Zenon DEF Has
        <4> QED
          BY <3>1, <4>4, <4>6 DEF Has
      <3> QED
        BY <3>2, <3>3
    <2>5. Has(N)
      <3>1. N \in 1 .. N
        BY <1>2, <2>3
      <3> QED
        BY <2>4, <3>1
    <2> QED
      BY <2>1, <2>3, <2>5 DEF Has
  <1> QED
    BY <1>1, <1>2

-----------------------------------------------------------------------------
(***************************************************************************)
(* Endpoints.  Keeps says what an endpoint in a group still shows of its   *)
(* declaration: whatever it inherited, it had none of its own.             *)
(***************************************************************************)
Wrappers == [internal : BOOLEAN, auth : Authorizations, callers : CallerSets, timeout : Int]

Endpoints ==
    [declared : Specs, internal : BOOLEAN, auth : Authorizations,
     authInherited : BOOLEAN, callers : CallerSets, groupCallers : CallerSets,
     timeout : Nat, timeoutInherited : BOOLEAN, backend : Backends \cup {NoBackend},
     handler : Wrappers]

Keeps(e) ==
    /\ NamesAliases(e.declared)
    /\ e.callers = AsSet(e.declared.callers)
    /\ e.declared.internal => e.internal
    /\ e.authInherited => e.declared.auth = "none" /\ e.auth # "none"
    /\ ~ e.authInherited => e.auth = e.declared.auth
    /\ e.timeoutInherited => e.declared.timeout = NoTimeout /\ e.timeout # NoTimeout
    /\ ~ e.timeoutInherited => e.timeout = e.declared.timeout

Drafts == {e \in Endpoints : Keeps(e)}
Ready == {e \in Drafts : e.handler = HttpHandler(e)}

\* What a group says reached the endpoint.
Applied(h, e) ==
    /\ h.internal => e.internal
    /\ e.groupCallers = SetOf(h.callers)
    /\ h.auth # "none" /\ e.declared.auth = "none" => e.auth = h.auth
    /\ e.declared.timeout = NoTimeout => e.timeout = h.timeout

LEMMA CallerSetsClosed ==
    /\ \A callers \in SUBSET Caller : SetOf(callers) \in CallerSets
    /\ \A set, other \in CallerSets : Intersect(set, other) \in CallerSets
    /\ Unrestricted \in CallerSets
  BY DEF SetOf, Intersect, CallerSets, Unrestricted

LEMMA RebuiltIsReady ==
    ASSUME NEW e \in Drafts
    PROVE  /\ Rebuilt(e) \in Ready
           /\ Rebuilt(e).declared = e.declared
           /\ \A h : Applied(h, e) => Applied(h, Rebuilt(e))
  <1> DEFINE w == HttpHandler(e)
             r == [e EXCEPT !.handler = w]
  <1>1. w \in Wrappers
    BY CallerSetsClosed DEF HttpHandler, Wrappers, Drafts, Endpoints
  <1>2. HttpHandler(r) = w
    BY DEF HttpHandler, Drafts, Endpoints
  <1> HIDE DEF w
  <1>3. r \in Endpoints /\ r.handler = w
    BY <1>1 DEF Drafts, Endpoints
  <1>4. /\ r.declared = e.declared /\ r.internal = e.internal /\ r.auth = e.auth
        /\ r.authInherited = e.authInherited /\ r.callers = e.callers
        /\ r.groupCallers = e.groupCallers /\ r.timeout = e.timeout
        /\ r.timeoutInherited = e.timeoutInherited
    BY DEF Drafts, Endpoints
  <1>5. Rebuilt(e) = r
    BY DEF Rebuilt, w
  <1> HIDE DEF r
  <1>6. Keeps(r)
    BY <1>4 DEF Drafts, Keeps
  <1>7. \A h : Applied(h, e) => Applied(h, r)
    BY <1>4 DEF Applied
  <1> QED
    BY <1>2, <1>3, <1>4, <1>5, <1>6, <1>7 DEF Ready, Drafts

Mark(e, b, c) == [e EXCEPT !.internal = @ \/ b, !.groupCallers = c]

LEMMA Marked ==
    ASSUME NEW e \in Drafts, NEW b \in BOOLEAN, NEW c \in CallerSets,
           NEW r, r = Mark(e, b, c)
    PROVE  /\ r \in Drafts
           /\ r.declared = e.declared
           /\ b => r.internal
           /\ r.groupCallers = c
  <1>1. r \in Endpoints /\ r.groupCallers = c /\ r.internal = (e.internal \/ b)
    BY DEF Drafts, Endpoints, Mark
  <1>2. /\ r.declared = e.declared /\ r.auth = e.auth
        /\ r.authInherited = e.authInherited /\ r.callers = e.callers
        /\ r.timeout = e.timeout /\ r.timeoutInherited = e.timeoutInherited
    BY DEF Drafts, Endpoints, Mark
  <1>3. Keeps(r)
    BY <1>1, <1>2 DEF Drafts, Keeps
  <1> QED
    BY <1>1, <1>2, <1>3 DEF Drafts

LEMMA InheritedAuth ==
    ASSUME NEW e \in Drafts, NEW auth \in Authorizations,
           NEW r, r = InheritAuth(e, auth)
    PROVE  /\ r \in Drafts
           /\ r.declared = e.declared
           /\ r.internal = e.internal
           /\ r.groupCallers = e.groupCallers
           /\ auth # "none" /\ e.declared.auth = "none" => r.auth = auth
  <1> DEFINE n == [e EXCEPT !.auth = auth, !.authInherited = TRUE]
             takes == auth # "none" /\ (e.auth = "none" \/ e.authInherited)
  <1>1. n \in Endpoints /\ n.auth = auth /\ n.authInherited = TRUE
    BY DEF Drafts, Endpoints
  <1>2. /\ n.declared = e.declared /\ n.internal = e.internal /\ n.callers = e.callers
        /\ n.groupCallers = e.groupCallers
        /\ n.timeout = e.timeout /\ n.timeoutInherited = e.timeoutInherited
    BY DEF Drafts, Endpoints
  <1>3. r = IF takes THEN n ELSE e
    BY DEF InheritAuth
  <1> HIDE DEF n
  <1>4. Keeps(e)
    BY DEF Drafts
  <1>5. CASE takes
    <2>1. Keeps(n)
      BY <1>1, <1>2, <1>4, <1>5 DEF Keeps
    <2> QED
      BY <1>1, <1>2, <1>3, <1>5, <2>1 DEF Drafts
  <1>6. CASE ~ takes
    <2>1. auth # "none" => e.declared.auth # "none"
      BY <1>4, <1>6 DEF Keeps
    <2> QED
      BY <1>3, <1>6, <2>1
  <1> QED
    BY <1>5, <1>6

LEMMA InheritedTimeout ==
    ASSUME NEW e \in Drafts, NEW timeout \in Nat,
           NEW r, r = InheritTimeout(e, timeout)
    PROVE  /\ r \in Drafts
           /\ r.declared = e.declared
           /\ r.internal = e.internal
           /\ r.auth = e.auth
           /\ r.groupCallers = e.groupCallers
           /\ e.declared.timeout = NoTimeout => r.timeout = timeout
  <1> DEFINE given == timeout # NoTimeout
             n == [e EXCEPT !.timeout = timeout, !.timeoutInherited = given]
             takes == e.timeout = NoTimeout \/ e.timeoutInherited
  <1>1. given \in BOOLEAN
    OBVIOUS
  <1>2. r = IF takes THEN n ELSE e
    BY DEF InheritTimeout
  <1> HIDE DEF given
  <1>3. n \in Endpoints /\ n.timeout = timeout /\ n.timeoutInherited = given
    BY <1>1 DEF Drafts, Endpoints
  <1>4. /\ n.declared = e.declared /\ n.internal = e.internal /\ n.callers = e.callers
        /\ n.groupCallers = e.groupCallers
        /\ n.auth = e.auth /\ n.authInherited = e.authInherited
    BY DEF Drafts, Endpoints
  <1> HIDE DEF n
  <1>5. Keeps(e)
    BY DEF Drafts
  <1>6. CASE takes
    <2>1. e.declared.timeout = NoTimeout
      BY <1>5, <1>6 DEF Keeps
    <2>2. Keeps(n)
      BY <1>3, <1>4, <1>5, <2>1 DEF Keeps, given
    <2> QED
      BY <1>2, <1>3, <1>4, <1>6, <2>2 DEF Drafts
  <1>7. CASE ~ takes
    <2>1. e.declared.timeout # NoTimeout
      BY <1>5, <1>7 DEF Keeps
    <2> QED
      BY <1>2, <1>7, <2>1
  <1> QED
    BY <1>6, <1>7

LEMMA FilledBackend ==
    ASSUME NEW e \in Drafts, NEW backend \in Backends \cup {NoBackend},
           NEW r, r = FillBackend(e, backend)
    PROVE  /\ r \in Drafts
           /\ r.declared = e.declared
           /\ \A h : Applied(h, e) => Applied(h, r)
  <1> DEFINE n == [e EXCEPT !.backend = backend]
  <1>1. n \in Endpoints
    BY DEF Drafts, Endpoints
  <1>2. /\ n.declared = e.declared /\ n.internal = e.internal /\ n.callers = e.callers
        /\ n.groupCallers = e.groupCallers
        /\ n.auth = e.auth /\ n.authInherited = e.authInherited
        /\ n.timeout = e.timeout /\ n.timeoutInherited = e.timeoutInherited
    BY DEF Drafts, Endpoints
  <1>3. r \in {e, n}
    BY DEF FillBackend
  <1> HIDE DEF n
  <1>4. Keeps(n) /\ \A h : Applied(h, e) => Applied(h, n)
    BY <1>2 DEF Drafts, Keeps, Applied
  <1> QED
    BY <1>1, <1>2, <1>3, <1>4 DEF Drafts

\* An endpoint of a group has what the group says where it says nothing itself.
LEMMA MetadataApplied ==
    ASSUME NEW h \in Headers, NEW e \in Drafts,
           NEW r, r = EndpointWithGroupMetadata(h, e)
    PROVE  r \in Ready /\ Applied(h, r) /\ r.declared = e.declared
  <1> DEFINE c == SetOf(h.callers)
             marked == Mark(e, h.internal, c)
             authorized == InheritAuth(marked, h.auth)
             timed == InheritTimeout(authorized, h.timeout)
             filled == FillBackend(timed, h.backend)
  <1>1. r = Rebuilt(filled)
    BY DEF EndpointWithGroupMetadata, Mark
  <1>2. /\ h.internal \in BOOLEAN /\ h.auth \in Authorizations /\ h.timeout \in Nat
        /\ h.backend \in Backends \cup {NoBackend} /\ c \in CallerSets
    BY CallerSetsClosed DEF Headers
  <1>3. /\ marked \in Drafts /\ marked.declared = e.declared
        /\ (h.internal => marked.internal) /\ marked.groupCallers = c
    BY <1>2, Marked
  <1> HIDE DEF marked
  <1>4. /\ authorized \in Drafts /\ authorized.declared = e.declared
        /\ (h.internal => authorized.internal) /\ authorized.groupCallers = c
        /\ (h.auth # "none" /\ e.declared.auth = "none" => authorized.auth = h.auth)
    BY <1>2, <1>3, InheritedAuth
  <1> HIDE DEF authorized
  <1>5. timed \in Drafts /\ timed.declared = e.declared /\ Applied(h, timed)
    BY <1>2, <1>4, InheritedTimeout DEF Applied
  <1> HIDE DEF timed
  <1>6. filled \in Drafts /\ filled.declared = e.declared /\ Applied(h, filled)
    BY <1>2, <1>5, FilledBackend
  <1> HIDE DEF filled
  <1> QED
    BY <1>1, <1>6, RebuiltIsReady

LEMMA DefinedIsReady ==
    ASSUME NEW spec \in Specs, Defines(spec)
    PROVE  DefineEndpoint(spec) \in Ready /\ DefineEndpoint(spec).declared = spec
  <1> DEFINE set == AsSet(spec.callers)
             e == [declared |-> spec, internal |-> spec.internal,
                   auth |-> spec.auth, authInherited |-> FALSE,
                   callers |-> set, groupCallers |-> Unrestricted,
                   timeout |-> spec.timeout, timeoutInherited |-> FALSE,
                   backend |-> spec.backend, handler |-> NoHandler]
  <1>1. DefineEndpoint(spec) = Rebuilt(e)
    BY DEF DefineEndpoint
  <1>2. Range(spec.callers) \in SUBSET Caller
    BY SpecsAssumption DEF Defines, ListsCallers, Range, EndpointSpecs
  <1>3. set \in CallerSets
    BY <1>2, CallerSetsClosed DEF AsSet
  <1>4. NoHandler \in Wrappers
    BY CallerSetsClosed DEF NoHandler, Wrappers, Authorizations
  <1>5. spec.timeout \in Nat /\ NamesAliases(spec)
    BY SpecsAssumption DEF Defines, BoundsTimeout, EndpointSpecs
  <1> HIDE DEF set
  <1>6. e \in Endpoints
    BY <1>3, <1>4, <1>5, CallerSetsClosed, SpecsAssumption DEF Endpoints, EndpointSpecs
  <1>7. Keeps(e)
    BY <1>5 DEF Keeps, set
  <1> HIDE DEF e
  <1>8. e \in Drafts
    BY <1>6, <1>7 DEF Drafts
  <1>9. e.declared = spec
    BY DEF e
  <1> QED
    BY <1>1, <1>8, <1>9, RebuiltIsReady, Zenon

-----------------------------------------------------------------------------
(***************************************************************************)
(* What a group mounts.                                                    *)
(***************************************************************************)
GroupsTyped ==
    /\ header \in [Groups -> Headers]
    /\ members \in [Groups -> Seq(Ready)]

Mounts == {m \in [method : Methods, path : {MountedPath[p] : p \in Groups \X Paths},
                  endpoint : Ready, header : Headers] : Applied(m.header, m.endpoint)}

PathsOf(spec) == {spec.path} \cup ToSet(spec.aliases)

\* The keys of a list of mounts, of a declaration in a group, and of a group.
KeyAt(mounts, i) == MuxRouteKey(mounts[i])
KeysOf(mounts) == {KeyAt(mounts, i) : i \in DOMAIN mounts}
SpecKeys(g, spec) == {<<spec.method, MountedPath[g, path]>> : path \in PathsOf(spec)}
GroupKeys(g) == UNION {SpecKeys(g, members[g][i].declared) : i \in DOMAIN members[g]}

LEMMA FlattenedKeys ==
    ASSUME NEW S, NEW seqs \in Seq(Seq(S))
    PROVE  KeysOf(FlattenSeq(seqs)) = UNION {KeysOf(seqs[i]) : i \in DOMAIN seqs}
  <1> DEFINE flat == FlattenSeq(seqs)
  <1>1. \A x : Holds(flat, x) <=> \E i \in DOMAIN seqs : Holds(seqs[i], x)
    BY Flattened
  <1> HIDE DEF flat
  <1>2. ASSUME NEW seq, NEW key
        PROVE  key \in KeysOf(seq) <=> \E x : Holds(seq, x) /\ key = MuxRouteKey(x)
    BY DEF KeysOf, KeyAt, Holds
  <1>3. \A key : key \in KeysOf(flat)
                    <=> \E i \in DOMAIN seqs : key \in KeysOf(seqs[i])
    BY <1>1, <1>2
  <1> QED
    BY <1>3 DEF flat

LEMMA MountsOfEndpoint ==
    ASSUME GroupsTyped, NEW g \in Groups, NEW e \in Ready, Applied(header[g], e)
    PROVE  /\ MountedEndpoints(g, e) \in Seq(Mounts)
           /\ KeysOf(MountedEndpoints(g, e)) = SpecKeys(g, e.declared)
  <1> DEFINE spec == e.declared
             paths == <<spec.path>> \o spec.aliases
             mounts == MountedEndpoints(g, e)
  <1>1. spec.method \in Methods /\ spec.path \in Paths /\ spec.aliases \in Seq(Paths)
    <2>1. spec \in EndpointSpecs /\ NamesAliases(spec)
      BY SpecsAssumption DEF Ready, Drafts, Endpoints, Keeps
    <2>2. spec.method \in Methods /\ spec.path \in Paths /\ spec.aliases \in Seq(Paths \cup {"blank"})
      BY <2>1 DEF EndpointSpecs
    <2>3. \A i \in DOMAIN spec.aliases : spec.aliases[i] # "blank"
      BY <2>1 DEF NamesAliases
    <2> QED
      BY <2>2, <2>3
  <1> DEFINE aliases == spec.aliases
             first == spec.path
  <1>2. paths \in Seq(Paths) /\ \A path : path \in PathsOf(spec) <=> Holds(paths, path)
    <2>1. aliases \in Seq(Paths) /\ first \in Paths /\ paths = <<first>> \o aliases
          /\ PathsOf(spec) = {first} \cup {aliases[i] : i \in DOMAIN aliases}
      BY <1>1 DEF PathsOf, ToSet
    <2> HIDE DEF aliases, first, paths
    <2>2. <<first>> \in Seq(Paths) /\ \A x : Holds(<<first>>, x) <=> x = first
      BY <2>1 DEF Holds
    <2>3. /\ <<first>> \o aliases \in Seq(Paths)
          /\ \A x : Holds(<<first>> \o aliases, x) <=> Holds(<<first>>, x) \/ Holds(aliases, x)
      BY <2>1, <2>2, Concatenated
    <2>4. \A x : x \in PathsOf(spec) <=> x = first \/ Holds(aliases, x)
      BY <2>1, Zenon DEF Holds
    <2> QED
      BY <2>1, <2>2, <2>3, <2>4, Zenon
  <1> HIDE DEF aliases, first, paths
  <1>3. mounts = [i \in DOMAIN paths |-> MountedEndpoint(g, e, paths[i])]
    BY DEF MountedEndpoints, paths
  <1>4. ASSUME NEW path \in Paths
        PROVE  /\ MountedEndpoint(g, e, path) \in Mounts
               /\ MuxRouteKey(MountedEndpoint(g, e, path)) = <<spec.method, MountedPath[g, path]>>
    <2> DEFINE full == MountedPath[g, path]
               m == MountedEndpoint(g, e, path)
    <2>1. full \in {MountedPath[p] : p \in Groups \X Paths}
      OBVIOUS
    <2>2. m = [method |-> spec.method, path |-> full, endpoint |-> e, header |-> header[g]]
      BY DEF MountedEndpoint
    <2>3. header[g] \in Headers
      BY DEF GroupsTyped
    <2> HIDE DEF full, m
    <2>4. /\ m \in [method : Methods, path : {MountedPath[p] : p \in Groups \X Paths},
                    endpoint : Ready, header : Headers]
          /\ m.method = spec.method /\ m.path = full /\ m.endpoint = e /\ m.header = header[g]
      BY <1>1, <2>1, <2>2, <2>3
    <2> QED
      BY <2>4 DEF Mounts, MuxRouteKey, full, m
  <1> HIDE DEF mounts
  <1>5. /\ mounts \in [1 .. Len(paths) -> Mounts]
        /\ \A k \in DOMAIN paths : MuxRouteKey(mounts[k]) = <<spec.method, MountedPath[g, paths[k]]>>
    <2>1. \A k \in DOMAIN paths : paths[k] \in Paths
      BY <1>2
    <2>2. \A k \in DOMAIN paths :
             /\ MountedEndpoint(g, e, paths[k]) \in Mounts
             /\ MuxRouteKey(MountedEndpoint(g, e, paths[k])) = <<spec.method, MountedPath[g, paths[k]]>>
      BY <1>4, <2>1
    <2>3. DOMAIN paths = 1 .. Len(paths)
      BY <1>2
    <2> QED
      BY <1>3, <2>2, <2>3
  <1>6. mounts \in Seq(Mounts) /\ DOMAIN mounts = DOMAIN paths
    <2> DEFINE n == Len(paths)
    <2>1. n \in Nat /\ DOMAIN paths = 1 .. n
      BY <1>2
    <2>2. mounts \in [1 .. n -> Mounts]
      BY <1>5
    <2> HIDE DEF n
    <2> QED
      BY <2>1, <2>2
  <1>7. KeysOf(mounts) = SpecKeys(g, spec)
    <2>1. \A key : key \in KeysOf(mounts)
                      <=> \E k \in DOMAIN paths : key = <<spec.method, MountedPath[g, paths[k]]>>
      BY <1>5, <1>6 DEF KeysOf, KeyAt
    <2>2. \A key : key \in SpecKeys(g, spec)
                      <=> \E k \in DOMAIN paths : key = <<spec.method, MountedPath[g, paths[k]]>>
      BY <1>2 DEF SpecKeys, Holds
    <2> QED
      BY <2>1, <2>2
  <1> QED
    BY <1>6, <1>7 DEF mounts

LEMMA MountsOfGroup ==
    ASSUME GroupsTyped, NEW g \in Groups
    PROVE  /\ MountedEndpointsForGroup(g) \in Seq(Mounts)
           /\ KeysOf(MountedEndpointsForGroup(g)) = GroupKeys(g)
  <1> DEFINE ms == members[g]
             resolved == ResolvedEndpoints(g)
             each == [i \in DOMAIN resolved |-> MountedEndpoints(g, resolved[i])]
  <1>1. header[g] \in Headers /\ ms \in Seq(Ready) /\ DOMAIN resolved = DOMAIN ms
        /\ DOMAIN ms = 1 .. Len(ms)
    BY DEF GroupsTyped, ResolvedEndpoints
  <1>2. ASSUME NEW i \in DOMAIN ms
        PROVE  /\ resolved[i] \in Ready /\ Applied(header[g], resolved[i])
               /\ resolved[i].declared = ms[i].declared
    <2>1. ms[i] \in Drafts
      BY <1>1 DEF Ready
    <2>2. resolved[i] = EndpointWithGroupMetadata(header[g], ms[i])
      BY DEF ResolvedEndpoints
    <2> QED
      BY <1>1, <2>1, <2>2, MetadataApplied
  <1>3. ASSUME NEW i \in DOMAIN ms
        PROVE  each[i] \in Seq(Mounts) /\ KeysOf(each[i]) = SpecKeys(g, ms[i].declared)
    <2>1. each[i] = MountedEndpoints(g, resolved[i])
      BY <1>1
    <2> HIDE DEF each, resolved
    <2> QED
      BY <1>2, <2>1, MountsOfEndpoint
  <1>4. each \in Seq(Seq(Mounts)) /\ DOMAIN each = DOMAIN ms
    <2>1. each \in [1 .. Len(ms) -> Seq(Mounts)]
      <3>1. \A i \in 1 .. Len(ms) : MountedEndpoints(g, resolved[i]) \in Seq(Mounts)
        BY <1>1, <1>3
      <3> HIDE DEF resolved
      <3> QED
        BY <1>1, <3>1
    <2>2. Len(ms) \in Nat
      BY <1>1
    <2> HIDE DEF each, ms
    <2> QED
      BY <1>1, <2>1, <2>2
  <1>5. MountedEndpointsForGroup(g) = FlattenSeq(each)
    BY DEF MountedEndpointsForGroup
  <1> HIDE DEF each, resolved
  <1>6. FlattenSeq(each) \in Seq(Mounts)
    BY <1>4, Flattened
  <1>7. KeysOf(FlattenSeq(each)) = UNION {KeysOf(each[i]) : i \in DOMAIN each}
    BY <1>4, FlattenedKeys
  <1>8. KeysOf(FlattenSeq(each)) = GroupKeys(g)
    BY <1>3, <1>4, <1>7 DEF GroupKeys
  <1> QED
    BY <1>5, <1>6, <1>8

LEMMA MountsOfBatch ==
    ASSUME GroupsTyped, NEW batch \in Seq(Groups)
    PROVE  /\ Prepared(batch) \in Seq(Mounts)
           /\ KeysOf(Prepared(batch)) = UNION {GroupKeys(batch[b]) : b \in DOMAIN batch}
  <1> DEFINE each == [i \in DOMAIN batch |-> MountedEndpointsForGroup(batch[i])]
  <1>1. ASSUME NEW b \in DOMAIN batch
        PROVE  /\ batch[b] \in Groups
               /\ each[b] \in Seq(Mounts)
               /\ KeysOf(each[b]) = GroupKeys(batch[b])
    BY MountsOfGroup
  <1>2. each \in Seq(Seq(Mounts)) /\ DOMAIN each = DOMAIN batch
    <2>1. DOMAIN batch = 1 .. Len(batch) /\ Len(batch) \in Nat
      OBVIOUS
    <2>2. each \in [1 .. Len(batch) -> Seq(Mounts)]
      <3>1. \A i \in 1 .. Len(batch) : MountedEndpointsForGroup(batch[i]) \in Seq(Mounts)
        BY <1>1, <2>1
      <3> QED
        BY <2>1, <3>1
    <2> HIDE DEF each
    <2> QED
      BY <2>1, <2>2
  <1>3. Prepared(batch) = FlattenSeq(each)
    BY DEF Prepared
  <1> HIDE DEF each
  <1>4. FlattenSeq(each) \in Seq(Mounts)
    BY <1>2, Flattened
  <1>5. KeysOf(FlattenSeq(each)) = UNION {KeysOf(each[b]) : b \in DOMAIN each}
    BY <1>2, FlattenedKeys
  <1>6. KeysOf(FlattenSeq(each)) = UNION {GroupKeys(batch[b]) : b \in DOMAIN batch}
    BY <1>1, <1>2, <1>5
  <1> QED
    BY <1>3, <1>4, <1>6

-----------------------------------------------------------------------------
(***************************************************************************)
(* The registry of a Mux.                                                  *)
(***************************************************************************)
Distinct(mounts) == \A i, j \in DOMAIN mounts : KeyAt(mounts, i) = KeyAt(mounts, j) => i = j

RegistryInv ==
    /\ mounted \in Seq(Mounts)
    /\ Distinct(mounted)
    /\ DOMAIN routes = KeysOf(mounted)
    /\ \A i \in DOMAIN mounted : routes[KeyAt(mounted, i)] = mounted[i]
    /\ DOMAIN routes \subseteq DOMAIN served
    /\ \A key \in DOMAIN served :
          served[key] = IF key \in DOMAIN routes THEN routes[key].endpoint.handler
                        ELSE NoHandler

LEMMA RegistryOf ==
    ASSUME NEW mounts \in Seq(Mounts), Distinct(mounts)
    PROVE  /\ DOMAIN Registry(mounts) = KeysOf(mounts)
           /\ \A i \in DOMAIN mounts : Registry(mounts)[KeyAt(mounts, i)] = mounts[i]
           /\ DOMAIN Handlers(Registry(mounts)) = KeysOf(mounts)
           /\ \A key \in KeysOf(mounts) :
                 Handlers(Registry(mounts))[key] = Registry(mounts)[key].endpoint.handler
  <1> DEFINE r == Registry(mounts)
  <1>1. /\ DOMAIN r = KeysOf(mounts)
        /\ \A key \in KeysOf(mounts) :
              r[key] = mounts[CHOOSE i \in DOMAIN mounts : KeyAt(mounts, i) = key]
    BY DEF Registry, KeysOf, KeyAt
  <1>2. ASSUME NEW i \in DOMAIN mounts
        PROVE  r[KeyAt(mounts, i)] = mounts[i]
    <2> DEFINE key == KeyAt(mounts, i)
               j == CHOOSE k \in DOMAIN mounts : KeyAt(mounts, k) = key
    <2>1. j \in DOMAIN mounts /\ KeyAt(mounts, j) = key
      OBVIOUS
    <2>2. j = i
      BY <2>1 DEF Distinct
    <2>3. r[key] = mounts[j]
      BY <1>1 DEF KeysOf
    <2> QED
      BY <2>2, <2>3
  <1>3. /\ DOMAIN Handlers(r) = DOMAIN r
        /\ \A key \in DOMAIN r : Handlers(r)[key] = r[key].endpoint.handler
    BY DEF Handlers
  <1> HIDE DEF r
  <1> QED
    BY <1>1, <1>2, <1>3 DEF r

\* Registering routes the Mux and the ServeMux do not have adds these, at the
\* end, and changes nothing else.
LEMMA Registered ==
    ASSUME RegistryInv, NEW mounts \in Seq(Mounts), Distinct(mounts),
           KeysOf(mounts) \cap DOMAIN served = {}, Register(mounts)
    PROVE  /\ RegistryInv'
           /\ DOMAIN routes' = DOMAIN routes \cup KeysOf(mounts)
           /\ IsPrefix(mounted, mounted')
           /\ \A key \in DOMAIN served : served'[key] = served[key]
  <1> DEFINE r == Registry(mounts)
             h == Handlers(r)
             n == Len(mounted)
             all == mounted \o mounts
  <1>1. mounted \in Seq(Mounts) /\ n \in Nat /\ DOMAIN mounted = 1 .. n /\ mounted' = all
        /\ DOMAIN mounts = 1 .. Len(mounts) /\ Len(mounts) \in Nat
    BY DEF RegistryInv, Register
  <1>2. /\ all \in Seq(Mounts) /\ DOMAIN all = 1 .. n + Len(mounts)
        /\ \A i \in DOMAIN mounted : i \in DOMAIN all /\ all[i] = mounted[i]
        /\ \A i \in DOMAIN mounts : n + i \in DOMAIN all /\ all[n + i] = mounts[i]
        /\ \A i \in DOMAIN all : \/ i \in DOMAIN mounted
                                 \/ /\ i \notin DOMAIN mounted
                                    /\ i - n \in DOMAIN mounts /\ all[i] = mounts[i - n]
    BY <1>1
  <1>3. /\ DOMAIN r = KeysOf(mounts) /\ DOMAIN h = KeysOf(mounts)
        /\ \A i \in DOMAIN mounts : r[KeyAt(mounts, i)] = mounts[i]
        /\ \A key \in KeysOf(mounts) : h[key] = r[key].endpoint.handler
    BY RegistryOf
  <1>4. /\ routes' = Put(r, routes)
        /\ served' = Put(h, served)
    BY DEF Register
  <1> HIDE DEF r, h
  <1>5. /\ DOMAIN routes' = KeysOf(mounts) \cup DOMAIN routes
        /\ \A key \in DOMAIN routes' : routes'[key] = IF key \in KeysOf(mounts) THEN r[key] ELSE routes[key]
        /\ DOMAIN served' = KeysOf(mounts) \cup DOMAIN served
        /\ \A key \in DOMAIN served' : served'[key] = IF key \in KeysOf(mounts) THEN h[key] ELSE served[key]
    BY <1>3, <1>4 DEF Put
  <1> HIDE DEF all, n
  <1>6. /\ \A i \in DOMAIN mounted : KeyAt(all, i) = KeyAt(mounted, i)
        /\ \A i \in DOMAIN mounts : KeyAt(all, n + i) = KeyAt(mounts, i)
    BY <1>2 DEF KeyAt
  <1>7. /\ \A i \in DOMAIN mounted : KeyAt(mounted, i) \in DOMAIN routes
        /\ \A i \in DOMAIN mounts : KeyAt(mounts, i) \in KeysOf(mounts)
        /\ KeysOf(mounts) \cap DOMAIN routes = {}
    BY DEF RegistryInv, KeysOf
  <1>8. Distinct(all)
    <2> SUFFICES ASSUME NEW i \in DOMAIN all, NEW j \in DOMAIN all, KeyAt(all, i) = KeyAt(all, j)
                 PROVE  i = j
      BY DEF Distinct
    <2>1. CASE i \in DOMAIN mounted /\ j \in DOMAIN mounted
      BY <1>6, <2>1 DEF RegistryInv, Distinct
    <2>2. CASE i \notin DOMAIN mounted /\ j \notin DOMAIN mounted
      <3>1. i - n \in DOMAIN mounts /\ j - n \in DOMAIN mounts
        BY <1>2, <2>2
      <3>2. n + (i - n) = i /\ n + (j - n) = j
        BY <1>1, <1>2
      <3>3. KeyAt(mounts, i - n) = KeyAt(mounts, j - n)
        BY <1>6, <3>1, <3>2
      <3>4. i - n = j - n
        BY <3>1, <3>3 DEF Distinct
      <3> QED
        BY <3>2, <3>4
    <2>3. ASSUME NEW k \in DOMAIN all, NEW l \in DOMAIN all,
                 k \in DOMAIN mounted, l \notin DOMAIN mounted
          PROVE  KeyAt(all, k) # KeyAt(all, l)
      <3>1. l - n \in DOMAIN mounts /\ n + (l - n) = l
        BY <1>1, <1>2, <2>3
      <3>2. KeyAt(all, l) \in KeysOf(mounts) /\ KeyAt(all, k) \in DOMAIN routes
        BY <1>6, <1>7, <2>3, <3>1
      <3> QED
        BY <1>7, <3>2
    <2> QED
      BY <2>1, <2>2, <2>3
  <1>9. KeysOf(all) = KeysOf(mounted) \cup KeysOf(mounts)
    <2>1. KeysOf(mounted) \cup KeysOf(mounts) \subseteq KeysOf(all)
      BY <1>2, <1>6 DEF KeysOf
    <2>2. ASSUME NEW i \in DOMAIN all
          PROVE  KeyAt(all, i) \in KeysOf(mounted) \cup KeysOf(mounts)
      <3>1. CASE i \in DOMAIN mounted
        BY <1>6, <3>1 DEF KeysOf
      <3>2. CASE i \notin DOMAIN mounted
        <4>1. i - n \in DOMAIN mounts /\ n + (i - n) = i
          BY <1>1, <1>2, <3>2
        <4> QED
          BY <1>6, <4>1 DEF KeysOf
      <3> QED
        BY <3>1, <3>2
    <2> QED
      BY <2>1, <2>2 DEF KeysOf
  <1>10. ASSUME NEW i \in DOMAIN all
         PROVE  routes'[KeyAt(all, i)] = all[i]
    <2>1. CASE i \in DOMAIN mounted
      <3>1. KeyAt(all, i) = KeyAt(mounted, i) /\ all[i] = mounted[i]
        BY <1>2, <1>6, <2>1
      <3>2. routes[KeyAt(mounted, i)] = mounted[i]
        BY <2>1 DEF RegistryInv
      <3> QED
        BY <1>5, <1>7, <2>1, <3>1, <3>2
    <2>2. CASE i \notin DOMAIN mounted
      <3>1. i - n \in DOMAIN mounts /\ n + (i - n) = i /\ all[i] = mounts[i - n]
        BY <1>1, <1>2, <2>2
      <3>2. KeyAt(all, i) = KeyAt(mounts, i - n)
        BY <1>6, <3>1
      <3> QED
        BY <1>3, <1>5, <1>7, <3>1, <3>2
    <2> QED
      BY <2>1, <2>2
  <1>11. ASSUME NEW key \in DOMAIN served'
         PROVE  served'[key] = IF key \in DOMAIN routes' THEN routes'[key].endpoint.handler
                               ELSE NoHandler
    <2>1. CASE key \in KeysOf(mounts)
      BY <1>3, <1>5, <2>1
    <2>2. CASE key \notin KeysOf(mounts)
      <3>1. key \in DOMAIN served /\ served'[key] = served[key]
        BY <1>5, <2>2
      <3>2. served[key] = IF key \in DOMAIN routes THEN routes[key].endpoint.handler ELSE NoHandler
        BY <3>1 DEF RegistryInv
      <3> QED
        BY <1>5, <2>2, <3>1, <3>2
    <2> QED
      BY <2>1, <2>2
  <1>12. RegistryInv'
    <2>1. DOMAIN routes' = KeysOf(all) /\ DOMAIN routes' \subseteq DOMAIN served'
      BY <1>5, <1>9 DEF RegistryInv
    <2> QED
      BY <1>1, <1>2, <1>8, <1>10, <1>11, <2>1 DEF RegistryInv, Distinct, KeyAt, KeysOf
  <1>13. IsPrefix(mounted, mounted')
    BY <1>1, <1>2 DEF IsPrefix, n, all
  <1>14. \A key \in DOMAIN served : served'[key] = served[key]
    BY <1>5
  <1> QED
    BY <1>5, <1>12, <1>13, <1>14

-----------------------------------------------------------------------------
(***************************************************************************)
(* The documents, and the invariant.                                       *)
(***************************************************************************)
Documents == [group : Groups, header : Headers, count : Nat, shared : BOOLEAN,
              endpoints : Seq(Ready)]

\* The keys in the slice a document sees.
SliceKeys(d) ==
    IF d.shared
    THEN UNION {SpecKeys(d.group, members[d.group][j].declared) : j \in 1 .. d.count}
    ELSE UNION {SpecKeys(d.group, d.endpoints[j].declared) : j \in DOMAIN d.endpoints}

DocumentInv(d) == d.shared => d.count <= Len(members[d.group])

Standing == DOMAIN routes \ halted

\* Whichever slices the documents see, what is in them are the keys that no
\* panicking Mount left.
DocumentsInv ==
    /\ documents \in Seq(Documents)
    /\ \A i \in DOMAIN documents : DocumentInv(documents[i])
    /\ halted \subseteq DOMAIN routes
    /\ UNION {SliceKeys(documents[i]) : i \in DOMAIN documents} = Standing

LastInv ==
    /\ last.outcome \in {"none", "mounted", "duplicate", "panicked"}
    /\ last.outcome = "panicked" => last.key \notin DOMAIN routes

IInv ==
    /\ GroupsTyped
    /\ RegistryInv
    /\ DocumentsInv
    /\ LastInv
    /\ calls \in 0 .. MaxCalls

\* No endpoint leaves a group, and none changes its declaration.
MembersStay ==
    \A g \in Groups :
        /\ Len(members[g]) <= Len(members'[g])
        /\ \A j \in 1 .. Len(members[g]) : members'[g][j].declared = members[g][j].declared

LEMMA DocumentStays ==
    ASSUME GroupsTyped, GroupsTyped', MembersStay, NEW d \in Documents, DocumentInv(d)
    PROVE  DocumentInv(d)' /\ SliceKeys(d)' = SliceKeys(d)
  <1>1. CASE d.shared
    <2> DEFINE g == d.group
    <2>1. /\ g \in Groups /\ d.count \in Nat
          /\ Len(members[g]) \in Nat /\ Len(members'[g]) \in Nat
          /\ d.count <= Len(members[g]) /\ Len(members[g]) <= Len(members'[g])
      BY <1>1 DEF Documents, DocumentInv, GroupsTyped, MembersStay
    <2>2. \A j \in 1 .. d.count : members'[g][j].declared = members[g][j].declared
      <3>1. \A j \in 1 .. d.count : j \in 1 .. Len(members[g])
        BY <2>1
      <3> QED
        BY <2>1, <3>1 DEF MembersStay
    <2>3. /\ SliceKeys(d) = UNION {SpecKeys(g, members[g][j].declared) : j \in 1 .. d.count}
          /\ SliceKeys(d)' = UNION {SpecKeys(g, members'[g][j].declared) : j \in 1 .. d.count}
      BY <1>1 DEF SliceKeys, SpecKeys
    <2> QED
      BY <2>1, <2>2, <2>3 DEF DocumentInv
  <1>2. CASE ~ d.shared
    BY <1>2 DEF DocumentInv, SliceKeys, SpecKeys
  <1> QED
    BY <1>1, <1>2

\* Documents are exact after a step, when what is in their slices was before
\* it what stands after it.
LEMMA DocumentsKept ==
    ASSUME GroupsTyped, GroupsTyped', MembersStay, documents' \in Seq(Documents),
           \A i \in DOMAIN documents' : DocumentInv(documents'[i]),
           (halted \subseteq DOMAIN routes)',
           UNION {SliceKeys(documents'[i]) : i \in DOMAIN documents'} = Standing'
    PROVE  DocumentsInv'
  <1>1. ASSUME NEW i \in DOMAIN documents'
        PROVE  DocumentInv(documents[i])' /\ SliceKeys(documents[i])' = SliceKeys(documents'[i])
    <2>1. PICK d \in Documents : d = documents'[i]
      OBVIOUS
    <2>2. DocumentInv(d)
      BY <2>1
    <2>3. DocumentInv(d)' /\ SliceKeys(d)' = SliceKeys(d)
      BY <2>2, DocumentStays
    <2> QED
      BY <2>1, <2>3
  <1> QED
    BY <1>1 DEF DocumentsInv

LEMMA DocumentsStay ==
    ASSUME IInv, GroupsTyped', MembersStay, routes' = routes, halted' = halted,
           documents' \in Seq(Documents), DOMAIN documents' = DOMAIN documents,
           \A i \in DOMAIN documents :
               DocumentInv(documents'[i]) /\ SliceKeys(documents'[i]) = SliceKeys(documents[i])
    PROVE  DocumentsInv'
  <1>1. GroupsTyped /\ DocumentsInv
    BY DEF IInv
  <1>2. Standing' = Standing /\ (halted \subseteq DOMAIN routes)'
    BY <1>1 DEF Standing, DocumentsInv
  <1>3. UNION {SliceKeys(documents'[i]) : i \in DOMAIN documents'}
            = UNION {SliceKeys(documents[i]) : i \in DOMAIN documents}
    OBVIOUS
  <1> QED
    BY <1>1, <1>2, <1>3, DocumentsKept DEF DocumentsInv

LEMMA UnchangedDocuments ==
    ASSUME IInv, GroupsTyped', MembersStay, UNCHANGED <<routes, halted, documents>>
    PROVE  DocumentsInv'
  <1>1. documents' \in Seq(Documents) /\ \A i \in DOMAIN documents : DocumentInv(documents'[i])
    BY DEF IInv, DocumentsInv
  <1> QED
    BY <1>1, DocumentsStay

\* A setter of a group.
LEMMA ConfigureStep ==
    ASSUME IInv, NEW g \in Groups, NEW h \in Headers,
           NEW endpoints \in [DOMAIN members[g] -> Drafts],
           \A j \in DOMAIN members[g] : endpoints[j].declared = members[g][j].declared,
           header' = [header EXCEPT ![g] = h],
           members' = [members EXCEPT ![g] = [j \in DOMAIN endpoints |-> Rebuilt(endpoints[j])]],
           Call, UNCHANGED <<served, muxVars, documents, last>>
    PROVE  IInv'
  <1> DEFINE ms == members[g]
             new == [j \in DOMAIN ms |-> Rebuilt(endpoints[j])]
  <1>1. ms \in Seq(Ready) /\ DOMAIN ms = 1 .. Len(ms) /\ Len(ms) \in Nat
    BY DEF IInv, GroupsTyped
  <1>2. \A j \in DOMAIN ms : Rebuilt(endpoints[j]) \in Ready
                             /\ Rebuilt(endpoints[j]).declared = ms[j].declared
    BY RebuiltIsReady
  <1>3. /\ new \in [1 .. Len(ms) -> Ready]
        /\ \A j \in DOMAIN ms : new[j].declared = ms[j].declared
    BY <1>1, <1>2
  <1>4. members' = [members EXCEPT ![g] = new]
    OBVIOUS
  <1> HIDE DEF ms, new
  <1>5. new \in Seq(Ready) /\ Len(new) = Len(ms)
    BY <1>1, <1>3
  <1>6. GroupsTyped'
    BY <1>4, <1>5 DEF IInv, GroupsTyped
  <1>7. MembersStay
    <2> SUFFICES ASSUME NEW f \in Groups
                 PROVE  /\ Len(members[f]) <= Len(members'[f])
                        /\ \A j \in 1 .. Len(members[f]) :
                              members'[f][j].declared = members[f][j].declared
      BY DEF MembersStay
    <2>1. CASE f = g
      <3>1. members'[f] = new /\ members[f] = ms
        BY <1>4, <2>1 DEF IInv, GroupsTyped, ms
      <3> QED
        BY <1>1, <1>3, <1>5, <3>1
    <2>2. CASE f # g
      <3>1. members'[f] = members[f] /\ Len(members[f]) \in Nat
        BY <1>4, <2>2 DEF IInv, GroupsTyped
      <3> QED
        BY <3>1
    <2> QED
      BY <2>1, <2>2
  <1>8. RegistryInv'
    BY DEF IInv, RegistryInv, muxVars, Distinct, KeysOf, KeyAt
  <1>9. DocumentsInv'
    BY <1>6, <1>7, UnchangedDocuments DEF muxVars
  <1>10. LastInv' /\ (calls \in 0 .. MaxCalls)'
    BY BoundsAssumption DEF IInv, LastInv, muxVars, Call
  <1> QED
    BY <1>6, <1>8, <1>9, <1>10 DEF IInv

LEMMA WrittenThrough ==
    ASSUME NEW e \in Drafts, NEW c \in CallerSets
    PROVE  /\ [e EXCEPT !.internal = TRUE] \in Drafts
           /\ [e EXCEPT !.internal = TRUE].declared = e.declared
           /\ [e EXCEPT !.groupCallers = c] \in Drafts
           /\ [e EXCEPT !.groupCallers = c].declared = e.declared
  <1> DEFINE m == [e EXCEPT !.internal = TRUE]
             a == [e EXCEPT !.groupCallers = c]
  <1>1. /\ m \in Endpoints /\ m.internal = TRUE /\ m.declared = e.declared /\ m.auth = e.auth
        /\ m.authInherited = e.authInherited /\ m.callers = e.callers
        /\ m.timeout = e.timeout /\ m.timeoutInherited = e.timeoutInherited
    BY DEF Drafts, Endpoints
  <1>2. /\ a \in Endpoints /\ a.internal = e.internal /\ a.declared = e.declared /\ a.auth = e.auth
        /\ a.authInherited = e.authInherited /\ a.callers = e.callers
        /\ a.timeout = e.timeout /\ a.timeoutInherited = e.timeoutInherited
    BY DEF Drafts, Endpoints
  <1> HIDE DEF m, a
  <1>3. Keeps(m) /\ Keeps(a)
    BY <1>1, <1>2 DEF Drafts, Keeps
  <1>4. m \in Drafts /\ m.declared = e.declared /\ a \in Drafts /\ a.declared = e.declared
    BY <1>1, <1>2, <1>3 DEF Drafts
  <1> QED
    BY <1>4 DEF m, a

LEMMA MemberDrafts ==
    ASSUME IInv, NEW g \in Groups
    PROVE  /\ header[g] \in Headers
           /\ \A j \in DOMAIN members[g] : members[g][j] \in Drafts
  <1>1. header[g] \in Headers /\ members[g] \in Seq(Ready)
    BY DEF IInv, GroupsTyped
  <1>2. \A j \in DOMAIN members[g] : members[g][j] \in Ready
    BY <1>1
  <1> QED
    BY <1>1, <1>2 DEF Ready

LEMMA MarkInternalStep ==
    ASSUME IInv, NEW g \in Groups, MarkInternal(g)
    PROVE  IInv'
  <1> DEFINE h == [header[g] EXCEPT !.internal = TRUE]
             endpoints == [j \in DOMAIN members[g] |-> [members[g][j] EXCEPT !.internal = TRUE]]
  <1>1. h \in Headers
    BY MemberDrafts DEF Headers
  <1>2. ASSUME NEW j \in DOMAIN members[g]
        PROVE  /\ [members[g][j] EXCEPT !.internal = TRUE] \in Drafts
               /\ [members[g][j] EXCEPT !.internal = TRUE].declared = members[g][j].declared
    BY MemberDrafts, WrittenThrough, CallerSetsClosed
  <1>3. /\ header' = [header EXCEPT ![g] = h]
        /\ members' = [members EXCEPT ![g] = [j \in DOMAIN endpoints |-> Rebuilt(endpoints[j])]]
        /\ Call /\ UNCHANGED <<served, muxVars, documents, last>>
    BY DEF MarkInternal, Configure
  <1>4. /\ endpoints \in [DOMAIN members[g] -> Drafts]
        /\ \A j \in DOMAIN members[g] : endpoints[j].declared = members[g][j].declared
    BY <1>2
  <1> HIDE DEF h, endpoints
  <1> QED
    BY <1>1, <1>3, <1>4, ConfigureStep

LEMMA RequireAuthorizationStep ==
    ASSUME IInv, NEW g \in Groups, NEW auth \in AuthKinds, RequireAuthorization(g, auth)
    PROVE  IInv'
  <1> DEFINE h == [header[g] EXCEPT !.auth = auth]
             endpoints == [j \in DOMAIN members[g] |-> InheritAuth(members[g][j], auth)]
  <1>1. auth \in Authorizations /\ h \in Headers
    BY MemberDrafts, AuthKindsAssumption DEF Headers
  <1>2. ASSUME NEW j \in DOMAIN members[g]
        PROVE  /\ InheritAuth(members[g][j], auth) \in Drafts
               /\ InheritAuth(members[g][j], auth).declared = members[g][j].declared
    BY <1>1, MemberDrafts, InheritedAuth
  <1>3. /\ header' = [header EXCEPT ![g] = h]
        /\ members' = [members EXCEPT ![g] = [j \in DOMAIN endpoints |-> Rebuilt(endpoints[j])]]
        /\ Call /\ UNCHANGED <<served, muxVars, documents, last>>
    BY DEF RequireAuthorization, Configure
  <1>4. /\ endpoints \in [DOMAIN members[g] -> Drafts]
        /\ \A j \in DOMAIN members[g] : endpoints[j].declared = members[g][j].declared
    BY <1>2
  <1> HIDE DEF h, endpoints
  <1> QED
    BY <1>1, <1>3, <1>4, ConfigureStep

LEMMA AvailableToStep ==
    ASSUME IInv, NEW g \in Groups, NEW callers \in SUBSET Caller, AvailableTo(g, callers)
    PROVE  IInv'
  <1> DEFINE h == [header[g] EXCEPT !.callers = callers]
             c == SetOf(callers)
             endpoints == [j \in DOMAIN members[g] |-> [members[g][j] EXCEPT !.groupCallers = c]]
  <1>1. h \in Headers /\ c \in CallerSets
    BY MemberDrafts, CallerSetsClosed DEF Headers
  <1>2. ASSUME NEW j \in DOMAIN members[g]
        PROVE  /\ [members[g][j] EXCEPT !.groupCallers = c] \in Drafts
               /\ [members[g][j] EXCEPT !.groupCallers = c].declared = members[g][j].declared
    BY <1>1, MemberDrafts, WrittenThrough
  <1>3. /\ header' = [header EXCEPT ![g] = h]
        /\ members' = [members EXCEPT ![g] = [j \in DOMAIN endpoints |-> Rebuilt(endpoints[j])]]
        /\ Call /\ UNCHANGED <<served, muxVars, documents, last>>
    BY DEF AvailableTo, Configure
  <1>4. /\ endpoints \in [DOMAIN members[g] -> Drafts]
        /\ \A j \in DOMAIN members[g] : endpoints[j].declared = members[g][j].declared
    BY <1>2
  <1> HIDE DEF h, endpoints
  <1> QED
    BY <1>1, <1>3, <1>4, ConfigureStep

LEMMA ConfigureTimeoutStep ==
    ASSUME IInv, NEW g \in Groups, NEW timeout \in Timeouts, ConfigureTimeoutSpec(g, timeout)
    PROVE  IInv'
  <1> DEFINE h == [header[g] EXCEPT !.timeout = timeout]
             endpoints == [j \in DOMAIN members[g] |-> InheritTimeout(members[g][j], timeout)]
  <1>1. timeout \in Nat /\ h \in Headers
    BY MemberDrafts, TimeoutsAssumption DEF Headers
  <1>2. ASSUME NEW j \in DOMAIN members[g]
        PROVE  /\ InheritTimeout(members[g][j], timeout) \in Drafts
               /\ InheritTimeout(members[g][j], timeout).declared = members[g][j].declared
    BY <1>1, MemberDrafts, InheritedTimeout
  <1>3. /\ header' = [header EXCEPT ![g] = h]
        /\ members' = [members EXCEPT ![g] = [j \in DOMAIN endpoints |-> Rebuilt(endpoints[j])]]
        /\ Call /\ UNCHANGED <<served, muxVars, documents, last>>
    BY DEF ConfigureTimeoutSpec, Configure
  <1>4. /\ endpoints \in [DOMAIN members[g] -> Drafts]
        /\ \A j \in DOMAIN members[g] : endpoints[j].declared = members[g][j].declared
    BY <1>2
  <1> HIDE DEF h, endpoints
  <1> QED
    BY <1>1, <1>3, <1>4, ConfigureStep

LEMMA UnchangedGroups ==
    ASSUME IInv, UNCHANGED members
    PROVE  MembersStay
  <1>1. \A g \in Groups : Len(members[g]) \in Nat
    BY DEF IInv, GroupsTyped
  <1> QED
    BY <1>1 DEF MembersStay

LEMMA ConfigureRouteBackendStep ==
    ASSUME IInv, NEW g \in Groups, NEW backend \in Backends, ConfigureRouteBackend(g, backend)
    PROVE  IInv'
  <1> DEFINE h == [header[g] EXCEPT !.backend = backend]
  <1>1. h \in Headers
    BY MemberDrafts DEF Headers
  <1>2. header' = [header EXCEPT ![g] = h]
    BY DEF ConfigureRouteBackend
  <1> HIDE DEF h
  <1>3. GroupsTyped'
    BY <1>1, <1>2 DEF IInv, GroupsTyped, ConfigureRouteBackend
  <1>4. RegistryInv'
    BY DEF IInv, RegistryInv, ConfigureRouteBackend, muxVars, Distinct, KeysOf, KeyAt
  <1>5. DocumentsInv'
    BY <1>3, UnchangedGroups, UnchangedDocuments DEF ConfigureRouteBackend, muxVars
  <1>6. LastInv' /\ (calls \in 0 .. MaxCalls)'
    BY BoundsAssumption DEF IInv, LastInv, muxVars, Call, ConfigureRouteBackend
  <1> QED
    BY <1>3, <1>4, <1>5, <1>6 DEF IInv

LEMMA HandleElsewhereStep ==
    ASSUME IInv, NEW key \in ForeignKeys, HandleElsewhere(key)
    PROVE  IInv'
  <1>1. GroupsTyped'
    BY DEF IInv, GroupsTyped, HandleElsewhere, groupVars
  <1>2. key \notin DOMAIN served
    BY DEF HandleElsewhere, Clash
  <1>3. RegistryInv'
    <2> DEFINE entry == [foreign \in {key} |-> NoHandler]
    <2>1. /\ DOMAIN served' = {key} \cup DOMAIN served
          /\ \A k \in DOMAIN served' : served'[k] = IF k = key THEN NoHandler ELSE served[k]
      BY DEF HandleElsewhere, Put
    <2>2. mounted' = mounted /\ routes' = routes /\ key \notin DOMAIN routes
      BY <1>2 DEF HandleElsewhere, muxVars, IInv, RegistryInv
    <2> QED
      BY <1>2, <2>1, <2>2 DEF IInv, RegistryInv, Distinct, KeysOf, KeyAt
  <1>4. DocumentsInv'
    BY <1>1, UnchangedGroups, UnchangedDocuments DEF HandleElsewhere, groupVars, muxVars
  <1>5. LastInv' /\ (calls \in 0 .. MaxCalls)'
    BY BoundsAssumption DEF IInv, LastInv, muxVars, Call, HandleElsewhere
  <1> QED
    BY <1>1, <1>3, <1>4, <1>5 DEF IInv

\* A slice of the group that is still its own describes what it did.
LEMMA DetachedDocument ==
    ASSUME IInv, NEW g \in Groups, NEW i \in DOMAIN documents
    PROVE  /\ Detached(g)[i] \in Documents /\ DocumentInv(Detached(g)[i])
           /\ SliceKeys(Detached(g)[i]) = SliceKeys(documents[i])
  <1> DEFINE d == documents[i]
             slice == SubSeq(members[g], 1, d.count)
             n == [d EXCEPT !.shared = FALSE, !.endpoints = slice]
  <1>1. d \in Documents /\ DocumentInv(d)
    BY DEF IInv, DocumentsInv
  <1>2. Detached(g)[i] = IF d.group = g /\ d.shared THEN n ELSE d
    BY DEF Detached
  <1>3. CASE d.group = g /\ d.shared
    <2>1. members[g] \in Seq(Ready) /\ d.count \in Nat /\ d.count <= Len(members[g])
      BY <1>1, <1>3 DEF IInv, GroupsTyped, Documents, DocumentInv
    <2>2. /\ slice \in Seq(Ready) /\ DOMAIN slice = 1 .. d.count
          /\ \A j \in 1 .. d.count : slice[j] = members[g][j]
      BY <2>1
    <2> HIDE DEF slice
    <2>3. n \in Documents /\ n.group = g /\ n.shared = FALSE /\ n.endpoints = slice
      BY <1>1, <1>3, <2>2 DEF Documents
    <2> HIDE DEF n
    <2>4. DocumentInv(n) /\ SliceKeys(n) = SliceKeys(d)
      BY <1>3, <2>2, <2>3 DEF DocumentInv, SliceKeys
    <2> QED
      BY <1>2, <1>3, <2>3, <2>4
  <1>4. CASE ~ (d.group = g /\ d.shared)
    BY <1>1, <1>2, <1>4
  <1> QED
    BY <1>3, <1>4

LEMMA AppendStep ==
    ASSUME IInv, NEW g \in Groups, NEW e \in Ready, Append_(g, e)
    PROVE  IInv'
  <1> DEFINE r == EndpointWithGroupMetadata(header[g], e)
             ms == members[g]
             new == Append(ms, r)
  <1>1. /\ ms \in Seq(Ready) /\ Len(ms) \in Nat /\ header[g] \in Headers
        /\ header \in [Groups -> Headers] /\ members \in [Groups -> Seq(Ready)]
    BY DEF IInv, GroupsTyped
  <1>2. r \in Ready
    BY <1>1, MetadataApplied DEF Ready
  <1>3. members' = [members EXCEPT ![g] = new]
    BY DEF Append_
  <1> HIDE DEF r, ms
  <1>4. /\ new \in Seq(Ready) /\ Len(new) = Len(ms) + 1
        /\ \A j \in 1 .. Len(ms) : new[j] = ms[j]
    BY <1>1, <1>2
  <1> HIDE DEF new
  <1>5. GroupsTyped'
    BY <1>1, <1>3, <1>4 DEF GroupsTyped, Append_
  <1>6. MembersStay
    <2> SUFFICES ASSUME NEW f \in Groups
                 PROVE  /\ Len(members[f]) <= Len(members'[f])
                        /\ \A j \in 1 .. Len(members[f]) :
                              members'[f][j].declared = members[f][j].declared
      BY DEF MembersStay
    <2>1. CASE f = g
      <3>1. members'[f] = new /\ members[f] = ms
        BY <1>1, <1>3, <2>1 DEF ms
      <3> QED
        BY <1>1, <1>4, <3>1
    <2>2. CASE f # g
      <3>1. members'[f] = members[f] /\ Len(members[f]) \in Nat
        BY <1>1, <1>3, <2>2
      <3> QED
        BY <3>1
    <2> QED
      BY <2>1, <2>2
  <1>7. /\ served' = served /\ routes' = routes /\ mounted' = mounted /\ last' = last
        /\ halted' = halted /\ documents' \in {documents, Detached(g)} /\ Call
    BY DEF Append_, muxVars
  <1>8. RegistryInv'
    BY <1>7 DEF IInv, RegistryInv, Distinct, KeysOf, KeyAt
  <1>9. /\ documents' \in Seq(Documents) /\ DOMAIN documents' = DOMAIN documents
        /\ \A i \in DOMAIN documents :
              DocumentInv(documents'[i]) /\ SliceKeys(documents'[i]) = SliceKeys(documents[i])
    <2>1. documents \in Seq(Documents) /\ \A i \in DOMAIN documents : DocumentInv(documents[i])
      BY DEF IInv, DocumentsInv
    <2>2. CASE documents' = documents
      BY <2>1, <2>2
    <2>3. CASE documents' = Detached(g)
      <3> DEFINE ds == Detached(g)
      <3>1. \A i \in DOMAIN documents : /\ ds[i] \in Documents /\ DocumentInv(ds[i])
                                        /\ SliceKeys(ds[i]) = SliceKeys(documents[i])
        BY DetachedDocument
      <3>2. ds = [i \in DOMAIN documents |-> ds[i]]
        BY DEF Detached
      <3>3. DOMAIN documents = 1 .. Len(documents) /\ Len(documents) \in Nat
        BY <2>1
      <3> HIDE DEF ds
      <3>4. ds \in [1 .. Len(documents) -> Documents]
        BY <3>1, <3>2, <3>3
      <3>5. ds \in Seq(Documents) /\ DOMAIN ds = DOMAIN documents
        BY <3>3, <3>4
      <3> QED
        BY <2>1, <2>3, <3>1, <3>5 DEF ds
    <2> QED
      BY <1>7, <2>2, <2>3
  <1>10. DocumentsInv'
    BY <1>5, <1>6, <1>7, <1>9, DocumentsStay
  <1>11. LastInv' /\ (calls \in 0 .. MaxCalls)'
    BY <1>7, BoundsAssumption DEF IInv, LastInv, Call
  <1> QED
    BY <1>5, <1>8, <1>10, <1>11 DEF IInv

-----------------------------------------------------------------------------
(***************************************************************************)
(* Mount.                                                                  *)
(***************************************************************************)
LEMMA MinIsLeast ==
    ASSUME NEW T, T \subseteq Nat, T # {}
    PROVE  Min(T) \in T /\ \A y \in T : Min(T) <= y
  <1>1. \E x \in T : \A y \in T : x <= y
    BY Least
  <1> QED
    BY <1>1 DEF Min

LEMMA NoDuplicates ==
    ASSUME NEW mounts \in Seq(Mounts), Duplicates(mounts) = {}
    PROVE  /\ Distinct(mounts)
           /\ KeysOf(mounts) \cap DOMAIN routes = {}
  <1>1. DOMAIN mounts = 1 .. Len(mounts) /\ Len(mounts) \in Nat
    OBVIOUS
  <1>2. \A i \in DOMAIN mounts :
           /\ KeyAt(mounts, i) \notin DOMAIN routes
           /\ \A j \in 1 .. i - 1 : KeyAt(mounts, j) # KeyAt(mounts, i)
    BY DEF Duplicates, KeyAt
  <1>3. ASSUME NEW i \in DOMAIN mounts, NEW j \in DOMAIN mounts, i # j
        PROVE  KeyAt(mounts, i) # KeyAt(mounts, j)
    <2>1. i \in 1 .. j - 1 \/ j \in 1 .. i - 1
      BY <1>1, <1>3
    <2> QED
      BY <1>2, <2>1
  <1> QED
    BY <1>2, <1>3 DEF Distinct, KeysOf

LEMMA NoConflict ==
    ASSUME NEW mounts \in Seq(Mounts), NEW i \in DOMAIN mounts, i \notin Conflicts(mounts)
    PROVE  KeyAt(mounts, i) \notin DOMAIN served
  BY DEF Conflicts, Clash, KeyAt

\* What HandleFunc takes of a batch, up to a place.
LEMMA Beginning ==
    ASSUME IInv, NEW mounts \in Seq(Mounts), Duplicates(mounts) = {},
           NEW n \in 0 .. Len(mounts), \A i \in 1 .. n : i \notin Conflicts(mounts)
    PROVE  LET begun == SubSeq(mounts, 1, n)
           IN /\ begun \in Seq(Mounts)
              /\ Distinct(begun)
              /\ KeysOf(begun) = {KeyAt(mounts, i) : i \in 1 .. n}
              /\ KeysOf(begun) \cap DOMAIN served = {}
  <1> DEFINE begun == SubSeq(mounts, 1, n)
  <1>1. /\ begun \in Seq(Mounts) /\ DOMAIN begun = 1 .. n /\ 1 .. n \subseteq DOMAIN mounts
        /\ \A i \in 1 .. n : begun[i] = mounts[i]
    OBVIOUS
  <1> HIDE DEF begun
  <1>2. \A i \in 1 .. n : KeyAt(begun, i) = KeyAt(mounts, i)
    BY <1>1 DEF KeyAt
  <1>3. Distinct(begun)
    BY <1>1, <1>2, NoDuplicates DEF Distinct
  <1>4. KeysOf(begun) = {KeyAt(mounts, i) : i \in 1 .. n}
    BY <1>1, <1>2 DEF KeysOf
  <1>5. \A i \in 1 .. n : KeyAt(mounts, i) \notin DOMAIN served
    BY <1>1, NoConflict
  <1>6. /\ begun \in Seq(Mounts) /\ Distinct(begun)
        /\ KeysOf(begun) = {KeyAt(mounts, i) : i \in 1 .. n}
        /\ KeysOf(begun) \cap DOMAIN served = {}
    BY <1>1, <1>3, <1>4, <1>5
  <1> QED
    BY <1>6 DEF begun

\* A document of a group that was just mounted.
LEMMA SnapshotDescribes ==
    ASSUME IInv, NEW batch \in Seq(Groups), NEW b \in DOMAIN batch
    PROVE  LET d == Snapshot(batch[b])
           IN d \in Documents /\ DocumentInv(d) /\ SliceKeys(d) = GroupKeys(batch[b])
  <1> DEFINE g == batch[b]
             d == Snapshot(g)
  <1>1. g \in Groups
    OBVIOUS
  <1> HIDE DEF g
  <1>2. /\ header[g] \in Headers /\ members[g] \in Seq(Ready) /\ Len(members[g]) \in Nat
        /\ DOMAIN members[g] = 1 .. Len(members[g])
    BY <1>1 DEF IInv, GroupsTyped
  <1>3. /\ d \in Documents
        /\ d.group = g /\ d.count = Len(members[g]) /\ d.shared = TRUE
    BY <1>1, <1>2 DEF Snapshot, Documents
  <1> HIDE DEF d
  <1>4. DocumentInv(d) /\ SliceKeys(d) = GroupKeys(g)
    BY <1>2, <1>3 DEF DocumentInv, SliceKeys, GroupKeys
  <1> QED
    BY <1>3, <1>4 DEF d, g

LEMMA MountStep ==
    ASSUME IInv, NEW batch \in Batches, Mount(batch)
    PROVE  /\ IInv'
           /\ IsPrefix(mounted, mounted')
           /\ \A key \in DOMAIN served : served'[key] = served[key]
           /\ last'.outcome = "duplicate" => mounted' = mounted
  <1> DEFINE prepared == Prepared(batch)
             duplicates == Duplicates(prepared)
             conflicts == Conflicts(prepared)
  <1>1. batch \in Seq(Groups)
    BY BatchesAssumption
  <1>2. /\ prepared \in Seq(Mounts) /\ Len(prepared) \in Nat
        /\ DOMAIN prepared = 1 .. Len(prepared)
    BY <1>1, MountsOfBatch DEF IInv
  <1>3. Call /\ UNCHANGED groupVars
    BY DEF Mount
  <1>4. GroupsTyped' /\ MembersStay /\ (calls \in 0 .. MaxCalls)'
    BY <1>3, UnchangedGroups, BoundsAssumption DEF IInv, GroupsTyped, groupVars, Call
  <1>5. mounted \in Seq(Mounts)
    BY DEF IInv, RegistryInv
  <1>6. CASE /\ duplicates # {}
             /\ last' = [outcome |-> "duplicate", key |-> MuxRouteKey(prepared[Min(duplicates)])]
             /\ UNCHANGED <<served, muxVars, documents>>
    <2>1. RegistryInv' /\ LastInv'
      BY <1>6 DEF IInv, RegistryInv, LastInv, muxVars, Distinct, KeysOf, KeyAt
    <2>2. DocumentsInv'
      BY <1>4, <1>6, UnchangedDocuments DEF muxVars
    <2>3. IsPrefix(mounted, mounted') /\ mounted' = mounted /\ served' = served
      BY <1>5, <1>6 DEF muxVars, IsPrefix
    <2> QED
      BY <1>4, <2>1, <2>2, <2>3 DEF IInv
  <1>7. CASE /\ duplicates = {} /\ conflicts # {}
             /\ last' = [outcome |-> "panicked", key |-> MuxRouteKey(prepared[Min(conflicts)])]
             /\ LET begun == SubSeq(prepared, 1, Min(conflicts) - 1)
                IN /\ Register(begun)
                   /\ halted' = halted \cup {MuxRouteKey(begun[i]) : i \in DOMAIN begun}
             /\ UNCHANGED documents
    <2> DEFINE m == Min(conflicts)
               begun == SubSeq(prepared, 1, m - 1)
    <2>1. m \in DOMAIN prepared /\ \A i \in conflicts : m <= i
      <3>1. conflicts \subseteq DOMAIN prepared
        BY DEF Conflicts
      <3> QED
        BY <1>2, <1>7, <3>1, MinIsLeast
    <2> HIDE DEF m
    <2>2. m - 1 \in 0 .. Len(prepared) /\ \A i \in 1 .. m - 1 : i \notin conflicts
      BY <1>2, <2>1
    <2> HIDE DEF prepared, conflicts
    <2>3. /\ begun \in Seq(Mounts) /\ Distinct(begun) /\ KeysOf(begun) \cap DOMAIN served = {}
          /\ KeysOf(begun) = {KeyAt(prepared, i) : i \in 1 .. m - 1}
      BY <1>2, <1>7, <2>2, Beginning DEF conflicts
    <2>4. Register(begun) /\ halted' = halted \cup KeysOf(begun)
      BY <1>7 DEF m, KeysOf, KeyAt
    <2> HIDE DEF begun
    <2>5. /\ RegistryInv' /\ DOMAIN routes' = DOMAIN routes \cup KeysOf(begun)
          /\ IsPrefix(mounted, mounted') /\ \A key \in DOMAIN served : served'[key] = served[key]
      BY <2>3, <2>4, Registered DEF IInv
    <2>6. KeyAt(prepared, m) \notin DOMAIN routes'
      <3>1. Distinct(prepared) /\ KeysOf(prepared) \cap DOMAIN routes = {}
        BY <1>2, <1>7, NoDuplicates
      <3>2. KeyAt(prepared, m) \notin DOMAIN routes
        BY <2>1, <3>1 DEF KeysOf
      <3>3. \A i \in 1 .. m - 1 : i \in DOMAIN prepared /\ i # m
        BY <1>2, <2>1
      <3>4. \A i \in 1 .. m - 1 : KeyAt(prepared, i) # KeyAt(prepared, m)
        BY <2>1, <3>1, <3>3 DEF Distinct
      <3> QED
        BY <2>3, <2>5, <3>2, <3>4
    <2>7. LastInv' /\ last'.outcome = "panicked"
      BY <1>7, <2>6 DEF LastInv, KeyAt, m
    <2>8. DocumentsInv'
      <3>1. documents' = documents /\ DocumentsInv /\ GroupsTyped
        BY <1>7 DEF IInv
      <3>2. KeysOf(begun) \cap DOMAIN routes = {}
        BY <2>3 DEF IInv, RegistryInv
      <3>3. (halted \subseteq DOMAIN routes)' /\ Standing' = Standing
        BY <2>4, <2>5, <3>1, <3>2 DEF Standing, DocumentsInv
      <3> QED
        BY <1>4, <3>1, <3>3, DocumentsKept DEF DocumentsInv
    <2> QED
      BY <1>4, <2>5, <2>7, <2>8 DEF IInv
  <1>8. CASE /\ duplicates = {} /\ conflicts = {}
             /\ last' = [outcome |-> "mounted", key |-> NoKey]
             /\ Register(prepared)
             /\ documents' = documents \o [i \in DOMAIN batch |-> Snapshot(batch[i])]
             /\ UNCHANGED halted
    <2>1. /\ Distinct(prepared) /\ KeysOf(prepared) \cap DOMAIN served = {}
      <3>1. \A i \in DOMAIN prepared : KeyAt(prepared, i) \notin DOMAIN served
        BY <1>2, <1>8, NoConflict
      <3> QED
        BY <1>2, <1>8, <3>1, NoDuplicates DEF KeysOf
    <2>2. /\ RegistryInv' /\ DOMAIN routes' = DOMAIN routes \cup KeysOf(prepared)
          /\ IsPrefix(mounted, mounted') /\ \A key \in DOMAIN served : served'[key] = served[key]
      BY <1>2, <1>8, <2>1, Registered DEF IInv
    <2>3. LastInv' /\ last'.outcome = "mounted"
      BY <1>8 DEF LastInv
    <2>4. DocumentsInv'
      <3> DEFINE snaps == [i \in DOMAIN batch |-> Snapshot(batch[i])]
                 n == Len(documents)
      <3>1. \A b \in DOMAIN batch : /\ snaps[b] \in Documents /\ DocumentInv(snaps[b])
                                     /\ SliceKeys(snaps[b]) = GroupKeys(batch[b])
        BY <1>1, SnapshotDescribes
      <3>2. snaps \in Seq(Documents) /\ DOMAIN snaps = DOMAIN batch
        <4>1. DOMAIN batch = 1 .. Len(batch) /\ Len(batch) \in Nat
          BY <1>1
        <4>2. snaps \in [1 .. Len(batch) -> Documents]
          BY <3>1, <4>1
        <4> HIDE DEF snaps
        <4> QED
          BY <4>1, <4>2
      <3>3. documents' = documents \o snaps /\ DocumentsInv /\ GroupsTyped
        BY <1>8 DEF IInv
      <3> HIDE DEF snaps
      <3>4. /\ documents' \in Seq(Documents)
            /\ \A x : Holds(documents', x) <=> Holds(documents, x) \/ Holds(snaps, x)
        BY <3>2, <3>3, Concatenated DEF DocumentsInv
      <3>5. \A d : Holds(documents', d) => DocumentInv(d)
        BY <3>1, <3>2, <3>3, <3>4 DEF DocumentsInv, Holds
      <3>6. UNION {SliceKeys(documents'[i]) : i \in DOMAIN documents'}
                = Standing \cup KeysOf(prepared)
        <4>1. \A key : (\E d : Holds(documents', d) /\ key \in SliceKeys(d))
                          <=> \/ \E d : Holds(documents, d) /\ key \in SliceKeys(d)
                              \/ \E d : Holds(snaps, d) /\ key \in SliceKeys(d)
          BY <3>4, Zenon
        <4>2. \A key : (\E d : Holds(documents, d) /\ key \in SliceKeys(d)) <=> key \in Standing
          BY <3>3, Zenon DEF DocumentsInv, Holds
        <4>3. \A key : (\E d : Holds(snaps, d) /\ key \in SliceKeys(d))
                          <=> key \in KeysOf(prepared)
          <5>1. KeysOf(prepared) = UNION {GroupKeys(batch[b]) : b \in DOMAIN batch}
            BY <1>1, MountsOfBatch DEF IInv
          <5> HIDE DEF prepared
          <5> QED
            BY <3>1, <3>2, <5>1 DEF Holds
        <4> HIDE DEF prepared
        <4> QED
          BY <4>1, <4>2, <4>3 DEF Holds
      <3>7. (halted \subseteq DOMAIN routes)' /\ Standing' = Standing \cup KeysOf(prepared)
        <4>1. KeysOf(prepared) \cap DOMAIN routes = {}
          BY <2>1 DEF IInv, RegistryInv
        <4> HIDE DEF prepared
        <4> QED
          BY <1>8, <2>2, <3>3, <4>1 DEF Standing, DocumentsInv
      <3> QED
        <4>1. \A i \in DOMAIN documents' : DocumentInv(documents'[i])
          BY <3>5 DEF Holds
        <4> HIDE DEF prepared
        <4> QED
          BY <1>4, <3>3, <3>4, <3>6, <3>7, <4>1, DocumentsKept
    <2> QED
      BY <1>4, <2>2, <2>3, <2>4 DEF IInv
  <1> QED
    BY <1>6, <1>7, <1>8 DEF Mount

-----------------------------------------------------------------------------
(***************************************************************************)
(* The theorems.                                                           *)
(***************************************************************************)
LEMMA InitIInv == Init => IInv
  <1> SUFFICES ASSUME Init PROVE IInv
    OBVIOUS
  <1>1. Empty \in Headers
    BY DEF Empty, Headers, Authorizations, NoTimeout, NoBackend
  <1>2. GroupsTyped
    BY <1>1 DEF Init, GroupsTyped
  <1>3. RegistryInv
    BY DEF Init, RegistryInv, Distinct, KeysOf
  <1>4. DocumentsInv
    BY DEF Init, DocumentsInv, Standing
  <1>5. LastInv /\ calls \in 0 .. MaxCalls
    BY BoundsAssumption DEF Init, LastInv
  <1> QED
    BY <1>2, <1>3, <1>4, <1>5 DEF IInv

LEMMA AddStep ==
    ASSUME IInv, NEW g \in Groups, NEW spec \in Specs, Add(g, spec)
    PROVE  IInv'
  BY DefinedIsReady, AppendStep DEF Add

LEMMA AddAgainStep ==
    ASSUME IInv, NEW g \in Groups, NEW h \in Groups, NEW i \in 1 .. MaxMembers, AddAgain(g, h, i)
    PROVE  IInv'
  <1>1. members[h] \in Seq(Ready) /\ i \in DOMAIN members[h]
    BY DEF IInv, GroupsTyped, AddAgain
  <1>2. members[h][i] \in Ready
    BY <1>1
  <1> QED
    BY <1>2, AppendStep DEF AddAgain

\* Every call of the application keeps the invariant, and only adds to what is
\* mounted and served.
LEMMA NextStep ==
    ASSUME IInv, [Next]_vars
    PROVE  /\ IInv'
           /\ IsPrefix(mounted, mounted')
           /\ \A key \in DOMAIN served : served'[key] = served[key]
           /\ last'.outcome = "duplicate" /\ last' # last => mounted' = mounted
  <1>1. mounted \in Seq(Mounts)
    BY DEF IInv, RegistryInv
  <1>2. ASSUME mounted' = mounted, \A key \in DOMAIN served : served'[key] = served[key]
        PROVE  /\ IsPrefix(mounted, mounted')
               /\ \A key \in DOMAIN served : served'[key] = served[key]
               /\ last'.outcome = "duplicate" /\ last' # last => mounted' = mounted
    BY <1>1, <1>2 DEF IsPrefix
  <1>3. CASE UNCHANGED vars
    <2>1. IInv'
      <3>1. GroupsTyped' /\ RegistryInv' /\ LastInv' /\ (calls \in 0 .. MaxCalls)'
        BY <1>3 DEF IInv, GroupsTyped, RegistryInv, LastInv, vars, muxVars, Distinct, KeysOf, KeyAt
      <3>2. DocumentsInv'
        BY <1>3, <3>1, UnchangedGroups, UnchangedDocuments DEF vars
      <3> QED
        BY <3>1, <3>2 DEF IInv
    <2> QED
      BY <1>2, <1>3, <2>1 DEF vars, muxVars
  <1>4. ASSUME NEW g \in Groups, MarkInternal(g)
        PROVE  IInv' /\ mounted' = mounted /\ served' = served
    BY <1>4, MarkInternalStep DEF MarkInternal, Configure, muxVars
  <1>5. ASSUME NEW g \in Groups, NEW auth \in AuthKinds, RequireAuthorization(g, auth)
        PROVE  IInv' /\ mounted' = mounted /\ served' = served
    BY <1>5, RequireAuthorizationStep DEF RequireAuthorization, Configure, muxVars
  <1>6. ASSUME NEW g \in Groups, NEW callers \in SUBSET Caller, AvailableTo(g, callers)
        PROVE  IInv' /\ mounted' = mounted /\ served' = served
    BY <1>6, AvailableToStep DEF AvailableTo, Configure, muxVars
  <1>7. ASSUME NEW g \in Groups, NEW timeout \in Timeouts, ConfigureTimeoutSpec(g, timeout)
        PROVE  IInv' /\ mounted' = mounted /\ served' = served
    BY <1>7, ConfigureTimeoutStep DEF ConfigureTimeoutSpec, Configure, muxVars
  <1>8. ASSUME NEW g \in Groups, NEW backend \in Backends, ConfigureRouteBackend(g, backend)
        PROVE  IInv' /\ mounted' = mounted /\ served' = served
    BY <1>8, ConfigureRouteBackendStep DEF ConfigureRouteBackend, muxVars
  <1>9. ASSUME NEW g \in Groups, NEW spec \in Specs, Add(g, spec)
        PROVE  IInv' /\ mounted' = mounted /\ served' = served
    BY <1>9, AddStep DEF Add, Append_, muxVars
  <1>10. ASSUME NEW g \in Groups, NEW h \in Groups, NEW i \in 1 .. MaxMembers, AddAgain(g, h, i)
         PROVE  IInv' /\ mounted' = mounted /\ served' = served
    BY <1>10, AddAgainStep DEF AddAgain, Append_, muxVars
  <1>11. ASSUME NEW key \in ForeignKeys, HandleElsewhere(key)
         PROVE  IInv' /\ mounted' = mounted /\ \A k \in DOMAIN served : served'[k] = served[k]
    <2>1. mounted' = mounted /\ key \notin DOMAIN served
      BY <1>11 DEF HandleElsewhere, Clash, muxVars
    <2>2. \A k \in DOMAIN served : served'[k] = served[k]
      BY <1>11, <2>1 DEF HandleElsewhere, Put
    <2> QED
      BY <1>11, <2>1, <2>2, HandleElsewhereStep
  <1>12. CASE \E batch \in Batches : Mount(batch)
    BY <1>12, MountStep
  <1>13. CASE Next /\ ~ \E batch \in Batches : Mount(batch)
    <2>1. IInv' /\ mounted' = mounted /\ \A key \in DOMAIN served : served'[key] = served[key]
      BY <1>4, <1>5, <1>6, <1>7, <1>8, <1>9, <1>10, <1>11, <1>13, Zenon DEF Next
    <2> QED
      BY <1>2, <2>1
  <1> QED
    BY <1>3, <1>12, <1>13

THEOREM MuxInvariant == Spec => []IInv
  <1>1. IInv /\ [Next]_vars => IInv'
    BY NextStep
  <1> QED
    BY InitIInv, <1>1, PTL DEF Spec

LEMMA MemberReady ==
    ASSUME IInv, NEW g \in Groups, NEW i \in DOMAIN members[g]
    PROVE  members[g][i] \in Ready
  <1>1. members[g] \in Seq(Ready)
    BY DEF IInv, GroupsTyped
  <1> QED
    BY <1>1

\* The state of groups, Mux and ServeMux is what their types say, and what an
\* endpoint inherited it has.
THEOREM TypeCorrect == Spec => []TypeOK
  <1>1. IInv => TypeOK
    <2> SUFFICES ASSUME IInv PROVE TypeOK
      OBVIOUS
    <2>1. ASSUME NEW g \in Groups, NEW i \in DOMAIN members[g]
          PROVE  /\ members[g][i].declared \in Specs
                 /\ members[g][i].callers \in CallerSets
                 /\ members[g][i].groupCallers \in CallerSets
                 /\ members[g][i].authInherited => members[g][i].auth # "none"
                 /\ members[g][i].timeoutInherited => members[g][i].timeout # NoTimeout
      <3>1. members[g][i] \in Endpoints /\ Keeps(members[g][i])
        BY MemberReady DEF Ready, Drafts
      <3> QED
        BY <3>1 DEF Endpoints, Keeps
    <2>2. header \in [Groups -> Headers] /\ DOMAIN routes \subseteq DOMAIN served
      BY DEF IInv, GroupsTyped, RegistryInv
    <2> QED
      BY <2>1, <2>2 DEF TypeOK, IInv, LastInv
  <1> QED
    BY <1>1, MuxInvariant, PTL

\* The wrapper of every endpoint of every group is built from its policy.
THEOREM WrappersAreCurrent == Spec => []HandlerIsCurrent
  <1>1. IInv => HandlerIsCurrent
    BY MemberReady DEF HandlerIsCurrent, Ready
  <1> QED
    BY <1>1, MuxInvariant, PTL

\* A Mount panics only at a pattern the Mux did not register itself.
THEOREM PanicsComeFromElsewhere == Spec => []PanicsAreForeign
  <1>1. IInv => PanicsAreForeign
    BY DEF PanicsAreForeign, IInv, LastInv
  <1> QED
    BY <1>1, MuxInvariant, PTL

\* The registry of a Mux says what its ServeMux serves, each key once.
THEOREM RegistryIsServed == Spec => []RegistryMatchesServer
  <1>1. IInv => RegistryMatchesServer
    <2> SUFFICES ASSUME IInv PROVE RegistryMatchesServer
      OBVIOUS
    <2> DEFINE n == Len(mounted)
               f == [i \in 1 .. n |-> KeyAt(mounted, i)]
    <2>1. /\ n \in Nat /\ DOMAIN mounted = 1 .. n /\ DOMAIN routes = KeysOf(mounted)
          /\ Distinct(mounted)
      BY DEF IInv, RegistryInv
    <2>2. n = Cardinality(DOMAIN routes)
      <3>1. f \in Bijection(1 .. n, DOMAIN routes)
        <4>1. \A i \in 1 .. n : f[i] = KeyAt(mounted, i)
          OBVIOUS
        <4>2. f \in [1 .. n -> DOMAIN routes]
          BY <2>1 DEF KeysOf
        <4> HIDE DEF f
        <4>3. \A i, j \in 1 .. n : f[i] = f[j] => i = j
          BY <2>1, <4>1 DEF Distinct
        <4>4. \A key \in DOMAIN routes : \E i \in 1 .. n : f[i] = key
          BY <2>1, <4>1 DEF KeysOf
        <4> QED
          BY <4>2, <4>3, <4>4 DEF Bijection, Injection, Surjection, IsInjective
      <3>2. ExistsBijection(1 .. n, DOMAIN routes)
        BY <3>1 DEF ExistsBijection
      <3> QED
        BY <2>1, <3>2, FS_CountingElements, Zenon
    <2>3. \A i \in DOMAIN mounted : routes[MuxRouteKey(mounted[i])] = mounted[i]
      BY DEF IInv, RegistryInv, KeyAt
    <2>4. \A key \in DOMAIN served :
             IF key \in DOMAIN routes THEN served[key] = routes[key].endpoint.handler
             ELSE served[key] = NoHandler
      BY DEF IInv, RegistryInv
    <2> QED
      BY <2>2, <2>3, <2>4 DEF RegistryMatchesServer
  <1> QED
    BY <1>1, MuxInvariant, PTL

\* An endpoint is served with what it declares and, where it declares nothing,
\* with what its group said when it was mounted.
THEOREM PolicyIsServed == Spec => []ServedAsDeclared
  <1>1. IInv => ServedAsDeclared
    <2> SUFFICES ASSUME IInv, NEW key \in DOMAIN routes
                 PROVE  LET spec == routes[key].endpoint.declared
                            group == routes[key].header
                            handler == served[key]
                        IN /\ spec.internal \/ group.internal => handler.internal
                           /\ spec.auth # "none" => handler.auth = spec.auth
                           /\ spec.auth = "none" /\ group.auth # "none" => handler.auth = group.auth
                           /\ handler.timeout = IF spec.timeout # NoTimeout THEN spec.timeout
                                                ELSE group.timeout
                           /\ \A caller \in Caller \cup {NoCaller} :
                                 Allows(handler.callers, caller) <=>
                                     /\ Allows(AsSet(spec.callers), caller)
                                     /\ Allows(SetOf(group.callers), caller)
      BY DEF ServedAsDeclared
    <2>1. PICK m \in Mounts : routes[key] = m
      BY DEF IInv, RegistryInv, KeysOf, KeyAt
    <2> DEFINE e == m.endpoint
               spec == e.declared
               group == m.header
    <2>2. e \in Endpoints /\ Keeps(e) /\ e.handler = HttpHandler(e) /\ Applied(group, e)
          /\ group \in Headers
      BY DEF Mounts, Ready, Drafts
    <2>3. served[key] = HttpHandler(e)
      BY <2>1, <2>2 DEF IInv, RegistryInv
    <2> DEFINE both == Intersect(e.callers, e.groupCallers)
               handler == served[key]
    <2>4. /\ handler.internal = e.internal /\ handler.auth = e.auth
          /\ handler.timeout = e.timeout /\ handler.callers = both
      BY <2>3 DEF HttpHandler
    <2>5. e.callers = AsSet(spec.callers) /\ e.groupCallers = SetOf(group.callers)
          /\ e.callers \in CallerSets /\ e.groupCallers \in CallerSets
      BY <2>2 DEF Keeps, Applied, Endpoints
    <2>6. \A caller : Allows(both, caller) <=> Allows(e.callers, caller) /\ Allows(e.groupCallers, caller)
      BY <2>5 DEF Allows, Intersect, CallerSets
    <2> HIDE DEF both, handler, e
    <2>7. /\ spec.internal \/ group.internal => handler.internal
          /\ spec.auth # "none" => handler.auth = spec.auth
          /\ spec.auth = "none" /\ group.auth # "none" => handler.auth = group.auth
          /\ handler.timeout = IF spec.timeout # NoTimeout THEN spec.timeout ELSE group.timeout
      BY <2>2, <2>4 DEF Keeps, Applied
    <2>8. \A caller : Allows(handler.callers, caller) <=>
                          /\ Allows(AsSet(spec.callers), caller)
                          /\ Allows(SetOf(group.callers), caller)
      BY <2>4, <2>5, <2>6
    <2>9. routes[key].endpoint.declared = spec /\ routes[key].header = group
      BY <2>1 DEF e
    <2> QED
      BY <2>7, <2>8, <2>9 DEF handler
  <1> QED
    BY <1>1, MuxInvariant, PTL

\* What a document sees of its group: endpoints that are ready, with the
\* metadata of the group.
LEMMA DocumentedEndpoints ==
    ASSUME IInv, NEW i \in DOMAIN documents
    PROVE  /\ documents[i] \in Documents
           /\ Documented(documents[i]) \in Seq(Ready)
           /\ SliceKeys(documents[i]) =
                  UNION {SpecKeys(documents[i].group, Documented(documents[i])[j].declared) :
                            j \in DOMAIN Documented(documents[i])}
  <1>1. PICK d \in Documents : d = documents[i] /\ DocumentInv(d)
    BY DEF IInv, DocumentsInv
  <1> DEFINE endpoints == IF d.shared THEN SubSeq(members[d.group], 1, d.count) ELSE d.endpoints
  <1>2. Documented(d) = [k \in DOMAIN endpoints |-> EndpointWithGroupMetadata(d.header, endpoints[k])]
    BY DEF Documented
  <1>3. /\ endpoints \in Seq(Ready)
        /\ SliceKeys(d) = UNION {SpecKeys(d.group, endpoints[j].declared) : j \in DOMAIN endpoints}
    <2>1. CASE d.shared
      <3> DEFINE all == members[d.group]
      <3>1. all \in Seq(Ready) /\ d.count \in 0 .. Len(all)
        BY <1>1, <2>1 DEF IInv, GroupsTyped, Documents, DocumentInv
      <3>2. endpoints = SubSeq(all, 1, d.count)
        BY <2>1
      <3>3. SliceKeys(d) = UNION {SpecKeys(d.group, all[j].declared) : j \in 1 .. d.count}
        BY <2>1 DEF SliceKeys
      <3> HIDE DEF all, endpoints
      <3>4. /\ endpoints \in Seq(Ready) /\ DOMAIN endpoints = 1 .. d.count
            /\ \A k \in 1 .. d.count : endpoints[k] = all[k]
        BY <3>1, <3>2
      <3> QED
        BY <3>3, <3>4
    <2>2. CASE ~ d.shared
      BY <1>1, <2>2 DEF SliceKeys, Documents
    <2> QED
      BY <2>1, <2>2
  <1> HIDE DEF endpoints
  <1>4. ASSUME NEW j \in DOMAIN endpoints
        PROVE  /\ Documented(d)[j] \in Ready
               /\ Documented(d)[j].declared = endpoints[j].declared
    <2>1. endpoints[j] \in Ready
      BY <1>3
    <2> QED
      BY <1>2, <2>1, MetadataApplied DEF Documents, Ready
  <1>5. Documented(d) \in Seq(Ready) /\ DOMAIN Documented(d) = DOMAIN endpoints
    <2>1. DOMAIN endpoints = 1 .. Len(endpoints) /\ Len(endpoints) \in Nat
      BY <1>3
    <2> QED
      BY <1>2, <1>4, <2>1
  <1> QED
    BY <1>1, <1>3, <1>4, <1>5

\* What is mounted and served stays, and a Mount that failed mounted nothing.
THEOREM MountedStays == Spec => SnapshotIsReadOnly
  <1>1. IInv /\ [Next]_vars =>
            [/\ IsPrefix(mounted, mounted')
             /\ \A key \in DOMAIN served : served'[key] = served[key]
             /\ last'.outcome = "duplicate" /\ last' # last => mounted' = mounted]_vars
    BY NextStep
  <1> QED
    BY <1>1, MuxInvariant, PTL DEF Spec, SnapshotIsReadOnly
-----------------------------------------------------------------------------
(***************************************************************************)
(* The documents that describe a server.  Places(kind, described, n) are   *)
(* the places up to n whose routes the document keeps.                     *)
(***************************************************************************)

\* W holds the document after each of the routes.
Writes(kind, described, n, W) ==
    W = [m \in 0 .. n |-> IF m = 0 THEN NewDocument
                          ELSE DocumentOperation(kind, W[m - 1], described[m])]

LEMMA Writing ==
    ASSUME NEW kind, NEW described, Len(described) \in Nat
    PROVE  \E W : /\ Writes(kind, described, Len(described), W)
                  /\ Describe(kind, described) = W[Len(described)]
  <1> DEFINE N == Len(described)
             Without == {n \in 0 .. N : \A W : ~ Writes(kind, described, n, W)}
  <1>1. Without = {}
    <2> SUFFICES ASSUME Without # {} PROVE FALSE
      OBVIOUS
    <2>1. PICK n \in Without : \A m \in Without : n <= m
      <3>1. Without \subseteq Nat
        OBVIOUS
      <3> QED
        BY <3>1, Least
    <2>2. n # 0
      <3> DEFINE f == [i \in 0 .. 0 |-> NewDocument]
      <3>1. Writes(kind, described, 0, f)
        BY DEF Writes
      <3> QED
        BY <3>1
    <2>3. n - 1 \in 0 .. N /\ ~ (n <= n - 1) /\ n \in 1 .. N
      BY <2>2
    <2>4. PICK W : Writes(kind, described, n - 1, W)
      BY <2>1, <2>3
    <2> DEFINE V == [m \in 0 .. n |-> IF m = n THEN DocumentOperation(kind, W[n - 1], described[n])
                                      ELSE W[m]]
    <2>5. Writes(kind, described, n, V)
      <3>1. \A m \in 0 .. n - 1 : W[m] = IF m = 0 THEN NewDocument
                                         ELSE DocumentOperation(kind, W[m - 1], described[m])
        BY <2>4 DEF Writes
      <3>2. ASSUME NEW m \in 0 .. n
            PROVE  V[m] = IF m = 0 THEN NewDocument
                          ELSE DocumentOperation(kind, V[m - 1], described[m])
        <4>1. m # 0 => m - 1 \in 0 .. n /\ m - 1 # n
          BY <2>3
        <4>2. m # n => m \in 0 .. n - 1
          BY <2>3
        <4>3. V[m] = IF m = n THEN DocumentOperation(kind, W[n - 1], described[n]) ELSE W[m]
          OBVIOUS
        <4>4. m # 0 => V[m - 1] = W[m - 1]
          BY <4>1
        <4> HIDE DEF V
        <4> QED
          BY <2>2, <3>1, <4>2, <4>3, <4>4, Zenon
      <3> QED
        BY <3>2 DEF Writes
    <2> QED
      BY <2>1, <2>5
  <1>2. PICK W : Writes(kind, described, N, W)
    <2>1. N \in 0 .. N
      OBVIOUS
    <2> HIDE DEF N
    <2> QED
      BY <1>1, <2>1
  <1> DEFINE written == CHOOSE h : h = [m \in 0 .. N |->
                             IF m = 0 THEN NewDocument
                             ELSE DocumentOperation(kind, h[m - 1], described[m])]
  <1>3. Writes(kind, described, N, written)
    BY <1>2 DEF Writes
  <1>4. Describe(kind, described) = written[N]
    BY DEF Describe
  <1> QED
    BY <1>3, <1>4

\* The routes a document keeps, what it says of one, and whether it can.
Kept(kind, route) == kind = "gateway" \/ ~ route.endpoint.internal
Known(kind, route) == kind = "gateway" => GatewayBackend(route.endpoint) # NoBackend
Entry(kind, route) ==
    IF kind = "gateway"
    THEN [id |-> OperationIDForRoute(route), auth |-> route.endpoint.auth,
          internal |-> route.endpoint.internal, backend |-> GatewayBackend(route.endpoint)]
    ELSE [id |-> OperationIDForRoute(route), auth |-> route.endpoint.auth]

LEMMA EntryShows ==
    ASSUME NEW kind, NEW route
    PROVE  /\ Entry(kind, route).id = OperationIDForRoute(route)
           /\ Entry(kind, route).auth = route.endpoint.auth
           /\ kind = "gateway" => Entry(kind, route).internal = route.endpoint.internal
  BY DEF Entry

LEMMA DocumentOperationIs ==
    ASSUME NEW kind, NEW document, NEW route
    PROVE  DocumentOperation(kind, document, route) =
               IF ~ Kept(kind, route) THEN document
               ELSE IF ~ Known(kind, route) THEN [document EXCEPT !.ok = FALSE]
               ELSE AddOperation(document, route, Entry(kind, route))
  BY DEF DocumentOperation, PublicOperation, GatewayOperation, Kept, Known, Entry

Places(kind, described, n) == {i \in 1 .. n : Kept(kind, described[i])}

\* What a document is after the first n routes: it failed when two of them are
\* confused or one is not known, and it has each of them and no other.
Exact(kind, described, n, document) ==
    LET places == Places(kind, described, n)
    IN  /\ DOMAIN document = {"ok", "operations"}
        /\ document.ok \in BOOLEAN
        /\ document.ok <=>
              /\ \A i \in places : Known(kind, described[i])
              /\ \A i, j \in places : i # j => ~ Confused(described[i], described[j])
        /\ document.ok =>
              /\ DOMAIN document.operations = {DocumentKey(described[i]) : i \in places}
              /\ \A i \in places : document.operations[DocumentKey(described[i])]
                                   = Entry(kind, described[i])

LEMMA ConfusedSymmetric ==
    \A left, right : Confused(left, right) <=> Confused(right, left)
  BY DEF Confused

LEMMA ExactStep ==
    ASSUME NEW kind, NEW described, NEW n \in Nat, NEW document,
           Exact(kind, described, n, document)
    PROVE  Exact(kind, described, n + 1, DocumentOperation(kind, document, described[n + 1]))
  <1> DEFINE route == described[n + 1]
             key == DocumentKey(route)
             entry == Entry(kind, route)
             places == Places(kind, described, n)
             next == Places(kind, described, n + 1)
             after == DocumentOperation(kind, document, route)
  <1>1. /\ n + 1 \notin places
        /\ next = IF Kept(kind, route) THEN places \cup {n + 1} ELSE places
    <2>1. 1 .. n + 1 = (1 .. n) \cup {n + 1} /\ n + 1 \notin 1 .. n
      OBVIOUS
    <2> QED
      BY <2>1 DEF Places
  <1>2. /\ DOMAIN document = {"ok", "operations"}
        /\ document.ok \in BOOLEAN
        /\ document.ok <=>
              /\ \A i \in places : Known(kind, described[i])
              /\ \A i, j \in places : i # j => ~ Confused(described[i], described[j])
        /\ document.ok =>
              /\ DOMAIN document.operations = {DocumentKey(described[i]) : i \in places}
              /\ \A i \in places : document.operations[DocumentKey(described[i])]
                                   = Entry(kind, described[i])
    BY DEF Exact
  <1>3. after = IF ~ Kept(kind, route) THEN document
                ELSE IF ~ Known(kind, route) THEN [document EXCEPT !.ok = FALSE]
                ELSE AddOperation(document, route, entry)
    BY DocumentOperationIs
  <1> HIDE DEF places, next, after, entry
  <1>4. SUFFICES /\ DOMAIN after = {"ok", "operations"}
                 /\ after.ok \in BOOLEAN
                 /\ after.ok <=>
                       /\ \A i \in next : Known(kind, described[i])
                       /\ \A i, j \in next : i # j => ~ Confused(described[i], described[j])
                 /\ after.ok =>
                       /\ DOMAIN after.operations = {DocumentKey(described[i]) : i \in next}
                       /\ \A i \in next : after.operations[DocumentKey(described[i])]
                                          = Entry(kind, described[i])
    BY DEF Exact, next, after
  <1>5. CASE ~ Kept(kind, route)
    BY <1>1, <1>2, <1>3, <1>5
  <1>6. CASE Kept(kind, route) /\ ~ Known(kind, route)
    BY <1>1, <1>2, <1>3, <1>6
  <1>7. CASE Kept(kind, route) /\ Known(kind, route)
    <2> DEFINE taken == \/ key \in DOMAIN document.operations
                        \/ \E k \in DOMAIN document.operations : document.operations[k].id = entry.id
               added == Put([k \in {key} |-> entry], document.operations)
    <2>1. next = places \cup {n + 1} /\ after = AddOperation(document, route, entry)
      BY <1>1, <1>3, <1>7
    <2>2. after = IF ~ document.ok \/ taken THEN [document EXCEPT !.ok = FALSE]
                  ELSE [document EXCEPT !.operations = added]
      BY <2>1 DEF AddOperation
    <2>3. entry.id = OperationIDForRoute(route)
      BY EntryShows DEF entry
    <2>4. document.ok => (taken <=> \E i \in places : Confused(described[i], route))
      <3> SUFFICES ASSUME document.ok
                   PROVE  taken <=> \E i \in places : Confused(described[i], route)
        OBVIOUS
      <3>1. \A i \in places : /\ DocumentKey(described[i]) \in DOMAIN document.operations
                              /\ document.operations[DocumentKey(described[i])].id
                                 = OperationIDForRoute(described[i])
        BY <1>2, EntryShows
      <3>2. \A k \in DOMAIN document.operations : \E i \in places : k = DocumentKey(described[i])
        BY <1>2
      <3> HIDE DEF route
      <3> QED
        BY <2>3, <3>1, <3>2, Zenon DEF Confused
    <2>5. CASE ~ document.ok \/ taken
      <3>1. after = [document EXCEPT !.ok = FALSE]
        BY <2>2, <2>5
      <3>2. ~ /\ \A i \in next : Known(kind, described[i])
              /\ \A i, j \in next : i # j => ~ Confused(described[i], described[j])
        <4> HIDE DEF taken
        <4> QED
          BY <1>1, <1>2, <2>1, <2>4, <2>5
      <3> QED
        BY <1>2, <3>1, <3>2
    <2>6. CASE document.ok /\ ~ taken
      <3>1. after = [document EXCEPT !.operations = added]
        BY <2>2, <2>6
      <3>2. DOMAIN after = {"ok", "operations"} /\ after.ok /\ after.operations = added
        BY <1>2, <2>6, <3>1
      <3>3. \A i \in places : ~ Confused(described[i], route) /\ ~ Confused(route, described[i])
        BY <2>4, <2>6, ConfusedSymmetric
      <3>4. /\ \A i \in next : Known(kind, described[i])
            /\ \A i, j \in next : i # j => ~ Confused(described[i], described[j])
        <4> HIDE DEF taken
        <4>1. /\ \A i \in places : Known(kind, described[i])
              /\ \A i, j \in places : i # j => ~ Confused(described[i], described[j])
          BY <1>2, <2>6
        <4> QED
          BY <1>7, <2>1, <3>3, <4>1
      <3>5. /\ DOMAIN added = {key} \cup DOMAIN document.operations
            /\ added[key] = entry
            /\ \A k \in DOMAIN document.operations : k # key => added[k] = document.operations[k]
        BY DEF Put
      <3>6. \A i \in places : DocumentKey(described[i]) # key
        BY <3>3 DEF Confused
      <3>7. DOMAIN added = {DocumentKey(described[i]) : i \in next}
        <4> HIDE DEF added
        <4>1. DOMAIN document.operations = {DocumentKey(described[i]) : i \in places}
          BY <1>2, <2>6
        <4> QED
          BY <2>1, <3>5, <4>1
      <3>8. ASSUME NEW i \in next
            PROVE  added[DocumentKey(described[i])] = Entry(kind, described[i])
        <4> HIDE DEF added
        <4>1. CASE i = n + 1
          BY <3>5, <4>1 DEF entry
        <4>2. CASE i # n + 1
          <5>1. i \in places
            BY <2>1, <4>2
          <5>2. /\ DocumentKey(described[i]) \in DOMAIN document.operations
                /\ document.operations[DocumentKey(described[i])] = Entry(kind, described[i])
            BY <1>2, <2>6, <5>1
          <5> QED
            BY <3>5, <3>6, <5>1, <5>2
        <4> QED
          BY <4>1, <4>2
      <3> QED
        BY <3>2, <3>4, <3>7, <3>8
    <2> QED
      BY <1>2, <2>5, <2>6
  <1> QED
    BY <1>5, <1>6, <1>7

\* A document is exact, whatever routes it describes (describeOpenAPI31,
\* describeGCPAPIGateway).
LEMMA DescribeIsExact ==
    ASSUME NEW kind, NEW described, Len(described) \in Nat
    PROVE  Exact(kind, described, Len(described), Describe(kind, described))
  <1> DEFINE N == Len(described)
  <1>1. PICK W : Writes(kind, described, N, W) /\ Describe(kind, described) = W[N]
    BY Writing
  <1>2. \A m \in 0 .. N : W[m] = IF m = 0 THEN NewDocument
                                 ELSE DocumentOperation(kind, W[m - 1], described[m])
    BY <1>1 DEF Writes
  <1> HIDE DEF N
  <1>3. N \in Nat
    BY DEF N
  <1> DEFINE Wrong == {n \in 0 .. N : ~ Exact(kind, described, n, W[n])}
  <1>4. Wrong = {}
    <2> SUFFICES ASSUME Wrong # {} PROVE FALSE
      OBVIOUS
    <2>1. PICK n \in Wrong : \A m \in Wrong : n <= m
      <3>1. Wrong \subseteq Nat
        OBVIOUS
      <3> QED
        BY <3>1, Least
    <2>2. CASE n = 0
      <3>1. W[0] = NewDocument
        BY <1>2, <1>3
      <3>2. Places(kind, described, 0) = {}
        BY DEF Places
      <3>3. Exact(kind, described, 0, NewDocument)
        BY <3>2 DEF Exact, NewDocument
      <3> QED
        BY <2>1, <2>2, <3>1, <3>3
    <2>3. CASE n # 0
      <3> DEFINE m == n - 1
      <3>1. m \in Nat /\ m \in 0 .. N /\ ~ (n <= m) /\ m + 1 = n
        BY <1>3, <2>1, <2>3
      <3>2. W[n] = DocumentOperation(kind, W[m], described[n])
        BY <1>2, <2>1, <2>3
      <3>3. Exact(kind, described, m, W[m])
        BY <2>1, <3>1
      <3> HIDE DEF m
      <3> QED
        BY <2>1, <3>1, <3>2, <3>3, ExactStep
    <2> QED
      BY <2>2, <2>3
  <1>5. Exact(kind, described, N, W[N])
    <2>1. N \in 0 .. N
      BY <1>3
    <2> QED
      BY <1>4, <2>1
  <1> QED
    BY <1>1, <1>5 DEF N

-----------------------------------------------------------------------------
(***************************************************************************)
(* The routes a server describes are a list.                               *)
(***************************************************************************)
Routes == [method : Methods, path : {DocumentPath[path] : path \in DOMAIN DocumentPath},
           endpoint : Ready,
           canonicalPath : {DocumentPath[path] : path \in DOMAIN DocumentPath},
           alias : Paths \cup {Canonical, "blank"}]

\* The places of a list of routes in a document, and that of a key.
PlacesOf(list) == {DocumentKey(list[i]) : i \in DOMAIN list}
Place(key) == <<key[1], DocumentPath[key[2]]>>

LEMMA FlattenedPlaces ==
    ASSUME NEW S, NEW seqs \in Seq(Seq(S))
    PROVE  PlacesOf(FlattenSeq(seqs)) = UNION {PlacesOf(seqs[i]) : i \in DOMAIN seqs}
  <1> DEFINE flat == FlattenSeq(seqs)
  <1>1. \A x : Holds(flat, x) <=> \E i \in DOMAIN seqs : Holds(seqs[i], x)
    BY Flattened
  <1> HIDE DEF flat
  <1>2. ASSUME NEW seq, NEW place
        PROVE  place \in PlacesOf(seq) <=> \E x : Holds(seq, x) /\ place = DocumentKey(x)
    BY DEF PlacesOf, Holds
  <1>3. \A place : place \in PlacesOf(flat)
                      <=> \E i \in DOMAIN seqs : place \in PlacesOf(seqs[i])
    BY <1>1, <1>2
  <1> QED
    BY <1>3 DEF flat

LEMMA RoutesOfEndpointAre ==
    ASSUME NEW g \in Groups, NEW e \in Ready
    PROVE  /\ RoutesOfEndpoint(g, e) \in Seq(Routes)
           /\ PlacesOf(RoutesOfEndpoint(g, e)) = {Place(key) : key \in SpecKeys(g, e.declared)}
  <1> DEFINE spec == e.declared
             P(path) == DocumentPath[MountedPath[g, path]]
             Route(path, alias) == [method |-> spec.method, path |-> P(path), endpoint |-> e,
                                    canonicalPath |-> P(spec.path), alias |-> alias]
             others == [i \in DOMAIN spec.aliases |-> Route(spec.aliases[i], spec.aliases[i])]
  <1>1. /\ spec.method \in Methods /\ spec.path \in Paths
        /\ spec.aliases \in Seq(Paths \cup {"blank"})
        /\ \A i \in DOMAIN spec.aliases : spec.aliases[i] # "blank"
    BY SpecsAssumption DEF Ready, Drafts, Endpoints, Keeps, NamesAliases, EndpointSpecs
  <1>2. \A path \in Paths : P(path) \in {DocumentPath[q] : q \in DOMAIN DocumentPath}
    BY DocumentPathAssumption
  <1> HIDE DEF P
  <1>3. /\ DOMAIN spec.aliases = 1 .. Len(spec.aliases) /\ Len(spec.aliases) \in Nat
        /\ \A i \in DOMAIN spec.aliases : spec.aliases[i] \in Paths
    BY <1>1
  <1>4. \A path \in Paths : \A alias \in Paths \cup {Canonical} : Route(path, alias) \in Routes
    BY <1>1, <1>2 DEF Routes
  <1> DEFINE At(path) == <<spec.method, P(path)>>
  <1>8. \A path \in Paths : \A alias : DocumentKey(Route(path, alias)) = At(path)
    BY DEF DocumentKey
  <1> HIDE DEF Route
  <1>5. others \in Seq(Routes)
    BY <1>3, <1>4
  <1>6. <<Route(spec.path, Canonical)>> \in Seq(Routes)
    BY <1>1, <1>4
  <1>7. RoutesOfEndpoint(g, e) = <<Route(spec.path, Canonical)>> \o others
    BY DEF RoutesOfEndpoint, Route, P
  <1> DEFINE first == <<Route(spec.path, Canonical)>>
  <1>9. \A place : place \in PlacesOf(first \o others) <=> \E path \in PathsOf(spec) : place = At(path)
    <2>1. \A x : Holds(first, x) <=> x = Route(spec.path, Canonical)
      BY DEF Holds
    <2>2. \A x : Holds(others, x)
                    <=> \E i \in DOMAIN spec.aliases : x = Route(spec.aliases[i], spec.aliases[i])
      BY DEF Holds
    <2> HIDE DEF others, first, At
    <2>3. \A x : Holds(first \o others, x) <=> Holds(first, x) \/ Holds(others, x)
      <3>1. first \in Seq(Routes)
        BY <1>6 DEF first
      <3> QED
        BY <1>5, <3>1, Concatenated
    <2> DEFINE all == first \o others
    <2>4. \A place : place \in PlacesOf(all) <=> \E x : Holds(all, x) /\ place = DocumentKey(x)
      <3> HIDE DEF all
      <3> QED
        BY DEF PlacesOf, Holds
    <2> HIDE DEF all
    <2>5. /\ DocumentKey(Route(spec.path, Canonical)) = At(spec.path)
          /\ \A i \in DOMAIN spec.aliases :
                DocumentKey(Route(spec.aliases[i], spec.aliases[i])) = At(spec.aliases[i])
      BY <1>1, <1>3, <1>8
    <2>6. \A path : path \in PathsOf(spec)
                       <=> path = spec.path \/ \E i \in DOMAIN spec.aliases : path = spec.aliases[i]
      BY DEF PathsOf, ToSet
    <2>7. \A x : Holds(all, x) <=> \/ x = Route(spec.path, Canonical)
                                   \/ \E i \in DOMAIN spec.aliases :
                                         x = Route(spec.aliases[i], spec.aliases[i])
      BY <2>1, <2>2, <2>3 DEF all
    <2>8. ASSUME NEW place
          PROVE  place \in PlacesOf(all) <=> \E path \in PathsOf(spec) : place = At(path)
      <3>1. ASSUME place \in PlacesOf(all)
            PROVE  \E path \in PathsOf(spec) : place = At(path)
        BY <2>4, <2>5, <2>6, <2>7, <3>1
      <3>2. ASSUME NEW path \in PathsOf(spec), place = At(path)
            PROVE  place \in PlacesOf(all)
        BY <2>4, <2>5, <2>6, <2>7, <3>2
      <3> QED
        BY <3>1, <3>2
    <2> QED
      BY <2>8 DEF all
  <1>10. \A place : place \in {Place(key) : key \in SpecKeys(g, spec)}
                       <=> \E path \in PathsOf(spec) : place = At(path)
    <2>1. \A path : Place(<<spec.method, MountedPath[g, path]>>) = At(path)
      BY DEF Place, P
    <2> HIDE DEF At
    <2> QED
      BY <2>1 DEF SpecKeys
  <1> HIDE DEF others, At, first
  <1>11. RoutesOfEndpoint(g, e) = first \o others
    BY <1>7 DEF first
  <1>12. first \o others \in Seq(Routes)
    BY <1>5, <1>6, Concatenated DEF first
  <1>13. PlacesOf(first \o others) = {Place(key) : key \in SpecKeys(g, spec)}
    BY <1>9, <1>10
  <1> QED
    BY <1>11, <1>12, <1>13

LEMMA FromGroupsIs ==
    ASSUME IInv
    PROVE  /\ FromGroups \in Seq(Routes)
           /\ PlacesOf(FromGroups) = {Place(key) : key \in Standing}
  <1>1. ASSUME NEW i \in DOMAIN documents
        PROVE  /\ FromGroup(documents[i]) \in Seq(Routes)
               /\ PlacesOf(FromGroup(documents[i])) = {Place(key) : key \in SliceKeys(documents[i])}
    <2> DEFINE endpoints == Documented(documents[i])
               g == documents[i].group
               seqs == [j \in DOMAIN endpoints |-> RoutesOfEndpoint(g, endpoints[j])]
    <2>1. g \in Groups /\ endpoints \in Seq(Ready)
      BY DocumentedEndpoints DEF Documents
    <2>2. FromGroup(documents[i]) = FlattenSeq(seqs)
      BY DEF FromGroup
    <2> HIDE DEF endpoints, g
    <2>3. seqs \in Seq(Seq(Routes)) /\ DOMAIN seqs = DOMAIN endpoints
      BY <2>1, RoutesOfEndpointAre, SMTT(30)
    <2>4. \A j \in DOMAIN endpoints :
              PlacesOf(seqs[j]) = {Place(key) : key \in SpecKeys(g, endpoints[j].declared)}
      <3>1. \A j \in DOMAIN endpoints : endpoints[j] \in Ready
        BY <2>1
      <3> QED
        BY <2>1, <3>1, RoutesOfEndpointAre
    <2>5. SliceKeys(documents[i])
              = UNION {SpecKeys(g, endpoints[j].declared) : j \in DOMAIN endpoints}
      BY DocumentedEndpoints DEF g, endpoints
    <2> HIDE DEF seqs
    <2>6. PlacesOf(FlattenSeq(seqs)) = UNION {PlacesOf(seqs[j]) : j \in DOMAIN seqs}
      BY <2>3, FlattenedPlaces
    <2>7. PlacesOf(FlattenSeq(seqs)) = {Place(key) : key \in SliceKeys(documents[i])}
      BY <2>3, <2>4, <2>5, <2>6
    <2> QED
      BY <2>2, <2>3, <2>7, Flattened
  <1> DEFINE seqs == [i \in DOMAIN documents |-> FromGroup(documents[i])]
  <1>2. documents \in Seq(Documents)
    BY DEF IInv, DocumentsInv
  <1>3. /\ seqs \in Seq(Seq(Routes)) /\ DOMAIN seqs = DOMAIN documents
        /\ \A i \in DOMAIN documents :
              PlacesOf(seqs[i]) = {Place(key) : key \in SliceKeys(documents[i])}
    BY <1>1, <1>2
  <1> HIDE DEF seqs
  <1>4. FromGroups = FlattenSeq(seqs)
    BY DEF FromGroups, seqs
  <1>5. PlacesOf(FlattenSeq(seqs)) = UNION {PlacesOf(seqs[i]) : i \in DOMAIN seqs}
    BY <1>3, FlattenedPlaces
  <1>6. UNION {SliceKeys(documents[i]) : i \in DOMAIN documents} = Standing
    BY DEF IInv, DocumentsInv
  <1>7. PlacesOf(FlattenSeq(seqs)) = {Place(key) : key \in Standing}
    BY <1>3, <1>5, <1>6
  <1> QED
    BY <1>3, <1>4, <1>7, Flattened

\* Whatever the groups, their endpoints and aliases and the order of the calls:
\* the documents describe the routes of the Mux, but for those a Mount left
\* when it panicked, and no other (Mux.Groups, route.FromGroups).
THEOREM DocumentsAreMounted == Spec => []DocumentsAreServed
  <1>1. IInv => DocumentsAreServed
    <2> SUFFICES ASSUME IInv PROVE DocumentsAreServed
      OBVIOUS
    <2> DEFINE KeysOfGroup(d) == UNION {Keys(d, e) : e \in ToSet(Documented(d))}
    <2>1. ASSUME NEW i \in DOMAIN documents
          PROVE  KeysOfGroup(documents[i]) = SliceKeys(documents[i])
      <3> DEFINE d == documents[i]
                 endpoints == Documented(d)
      <3>1. SliceKeys(d) = UNION {SpecKeys(d.group, endpoints[j].declared) : j \in DOMAIN endpoints}
        BY DocumentedEndpoints
      <3>2. \A e : Keys(d, e) = SpecKeys(d.group, e.declared)
        BY DEF Keys, SpecKeys, PathsOf
      <3> HIDE DEF d, endpoints
      <3>3. UNION {Keys(d, e) : e \in ToSet(endpoints)}
                = UNION {SpecKeys(d.group, endpoints[j].declared) : j \in DOMAIN endpoints}
        BY <3>2 DEF ToSet
      <3> QED
        BY <3>1, <3>3 DEF d, endpoints
    <2>2. UNION {KeysOfGroup(documents[i]) : i \in DOMAIN documents} = Standing
      <3> HIDE DEF KeysOfGroup
      <3> QED
        BY <2>1 DEF IInv, DocumentsInv
    <2> QED
      BY <2>2, FromGroupsIs DEF DocumentsAreServed, PlacesOf, Place, Standing
  <1> QED
    BY <1>1, MuxInvariant, PTL

\* Whatever the groups, their endpoints and aliases and the order of the calls:
\* a server can be described just when no two of its public routes share an
\* identifier or a place, its public document has those and no other, and what
\* a gateway is told of them is the same (describeOpenAPI31, route.FromGroups).
THEOREM PublicDocumentsAreExact == Spec => []PublicDocumentIsExact
  <1>1. IInv => PublicDocumentIsExact
    <2> SUFFICES ASSUME IInv PROVE PublicDocumentIsExact
      OBVIOUS
    <2> DEFINE described == FromGroups
               N == Len(described)
               shown == {i \in DOMAIN described : ~ described[i].endpoint.internal}
               document == DescribeOpenAPI31(described)
               gateway == DescribeGCPAPIGateway(described)
    <2>1. N \in Nat /\ DOMAIN described = 1 .. N
      BY FromGroupsIs
    <2>2. Exact("public", described, N, document) /\ Exact("gateway", described, N, gateway)
      BY <2>1, DescribeIsExact DEF DescribeOpenAPI31, DescribeGCPAPIGateway
    <2>3. Places("public", described, N) = shown /\ Places("gateway", described, N) = 1 .. N
      BY <2>1 DEF Places, Kept
    <2> HIDE DEF described, document, gateway, N
    <2>4. /\ document.ok <=> \A i, j \in shown : i # j => ~ Confused(described[i], described[j])
          /\ document.ok =>
                /\ DOMAIN document.operations = {DocumentKey(described[i]) : i \in shown}
                /\ \A i \in shown : document.operations[DocumentKey(described[i])]
                                    = Entry("public", described[i])
      BY <2>2, <2>3 DEF Exact, Known
    <2>5. gateway.ok =>
              /\ \A i, j \in 1 .. N : i # j => ~ Confused(described[i], described[j])
              /\ DOMAIN gateway.operations = {DocumentKey(described[i]) : i \in 1 .. N}
              /\ \A i \in 1 .. N : gateway.operations[DocumentKey(described[i])]
                                   = Entry("gateway", described[i])
      BY <2>2, <2>3 DEF Exact
    <2>6. shown \subseteq 1 .. N
      BY <2>1
    <2>7. \A i \in shown : ~ described[i].endpoint.internal
      OBVIOUS
    <2> HIDE DEF shown
    <2>8. document.ok => \A i \in shown :
              document.operations[DocumentKey(described[i])].auth = described[i].endpoint.auth
      BY <2>4, EntryShows
    <2>9. ASSUME gateway.ok
          PROVE  /\ document.ok
                 /\ N = Cardinality(DOMAIN gateway.operations)
                 /\ \A key \in DOMAIN document.operations :
                       /\ gateway.operations[key].id = document.operations[key].id
                       /\ gateway.operations[key].auth = document.operations[key].auth
                       /\ ~ gateway.operations[key].internal
      <3>1. document.ok
        BY <2>4, <2>5, <2>6, <2>9
      <3>2. N = Cardinality(DOMAIN gateway.operations)
        <4> DEFINE f == [i \in 1 .. N |-> DocumentKey(described[i])]
                   keys == DOMAIN gateway.operations
        <4>1. \A i, j \in 1 .. N : f[i] = f[j] => i = j
          BY <2>5, <2>9 DEF Confused
        <4>2. f \in [1 .. N -> keys] /\ \A key \in keys : \E i \in 1 .. N : f[i] = key
          BY <2>5, <2>9
        <4> HIDE DEF f, keys
        <4>3. f \in Bijection(1 .. N, keys)
          BY <4>1, <4>2 DEF Bijection, Injection, Surjection, IsInjective
        <4>4. ExistsBijection(1 .. N, keys)
          BY <4>3 DEF ExistsBijection
        <4> QED
          BY <2>1, <4>4, FS_CountingElements, Zenon DEF keys
      <3>3. ASSUME NEW key \in DOMAIN document.operations
            PROVE  /\ gateway.operations[key].id = document.operations[key].id
                   /\ gateway.operations[key].auth = document.operations[key].auth
                   /\ ~ gateway.operations[key].internal
        <4>1. PICK i \in shown : key = DocumentKey(described[i])
          BY <2>4, <3>1
        <4>2. /\ document.operations[key] = Entry("public", described[i])
              /\ gateway.operations[key] = Entry("gateway", described[i])
          BY <2>4, <2>5, <2>6, <2>9, <3>1, <4>1
        <4> QED
          BY <2>7, <4>2, EntryShows
      <3> QED
        BY <3>1, <3>2, <3>3
    <2> QED
      BY <2>4, <2>8, <2>9 DEF PublicDocumentIsExact, described, N, shown, document, gateway
  <1> QED
    BY <1>1, MuxInvariant, PTL
=============================================================================
