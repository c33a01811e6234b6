------------------------------ MODULE ProofFacts ------------------------------
(***************************************************************************)
(* What the proofs of several modules rest on: least elements, by which    *)
(* they argue where others use induction, the members of sequences, the    *)
(* overrides of a setting (PackageConfig), and recursive functions.        *)
(***************************************************************************)
EXTENDS Integers, Sequences, SequenceTheorems, WellFoundedInduction, TLAPS

\* Every set of numbers that has an element has a least one.
LEMMA Least ==
    ASSUME NEW T, T \subseteq Nat, T # {}
    PROVE  \E x \in T : \A y \in T : x <= y
  <1> DEFINE R == OpToRel(<, Nat)
  <1>1. IsWellFoundedOn(R, Nat)
    BY NatLessThanWellFounded, Zenon
  <1>2. \A x, y \in T : y < x => <<y, x>> \in R
    BY DEF OpToRel
  <1> HIDE DEF R
  <1>3. \E x \in T : \A y \in T : ~ (<<y, x>> \in R)
    BY <1>1, WFMin, Zenon
  <1>4. \E x \in T : \A y \in T : ~ (y < x)
    BY <1>2, <1>3, Zenon
  <1>5. \A x, y \in Nat : ~ (y < x) => x <= y
    OBVIOUS
  <1> QED
    BY <1>4, <1>5

\* What there is to know of the members of a sequence.
LEMMA Elements ==
    ASSUME NEW S, NEW s \in Seq(S)
    PROVE  DOMAIN s = 1 .. Len(s) /\ Len(s) \in Nat /\ \A j \in DOMAIN s : s[j] \in S
  OBVIOUS

\* What a sequence is after a member was added, and after one was replaced.
LEMMA Appended ==
    ASSUME NEW S, NEW s \in Seq(S), NEW x \in S
    PROVE  /\ Append(s, x) \in Seq(S)
           /\ Len(Append(s, x)) = Len(s) + 1
           /\ DOMAIN Append(s, x) = 1 .. Len(s) + 1
           /\ \A j \in 1 .. Len(s) : Append(s, x)[j] = s[j]
           /\ Append(s, x)[Len(s) + 1] = x
  OBVIOUS

LEMMA Replaced ==
    ASSUME NEW S, NEW s \in Seq(S), NEW i \in DOMAIN s, NEW x \in S
    PROVE  /\ [s EXCEPT ![i] = x] \in Seq(S)
           /\ Len([s EXCEPT ![i] = x]) = Len(s)
           /\ DOMAIN [s EXCEPT ![i] = x] = DOMAIN s
           /\ [s EXCEPT ![i] = x][i] = x
           /\ \A j \in DOMAIN s : j # i => [s EXCEPT ![i] = x][j] = s[j]
  <1> DEFINE t == [s EXCEPT ![i] = x]
  <1>1. DOMAIN s = 1 .. Len(s) /\ Len(s) \in Nat /\ \A j \in DOMAIN s : s[j] \in S
    BY Elements
  <1>2. /\ DOMAIN t = 1 .. Len(s) /\ t[i] = x
        /\ \A j \in DOMAIN s : j # i => t[j] = s[j]
        /\ \A j \in DOMAIN s : t[j] \in S
    BY <1>1
  <1>3. t \in Seq(S) /\ Len(t) = Len(s)
    BY <1>1
  <1> QED
    BY <1>1, <1>2, <1>3

-----------------------------------------------------------------------------
(***************************************************************************)
(* Sequences, taken apart at their first member.                           *)
(***************************************************************************)
LEMMA Led ==
    ASSUME NEW S, NEW name \in S, NEW path \in Seq(S)
    PROVE  /\ <<name>> \o path \in Seq(S)
           /\ Len(<<name>> \o path) = Len(path) + 1 /\ Len(path) \in Nat
           /\ (<<name>> \o path)[1] = name
           /\ \A i \in 1 .. Len(path) : (<<name>> \o path)[i + 1] = path[i]
           /\ <<name>> \o path # <<>>
           /\ DOMAIN (<<name>> \o path) = 1 .. Len(path) + 1
  <1>1. /\ <<name>> \in Seq(S) /\ path \in Seq(S) /\ Len(<<name>>) = 1
        /\ <<name>>[1] = name /\ Len(path) \in Nat
    OBVIOUS
  <1> DEFINE p == <<name>> \o path
  <1>2. /\ p \in Seq(S)
        /\ Len(p) = Len(<<name>>) + Len(path)
        /\ \A i \in 1 .. Len(<<name>>) + Len(path) :
              p[i] = IF i <= Len(<<name>>) THEN <<name>>[i] ELSE path[i - Len(<<name>>)]
    BY <1>1, ConcatProperties
  <1> HIDE DEF p
  <1>3. Len(p) = Len(path) + 1 /\ p[1] = name
    BY <1>1, <1>2
  <1>4. \A i \in 1 .. Len(path) : p[i + 1] = path[i]
    BY <1>1, <1>2
  <1>5. p # <<>> /\ DOMAIN p = 1 .. Len(p)
    BY <1>1, <1>2, <1>3
  <1> QED
    BY <1>1, <1>2, <1>3, <1>4, <1>5 DEF p

LEMMA LedOnce ==
    ASSUME NEW S, NEW m \in S, NEW p \in Seq(S), NEW n \in S, NEW q \in Seq(S),
           <<m>> \o p = <<n>> \o q
    PROVE  m = n /\ p = q
  <1>1. m = n /\ Len(p) = Len(q)
    BY Led
  <1>2. \A i \in 1 .. Len(p) : p[i] = q[i]
    BY <1>1, Led
  <1> QED
    BY <1>1, <1>2, SeqEqual

LEMMA PartsOf ==
    ASSUME NEW S, NEW path \in Seq(S), NEW m \in 1 .. Len(path) + 1, NEW n \in 0 .. Len(path)
    PROVE  /\ SubSeq(path, m, n) \in Seq(S)
           /\ Len(SubSeq(path, m, n)) = IF m <= n THEN n - m + 1 ELSE 0
           /\ \A i \in 1 .. n - m + 1 : SubSeq(path, m, n)[i] = path[m + i - 1]
  <1>1. \A i \in m .. n : path[i] \in S
    OBVIOUS
  <1> QED
    BY <1>1, SubSeqProperties

LEMMA LedPrefix ==
    ASSUME NEW S, NEW name \in S, NEW path \in Seq(S), NEW n \in 0 .. Len(path)
    PROVE  SubSeq(<<name>> \o path, 1, n + 1) = <<name>> \o SubSeq(path, 1, n)
  <1> DEFINE p == <<name>> \o path
             whole == SubSeq(p, 1, n + 1)
             rest == SubSeq(path, 1, n)
             parts == <<name>> \o rest
  <1>1. /\ p \in Seq(S) /\ Len(p) = Len(path) + 1 /\ Len(path) \in Nat /\ p[1] = name
        /\ \A i \in 1 .. Len(path) : p[i + 1] = path[i]
    BY Led
  <1> HIDE DEF p
  <1>2. whole \in Seq(S) /\ Len(whole) = n + 1 /\ \A i \in 1 .. n + 1 : whole[i] = p[i]
    BY <1>1, PartsOf
  <1>3. rest \in Seq(S) /\ Len(rest) = n /\ \A i \in 1 .. n : rest[i] = path[i]
    BY <1>1, PartsOf
  <1> HIDE DEF whole, rest
  <1>4. /\ parts \in Seq(S) /\ Len(parts) = n + 1 /\ parts[1] = name
        /\ \A i \in 1 .. n : parts[i + 1] = rest[i]
    BY <1>3, Led
  <1> HIDE DEF parts
  <1>5. ASSUME NEW i \in 1 .. n + 1
        PROVE  whole[i] = parts[i]
    <2>1. CASE i = 1
      BY <1>1, <1>2, <1>4, <2>1
    <2>2. CASE i # 1
      <3>1. i - 1 \in 1 .. n /\ i - 1 \in 1 .. Len(path) /\ (i - 1) + 1 = i
        BY <2>2
      <3>2. whole[i] = path[i - 1]
        BY <1>1, <1>2, <3>1
      <3>3. parts[i] = path[i - 1]
        BY <1>3, <1>4, <3>1
      <3> QED
        BY <3>2, <3>3
    <2> QED
      BY <2>1, <2>2
  <1>6. whole = parts
    BY <1>2, <1>4, <1>5, SeqEqual
  <1> QED
    BY <1>6 DEF whole, parts, rest, p

LEMMA LedPart ==
    ASSUME NEW S, NEW name \in S, NEW path \in Seq(S),
           NEW m \in 1 .. Len(path) + 1, NEW n \in 0 .. Len(path)
    PROVE  SubSeq(<<name>> \o path, m + 1, n + 1) = SubSeq(path, m, n)
  <1> DEFINE p == <<name>> \o path
             left == SubSeq(p, m + 1, n + 1)
             right == SubSeq(path, m, n)
  <1>1. /\ p \in Seq(S) /\ Len(p) = Len(path) + 1 /\ Len(path) \in Nat
        /\ \A i \in 1 .. Len(path) : p[i + 1] = path[i]
    BY Led
  <1> HIDE DEF p
  <1>2. /\ left \in Seq(S) /\ Len(left) = IF m <= n THEN n - m + 1 ELSE 0
        /\ \A i \in 1 .. n - m + 1 : left[i] = p[m + i]
    <2>1. m + 1 \in 1 .. Len(p) + 1 /\ n + 1 \in 0 .. Len(p)
      BY <1>1
    <2> QED
      BY <1>1, <2>1, PartsOf
  <1>3. /\ right \in Seq(S) /\ Len(right) = IF m <= n THEN n - m + 1 ELSE 0
        /\ \A i \in 1 .. n - m + 1 : right[i] = path[m + i - 1]
    BY <1>1, PartsOf
  <1> HIDE DEF left, right
  <1>4. ASSUME NEW i \in 1 .. Len(left)
        PROVE  left[i] = right[i]
    <2>1. i \in 1 .. n - m + 1 /\ m + i - 1 \in 1 .. Len(path) /\ (m + i - 1) + 1 = m + i
      BY <1>1, <1>2, SMTT(30)
    <2> QED
      BY <1>1, <1>2, <1>3, <2>1
  <1>5. left = right
    BY <1>2, <1>3, <1>4, SeqEqual, SMTT(30)
  <1> QED
    BY <1>5 DEF left, right, p

LEMMA EmptyOrLed ==
    ASSUME NEW S, NEW path \in Seq(S)
    PROVE  path = <<>> \/ \E name \in S, rest \in Seq(S) : path = <<name>> \o rest
  <1> SUFFICES ASSUME path # <<>>
               PROVE  \E name \in S, rest \in Seq(S) : path = <<name>> \o rest
    OBVIOUS
  <1>1. /\ Head(path) \in S /\ Tail(path) \in Seq(S)
        /\ Len(Tail(path)) = Len(path) - 1 /\ Len(path) \in Nat /\ Head(path) = path[1]
        /\ \A i \in 1 .. Len(Tail(path)) : Tail(path)[i] = path[i + 1]
    BY HeadTailProperties
  <1> DEFINE p == <<Head(path)>> \o Tail(path)
  <1>2. /\ p \in Seq(S) /\ Len(p) = Len(Tail(path)) + 1 /\ p[1] = Head(path)
        /\ \A i \in 1 .. Len(Tail(path)) : p[i + 1] = Tail(path)[i]
    BY <1>1, Led
  <1> HIDE DEF p
  <1>3. ASSUME NEW i \in 1 .. Len(path)
        PROVE  p[i] = path[i]
    <2>1. CASE i = 1
      BY <1>1, <1>2, <2>1
    <2>2. CASE i # 1
      <3>1. i - 1 \in 1 .. Len(Tail(path)) /\ (i - 1) + 1 = i
        BY <1>1, <2>2
      <3> QED
        BY <1>1, <1>2, <3>1
    <2> QED
      BY <2>1, <2>2
  <1>4. p = path
    BY <1>1, <1>2, <1>3, SeqEqual
  <1> QED
    BY <1>1, <1>4 DEF p

LEMMA LedConcat ==
    ASSUME NEW S, NEW name \in S, NEW path \in Seq(S), NEW rest \in Seq(S)
    PROVE  /\ path \o rest \in Seq(S)
           /\ (<<name>> \o path) \o rest = <<name>> \o (path \o rest)
  <1>1. <<name>> \in Seq(S)
    OBVIOUS
  <1> QED
    BY <1>1, ConcatAssociative, ConcatProperties

\* The last name of a path is that of what it leads to.
LEMMA LedLast ==
    ASSUME NEW S, NEW name \in S, NEW path \in Seq(S)
    PROVE  (<<name>> \o path)[Len(<<name>> \o path)] = IF path = <<>> THEN name ELSE path[Len(path)]
  <1>1. /\ Len(<<name>> \o path) = Len(path) + 1 /\ Len(path) \in Nat
        /\ (<<name>> \o path)[1] = name
        /\ \A i \in 1 .. Len(path) : (<<name>> \o path)[i + 1] = path[i]
    BY Led
  <1>2. path = <<>> <=> Len(path) = 0
    BY EmptySeq
  <1> QED
    BY <1>1, <1>2


\* What is behind a member that is added is behind all of it.
LEMMA AppendLed ==
    ASSUME NEW S, NEW before \in Seq(S), NEW name \in S, NEW path \in Seq(S)
    PROVE  /\ Append(before, name) \in Seq(S)
           /\ before \o (<<name>> \o path) = Append(before, name) \o path
           /\ before \o <<name>> = Append(before, name)
  <1>1. <<name>> \in Seq(S) /\ Append(before, name) \in Seq(S)
    OBVIOUS
  <1>2. Append(before, name) = before \o <<name>>
    BY AppendIsConcat
  <1> QED
    BY <1>1, <1>2, ConcatAssociative

-----------------------------------------------------------------------------
(***************************************************************************)
(* A setting and its overrides, with the names of PackageConfig: values    *)
(* has all it may be, the default included.                                *)
(***************************************************************************)
OpenIn(overrides) == {i \in DOMAIN overrides : ~ overrides[i].restored}

InnermostIn(overrides, i) == i \in OpenIn(overrides) /\ \A j \in OpenIn(overrides) : j <= i

\* The override around another one: the latest before it that is open.
Encloses(overrides, j, i) ==
    j \in OpenIn(overrides) /\ j < i /\ \A k \in OpenIn(overrides) : k < i => k <= j

OverridesOf(values) == Seq([value : values, previous : values, restored : BOOLEAN])

\* In force is the innermost override, or the default, and each closure that
\* can still be called in order holds what the override around its own
\* installed, the outermost one the default.
InOrder(default, current, overrides) ==
    /\ OpenIn(overrides) = {} => current = default
    /\ \A i \in OpenIn(overrides) :
          /\ InnermostIn(overrides, i) => current = overrides[i].value
          /\ (\A k \in OpenIn(overrides) : i <= k) => overrides[i].previous = default
          /\ \A j \in OpenIn(overrides) :
                Encloses(overrides, j, i) => overrides[i].previous = overrides[j].value

ConfigInv(values, default, current, overrides, nested) ==
    /\ current \in values
    /\ overrides \in OverridesOf(values)
    /\ nested \in BOOLEAN
    /\ nested => InOrder(default, current, overrides)

LEMMA ConfigBegins ==
    ASSUME NEW values, NEW default \in values
    PROVE  ConfigInv(values, default, default, <<>>, TRUE)
  BY DEF ConfigInv, OverridesOf, InOrder, OpenIn

LEMMA Configured ==
    ASSUME NEW values, NEW default, NEW current, NEW overrides, NEW nested,
           ConfigInv(values, default, current, overrides, nested), NEW value \in values
    PROVE  ConfigInv(values, default, value,
                     Append(overrides, [value |-> value, previous |-> current,
                                        restored |-> FALSE]), nested)
  <1> DEFINE n == Len(overrides) + 1
             override == [value |-> value, previous |-> current, restored |-> FALSE]
             extended == Append(overrides, override)
  <1>1. overrides \in OverridesOf(values) /\ current \in values
        /\ override \in [value : values, previous : values, restored : BOOLEAN]
    BY DEF ConfigInv
  <1>2. /\ extended \in OverridesOf(values)
        /\ DOMAIN overrides = 1 .. Len(overrides) /\ Len(overrides) \in Nat
        /\ DOMAIN extended = 1 .. n
        /\ \A i \in 1 .. Len(overrides) : extended[i] = overrides[i]
        /\ extended[n] = override
    BY <1>1, Appended, Elements DEF OverridesOf
  <1> HIDE DEF extended
  <1>3. /\ OpenIn(extended) = OpenIn(overrides) \cup {n}
        /\ \A i \in OpenIn(overrides) : i \in 1 .. Len(overrides)
    BY <1>2 DEF OpenIn
  <1>4. ASSUME InOrder(default, current, overrides)
        PROVE  InOrder(default, value, extended)
    <2>1. ASSUME NEW i \in OpenIn(extended)
          PROVE  /\ InnermostIn(extended, i) => value = extended[i].value
                 /\ (\A k \in OpenIn(extended) : i <= k) => extended[i].previous = default
                 /\ \A j \in OpenIn(extended) :
                       Encloses(extended, j, i) => extended[i].previous = extended[j].value
      <3>1. CASE i = n
        <4>1. (\A k \in OpenIn(extended) : i <= k) => OpenIn(overrides) = {}
          <5>1. \A k \in OpenIn(overrides) : k \in OpenIn(extended) /\ ~ (n <= k)
            BY <1>2, <1>3
          <5> QED
            BY <3>1, <5>1
        <4>2. \A j \in OpenIn(extended) :
                 Encloses(extended, j, i) => InnermostIn(overrides, j) /\ extended[j] = overrides[j]
          BY <1>2, <1>3, <3>1 DEF Encloses, InnermostIn
        <4>3. extended[i].value = value /\ extended[i].previous = current
          BY <1>2, <3>1
        <4>4. \A j \in OpenIn(overrides) : InnermostIn(overrides, j) => current = overrides[j].value
          BY <1>4 DEF InOrder
        <4>5. OpenIn(overrides) = {} => current = default
          BY <1>4 DEF InOrder
        <4> HIDE DEF override
        <4> QED
          BY <4>1, <4>2, <4>3, <4>4, <4>5 DEF InnermostIn
      <3>2. CASE i \in OpenIn(overrides)
        <4>1. \A j \in OpenIn(extended) :
                 Encloses(extended, j, i) => j \in OpenIn(overrides) /\ Encloses(overrides, j, i)
          BY <1>2, <1>3, <3>2 DEF Encloses
        <4>2. ~ InnermostIn(extended, i)
          BY <1>2, <1>3, <3>2 DEF InnermostIn
        <4> QED
          BY <1>2, <1>3, <3>2, <1>4, <4>1, <4>2 DEF InOrder
      <3> QED
        BY <1>3, <3>1, <3>2
    <2> QED
      BY <1>3, <2>1 DEF InOrder
  <1> QED
    BY <1>2, <1>4 DEF ConfigInv, extended

LEMMA Restored ==
    ASSUME NEW values, NEW default, NEW current, NEW overrides, NEW nested,
           ConfigInv(values, default, current, overrides, nested), NEW i \in DOMAIN overrides,
           NEW still \in BOOLEAN, still => nested /\ InnermostIn(overrides, i)
    PROVE  ConfigInv(values, default, overrides[i].previous,
                     [overrides EXCEPT ![i].restored = TRUE], still)
  <1> DEFINE closed == [overrides[i] EXCEPT !.restored = TRUE]
             reduced == [overrides EXCEPT ![i] = closed]
  <1>1. /\ overrides \in OverridesOf(values) /\ nested \in BOOLEAN
        /\ DOMAIN overrides = 1 .. Len(overrides) /\ Len(overrides) \in Nat
        /\ overrides[i] \in [value : values, previous : values, restored : BOOLEAN]
    BY Elements DEF ConfigInv, OverridesOf
  <1>2. /\ closed \in [value : values, previous : values, restored : BOOLEAN]
        /\ closed.value = overrides[i].value /\ closed.previous = overrides[i].previous
        /\ closed.restored
        /\ overrides[i].previous \in values
    BY <1>1
  <1> HIDE DEF closed
  <1>3. /\ reduced \in OverridesOf(values)
        /\ DOMAIN reduced = DOMAIN overrides
        /\ \A j \in DOMAIN overrides : /\ reduced[j].value = overrides[j].value
                                       /\ reduced[j].previous = overrides[j].previous
        /\ reduced[i] = closed
        /\ \A j \in DOMAIN overrides : j # i => reduced[j] = overrides[j]
    BY <1>1, <1>2, Replaced DEF OverridesOf
  <1> HIDE DEF reduced
  <1>4. /\ OpenIn(reduced) = OpenIn(overrides) \ {i}
        /\ OpenIn(overrides) \subseteq DOMAIN overrides
        /\ i \in Nat /\ OpenIn(overrides) \subseteq Nat
    BY <1>1, <1>2, <1>3 DEF OpenIn
  <1>5. ASSUME InOrder(default, current, overrides), InnermostIn(overrides, i)
        PROVE  InOrder(default, overrides[i].previous, reduced)
    <2>1. OpenIn(reduced) = {} => \A k \in OpenIn(overrides) : i <= k
      BY <1>4
    <2>2. ASSUME NEW m \in OpenIn(reduced)
          PROVE  /\ InnermostIn(reduced, m) => overrides[i].previous = reduced[m].value
                 /\ (\A k \in OpenIn(reduced) : m <= k) => reduced[m].previous = default
                 /\ \A j \in OpenIn(reduced) :
                       Encloses(reduced, j, m) => reduced[m].previous = reduced[j].value
      <3>1. m \in OpenIn(overrides) /\ m < i /\ m \in DOMAIN overrides
        BY <1>4, <1>5 DEF InnermostIn
      <3>2. InnermostIn(reduced, m) => Encloses(overrides, m, i)
        BY <1>4, <3>1 DEF InnermostIn, Encloses
      <3>3. (\A k \in OpenIn(reduced) : m <= k) => \A k \in OpenIn(overrides) : m <= k
        BY <1>4, <3>1
      <3>4. \A j \in OpenIn(reduced) :
               Encloses(reduced, j, m) => j \in OpenIn(overrides) /\ Encloses(overrides, j, m)
        BY <1>4, <3>1 DEF Encloses
      <3> QED
        BY <1>3, <1>4, <1>5, <3>1, <3>2, <3>3, <3>4 DEF InOrder, InnermostIn
    <2> QED
      BY <1>4, <1>5, <2>1, <2>2 DEF InOrder, InnermostIn
  <1>6. [overrides EXCEPT ![i].restored = TRUE] = reduced
    BY DEF reduced, closed
  <1> QED
    BY <1>1, <1>2, <1>3, <1>5, <1>6 DEF ConfigInv

-----------------------------------------------------------------------------
(***************************************************************************)
(* Recursive functions.  D says what a function that is not yet known in   *)
(* full is at a place, and looks at places of a lower rank only.           *)
(***************************************************************************)
LooksLower(S, T, rank, D) ==
    \A g, h \in [S -> T], x \in S :
        (\A y \in S : rank[y] < rank[x] => g[y] = h[y]) => D[<<g, x>>] = D[<<h, x>>]

\* f is as D says at the places below n.
SolvesTo(S, T, rank, D, n, f) ==
    f \in [S -> T] /\ \A x \in S : rank[x] < n => f[x] = D[<<f, x>>]

LEMMA SolvedTo ==
    ASSUME NEW S, NEW T, T # {}, NEW rank \in [S -> Nat], NEW D \in [[S -> T] \X S -> T],
           LooksLower(S, T, rank, D), NEW n \in Nat
    PROVE  \E f : SolvesTo(S, T, rank, D, n, f)
  <1> DEFINE Unsolved == {m \in Nat : ~ \E f : SolvesTo(S, T, rank, D, m, f)}
  <1> SUFFICES ASSUME Unsolved # {} PROVE FALSE
    OBVIOUS
  <1>1. PICK m \in Unsolved : m \in Nat /\ \A k \in Unsolved : m <= k
    BY Least
  <1> HIDE DEF Unsolved
  <1>2. CASE m = 0
    <2>1. PICK t : t \in T
      OBVIOUS
    <2>2. SolvesTo(S, T, rank, D, 0, [x \in S |-> t])
      BY <2>1 DEF SolvesTo
    <2> QED
      BY <1>1, <1>2, <2>2 DEF Unsolved
  <1>3. CASE m # 0
    <2> DEFINE k == m - 1
    <2>1. k \in Nat /\ ~ (m <= k) /\ m = k + 1
      BY <1>1, <1>3
    <2>2. PICK f : SolvesTo(S, T, rank, D, k, f)
      BY <1>1, <2>1 DEF Unsolved
    <2> DEFINE g == [x \in S |-> IF rank[x] < k THEN f[x] ELSE D[<<f, x>>]]
    <2>3. f \in [S -> T] /\ \A x \in S : rank[x] < k => f[x] = D[<<f, x>>]
      BY <2>2 DEF SolvesTo
    <2>4. /\ g \in [S -> T]
          /\ \A x \in S : g[x] = IF rank[x] < k THEN f[x] ELSE D[<<f, x>>]
      BY <2>3
    <2> HIDE DEF g, k
    <2>5. ASSUME NEW x \in S, rank[x] < k + 1
          PROVE  g[x] = D[<<g, x>>]
      <3>1. \A y \in S : rank[y] < rank[x] => f[y] = g[y]
        <4> SUFFICES ASSUME NEW y \in S, rank[y] < rank[x] PROVE f[y] = g[y]
          OBVIOUS
        <4>1. rank[x] \in Nat /\ rank[y] \in Nat /\ rank[y] < k
          BY <2>1, <2>5
        <4> QED
          BY <2>4, <4>1
      <3>2. D[<<f, x>>] = D[<<g, x>>]
        BY <2>3, <2>4, <3>1 DEF LooksLower
      <3> QED
        BY <2>3, <2>4, <3>2
    <2>6. SolvesTo(S, T, rank, D, m, g)
      BY <2>1, <2>4, <2>5 DEF SolvesTo
    <2> QED
      BY <1>1, <2>6 DEF Unsolved
  <1> QED
    BY <1>2, <1>3

LEMMA SolvedOnce ==
    ASSUME NEW S, NEW T, NEW rank \in [S -> Nat], NEW D, LooksLower(S, T, rank, D),
           NEW m \in Nat, NEW n \in Nat, m <= n,
           NEW f, SolvesTo(S, T, rank, D, m, f), NEW g, SolvesTo(S, T, rank, D, n, g)
    PROVE  \A x \in S : rank[x] < m => f[x] = g[x]
  <1> DEFINE Differ == {x \in S : rank[x] < m /\ f[x] # g[x]}
             Ranks == {rank[x] : x \in Differ}
  <1> SUFFICES ASSUME Differ # {} PROVE FALSE
    OBVIOUS
  <1>1. Ranks \subseteq Nat /\ Ranks # {}
    OBVIOUS
  <1> HIDE DEF Ranks
  <1>2. PICK r \in Ranks : \A k \in Ranks : r <= k
    BY <1>1, Least
  <1>3. PICK x \in Differ : r = rank[x]
    BY DEF Ranks
  <1>4. ASSUME NEW y \in S, rank[y] < rank[x]
        PROVE  f[y] = g[y]
    <2>1. rank[y] < m /\ ~ (rank[x] <= rank[y])
      BY <1>3, <1>4
    <2>2. rank[y] \notin Ranks
      BY <1>2, <1>3, <2>1
    <2> QED
      BY <2>1, <2>2 DEF Ranks
  <1>5. D[<<f, x>>] = D[<<g, x>>]
    BY <1>4 DEF LooksLower, SolvesTo
  <1>6. rank[x] < m /\ rank[x] < n /\ x \in S /\ f[x] # g[x]
    BY <1>3
  <1> QED
    BY <1>5, <1>6 DEF SolvesTo

\* Of some places one is the lowest.
LEMMA Lowest ==
    ASSUME NEW S, NEW rank \in [S -> Nat], NEW Bad, Bad \subseteq S, Bad # {}
    PROVE  \E x \in Bad : \A y \in S : rank[y] < rank[x] => y \notin Bad
  <1> DEFINE Ranks == {rank[x] : x \in Bad}
  <1>1. Ranks \subseteq Nat /\ Ranks # {}
    OBVIOUS
  <1> HIDE DEF Ranks
  <1>2. PICK r \in Ranks : \A k \in Ranks : r <= k
    BY <1>1, Least
  <1>3. PICK x \in Bad : r = rank[x]
    BY DEF Ranks
  <1>4. ASSUME NEW y \in S, rank[y] < rank[x], y \in Bad
        PROVE  FALSE
    <2>1. rank[x] <= rank[y]
      BY <1>2, <1>3, <1>4 DEF Ranks
    <2> QED
      BY <1>4, <2>1
  <1> QED
    BY <1>4

\* What a recursive definition needs, and what it gives.
Recursion(S, T, rank, D) ==
    /\ T # {} /\ rank \in [S -> Nat] /\ D \in [[S -> T] \X S -> T]
    /\ LooksLower(S, T, rank, D)

Solves(S, T, D, f) == f \in [S -> T] /\ f = [x \in S |-> D[<<f, x>>]]

\* There is a function that is everywhere as D says.
LEMMA RecursiveFunction ==
    ASSUME NEW S, NEW T, NEW rank, NEW D, Recursion(S, T, rank, D)
    PROVE  \E f : Solves(S, T, D, f)
  <1> DEFINE part == [x \in S |-> CHOOSE f : SolvesTo(S, T, rank, D, rank[x] + 1, f)]
             whole == [x \in S |-> part[x][x]]
  <1>0. /\ T # {} /\ rank \in [S -> Nat] /\ D \in [[S -> T] \X S -> T]
        /\ LooksLower(S, T, rank, D)
    BY DEF Recursion
  <1>1. ASSUME NEW x \in S
        PROVE  SolvesTo(S, T, rank, D, rank[x] + 1, part[x])
    <2>1. rank[x] + 1 \in Nat
      BY <1>0
    <2>2. \E f : SolvesTo(S, T, rank, D, rank[x] + 1, f)
      BY <1>0, <2>1, SolvedTo
    <2> QED
      BY <2>2, Zenon
  <1> HIDE DEF part
  <1>2. \A x \in S : part[x] \in [S -> T] /\ whole[x] = part[x][x]
    BY <1>1 DEF SolvesTo
  <1>3. whole \in [S -> T]
    BY <1>2
  <1> HIDE DEF whole
  <1>4. ASSUME NEW x \in S
        PROVE  whole[x] = D[<<whole, x>>]
    <2>1. part[x][x] = D[<<part[x], x>>]
      <3>1. rank[x] \in Nat /\ rank[x] < rank[x] + 1
        BY <1>0
      <3> QED
        BY <1>1, <3>1 DEF SolvesTo
    <2>2. ASSUME NEW y \in S, rank[y] < rank[x]
          PROVE  part[x][y] = whole[y]
      <3>1. rank[y] + 1 \in Nat /\ rank[x] + 1 \in Nat /\ rank[y] + 1 <= rank[x] + 1
            /\ rank[y] < rank[y] + 1
        BY <1>0, <2>2
      <3>2. part[y][y] = part[x][y]
        BY <1>0, <1>1, <3>1, SolvedOnce
      <3> QED
        BY <1>2, <3>2
    <2>3. D[<<part[x], x>>] = D[<<whole, x>>]
      BY <1>0, <1>2, <1>3, <2>2 DEF LooksLower
    <2> QED
      BY <1>2, <2>1, <2>3
  <1> QED
    BY <1>3, <1>4 DEF Solves

\* What holds of a place if it holds of all that are lower holds of every place.
LEMMA Everywhere ==
    ASSUME NEW S, NEW rank \in [S -> Nat], NEW Good, Good \subseteq S,
           \A x \in S : (\A y \in S : rank[y] < rank[x] => y \in Good) => x \in Good
    PROVE  Good = S
  <1> DEFINE Bad == S \ Good
  <1> SUFFICES ASSUME Bad # {} PROVE FALSE
    OBVIOUS
  <1>1. Bad \subseteq S
    OBVIOUS
  <1> HIDE DEF Bad
  <1>2. PICK x \in Bad : \A y \in S : rank[y] < rank[x] => y \notin Bad
    BY <1>1, Lowest
  <1> QED
    BY <1>2 DEF Bad
=============================================================================
