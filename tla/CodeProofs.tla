------------------------------ MODULE CodeProofs ------------------------------
(***************************************************************************)
(* Theorems about compiled code: about Entry, for every program, message,  *)
(* module and name, and about Interp, for every function body.             *)
(*                                                                         *)
(* Entry: the cursor stays at whole statements however imports and         *)
(* functions follow each other, the names bound are Python's, and calldata *)
(* calls what was sent.  The layout of compiled code and the names an      *)
(* import binds are given by a flattened sequence and a fold, so what      *)
(* those compute is proved first.                                          *)
(*                                                                         *)
(* Interp: however a walk over the nodes of a body jumps, repeats and      *)
(* skips, every activation stands between two of its children, so that     *)
(* every read finds a node that is expected there and the walk ends behind *)
(* the last.                                                               *)
(***************************************************************************)
EXTENDS Entry, Interp, SequenceTheorems, FiniteSetTheorems, TLAPS

-----------------------------------------------------------------------------
(* A set of numbers has a least one: their initial segments are finite,    *)
(* and the strict subset relation on finite sets is well-founded.          *)
LEMMA LeastNumber ==
  ASSUME NEW T, T \subseteq Nat, T # {}
  PROVE  \E x \in T : \A y \in T : x <= y
<1>. DEFINE Below(x) == {k \in Nat : k < x}
            Segments == {Below(x) : x \in T}
<1>1. \A x \in Nat : Below(x) \in FiniteSubsetsOf(Nat)
  <2>. SUFFICES ASSUME NEW x \in Nat PROVE IsFiniteSet(Below(x))
    BY DEF FiniteSubsetsOf
  <2>1. Below(x) \in SUBSET Nat /\ \A s \in Below(x) : s <= x
    OBVIOUS
  <2>. HIDE DEF Below
  <2>. QED  BY <2>1, FS_BoundedSetOfNaturals
<1>2. Segments \subseteq FiniteSubsetsOf(Nat) /\ Segments # {}
  BY <1>1
<1>. HIDE DEF Segments
<1>3. PICK b \in Segments : \A c \in Segments : <<c, b>> \notin StrictSubsetOrdering(Nat)
  BY <1>2, FS_StrictSubsetOrderingWellFounded, WFMin, Zenon
<1>4. PICK x \in T : b = Below(x)
  BY DEF Segments
<1>5. ASSUME NEW y \in T, y < x
      PROVE  FALSE
  <2>1. Below(y) \in Segments /\ Below(y) \in SUBSET Nat /\ Below(x) \in SUBSET Nat
    BY DEF Segments
  <2>2. y \in Below(x) /\ y \notin Below(y) /\ Below(y) \subseteq Below(x)
    BY <1>5
  <2>3. <<Below(y), Below(x)>> \in StrictSubsetOrdering(Nat)
    <3>. HIDE DEF Below
    <3>1. Below(y) # Below(x)
      BY <2>2
    <3>. QED  BY <2>1, <2>2, <3>1, Zenon DEF StrictSubsetOrdering
  <2>. QED  BY <1>3, <1>4, <2>1, <2>3
<1>. QED  BY <1>5

(* Zero is in the set, and with a number its successor: all numbers are.   *)
LEMMA SetInduction ==
  ASSUME NEW P, 0 \in P, \A n \in Nat : n \in P => n + 1 \in P
  PROVE  Nat \subseteq P
<1>. SUFFICES ASSUME Nat \ P # {} PROVE FALSE
  OBVIOUS
<1>1. PICK n \in Nat \ P : \A m \in Nat \ P : n <= m
  BY LeastNumber
<1>2. n - 1 \in Nat /\ n - 1 \in P
  BY <1>1
<1>. QED  BY <1>1, <1>2

-----------------------------------------------------------------------------
(* The first n sequences of f, one behind the other. *)
Flat(f, n) == FlattenSeq([i \in 1 .. n |-> f[i]])

(* A sequence is a function on an initial segment of the numbers.          *)
LEMMA SegmentIsSeq ==
  ASSUME NEW S, NEW n \in Nat, NEW f, \A i \in 1 .. n : f[i] \in S
  PROVE  /\ [i \in 1 .. n |-> f[i]] \in Seq(S)
         /\ Len([i \in 1 .. n |-> f[i]]) = n
<1>1. [i \in 1 .. n |-> f[i]] \in [1 .. n -> S]
  OBVIOUS
<1>2. [i \in 1 .. n |-> f[i]] \in Seq(S)
  BY <1>1, SeqDef
<1>. QED  BY <1>2, LenProperties

(* FlattenSeq adds one sequence at a time behind the others.               *)
LEMMA FlatSteps ==
  ASSUME NEW S, NEW n \in Nat, NEW f, \A i \in 1 .. n : f[i] \in Seq(S)
  PROVE  /\ Flat(f, 0) = <<>>
         /\ \A m \in 0 .. n : Flat(f, m) \in Seq(S)
         /\ \A m \in 1 .. n : Flat(f, m) = Flat(f, m - 1) \o f[m]
<1>. DEFINE Then(s, i) == s \o f[i]
            IsFlat(h, m) == h = [i \in 0 .. m |-> IF i = 0 THEN <<>> ELSE Then(h[i - 1], i)]
            Good == {m \in Nat : m <= n => \E h : IsFlat(h, m)}
            F(m) == [i \in 1 .. m |-> f[i]]
            Def(fl, m) == fl = [i \in 1 .. m |-> IF i = 1 THEN F(m)[i] ELSE Then(fl[i - 1], i)]
<1>. HIDE DEF Then
<1>1. Nat \subseteq Good
  <2>1. 0 \in Good
    <3>1. IsFlat([i \in 0 .. 0 |-> <<>>], 0)
      OBVIOUS
    <3>. QED  BY <3>1
  <2>2. ASSUME NEW m \in Nat, m \in Good PROVE m + 1 \in Good
    <3>. SUFFICES ASSUME m + 1 <= n PROVE \E h : IsFlat(h, m + 1)
      OBVIOUS
    <3>1. PICK g : IsFlat(g, m)
      BY <2>2
    <3>. DEFINE h == [i \in 0 .. m + 1 |-> IF i <= m THEN g[i] ELSE Then(g[m], m + 1)]
    <3>2. \A i \in 0 .. m : g[i] = IF i = 0 THEN <<>> ELSE Then(g[i - 1], i)
      BY <3>1
    <3>3. ASSUME NEW i \in 0 .. m + 1
          PROVE  h[i] = IF i = 0 THEN <<>> ELSE Then(h[i - 1], i)
      <4>1. CASE i <= m
        BY <3>2, <4>1
      <4>2. CASE i = m + 1
        <5>1. h[i - 1] = g[m] /\ h[i] = Then(g[m], m + 1)
          BY <4>2
        <5>. QED  BY <4>2, <5>1
      <4>. QED  BY <4>1, <4>2
    <3>4. h = [i \in 0 .. m + 1 |-> h[i]]
      OBVIOUS
    <3>5. IsFlat(h, m + 1)
      <4>. HIDE DEF h
      <4>. QED  BY <3>3, <3>4
    <3>. QED  BY <3>5
  <2>. HIDE DEF Good
  <2>. QED  BY <2>1, <2>2, SetInduction
<1>2. PICK h : IsFlat(h, n)
  BY <1>1, SMTT(30)
<1>3. h[0] = <<>> /\ \A m \in 1 .. n : h[m] = Then(h[m - 1], m)
  BY <1>2
<1>4. \A m \in 0 .. n : h[m] \in Seq(S)
  <2>. DEFINE P == {m \in Nat : m <= n => h[m] \in Seq(S)}
  <2>1. 0 \in P
    BY <1>3, EmptySeq
  <2>2. ASSUME NEW m \in Nat, m \in P PROVE m + 1 \in P
    <3>. SUFFICES ASSUME m + 1 <= n PROVE h[m + 1] \in Seq(S)
      OBVIOUS
    <3>1. h[m] \in Seq(S) /\ f[m + 1] \in Seq(S) /\ h[m + 1] = Then(h[m], m + 1)
      BY <1>3, <2>2
    <3>2. Then(h[m], m + 1) \in Seq(S)
      BY <3>1, ConcatProperties, Zenon DEF Then
    <3>. QED  BY <3>1, <3>2
  <2>3. Nat \subseteq P
    <3>. HIDE DEF P
    <3>. QED  BY <2>1, <2>2, SetInduction
  <2>. QED  BY <2>3
<1>5. ASSUME NEW m \in 0 .. n PROVE Flat(f, m) = h[m]
  <2>1. F(m) \in Seq(Seq(S)) /\ Len(F(m)) = m
    BY SegmentIsSeq
  <2>2. CASE m = 0
    <3>1. F(m) = <<>>
      BY <2>1, <2>2, EmptySeq
    <3>. QED  BY <1>3, <2>1, <2>2, <3>1 DEF Flat, FlattenSeq
  <2>3. CASE m > 0
    <3>. DEFINE fl == CHOOSE g : Def(g, m)
                k == [i \in 1 .. m |-> h[i]]
    <3>1. Flat(f, m) = fl[m]
      BY <2>1, <2>3 DEF Flat, FlattenSeq, Then
    <3>2. ASSUME NEW i \in 1 .. m
          PROVE  k[i] = IF i = 1 THEN F(m)[i] ELSE Then(k[i - 1], i)
      <4>1. F(m)[i] = f[i] /\ h[i] = Then(h[i - 1], i) /\ f[i] \in Seq(S)
        BY <1>3
      <4>2. CASE i = 1
        <5>1. h[1] = Then(<<>>, 1) /\ f[1] \in Seq(S)
          BY <1>3, <4>1, <4>2
        <5>2. h[1] = f[1]
          BY <5>1, ConcatEmptySeq, Zenon DEF Then
        <5>. QED  BY <4>1, <4>2, <5>2
      <4>3. CASE i # 1
        <5>1. k[i - 1] = h[i - 1]
          BY <4>3
        <5>. QED  BY <4>1, <4>3, <5>1
      <4>. QED  BY <4>2, <4>3
    <3>3. Def(k, m)
      <4>1. k = [i \in 1 .. m |-> k[i]]
        OBVIOUS
      <4>. HIDE DEF k, F
      <4>. QED  BY <3>2, <4>1
    <3>4. Def(fl, m)
      <4>. HIDE DEF Def
      <4>. QED  BY <3>3
    <3>5. \A i \in 1 .. m : fl[i] = IF i = 1 THEN F(m)[i] ELSE Then(fl[i - 1], i)
      <4>. HIDE DEF fl, F
      <4>. QED  BY <3>4
    <3>. HIDE DEF fl
    <3>6. \A i \in 1 .. m : k[i] = IF i = 1 THEN F(m)[i] ELSE Then(k[i - 1], i)
      BY <3>2
    <3>7. \A i \in 1 .. m : fl[i] = k[i]
      <4>. DEFINE P == {i \in Nat : i \in 1 .. m => fl[i] = k[i]}
      <4>. HIDE DEF k, F
      <4>1. 0 \in P
        OBVIOUS
      <4>2. ASSUME NEW i \in Nat, i \in P PROVE i + 1 \in P
        <5>. SUFFICES ASSUME i + 1 \in 1 .. m PROVE fl[i + 1] = k[i + 1]
          OBVIOUS
        <5>1. CASE i = 0
          BY <3>5, <3>6, <5>1
        <5>2. CASE i > 0
          <6>1. fl[i] = k[i]
            BY <4>2, <5>2
          <6>2. fl[i + 1] = Then(fl[i], i + 1) /\ k[i + 1] = Then(k[i], i + 1)
            BY <3>5, <3>6, <5>2
          <6>. QED  BY <6>1, <6>2
        <5>. QED  BY <5>1, <5>2
      <4>3. Nat \subseteq P
        <5>. HIDE DEF P
        <5>. QED  BY <4>1, <4>2, SetInduction
      <4>. QED  BY <4>3
    <3>8. fl[m] = h[m]
      BY <2>3, <3>7
    <3>. QED  BY <3>1, <3>8
  <2>. QED  BY <2>2, <2>3
<1>6. ASSUME NEW m \in 1 .. n PROVE Flat(f, m) = Flat(f, m - 1) \o f[m]
  <2>1. Flat(f, m) = Then(Flat(f, m - 1), m)
    BY <1>3, <1>5
  <2>. QED  BY <2>1, Zenon DEF Then
<1>7. Flat(f, 0) = <<>>
  BY <1>3, <1>5
<1>8. \A m \in 0 .. n : Flat(f, m) \in Seq(S)
  BY <1>4, <1>5
<1>. QED  BY <1>6, <1>7, <1>8

(* t is the first e elements of s.                                         *)
Begins(t, s, e, S) ==
  /\ t \in Seq(S) /\ Len(t) = e /\ DOMAIN t = 1 .. e
  /\ \A i \in 1 .. e : t[i] = s[i]

(* SubSeq from the first element.                                          *)
LEMMA Prefix ==
  ASSUME NEW S, NEW s, NEW e \in Nat, \A i \in 1 .. e : s[i] \in S
  PROVE  Begins(SubSeq(s, 1, e), s, e, S)
<1>1. SubSeq(s, 1, e) = [i \in 1 .. e |-> s[i]]
  <2>1. SubSeq(s, 1, e) = [i \in 1 .. (1 + e - 1) |-> s[i + 1 - 1]]
    OBVIOUS
  <2>2. 1 + e - 1 = e /\ \A i \in 1 .. e : i + 1 - 1 = i
    OBVIOUS
  <2>. QED  BY <2>1, <2>2
<1>. DEFINE t == [i \in 1 .. e |-> s[i]]
<1>2. t \in Seq(S) /\ Len(t) = e
  BY SegmentIsSeq
<1>3. DOMAIN t = 1 .. e /\ \A i \in 1 .. e : t[i] = s[i]
  OBVIOUS
<1>. HIDE DEF t
<1>. QED  BY <1>1, <1>2, <1>3 DEF t, Begins

(* How much lies before the sequence f[m]. *)
Before(f, m) == Len(Flat(f, m - 1))

(* The sequence f[m] is found behind those before it. *)
Placed(f, n, m) ==
  /\ Before(f, m) \in Nat /\ Len(f[m]) \in Nat
  /\ Len(Flat(f, m)) = Before(f, m) + Len(f[m])
  /\ Len(Flat(f, m)) <= Len(Flat(f, n))
  /\ \A i \in 1 .. Len(f[m]) : Flat(f, n)[Before(f, m) + i] = f[m][i]

(* Each sequence keeps its place in the whole.                             *)
LEMMA FlatAt ==
  ASSUME NEW S, NEW n \in Nat, NEW f, \A i \in 1 .. n : f[i] \in Seq(S), NEW m \in 1 .. n
  PROVE  Placed(f, n, m)
<1>. DEFINE L(k) == Len(Flat(f, k))
            Keeps(k) == L(m) <= L(k) /\ \A i \in 1 .. L(m) : Flat(f, k)[i] = Flat(f, m)[i]
            P == {k \in Nat : k \in m .. n => Keeps(k)}
<1>1. \A k \in 0 .. n : Flat(f, k) \in Seq(S) /\ L(k) \in Nat
  BY FlatSteps, LenProperties
<1>2. ASSUME NEW k \in 1 .. n
      PROVE  /\ f[k] \in Seq(S) /\ Len(f[k]) \in Nat /\ k - 1 \in 0 .. n
             /\ L(k) = L(k - 1) + Len(f[k])
             /\ \A i \in 1 .. L(k) :
                  Flat(f, k)[i] = IF i <= L(k - 1) THEN Flat(f, k - 1)[i] ELSE f[k][i - L(k - 1)]
  <2>1. Flat(f, k) = Flat(f, k - 1) \o f[k]
    BY FlatSteps
  <2>2. Flat(f, k - 1) \in Seq(S) /\ f[k] \in Seq(S) /\ k - 1 \in 0 .. n /\ Len(f[k]) \in Nat
    BY <1>1, LenProperties
  <2>. DEFINE x == Flat(f, k - 1)
              y == f[k]
  <2>3. /\ Len(x \o y) = Len(x) + Len(y)
        /\ \A i \in 1 .. Len(x) + Len(y) :
             (x \o y)[i] = IF i <= Len(x) THEN x[i] ELSE y[i - Len(x)]
    <3>1. x \in Seq(S) /\ y \in Seq(S)
      BY <2>2
    <3>. HIDE DEF x, y
    <3>. QED  BY <3>1, ConcatProperties
  <2>4. Flat(f, k) = x \o y
    BY <2>1
  <2>. HIDE DEF x
  <2>. QED  BY <2>2, <2>3, <2>4 DEF x
<1>. HIDE DEF L
<1>3. 0 \in P
  OBVIOUS
<1>4. ASSUME NEW k \in Nat, k \in P PROVE k + 1 \in P
  <2>. SUFFICES ASSUME k + 1 \in m .. n PROVE Keeps(k + 1)
    OBVIOUS
  <2>1. CASE k + 1 = m
    BY <1>1, <2>1
  <2>2. CASE k + 1 > m
    <3>1. /\ k \in m .. n /\ k \in 0 .. n /\ m \in 0 .. n
          /\ k + 1 \in 1 .. n /\ (k + 1) - 1 = k
      BY <2>2
    <3>2. Keeps(k)
      BY <1>4, <3>1
    <3>. DEFINE F(i) == Flat(f, i)
                x == L(k)
                y == L(m)
                z == L(k + 1)
    <3>3. x \in Nat /\ y \in Nat
      BY <1>1, <3>1
    <3>4. Len(f[k + 1]) \in Nat /\ z = x + Len(f[k + 1])
      BY <1>2, <3>1
    <3>5. \A i \in 1 .. z : i <= x => F(k + 1)[i] = F(k)[i]
      BY <1>2, <3>1
    <3>6. y <= x /\ \A i \in 1 .. y : F(k)[i] = F(m)[i]
      BY <3>2
    <3>. HIDE DEF F, x, y, z
    <3>7. y <= z
      BY <3>3, <3>4, <3>6
    <3>8. ASSUME NEW i \in 1 .. y PROVE F(k + 1)[i] = F(m)[i]
      <4>1. i \in 1 .. z /\ i <= x
        BY <3>3, <3>4, <3>6
      <4>2. F(k + 1)[i] = F(k)[i]
        BY <3>5, <4>1
      <4>3. F(k)[i] = F(m)[i]
        BY <3>6
      <4>. QED  BY <4>2, <4>3
    <3>. QED  BY <3>7, <3>8 DEF F, y, z
  <2>. QED  BY <2>1, <2>2
<1>5. Nat \subseteq P
  <2>. HIDE DEF P
  <2>. QED  BY <1>3, <1>4, SetInduction
<1>6. Keeps(n)
  BY <1>5
<1>7. ASSUME NEW i \in 1 .. Len(f[m])
      PROVE  Flat(f, n)[L(m - 1) + i] = f[m][i]
  <2>1. L(m - 1) + i \in 1 .. L(m) /\ ~(L(m - 1) + i <= L(m - 1)) /\ (L(m - 1) + i) - L(m - 1) = i
    BY <1>1, <1>2, SMTT(30)
  <2>2. Flat(f, m)[L(m - 1) + i] = f[m][i]
    BY <1>2, <2>1
  <2>. QED  BY <1>6, <2>1, <2>2
<1>. QED  BY <1>1, <1>2, <1>6, <1>7 DEF L, Before, Placed

-----------------------------------------------------------------------------
(* What a cell may hold. *)
Contents == Nat \cup Identifiers \cup {NoName} \cup [name : Identifiers, as : Identifiers \cup {NoName}]

Types ==
  {"StatementList", "FunctionDef", "Name", "Length", "FunctionStart", "FunctionStartDefaults",
   "FunctionStartStub", "FunctionEnd", "Body", "Pass", "Integer", "Import", "ImportFrom",
   "Alias", "Tuple", "Call"}

Cells == Types \X Contents

(* Cells of any type that hold no text, a number, a name or an alias.      *)
LEMMA CellType ==
  ASSUME NEW t \in Types
  PROVE  /\ Node(t) \in Cells /\ Node(t)[1] = t
         /\ \A x \in Contents : Cell(t, x) \in Cells /\ Cell(t, x)[1] = t /\ Cell(t, x)[2] = x
         /\ Nat \subseteq Contents /\ Identifiers \subseteq Contents /\ NoName \in Contents
         /\ [name : Identifiers, as : Identifiers \cup {NoName}] \subseteq Contents
<1>1. 0 \in Contents
  BY DEF Contents
<1>. QED  BY <1>1 DEF Cells, Contents, Cell, Node

(* A sequence of one cell.                                                 *)
LEMMA OneCell ==
  ASSUME NEW c \in Cells
  PROVE  <<c>> \in Seq(Cells) /\ Len(<<c>>) = 1 /\ <<c>>[1] = c
OBVIOUS

(* Two sequences of cells, one behind the other.                           *)
LEMMA Joined ==
  ASSUME NEW s \in Seq(Cells), NEW t \in Seq(Cells)
  PROVE  /\ s \o t \in Seq(Cells) /\ Len(s \o t) = Len(s) + Len(t)
         /\ Len(s) \in Nat /\ Len(t) \in Nat
         /\ \A i \in 1 .. Len(s) : (s \o t)[i] = s[i]
         /\ \A i \in 1 .. Len(t) : (s \o t)[Len(s) + i] = t[i]
<1>1. Len(s) \in Nat /\ Len(t) \in Nat
  BY LenProperties
<1>. QED  BY <1>1, ConcatProperties

(* A cell repeated.                                                        *)
LEMMA Repeated ==
  ASSUME NEW n \in Nat, NEW c \in Cells
  PROVE  /\ Repeat(n, c) \in Seq(Cells) /\ Len(Repeat(n, c)) = n
         /\ \A i \in 1 .. n : Repeat(n, c)[i] = c
<1>. DEFINE f == [i \in 1 .. n |-> c]
<1>1. \A i \in 1 .. n : f[i] = c
  OBVIOUS
<1>2. f = [i \in 1 .. n |-> f[i]]
  OBVIOUS
<1>3. f = Repeat(n, c)
  BY DEF Repeat
<1>. HIDE DEF f
<1>4. [i \in 1 .. n |-> f[i]] \in Seq(Cells) /\ Len([i \in 1 .. n |-> f[i]]) = n
  BY <1>1, SegmentIsSeq
<1>. QED  BY <1>1, <1>2, <1>3, <1>4, Zenon

(* Compiler, FunctionDef: where each part of a function definition is.     *)
LEMMA DefLayout ==
  ASSUME NEW s \in Definitions, s.default => s.arity > 0
  PROVE  LET c == CompileDef(s)
             a == s.arity IN
         /\ c \in Seq(Cells) /\ Len(c) = 7 + 2 * a + s.body
         /\ c[1][1] = "FunctionDef" /\ c[2] = Cell("Name", s.name) /\ c[3][2] = s.body
         /\ c[4] = Cell("FunctionStart", a)
         /\ \A i \in 1 .. a : c[4 + i][1] = "Name"
         /\ c[5 + a] = Cell("FunctionStartDefaults", a)
         /\ ~s.default => \A i \in 1 .. a : c[5 + a + i][1] = "Pass"
         /\ s.default => c[5 + 2 * a][1] = "Integer"
         /\ c[6 + 2 * a][1] = "FunctionStartStub"
         /\ c[7 + 2 * a + s.body][1] = "FunctionEnd"
<1>. DEFINE a == s.arity
            b == s.body
            s1 == <<Node("FunctionDef"), Cell("Name", s.name), Cell("Length", StubLength(s)),
                    Cell("FunctionStart", a)>>
            s2 == Repeat(a, Cell("Name", NoName))
            s3 == <<Cell("FunctionStartDefaults", a)>>
            s4 == Defaults(s)
            s5 == <<Node("FunctionStartStub")>>
            s6 == Repeat(b, Node("Body"))
            s7 == <<Node("FunctionEnd")>>
<1>1. a \in Nat /\ b \in Nat /\ s.name \in Identifiers
  BY DEF Definitions
<1>2. /\ s1 \in Seq(Cells) /\ Len(s1) = 4 /\ s1[1][1] = "FunctionDef"
      /\ s1[2] = Cell("Name", s.name) /\ s1[3][2] = b /\ s1[4] = Cell("FunctionStart", a)
  <2>1. /\ Node("FunctionDef") \in Cells /\ Cell("Name", s.name) \in Cells
        /\ Cell("Length", b) \in Cells /\ Cell("FunctionStart", a) \in Cells
    BY <1>1, CellType DEF Types
  <2>. QED  BY <2>1 DEF Cell, Node, StubLength
<1>3. s2 \in Seq(Cells) /\ Len(s2) = a /\ \A i \in 1 .. a : s2[i][1] = "Name"
  <2>1. Cell("Name", NoName) \in Cells /\ Cell("Name", NoName)[1] = "Name"
    BY CellType DEF Types
  <2>. QED  BY <1>1, <2>1, Repeated
<1>4. s3 \in Seq(Cells) /\ Len(s3) = 1 /\ s3[1] = Cell("FunctionStartDefaults", a)
  BY <1>1, CellType, OneCell DEF Types
<1>5. /\ s4 \in Seq(Cells) /\ Len(s4) = a
      /\ ~s.default => \A i \in 1 .. a : s4[i][1] = "Pass"
      /\ s.default => s4[a][1] = "Integer"
  <2>1. /\ Node("Pass") \in Cells /\ Node("Pass")[1] = "Pass"
        /\ Node("Integer") \in Cells /\ Node("Integer")[1] = "Integer"
    BY CellType DEF Types
  <2>2. CASE s.default
    <3>0. a - 1 \in Nat
      BY <1>1, <2>2
    <3>1. /\ Repeat(a - 1, Node("Pass")) \in Seq(Cells)
          /\ Len(Repeat(a - 1, Node("Pass"))) = a - 1
      BY <2>1, <3>0, Repeated, Zenon
    <3>2. s4 = Append(Repeat(a - 1, Node("Pass")), Node("Integer"))
      BY <2>2 DEF Defaults
    <3>3. s4 \in Seq(Cells) /\ Len(s4) = (a - 1) + 1 /\ s4[(a - 1) + 1] = Node("Integer")
      BY <2>1, <3>1, <3>2, AppendProperties
    <3>4. (a - 1) + 1 = a
      BY <1>1
    <3>. QED  BY <2>1, <2>2, <3>3, <3>4, Zenon
  <2>3. CASE ~s.default
    <3>1. s4 = Repeat(a, Node("Pass"))
      BY <2>3 DEF Defaults
    <3>2. /\ Repeat(a, Node("Pass")) \in Seq(Cells) /\ Len(Repeat(a, Node("Pass"))) = a
          /\ \A i \in 1 .. a : Repeat(a, Node("Pass"))[i] = Node("Pass")
      BY <1>1, <2>1, Repeated
    <3>. QED  BY <2>1, <2>3, <3>1, <3>2
  <2>. QED  BY <2>2, <2>3
<1>6. s5 \in Seq(Cells) /\ Len(s5) = 1 /\ s5[1][1] = "FunctionStartStub"
  BY CellType, OneCell DEF Types
<1>7. s6 \in Seq(Cells) /\ Len(s6) = b
  <2>1. Node("Body") \in Cells
    BY CellType DEF Types
  <2>. QED  BY <1>1, <2>1, Repeated
<1>8. s7 \in Seq(Cells) /\ Len(s7) = 1 /\ s7[1][1] = "FunctionEnd"
  BY CellType, OneCell DEF Types
<1>9. CompileDef(s) = s1 \o s2 \o s3 \o s4 \o s5 \o s6 \o s7
  BY DEF CompileDef
<1>. DEFINE t2 == s1 \o s2
            t3 == t2 \o s3
            t4 == t3 \o s4
            t5 == t4 \o s5
            t6 == t5 \o s6
            t7 == t6 \o s7
<1>. HIDE DEF a, b, s1, s2, s3, s4, s5, s6, s7
<1>10. /\ t2 \in Seq(Cells) /\ Len(t2) = 4 + a
       /\ \A i \in 1 .. 4 : t2[i] = s1[i]
       /\ \A i \in 1 .. a : t2[4 + i] = s2[i]
  <2>1. /\ t2 \in Seq(Cells) /\ Len(t2) = Len(s1) + Len(s2)
        /\ \A i \in 1 .. Len(s1) : t2[i] = s1[i]
        /\ \A i \in 1 .. Len(s2) : t2[Len(s1) + i] = s2[i]
    BY <1>2, <1>3, Joined, Zenon
  <2>. HIDE DEF t2
  <2>. QED  BY <1>1, <1>2, <1>3, <2>1
<1>. HIDE DEF t2
<1>11. /\ t3 \in Seq(Cells) /\ Len(t3) = 5 + a
       /\ \A i \in 1 .. 4 + a : t3[i] = t2[i]
       /\ t3[5 + a] = s3[1]
  <2>1. /\ t3 \in Seq(Cells) /\ Len(t3) = Len(t2) + Len(s3)
        /\ \A i \in 1 .. Len(t2) : t3[i] = t2[i]
        /\ \A i \in 1 .. Len(s3) : t3[Len(t2) + i] = s3[i]
    BY <1>4, <1>10, Joined, Zenon
  <2>. HIDE DEF t3
  <2>. QED  BY <1>1, <1>4, <1>10, <2>1
<1>. HIDE DEF t3
<1>12. /\ t4 \in Seq(Cells) /\ Len(t4) = 5 + 2 * a
       /\ \A i \in 1 .. 5 + a : t4[i] = t3[i]
       /\ \A i \in 1 .. a : t4[5 + a + i] = s4[i]
  <2>1. /\ t4 \in Seq(Cells) /\ Len(t4) = Len(t3) + Len(s4)
        /\ \A i \in 1 .. Len(t3) : t4[i] = t3[i]
        /\ \A i \in 1 .. Len(s4) : t4[Len(t3) + i] = s4[i]
    BY <1>5, <1>11, Joined, Zenon
  <2>. HIDE DEF t4
  <2>. QED  BY <1>1, <1>5, <1>11, <2>1
<1>. HIDE DEF t4
<1>13. /\ t5 \in Seq(Cells) /\ Len(t5) = 6 + 2 * a
       /\ \A i \in 1 .. 5 + 2 * a : t5[i] = t4[i]
       /\ t5[6 + 2 * a] = s5[1]
  <2>1. /\ t5 \in Seq(Cells) /\ Len(t5) = Len(t4) + Len(s5)
        /\ \A i \in 1 .. Len(t4) : t5[i] = t4[i]
        /\ \A i \in 1 .. Len(s5) : t5[Len(t4) + i] = s5[i]
    BY <1>6, <1>12, Joined, Zenon
  <2>. HIDE DEF t5
  <2>. QED  BY <1>1, <1>6, <1>12, <2>1
<1>. HIDE DEF t5
<1>14. /\ t6 \in Seq(Cells) /\ Len(t6) = 6 + 2 * a + b
       /\ \A i \in 1 .. 6 + 2 * a : t6[i] = t5[i]
  <2>1. /\ t6 \in Seq(Cells) /\ Len(t6) = Len(t5) + Len(s6)
        /\ \A i \in 1 .. Len(t5) : t6[i] = t5[i]
        /\ \A i \in 1 .. Len(s6) : t6[Len(t5) + i] = s6[i]
    BY <1>7, <1>13, Joined, Zenon
  <2>. HIDE DEF t6
  <2>. QED  BY <1>1, <1>7, <1>13, <2>1
<1>. HIDE DEF t6
<1>15. /\ t7 \in Seq(Cells) /\ Len(t7) = 7 + 2 * a + b
       /\ \A i \in 1 .. 6 + 2 * a + b : t7[i] = t6[i]
       /\ t7[7 + 2 * a + b] = s7[1]
  <2>1. /\ t7 \in Seq(Cells) /\ Len(t7) = Len(t6) + Len(s7)
        /\ \A i \in 1 .. Len(t6) : t7[i] = t6[i]
        /\ \A i \in 1 .. Len(s7) : t7[Len(t6) + i] = s7[i]
    BY <1>8, <1>14, Joined, Zenon
  <2>. HIDE DEF t7
  <2>. QED  BY <1>1, <1>8, <1>14, <2>1
<1>. HIDE DEF t7
<1>16. CompileDef(s) = t7
  BY <1>9, Zenon DEF t2, t3, t4, t5, t6, t7
<1>17. \A i \in 1 .. 6 + 2 * a : t7[i] = t5[i]
  BY <1>1, <1>14, <1>15
<1>18. \A i \in 1 .. 5 + 2 * a : t7[i] = t4[i]
  BY <1>1, <1>13, <1>17
<1>19. \A i \in 1 .. 5 + a : t7[i] = t3[i]
  BY <1>1, <1>12, <1>18
<1>20. \A i \in 1 .. 4 + a : t7[i] = t2[i]
  BY <1>1, <1>11, <1>19
<1>21. \A i \in 1 .. 4 : t7[i] = s1[i]
  BY <1>1, <1>10, <1>20
<1>22. \A i \in 1 .. a : t7[4 + i] = s2[i] /\ t7[5 + a + i] = s4[i]
  BY <1>1, <1>10, <1>12, <1>18, <1>20
<1>23. /\ t7[5 + a] = s3[1] /\ t7[6 + 2 * a] = s5[1]
       /\ s.default => t7[5 + 2 * a] = s4[a]
  <2>1. s.default => a \in 1 .. a /\ 5 + a + a = 5 + 2 * a
    BY <1>1 DEF a
  <2>. QED  BY <1>1, <1>11, <1>13, <1>17, <1>19, <1>22, <2>1
<1>. QED
  <2>1. /\ t7[1][1] = "FunctionDef" /\ t7[2] = Cell("Name", s.name) /\ t7[3][2] = b
        /\ t7[4] = Cell("FunctionStart", a)
    BY <1>2, <1>21
  <2>2. /\ \A i \in 1 .. a : t7[4 + i][1] = "Name"
        /\ ~s.default => \A i \in 1 .. a : t7[5 + a + i][1] = "Pass"
    BY <1>3, <1>5, <1>22
  <2>3. /\ t7[5 + a] = Cell("FunctionStartDefaults", a)
        /\ s.default => t7[5 + 2 * a][1] = "Integer"
        /\ t7[6 + 2 * a][1] = "FunctionStartStub" /\ t7[7 + 2 * a + b][1] = "FunctionEnd"
    BY <1>4, <1>5, <1>6, <1>8, <1>15, <1>23, Zenon
  <2>. QED  BY <1>15, <1>16, <2>1, <2>2, <2>3, Zenon DEF a, b

(* Compiler, an import's operand: one alias, or a tuple of them.           *)
LEMMA AliasLayout ==
  ASSUME NEW as \in Operands
  PROVE  LET c == CompileAliases(as) IN
         /\ Len(as) \in Nat \ {0} /\ DOMAIN as = 1 .. Len(as)
         /\ \A i \in 1 .. Len(as) : as[i] \in [name : Identifiers, as : Identifiers \cup {NoName}]
         /\ c \in Seq(Cells)
         /\ Len(as) = 1 => Len(c) = 1 /\ c[1] = Cell("Alias", as[1])
         /\ Len(as) # 1 => /\ Len(c) = 1 + Len(as) /\ c[1] = Cell("Tuple", Len(as))
                           /\ \A i \in 1 .. Len(as) : c[1 + i] = Cell("Alias", as[i])
<1>. DEFINE A == [name : Identifiers, as : Identifiers \cup {NoName}]
            n == Len(as)
            cells == [i \in DOMAIN as |-> Cell("Alias", as[i])]
<1>1. as \in Seq(A) /\ as # <<>>
  BY DEF Operands
<1>. HIDE DEF A
<1>2. n \in Nat \ {0} /\ DOMAIN as = 1 .. n /\ \A i \in 1 .. n : as[i] \in A
  BY <1>1, EmptySeq, LenProperties, ElementOfSeq
<1>3. \A i \in 1 .. n : Cell("Alias", as[i]) \in Cells
  <2>. SUFFICES ASSUME NEW i \in 1 .. n PROVE Cell("Alias", as[i]) \in Cells
    OBVIOUS
  <2>1. as[i] \in Contents
    BY <1>2, CellType DEF A, Types
  <2>2. "Alias" \in Types
    BY DEF Types
  <2>. QED  BY <2>1, <2>2, CellType
<1>. HIDE DEF n
<1>4. cells \in Seq(Cells) /\ Len(cells) = n /\ \A i \in 1 .. n : cells[i] = Cell("Alias", as[i])
  <2>1. \A i \in 1 .. n : cells[i] = Cell("Alias", as[i])
    BY <1>2
  <2>2. cells = [i \in 1 .. n |-> cells[i]]
    BY <1>2
  <2>. HIDE DEF cells
  <2>3. [i \in 1 .. n |-> cells[i]] \in Seq(Cells) /\ Len([i \in 1 .. n |-> cells[i]]) = n
    <3>1. n \in Nat /\ \A i \in 1 .. n : cells[i] \in Cells
      BY <1>2, <1>3, <2>1
    <3>. QED  BY <3>1, SegmentIsSeq, Zenon
  <2>. QED  BY <2>1, <2>2, <2>3, Zenon
<1>5. CompileAliases(as) = IF n = 1 THEN cells ELSE <<Cell("Tuple", n)>> \o cells
  BY DEF CompileAliases, n
<1>. HIDE DEF cells
<1>6. CASE n = 1
  <2>1. CompileAliases(as) = cells
    BY <1>5, <1>6
  <2>2. cells[1] = Cell("Alias", as[1])
    <3>1. 1 \in 1 .. n
      BY <1>6
    <3>. QED  BY <1>4, <3>1
  <2>. QED  BY <1>2, <1>4, <1>6, <2>1, <2>2, Zenon DEF n, A
<1>7. CASE n # 1
  <2>. DEFINE t == <<Cell("Tuple", n)>>
              c == t \o cells
  <2>1. CompileAliases(as) = c
    BY <1>5, <1>7
  <2>2. Cell("Tuple", n) \in Cells
    BY <1>2, CellType DEF Types
  <2>3. t \in Seq(Cells) /\ Len(t) = 1 /\ t[1] = Cell("Tuple", n)
    BY <2>2, OneCell
  <2>. HIDE DEF t
  <2>4. /\ c \in Seq(Cells) /\ Len(c) = Len(t) + Len(cells)
        /\ \A i \in 1 .. Len(t) : c[i] = t[i]
        /\ \A i \in 1 .. Len(cells) : c[Len(t) + i] = cells[i]
    BY <1>4, <2>3, Joined, Zenon
  <2>. HIDE DEF c
  <2>5. Len(c) = 1 + n /\ c[1] = Cell("Tuple", n) /\ \A i \in 1 .. n : c[1 + i] = Cell("Alias", as[i])
    <3>1. 1 \in 1 .. Len(t)
      BY <2>3
    <3>2. c[1] = Cell("Tuple", n)
      BY <2>3, <2>4, <3>1, Zenon
    <3>3. \A i \in 1 .. n : c[1 + i] = Cell("Alias", as[i])
      BY <1>4, <2>3, <2>4, Zenon
    <3>. QED  BY <1>4, <2>3, <2>4, <3>2, <3>3
  <2>. QED  BY <1>2, <1>7, <2>1, <2>4, <2>5, Zenon DEF n, A
<1>. QED  BY <1>6, <1>7

(* Compiler, Import and ImportFrom.                                        *)
LEMMA ImportLayout ==
  ASSUME NEW s \in Statement, IsImport(s)
  PROVE  LET c == CompileStatement(s)
             d == IF s.kind = "import" THEN 1 ELSE 2 IN
         /\ s.names \in Operands
         /\ c \in Seq(Cells) /\ Len(c) = d + Len(CompileAliases(s.names))
         /\ c[1][1] = IF s.kind = "import" THEN "Import" ELSE "ImportFrom"
         /\ s.kind = "from" => s.module \in Identifiers /\ c[2][2] = s.module
         /\ \A i \in 1 .. Len(CompileAliases(s.names)) : c[d + i] = CompileAliases(s.names)[i]
<1>. DEFINE b == CompileAliases(s.names)
            c == CompileStatement(s)
<1>1. s.names \in Operands /\ (s.kind = "from" => s.module \in Identifiers)
  BY DEF Statement, IsImport, Definitions
<1>2. b \in Seq(Cells) /\ Len(b) \in Nat
  BY <1>1, AliasLayout, LenProperties
<1>3. CASE s.kind = "import"
  <2>. DEFINE a == <<Node("Import")>>
  <2>1. c = a \o b
    BY <1>3 DEF CompileStatement
  <2>2. a \in Seq(Cells) /\ Len(a) = 1 /\ a[1][1] = "Import"
    BY CellType, OneCell DEF Types
  <2>. HIDE DEF a, b, c
  <2>3. /\ c \in Seq(Cells) /\ Len(c) = Len(a) + Len(b)
        /\ \A i \in 1 .. Len(a) : c[i] = a[i]
        /\ \A i \in 1 .. Len(b) : c[Len(a) + i] = b[i]
    BY <1>2, <2>1, <2>2, Joined, Zenon
  <2>4. c[1][1] = "Import"
    BY <2>2, <2>3
  <2>. QED  BY <1>1, <1>3, <2>2, <2>3, <2>4 DEF b, c
<1>4. CASE s.kind = "from"
  <2>. DEFINE a == <<Node("ImportFrom"), Cell("Name", s.module)>>
  <2>1. c = a \o b
    BY <1>4 DEF CompileStatement
  <2>2. a \in Seq(Cells) /\ Len(a) = 2 /\ a[1][1] = "ImportFrom" /\ a[2][2] = s.module
    <3>1. /\ Node("ImportFrom") \in Cells /\ Node("ImportFrom")[1] = "ImportFrom"
          /\ Cell("Name", s.module) \in Cells /\ Cell("Name", s.module)[2] = s.module
      BY <1>1, <1>4, CellType DEF Types
    <3>. QED  BY <3>1
  <2>. HIDE DEF a, b, c
  <2>3. /\ c \in Seq(Cells) /\ Len(c) = Len(a) + Len(b)
        /\ \A i \in 1 .. Len(a) : c[i] = a[i]
        /\ \A i \in 1 .. Len(b) : c[Len(a) + i] = b[i]
    BY <1>2, <2>1, <2>2, Joined, Zenon
  <2>4. c[1][1] = "ImportFrom" /\ c[2][2] = s.module
    BY <2>2, <2>3
  <2>. QED  BY <1>1, <1>4, <2>2, <2>3, <2>4 DEF b, c
<1>. QED  BY <1>3, <1>4 DEF IsImport

(* Every statement becomes cells, one at least; the first tells its kind.  *)
LEMMA StatementLayout ==
  ASSUME NEW s \in Statement
  PROVE  LET c == CompileStatement(s) IN
         /\ s.kind \in {"def", "import", "from", "pass", "other"}
         /\ c \in Seq(Cells) /\ Len(c) \in Nat \ {0}
         /\ c[1][1] = CASE s.kind = "def"    -> "FunctionDef"
                        [] s.kind = "import" -> "Import"
                        [] s.kind = "from"   -> "ImportFrom"
                        [] s.kind = "pass"   -> "Pass"
                        [] s.kind = "other"  -> "Call"
         /\ s.kind = "def" => /\ s \in Definitions /\ (s.default => s.arity > 0)
                              /\ c = CompileDef(s)
         /\ s.kind \in {"pass", "other"} => Len(c) = 1
<1>1. s.kind \in {"def", "import", "from", "pass", "other"}
  BY DEF Statement, Definitions
<1>2. CASE s.kind = "def"
  <2>1. s \in Definitions /\ (s.default => s.arity > 0) /\ CompileStatement(s) = CompileDef(s)
    BY <1>2 DEF Statement, CompileStatement
  <2>2. s.arity \in Nat /\ s.body \in Nat
    BY <2>1 DEF Definitions
  <2>3. CompileDef(s) \in Seq(Cells) /\ Len(CompileDef(s)) = 7 + 2 * s.arity + s.body
        /\ CompileDef(s)[1][1] = "FunctionDef"
    BY <2>1, DefLayout
  <2>. QED  BY <1>1, <1>2, <2>1, <2>2, <2>3
<1>3. CASE IsImport(s)
  <2>1. Len(CompileAliases(s.names)) \in Nat
    BY <1>3, ImportLayout, AliasLayout, LenProperties
  <2>. QED  BY <1>1, <1>3, <2>1, ImportLayout DEF IsImport
<1>4. CASE s.kind \in {"pass", "other"}
  <2>1. CompileStatement(s) = IF s.kind = "pass" THEN <<Node("Pass")>> ELSE <<Node("Call")>>
    BY <1>4 DEF CompileStatement
  <2>2. Node("Pass") \in Cells /\ Node("Pass")[1] = "Pass" /\ Node("Call") \in Cells /\ Node("Call")[1] = "Call"
    BY CellType DEF Types
  <2>3. /\ CompileStatement(s) \in Seq(Cells) /\ Len(CompileStatement(s)) = 1
        /\ CompileStatement(s)[1][1] = IF s.kind = "pass" THEN "Pass" ELSE "Call"
    BY <2>1, <2>2, OneCell
  <2>. QED  BY <1>1, <1>4, <2>3
<1>. QED  BY <1>1, <1>2, <1>3, <1>4 DEF IsImport

(* The whole program: statement k is between Start(k) and Start(k + 1).    *)
LEMMA Layout ==
  ASSUME program \in Seq(Statement), code = Compile(program)
  PROVE  /\ Len(program) \in Nat /\ DOMAIN program = 1 .. Len(program)
         /\ Start(1) = 2 /\ Len(code) \in Nat
         /\ \A k \in 1 .. Len(program) :
              LET c == CompileStatement(program[k]) IN
              /\ program[k] \in Statement
              /\ Start(k) \in Nat /\ Start(k) >= 2 /\ Len(c) \in Nat \ {0}
              /\ Start(k + 1) = Start(k) + Len(c) /\ Start(k + 1) <= Len(code) + 1
              /\ \A i \in 1 .. Len(c) : code[Start(k) + i - 1] = c[i]
<1>. DEFINE n == Len(program)
            C == [i \in DOMAIN program |-> CompileStatement(program[i])]
<1>1. n \in Nat /\ DOMAIN program = 1 .. n /\ \A k \in 1 .. n : program[k] \in Statement
  BY LenProperties, ElementOfSeq
<1>2. \A k \in 1 .. n : C[k] \in Seq(Cells) /\ Len(C[k]) \in Nat \ {0} /\ C[k] = CompileStatement(program[k])
  BY <1>1, StatementLayout
<1>3. C = [i \in 1 .. n |-> C[i]]
  BY <1>1
<1>. HIDE DEF n
<1>4. \A k \in 1 .. n + 1 : Start(k) = 2 + Len(Flat(C, k - 1))
  <2>. SUFFICES ASSUME NEW k \in 1 .. n + 1 PROVE Start(k) = 2 + Len(Flat(C, k - 1))
    OBVIOUS
  <2>1. \A i \in 1 .. k - 1 : C[i] = CompileStatement(program[i])
    BY <1>1, <1>2
  <2>. HIDE DEF C
  <2>2. [i \in 1 .. k - 1 |-> CompileStatement(program[i])] = [i \in 1 .. k - 1 |-> C[i]]
    BY <2>1
  <2>. QED  BY <2>2, Zenon DEF Start, Flat
<1>5. code = <<Cell("StatementList", n)>> \o Flat(C, n)
  BY <1>3, Zenon DEF Compile, Flat, n
<1>. HIDE DEF C
<1>6. Flat(C, n) \in Seq(Cells) /\ Flat(C, 0) = <<>>
  <2>1. n \in 0 .. n /\ \A k \in 1 .. n : C[k] \in Seq(Cells)
    BY <1>1, <1>2
  <2>. QED  BY <1>1, <2>1, FlatSteps
<1>7. /\ Len(code) = 1 + Len(Flat(C, n)) /\ Len(Flat(C, n)) \in Nat
      /\ \A i \in 1 .. Len(Flat(C, n)) : code[1 + i] = Flat(C, n)[i]
  <2>. DEFINE t == <<Cell("StatementList", n)>>
  <2>1. Cell("StatementList", n) \in Cells
    BY <1>1, CellType DEF Types
  <2>2. t \in Seq(Cells) /\ Len(t) = 1
    BY <2>1, OneCell
  <2>. HIDE DEF t
  <2>3. /\ Len(t \o Flat(C, n)) = Len(t) + Len(Flat(C, n)) /\ Len(Flat(C, n)) \in Nat
        /\ \A i \in 1 .. Len(Flat(C, n)) : (t \o Flat(C, n))[Len(t) + i] = Flat(C, n)[i]
    BY <1>6, <2>2, Joined, Zenon
  <2>. QED  BY <1>5, <2>2, <2>3, Zenon DEF t
<1>8. Start(1) = 2
  BY <1>1, <1>4, <1>6, EmptySeq
<1>9. ASSUME NEW k \in 1 .. n
      PROVE  LET c == CompileStatement(program[k]) IN
             /\ Start(k) \in Nat /\ Start(k) >= 2
             /\ Start(k + 1) = Start(k) + Len(c) /\ Start(k + 1) <= Len(code) + 1
             /\ \A i \in 1 .. Len(c) : code[Start(k) + i - 1] = c[i]
  <2>. DEFINE a == Before(C, k)
              b == Len(C[k])
              z == Len(Flat(C, n))
  <2>1. \A i \in 1 .. n : C[i] \in Seq(Cells)
    BY <1>2
  <2>2. /\ a \in Nat /\ b \in Nat /\ Len(Flat(C, k)) = a + b /\ a + b <= z
        /\ \A i \in 1 .. b : Flat(C, n)[a + i] = C[k][i]
    <3>1. Placed(C, n, k)
      BY <1>1, <2>1, FlatAt
    <3>. QED  BY <3>1 DEF Placed
  <2>3. Start(k) = 2 + a /\ Start(k + 1) = 2 + Len(Flat(C, k))
    <3>1. k \in 1 .. n + 1 /\ k + 1 \in 1 .. n + 1 /\ (k + 1) - 1 = k
      BY <1>1
    <3>. QED  BY <1>4, <3>1 DEF Before
  <2>4. z \in Nat /\ Len(code) = 1 + z /\ C[k] = CompileStatement(program[k])
    BY <1>2, <1>7
  <2>5. \A i \in 1 .. z : code[1 + i] = Flat(C, n)[i]
    BY <1>7
  <2>. HIDE DEF a, b, z
  <2>6. ASSUME NEW i \in 1 .. b PROVE code[Start(k) + i - 1] = C[k][i]
    <3>1. a + i \in 1 .. z /\ Start(k) + i - 1 = 1 + (a + i)
      BY <2>2, <2>3, <2>4
    <3>. QED  BY <2>2, <2>5, <3>1
  <2>. QED  BY <2>2, <2>3, <2>4, <2>6 DEF b
<1>10. Len(code) \in Nat
  BY <1>7
<1>11. \A k \in 1 .. n : Len(CompileStatement(program[k])) \in Nat \ {0}
  BY <1>2
<1>. QED  BY <1>1, <1>8, <1>9, <1>10, <1>11, Zenon DEF n

-----------------------------------------------------------------------------
(* A set of numbers up to k has a largest one. *)
LEMMA LargestNumber ==
  ASSUME NEW k \in Nat, NEW T, T \subseteq 0 .. k, T # {}
  PROVE  Max(T) \in T /\ \A y \in T : y <= Max(T)
<1>. DEFINE U == {k - y : y \in T}
<1>1. U \subseteq Nat /\ U # {}
  OBVIOUS
<1>2. PICK u \in U : \A v \in U : u <= v
  BY <1>1, LeastNumber
<1>3. PICK x \in T : u = k - x
  BY <1>2
<1>4. \A y \in T : x >= y
  <2>. SUFFICES ASSUME NEW y \in T PROVE x >= y
    OBVIOUS
  <2>1. k - x <= k - y
    BY <1>2, <1>3
  <2>. QED  BY <2>1
<1>5. \E z \in T : \A y \in T : z >= y
  BY <1>4
<1>6. Max(T) \in T /\ \A y \in T : Max(T) >= y
  BY <1>5, Zenon DEF Max
<1>. QED
  <2>1. \A y \in T : y \in Nat
    OBVIOUS
  <2>. QED  BY <1>6, <2>1

(* How many imports there are among the first statements. *)
LEMMA ImportsStep ==
  /\ Imports(0) = 0
  /\ \A k \in Nat :
       /\ Imports(k) \in Nat
       /\ Imports(k + 1) = IF IsImport(program[k + 1]) THEN Imports(k) + 1 ELSE Imports(k)
<1>. DEFINE I(k) == {i \in 1 .. k : IsImport(program[i])}
<1>1. I(0) = {}
  OBVIOUS
<1>2. \A k \in Nat : IsFiniteSet(I(k))
  <2>. SUFFICES ASSUME NEW k \in Nat PROVE IsFiniteSet(I(k))
    OBVIOUS
  <2>1. IsFiniteSet(1 .. k) /\ I(k) \subseteq 1 .. k
    BY FS_Interval
  <2>. QED  BY <2>1, FS_Subset
<1>3. \A k \in Nat : /\ k + 1 \notin I(k)
                     /\ I(k + 1) = IF IsImport(program[k + 1]) THEN I(k) \cup {k + 1} ELSE I(k)
  OBVIOUS
<1>4. \A k \in Nat : Imports(k) = Cardinality(I(k)) /\ Imports(k + 1) = Cardinality(I(k + 1))
  BY DEF Imports
<1>5. Imports(0) = Cardinality(I(0))
  BY DEF Imports
<1>. HIDE DEF I
<1>6. ASSUME NEW k \in Nat
      PROVE  /\ Imports(k) \in Nat
             /\ Imports(k + 1) = IF IsImport(program[k + 1]) THEN Imports(k) + 1 ELSE Imports(k)
  <2>1. IsFiniteSet(I(k)) /\ Imports(k) = Cardinality(I(k)) /\ Imports(k + 1) = Cardinality(I(k + 1))
    BY <1>2, <1>4
  <2>2. Imports(k) \in Nat
    BY <2>1, FS_CardinalityType
  <2>3. CASE IsImport(program[k + 1])
    <3>1. I(k + 1) = I(k) \cup {k + 1} /\ k + 1 \notin I(k)
      BY <1>3, <2>3
    <3>2. Cardinality(I(k) \cup {k + 1}) = Cardinality(I(k)) + 1
      BY <2>1, <3>1, FS_AddElement
    <3>. QED  BY <2>1, <2>2, <2>3, <3>1, <3>2
  <2>4. CASE ~IsImport(program[k + 1])
    <3>1. I(k + 1) = I(k)
      BY <1>3, <2>4
    <3>. QED  BY <2>1, <2>2, <2>4, <3>1
  <2>. QED  BY <2>3, <2>4
<1>7. Imports(0) = 0
  BY <1>1, <1>5, FS_EmptySet
<1>. QED  BY <1>6, <1>7

(* A later statement has as many imports before it or more.               *)
LEMMA ImportsGrow ==
  ASSUME NEW j \in Nat, NEW k \in Nat, j <= k
  PROVE  Imports(j) <= Imports(k)
<1>. DEFINE P == {i \in Nat : j <= i => Imports(j) <= Imports(i)}
<1>1. 0 \in P
  BY ImportsStep
<1>2. ASSUME NEW i \in Nat, i \in P PROVE i + 1 \in P
  <2>1. Imports(i) \in Nat /\ Imports(i + 1) \in Nat /\ Imports(j) \in Nat /\ Imports(i) <= Imports(i + 1)
    BY ImportsStep
  <2>. QED  BY <1>2, <2>1
<1>3. Nat \subseteq P
  <2>. HIDE DEF P
  <2>. QED  BY <1>1, <1>2, SetInduction
<1>. QED  BY <1>3

(* The statements with a place in the list: the first j, when n places are *)
(* used up by j statements, or by j statements but for the last operand.   *)
LEMMA ReachedIs ==
  ASSUME Len(program) \in Nat, DOMAIN program = 1 .. Len(program), NEW j \in 0 .. Len(program),
         \/ Len(program) = j + Imports(j)
         \/ j > 0 /\ IsImport(program[j]) /\ Len(program) = j + Imports(j - 1)
  PROVE  Reached = j
<1>. DEFINE n == Len(program)
            R == {k \in DOMAIN program : k - 1 + Imports(k - 1) < n}
<1>1. \A k \in 1 .. j : k - 1 + Imports(k - 1) < n
  <2>. SUFFICES ASSUME NEW k \in 1 .. j PROVE k - 1 + Imports(k - 1) < n
    OBVIOUS
  <2>1. k - 1 \in Nat /\ j - 1 \in Nat /\ j \in Nat
    OBVIOUS
  <2>2. Imports(k - 1) <= Imports(j - 1) /\ Imports(j - 1) <= Imports(j)
    BY <2>1, ImportsGrow
  <2>3. Imports(k - 1) \in Nat /\ Imports(j - 1) \in Nat /\ Imports(j) \in Nat
    BY <2>1, ImportsStep
  <2>. QED  BY <2>2, <2>3
<1>2. \A k \in 1 .. n : k > j => ~(k - 1 + Imports(k - 1) < n)
  <2>. SUFFICES ASSUME NEW k \in 1 .. n, k > j PROVE ~(k - 1 + Imports(k - 1) < n)
    OBVIOUS
  <2>1. k - 1 \in Nat /\ j \in Nat /\ j <= k - 1
    OBVIOUS
  <2>2. Imports(j) <= Imports(k - 1) /\ Imports(j) \in Nat /\ Imports(k - 1) \in Nat
    BY <2>1, ImportsGrow, ImportsStep
  <2>3. j > 0 /\ IsImport(program[j]) => /\ Imports(j - 1) \in Nat
                                         /\ Imports(j) = Imports(j - 1) + 1
    <3>. SUFFICES ASSUME j > 0, IsImport(program[j])
                  PROVE  Imports(j - 1) \in Nat /\ Imports(j) = Imports(j - 1) + 1
      OBVIOUS
    <3>1. j - 1 \in Nat /\ (j - 1) + 1 = j
      BY <2>1
    <3>. QED  BY <3>1, ImportsStep
  <2>. QED  BY <2>1, <2>2, <2>3
<1>3. R = 1 .. j
  BY <1>1, <1>2
<1>4. Reached = Cardinality(1 .. j)
  BY <1>3, Zenon DEF Reached
<1>5. j \in Nat /\ 1 \in Int
  OBVIOUS
<1>. QED  BY <1>4, <1>5, FS_Interval

-----------------------------------------------------------------------------
(* The statements up to k that bind a name, and the last of them. *)
LEMMA LastBinder ==
  ASSUME NEW k \in Nat, NEW n, Binders(k, n) # {}
  PROVE  Max(Binders(k, n)) \in Binders(k, n) /\ \A y \in Binders(k, n) : y <= Max(Binders(k, n))
<1>1. Binders(k, n) \subseteq 0 .. k
  BY DEF Binders
<1>. QED  BY <1>1, LargestNumber

(* One more statement: what it binds takes the place of what was bound.    *)
LEMMA PythonsStep ==
  ASSUME NEW k \in Nat, NEW gs, IsPythons(gs, k), NEW hs,
         \A n \in Identifiers :
           IF \E v \in Binds(program[k + 1]) : v[1] = n
             THEN <<n, hs[n]>> \in Binds(program[k + 1])
             ELSE hs[n] = gs[n]
  PROVE  IsPythons(hs, k + 1)
<1>. SUFFICES ASSUME NEW n \in Identifiers
              PROVE  IF Binders(k + 1, n) = {} THEN hs[n] = Unbound
                     ELSE <<n, hs[n]>> \in Binds(program[Max(Binders(k + 1, n))])
  BY DEF IsPythons
<1>1. IF Binders(k, n) = {} THEN gs[n] = Unbound
      ELSE <<n, gs[n]>> \in Binds(program[Max(Binders(k, n))])
  BY DEF IsPythons
<1>2. CASE \E v \in Binds(program[k + 1]) : v[1] = n
  <2>1. k + 1 \in Binders(k + 1, n) /\ Binders(k + 1, n) \subseteq 1 .. k + 1
    BY <1>2 DEF Binders
  <2>2. Max(Binders(k + 1, n)) = k + 1
    <3>1. Max(Binders(k + 1, n)) \in Binders(k + 1, n) /\ k + 1 <= Max(Binders(k + 1, n))
      BY <2>1, LastBinder
    <3>. QED  BY <2>1, <3>1
  <2>3. <<n, hs[n]>> \in Binds(program[k + 1])
    BY <1>2
  <2>. QED  BY <2>1, <2>2, <2>3
<1>3. CASE ~\E v \in Binds(program[k + 1]) : v[1] = n
  <2>1. Binders(k + 1, n) = Binders(k, n)
    BY <1>3 DEF Binders
  <2>2. hs[n] = gs[n]
    BY <1>3
  <2>. QED  BY <1>1, <2>1, <2>2, Zenon
<1>. QED  BY <1>2, <1>3

(* Before the first statement nothing is bound.                            *)
LEMMA PythonsInit == IsPythons([n \in Identifiers |-> Unbound], 0)
<1>1. \A n \in Identifiers : Binders(0, n) = {}
  BY DEF Binders
<1>. QED  BY <1>1 DEF IsPythons

(* hs is gs with names of the first n aliases bound to functions of m, and *)
(* no other name changed.                                                  *)
HasBound(hs, gs, m, as, n) ==
  \A x \in Identifiers :
    \/ /\ \A i \in 1 .. n : BoundAs(as[i]) # x
       /\ hs[x] = gs[x]
    \/ \E i \in 1 .. n : BoundAs(as[i]) = x /\ hs[x] = Native(Members[<<m, as[i].name>>])

(* load_from_module for the names of an import, one after the other: a     *)
(* name holds what the last of them bound it to, any other what it held.   *)
LEMMA BindAllBinds ==
  ASSUME NEW gs \in [Identifiers -> Bound], NEW m, NEW n \in Nat, NEW as,
         DOMAIN as = 1 .. n,
         \A i \in 1 .. n : BoundAs(as[i]) \in Identifiers /\ <<m, as[i].name>> \in DOMAIN Members
  PROVE  /\ BindAll(gs, m, as) \in [Identifiers -> Bound]
         /\ HasBound(BindAll(gs, m, as), gs, m, as, n)
<1>. DEFINE D == 1 .. n
            Step(g, i) == Bind(g, BoundAs(as[i]), Native(Members[<<m, as[i].name>>]))
            Def(h) == h = [s \in SUBSET D |-> IF s = {} THEN gs ELSE Step(h[s \ {Max(s)}], Max(s))]
            Small(k) == {s \in SUBSET D : Cardinality(s) <= k}
            IsFold(h, k) == h = [s \in Small(k) |-> IF s = {} THEN gs
                                                    ELSE Step(h[s \ {Max(s)}], Max(s))]
            Good == {k \in Nat : \E h : IsFold(h, k)}
<1>1. BindAll(gs, m, as) = (CHOOSE h : Def(h))[D]
  BY Zenon DEF BindAll, FoldLeft, MapThenFoldSet
<1>2. \A s \in SUBSET D : /\ Cardinality(s) \in Nat /\ (Cardinality(s) = 0 <=> s = {})
                          /\ s # {} => Max(s) \in s /\ Cardinality(s \ {Max(s)}) = Cardinality(s) - 1
  <2>. SUFFICES ASSUME NEW s \in SUBSET D
                PROVE  /\ Cardinality(s) \in Nat /\ (Cardinality(s) = 0 <=> s = {})
                       /\ s # {} => Max(s) \in s /\ Cardinality(s \ {Max(s)}) = Cardinality(s) - 1
    OBVIOUS
  <2>1. IsFiniteSet(s) /\ Cardinality(s) \in Nat
    <3>1. IsFiniteSet(D)
      BY FS_Interval
    <3>. HIDE DEF D
    <3>. QED  BY <3>1, FS_Subset, FS_CardinalityType
  <2>2. s # {} => Max(s) \in s
    <3>1. s \subseteq 0 .. n
      OBVIOUS
    <3>. QED  BY <3>1, LargestNumber
  <2>. QED  BY <2>1, <2>2, FS_RemoveElement, FS_EmptySet
<1>. HIDE DEF Step
<1>3. Nat \subseteq Good
  <2>1. 0 \in Good
    <3>1. Small(0) = {{}}
      <4>. HIDE DEF D
      <4>1. {} \in SUBSET D /\ \A s \in SUBSET D : Cardinality(s) <= 0 <=> s = {}
        <5>1. \A s \in SUBSET D : Cardinality(s) \in Nat /\ (Cardinality(s) = 0 <=> s = {})
          BY <1>2, Zenon
        <5>. QED  BY <5>1
      <4>. QED  BY <4>1
    <3>2. IsFold([s \in Small(0) |-> gs], 0)
      BY <3>1
    <3>. QED  BY <3>2
  <2>2. ASSUME NEW k \in Nat, k \in Good PROVE k + 1 \in Good
    <3>1. PICK g : IsFold(g, k)
      BY <2>2
    <3>. DEFINE h == [s \in Small(k + 1) |-> IF Cardinality(s) <= k THEN g[s]
                                             ELSE Step(g[s \ {Max(s)}], Max(s))]
    <3>2. \A s \in Small(k + 1) : IF Cardinality(s) <= k THEN s \in Small(k)
                                  ELSE s # {} /\ s \ {Max(s)} \in Small(k)
      <4>. HIDE DEF D
      <4>. SUFFICES ASSUME NEW s \in SUBSET D, Cardinality(s) <= k + 1
                    PROVE  IF Cardinality(s) <= k THEN s \in Small(k)
                           ELSE s # {} /\ s \ {Max(s)} \in Small(k)
        OBVIOUS
      <4>1. /\ Cardinality(s) \in Nat /\ (Cardinality(s) = 0 <=> s = {})
            /\ s # {} => Max(s) \in s /\ Cardinality(s \ {Max(s)}) = Cardinality(s) - 1
        BY <1>2
      <4>2. s \ {Max(s)} \in SUBSET D
        OBVIOUS
      <4>. QED  BY <4>1, <4>2
    <3>3. \A s \in Small(k) : g[s] = IF s = {} THEN gs ELSE Step(g[s \ {Max(s)}], Max(s))
      BY <3>1
    <3>4. ASSUME NEW s \in Small(k + 1)
          PROVE  h[s] = IF s = {} THEN gs ELSE Step(h[s \ {Max(s)}], Max(s))
      <4>1. CASE s = {}
        BY <1>2, <3>2, <3>3, <4>1
      <4>2. CASE s # {}
        <5>1. s \ {Max(s)} \in Small(k + 1) /\ Cardinality(s \ {Max(s)}) <= k
          <6>. HIDE DEF D
          <6>1. s \in SUBSET D /\ Cardinality(s) <= k + 1 /\ s \ {Max(s)} \in SUBSET D
            BY <3>4
          <6>2. /\ Cardinality(s) \in Nat
                /\ Cardinality(s \ {Max(s)}) = Cardinality(s) - 1
            BY <1>2, <4>2, <6>1
          <6>. QED  BY <6>1, <6>2
        <5>2. h[s \ {Max(s)}] = g[s \ {Max(s)}]
          BY <5>1
        <5>3. h[s] = Step(g[s \ {Max(s)}], Max(s))
          BY <3>2, <3>3, <4>2
        <5>. QED  BY <4>2, <5>2, <5>3
      <4>. QED  BY <4>1, <4>2
    <3>5. h = [s \in Small(k + 1) |-> h[s]]
      OBVIOUS
    <3>6. IsFold(h, k + 1)
      <4>. HIDE DEF h, Small
      <4>. QED  BY <3>4, <3>5
    <3>7. k + 1 \in Nat
      OBVIOUS
    <3>. HIDE DEF h, IsFold
    <3>. QED  BY <3>6, <3>7
  <2>. HIDE DEF Good
  <2>. QED  BY <2>1, <2>2, SetInduction
<1>4. PICK g : IsFold(g, n)
  BY <1>3
<1>5. Small(n) = SUBSET D
  <2>1. \A s \in SUBSET D : Cardinality(s) <= n
    <3>1. IsFiniteSet(D) /\ Cardinality(D) = n
      BY FS_Interval
    <3>. HIDE DEF D
    <3>2. ASSUME NEW s \in SUBSET D PROVE Cardinality(s) <= Cardinality(D)
      BY <3>1, FS_Subset, Zenon
    <3>. QED  BY <3>1, <3>2, Zenon
  <2>. QED  BY <2>1
<1>6. Def(g)
  BY <1>4, <1>5
<1>7. PICK h : Def(h) /\ BindAll(gs, m, as) = h[D]
  <2>. HIDE DEF Def
  <2>. QED  BY <1>1, <1>6
<1>8. \A s \in SUBSET D : h[s] = IF s = {} THEN gs ELSE Step(h[s \ {Max(s)}], Max(s))
  BY <1>7
<1>. DEFINE After(k) == h[1 .. k]
<1>9. After(0) = gs /\ \A k \in Nat : k + 1 <= n => After(k + 1) = Step(After(k), k + 1)
  <2>1. 1 .. 0 = {}
    OBVIOUS
  <2>2. ASSUME NEW k \in Nat, k + 1 <= n
        PROVE  After(k + 1) = Step(After(k), k + 1)
    <3>1. 1 .. (k + 1) \in SUBSET D /\ k + 1 \in 1 .. (k + 1)
      BY <2>2
    <3>2. Max(1 .. (k + 1)) = k + 1
      <4>1. 1 .. (k + 1) \subseteq 0 .. k + 1 /\ 1 .. (k + 1) # {}
        BY <3>1, SMTT(30)
      <4>2. Max(1 .. (k + 1)) \in 1 .. (k + 1) /\ k + 1 <= Max(1 .. (k + 1))
        <5>1. k + 1 \in Nat
          OBVIOUS
        <5>. QED  BY <3>1, <4>1, <5>1, LargestNumber
      <4>. QED  BY <4>2
    <3>3. 1 .. (k + 1) \ {k + 1} = 1 .. k
      OBVIOUS
    <3>. QED  BY <1>8, <3>1, <3>2, <3>3
  <2>. QED  BY <1>8, <2>1, <2>2
<1>. DEFINE Right(k) == /\ After(k) \in [Identifiers -> Bound]
                        /\ HasBound(After(k), gs, m, as, k)
            P == {k \in Nat : k <= n => Right(k)}
<1>. HIDE DEF After
<1>10. 0 \in P
  <2>1. 1 .. 0 = {} /\ 0 \in Nat
    OBVIOUS
  <2>2. Right(0)
    BY <1>9, <2>1 DEF HasBound
  <2>. HIDE DEF Right
  <2>. QED  BY <2>1, <2>2
<1>11. ASSUME NEW k \in Nat, k \in P PROVE k + 1 \in P
  <2>. SUFFICES ASSUME k + 1 <= n PROVE Right(k + 1)
    <3>. HIDE DEF Right
    <3>. QED  OBVIOUS
  <2>0. Right(k)
    <3>. HIDE DEF Right
    <3>. QED  BY <1>11
  <2>. DEFINE y == BoundAs(as[k + 1])
              v == Native(Members[<<m, as[k + 1].name>>])
  <2>1. After(k) \in [Identifiers -> Bound] /\ After(k + 1) = [After(k) EXCEPT ![y] = v]
    BY <1>9, <2>0 DEF Step, Bind
  <2>2. y \in Identifiers /\ v \in Bound
    <3>1. k + 1 \in 1 .. n
      OBVIOUS
    <3>2. Members[<<m, as[k + 1].name>>] \in Nat
      BY <3>1, ModulesAssumption
    <3>. QED  BY <3>1, <3>2 DEF Native, Bound
  <2>. HIDE DEF y, v
  <2>3. /\ After(k + 1) \in [Identifiers -> Bound] /\ After(k + 1)[y] = v
        /\ \A x \in Identifiers : x # y => After(k + 1)[x] = After(k)[x]
    BY <2>1, <2>2
  <2>4. ASSUME NEW x \in Identifiers
        PROVE  \/ /\ \A i \in 1 .. k + 1 : BoundAs(as[i]) # x
                  /\ After(k + 1)[x] = gs[x]
               \/ \E i \in 1 .. k + 1 : /\ BoundAs(as[i]) = x
                                        /\ After(k + 1)[x] = Native(Members[<<m, as[i].name>>])
    <3>1. CASE x = y
      <4>1. k + 1 \in 1 .. k + 1
        OBVIOUS
      <4>2. BoundAs(as[k + 1]) = x /\ After(k + 1)[x] = Native(Members[<<m, as[k + 1].name>>])
        BY <2>3, <3>1, Zenon DEF y, v
      <4>. QED  BY <4>1, <4>2, Zenon
    <3>2. CASE x # y
      <4>1. After(k + 1)[x] = After(k)[x] /\ BoundAs(as[k + 1]) # x
        BY <2>3, <3>2 DEF y
      <4>2. \/ /\ \A i \in 1 .. k : BoundAs(as[i]) # x
               /\ After(k)[x] = gs[x]
            \/ \E i \in 1 .. k : /\ BoundAs(as[i]) = x
                                 /\ After(k)[x] = Native(Members[<<m, as[i].name>>])
        BY <2>0 DEF HasBound
      <4>3. 1 .. k \subseteq 1 .. k + 1 /\ \A i \in 1 .. k + 1 : i \in 1 .. k \/ i = k + 1
        OBVIOUS
      <4>. QED  BY <4>1, <4>2, <4>3
    <3>. QED  BY <3>1, <3>2
  <2>. QED  BY <2>3, <2>4 DEF HasBound
<1>12. Right(n)
  <2>1. Nat \subseteq P
    <3>. HIDE DEF P
    <3>. QED  BY <1>10, <1>11, SetInduction
  <2>2. n \in P
    BY <2>1
  <2>. HIDE DEF Right
  <2>. QED  BY <2>2
<1>13. BindAll(gs, m, as) = After(n)
  BY <1>7 DEF After
<1>. QED  BY <1>12, <1>13, Zenon

-----------------------------------------------------------------------------
(* The first j statements have bound their names, and the cursor is at the *)
(* next one, or at the operand of the import that was statement j.         *)
Loads(j) ==
  /\ IsPythons(globals, j)
  /\ \/ pos = Start(j + 1) /\ Len(program) - left = j + Imports(j)
     \/ /\ j > 0 /\ IsImport(program[j])
        /\ pos = OperandStart(j) /\ Len(program) - left = j + Imports(j - 1)

(* What loading keeps true: the code is the program's, and until an error  *)
(* it is bound as far as the cursor has come.                              *)
LoadInv ==
  /\ program \in Programs /\ code = Compile(program)
  /\ pos \in 1 .. Len(code) + 1 /\ left \in 0 .. Len(program)
  /\ globals \in [Identifiers -> Bound]
  /\ status \in Statuses /\ why \in Reasons /\ why # "bytecode"
  /\ status # "threw" => \E j \in 0 .. Len(program) : Loads(j)
  /\ status \notin {"threw", "loading"} => left = 0

(* Only the program and the names matter to what was bound.                *)
LEMMA SameProgram ==
  ASSUME program' = program
  PROVE  \A j : /\ Start(j)' = Start(j) /\ Imports(j)' = Imports(j)
                /\ OperandStart(j)' = OperandStart(j)
                /\ IsPythons(globals, j)' <=> IsPythons(globals', j)
<1>. SUFFICES ASSUME NEW j
              PROVE  /\ Start(j)' = Start(j) /\ Imports(j)' = Imports(j)
                     /\ OperandStart(j)' = OperandStart(j)
                     /\ IsPythons(globals, j)' <=> IsPythons(globals', j)
  OBVIOUS
<1>1. Start(j)' = Start(j)
  BY Zenon DEF Start
<1>2. Imports(j)' = Imports(j)
  BY Zenon DEF Imports
<1>3. OperandStart(j)' = OperandStart(j)
  BY <1>1, Zenon DEF OperandStart
<1>4. IsPythons(globals, j)' <=> IsPythons(globals', j)
  BY Zenon DEF IsPythons, Binders
<1>. QED  BY <1>1, <1>2, <1>3, <1>4

(* Before the first statement nothing is bound, and the list's node has   *)
(* been read.                                                              *)
LEMMA InitLoads == Init => LoadInv
<1>. SUFFICES ASSUME Init PROVE LoadInv
  OBVIOUS
<1>1. program \in Seq(Statement)
  BY ProgramsAssumption DEF Init
<1>2. Len(program) \in Nat /\ Len(code) \in Nat /\ Start(1) = 2
  BY <1>1, Layout DEF Init
<1>3. Start(1) <= Len(code) + 1
  <2>1. Len(code) >= 1
    <3>1. CASE Len(program) = 0
      <4>. DEFINE C == [i \in DOMAIN program |-> CompileStatement(program[i])]
                  t == <<Cell("StatementList", Len(program))>>
      <4>1. code = t \o FlattenSeq(C)
        BY Zenon DEF Init, Compile
      <4>2. C = [i \in 1 .. 0 |-> C[i]]
        BY <1>1, <3>1, LenProperties
      <4>. HIDE DEF C
      <4>3. FlattenSeq(C) = <<>>
        <5>1. Flat(C, 0) = <<>>
          <6>1. 0 \in Nat /\ \A i \in 1 .. 0 : C[i] \in Seq(Cells)
            OBVIOUS
          <6>. QED  BY <6>1, FlatSteps
        <5>. QED  BY <4>2, <5>1, Zenon DEF Flat
      <4>4. t \in Seq(Cells) /\ Len(t) = 1
        <5>1. Cell("StatementList", Len(program)) \in Cells
          BY <1>2, CellType DEF Types
        <5>. QED  BY <5>1, OneCell
      <4>. HIDE DEF t
      <4>5. t \o FlattenSeq(C) = t
        BY <4>3, <4>4, ConcatEmptySeq
      <4>. QED  BY <4>1, <4>4, <4>5
    <3>2. CASE Len(program) > 0
      <4>1. 1 \in 1 .. Len(program)
        BY <1>2, <3>2
      <4>2. /\ Len(CompileStatement(program[1])) \in Nat \ {0} /\ Start(1 + 1) <= Len(code) + 1
            /\ Start(1 + 1) = Start(1) + Len(CompileStatement(program[1]))
        BY <1>1, <4>1, Layout DEF Init
      <4>. QED  BY <1>2, <4>2
    <3>. QED  BY <1>2, <3>1, <3>2
  <2>. QED  BY <1>2, <2>1
<1>4. globals \in [Identifiers -> Bound] /\ IsPythons(globals, 0)
  BY PythonsInit DEF Init, Bound, Unbound
<1>5. Loads(0)
  BY <1>2, <1>4, ImportsStep DEF Init, Loads
<1>6. 0 \in 0 .. Len(program) /\ pos \in 1 .. Len(code) + 1 /\ left \in 0 .. Len(program)
  BY <1>2, <1>3 DEF Init
<1>. QED  BY <1>4, <1>5, <1>6 DEF Init, LoadInv, Statuses, Reasons

(* An exception while loading leaves the code and the cursor alone.        *)
LEMMA FailLoads ==
  ASSUME LoadInv, NEW e \in Reasons \ {"bytecode"}, Throw(e),
         UNCHANGED <<program, code, pos, left>>, globals' \in [Identifiers -> Bound]
  PROVE  LoadInv'
BY DEF LoadInv, Throw, Statuses

(* A statement was executed: the first k have bound their names now.       *)
LEMMA ExecutedLoads ==
  ASSUME LoadInv, status = "loading", left > 0,
         NEW p \in 1 .. Len(code) + 1, Executed(p), globals' \in [Identifiers -> Bound],
         NEW k \in 0 .. Len(program), IsPythons(globals', k),
         \/ p = Start(k + 1) /\ Len(program) - (left - 1) = k + Imports(k)
         \/ /\ k > 0 /\ IsImport(program[k])
            /\ p = OperandStart(k) /\ Len(program) - (left - 1) = k + Imports(k - 1)
  PROVE  LoadInv'
<1>1. /\ pos' = p /\ left' = left - 1
      /\ program' = program /\ code' = code /\ status' = status /\ why' = why
  BY DEF Executed
<1>2. Loads(k)'
  <2>1. IsPythons(globals, k)' /\ Start(k + 1)' = Start(k + 1) /\ Imports(k)' = Imports(k)
        /\ Imports(k - 1)' = Imports(k - 1) /\ OperandStart(k)' = OperandStart(k)
    BY <1>1, SameProgram
  <2>. QED  BY <1>1, <2>1 DEF Loads, IsImport
<1>3. left' \in 0 .. Len(program)
  BY <1>1 DEF LoadInv
<1>. QED  BY <1>1, <1>2, <1>3 DEF LoadInv

(* At the beginning of a statement the code is that statement's.           *)
LEMMA AtStatement ==
  ASSUME LoadInv, left > 0, NEW j \in 0 .. Len(program),
         pos = Start(j + 1), Len(program) - left = j + Imports(j)
  PROVE  LET k == j + 1
             c == CompileStatement(program[k]) IN
         /\ j \in Nat /\ k \in 1 .. Len(program) /\ program[k] \in Statement /\ pos \in Nat
         /\ Len(code) \in Nat /\ Len(c) \in Nat \ {0} /\ c[1][1] = Type(pos)
         /\ Start(k + 1) = pos + Len(c) /\ pos + Len(c) <= Len(code) + 1
         /\ \A i \in 1 .. Len(c) : code[pos + i - 1] = c[i]
<1>1. program \in Seq(Statement) /\ code = Compile(program) /\ left \in Nat
  BY ProgramsAssumption DEF LoadInv
<1>2. Len(program) \in Nat /\ j \in Nat /\ Imports(j) \in Nat
  BY <1>1, Layout, ImportsStep
<1>3. j + 1 \in 1 .. Len(program)
  BY <1>1, <1>2
<1>. DEFINE k == j + 1
            c == CompileStatement(program[k])
<1>4. /\ program[k] \in Statement /\ Start(k) \in Nat /\ Len(c) \in Nat \ {0} /\ Len(code) \in Nat
      /\ Start(k + 1) = Start(k) + Len(c) /\ Start(k + 1) <= Len(code) + 1
      /\ \A i \in 1 .. Len(c) : code[Start(k) + i - 1] = c[i]
  BY <1>1, <1>3, Layout
<1>5. pos = Start(k)
  OBVIOUS
<1>. HIDE DEF c, k
<1>6. c[1] = code[pos]
  <2>1. 1 \in 1 .. Len(c) /\ pos + 1 - 1 = pos
    BY <1>4, <1>5
  <2>. QED  BY <1>4, <1>5, <2>1
<1>. QED  BY <1>2, <1>3, <1>4, <1>5, <1>6 DEF c, k, Type

(* After an import the cursor is at its aliases, with the code behind it.  *)
LEMMA AtOperand ==
  ASSUME LoadInv, NEW j \in 0 .. Len(program), j > 0, IsImport(program[j]), pos = OperandStart(j)
  PROVE  /\ Type(pos) \in {"Alias", "Tuple"}
         /\ Type(pos) = "Alias" => Start(j + 1) = pos + 1 /\ pos + 1 <= Len(code) + 1
<1>1. program \in Seq(Statement) /\ code = Compile(program)
  BY ProgramsAssumption DEF LoadInv
<1>2. j \in 1 .. Len(program)
  BY <1>1, Layout
<1>. DEFINE c == CompileStatement(program[j])
            b == CompileAliases(program[j].names)
            d == IF program[j].kind = "import" THEN 1 ELSE 2
<1>3. /\ program[j] \in Statement /\ Start(j) \in Nat /\ Len(c) \in Nat \ {0} /\ Len(code) \in Nat
      /\ Start(j + 1) = Start(j) + Len(c) /\ Start(j + 1) <= Len(code) + 1
      /\ \A i \in 1 .. Len(c) : code[Start(j) + i - 1] = c[i]
  BY <1>1, <1>2, Layout
<1>4. program[j].names \in Operands /\ Len(c) = d + Len(b) /\ \A i \in 1 .. Len(b) : c[d + i] = b[i]
  BY <1>3, ImportLayout
<1>5. /\ Len(program[j].names) \in Nat \ {0}
      /\ Len(program[j].names) = 1 => Len(b) = 1 /\ b[1] = Cell("Alias", program[j].names[1])
      /\ Len(program[j].names) # 1 => /\ Len(b) = 1 + Len(program[j].names)
                                      /\ b[1] = Cell("Tuple", Len(program[j].names))
  BY <1>4, AliasLayout
<1>6. d \in {1, 2} /\ pos = Start(j) + d
  BY DEF OperandStart
<1>. HIDE DEF b, c, d
<1>7. code[pos] = b[1]
  <2>1. Len(b) \in Nat /\ 1 <= Len(b)
    BY <1>5, <1>4, <1>3, <1>6, SMTT(30)
  <2>2. d \in Nat /\ 1 \in 1 .. Len(b)
    BY <1>6, <2>1
  <2>3. c[d + 1] = b[1]
    BY <1>4, <2>2
  <2>4. d + 1 \in 1 .. Len(c)
    BY <1>3, <1>4, <2>1, <2>2
  <2>5. Start(j) + (d + 1) - 1 = pos
    BY <1>3, <1>6, <2>2
  <2>6. code[Start(j) + (d + 1) - 1] = c[d + 1]
    BY <1>3, <2>4
  <2>. QED  BY <2>3, <2>5, <2>6
<1>8. b[1][1] = IF Len(program[j].names) = 1 THEN "Alias" ELSE "Tuple"
  BY <1>5 DEF Cell
<1>9. Len(program[j].names) = 1 => Start(j + 1) = pos + 1 /\ pos + 1 <= Len(code) + 1
  <2>. SUFFICES ASSUME Len(program[j].names) = 1
                PROVE  Start(j + 1) = pos + 1 /\ pos + 1 <= Len(code) + 1
    OBVIOUS
  <2>1. Len(c) = d + 1
    BY <1>4, <1>5
  <2>. QED  BY <1>3, <1>6, <2>1, SMTT(30)
<1>. QED  BY <1>7, <1>8, <1>9 DEF Type

-----------------------------------------------------------------------------
(* Where the cursor can be while statements are left.                      *)
LEMMA Where ==
  ASSUME LoadInv, status = "loading", left > 0
  PROVE  \E j \in 0 .. Len(program) :
           /\ IsPythons(globals, j)
           /\ \/ /\ pos = Start(j + 1) /\ Len(program) - left = j + Imports(j)
                 /\ Type(pos) \notin {"Alias", "Tuple"}
              \/ /\ j > 0 /\ IsImport(program[j]) /\ pos = OperandStart(j)
                 /\ Len(program) - left = j + Imports(j - 1)
                 /\ Type(pos) \in {"Alias", "Tuple"}
<1>1. PICK j \in 0 .. Len(program) : Loads(j)
  BY DEF LoadInv
<1>2. CASE pos = Start(j + 1) /\ Len(program) - left = j + Imports(j)
  <2>1. program[j + 1] \in Statement /\ CompileStatement(program[j + 1])[1][1] = Type(pos)
    BY <1>2, AtStatement
  <2>2. Type(pos) \notin {"Alias", "Tuple"}
    BY <2>1, StatementLayout
  <2>. QED  BY <1>1, <1>2, <2>2 DEF Loads
<1>3. CASE /\ j > 0 /\ IsImport(program[j]) /\ pos = OperandStart(j)
           /\ Len(program) - left = j + Imports(j - 1)
  <2>1. Type(pos) \in {"Alias", "Tuple"}
    BY <1>3, AtOperand
  <2>. QED  BY <1>1, <1>3, <2>1 DEF Loads
<1>. QED  BY <1>1, <1>2, <1>3 DEF Loads

(* Statement k is at the cursor, with its code, and those before it have   *)
(* bound their names.                                                      *)
AtStart(k) ==
  LET c == CompileStatement(program[k]) IN
  /\ k - 1 \in Nat /\ IsPythons(globals, k - 1)
  /\ Len(program) \in Nat /\ left \in Nat /\ Len(program) - left = k - 1 + Imports(k - 1)
  /\ program[k] \in Statement /\ c[1][1] = Type(pos)
  /\ pos = Start(k) /\ Start(k) \in Nat /\ Len(code) \in Nat /\ Len(c) \in Nat \ {0}
  /\ Start(k + 1) = pos + Len(c) /\ pos + Len(c) <= Len(code) + 1
  /\ \A i \in 1 .. Len(c) : code[pos + i - 1] = c[i]

(* A cursor that is not at aliases is at a statement.                      *)
LEMMA StatementFacts ==
  ASSUME LoadInv, status = "loading", left > 0, Type(pos) \notin {"Alias", "Tuple"}
  PROVE  \E k \in 1 .. Len(program) : AtStart(k)
<1>1. PICK j \in 0 .. Len(program) :
        /\ IsPythons(globals, j) /\ pos = Start(j + 1) /\ Len(program) - left = j + Imports(j)
  BY Where
<1>. DEFINE k == j + 1
            c == CompileStatement(program[k])
<1>2. /\ j \in Nat /\ k \in 1 .. Len(program) /\ program[k] \in Statement /\ pos \in Nat
      /\ Len(code) \in Nat /\ Len(c) \in Nat \ {0} /\ c[1][1] = Type(pos)
      /\ Start(k + 1) = pos + Len(c) /\ pos + Len(c) <= Len(code) + 1
      /\ \A i \in 1 .. Len(c) : code[pos + i - 1] = c[i]
  BY <1>1, AtStatement
<1>3. k - 1 = j
  BY <1>2
<1>4. Len(program) \in Nat /\ left \in Nat
  BY ProgramsAssumption, LenProperties DEF LoadInv
<1>5. pos = Start(k)
  BY <1>1
<1>. HIDE DEF k
<1>6. AtStart(k)
  BY <1>1, <1>2, <1>3, <1>4, <1>5, Zenon DEF AtStart
<1>. QED  BY <1>2, <1>6

(* Where the cursor and the list are after statement k, with its operand.  *)
LEMMA Places ==
  ASSUME NEW k \in 1 .. Len(program), AtStart(k), left > 0
  PROVE  /\ Imports(k - 1) \in Nat /\ k \in Nat \ {0} /\ k \in 0 .. Len(program)
         /\ Imports(k) = IF IsImport(program[k]) THEN Imports(k - 1) + 1 ELSE Imports(k - 1)
         /\ Len(program) - (left - 1) = k + Imports(k - 1)
         /\ Start(k + 1) \in 1 .. Len(code) + 1
<1>. DEFINE z == Len(CompileStatement(program[k]))
            n == Len(program)
<1>1. /\ k - 1 \in Nat /\ n \in Nat /\ left \in Nat /\ n - left = k - 1 + Imports(k - 1)
      /\ pos \in Nat /\ Len(code) \in Nat /\ z \in Nat \ {0}
      /\ Start(k + 1) = pos + z /\ pos + z <= Len(code) + 1
  BY DEF AtStart
<1>2. (k - 1) + 1 = k /\ k \in Nat \ {0} /\ k \in 0 .. n
  BY <1>1
<1>3. /\ Imports(k - 1) \in Nat
      /\ Imports((k - 1) + 1) = IF IsImport(program[(k - 1) + 1]) THEN Imports(k - 1) + 1 ELSE Imports(k - 1)
  BY <1>1, ImportsStep
<1>. HIDE DEF z, n
<1>4. n - (left - 1) = k + Imports(k - 1)
  BY <1>1, <1>2, <1>3, SMTT(30)
<1>5. Start(k + 1) \in 1 .. Len(code) + 1
  BY <1>1
<1>. QED  BY <1>2, <1>3, <1>4, <1>5 DEF n

(* Pass takes its place in the list and binds nothing.                     *)
LEMMA PassLoads == ASSUME LoadInv, Pass PROVE LoadInv'
<1>1. status = "loading" /\ left > 0 /\ Type(pos) = "Pass" /\ Executed(pos + 1) /\ globals' = globals
  BY DEF Pass, Executes
<1>2. PICK k \in 1 .. Len(program) : AtStart(k)
  BY <1>1, StatementFacts
<1>3. program[k].kind = "pass" /\ Len(CompileStatement(program[k])) = 1
  BY <1>1, <1>2, StatementLayout DEF AtStart
<1>4. ~IsImport(program[k]) /\ Binds(program[k]) = {}
  BY <1>3 DEF IsImport, Binds
<1>5. k - 1 \in Nat /\ (k - 1) + 1 = k
  BY <1>2 DEF AtStart
<1>6. IsPythons(globals, k)
  <2>1. IsPythons(globals, (k - 1) + 1)
    BY <1>2, <1>4, <1>5, PythonsStep DEF AtStart
  <2>. QED  BY <1>5, <2>1
<1>7. /\ pos + 1 = Start(k + 1) /\ pos + 1 \in 1 .. Len(code) + 1
      /\ Len(program) - (left - 1) = k + Imports(k) /\ k \in 0 .. Len(program)
  <2>1. pos + 1 = Start(k + 1)
    BY <1>2, <1>3 DEF AtStart
  <2>. QED  BY <1>1, <1>2, <1>4, <2>1, Places
<1>8. globals' \in [Identifiers -> Bound] /\ IsPythons(globals', k)
  BY <1>1, <1>6 DEF LoadInv
<1>. QED  BY <1>1, <1>7, <1>8, ExecutedLoads

(* Aliases executed again take a place in the list and bind nothing.       *)
LEMMA OperandAgainLoads == ASSUME LoadInv, OperandAgain PROVE LoadInv'
<1>1. status = "loading" /\ left > 0 /\ Type(pos) = "Alias" /\ Executed(pos + 1) /\ globals' = globals
  BY DEF OperandAgain, Executes
<1>2. PICK j \in 0 .. Len(program) :
        /\ IsPythons(globals, j)
        /\ j > 0 /\ IsImport(program[j]) /\ pos = OperandStart(j)
        /\ Len(program) - left = j + Imports(j - 1)
  BY <1>1, Where
<1>3. Start(j + 1) = pos + 1 /\ pos + 1 <= Len(code) + 1
  BY <1>1, <1>2, AtOperand
<1>4. j - 1 \in Nat /\ (j - 1) + 1 = j
  BY <1>2
<1>5. Imports(j - 1) \in Nat /\ Imports(j) = Imports(j - 1) + 1
  BY <1>2, <1>4, ImportsStep
<1>6. pos + 1 \in 1 .. Len(code) + 1 /\ Len(program) - (left - 1) = j + Imports(j)
  <2>1. /\ program \in Seq(Statement) /\ code = Compile(program)
        /\ pos \in 1 .. Len(code) + 1 /\ left \in 0 .. Len(program)
    BY ProgramsAssumption DEF LoadInv
  <2>2. Len(code) \in Nat /\ Len(program) \in Nat
    BY <2>1, Layout
  <2>3. pos \in Nat /\ left \in Nat /\ j \in Nat
    BY <1>2, <2>1, <2>2
  <2>4. pos + 1 \in 1 .. Len(code) + 1
    BY <1>3, <2>2, <2>3
  <2>. DEFINE x == Imports(j - 1)
              y == Imports(j)
              z == Len(program)
  <2>5. x \in Nat /\ y = x + 1 /\ z \in Nat /\ z - left = j + x
    BY <1>2, <1>5, <2>2
  <2>. HIDE DEF x, y, z
  <2>6. z - (left - 1) = j + y
    BY <2>3, <2>5
  <2>. QED  BY <2>4, <2>6 DEF y, z
<1>7. globals' \in [Identifiers -> Bound] /\ IsPythons(globals', j)
  BY <1>1, <1>2 DEF LoadInv
<1>. QED  BY <1>1, <1>3, <1>6, <1>7, ExecutedLoads

(* Scope::set_value of the global scope keeps it a scope.                  *)
LEMMA BindType ==
  ASSUME NEW gs \in [Identifiers -> Bound], NEW n \in Identifiers, NEW v \in Bound
  PROVE  /\ Bind(gs, n, v) \in [Identifiers -> Bound] /\ Bind(gs, n, v)[n] = v
         /\ \A x \in Identifiers : x # n => Bind(gs, n, v)[x] = gs[x]
BY DEF Bind

(* The name an alias is bound to.                                          *)
LEMMA BoundAsType ==
  ASSUME NEW a \in [name : Identifiers, as : Identifiers \cup {NoName}]
  PROVE  BoundAs(a) \in Identifiers
BY DEF BoundAs

(* A statement that binds one name.                                        *)
LEMMA OneName ==
  ASSUME NEW gs \in [Identifiers -> Bound], NEW k \in Nat \ {0}, IsPythons(gs, k - 1),
         NEW n \in Identifiers, NEW v \in Bound, Binds(program[k]) = {<<n, v>>}
  PROVE  IsPythons(Bind(gs, n, v), k)
<1>. DEFINE hs == Bind(gs, n, v)
<1>1. hs[n] = v /\ \A x \in Identifiers : x # n => hs[x] = gs[x]
  BY BindType
<1>2. k - 1 \in Nat /\ (k - 1) + 1 = k
  OBVIOUS
<1>. HIDE DEF hs
<1>3. \A x \in Identifiers :
        IF \E w \in Binds(program[k]) : w[1] = x THEN <<x, hs[x]>> \in Binds(program[k])
                                                 ELSE hs[x] = gs[x]
  BY <1>1
<1>4. IsPythons(hs, (k - 1) + 1)
  BY <1>2, <1>3, PythonsStep
<1>. QED  BY <1>2, <1>4 DEF hs

(* load_module binds the name, and the cursor returns to the operand.      *)
LEMMA ImportLoads == ASSUME LoadInv, Import PROVE LoadInv'
<1>. DEFINE a == Data(pos + 1)
<1>1. status = "loading" /\ left > 0 /\ Type(pos) = "Import"
  BY DEF Import, Executes
<1>2. PICK k \in 1 .. Len(program) : AtStart(k)
  BY <1>1, StatementFacts
<1>3. program[k].kind = "import" /\ IsImport(program[k])
  BY <1>1, <1>2, StatementLayout DEF IsImport, AtStart
<1>. DEFINE c == CompileStatement(program[k])
            b == CompileAliases(program[k].names)
            as == program[k].names
<1>4. as \in Operands /\ Len(c) = 1 + Len(b) /\ \A i \in 1 .. Len(b) : c[1 + i] = b[i]
  BY <1>2, <1>3, ImportLayout DEF AtStart
<1>5. /\ Len(as) \in Nat \ {0} /\ DOMAIN as = 1 .. Len(as)
      /\ \A i \in 1 .. Len(as) : as[i] \in [name : Identifiers, as : Identifiers \cup {NoName}]
      /\ Len(as) = 1 => Len(b) = 1 /\ b[1] = Cell("Alias", as[1])
      /\ Len(as) # 1 => Len(b) = 1 + Len(as) /\ b[1] = Cell("Tuple", Len(as))
  BY <1>4, AliasLayout
<1>6. code[pos + 1] = b[1] /\ pos + 1 \in 1 .. Len(code) + 1
  <2>. HIDE DEF b, c, as
  <2>1. Len(b) \in Nat \ {0}
    <3>1. CASE Len(as) = 1
      BY <1>5, <3>1
    <3>2. CASE Len(as) # 1
      <4>. DEFINE l == Len(as)
      <4>1. Len(b) = 1 + l /\ l \in Nat
        BY <1>5, <3>2
      <4>. HIDE DEF l
      <4>. QED  BY <4>1
    <3>. QED  BY <3>1, <3>2
  <2>2. 2 \in 1 .. Len(c) /\ pos + 2 - 1 = pos + 1 /\ 1 \in 1 .. Len(b) /\ pos + 1 \in 1 .. Len(code) + 1
    <3>. DEFINE l == Len(b)
                z == Len(c)
    <3>1. z = 1 + l /\ l \in Nat \ {0}
      BY <1>4, <2>1
    <3>2. pos \in Nat /\ Len(code) \in Nat /\ pos + z <= Len(code) + 1
      BY <1>2 DEF c, AtStart
    <3>. HIDE DEF l, z
    <3>3. 2 \in 1 .. z /\ 1 \in 1 .. l /\ pos + 2 - 1 = pos + 1 /\ pos + 1 \in 1 .. Len(code) + 1
      BY <3>1, <3>2
    <3>. QED  BY <3>3 DEF l, z
  <2>3. code[pos + 2 - 1] = c[2] /\ c[1 + 1] = b[1]
    BY <1>2, <1>4, <2>2, Zenon DEF c, AtStart
  <2>. QED  BY <2>2, <2>3
<1>7. CASE Type(pos + 1) = "Tuple" \/ a.name \notin Modules
  <2>1. \E e \in {"cast", "unknown"} : Fail(e)
    BY <1>7 DEF Import
  <2>2. PICK e \in {"cast", "unknown"} : Fail(e)
    BY <2>1
  <2>3. Throw(e) /\ UNCHANGED <<program, code, pos, left>> /\ globals' = globals
    BY <2>2 DEF Fail, loading
  <2>4. e \in Reasons \ {"bytecode"} /\ globals' \in [Identifiers -> Bound]
    BY <2>3 DEF Reasons, LoadInv
  <2>. QED  BY <2>3, <2>4, FailLoads
<1>8. CASE Type(pos + 1) # "Tuple" /\ a.name \in Modules
  <2>1. globals' = Bind(globals, BoundAs(a), Module) /\ Executed(pos + 1)
    BY <1>8 DEF Import, AfterOperand
  <2>2. Len(as) = 1 /\ a = as[1]
    BY <1>5, <1>6, <1>8 DEF Type, Data, Cell
  <2>. HIDE DEF a, b, c
  <2>3. BoundAs(a) \in Identifiers
    BY <1>5, <2>2, BoundAsType
  <2>4. Module \in Bound
    BY DEF Module, Bound
  <2>5. Binds(program[k]) = {<<BoundAs(a), Module>>}
    <3>1. Binds(program[k]) = {<<BoundAs(as[i]), Module>> : i \in DOMAIN as}
      BY <1>3 DEF Binds
    <3>2. DOMAIN as = {1}
      BY <1>5, <2>2
    <3>. QED  BY <2>2, <3>1, <3>2
  <2>6. globals \in [Identifiers -> Bound] /\ k \in Nat \ {0}
    BY DEF LoadInv
  <2>7. globals' \in [Identifiers -> Bound] /\ IsPythons(globals', k)
    BY <1>2, <2>1, <2>3, <2>4, <2>5, <2>6, BindType, OneName DEF AtStart
  <2>8. k > 0 /\ k \in 0 .. Len(program) /\ pos + 1 = OperandStart(k)
    BY <1>2, <1>3, SMTT(30) DEF OperandStart, AtStart
  <2>9. Len(program) - (left - 1) = k + Imports(k - 1)
    BY <1>1, <1>2, Places
  <2>. QED  BY <1>1, <1>3, <1>6, <2>1, <2>7, <2>8, <2>9, ExecutedLoads
<1>. QED  BY <1>7, <1>8

(* The operand that ImportFrom reads is the list of aliases.               *)
LEMMA OperandIs ==
  ASSUME NEW k \in 1 .. Len(program), AtStart(k), program[k].kind = "from"
  PROVE  /\ pos + 2 = OperandStart(k) /\ pos + 2 \in 1 .. Len(code) + 1
         /\ Data(pos + 1) = program[k].module /\ Operand(pos + 2) = program[k].names
<1>. DEFINE c == CompileStatement(program[k])
            b == CompileAliases(program[k].names)
            as == program[k].names
            A == [name : Identifiers, as : Identifiers \cup {NoName}]
            n == Len(as)
            p == pos + 2
<1>1. IsImport(program[k])
  BY DEF IsImport
<1>2. /\ as \in Operands /\ Len(c) = 2 + Len(b) /\ c[2][2] = program[k].module
      /\ \A i \in 1 .. Len(b) : c[2 + i] = b[i]
  BY <1>1, ImportLayout DEF AtStart
<1>3. /\ n \in Nat \ {0} /\ \A i \in 1 .. n : as[i] \in A
      /\ n = 1 => Len(b) = 1 /\ b[1] = Cell("Alias", as[1])
      /\ n # 1 => /\ Len(b) = 1 + n /\ b[1] = Cell("Tuple", n)
                  /\ \A i \in 1 .. n : b[1 + i] = Cell("Alias", as[i])
  BY <1>2, AliasLayout
<1>4. /\ pos \in Nat /\ Len(code) \in Nat /\ pos + Len(c) <= Len(code) + 1 /\ pos = Start(k)
      /\ \A i \in 1 .. Len(c) : code[pos + i - 1] = c[i]
  BY DEF AtStart
<1>. DEFINE l == Len(b)
            z == Len(c)
<1>. HIDE DEF n, z, l, c, b
<1>5. l \in Nat \ {0} /\ z = 2 + l
  <2>1. l = 1 \/ l = 1 + n
    BY <1>3 DEF l
  <2>2. z = 2 + l
    BY <1>2 DEF l, z
  <2>. QED  BY <1>3, <2>1, <2>2
<1>6. \A i \in 1 .. l : code[p + i - 1] = b[i]
  <2>. SUFFICES ASSUME NEW i \in 1 .. l PROVE code[p + i - 1] = b[i]
    OBVIOUS
  <2>1. 2 + i \in 1 .. z /\ pos + (2 + i) - 1 = p + i - 1
    BY <1>4, <1>5
  <2>2. code[pos + (2 + i) - 1] = c[2 + i] /\ c[2 + i] = b[i]
    BY <1>2, <1>4, <2>1, Zenon DEF l, z
  <2>. QED  BY <2>1, <2>2
<1>7. pos + 2 = OperandStart(k) /\ pos + 2 \in 1 .. Len(code) + 1
  <2>1. pos + z <= Len(code) + 1
    BY <1>4 DEF z
  <2>. QED  BY <1>4, <1>5, <2>1, SMTT(30) DEF OperandStart
<1>8. Data(pos + 1) = program[k].module
  <2>1. 2 \in 1 .. z /\ pos + 2 - 1 = pos + 1
    BY <1>4, <1>5
  <2>2. code[pos + 2 - 1] = c[2]
    BY <1>4, <2>1, Zenon DEF z
  <2>. QED  BY <1>2, <2>1, <2>2 DEF Data
<1>9. as \in Seq(A) /\ as = [i \in 1 .. n |-> as[i]]
  <2>1. as \in Seq(A)
    BY <1>2 DEF Operands
  <2>. QED  BY <2>1, LenProperties DEF n
<1>10. Operand(p) = as
  <2>1. code[p] = b[1]
    <3>1. 1 \in 1 .. l /\ p + 1 - 1 = p
      BY <1>4, <1>5
    <3>. QED  BY <1>6, <3>1
  <2>2. CASE n = 1
    <3>1. Type(p) = "Alias" /\ Data(p) = as[1]
      BY <1>3, <2>1, <2>2 DEF Type, Data, Cell
    <3>2. Operand(p) = <<as[1]>>
      BY <3>1 DEF Operand
    <3>3. as[1] \in A
      BY <1>3
    <3>4. <<as[1]>> = as
      <4>. DEFINE q == <<as[1]>>
      <4>1. q \in Seq(A) /\ Len(q) = 1 /\ q[1] = as[1]
        BY <3>3
      <4>2. Len(as) = 1
        BY <2>2 DEF n
      <4>. HIDE DEF q
      <4>3. \A i \in 1 .. Len(q) : q[i] = as[i]
        BY <4>1
      <4>4. as \in Seq(A) /\ q \in Seq(A) /\ Len(q) = Len(as)
        BY <1>9, <4>1, <4>2, Zenon
      <4>5. q = as
        BY <4>3, <4>4, SeqEqual, Zenon
      <4>. QED  BY <4>5 DEF q
    <3>. QED  BY <3>2, <3>4
  <2>3. CASE n # 1
    <3>1. Type(p) = "Tuple" /\ Data(p) = n
      BY <1>3, <2>1, <2>3 DEF Type, Data, Cell
    <3>2. ASSUME NEW i \in 1 .. n PROVE Data(p + i) = as[i]
      <4>1. l = 1 + n
        BY <1>3, <2>3 DEF l
      <4>2. 1 + i \in 1 .. l /\ p + (1 + i) - 1 = p + i
        BY <1>3, <1>4, <4>1
      <4>3. code[p + (1 + i) - 1] = b[1 + i] /\ b[1 + i] = Cell("Alias", as[i])
        BY <1>3, <1>6, <2>3, <4>2
      <4>. QED  BY <4>2, <4>3 DEF Data, Cell
    <3>3. Operand(p) = [i \in 1 .. n |-> Data(p + i)]
      BY <3>1 DEF Operand
    <3>4. [i \in 1 .. n |-> Data(p + i)] = [i \in 1 .. n |-> as[i]]
      BY <3>2, Zenon
    <3>. QED  BY <1>9, <3>3, <3>4, Zenon
  <2>. QED  BY <2>2, <2>3
<1>. QED  BY <1>7, <1>8, <1>10

(* load_from_module binds each name of the operand, or those before the    *)
(* first one that is unknown.                                              *)
LEMMA ImportFromLoads == ASSUME LoadInv, ImportFrom PROVE LoadInv'
<1>. DEFINE m == Data(pos + 1)
            as == Operand(pos + 2)
            bad == {k \in DOMAIN as : <<m, as[k].name>> \notin DOMAIN Members}
            A == [name : Identifiers, as : Identifiers \cup {NoName}]
            n == Len(as)
<1>1. status = "loading" /\ left > 0 /\ Type(pos) = "ImportFrom"
  BY DEF ImportFrom, Executes
<1>2. PICK k \in 1 .. Len(program) : AtStart(k)
  BY <1>1, StatementFacts
<1>3. program[k].kind = "from" /\ IsImport(program[k]) /\ program[k] \in Statement
  BY <1>1, <1>2, StatementLayout DEF IsImport, AtStart
<1>4. /\ pos + 2 = OperandStart(k) /\ pos + 2 \in 1 .. Len(code) + 1
      /\ m = program[k].module /\ as = program[k].names
  BY <1>2, <1>3, OperandIs
<1>5. as \in Seq(A) /\ n \in Nat /\ DOMAIN as = 1 .. n /\ \A i \in 1 .. n : as[i] \in A
  <2>1. as \in Seq(A)
    BY <1>3, <1>4, ImportLayout DEF Operands
  <2>. HIDE DEF as
  <2>. QED  BY <2>1, LenProperties, ElementOfSeq
<1>6. \A i \in 1 .. n : BoundAs(as[i]) \in Identifiers
  BY <1>5, BoundAsType
<1>7. globals \in [Identifiers -> Bound]
  BY DEF LoadInv
<1>8. CASE bad = {}
  <2>1. globals' = BindAll(globals, m, as) /\ Executed(pos + 2)
    BY <1>8 DEF ImportFrom, AfterOperand
  <2>. DEFINE hs == BindAll(globals, m, as)
  <2>2. \A i \in 1 .. n : BoundAs(as[i]) \in Identifiers /\ <<m, as[i].name>> \in DOMAIN Members
    BY <1>5, <1>6, <1>8
  <2>. HIDE DEF m, as, n
  <2>3. hs \in [Identifiers -> Bound] /\ HasBound(hs, globals, m, as, n)
    BY <1>5, <1>7, <2>2, BindAllBinds
  <2>4. Binds(program[k]) = {<<BoundAs(as[i]), Native(Members[<<m, as[i].name>>])>> : i \in 1 .. n}
    <3>1. Binds(program[k]) = {<<BoundAs(as[i]), Native(Members[<<m, as[i].name>>])>> : i \in DOMAIN as}
      BY <1>3, <1>4 DEF Binds
    <3>. QED  BY <1>5, <3>1
  <2>. HIDE DEF hs
  <2>5. ASSUME NEW x \in Identifiers
        PROVE  IF \E v \in Binds(program[k]) : v[1] = x THEN <<x, hs[x]>> \in Binds(program[k])
                                                        ELSE hs[x] = globals[x]
    <3>1. CASE \E i \in 1 .. n : BoundAs(as[i]) = x
      <4>1. PICK i \in 1 .. n : BoundAs(as[i]) = x /\ hs[x] = Native(Members[<<m, as[i].name>>])
        BY <2>3, <3>1 DEF HasBound
      <4>2. <<x, hs[x]>> \in Binds(program[k])
        BY <2>4, <4>1
      <4>. QED  BY <4>2
    <3>2. CASE \A i \in 1 .. n : BoundAs(as[i]) # x
      <4>1. hs[x] = globals[x]
        BY <2>3, <3>2 DEF HasBound
      <4>2. ASSUME NEW v \in Binds(program[k]), v[1] = x PROVE FALSE
        <5>1. PICK i \in 1 .. n : v = <<BoundAs(as[i]), Native(Members[<<m, as[i].name>>])>>
          BY <2>4
        <5>. QED  BY <3>2, <4>2, <5>1
      <4>. QED  BY <4>1, <4>2
    <3>. QED  BY <3>1, <3>2
  <2>6. IsPythons(hs, k)
    <3>1. k - 1 \in Nat /\ (k - 1) + 1 = k /\ IsPythons(globals, k - 1)
      BY <1>2 DEF AtStart
    <3>2. IsPythons(hs, (k - 1) + 1)
      BY <2>5, <3>1, PythonsStep
    <3>. QED  BY <3>1, <3>2
  <2>7. globals' \in [Identifiers -> Bound] /\ IsPythons(globals', k)
    BY <2>1, <2>3, <2>6 DEF hs
  <2>8. k > 0 /\ k \in 0 .. Len(program) /\ Len(program) - (left - 1) = k + Imports(k - 1)
    BY <1>1, <1>2, Places
  <2>. QED  BY <1>1, <1>3, <1>4, <2>1, <2>7, <2>8, ExecutedLoads
<1>9. CASE bad # {}
  <2>. DEFINE j == Min(bad)
              os == SubSeq(as, 1, j - 1)
              hs == BindAll(globals, m, os)
  <2>1. globals' = hs /\ Throw("unknown") /\ UNCHANGED <<program, code, pos, left>>
    BY <1>9 DEF ImportFrom
  <2>2. j \in bad /\ \A i \in bad : j <= i
    <3>1. bad \subseteq Nat
      BY <1>5
    <3>. HIDE DEF bad
    <3>2. \E i \in bad : \A y \in bad : i <= y
      BY <1>9, <3>1, LeastNumber
    <3>. QED  BY <3>2, Zenon DEF Min
  <2>3. j \in 1 .. n /\ n \in Nat
    BY <1>5, <2>2
  <2>4. \A i \in 1 .. j - 1 : i \in 1 .. n /\ <<m, as[i].name>> \in DOMAIN Members
    <3>1. \A i \in 1 .. n : i \notin bad => <<m, as[i].name>> \in DOMAIN Members
      BY <1>5
    <3>. HIDE DEF bad, j, n
    <3>2. \A i \in 1 .. j - 1 : i \in 1 .. n /\ i \notin bad
      BY <2>2, <2>3
    <3>. QED  BY <3>1, <3>2
  <2>. HIDE DEF j, m, as, n, bad, A
  <2>5. j - 1 \in Nat /\ os \in Seq(A) /\ DOMAIN os = 1 .. j - 1 /\ \A i \in 1 .. j - 1 : os[i] = as[i]
    <3>1. \A i \in 1 .. j - 1 : as[i] \in A
      BY <1>5, <2>4
    <3>2. j - 1 \in Nat
      BY <2>3
    <3>3. Begins(os, as, j - 1, A)
      BY <3>1, <3>2, Prefix, Zenon
    <3>. QED  BY <3>2, <3>3, Zenon DEF Begins
  <2>. HIDE DEF os
  <2>6. \A i \in 1 .. j - 1 : BoundAs(os[i]) \in Identifiers /\ <<m, os[i].name>> \in DOMAIN Members
    BY <1>6, <2>4, <2>5
  <2>7. hs \in [Identifiers -> Bound]
    BY <1>7, <2>5, <2>6, BindAllBinds
  <2>8. "unknown" \in Reasons \ {"bytecode"}
    BY DEF Reasons
  <2>. QED  BY <2>1, <2>7, <2>8, FailLoads
<1>. QED  BY <1>8, <1>9

(* read_function_stub finds what FunctionDef wrote, each word in its place. *)
LEMMA StubIs ==
  ASSUME NEW k \in 1 .. Len(program), AtStart(k), program[k].kind = "def"
  PROVE  LET s == program[k]
             a == s.arity
             b == s.body IN
         /\ a \in Nat /\ b \in Nat /\ pos \in Nat /\ s.name \in Identifiers
         /\ s.default => a > 0
         /\ Data(pos + 1) = s.name /\ Data(pos + 2) = b
         /\ Type(pos + 3) = "FunctionStart" /\ Data(pos + 3) = a
         /\ \A i \in 1 .. a : Type(pos + 3 + i) = "Name"
         /\ Type(pos + 4 + a) = "FunctionStartDefaults" /\ Data(pos + 4 + a) = a
         /\ s.default => Type(pos + 4 + 2 * a) = "Integer"
         /\ ~s.default => \A i \in 1 .. a : Type(pos + 4 + a + i) = "Pass"
         /\ Type(pos + 5 + 2 * a) = "FunctionStartStub"
         /\ Type(pos + 6 + 2 * a + b) = "FunctionEnd"
         /\ Len(code) \in Nat /\ pos + 6 + 2 * a + b <= Len(code)
         /\ Start(k + 1) = pos + 7 + 2 * a + b
<1>. DEFINE s == program[k]
            a == s.arity
            b == s.body
            c == CompileStatement(s)
            z == Len(c)
<1>1. s \in Definitions /\ (s.default => s.arity > 0) /\ c = CompileDef(s)
  BY StatementLayout DEF AtStart
<1>2. a \in Nat /\ b \in Nat /\ s.name \in Identifiers /\ (s.default => a > 0) /\ s.default \in BOOLEAN
  BY <1>1 DEF Definitions
<1>3. /\ z = 7 + 2 * a + b
      /\ c[1][1] = "FunctionDef" /\ c[2] = Cell("Name", s.name) /\ c[3][2] = b
      /\ c[4] = Cell("FunctionStart", a)
      /\ \A i \in 1 .. a : c[4 + i][1] = "Name"
      /\ c[5 + a] = Cell("FunctionStartDefaults", a)
      /\ ~s.default => \A i \in 1 .. a : c[5 + a + i][1] = "Pass"
      /\ s.default => c[5 + 2 * a][1] = "Integer"
      /\ c[6 + 2 * a][1] = "FunctionStartStub"
      /\ c[7 + 2 * a + b][1] = "FunctionEnd"
  <2>. HIDE DEF s, c
  <2>. QED  BY <1>1, DefLayout, ZenonT(60)
<1>4. /\ pos \in Nat /\ Len(code) \in Nat /\ Start(k + 1) = pos + z /\ pos + z <= Len(code) + 1
      /\ \A i \in 1 .. z : code[pos + i - 1] = c[i]
  BY DEF AtStart
<1>. HIDE DEF s, c, z, a, b
<1>5. ASSUME NEW i \in Nat, i + 1 \in 1 .. z PROVE code[pos + i] = c[i + 1]
  <2>1. pos + (i + 1) - 1 = pos + i
    BY <1>4
  <2>2. code[pos + (i + 1) - 1] = c[i + 1]
    BY <1>4, <1>5
  <2>. QED  BY <2>1, <2>2
<1>6. code[pos + 1] = c[2] /\ code[pos + 2] = c[3] /\ code[pos + 3] = c[4]
  <2>1. 1 + 1 \in 1 .. z /\ 2 + 1 \in 1 .. z /\ 3 + 1 \in 1 .. z
    BY <1>2, <1>3, SMTT(30)
  <2>. QED  BY <1>5, <2>1
<1>7. \A i \in 1 .. a : code[pos + 3 + i] = c[4 + i] /\ code[pos + 4 + a + i] = c[5 + a + i]
  <2>. SUFFICES ASSUME NEW i \in 1 .. a
                PROVE  code[pos + 3 + i] = c[4 + i] /\ code[pos + 4 + a + i] = c[5 + a + i]
    OBVIOUS
  <2>1. /\ 3 + i \in Nat /\ (3 + i) + 1 \in 1 .. z /\ (3 + i) + 1 = 4 + i /\ pos + (3 + i) = pos + 3 + i
        /\ 4 + a + i \in Nat /\ (4 + a + i) + 1 \in 1 .. z /\ (4 + a + i) + 1 = 5 + a + i
        /\ pos + (4 + a + i) = pos + 4 + a + i
    BY <1>2, <1>3, <1>4
  <2>2. code[pos + (3 + i)] = c[(3 + i) + 1]
    BY <1>5, <2>1
  <2>3. code[pos + (4 + a + i)] = c[(4 + a + i) + 1]
    BY <1>5, <2>1
  <2>. QED  BY <2>1, <2>2, <2>3
<1>8. code[pos + 4 + a] = c[5 + a]
  <2>1. /\ 4 + a \in Nat /\ (4 + a) + 1 \in 1 .. z /\ (4 + a) + 1 = 5 + a /\ pos + (4 + a) = pos + 4 + a
    BY <1>2, <1>3, <1>4
  <2>. QED  BY <1>5, <2>1
<1>9. code[pos + 4 + 2 * a] = c[5 + 2 * a]
  <2>1. /\ 4 + 2 * a \in Nat /\ (4 + 2 * a) + 1 \in 1 .. z /\ (4 + 2 * a) + 1 = 5 + 2 * a
        /\ pos + (4 + 2 * a) = pos + 4 + 2 * a
    BY <1>2, <1>3, <1>4
  <2>. QED  BY <1>5, <2>1
<1>10. code[pos + 5 + 2 * a] = c[6 + 2 * a]
  <2>1. /\ 5 + 2 * a \in Nat /\ (5 + 2 * a) + 1 \in 1 .. z /\ (5 + 2 * a) + 1 = 6 + 2 * a
        /\ pos + (5 + 2 * a) = pos + 5 + 2 * a
    BY <1>2, <1>3, <1>4
  <2>. QED  BY <1>5, <2>1
<1>11. code[pos + 6 + 2 * a + b] = c[7 + 2 * a + b]
  <2>1. /\ 6 + 2 * a + b \in Nat /\ (6 + 2 * a + b) + 1 \in 1 .. z /\ (6 + 2 * a + b) + 1 = 7 + 2 * a + b
        /\ pos + (6 + 2 * a + b) = pos + 6 + 2 * a + b
    BY <1>2, <1>3, <1>4
  <2>. QED  BY <1>5, <2>1
<1>12. Start(k + 1) = pos + 7 + 2 * a + b /\ pos + 6 + 2 * a + b <= Len(code)
  BY <1>2, <1>3, <1>4
<1>13. Data(pos + 1) = s.name /\ Data(pos + 2) = b /\ Type(pos + 3) = "FunctionStart" /\ Data(pos + 3) = a
  <2>1. c[2][2] = s.name /\ c[3][2] = b /\ c[4][1] = "FunctionStart" /\ c[4][2] = a
    <3>1. c[2] = <<"Name", s.name>> /\ c[4] = <<"FunctionStart", a>> /\ c[3][2] = b
      BY <1>3, Zenon DEF Cell
    <3>. QED  BY <3>1
  <2>. QED  BY <1>6, <2>1, Zenon DEF Type, Data
<1>14. \A i \in 1 .. a : Type(pos + 3 + i) = "Name"
  BY <1>3, <1>7, ZenonT(60) DEF Type
<1>15. ~s.default => \A i \in 1 .. a : Type(pos + 4 + a + i) = "Pass"
  BY <1>3, <1>7, ZenonT(60) DEF Type
<1>16. Type(pos + 4 + a) = "FunctionStartDefaults" /\ Data(pos + 4 + a) = a
  <2>1. c[5 + a][1] = "FunctionStartDefaults" /\ c[5 + a][2] = a
    <3>1. c[5 + a] = <<"FunctionStartDefaults", a>>
      BY <1>3, Zenon DEF Cell
    <3>. QED  BY <3>1
  <2>. QED  BY <1>8, <2>1, Zenon DEF Type, Data
<1>17. s.default => Type(pos + 4 + 2 * a) = "Integer"
  BY <1>3, <1>9, Zenon DEF Type
<1>18. Type(pos + 5 + 2 * a) = "FunctionStartStub" /\ Type(pos + 6 + 2 * a + b) = "FunctionEnd"
  BY <1>3, <1>10, <1>11, Zenon DEF Type
<1>. QED  BY <1>2, <1>4, <1>12, <1>13, <1>14, <1>15, <1>16, <1>17, <1>18, Zenon DEF s, a, b

(* A function is bound and its body passed over; only a default value can  *)
(* be refused.                                                             *)
LEMMA FunctionDefLoads == ASSUME LoadInv, FunctionDef PROVE LoadInv'
<1>1. status = "loading" /\ left > 0 /\ Type(pos) = "FunctionDef" /\ ReadFunctionStub
  BY DEF FunctionDef, Executes
<1>2. PICK k \in 1 .. Len(program) : AtStart(k)
  BY <1>1, StatementFacts
<1>3. program[k].kind = "def" /\ ~IsImport(program[k])
  BY <1>1, <1>2, StatementLayout DEF IsImport, AtStart
<1>. DEFINE s == program[k]
            a == s.arity
            b == s.body
            i == pos + 2
            arity == Data(i + 1)
            first == i + 3 + arity
            stub == first + arity
            end == stub + Data(i) + 1
<1>4. /\ a \in Nat /\ b \in Nat /\ pos \in Nat /\ s.name \in Identifiers
      /\ s.default => a > 0
      /\ Data(pos + 1) = s.name /\ Data(pos + 2) = b
      /\ Type(pos + 3) = "FunctionStart" /\ Data(pos + 3) = a
      /\ \A j \in 1 .. a : Type(pos + 3 + j) = "Name"
      /\ Type(pos + 4 + a) = "FunctionStartDefaults" /\ Data(pos + 4 + a) = a
      /\ s.default => Type(pos + 4 + 2 * a) = "Integer"
      /\ ~s.default => \A j \in 1 .. a : Type(pos + 4 + a + j) = "Pass"
      /\ Type(pos + 5 + 2 * a) = "FunctionStartStub"
      /\ Type(pos + 6 + 2 * a + b) = "FunctionEnd"
      /\ Len(code) \in Nat /\ pos + 6 + 2 * a + b <= Len(code)
      /\ Start(k + 1) = pos + 7 + 2 * a + b
  BY <1>2, <1>3, StubIs
<1>. HIDE DEF s, a, b
<1>5. /\ i + 1 = pos + 3 /\ arity = a /\ first = pos + 5 + a /\ first - 1 = pos + 4 + a
      /\ stub = pos + 5 + 2 * a /\ end = pos + 6 + 2 * a + b
      /\ \A j \in 1 .. a : i + 1 + j = pos + 3 + j
      /\ end <= Len(code) /\ end + 1 = Start(k + 1)
  <2>1. i + 1 = pos + 3
    BY <1>4
  <2>2. arity = a
    BY <1>4, <2>1
  <2>. QED  BY <1>4, <2>1, <2>2, SMTT(30)
<1>6. /\ Type(i + 1) = "FunctionStart" /\ \A j \in 1 .. arity : Type(i + 1 + j) = "Name"
      /\ Type(first - 1) = "FunctionStartDefaults" /\ Data(first - 1) = arity
      /\ Type(stub) = "FunctionStartStub" /\ Type(end) = "FunctionEnd" /\ ~(end > Len(code))
  <2>1. \A j \in 1 .. a : Type(i + 1 + j) = Type(pos + 3 + j)
    BY <1>5
  <2>2. end <= Len(code) /\ end \in Nat
    BY <1>4, <1>5, SMTT(30)
  <2>3. \A j \in 1 .. arity : Type(i + 1 + j) = "Name"
    BY <1>4, <1>5, <2>1, ZenonT(60)
  <2>4. Type(i + 1) = "FunctionStart" /\ Type(first - 1) = "FunctionStartDefaults" /\ Data(first - 1) = arity
    BY <1>4, <1>5, Zenon
  <2>5. Type(stub) = "FunctionStartStub" /\ Type(end) = "FunctionEnd"
    BY <1>4, <1>5, Zenon
  <2>6. ~(end > Len(code))
    BY <1>4, <2>2, SMTT(30)
  <2>. QED  BY <2>3, <2>4, <2>5, <2>6, Zenon
<1>7. \/ Fail("top_level")
      \/ globals' = Bind(globals, Data(pos + 1), Function(arity)) /\ Executed(end + 1)
  <2>. HIDE DEF first, stub, end, arity, i
  <2>1. \/ Fail("top_level")
        \/ globals' = Bind(globals, Data(pos + 1), Function(arity)) /\ Executed(end + 1)
        \/ Type(i + 1) # "FunctionStart"
        \/ \E j \in 1 .. arity : Type(i + 1 + j) # "Name"
        \/ Type(first - 1) # "FunctionStartDefaults"
        \/ Data(first - 1) # arity
        \/ Type(stub) # "FunctionStartStub"
        \/ end > Len(code) \/ Type(end) # "FunctionEnd"
    BY <1>1, Zenon DEF ReadFunctionStub, first, stub, end, arity, i
  <2>. QED  BY <1>6, <2>1
<1>8. CASE Fail("top_level")
  <2>1. Throw("top_level") /\ UNCHANGED <<program, code, pos, left>> /\ globals' = globals
    BY <1>8 DEF Fail, loading
  <2>2. "top_level" \in Reasons \ {"bytecode"} /\ globals' \in [Identifiers -> Bound]
    BY <2>1 DEF Reasons, LoadInv
  <2>. QED  BY <2>1, <2>2, FailLoads
<1>9. CASE globals' = Bind(globals, Data(pos + 1), Function(arity)) /\ Executed(end + 1)
  <2>1. globals' = Bind(globals, s.name, Function(a)) /\ Executed(Start(k + 1))
    BY <1>4, <1>5, <1>9
  <2>2. Function(a) \in Bound
    BY <1>4 DEF Function, Bound
  <2>3. Binds(program[k]) = {<<s.name, Function(a)>>}
    BY <1>3 DEF Binds, s, a
  <2>4. globals \in [Identifiers -> Bound] /\ k \in Nat \ {0} /\ IsPythons(globals, k - 1)
    BY <1>2 DEF LoadInv, AtStart
  <2>5. globals' \in [Identifiers -> Bound] /\ IsPythons(globals', k)
    BY <1>4, <2>1, <2>2, <2>3, <2>4, BindType, OneName
  <2>6. /\ k \in 0 .. Len(program) /\ Start(k + 1) \in 1 .. Len(code) + 1
        /\ Len(program) - (left - 1) = k + Imports(k)
    BY <1>1, <1>2, <1>3, Places
  <2>. QED  BY <1>1, <2>1, <2>5, <2>6, ExecutedLoads
<1>. QED  BY <1>7, <1>8, <1>9

(* Any other statement is refused.                                         *)
LEMMA RefuseLoads == ASSUME LoadInv, Refuse PROVE LoadInv'
<1>1. Throw("top_level") /\ UNCHANGED <<program, code, pos, left>> /\ globals' = globals
  BY DEF Refuse, Fail, loading
<1>2. "top_level" \in Reasons \ {"bytecode"} /\ globals' \in [Identifiers -> Bound]
  BY <1>1 DEF Reasons, LoadInv
<1>. QED  BY <1>1, <1>2, FailLoads

(* What does not load a statement keeps what was loaded: the list ends, or *)
(* calldata goes a step further, or throws.                                *)
LEMMA CallLoads ==
  ASSUME LoadInv, UNCHANGED loading, status' \in Statuses, why' \in Reasons \ {"bytecode"},
         status = "threw" => status' = "threw",
         status' \notin {"threw", "loading"} => left = 0
  PROVE  LoadInv'
<1>1. program' = program /\ code' = code /\ pos' = pos /\ left' = left /\ globals' = globals
  BY DEF loading
<1>2. ASSUME NEW j \in 0 .. Len(program), Loads(j) PROVE Loads(j)'
  <2>1. /\ Start(j + 1)' = Start(j + 1) /\ Imports(j)' = Imports(j) /\ Imports(j - 1)' = Imports(j - 1)
        /\ OperandStart(j)' = OperandStart(j) /\ (IsPythons(globals, j)' <=> IsPythons(globals', j))
    BY <1>1, SameProgram
  <2>. QED  BY <1>1, <1>2, <2>1 DEF Loads, IsImport
<1>3. status' # "threw" => \E j \in 0 .. Len(program') : Loads(j)'
  BY <1>1, <1>2 DEF LoadInv
<1>. QED  BY <1>1, <1>3 DEF LoadInv

(* Each step of Next keeps LoadInv.                                        *)
LEMMA NextLoads == ASSUME LoadInv, [Next]_vars PROVE LoadInv'
<1>. USE DEF Statuses, Reasons
<1>1. CASE Pass
  BY <1>1, PassLoads
<1>2. CASE Import
  BY <1>2, ImportLoads
<1>3. CASE ImportFrom
  BY <1>3, ImportFromLoads
<1>4. CASE OperandAgain
  BY <1>4, OperandAgainLoads
<1>5. CASE FunctionDef
  BY <1>5, FunctionDefLoads
<1>6. CASE Refuse
  BY <1>6, RefuseLoads
<1>7. CASE Loaded
  BY <1>7, CallLoads DEF Loaded, LoadInv
<1>8. ASSUME NEW m \in Messages, ReadName(m) PROVE LoadInv'
  <2>1. status = "loaded" /\ UNCHANGED loading
    BY <1>8 DEF ReadName
  <2>2. \/ status' = "threw" /\ why' \in {"eof", "unknown"}
        \/ status' = "counting" /\ why' = why
    BY <1>8, Zenon DEF ReadName, Throw
  <2>. QED  BY <2>1, <2>2, CallLoads DEF LoadInv
<1>9. CASE ReadCount
  BY <1>9, CallLoads DEF ReadCount, LoadInv
<1>10. CASE ReadArgument
  <2>1. status = "reading" /\ UNCHANGED loading
    BY <1>10 DEF ReadArgument
  <2>2. \/ status' = "threw" /\ why' \in {"eof", "type"}
        \/ status' = status /\ why' = why
    BY <1>10, Zenon DEF ReadArgument, Throw
  <2>. QED  BY <2>1, <2>2, CallLoads DEF LoadInv
<1>11. CASE Invoke
  <2>1. status = "reading" /\ UNCHANGED loading
    BY <1>11 DEF Invoke
  <2>2. \/ status' = "threw" /\ why' = "arity"
        \/ status' = "called" /\ why' = why
    BY <1>11, Zenon DEF Invoke, Throw
  <2>. QED  BY <2>1, <2>2, CallLoads DEF LoadInv
<1>12. CASE UNCHANGED vars
  BY <1>12, CallLoads DEF LoadInv, vars, loading
<1>13. CASE Done
  BY <1>12, <1>13 DEF Done
<1>. QED  BY <1>1, <1>2, <1>3, <1>4, <1>5, <1>6, <1>7, <1>8, <1>9, <1>10, <1>11, <1>12, <1>13 DEF Next

(* The code stays the program's and the names those Python binds, as far   *)
(* as the cursor has come.                                                 *)
THEOREM EntryLoads == Spec => []LoadInv
<1>. QED  BY InitLoads, NextLoads, PTL DEF Spec

(* Compiler and read_function_stub: however functions and imports follow   *)
(* each other, what is executed next is a whole statement or the operand   *)
(* of the import before it, and the code is never found "hacked".          *)
THEOREM EntryCursorAtStatement == Spec => []CursorAtStatement
<1>1. ASSUME LoadInv PROVE CursorAtStatement
  <2>1. why # "bytecode"
    BY <1>1 DEF LoadInv
  <2>. SUFFICES ASSUME status = "loading", left > 0
                PROVE  LET done == Len(program) - left IN
                       \E k \in DOMAIN program :
                         \/ pos = Start(k) /\ done = k - 1 + Imports(k - 1)
                         \/ IsImport(program[k]) /\ pos = OperandStart(k) /\ done = k + Imports(k - 1)
    BY <2>1 DEF CursorAtStatement
  <2>2. DOMAIN program = 1 .. Len(program) /\ Len(program) \in Nat
    BY <1>1, ProgramsAssumption, Layout DEF LoadInv
  <2>3. CASE Type(pos) \in {"Alias", "Tuple"}
    <3>1. PICK j \in 0 .. Len(program) :
            /\ j > 0 /\ IsImport(program[j]) /\ pos = OperandStart(j)
            /\ Len(program) - left = j + Imports(j - 1)
      BY <1>1, <2>3, Where
    <3>2. j \in DOMAIN program
      BY <2>2, <3>1
    <3>. QED  BY <3>1, <3>2
  <2>4. CASE Type(pos) \notin {"Alias", "Tuple"}
    <3>1. PICK k \in 1 .. Len(program) : AtStart(k)
      BY <1>1, <2>4, StatementFacts
    <3>2. pos = Start(k) /\ Len(program) - left = k - 1 + Imports(k - 1)
      BY <3>1 DEF AtStart
    <3>. QED  BY <2>2, <3>2
  <2>. QED  BY <2>3, <2>4
<1>. QED  BY <1>1, EntryLoads, PTL

(* Interpreter::execute_next: whatever is loaded without an error has      *)
(* bound Python's names for exactly the statements that are left with a    *)
(* place in the list.                                                      *)
THEOREM EntryLoadedIsPrefix == Spec => []LoadedIsPrefix
<1>1. ASSUME LoadInv PROVE LoadedIsPrefix
  <2>. SUFFICES ASSUME status \in {"loaded", "counting", "reading", "called"}
                PROVE  IsPythons(globals, Reached)
    BY DEF LoadedIsPrefix
  <2>1. left = 0 /\ DOMAIN program = 1 .. Len(program) /\ Len(program) \in Nat
    BY <1>1, ProgramsAssumption, Layout DEF LoadInv
  <2>2. PICK j \in 0 .. Len(program) : Loads(j)
    BY <1>1 DEF LoadInv
  <2>3. Reached = j
    <3>1. \/ Len(program) = j + Imports(j)
          \/ j > 0 /\ IsImport(program[j]) /\ Len(program) = j + Imports(j - 1)
      BY <2>1, <2>2 DEF Loads
    <3>. QED  BY <2>1, <3>1, ReachedIs
  <2>. QED  BY <2>2, <2>3 DEF Loads
<1>. QED  BY <1>1, EntryLoads, PTL

-----------------------------------------------------------------------------
(* An argument that was read, and the numbers that sent a list of them.    *)
ArgumentType == [type : 1 .. 4, value : Seq(Nat)]

Encoded(as) == FlattenSeq([i \in DOMAIN as |-> EncodedArgument(as[i])])

(* Of what was read, the numbers before n are the sequence e.              *)
Read(n, e) == SubSeq(message, 1, n - 1) = e

(* The name was read: there was no data, or the message began with it.     *)
NameRead ==
  \/ message = <<>> /\ callee = Default /\ at = 1
  \/ callee \in Seq(Nat) /\ Read(at, EncodedText(callee))

(* What calldata keeps true: the cells behind the cursor are the name, the *)
(* number of arguments and the arguments read.                             *)
CallInv ==
  /\ message \in Seq(Nat) /\ at \in 1 .. Len(message) + 1 /\ count \in Nat
  /\ args \in Seq(ArgumentType)
  /\ status \in {"loading", "loaded"} => at = 1
  /\ status \in {"loading", "loaded", "counting"} => args = <<>>
  /\ status = "counting" => NameRead
  /\ status = "reading" =>
       \/ NameRead /\ at = Len(message) + 1 /\ args = <<>> /\ count = 0
       \/ /\ callee \in Seq(Nat)
          /\ Read(at, (EncodedText(callee) \o <<Len(args) + count>>) \o Encoded(args))
  /\ CalledWithWhatWasSent

(* What sends a list of arguments, and one more of them.                   *)
LEMMA EncodedType ==
  ASSUME NEW a \in ArgumentType
  PROVE  EncodedArgument(a) \in Seq(Nat)
<1>1. a.type \in Nat /\ a.value \in Seq(Nat)
  BY DEF ArgumentType
<1>2. EncodedText(a.value) \in Seq(Nat)
  <2>1. Len(a.value) \in Nat
    BY <1>1, LenProperties
  <2>2. <<Len(a.value)>> \in Seq(Nat)
    BY <2>1
  <2>. QED  BY <1>1, <2>2, ConcatProperties, Zenon DEF EncodedText
<1>3. <<a.type>> \in Seq(Nat)
  BY <1>1
<1>. DEFINE t == IF a.type = 1 THEN EncodedText(a.value) ELSE a.value
<1>4. t \in Seq(Nat)
  BY <1>1, <1>2
<1>. HIDE DEF t
<1>5. <<a.type>> \o t \in Seq(Nat)
  BY <1>3, <1>4, ConcatProperties, Zenon
<1>. QED  BY <1>5 DEF EncodedArgument, t

(* The numbers that send a list are those of its elements, in their order. *)
LEMMA EncodedSteps ==
  /\ Encoded(<<>>) = <<>>
  /\ \A as \in Seq(ArgumentType) : Encoded(as) \in Seq(Nat)
  /\ \A as \in Seq(ArgumentType), a \in ArgumentType :
       Encoded(Append(as, a)) = Encoded(as) \o EncodedArgument(a)
<1>1. ASSUME NEW as \in Seq(ArgumentType)
      PROVE  LET f == [i \in DOMAIN as |-> EncodedArgument(as[i])] IN
             /\ Len(as) \in Nat /\ DOMAIN as = 1 .. Len(as)
             /\ \A i \in 1 .. Len(as) : f[i] \in Seq(Nat) /\ f[i] = EncodedArgument(as[i])
             /\ Encoded(as) = Flat(f, Len(as))
  <2>. DEFINE f == [i \in DOMAIN as |-> EncodedArgument(as[i])]
  <2>1. Len(as) \in Nat /\ DOMAIN as = 1 .. Len(as) /\ \A i \in 1 .. Len(as) : as[i] \in ArgumentType
    BY LenProperties, ElementOfSeq
  <2>2. \A i \in 1 .. Len(as) : f[i] \in Seq(Nat) /\ f[i] = EncodedArgument(as[i])
    BY <2>1, EncodedType
  <2>3. [i \in 1 .. Len(as) |-> f[i]] = f
    BY <2>1, Zenon
  <2>4. Encoded(as) = Flat(f, Len(as))
    <3>. HIDE DEF f
    <3>. QED  BY <2>3, Zenon DEF Encoded, Flat, f
  <2>. QED  BY <2>1, <2>2, <2>4
<1>2. ASSUME NEW as \in Seq(ArgumentType) PROVE Encoded(as) \in Seq(Nat)
  <2>. DEFINE f == [i \in DOMAIN as |-> EncodedArgument(as[i])]
              n == Len(as)
  <2>1. n \in Nat /\ (\A i \in 1 .. n : f[i] \in Seq(Nat)) /\ Encoded(as) = Flat(f, n)
    BY <1>1, Zenon
  <2>. HIDE DEF f, n
  <2>2. n \in 0 .. n
    BY <2>1
  <2>. QED  BY <2>1, <2>2, FlatSteps
<1>3. Encoded(<<>>) = <<>>
  <2>. DEFINE e == [i \in {} |-> EncodedArgument(<<>>[i])]
  <2>1. DOMAIN <<>> = {} /\ 0 \in Nat /\ \A i \in 1 .. 0 : e[i] \in Seq(Nat)
    OBVIOUS
  <2>2. Flat(e, 0) = <<>>
    BY <2>1, FlatSteps
  <2>3. [i \in 1 .. 0 |-> e[i]] = e
    OBVIOUS
  <2>. HIDE DEF e
  <2>. QED  BY <2>1, <2>2, <2>3, Zenon DEF Encoded, Flat, e
<1>4. ASSUME NEW as \in Seq(ArgumentType), NEW a \in ArgumentType
      PROVE  Encoded(Append(as, a)) = Encoded(as) \o EncodedArgument(a)
  <2>. DEFINE bs == Append(as, a)
              f == [i \in DOMAIN as |-> EncodedArgument(as[i])]
              g == [i \in DOMAIN bs |-> EncodedArgument(bs[i])]
              n == Len(as)
              l == Len(bs)
  <2>1. /\ bs \in Seq(ArgumentType) /\ l = n + 1 /\ bs[n + 1] = a
        /\ \A i \in 1 .. n : bs[i] = as[i]
    <3>. HIDE DEF f, g
    <3>1. bs \in Seq(ArgumentType) /\ bs[Len(as) + 1] = a
      BY AppendProperties, Zenon
    <3>2. Len(bs) = Len(as) + 1
      BY AppendProperties
    <3>3. \A i \in 1 .. Len(as) : bs[i] = as[i]
      BY AppendProperties
    <3>. QED  BY <3>1, <3>2, <3>3, Zenon
  <2>. HIDE DEF bs
  <2>2. /\ n \in Nat /\ DOMAIN as = 1 .. n /\ Encoded(as) = Flat(f, n)
        /\ \A i \in 1 .. n : f[i] = EncodedArgument(as[i])
    BY <1>1, Zenon
  <2>3. /\ (\A i \in 1 .. l : g[i] \in Seq(Nat) /\ g[i] = EncodedArgument(bs[i]))
        /\ Encoded(bs) = Flat(g, l)
    BY <1>1, <2>1, Zenon
  <2>. HIDE DEF f, g, n, l
  <2>4. n + 1 \in Nat /\ n + 1 \in 1 .. n + 1 /\ (n + 1) - 1 = n /\ \A i \in 1 .. n : i \in 1 .. n + 1
    BY <2>2
  <2>5. Flat(g, n + 1) = Flat(g, n) \o g[n + 1]
    <3>1. Flat(g, n + 1) = Flat(g, (n + 1) - 1) \o g[n + 1]
      <4>1. \A i \in 1 .. n + 1 : g[i] \in Seq(Nat)
        BY <2>1, <2>3
      <4>. DEFINE m == n + 1
      <4>2. m \in Nat /\ m \in 1 .. m /\ \A i \in 1 .. m : g[i] \in Seq(Nat)
        BY <2>4, <4>1, Zenon
      <4>. HIDE DEF m
      <4>3. \A i \in 1 .. m : Flat(g, i) = Flat(g, i - 1) \o g[i]
        BY <4>2, FlatSteps, ZenonT(60)
      <4>. QED  BY <4>2, <4>3, Zenon DEF m
    <3>. QED  BY <2>4, <3>1
  <2>6. Flat(g, n) = Flat(f, n)
    <3>1. \A i \in 1 .. n : g[i] = f[i]
      BY <2>1, <2>2, <2>3, <2>4, Zenon
    <3>2. [i \in 1 .. n |-> g[i]] = [i \in 1 .. n |-> f[i]]
      BY <3>1, Zenon
    <3>. QED  BY <3>2, Zenon DEF Flat
  <2>7. g[n + 1] = EncodedArgument(a)
    BY <2>1, <2>3, <2>4, Zenon
  <2>. QED  BY <2>1, <2>2, <2>3, <2>5, <2>6, <2>7, Zenon DEF bs
<1>. QED  BY <1>2, <1>3, <1>4

(* A text behind its length.                                               *)
LEMMA TextAt ==
  ASSUME NEW m \in Seq(Nat), NEW i \in Nat \ {0}, HasText(m, i)
  PROVE  /\ m[i] \in Nat /\ i \in 1 .. Len(m) /\ i + 1 + m[i] \in 1 .. Len(m) + 1
         /\ Text(m, i) \in Seq(Nat)
         /\ EncodedText(Text(m, i)) = SubSeq(m, i, i + m[i])
<1>1. Len(m) \in Nat /\ i \in 1 .. Len(m)
  BY LenProperties DEF HasText
<1>2. m[i] \in Nat
  BY <1>1, ElementOfSeq
<1>. DEFINE k == i + m[i]
            t == SubSeq(m, i + 1, k)
<1>3. k \in Nat /\ k \in i .. Len(m) /\ k + 1 \in 1 .. Len(m) + 1
  BY <1>1, <1>2, SMTT(30) DEF HasText
<1>4. t \in Seq(Nat) /\ Len(t) = m[i]
  <2>. HIDE DEF k
  <2>1. \A j \in i + 1 .. k : m[j] \in Nat
    <3>1. \A j \in i + 1 .. k : j \in 1 .. Len(m)
      BY <1>1, <1>3
    <3>. QED  BY <3>1, ElementOfSeq
  <2>2. i + 1 \in Int /\ k \in Int
    BY <1>3
  <2>3. t \in Seq(Nat) /\ Len(t) = IF i + 1 <= k THEN k - (i + 1) + 1 ELSE 0
    BY <2>1, <2>2, SubSeqProperties
  <2>. DEFINE l == Len(t)
  <2>4. l = IF i + 1 <= k THEN k - (i + 1) + 1 ELSE 0
    BY <2>3
  <2>. HIDE DEF l
  <2>5. l = m[i]
    BY <1>2, <2>4 DEF k
  <2>. QED  BY <2>3, <2>5 DEF l
<1>5. SubSeq(m, i, k) = <<m[i]>> \o t
  <2>. HIDE DEF k
  <2>. QED  BY <1>1, <1>3, SubSeqRecursiveFirst
<1>6. Text(m, i) = t
  BY DEF Text
<1>7. EncodedText(t) = <<m[i]>> \o t
  <2>. HIDE DEF t
  <2>. QED  BY <1>4 DEF EncodedText
<1>8. k + 1 = i + 1 + m[i]
  BY <1>2
<1>. QED  BY <1>1, <1>2, <1>3, <1>4, <1>5, <1>6, <1>7, <1>8

(* One more number, or some more, behind those that were read.             *)
LEMMA ReadOn ==
  ASSUME NEW m \in Seq(Nat), NEW i \in 1 .. Len(m) + 1, NEW j \in i .. Len(m) + 1
  PROVE  SubSeq(m, 1, j - 1) = SubSeq(m, 1, i - 1) \o SubSeq(m, i, j - 1)
<1>1. Len(m) \in Nat
  BY LenProperties
<1>. DEFINE k == i - 1
            n == j - 1
<1>2. 1 \in 1 .. Len(m) + 1 /\ k \in 1 - 1 .. Len(m) /\ n \in k .. Len(m) /\ k + 1 = i
  BY <1>1
<1>. HIDE DEF k, n
<1>3. SubSeq(m, 1, k) \o SubSeq(m, k + 1, n) = SubSeq(m, 1, n)
  BY <1>2, ConcatAdjacentSubSeq
<1>. QED  BY <1>2, <1>3 DEF k, n

(* A step that is not calldata's reads nothing.                            *)
LEMMA LoadCalls ==
  ASSUME CallInv, UNCHANGED calling, status = "loading", status' \in {"loading", "loaded", "threw"}
  PROVE  CallInv'
BY DEF CallInv, calling, CalledWithWhatWasSent

(* calldata throws: nothing is called.                                     *)
LEMMA ThrowCalls ==
  ASSUME CallInv, status' = "threw", message' \in Seq(Nat), at' \in 1 .. Len(message') + 1,
         count' \in Nat, args' = args
  PROVE  CallInv'
BY DEF CallInv, CalledWithWhatWasSent

(* The name is at the beginning of the message, behind its length.         *)
LEMMA ReadNameCalls == ASSUME CallInv, NEW m \in Messages, ReadName(m) PROVE CallInv'
<1>1. /\ status = "loaded" /\ message' = m /\ count' = count /\ args' = args
      /\ m \in Seq(Nat) /\ at = 1 /\ args = <<>> /\ count \in Nat /\ Len(m) \in Nat
  BY MessagesAssumption, LenProperties DEF ReadName, CallInv
<1>2. CASE m # <<>> /\ ~HasText(m, 1)
  <2>1. status' = "threw" /\ at' = at
    BY <1>2 DEF ReadName, Throw
  <2>. QED  BY <1>1, <2>1, ThrowCalls
<1>3. CASE m = <<>>
  <2>1. callee' = Default /\ at' = 1 /\ status' \in {"threw", "counting"}
    BY <1>3 DEF ReadName, Throw
  <2>2. CASE status' = "threw"
    BY <1>1, <2>1, <2>2, ThrowCalls
  <2>3. CASE status' = "counting"
    BY <1>1, <1>3, <2>1, <2>3 DEF CallInv, NameRead, CalledWithWhatWasSent
  <2>. QED  BY <2>1, <2>2, <2>3
<1>4. CASE m # <<>> /\ HasText(m, 1)
  <2>1. callee' = Text(m, 1) /\ at' = 2 + m[1] /\ status' \in {"threw", "counting"}
    BY <1>4 DEF ReadName, Throw
  <2>2. /\ m[1] \in Nat /\ 1 + 1 + m[1] \in 1 .. Len(m) + 1 /\ Text(m, 1) \in Seq(Nat)
        /\ EncodedText(Text(m, 1)) = SubSeq(m, 1, 1 + m[1])
    BY <1>1, <1>4, TextAt, SMTT(30)
  <2>3. at' \in 1 .. Len(m) + 1 /\ at' - 1 = 1 + m[1]
    BY <2>1, <2>2
  <2>4. CASE status' = "threw"
    BY <1>1, <2>3, <2>4, ThrowCalls
  <2>5. CASE status' = "counting"
    <3>1. NameRead'
      BY <1>1, <2>1, <2>2, <2>3 DEF NameRead, Read, EncodedText
    <3>. QED  BY <1>1, <2>3, <2>5, <3>1 DEF CallInv, CalledWithWhatWasSent
  <2>. QED  BY <2>1, <2>4, <2>5
<1>. QED  BY <1>2, <1>3, <1>4

(* The number of arguments is the cell behind the name, if there is one.   *)
LEMMA ReadCountCalls == ASSUME CallInv, ReadCount PROVE CallInv'
<1>1. /\ status = "counting" /\ status' = "reading" /\ message' = message /\ callee' = callee /\ args' = args
      /\ args = <<>> /\ NameRead /\ message \in Seq(Nat) /\ at \in 1 .. Len(message) + 1
  BY DEF ReadCount, CallInv
<1>2. Len(message) \in Nat
  BY <1>1, LenProperties
<1>3. CASE at > Len(message)
  <2>1. count' = 0 /\ at' = at /\ at = Len(message) + 1
    BY <1>1, <1>2, <1>3 DEF ReadCount
  <2>2. NameRead'
    BY <1>1, <2>1 DEF NameRead, Read, EncodedText
  <2>. QED  BY <1>1, <2>1, <2>2 DEF CallInv, CalledWithWhatWasSent
<1>4. CASE ~(at > Len(message))
  <2>1. count' = message[at] /\ at' = at + 1
    BY <1>4 DEF ReadCount
  <2>2. at \in 1 .. Len(message) /\ at + 1 \in 1 .. Len(message) + 1 /\ at + 1 \in at .. Len(message) + 1
        /\ (at + 1) - 1 = at
    BY <1>1, <1>2, <1>4
  <2>3. count' \in Nat
    BY <1>1, <2>1, <2>2, ElementOfSeq
  <2>4. callee \in Seq(Nat) /\ SubSeq(message, 1, at - 1) = EncodedText(callee)
    BY <1>1, <2>2, EmptySeq DEF NameRead, Read
  <2>5. SubSeq(message, 1, at) = SubSeq(message, 1, at - 1) \o SubSeq(message, at, at)
    <3>1. SubSeq(message, 1, (at + 1) - 1) = SubSeq(message, 1, at - 1) \o SubSeq(message, at, (at + 1) - 1)
      BY <1>1, <2>2, ReadOn
    <3>. QED  BY <2>2, <3>1, Zenon
  <2>6. SubSeq(message, at, at) = <<count'>>
    <3>1. SubSeq(message, at, at) = <<message[at]>> \o SubSeq(message, at + 1, at)
      <4>1. at \in at .. Len(message)
        BY <2>2
      <4>. QED  BY <1>1, <2>2, <4>1, SubSeqRecursiveFirst
    <3>2. SubSeq(message, at + 1, at) = <<>>
      BY <2>2, SubSeqEmpty
    <3>3. <<message[at]>> \in Seq(Nat)
      BY <2>1, <2>3
    <3>4. <<message[at]>> \o <<>> = <<message[at]>>
      BY <3>3, ConcatEmptySeq, Zenon
    <3>. QED  BY <2>1, <3>1, <3>2, <3>4, Zenon
  <2>7. (EncodedText(callee) \o <<count'>>) \o Encoded(args') = EncodedText(callee) \o <<count'>>
    <3>1. Encoded(args') = <<>>
      BY <1>1, EncodedSteps
    <3>2. <<count'>> \in Seq(Nat) /\ EncodedText(callee) \in Seq(Nat)
      <4>1. \A i \in 1 .. at - 1 : message[i] \in Nat
        <5>1. \A i \in 1 .. at - 1 : i \in 1 .. Len(message)
          BY <1>2, <2>2
        <5>. QED  BY <1>1, <5>1, ElementOfSeq
      <4>2. at - 1 \in Nat
        BY <2>2
      <4>3. Begins(SubSeq(message, 1, at - 1), message, at - 1, Nat)
        BY <4>1, <4>2, Prefix, Zenon
      <4>4. EncodedText(callee) \in Seq(Nat)
        BY <2>4, <4>3, Zenon DEF Begins
      <4>. QED  BY <2>3, <4>4
    <3>3. EncodedText(callee) \o <<count'>> \in Seq(Nat)
      BY <3>2, ConcatProperties, Zenon
    <3>. QED  BY <3>1, <3>3, ConcatEmptySeq, Zenon
  <2>8. Len(args') + count' = count'
    <3>1. Len(args') = 0
      BY <1>1
    <3>2. \A x \in Nat : 0 + x = x
      OBVIOUS
    <3>. QED  BY <2>3, <3>1, <3>2, Zenon
  <2>9. SubSeq(message', 1, at' - 1) = (EncodedText(callee') \o <<Len(args') + count'>>) \o Encoded(args')
    <3>1. at' - 1 = at
      BY <2>1, <2>2
    <3>. QED  BY <1>1, <2>4, <2>5, <2>6, <2>7, <2>8, <3>1, Zenon
  <2>10. Read(at, (EncodedText(callee) \o <<Len(args) + count>>) \o Encoded(args))'
    BY <2>9 DEF Read, EncodedText, Encoded, EncodedArgument
  <2>. QED  BY <1>1, <2>1, <2>2, <2>3, <2>4, <2>10 DEF CallInv, CalledWithWhatWasSent
<1>. QED  BY <1>3, <1>4

(* An argument is what was sent of it, and the cursor is behind it.        *)
LEMMA ArgumentAt ==
  ASSUME NEW t \in 1 .. 4, message \in Seq(Nat), at \in 1 .. Len(message), t = message[at],
         HasValueAt(t, at + 1)
  PROVE  LET a == Argument(t, ValueAt(t, at + 1))
             p == AfterValue(t, at + 1) IN
         /\ a \in ArgumentType /\ p \in 1 .. Len(message) + 1 /\ p \in at .. Len(message) + 1
         /\ EncodedArgument(a) = SubSeq(message, at, p - 1)
<1>. DEFINE m == message
            i == at + 1
            v == ValueAt(t, i)
            a == Argument(t, v)
            p == AfterValue(t, i)
<1>1. Len(m) \in Nat /\ m \in Seq(Nat) /\ i \in Nat \ {0} /\ at \in Nat /\ at + 1 = i /\ i \in 1 .. Len(m)
  <2>1. Len(m) \in Nat
    BY LenProperties
  <2>. QED  BY <2>1 DEF HasValueAt, HasText
<1>2. a.type = t /\ a.value = v /\ (v \in Seq(Nat) => a \in ArgumentType)
  BY DEF Argument, ArgumentType
<1>. HIDE DEF i
<1>3. CASE t = 1
  <2>1. HasText(m, i) /\ v = Text(m, i) /\ p = i + 1 + m[i]
    BY <1>3 DEF HasValueAt, ValueAt, AfterValue, i
  <2>2. /\ m[i] \in Nat /\ i + 1 + m[i] \in 1 .. Len(m) + 1 /\ v \in Seq(Nat)
        /\ EncodedText(v) = SubSeq(m, i, i + m[i])
    BY <1>1, <2>1, TextAt
  <2>. HIDE DEF p, v
  <2>3. /\ p - 1 = i + m[i] /\ p \in 1 .. Len(m) + 1 /\ p \in at .. Len(m) + 1
        /\ p - 1 \in at .. Len(m)
    <3>. DEFINE q == m[i]
    <3>1. p = i + 1 + q /\ q \in Nat /\ i + 1 + q \in 1 .. Len(m) + 1
      BY <2>1, <2>2
    <3>2. p - 1 = i + q
      <4>. HIDE DEF q
      <4>. QED  BY <1>1, <3>1
    <3>3. p \in 1 .. Len(m) + 1 /\ p \in at .. Len(m) + 1 /\ p - 1 \in at .. Len(m)
      <4>. HIDE DEF q, m
      <4>. QED  BY <1>1, <3>1
    <3>. QED  BY <3>2, <3>3
  <2>. HIDE DEF a, m
  <2>4. EncodedArgument(a) = <<t>> \o SubSeq(m, at + 1, p - 1)
    BY <1>1, <1>2, <1>3, <2>2, <2>3, Zenon DEF EncodedArgument
  <2>5. SubSeq(m, at, p - 1) = <<m[at]>> \o SubSeq(m, at + 1, p - 1)
    <3>1. at \in 1 .. Len(m)
      BY DEF m
    <3>. QED  BY <1>1, <2>3, <3>1, SubSeqRecursiveFirst
  <2>. QED  BY <1>2, <2>2, <2>3, <2>4, <2>5 DEF m, a, p, v, i
<1>4. CASE t # 1
  <2>1. v = <<m[i]>> /\ p = i + 1
    BY <1>4 DEF ValueAt, AfterValue
  <2>2. m[i] \in Nat
    BY <1>1, ElementOfSeq
  <2>3. v \in Seq(Nat)
    BY <2>1, <2>2
  <2>. HIDE DEF p, v
  <2>4. /\ p - 1 = i /\ p \in 1 .. Len(m) + 1 /\ p \in at .. Len(m) + 1 /\ i \in at .. Len(m)
    BY <1>1, <2>1
  <2>. HIDE DEF a, m
  <2>5. EncodedArgument(a) = <<t>> \o <<m[i]>>
    BY <1>2, <1>4, <2>1, Zenon DEF EncodedArgument
  <2>6. SubSeq(m, at, i) = <<m[at]>> \o SubSeq(m, i, i)
    <3>1. at \in 1 .. Len(m)
      BY DEF m
    <3>2. SubSeq(m, at, i) = <<m[at]>> \o SubSeq(m, at + 1, i)
      BY <1>1, <2>4, <3>1, SubSeqRecursiveFirst
    <3>. QED  BY <1>1, <3>2
  <2>7. SubSeq(m, i, i) = <<m[i]>>
    <3>1. i \in i .. Len(m) /\ i + 1 \in Int /\ i \in Int /\ i < i + 1
      BY <1>1
    <3>2. SubSeq(m, i, i) = <<m[i]>> \o SubSeq(m, i + 1, i)
      BY <1>1, <3>1, SubSeqRecursiveFirst
    <3>3. SubSeq(m, i + 1, i) = <<>>
      BY <3>1, SubSeqEmpty
    <3>4. <<m[i]>> \in Seq(Nat)
      BY <2>2
    <3>. QED  BY <3>2, <3>3, <3>4, ConcatEmptySeq, Zenon
  <2>. QED  BY <1>2, <2>3, <2>4, <2>5, <2>6, <2>7 DEF m, a, p, v, i
<1>. QED  BY <1>3, <1>4

(* An argument more: what was read is what sends it, behind the others.    *)
LEMMA ReadArgumentCalls == ASSUME CallInv, ReadArgument PROVE CallInv'
<1>. DEFINE t == message[at]
            a == Argument(t, ValueAt(t, at + 1))
            p == AfterValue(t, at + 1)
<1>1. /\ status = "reading" /\ count > 0 /\ message' = message /\ callee' = callee
      /\ message \in Seq(Nat) /\ at \in 1 .. Len(message) + 1 /\ count \in Nat
      /\ args \in Seq(ArgumentType) /\ Len(message) \in Nat
  BY LenProperties DEF ReadArgument, CallInv
<1>2. /\ callee \in Seq(Nat)
      /\ SubSeq(message, 1, at - 1) = (EncodedText(callee) \o <<Len(args) + count>>) \o Encoded(args)
  <2>1. \/ count = 0
        \/ /\ callee \in Seq(Nat)
           /\ SubSeq(message, 1, at - 1) = (EncodedText(callee) \o <<Len(args) + count>>) \o Encoded(args)
    BY <1>1, Zenon DEF CallInv, Read
  <2>2. count # 0
    BY <1>1
  <2>. QED  BY <2>1, <2>2, Zenon
<1>3. CASE at > Len(message) \/ t \notin 1 .. 4 \/ ~HasValueAt(t, at + 1)
  <2>1. status' = "threw" /\ at' = at /\ count' = count /\ args' = args
    BY <1>3 DEF ReadArgument, Throw
  <2>. QED  BY <1>1, <2>1, ThrowCalls
<1>4. CASE ~(at > Len(message)) /\ t \in 1 .. 4 /\ HasValueAt(t, at + 1)
  <2>1. args' = Append(args, a) /\ at' = p /\ count' = count - 1 /\ status' = status
    BY <1>4 DEF ReadArgument
  <2>2. at \in 1 .. Len(message)
    BY <1>1, <1>4
  <2>3. /\ a \in ArgumentType /\ p \in 1 .. Len(message) + 1 /\ p \in at .. Len(message) + 1
        /\ EncodedArgument(a) = SubSeq(message, at, p - 1)
    BY <1>1, <1>4, <2>2, ArgumentAt
  <2>. HIDE DEF t, a, p
  <2>. DEFINE n == <<Len(args) + count>>
              head == EncodedText(callee) \o n
  <2>4. args' \in Seq(ArgumentType) /\ Encoded(args') = Encoded(args) \o EncodedArgument(a)
    <3>1. args' \in Seq(ArgumentType)
      BY <1>1, <2>1, <2>3, AppendProperties, Zenon
    <3>2. Encoded(Append(args, a)) = Encoded(args) \o EncodedArgument(a)
      BY <1>1, <2>3, EncodedSteps
    <3>. QED  BY <2>1, <3>1, <3>2
  <2>5. Len(args') + count' = Len(args) + count /\ Len(args) \in Nat /\ count' \in Nat
    <3>1. Len(args) \in Nat
      BY <1>1, LenProperties
    <3>2. Len(args') = Len(args) + 1
      <4>1. Len(Append(args, a)) = Len(args) + 1
        BY <1>1, <2>3, AppendProperties
      <4>. QED  BY <2>1, <4>1, Zenon
    <3>3. \A x, y \in Nat : y > 0 => (x + 1) + (y - 1) = x + y /\ y - 1 \in Nat
      OBVIOUS
    <3>4. count \in Nat /\ count > 0 /\ count' = count - 1
      BY <1>1, <2>1, Zenon
    <3>5. (Len(args) + 1) + (count - 1) = Len(args) + count /\ count - 1 \in Nat
      BY <3>1, <3>3, <3>4, Zenon
    <3>. QED  BY <3>1, <3>2, <3>4, <3>5, Zenon
  <2>6. head \in Seq(Nat)
    <3>1. Len(callee) \in Nat /\ Len(args) + count \in Nat
      BY <1>1, <1>2, <2>5, LenProperties
    <3>2. <<Len(callee)>> \in Seq(Nat) /\ n \in Seq(Nat)
      BY <3>1
    <3>3. EncodedText(callee) \in Seq(Nat)
      BY <1>2, <3>2, ConcatProperties, Zenon DEF EncodedText
    <3>. QED  BY <3>2, <3>3, ConcatProperties, Zenon
  <2>. HIDE DEF head
  <2>7. SubSeq(message, 1, p - 1) = head \o Encoded(args')
    <3>1. SubSeq(message, 1, p - 1) = SubSeq(message, 1, at - 1) \o SubSeq(message, at, p - 1)
      BY <1>1, <2>3, ReadOn
    <3>2. SubSeq(message, 1, at - 1) = head \o Encoded(args)
      BY <1>2, Zenon DEF head
    <3>3. Encoded(args) \in Seq(Nat) /\ EncodedArgument(a) \in Seq(Nat)
      BY <1>1, <2>3, EncodedSteps, EncodedType
    <3>4. (head \o Encoded(args)) \o EncodedArgument(a) = head \o (Encoded(args) \o EncodedArgument(a))
      <4>. DEFINE x == Encoded(args)
                  y == EncodedArgument(a)
      <4>1. x \in Seq(Nat) /\ y \in Seq(Nat)
        BY <3>3, Zenon
      <4>. HIDE DEF x, y
      <4>2. (head \o x) \o y = head \o (x \o y)
        BY <2>6, <4>1, ConcatAssociative, SMTT(30)
      <4>. QED  BY <4>2, Zenon DEF x, y
    <3>. QED  BY <2>3, <2>4, <3>1, <3>2, <3>4, Zenon
  <2>8. Read(at, (EncodedText(callee) \o <<Len(args) + count>>) \o Encoded(args))'
    <3>1. SubSeq(message', 1, at' - 1)
            = (EncodedText(callee') \o <<Len(args') + count'>>) \o Encoded(args')
      BY <1>1, <2>1, <2>5, <2>7, Zenon DEF head
    <3>. QED  BY <3>1, Zenon DEF Read, EncodedText, Encoded, EncodedArgument
  <2>. QED  BY <1>1, <1>2, <2>1, <2>3, <2>4, <2>5, <2>8 DEF CallInv, CalledWithWhatWasSent
<1>. QED  BY <1>3, <1>4

(* Callable::call counts the arguments; nothing more is read.              *)
LEMMA InvokeCalls == ASSUME CallInv, Invoke PROVE CallInv'
<1>1. /\ status = "reading" /\ count = 0 /\ globals' = globals /\ status' \in {"threw", "called"}
      /\ message' = message /\ at' = at /\ callee' = callee /\ count' = count /\ args' = args
      /\ message \in Seq(Nat) /\ at \in 1 .. Len(message) + 1 /\ args \in Seq(ArgumentType)
      /\ Len(message) \in Nat
  BY LenProperties DEF Invoke, Throw, loading, calling, CallInv
<1>2. CASE status' = "threw"
  BY <1>1, <1>2, ThrowCalls
<1>3. CASE status' = "called"
  <2>1. ~WrongArguments(Value(callee))
    BY <1>3 DEF Invoke, Throw
  <2>2. Value(callee).what = "function" => Len(args) = Value(callee).arity
    BY <2>1 DEF WrongArguments
  <2>. DEFINE Sent ==
                \/ IsPrefix(EncodedCall(callee, args), message)
                \/ args = <<>> /\ message = EncodedText(callee)
                \/ args = <<>> /\ message = <<>> /\ callee = Default
  <2>3. ASSUME NameRead, at = Len(message) + 1, args = <<>> PROVE Sent
    <3>1. CASE message = <<>> /\ callee = Default
      BY <2>3, <3>1
    <3>2. CASE SubSeq(message, 1, at - 1) = EncodedText(callee)
      <4>1. at - 1 = Len(message)
        BY <1>1, <2>3
      <4>2. SubSeq(message, 1, Len(message)) = message
        BY <1>1, SubSeqFull
      <4>3. message = EncodedText(callee)
        BY <3>2, <4>1, <4>2, Zenon
      <4>. QED  BY <2>3, <4>3
    <3>. QED  BY <2>3, <3>1, <3>2 DEF NameRead, Read
  <2>4. ASSUME SubSeq(message, 1, at - 1)
                 = (EncodedText(callee) \o <<Len(args) + count>>) \o Encoded(args)
        PROVE  Sent
    <3>. DEFINE c == EncodedCall(callee, args)
                e == at - 1
    <3>1. SubSeq(message, 1, e) = c
      <4>1. Len(args) + count = Len(args)
        <5>1. Len(args) \in Nat
          BY <1>1, LenProperties
        <5>2. \A x \in Nat : x + 0 = x
          OBVIOUS
        <5>. QED  BY <1>1, <5>1, <5>2, Zenon
      <4>. QED  BY <2>4, <4>1, Zenon DEF EncodedCall, Encoded
    <3>2. e \in Nat /\ e <= Len(message) /\ \A i \in 1 .. e : message[i] \in Nat
      <4>1. e \in Nat /\ e <= Len(message) /\ \A i \in 1 .. e : i \in 1 .. Len(message)
        BY <1>1
      <4>. QED  BY <1>1, <4>1, ElementOfSeq
    <3>. HIDE DEF e, c
    <3>3. Begins(c, message, e, Nat)
      BY <3>1, <3>2, Prefix, Zenon
    <3>4. c \in Seq(Nat) /\ Len(c) = e
      BY <3>3, Zenon DEF Begins
    <3>5. SubSeq(c, 1, Len(c)) = c
      BY <3>4, SubSeqFull
    <3>6. IsPrefix(c, message)
      BY <3>1, <3>2, <3>4, <3>5, Zenon DEF IsPrefix
    <3>. QED  BY <3>6 DEF c
  <2>5. Sent
    <3>1. \/ NameRead /\ at = Len(message) + 1 /\ args = <<>>
          \/ SubSeq(message, 1, at - 1)
               = (EncodedText(callee) \o <<Len(args) + count>>) \o Encoded(args)
      BY <1>1, Zenon DEF CallInv, Read
    <3>. QED  BY <2>3, <2>4, <3>1, Zenon
  <2>6. CalledWithWhatWasSent'
    <3>1. Value(callee)' = Value(callee')
      BY <1>1 DEF Value
    <3>2. Value(callee') = Value(callee)
      BY <1>1
    <3>3. Sent'
      BY <1>1, <2>5, Zenon DEF EncodedCall, EncodedText, EncodedArgument
    <3>. QED  BY <1>1, <2>2, <3>1, <3>2, <3>3 DEF CalledWithWhatWasSent
  <2>. QED  BY <1>1, <1>3, <2>6 DEF CallInv
<1>. QED  BY <1>1, <1>2, <1>3

(* Each step of Next keeps CallInv.                                        *)
LEMMA NextCalls == ASSUME CallInv, [Next]_vars PROVE CallInv'
<1>1. ASSUME Pass \/ Import \/ OperandAgain PROVE CallInv'
  <2>1. status = "loading" /\ UNCHANGED calling /\ status' \in {"loading", "threw"}
    BY <1>1 DEF Pass, Import, OperandAgain, Executes, Executed, Fail, Throw
  <2>. QED  BY <2>1, LoadCalls
<1>2. CASE ImportFrom
  <2>1. status = "loading" /\ UNCHANGED calling /\ status' \in {"loading", "threw"}
    BY <1>2, Zenon DEF ImportFrom, Executes, Executed, Throw
  <2>. QED  BY <2>1, LoadCalls
<1>3. CASE FunctionDef
  <2>1. status = "loading"
    BY <1>3 DEF FunctionDef, Executes
  <2>2. UNCHANGED calling /\ status' \in {"loading", "threw"}
    <3>1. \/ \E e \in Reasons : Fail(e)
          \/ \E p : Executed(p)
      BY <1>3, Zenon DEF FunctionDef, ReadFunctionStub, Reasons
    <3>. QED  BY <2>1, <3>1 DEF Fail, Throw, Executed
  <2>. QED  BY <2>1, <2>2, LoadCalls
<1>4. CASE Refuse \/ Loaded
  <2>1. status = "loading" /\ UNCHANGED calling /\ status' \in {"loaded", "threw"}
    BY <1>4 DEF Refuse, Loaded, Fail, Throw
  <2>. QED  BY <2>1, LoadCalls
<1>5. ASSUME NEW m \in Messages, ReadName(m) PROVE CallInv'
  BY <1>5, ReadNameCalls
<1>6. CASE ReadCount
  BY <1>6, ReadCountCalls
<1>7. CASE ReadArgument
  BY <1>7, ReadArgumentCalls
<1>8. CASE Invoke
  BY <1>8, InvokeCalls
<1>9. CASE UNCHANGED vars
  <2>1. /\ globals' = globals /\ status' = status /\ message' = message /\ at' = at
        /\ callee' = callee /\ count' = count /\ args' = args
    BY <1>9 DEF vars
  <2>2. CalledWithWhatWasSent' <=> CalledWithWhatWasSent
    BY <2>1, Zenon DEF CalledWithWhatWasSent, Value, EncodedCall, EncodedText, EncodedArgument
  <2>3. NameRead' <=> NameRead
    BY <2>1, Zenon DEF NameRead, Read, EncodedText
  <2>4. Read(at, (EncodedText(callee) \o <<Len(args) + count>>) \o Encoded(args))'
          <=> Read(at, (EncodedText(callee) \o <<Len(args) + count>>) \o Encoded(args))
    BY <2>1, Zenon DEF Read, EncodedText, Encoded, EncodedArgument
  <2>. QED  BY <2>1, <2>2, <2>3, <2>4 DEF CallInv
<1>10. CASE Done
  BY <1>9, <1>10 DEF Done
<1>. QED  BY <1>1, <1>2, <1>3, <1>4, <1>5, <1>6, <1>7, <1>8, <1>9, <1>10 DEF Next

(* What calldata has read is the call as the host encodes it.              *)
THEOREM EntryReads == Spec => []CallInv
<1>1. Init => CallInv
  BY EmptySeq DEF Init, CallInv, CalledWithWhatWasSent
<1>. QED  BY <1>1, NextCalls, PTL DEF Spec

(* calldata: a function is called with what was sent and nothing else,     *)
(* however the message was cut off.                                        *)
THEOREM EntryCalledWithWhatWasSent == Spec => []CalledWithWhatWasSent
<1>1. CallInv => CalledWithWhatWasSent
  BY DEF CallInv
<1>. QED  BY <1>1, EntryReads, PTL

(* read_function_stub and calldata: positions, bindings and arguments are  *)
(* well formed, and neither cursor leaves what it reads.                   *)
THEOREM EntryTypeOK == Spec => []TypeOK
<1>1. LoadInv /\ CallInv => TypeOK
  <2>. SUFFICES ASSUME LoadInv, CallInv PROVE TypeOK
    OBVIOUS
  <2>1. \A i \in DOMAIN args : args[i].type \in 1 .. 4
    <3>1. args \in Seq(ArgumentType)
      BY DEF CallInv
    <3>2. \A i \in DOMAIN args : args[i] \in ArgumentType
      BY <3>1, LenProperties
    <3>. QED  BY <3>2 DEF ArgumentType
  <2>. QED  BY <2>1 DEF LoadInv, CallInv, TypeOK
<1>. QED  BY <1>1, EntryLoads, EntryReads, PTL

-----------------------------------------------------------------------------
(* What a node of a function body may be. *)
Kinds == Simple \cup {"Pass", "Test", "Iterable", "Comprehension"} \cup Compound

NodeSet == Kinds \X Nat

(* How many nodes are still to come at each position of c: k before the    *)
(* first, l behind the last, and never none before a node.                 *)
Counts(h, c, k, l) ==
  /\ h \in [1 .. Len(c) + 1 -> Nat]
  /\ h[1] = k /\ h[Len(c) + 1] = l
  /\ \A i \in 1 .. Len(c) : h[i] > 0 /\ h[i + 1] = h[i] - 1 + Children(c[i])

Balanced(c, k, l) == \E h : Counts(h, c, k, l)

(* What stands behind a node whose place in the code does not depend on    *)
(* the length of a suite.                                                  *)
Shape(c, i) ==
  /\ c[i][1] \in {"If", "IfElse"} => i + 1 <= Len(c) /\ c[i + 1][1] = "Test"
  /\ c[i][1] = "WhileLoop" =>
       i + 2 <= Len(c) /\ c[i + 1][1] = "Test" /\ c[i + 2][1] = "StatementList"
  /\ c[i][1] = "ForLoop" =>
       i + 2 <= Len(c) /\ c[i + 1][1] = "Iterable" /\ c[i + 2][1] = "StatementList"
  /\ c[i][1] = "ListComp" =>
       /\ i + 4 <= Len(c)
       /\ c[i + 1][1] = "Act" /\ c[i + 2][1] = "Comprehension"
       /\ c[i + 3][1] = "Iterable" /\ c[i + 4][1] = "Pass"

Shaped(c) == \A i \in 1 .. Len(c) : Shape(c, i)

(* c is k whole nodes. *)
Whole(c, k) == c \in Seq(NodeSet) /\ Balanced(c, k, 0) /\ Shaped(c)

(* Every node has a number of children. *)
LEMMA ChildrenOf ==
  ASSUME NEW x \in NodeSet
  PROVE  /\ Children(x) \in Nat /\ x[1] \in Kinds /\ x[2] \in Nat
         /\ x[1] \notin Compound => Children(x) = 0
         /\ x[1] = "StatementList" => Children(x) = x[2]
         /\ x[1] \in {"If", "WhileLoop", "ForLoop"} => Children(x) = 2
         /\ x[1] = "IfElse" => Children(x) = 3
         /\ x[1] = "ListComp" => Children(x) = 4
<1>1. x[1] \in Kinds /\ x[2] \in Nat
  BY DEF NodeSet
<1>2. \/ x[1] \in Simple \cup {"Pass", "Test", "Iterable", "Comprehension"}
      \/ x[1] = "StatementList" \/ x[1] \in {"If", "WhileLoop", "ForLoop"}
      \/ x[1] = "IfElse" \/ x[1] = "ListComp"
  BY <1>1 DEF Kinds, Compound
<1>. QED  BY <1>1, <1>2 DEF Children, Simple, Compound

(* Between two pieces of code the count goes on.                           *)
LEMMA BalancedConcat ==
  ASSUME NEW c \in Seq(NodeSet), NEW d \in Seq(NodeSet), NEW k \in Nat, NEW l \in Nat, NEW m \in Nat,
         Balanced(c, k, l), Balanced(d, l, m)
  PROVE  Balanced(c \o d, k, m)
<1>1. PICK g : Counts(g, c, k, l)
  BY DEF Balanced
<1>2. PICK h : Counts(h, d, l, m)
  BY DEF Balanced
<1>. DEFINE n == Len(c)
            o == Len(d)
            e == [i \in 1 .. n + o + 1 |-> IF i <= n THEN g[i] ELSE h[i - n]]
<1>3. /\ n \in Nat /\ o \in Nat /\ Len(c \o d) = n + o
      /\ \A i \in 1 .. n : (c \o d)[i] = c[i]
      /\ \A i \in 1 .. o : (c \o d)[n + i] = d[i]
  BY ConcatProperties, LenProperties
<1>4. /\ g \in [1 .. n + 1 -> Nat] /\ g[1] = k /\ g[n + 1] = l
      /\ \A i \in 1 .. n : g[i] > 0 /\ g[i + 1] = g[i] - 1 + Children(c[i])
  BY <1>1 DEF Counts
<1>5. /\ h \in [1 .. o + 1 -> Nat] /\ h[1] = l /\ h[o + 1] = m
      /\ \A i \in 1 .. o : h[i] > 0 /\ h[i + 1] = h[i] - 1 + Children(d[i])
  BY <1>2 DEF Counts
<1>. HIDE DEF n, o
<1>6. e \in [1 .. n + o + 1 -> Nat]
  BY <1>3, <1>4, <1>5
<1>7. e[1] = k /\ e[n + o + 1] = m
  BY <1>3, <1>4, <1>5
<1>8. ASSUME NEW i \in 1 .. n + o
      PROVE  e[i] > 0 /\ e[i + 1] = e[i] - 1 + Children((c \o d)[i])
  <2>1. CASE i <= n
    <3>1. e[i] = g[i] /\ e[i + 1] = g[i + 1]
      BY <1>3, <1>4, <1>5, <2>1, SMTT(30)
    <3>2. (c \o d)[i] = c[i]
      BY <1>3, <2>1
    <3>3. i \in 1 .. n
      BY <1>3, <2>1
    <3>4. g[i] > 0 /\ g[i + 1] = g[i] - 1 + Children(c[i])
      BY <1>4, <3>3
    <3>. HIDE DEF e
    <3>. QED  BY <3>1, <3>2, <3>4
  <2>2. CASE i > n
    <3>. DEFINE j == i - n
    <3>1. j \in 1 .. o /\ e[i] = h[j] /\ e[i + 1] = h[j + 1] /\ i = n + j
      BY <1>3, <2>2
    <3>2. (c \o d)[i] = d[j]
      BY <1>3, <3>1
    <3>. HIDE DEF e, j
    <3>. QED  BY <1>5, <3>1, <3>2
  <2>. QED  BY <1>3, <2>1, <2>2, SMTT(30)
<1>9. Counts(e, c \o d, k, m)
  <2>. HIDE DEF e
  <2>. QED  BY <1>3, <1>6, <1>7, <1>8 DEF Counts
<1>. QED  BY <1>9 DEF Balanced

(* The nodes behind it may be more.                                        *)
LEMMA BalancedMore ==
  ASSUME NEW c \in Seq(NodeSet), NEW k \in Nat, NEW l \in Nat, NEW x \in Nat, Balanced(c, k, l)
  PROVE  Balanced(c, k + x, l + x)
<1>1. PICK h : Counts(h, c, k, l)
  BY DEF Balanced
<1>. DEFINE n == Len(c)
            e == [i \in 1 .. n + 1 |-> h[i] + x]
<1>2. n \in Nat /\ \A i \in 1 .. n : Children(c[i]) \in Nat
  <2>1. \A i \in 1 .. n : c[i] \in NodeSet
    BY LenProperties, ElementOfSeq
  <2>. QED  BY <2>1, ChildrenOf, LenProperties
<1>3. /\ h \in [1 .. n + 1 -> Nat] /\ h[1] = k /\ h[n + 1] = l
      /\ \A i \in 1 .. n : h[i] > 0 /\ h[i + 1] = h[i] - 1 + Children(c[i])
  BY <1>1 DEF Counts
<1>. HIDE DEF n
<1>4. e \in [1 .. n + 1 -> Nat] /\ e[1] = k + x /\ e[n + 1] = l + x
  BY <1>2, <1>3
<1>5. ASSUME NEW i \in 1 .. n
      PROVE  e[i] > 0 /\ e[i + 1] = e[i] - 1 + Children(c[i])
  <2>1. i \in 1 .. n + 1 /\ i + 1 \in 1 .. n + 1
    BY <1>2
  <2>2. e[i] = h[i] + x /\ e[i + 1] = h[i + 1] + x
    BY <2>1
  <2>3. h[i] \in Nat /\ h[i] > 0 /\ h[i + 1] = h[i] - 1 + Children(c[i]) /\ Children(c[i]) \in Nat
    BY <1>2, <1>3, <2>1
  <2>. HIDE DEF e
  <2>. QED  BY <2>2, <2>3, SMTT(30)
<1>. HIDE DEF e
<1>. QED  BY <1>4, <1>5, Zenon DEF Balanced, Counts, n

(* What stands behind a node of d stays there when d stands behind c.      *)
LEMMA ShapeBehind ==
  ASSUME NEW c \in Seq(NodeSet), NEW d \in Seq(NodeSet), NEW j \in 1 .. Len(d), Shape(d, j)
  PROVE  Shape(c \o d, Len(c) + j)
<1>. DEFINE n == Len(c)
            o == Len(d)
            i == n + j
            e == c \o d
<1>1. n \in Nat /\ o \in Nat /\ Len(e) = n + o /\ \A x \in 1 .. o : e[n + x] = d[x]
  BY ConcatProperties, LenProperties
<1>2. \A x \in 0 .. 4 : j + x <= o => i + x <= Len(e) /\ e[i + x] = d[j + x]
  <2>. SUFFICES ASSUME NEW x \in 0 .. 4, j + x <= o
                PROVE  i + x <= Len(e) /\ e[i + x] = d[j + x]
    OBVIOUS
  <2>1. j + x \in 1 .. o /\ i + x = n + (j + x)
    BY <1>1
  <2>. HIDE DEF e
  <2>. QED  BY <1>1, <2>1
<1>3. /\ e[i] = d[j]
      /\ j + 1 <= o => i + 1 <= Len(e) /\ e[i + 1] = d[j + 1]
      /\ j + 2 <= o => i + 2 <= Len(e) /\ e[i + 2] = d[j + 2]
      /\ j + 4 <= o => j + 3 <= o /\ i + 4 <= Len(e) /\ e[i + 4] = d[j + 4]
      /\ j + 3 <= o => e[i + 3] = d[j + 3]
  <2>. HIDE DEF e
  <2>. QED  BY <1>1, <1>2
<1>4. j + 4 <= o => j + 3 <= o /\ j + 2 <= o /\ j + 1 <= o
  BY <1>1
<1>5. j + 2 <= o => j + 1 <= o
  BY <1>1
<1>6. Shape(d, j)
  OBVIOUS
<1>. HIDE DEF e, i
<1>7. Shape(e, i)
  BY <1>3, <1>4, <1>5, <1>6, Zenon DEF Shape, o
<1>. QED  BY <1>7 DEF e, i

(* What stands behind a node stays there.                                  *)
LEMMA ShapedConcat ==
  ASSUME NEW c \in Seq(NodeSet), NEW d \in Seq(NodeSet), Shaped(c), Shaped(d)
  PROVE  Shaped(c \o d)
<1>. DEFINE n == Len(c)
            o == Len(d)
            e == c \o d
<1>1. n \in Nat /\ o \in Nat /\ Len(e) = n + o /\ \A i \in 1 .. n : e[i] = c[i]
  BY ConcatProperties, LenProperties
<1>2. (\A i \in 1 .. n : Shape(c, i)) /\ (\A i \in 1 .. o : Shape(d, i))
  BY DEF Shaped
<1>3. ASSUME NEW i \in 1 .. Len(e) PROVE Shape(e, i)
  <2>1. CASE i <= n
    <3>1. Shape(c, i)
      BY <1>1, <1>2, <2>1
    <3>2. \A x \in 0 .. 4 : i + x <= n => i + x <= Len(e) /\ e[i + x] = c[i + x]
      BY <1>1
    <3>. HIDE DEF e
    <3>3. /\ e[i] = c[i]
          /\ i + 1 <= n => i + 1 <= Len(e) /\ e[i + 1] = c[i + 1]
          /\ i + 2 <= n => i + 2 <= Len(e) /\ e[i + 2] = c[i + 2]
          /\ i + 4 <= n => i + 3 <= n /\ i + 4 <= Len(e) /\ e[i + 4] = c[i + 4]
          /\ i + 3 <= n => e[i + 3] = c[i + 3]
      BY <1>1, <2>1, <3>2
    <3>4. i + 4 <= n => i + 3 <= n /\ i + 2 <= n /\ i + 1 <= n
      BY <1>1
    <3>5. i + 2 <= n => i + 1 <= n
      BY <1>1
    <3>. QED  BY <3>1, <3>3, <3>4, <3>5, Zenon DEF Shape, n
  <2>2. CASE i > n
    <3>1. i - n \in 1 .. o /\ i = n + (i - n)
      BY <1>1, <2>2
    <3>. DEFINE j == i - n
    <3>. HIDE DEF e, j
    <3>2. j \in 1 .. Len(d) /\ Shape(d, j) /\ i = Len(c) + j
      BY <1>2, <3>1 DEF j
    <3>3. Shape(c \o d, Len(c) + j)
      BY <3>2, ShapeBehind, Zenon
    <3>. QED  BY <3>2, <3>3, Zenon DEF e
  <2>. QED  BY <1>1, <2>1, <2>2
<1>. QED  BY <1>3 DEF Shaped

-----------------------------------------------------------------------------
(* One node. *)
LEMMA OneNode ==
  ASSUME NEW x \in NodeSet, NEW k \in Nat
  PROVE  /\ <<x>> \in Seq(NodeSet) /\ Len(<<x>>) = 1 /\ <<x>>[1] = x
         /\ Balanced(<<x>>, k + 1, k + Children(x))
         /\ x[1] \notin {"If", "IfElse", "WhileLoop", "ForLoop", "ListComp"} => Shaped(<<x>>)
<1>1. <<x>> \in Seq(NodeSet) /\ Len(<<x>>) = 1 /\ <<x>>[1] = x
  OBVIOUS
<1>2. Balanced(<<x>>, k + 1, k + Children(x))
  <2>. DEFINE h == [i \in 1 .. 2 |-> IF i = 1 THEN k + 1 ELSE k + Children(x)]
  <2>1. Children(x) \in Nat
    BY ChildrenOf
  <2>2. Counts(h, <<x>>, k + 1, k + Children(x))
    <3>. HIDE DEF Children
    <3>1. /\ h \in [1 .. Len(<<x>>) + 1 -> Nat]
          /\ h[1] = k + 1 /\ h[Len(<<x>>) + 1] = k + Children(x)
      BY <2>1
    <3>2. \A i \in 1 .. Len(<<x>>) : h[i] > 0 /\ h[i + 1] = h[i] - 1 + Children(<<x>>[i])
      <4>1. h[1] > 0 /\ h[2] = h[1] - 1 + Children(x)
        BY <2>1
      <4>. HIDE DEF h
      <4>. QED  BY <4>1
    <3>. HIDE DEF h
    <3>. QED  BY <3>1, <3>2, Zenon DEF Counts
  <2>. QED  BY <2>2 DEF Balanced
<1>3. ASSUME x[1] \notin {"If", "IfElse", "WhileLoop", "ForLoop", "ListComp"}
      PROVE  Shaped(<<x>>)
  <2>1. Shape(<<x>>, 1)
    BY <1>1, <1>3 DEF Shape
  <2>. QED  BY <1>1, <2>1 DEF Shaped
<1>. QED  BY <1>1, <1>2, <1>3

(* Statements one behind the other. *)
LEMMA WholeFlat ==
  ASSUME NEW n \in Nat, NEW f, \A i \in 1 .. n : Whole(f[i], 1)
  PROVE  Whole(Flat(f, n), n)
<1>1. \A i \in 1 .. n : f[i] \in Seq(NodeSet) /\ Balanced(f[i], 1, 0) /\ Shaped(f[i])
  BY DEF Whole
<1>2. /\ Flat(f, 0) = <<>>
      /\ \A m \in 0 .. n : Flat(f, m) \in Seq(NodeSet)
      /\ \A m \in 1 .. n : Flat(f, m) = Flat(f, m - 1) \o f[m]
  BY <1>1, FlatSteps
<1>. DEFINE P == {m \in Nat : m <= n => Balanced(Flat(f, m), n, n - m) /\ Shaped(Flat(f, m))}
<1>3. 0 \in P
  <2>1. Counts([i \in 1 .. 1 |-> n], <<>>, n, n)
    BY DEF Counts
  <2>2. Balanced(<<>>, n, n - 0)
    BY <2>1 DEF Balanced
  <2>3. Shaped(<<>>)
    BY DEF Shaped
  <2>. QED  BY <1>2, <2>2, <2>3
<1>4. ASSUME NEW m \in Nat, m \in P PROVE m + 1 \in P
  <2>. SUFFICES ASSUME m + 1 <= n
                PROVE  Balanced(Flat(f, m + 1), n, n - (m + 1)) /\ Shaped(Flat(f, m + 1))
    OBVIOUS
  <2>. DEFINE c == Flat(f, m)
              d == f[m + 1]
              x == n - (m + 1)
  <2>1. /\ c \in Seq(NodeSet) /\ d \in Seq(NodeSet) /\ x \in Nat /\ n - m = 1 + x /\ 0 + x = x
        /\ Balanced(c, n, n - m) /\ Shaped(c) /\ Balanced(d, 1, 0) /\ Shaped(d)
    BY <1>1, <1>2, <1>4
  <2>2. Flat(f, m + 1) = c \o d
    <3>1. m + 1 \in 1 .. n /\ (m + 1) - 1 = m
      OBVIOUS
    <3>. QED  BY <1>2, <3>1
  <2>. HIDE DEF c, d, x
  <2>3. Balanced(d, 1 + x, 0 + x)
    BY <2>1, BalancedMore
  <2>4. Balanced(c \o d, n, x)
    <3>1. Balanced(c, n, 1 + x) /\ Balanced(d, 1 + x, x)
      BY <2>1, <2>3
    <3>2. 1 + x \in Nat
      BY <2>1
    <3>. QED  BY <2>1, <3>1, <3>2, BalancedConcat
  <2>5. Shaped(c \o d)
    BY <2>1, ShapedConcat
  <2>. QED  BY <2>2, <2>4, <2>5 DEF x
<1>5. n \in P
  <2>. HIDE DEF P
  <2>1. Nat \subseteq P
    BY <1>3, <1>4, SetInduction
  <2>. QED  BY <2>1
<1>6. n - n = 0
  OBVIOUS
<1>. QED  BY <1>2, <1>5, <1>6 DEF Whole

(* A suite of statements that are whole. *)
IsSuite(c) == Whole(c, 1) /\ Len(c) > 0 /\ c[1][1] = "StatementList"

LEMMA SuiteIsWhole ==
  ASSUME NEW S, NEW compiled, \A s \in S : Whole(compiled[s], 1), NEW b \in Seq(S)
  PROVE  IsSuite(Suite(b, compiled))
<1>. DEFINE n == Len(b)
            f == [i \in 1 .. n |-> compiled[b[i]]]
            x == <<"StatementList", n>>
            d == Flat(f, n)
<1>1. n \in Nat /\ DOMAIN b = 1 .. n /\ \A i \in 1 .. n : b[i] \in S
  BY LenProperties, ElementOfSeq
<1>2. Suite(b, compiled) = <<x>> \o d
  <2>1. [i \in 1 .. n |-> f[i]] = [i \in DOMAIN b |-> compiled[b[i]]]
    BY <1>1
  <2>. QED  BY <2>1 DEF Suite, Flat
<1>3. Whole(d, n)
  <2>1. \A i \in 1 .. n : Whole(f[i], 1)
    BY <1>1
  <2>. HIDE DEF f, n
  <2>. QED  BY <1>1, <2>1, WholeFlat
<1>4. x \in NodeSet /\ x[1] = "StatementList" /\ Children(x) = n
  BY <1>1, ChildrenOf DEF NodeSet, Kinds, Compound
<1>. HIDE DEF x, d, n
<1>5. /\ <<x>> \in Seq(NodeSet) /\ Len(<<x>>) = 1 /\ <<x>>[1] = x
      /\ Balanced(<<x>>, 0 + 1, 0 + Children(x)) /\ Shaped(<<x>>)
  BY <1>4, OneNode
<1>6. Balanced(<<x>>, 1, n)
  <2>1. 0 + 1 = 1 /\ 0 + n = n
    BY <1>1
  <2>. QED  BY <1>4, <1>5, <2>1
<1>7. d \in Seq(NodeSet) /\ Balanced(d, n, 0) /\ Shaped(d)
  BY <1>3 DEF Whole
<1>8. Whole(<<x>> \o d, 1)
  <2>1. Balanced(<<x>> \o d, 1, 0)
    BY <1>1, <1>5, <1>6, <1>7, BalancedConcat
  <2>2. Shaped(<<x>> \o d) /\ <<x>> \o d \in Seq(NodeSet)
    BY <1>5, <1>7, ShapedConcat, ConcatProperties
  <2>. QED  BY <2>1, <2>2 DEF Whole
<1>9. Len(<<x>> \o d) > 0 /\ (<<x>> \o d)[1] = x
  <2>1. Len(d) \in Nat
    BY <1>7, LenProperties
  <2>2. /\ Len(<<x>> \o d) = Len(<<x>>) + Len(d)
        /\ \A i \in 1 .. Len(<<x>>) + Len(d) :
             (<<x>> \o d)[i] = IF i <= Len(<<x>>) THEN <<x>>[i] ELSE d[i - Len(<<x>>)]
    BY <1>5, <1>7, ConcatProperties
  <2>. QED  BY <1>5, <2>1, <2>2
<1>. QED  BY <1>2, <1>4, <1>8, <1>9 DEF IsSuite

(* A node with its test, and what has to follow.                           *)
LEMMA ClauseIs ==
  ASSUME NEW type \in {"If", "IfElse", "WhileLoop", "ForLoop"}, NEW test \in {"Test", "Iterable"}
  PROVE  /\ Clause(type, test) \in Seq(NodeSet) /\ Len(Clause(type, test)) = 2
         /\ Clause(type, test)[1][1] = type /\ Clause(type, test)[2][1] = test
         /\ type = "IfElse" => Balanced(Clause(type, test), 1, 2)
         /\ type # "IfElse" => Balanced(Clause(type, test), 1, 1)
         /\ type \in {"If", "IfElse"} /\ test = "Test" => Shaped(Clause(type, test))
<1>. DEFINE x == <<type, 0>>
            y == <<test, 0>>
            c == <<x, y>>
<1>1. Clause(type, test) = c
  BY DEF Clause
<1>2. x \in NodeSet /\ y \in NodeSet /\ x[1] = type /\ y[1] = test
  BY DEF NodeSet, Kinds, Compound
<1>3. Children(y) = 0 /\ (type = "IfElse" => Children(x) = 3) /\ (type # "IfElse" => Children(x) = 2)
  <2>1. y[1] \notin Compound
    BY <1>2 DEF Compound
  <2>. QED  BY <1>2, <2>1, ChildrenOf
<1>. HIDE DEF x, y
<1>4. c \in Seq(NodeSet) /\ Len(c) = 2 /\ c[1] = x /\ c[2] = y
  BY <1>2
<1>5. ASSUME NEW k \in {1, 2}, Children(x) = 1 + k
      PROVE  Balanced(c, 1, k)
  <2>. DEFINE h == [i \in 1 .. 3 |-> IF i = 1 THEN 1 ELSE IF i = 2 THEN 1 + k ELSE k]
  <2>1. /\ h \in [1 .. 3 -> Nat] /\ h[1] = 1 /\ h[3] = k
        /\ h[1] > 0 /\ h[2] > 0 /\ h[2] = h[1] - 1 + Children(x)
        /\ h[3] = h[2] - 1 + Children(y)
    BY <1>3, <1>5
  <2>2. Counts(h, c, 1, k)
    <3>1. 2 + 1 = 3 /\ 1 + 1 = 2 /\ \A i \in 1 .. 2 : i = 1 \/ i = 2
      OBVIOUS
    <3>2. ASSUME NEW i \in 1 .. Len(c) PROVE h[i] > 0 /\ h[i + 1] = h[i] - 1 + Children(c[i])
      <4>. HIDE DEF h, c
      <4>1. CASE i = 1
        BY <1>4, <2>1, <3>1, <4>1
      <4>2. CASE i = 2
        BY <1>4, <2>1, <3>1, <4>2
      <4>. QED  BY <1>4, <3>1, <4>1, <4>2
    <3>. HIDE DEF h, c
    <3>. QED  BY <1>4, <2>1, <3>1, <3>2 DEF Counts
  <2>. QED  BY <2>2 DEF Balanced
<1>6. (type = "IfElse" => Balanced(c, 1, 2)) /\ (type # "IfElse" => Balanced(c, 1, 1))
  <2>. HIDE DEF c
  <2>1. 3 = 1 + 2 /\ 2 = 1 + 1
    OBVIOUS
  <2>. QED  BY <1>3, <1>5, <2>1
<1>7. ASSUME type \in {"If", "IfElse"}, test = "Test"
      PROVE  Shaped(c)
  <2>. HIDE DEF c
  <2>1. Shape(c, 1)
    BY <1>2, <1>4, <1>7 DEF Shape
  <2>2. Shape(c, 2)
    BY <1>2, <1>4, <1>7 DEF Shape
  <2>3. \A i \in 1 .. Len(c) : i = 1 \/ i = 2
    BY <1>4
  <2>. QED  BY <2>1, <2>2, <2>3 DEF Shaped
<1>. QED  BY <1>1, <1>2, <1>4, <1>6, <1>7

(* A while and a for: their body is a suite.                               *)
LEMMA LoopIs ==
  ASSUME NEW type, NEW test, <<type, test>> \in {<<"WhileLoop", "Test">>, <<"ForLoop", "Iterable">>},
         NEW d, IsSuite(d)
  PROVE  Whole(Clause(type, test) \o d, 1)
<1>. DEFINE c == Clause(type, test)
            e == c \o d
<1>1. \/ type = "WhileLoop" /\ test = "Test"
      \/ type = "ForLoop" /\ test = "Iterable"
  OBVIOUS
<1>2. /\ c \in Seq(NodeSet) /\ Len(c) = 2 /\ c[1][1] = type /\ c[2][1] = test
      /\ Balanced(c, 1, 1)
  BY <1>1, ClauseIs
<1>3. /\ d \in Seq(NodeSet) /\ Balanced(d, 1, 0) /\ Shaped(d)
      /\ Len(d) \in Nat /\ Len(d) > 0 /\ d[1][1] = "StatementList"
  BY LenProperties DEF IsSuite, Whole
<1>. HIDE DEF c
<1>4. /\ e \in Seq(NodeSet) /\ Len(e) = 2 + Len(d)
      /\ e[1] = c[1] /\ e[2] = c[2] /\ e[3] = d[1]
  <2>1. /\ e \in Seq(NodeSet) /\ Len(e) = Len(c) + Len(d)
        /\ \A i \in 1 .. Len(c) + Len(d) : e[i] = IF i <= Len(c) THEN c[i] ELSE d[i - Len(c)]
    BY <1>2, <1>3, ConcatProperties
  <2>2. 1 \in 1 .. 2 + Len(d) /\ 2 \in 1 .. 2 + Len(d) /\ 3 \in 1 .. 2 + Len(d) /\ 3 - 2 = 1
    BY <1>3
  <2>. HIDE DEF e
  <2>. QED  BY <1>2, <2>1, <2>2
<1>5. Balanced(e, 1, 0)
  BY <1>2, <1>3, BalancedConcat
<1>6. Shape(e, 1) /\ Shape(e, 2)
  <2>. HIDE DEF e
  <2>. QED  BY <1>1, <1>2, <1>3, <1>4 DEF Shape
<1>7. ASSUME NEW i \in 1 .. Len(e), i > 2 PROVE Shape(e, i)
  <2>. DEFINE j == i - 2
  <2>1. j \in 1 .. Len(d) /\ i = Len(c) + j
    BY <1>2, <1>3, <1>4, <1>7, SMTT(30)
  <2>2. Shape(d, j)
    BY <1>3, <2>1 DEF Shaped
  <2>. HIDE DEF j
  <2>3. Shape(c \o d, Len(c) + j)
    BY <1>2, <1>3, <2>1, <2>2, ShapeBehind
  <2>. QED  BY <2>1, <2>3, Zenon
<1>8. Shaped(e)
  <2>1. \A i \in 1 .. Len(e) : i = 1 \/ i = 2 \/ i > 2
    BY <1>3, <1>4
  <2>. HIDE DEF e
  <2>. QED  BY <1>6, <1>7, <2>1 DEF Shaped
<1>. QED  BY <1>4, <1>5, <1>8 DEF Whole, c

(* A list comprehension.                                                   *)
LEMMA ListCompIs ==
  ASSUME NEW x \in Nat
  PROVE  Whole(<< <<"ListComp", 0>>, <<"Act", x>>, <<"Comprehension", 0>>, <<"Iterable", 0>>,
                  <<"Pass", 0>> >>, 1)
<1>. DEFINE c == << <<"ListComp", 0>>, <<"Act", x>>, <<"Comprehension", 0>>, <<"Iterable", 0>>,
                    <<"Pass", 0>> >>
            h == [i \in 1 .. 6 |-> IF i = 1 THEN 1 ELSE 6 - i]
<1>1. /\ c \in Seq(NodeSet) /\ Len(c) = 5
      /\ c[1][1] = "ListComp" /\ c[2][1] = "Act" /\ c[3][1] = "Comprehension"
      /\ c[4][1] = "Iterable" /\ c[5][1] = "Pass"
  <2>1. /\ <<"ListComp", 0>> \in NodeSet /\ <<"Act", x>> \in NodeSet /\ <<"Comprehension", 0>> \in NodeSet
        /\ <<"Iterable", 0>> \in NodeSet /\ <<"Pass", 0>> \in NodeSet
    BY DEF NodeSet, Kinds, Compound, Simple
  <2>. QED  BY <2>1
<1>. HIDE DEF c
<1>2. /\ Children(c[1]) = 4 /\ Children(c[2]) = 0 /\ Children(c[3]) = 0
      /\ Children(c[4]) = 0 /\ Children(c[5]) = 0
  <2>1. \A i \in 1 .. 5 : c[i] \in NodeSet
    BY <1>1, ElementOfSeq
  <2>2. /\ c[1] \in NodeSet /\ c[2] \in NodeSet /\ c[3] \in NodeSet /\ c[4] \in NodeSet /\ c[5] \in NodeSet
    BY <2>1
  <2>3. /\ c[2][1] \notin Compound /\ c[3][1] \notin Compound /\ c[4][1] \notin Compound
        /\ c[5][1] \notin Compound
    BY <1>1 DEF Compound
  <2>. QED  BY <1>1, <2>2, <2>3, ChildrenOf
<1>3. \A i \in 1 .. Len(c) : i \in {1, 2, 3, 4, 5}
  BY <1>1
<1>4. Counts(h, c, 1, 0)
  <2>1. h \in [1 .. 6 -> Nat] /\ h[1] = 1 /\ h[6] = 0
    OBVIOUS
  <2>2. ASSUME NEW i \in {1, 2, 3, 4, 5}
        PROVE  h[i] > 0 /\ h[i + 1] = h[i] - 1 + Children(c[i])
    BY <1>2
  <2>. HIDE DEF h
  <2>. QED  BY <1>1, <1>3, <2>1, <2>2 DEF Counts
<1>5. Shaped(c)
  <2>1. Shape(c, 1) /\ Shape(c, 2) /\ Shape(c, 3) /\ Shape(c, 4) /\ Shape(c, 5)
    BY <1>1 DEF Shape
  <2>. QED  BY <1>3, <2>1 DEF Shaped
<1>6. Whole(c, 1)
  BY <1>1, <1>4, <1>5 DEF Whole, Balanced
<1>. QED  BY <1>6 DEF c

(* Compiler.cpp: the code of a statement is one whole node, if that of the *)
(* statements in it is.                                                    *)
LEMMA CompiledIsWhole ==
  ASSUME NEW inner, \A t \in DOMAIN inner : Whole(inner[t], 1),
         NEW s \in Statements(DOMAIN inner)
  PROVE  Whole(Compiled(s, inner), 1)
<1>. DEFINE S == DOMAIN inner
            suite(k) == Suite(s[k], inner)
<1>1. ASSUME NEW b \in Seq(S) PROVE IsSuite(Suite(b, inner))
  BY <1>1, SuiteIsWhole
<1>2. ASSUME NEW d, IsSuite(d)
      PROVE  /\ d \in Seq(NodeSet) /\ Shaped(d)
             /\ Balanced(d, 1, 0) /\ Balanced(d, 2, 1)
  <2>1. d \in Seq(NodeSet) /\ Shaped(d) /\ Balanced(d, 1, 0)
    BY <1>2 DEF IsSuite, Whole
  <2>2. Balanced(d, 1 + 1, 0 + 1)
    BY <2>1, BalancedMore
  <2>3. 1 + 1 = 2 /\ 0 + 1 = 1
    OBVIOUS
  <2>. QED  BY <2>1, <2>2, <2>3
<1>3. CASE s \in (Simple \cup {"ListComp"}) \X Nat
  <2>1. CASE s[1] \in Simple
    <3>1. Compiled(s, inner) = <<s>>
      BY <2>1 DEF Compiled, Simple
    <3>2. s \in NodeSet /\ s[1] \notin Compound
      BY <1>3, <2>1 DEF NodeSet, Kinds, Simple, Compound
    <3>3. /\ <<s>> \in Seq(NodeSet) /\ Balanced(<<s>>, 0 + 1, 0 + Children(s)) /\ Shaped(<<s>>)
      BY <3>2, OneNode DEF Compound
    <3>4. Children(s) = 0 /\ 0 + 1 = 1 /\ 0 + 0 = 0
      BY <3>2, ChildrenOf
    <3>. QED  BY <3>1, <3>3, <3>4 DEF Whole
  <2>2. CASE s[1] = "ListComp"
    <3>1. Compiled(s, inner) =
            << <<"ListComp", 0>>, <<"Act", s[2]>>, <<"Comprehension", 0>>, <<"Iterable", 0>>,
               <<"Pass", 0>> >>
      BY <2>2 DEF Compiled, Simple
    <3>2. s[2] \in Nat
      BY <1>3
    <3>. QED  BY <3>1, <3>2, ListCompIs
  <2>. QED  BY <1>3, <2>1, <2>2
<1>4. CASE s \in {"If", "While", "For"} \X Seq(S)
  <2>1. s[2] \in Seq(S) /\ s[1] \in {"If", "While", "For"}
    BY <1>4
  <2>2. IsSuite(suite(2))
    BY <1>1, <2>1
  <2>. DEFINE d == suite(2)
  <2>. HIDE DEF suite
  <2>3. CASE s[1] = "If"
    <3>. DEFINE c == Clause("If", "Test")
    <3>1. Compiled(s, inner) = c \o d
      BY <2>3 DEF Compiled, Simple, suite
    <3>2. c \in Seq(NodeSet) /\ Balanced(c, 1, 1) /\ Shaped(c)
      BY ClauseIs
    <3>3. d \in Seq(NodeSet) /\ Balanced(d, 1, 0) /\ Shaped(d)
      BY <1>2, <2>2
    <3>. HIDE DEF c, d
    <3>. QED  BY <3>1, <3>2, <3>3, BalancedConcat, ShapedConcat, ConcatProperties DEF Whole
  <2>4. CASE s[1] = "While"
    <3>1. Compiled(s, inner) = Clause("WhileLoop", "Test") \o d
      BY <2>4 DEF Compiled, Simple, suite
    <3>. QED  BY <2>2, <3>1, LoopIs
  <2>5. CASE s[1] = "For"
    <3>1. Compiled(s, inner) = Clause("ForLoop", "Iterable") \o d
      BY <2>5 DEF Compiled, Simple, suite
    <3>. QED  BY <2>2, <3>1, LoopIs
  <2>. QED  BY <2>1, <2>3, <2>4, <2>5
<1>5. CASE s \in {"IfElse", "IfElif"} \X Seq(S) \X Seq(S)
  <2>1. s[2] \in Seq(S) /\ s[3] \in Seq(S) /\ s[1] \in {"IfElse", "IfElif"}
    BY <1>5
  <2>2. IsSuite(suite(2)) /\ IsSuite(suite(3))
    BY <1>1, <2>1
  <2>. HIDE DEF suite
  <2>. DEFINE a == Clause("IfElse", "Test")
              d == suite(2)
              b == Clause("If", "Test")
              e == suite(3)
  <2>3. /\ a \in Seq(NodeSet) /\ Balanced(a, 1, 2) /\ Shaped(a)
        /\ b \in Seq(NodeSet) /\ Balanced(b, 1, 1) /\ Shaped(b)
    BY ClauseIs
  <2>4. /\ d \in Seq(NodeSet) /\ Balanced(d, 2, 1) /\ Shaped(d)
        /\ e \in Seq(NodeSet) /\ Balanced(e, 1, 0) /\ Shaped(e)
    BY <1>2, <2>2
  <2>5. CASE s[1] = "IfElse"
    <3>1. Compiled(s, inner) = a \o d \o e
      BY <2>5 DEF Compiled, Simple, suite
    <3>. HIDE DEF a, b, d, e
    <3>2. a \o d \in Seq(NodeSet) /\ Balanced(a \o d, 1, 1) /\ Shaped(a \o d)
      BY <2>3, <2>4, BalancedConcat, ShapedConcat, ConcatProperties
    <3>3. a \o d \o e \in Seq(NodeSet) /\ Balanced(a \o d \o e, 1, 0) /\ Shaped(a \o d \o e)
      BY <2>4, <3>2, BalancedConcat, ShapedConcat, ConcatProperties
    <3>. QED  BY <3>1, <3>3 DEF Whole
  <2>6. CASE s[1] = "IfElif"
    <3>1. Compiled(s, inner) = a \o d \o b \o e
      BY <2>6 DEF Compiled, Simple, suite
    <3>. HIDE DEF a, b, d, e
    <3>2. a \o d \in Seq(NodeSet) /\ Balanced(a \o d, 1, 1) /\ Shaped(a \o d)
      BY <2>3, <2>4, BalancedConcat, ShapedConcat, ConcatProperties
    <3>3. a \o d \o b \in Seq(NodeSet) /\ Balanced(a \o d \o b, 1, 1) /\ Shaped(a \o d \o b)
      BY <2>3, <3>2, BalancedConcat, ShapedConcat, ConcatProperties
    <3>4. /\ a \o d \o b \o e \in Seq(NodeSet) /\ Balanced(a \o d \o b \o e, 1, 0)
          /\ Shaped(a \o d \o b \o e)
      BY <2>4, <3>3, BalancedConcat, ShapedConcat, ConcatProperties
    <3>. QED  BY <3>1, <3>4 DEF Whole
  <2>. QED  BY <2>1, <2>5, <2>6
<1>. QED  BY <1>3, <1>4, <1>5 DEF Statements

-----------------------------------------------------------------------------
(* The compiler's code for one more level of nesting. *)
Deeper(inner) == [s \in Statements(DOMAIN inner) |-> Compiled(s, inner)]

(* What the recursive definition of Compiler says.                         *)
LEMMA CompilerSteps ==
  \A d \in Nat : Compiler[d] = Deeper(IF d = 0 THEN <<>> ELSE Compiler[d - 1])
<1>. DEFINE Def(g) == g = [d \in Nat |-> Deeper(IF d = 0 THEN <<>> ELSE g[d - 1])]
            Upto(h, m) == h = [d \in 0 .. m |-> Deeper(IF d = 0 THEN <<>> ELSE h[d - 1])]
            Good == {m \in Nat : \E h : Upto(h, m)}
            H(m) == CHOOSE h : Upto(h, m)
            g == [d \in Nat |-> H(d)[d]]
<1>1. Compiler = CHOOSE c : Def(c)
  BY DEF Compiler, Deeper
<1>. HIDE DEF Deeper
<1>2. Nat \subseteq Good
  <2>1. 0 \in Good
    <3>1. Upto([d \in 0 .. 0 |-> Deeper(<<>>)], 0)
      OBVIOUS
    <3>. QED  BY <3>1
  <2>2. ASSUME NEW m \in Nat, m \in Good PROVE m + 1 \in Good
    <3>1. PICK f : Upto(f, m)
      BY <2>2
    <3>. DEFINE h == [d \in 0 .. m + 1 |-> IF d <= m THEN f[d] ELSE Deeper(f[m])]
    <3>2. \A d \in 0 .. m : f[d] = Deeper(IF d = 0 THEN <<>> ELSE f[d - 1])
      BY <3>1
    <3>3. ASSUME NEW d \in 0 .. m + 1
          PROVE  h[d] = Deeper(IF d = 0 THEN <<>> ELSE h[d - 1])
      <4>1. CASE d <= m
        <5>1. h[d] = f[d] /\ (d # 0 => h[d - 1] = f[d - 1])
          BY <4>1
        <5>. HIDE DEF h
        <5>. QED  BY <3>2, <4>1, <5>1
      <4>2. CASE d = m + 1
        <5>1. h[d - 1] = f[m] /\ h[d] = Deeper(f[m]) /\ d # 0
          BY <4>2
        <5>. HIDE DEF h
        <5>. QED  BY <5>1
      <4>. QED  BY <4>1, <4>2
    <3>4. h = [d \in 0 .. m + 1 |-> h[d]]
      OBVIOUS
    <3>5. Upto(h, m + 1)
      <4>. HIDE DEF h
      <4>. QED  BY <3>3, <3>4
    <3>6. \E k : Upto(k, m + 1)
      <4>. HIDE DEF Upto, h
      <4>. QED  BY <3>5
    <3>. QED  BY <3>6
  <2>. HIDE DEF Good
  <2>. QED  BY <2>1, <2>2, SetInduction
<1>3. ASSUME NEW m \in Nat
      PROVE  \A d \in 0 .. m : H(m)[d] = Deeper(IF d = 0 THEN <<>> ELSE H(m)[d - 1])
  <2>1. \E h : Upto(h, m)
    BY <1>2
  <2>2. Upto(H(m), m)
    <3>. HIDE DEF Upto
    <3>. QED  BY <2>1
  <2>. HIDE DEF H
  <2>. QED  BY <2>2
<1>. HIDE DEF H
<1>4. ASSUME NEW m \in Nat, NEW n \in Nat
      PROVE  \A d \in Nat : d <= m /\ d <= n => H(m)[d] = H(n)[d]
  <2>. DEFINE P == {d \in Nat : d <= m /\ d <= n => H(m)[d] = H(n)[d]}
  <2>1. 0 \in P
    BY <1>3
  <2>2. ASSUME NEW d \in Nat, d \in P PROVE d + 1 \in P
    <3>. SUFFICES ASSUME d + 1 <= m, d + 1 <= n PROVE H(m)[d + 1] = H(n)[d + 1]
      OBVIOUS
    <3>1. H(m)[d] = H(n)[d]
      BY <2>2
    <3>2. H(m)[d + 1] = Deeper(H(m)[d]) /\ H(n)[d + 1] = Deeper(H(n)[d])
      BY <1>3
    <3>. QED  BY <3>1, <3>2
  <2>3. Nat \subseteq P
    <3>. HIDE DEF P
    <3>. QED  BY <2>1, <2>2, SetInduction
  <2>. QED  BY <2>3
<1>5. ASSUME NEW d \in Nat
      PROVE  g[d] = Deeper(IF d = 0 THEN <<>> ELSE g[d - 1])
  <2>1. g[d] = Deeper(IF d = 0 THEN <<>> ELSE H(d)[d - 1])
    BY <1>3
  <2>2. ASSUME d # 0 PROVE H(d)[d - 1] = g[d - 1]
    <3>1. d - 1 \in Nat /\ d - 1 <= d /\ d - 1 <= d - 1
      BY <2>2
    <3>2. H(d)[d - 1] = H(d - 1)[d - 1]
      BY <1>4, <3>1
    <3>. QED  BY <3>1, <3>2
  <2>. HIDE DEF g
  <2>. QED  BY <2>1, <2>2
<1>6. Def(g)
  <2>1. g = [d \in Nat |-> g[d]]
    OBVIOUS
  <2>. HIDE DEF g
  <2>. QED  BY <1>5, <2>1
<1>7. Def(Compiler)
  <2>. HIDE DEF Def
  <2>. QED  BY <1>1, <1>6
<1>8. ASSUME NEW c, Def(c)
      PROVE  \A d \in Nat : c[d] = Deeper(IF d = 0 THEN <<>> ELSE c[d - 1])
  BY <1>8
<1>. QED  BY <1>7, <1>8

(* Compiler.cpp: a function's body is compiled to one whole node, a list.  *)
LEMMA CodeIsWhole ==
  ASSUME NEW b \in Bodies
  PROVE  IsSuite(Suite(b, Compiler[Nesting]))
<1>. DEFINE P == {d \in Nat : \A s \in DOMAIN Compiler[d] : Whole(Compiler[d][s], 1)}
<1>1. ASSUME NEW inner, \A t \in DOMAIN inner : Whole(inner[t], 1)
      PROVE  \A s \in DOMAIN Deeper(inner) : Whole(Deeper(inner)[s], 1)
  <2>1. \A s \in Statements(DOMAIN inner) : Whole(Compiled(s, inner), 1)
    BY <1>1, CompiledIsWhole
  <2>. HIDE DEF Compiled, Statements
  <2>. QED  BY <2>1 DEF Deeper
<1>2. 0 \in P
  <2>1. Compiler[0] = Deeper(<<>>)
    BY CompilerSteps
  <2>2. \A t \in DOMAIN <<>> : Whole(<<>>[t], 1)
    OBVIOUS
  <2>3. \A s \in DOMAIN Deeper(<<>>) : Whole(Deeper(<<>>)[s], 1)
    <3>. DEFINE empty == <<>>
    <3>1. \A t \in DOMAIN empty : Whole(empty[t], 1)
      BY <2>2
    <3>. HIDE DEF empty
    <3>2. \A s \in DOMAIN Deeper(empty) : Whole(Deeper(empty)[s], 1)
      BY <1>1, <3>1
    <3>. QED  BY <3>2 DEF empty
  <2>. QED  BY <2>1, <2>3
<1>3. ASSUME NEW d \in Nat, d \in P PROVE d + 1 \in P
  <2>. DEFINE inner == Compiler[d]
  <2>1. Compiler[d + 1] = Deeper(inner)
    <3>1. d + 1 \in Nat /\ d + 1 # 0 /\ (d + 1) - 1 = d
      OBVIOUS
    <3>. QED  BY <3>1, CompilerSteps
  <2>2. \A t \in DOMAIN inner : Whole(inner[t], 1)
    BY <1>3
  <2>. HIDE DEF inner
  <2>3. \A s \in DOMAIN Deeper(inner) : Whole(Deeper(inner)[s], 1)
    BY <1>1, <2>2
  <2>. QED  BY <2>1, <2>3
<1>4. Nesting \in P
  <2>1. Nat \subseteq P
    <3>. HIDE DEF P
    <3>. QED  BY <1>2, <1>3, SetInduction
  <2>. QED  BY <2>1, NestingAssumption
<1>. DEFINE S == DOMAIN Compiler[Nesting]
<1>5. b \in Seq(S)
  BY BodiesAssumption
<1>6. \A s \in S : Whole(Compiler[Nesting][s], 1)
  BY <1>4
<1>. HIDE DEF S
<1>. QED  BY <1>5, <1>6, SuiteIsWhole

-----------------------------------------------------------------------------
(* The code of a function's body, and how many nodes are still to come at  *)
(* each position of it.                                                    *)
Form(c, h) == c \in Seq(NodeSet) /\ Counts(h, c, 1, 0) /\ Shaped(c)

(* The k nodes that start at i end before j. *)
Spans(h, i, k, j) ==
  /\ i \in DOMAIN h /\ j \in DOMAIN h
  /\ i <= j /\ h[i] = h[j] + k
  /\ \A m \in i .. j - 1 : h[m] > h[j]

(* The facts about code that the lemmas about it begin with.               *)
LEMMA FormFacts ==
  ASSUME NEW c, NEW h, Form(c, h)
  PROVE  /\ Len(c) \in Nat /\ DOMAIN h = 1 .. Len(c) + 1
         /\ h \in [1 .. Len(c) + 1 -> Nat] /\ h[Len(c) + 1] = 0
         /\ \A i \in 1 .. Len(c) : /\ c[i] \in NodeSet /\ Children(c[i]) \in Nat
                                   /\ h[i] > 0 /\ h[i + 1] = h[i] - 1 + Children(c[i])
<1>1. c \in Seq(NodeSet) /\ Len(c) \in Nat
  BY LenProperties DEF Form
<1>2. \A i \in 1 .. Len(c) : c[i] \in NodeSet
  BY <1>1, ElementOfSeq
<1>3. \A i \in 1 .. Len(c) : Children(c[i]) \in Nat
  BY <1>2, ChildrenOf
<1>. QED  BY <1>1, <1>2, <1>3 DEF Form, Counts

(* No nodes take no space.                                                 *)
LEMMA SpanNone ==
  ASSUME NEW c, NEW h, Form(c, h), NEW i, NEW j
  PROVE  Spans(h, i, 0, j) <=> i \in 1 .. Len(c) + 1 /\ i = j
<1>1. /\ Len(c) \in Nat /\ DOMAIN h = 1 .. Len(c) + 1 /\ h \in [1 .. Len(c) + 1 -> Nat]
  BY FormFacts
<1>. DEFINE n == Len(c)
<1>. HIDE DEF n
<1>2. ASSUME Spans(h, i, 0, j) PROVE i \in 1 .. n + 1 /\ i = j
  BY <1>1, <1>2 DEF Spans, n
<1>3. ASSUME i \in 1 .. n + 1, i = j PROVE Spans(h, i, 0, j)
  BY <1>1, <1>3 DEF Spans, n
<1>. QED  BY <1>2, <1>3 DEF n

(* Behind the type of the first of k nodes are its children and the others. *)
LEMMA SpanStep ==
  ASSUME NEW c, NEW h, Form(c, h), NEW i, NEW j, NEW k \in Nat, k > 0, Spans(h, i, k, j)
  PROVE  i \in 1 .. Len(c) /\ Spans(h, i + 1, k - 1 + Children(c[i]), j)
<1>. DEFINE n == Len(c)
<1>1. /\ n \in Nat /\ DOMAIN h = 1 .. n + 1 /\ h \in [1 .. n + 1 -> Nat]
      /\ \A x \in 1 .. n : Children(c[x]) \in Nat /\ h[x + 1] = h[x] - 1 + Children(c[x])
  BY FormFacts
<1>. HIDE DEF n
<1>2. /\ i \in 1 .. n + 1 /\ j \in 1 .. n + 1 /\ i <= j /\ h[i] = h[j] + k
      /\ \A m \in i .. j - 1 : h[m] > h[j]
  BY <1>1 DEF Spans
<1>3. i # j
  BY <1>1, <1>2
<1>4. i \in 1 .. n /\ i + 1 \in 1 .. n + 1 /\ i + 1 <= j
  BY <1>1, <1>2, <1>3
<1>5. h[i + 1] = h[j] + (k - 1 + Children(c[i]))
  BY <1>1, <1>2, <1>4, SMTT(30)
<1>6. \A m \in i + 1 .. j - 1 : h[m] > h[j]
  BY <1>1, <1>2
<1>. QED  BY <1>1, <1>2, <1>4, <1>5, <1>6 DEF Spans, n

(* A node ends where its children do.                                      *)
LEMMA SpanBack ==
  ASSUME NEW c, NEW h, Form(c, h), NEW i \in 1 .. Len(c), NEW j, Spans(h, i + 1, Children(c[i]), j)
  PROVE  Spans(h, i, 1, j)
<1>. DEFINE n == Len(c)
<1>1. /\ n \in Nat /\ DOMAIN h = 1 .. n + 1 /\ h \in [1 .. n + 1 -> Nat] /\ i \in 1 .. n
      /\ Children(c[i]) \in Nat /\ h[i + 1] = h[i] - 1 + Children(c[i])
  BY FormFacts
<1>. HIDE DEF n
<1>2. /\ j \in 1 .. n + 1 /\ i + 1 <= j /\ h[i + 1] = h[j] + Children(c[i])
      /\ \A m \in i + 1 .. j - 1 : h[m] > h[j]
  BY <1>1 DEF Spans
<1>3. h[i] = h[j] + 1
  BY <1>1, <1>2, SMTT(30)
<1>4. \A m \in i .. j - 1 : h[m] > h[j]
  <2>1. \A m \in i .. j - 1 : m = i \/ m \in i + 1 .. j - 1
    BY <1>1, <1>2
  <2>. QED  BY <1>1, <1>2, <1>3, <2>1, SMTT(30)
<1>. QED  BY <1>1, <1>2, <1>3, <1>4 DEF Spans, n

(* Of n nodes, what is left behind the first k.                            *)
LEMMA SpanRest ==
  ASSUME NEW c, NEW h, Form(c, h), NEW i, NEW p, NEW e, NEW k \in Nat, NEW n \in Nat, k <= n,
         Spans(h, i, k, p), Spans(h, i, n, e)
  PROVE  Spans(h, p, n - k, e)
<1>. DEFINE l == Len(c)
<1>1. /\ l \in Nat /\ DOMAIN h = 1 .. l + 1 /\ h \in [1 .. l + 1 -> Nat]
  BY FormFacts
<1>. HIDE DEF l
<1>2. /\ i \in 1 .. l + 1 /\ p \in 1 .. l + 1 /\ i <= p /\ h[i] = h[p] + k
      /\ \A m \in i .. p - 1 : h[m] > h[p]
  BY <1>1 DEF Spans
<1>3. /\ e \in 1 .. l + 1 /\ i <= e /\ h[i] = h[e] + n
      /\ \A m \in i .. e - 1 : h[m] > h[e]
  BY <1>1 DEF Spans
<1>4. h[p] = h[e] + (n - k)
  <2>1. h[p] \in Nat /\ h[e] \in Nat
    BY <1>1, <1>2, <1>3
  <2>2. h[i] = h[p] + k /\ h[i] = h[e] + n
    BY <1>2, <1>3
  <2>. QED  BY <2>1, <2>2
<1>5. p <= e
  <2>. SUFFICES ASSUME e < p PROVE FALSE
    BY <1>1, <1>2, <1>3
  <2>1. e \in i .. p - 1
    BY <1>1, <1>2, <1>3
  <2>2. h[e] > h[p] /\ h[e] \in Nat /\ h[p] \in Nat
    BY <1>1, <1>2, <1>3, <2>1
  <2>. QED  BY <1>4, <2>2
<1>6. \A m \in p .. e - 1 : h[m] > h[e]
  BY <1>1, <1>2, <1>3
<1>. QED  BY <1>1, <1>2, <1>3, <1>4, <1>5, <1>6 DEF Spans

(* n nodes behind k others.                                                *)
LEMMA SpanJoin ==
  ASSUME NEW c, NEW h, Form(c, h), NEW i, NEW p, NEW e, NEW k \in Nat, NEW n \in Nat,
         Spans(h, i, k, p), Spans(h, p, n, e)
  PROVE  Spans(h, i, k + n, e)
<1>. DEFINE l == Len(c)
<1>1. /\ l \in Nat /\ DOMAIN h = 1 .. l + 1 /\ h \in [1 .. l + 1 -> Nat]
  BY FormFacts
<1>. HIDE DEF l
<1>2. /\ i \in 1 .. l + 1 /\ p \in 1 .. l + 1 /\ i <= p /\ h[i] = h[p] + k
      /\ \A m \in i .. p - 1 : h[m] > h[p]
  BY <1>1 DEF Spans
<1>3. /\ e \in 1 .. l + 1 /\ p <= e /\ h[p] = h[e] + n
      /\ \A m \in p .. e - 1 : h[m] > h[e]
  BY <1>1 DEF Spans
<1>4. \A m \in i .. e - 1 : h[m] > h[e]
  <2>1. ASSUME NEW m \in i .. e - 1, m < p PROVE h[m] > h[e]
    <3>1. m \in i .. p - 1 /\ m \in 1 .. l + 1
      BY <1>1, <1>2, <1>3, <2>1
    <3>2. h[m] > h[p] /\ h[m] \in Nat /\ h[p] \in Nat /\ h[e] \in Nat
      BY <1>1, <1>2, <1>3, <3>1
    <3>. QED  BY <1>3, <3>2
  <2>2. ASSUME NEW m \in i .. e - 1, m >= p PROVE h[m] > h[e]
    BY <1>2, <1>3, <2>2
  <2>3. \A m \in i .. e - 1 : m < p \/ m >= p
    BY <1>1, <1>2, <1>3
  <2>. QED  BY <2>1, <2>2, <2>3
<1>. QED  BY <1>1, <1>2, <1>3, <1>4 DEF Spans

(* Every node ends: the count falls by one node at a time at most, and it  *)
(* falls to none.                                                          *)
LEMMA SpanEnds ==
  ASSUME NEW c, NEW h, Form(c, h), NEW i \in 1 .. Len(c)
  PROVE  \E j : Spans(h, i, 1, j)
<1>. DEFINE n == Len(c)
            T == {j \in 1 .. n + 1 : j > i /\ h[j] < h[i]}
<1>1. /\ n \in Nat /\ DOMAIN h = 1 .. n + 1 /\ h \in [1 .. n + 1 -> Nat] /\ i \in 1 .. n
      /\ h[n + 1] = 0
      /\ \A x \in 1 .. n : /\ Children(c[x]) \in Nat /\ h[x] > 0
                           /\ h[x + 1] = h[x] - 1 + Children(c[x])
  BY FormFacts
<1>. HIDE DEF n
<1>2. T \subseteq Nat /\ n + 1 \in T
  BY <1>1, SMTT(30)
<1>3. PICK j \in T : \A x \in T : j <= x
  <2>. HIDE DEF T
  <2>. QED  BY <1>2, LeastNumber
<1>. DEFINE k == h[i]
            l == h[j]
<1>4. /\ j \in 1 .. n + 1 /\ j > i /\ l < k /\ k \in Nat /\ l \in Nat
      /\ \A m \in 1 .. n + 1 : h[m] \in Nat
      /\ \A m \in 1 .. n + 1 : m > i /\ h[m] < k => j <= m
  BY <1>1, <1>3, SMTT(30)
<1>. HIDE DEF T, k, l
<1>5. ASSUME NEW m \in i .. j - 1 PROVE h[m] \in Nat /\ h[m] >= k
  <2>1. m \in 1 .. n + 1 /\ ~(j <= m) /\ (m > i \/ m = i)
    BY <1>1, <1>4, SMTT(30)
  <2>2. h[m] \in Nat
    BY <1>4, <2>1
  <2>3. CASE m = i
    BY <1>4, <2>3 DEF k
  <2>4. CASE m > i
    <3>1. ~(h[m] < k)
      BY <1>4, <2>1, <2>4
    <3>. QED  BY <1>4, <2>2, <3>1
  <2>. QED  BY <2>1, <2>3, <2>4
<1>6. k = l + 1
  <2>1. j - 1 \in i .. j - 1 /\ j - 1 \in 1 .. n /\ (j - 1) + 1 = j
    BY <1>1, <1>4
  <2>2. h[j - 1] \in Nat /\ h[j - 1] >= k
    BY <1>5, <2>1
  <2>3. Children(c[j - 1]) \in Nat /\ h[j] = h[j - 1] - 1 + Children(c[j - 1])
    BY <1>1, <2>1
  <2>4. l = h[j - 1] - 1 + Children(c[j - 1])
    BY <2>3 DEF l
  <2>. QED  BY <1>4, <2>2, <2>3, <2>4
<1>7. ASSUME NEW m \in i .. j - 1 PROVE h[m] > l
  <2>1. h[m] \in Nat /\ h[m] >= k
    BY <1>5
  <2>. QED  BY <1>4, <1>6, <2>1
<1>8. Spans(h, i, 1, j)
  <2>1. i \in DOMAIN h /\ j \in DOMAIN h /\ i <= j
    BY <1>1, <1>4
  <2>. QED  BY <1>6, <1>7, <2>1, Zenon DEF Spans, k, l
<1>. QED  BY <1>8

-----------------------------------------------------------------------------
(* Where an activation and those it has called stand, for code c with      *)
(* counts h: they are arguments, so that a state and the next can differ.  *)
Looping == {"TopLevel", "Break", "Continue"}

Calmly == {"None", "Normal"}

Jumps == {"Break", "Continue"}

What(c, f) == c[f.start][1]

Arity(c, f) == Children(c[f.start])

(* What becomes of the loop_state a was called with. *)
From(a) ==
  CASE a = "None"   -> {"None"}
    [] a = "Normal" -> {"Normal"} \cup Jumps
    [] OTHER        -> Looping

(* No statement that could have jumped has been executed yet. *)
Calm(c, f) ==
  /\ What(c, f) \notin {"StatementList", "Act"}
  /\ ~(What(c, f) = "If" /\ f.step = 3)
  /\ ~(What(c, f) = "IfElse" /\ (f.step = 4 \/ (f.step = 3 /\ f.cond)))

Fits(c, h, f) ==
  /\ f \in Activation /\ f.start \in 1 .. Len(c)
  /\ f.step > 0 => What(c, f) \in Compound /\ f.step <= Arity(c, f) + 1
  /\ f.step = 0 => f.loop = "TopLevel"
  /\ Calm(c, f) => f.ls \in Calmly
  /\ f.loop \in Looping
  /\ What(c, f) = "ListComp" /\ f.step = 5 => Spans(h, f.start + 1, 4, f.end)

(* Which of its children an activation calls, counted from none, and the   *)
(* loop_state the child is given.                                          *)
Kid(c, f) == IF What(c, f) = "ListComp" THEN (IF f.step = 2 THEN 2 ELSE 0) ELSE f.step - 1

Given(c, f) ==
  CASE What(c, f) = "StatementList"            -> ChildState(f.ls)
    [] What(c, f) \in {"If", "IfElse"}         -> f.ls
    [] What(c, f) \in {"WhileLoop", "ForLoop"} -> IF f.step = 1 THEN "None" ELSE f.loop
    [] What(c, f) = "ListComp"                 -> IF f.step = 2 THEN f.ls ELSE f.loop

Calling(c, f) ==
  \/ What(c, f) = "StatementList" /\ f.step \in 1 .. Arity(c, f) /\ f.ls \notin Jumps
  \/ What(c, f) \in {"If", "WhileLoop", "ForLoop"} /\ f.step \in {1, 2}
  \/ /\ What(c, f) = "IfElse"
     /\ f.step = 1 \/ (f.step = 2 /\ f.cond) \/ (f.step = 3 /\ ~f.cond)
  \/ What(c, f) = "ListComp" /\ f.step \in {2, 5}

Parent(c, h, f, g) ==
  Calling(c, f) /\ Spans(h, f.start + 1, Kid(c, f), g.start) /\ g.ls \in From(Given(c, f))

(* The cursor may be behind k of its children, t telling whether the       *)
(* function has been terminated: short of where the step says only when    *)
(* one of them jumped, and went back.                                      *)
Behind(c, f, k, t) ==
  CASE What(c, f) \in {"StatementList", "If", "IfElse"} ->
         k <= f.step - 1 /\ (f.ls \notin Jumps => k = f.step - 1)
    [] What(c, f) = "WhileLoop" ->
         IF f.step = 1 THEN k = 1 \/ (k = 0 /\ ~t /\ f.loop = "TopLevel") ELSE k = f.step - 1
    [] What(c, f) = "ForLoop"   -> k = f.step - 1
    [] What(c, f) = "ListComp"  ->
         (f.step \in {1, 2} => k = f.step - 1) /\ (f.step \in {3, 4} => k = f.step)

Stands(c, h, f, p, t) ==
  IF f.step = 0 THEN p = f.start
  ELSE \E k \in 0 .. Arity(c, f) : Spans(h, f.start + 1, k, p) /\ Behind(c, f, k, t)

(* It goes on to execute a child without looking at terminated. *)
Unasked(c, f) ==
  \/ f.step = 0
  \/ What(c, f) \in {"If", "IfElse"} /\ f.step <= 2
  \/ What(c, f) = "IfElse" /\ f.step = 3 /\ ~f.cond
  \/ What(c, f) = "WhileLoop" /\ f.step = 2
  \/ What(c, f) = "ForLoop" /\ f.step = 1
  \/ What(c, f) = "ListComp" /\ f.step <= 2

(* The innermost activation, with n nodes from p on to be skipped. *)
Inmost(c, h, f, p, n, t) ==
  /\ \E q : Spans(h, p, n, q) /\ Stands(c, h, f, q, t)
  /\ n > 0 => f.step > 0
  /\ Unasked(c, f) => ~t

Chained(c, h, s) ==
  /\ \A i \in 1 .. Len(s) : Fits(c, h, s[i])
  /\ \A i \in 1 .. Len(s) - 1 : Parent(c, h, s[i], s[i + 1])

(* A walk that has not ended. *)
Walking(c, h, s, p, n, t) ==
  /\ s \in Seq(Activation) /\ s # <<>> /\ n \in Nat
  /\ s[1].ls = "None" /\ s[1].start = 1
  /\ Chained(c, h, s) /\ Inmost(c, h, s[Len(s)], p, n, t)

-----------------------------------------------------------------------------
(* The innermost activation, and the one that called it.                   *)
LEMMA WalkingFacts ==
  ASSUME NEW c, NEW h, Form(c, h), NEW s, NEW p, NEW n, NEW t, Walking(c, h, s, p, n, t)
  PROVE  /\ Len(s) \in Nat /\ Len(s) >= 1 /\ DOMAIN s = 1 .. Len(s)
         /\ \A i \in 1 .. Len(s) : s[i] \in Activation /\ Fits(c, h, s[i])
         /\ \A i \in 1 .. Len(s) - 1 : Parent(c, h, s[i], s[i + 1])
         /\ \A i \in 1 .. Len(s) : /\ s[i].start \in 1 .. Len(c) /\ c[s[i].start] \in NodeSet
                                   /\ Arity(c, s[i]) \in Nat /\ s[i].step \in Nat
<1>1. s \in Seq(Activation) /\ s # <<>>
  BY DEF Walking
<1>2. Len(s) \in Nat /\ DOMAIN s = 1 .. Len(s) /\ Len(s) >= 1
  BY <1>1, LenProperties, EmptySeq
<1>3. \A i \in 1 .. Len(s) : Fits(c, h, s[i])
  BY DEF Walking, Chained
<1>4. \A i \in 1 .. Len(s) - 1 : Parent(c, h, s[i], s[i + 1])
  BY DEF Walking, Chained
<1>5. \A i \in 1 .. Len(s) : s[i] \in Activation /\ s[i].start \in 1 .. Len(c)
  BY <1>3 DEF Fits
<1>6. \A i \in 1 .. Len(s) : s[i].step \in Nat
  BY <1>5 DEF Activation
<1>7. \A i \in 1 .. Len(s) : c[s[i].start] \in NodeSet /\ Arity(c, s[i]) \in Nat
  BY <1>5, FormFacts DEF Arity
<1>. QED  BY <1>2, <1>3, <1>4, <1>5, <1>6, <1>7

(* Each child but the last is followed by another.                         *)
LEMMA KidStarts ==
  ASSUME NEW c, NEW h, Form(c, h), NEW i \in 1 .. Len(c), NEW k \in Nat, k < Children(c[i]),
         NEW p, Spans(h, i + 1, k, p)
  PROVE  /\ p \in 1 .. Len(c)
         /\ \E q : Spans(h, p, 1, q)
         /\ \A q : Spans(h, p, 1, q) => Spans(h, i + 1, k + 1, q)
<1>. DEFINE a == Children(c[i])
<1>1. a \in Nat /\ k < a
  BY FormFacts
<1>2. PICK j : Spans(h, i, 1, j)
  BY SpanEnds
<1>3. Spans(h, i + 1, a, j)
  <2>1. Spans(h, i + 1, 1 - 1 + a, j)
    BY <1>2, SpanStep
  <2>2. 1 - 1 + a = a
    BY <1>1
  <2>. QED  BY <2>1, <2>2
<1>. HIDE DEF a
<1>4. Spans(h, p, a - k, j) /\ a - k \in Nat /\ a - k > 0
  BY <1>1, <1>3, SpanRest
<1>5. p \in 1 .. Len(c)
  <2>. DEFINE m == a - k
  <2>1. m \in Nat /\ m > 0 /\ Spans(h, p, m, j)
    BY <1>4
  <2>. HIDE DEF m
  <2>. QED  BY <2>1, SpanStep
<1>6. \E q : Spans(h, p, 1, q)
  BY <1>5, SpanEnds
<1>7. \A q : Spans(h, p, 1, q) => Spans(h, i + 1, k + 1, q)
  BY SpanJoin
<1>. QED  BY <1>5, <1>6, <1>7

(* A node without children takes one place.                                *)
LEMMA SpanLeaf ==
  ASSUME NEW c, NEW h, Form(c, h), NEW i \in 1 .. Len(c), Children(c[i]) = 0
  PROVE  Spans(h, i, 1, i + 1) /\ \A j : Spans(h, i, 1, j) => j = i + 1
<1>1. Len(c) \in Nat
  BY FormFacts
<1>2. Spans(h, i + 1, 0, i + 1)
  BY <1>1, SpanNone
<1>3. Spans(h, i, 1, i + 1)
  BY <1>2, SpanBack
<1>4. ASSUME NEW j, Spans(h, i, 1, j) PROVE j = i + 1
  <2>1. Spans(h, i + 1, 1 - 1 + 0, j)
    BY <1>4, SpanStep
  <2>2. Spans(h, i + 1, 0, j)
    BY <2>1
  <2>. QED  BY <2>2, SpanNone
<1>. QED  BY <1>3, <1>4

(* Behind a first child without children is the second.                    *)
LEMMA SpanSecond ==
  ASSUME NEW c, NEW h, Form(c, h), NEW i \in 1 .. Len(c), Children(c[i]) = 0,
         NEW k \in Nat, NEW j, Spans(h, i, k + 1, j)
  PROVE  Spans(h, i + 1, k, j)
<1>1. k + 1 \in Nat /\ k + 1 > 0 /\ k + 1 - 1 + 0 = k
  OBVIOUS
<1>2. Spans(h, i + 1, k + 1 - 1 + 0, j)
  BY <1>1, SpanStep
<1>. QED  BY <1>1, <1>2

(* What the children are of which it matters.                              *)
LEMMA KidKinds ==
  ASSUME NEW c, NEW h, Form(c, h), NEW i \in 1 .. Len(c), NEW p, NEW k \in Nat,
         Spans(h, i + 1, k, p)
  PROVE  /\ c[i][1] \in {"If", "IfElse", "WhileLoop"} /\ k = 0 => c[p][1] = "Test"
         /\ c[i][1] = "ForLoop" /\ k = 0 => c[p][1] = "Iterable"
         /\ c[i][1] \in {"WhileLoop", "ForLoop"} /\ k = 1 => c[p][1] = "StatementList"
         /\ c[i][1] = "ListComp" /\ k = 0 => c[p][1] = "Act"
         /\ c[i][1] = "ListComp" /\ k = 1 => c[p][1] = "Comprehension" /\ Spans(h, i + 1, 2, p + 1)
         /\ c[i][1] = "ListComp" /\ k = 2 => c[p][1] = "Iterable"
<1>. DEFINE n == Len(c)
<1>1. /\ n \in Nat /\ i \in 1 .. n /\ \A x \in 1 .. n : c[x] \in NodeSet
      /\ Shape(c, i)
  BY FormFacts DEF Form, Shaped
<1>2. \A x \in 1 .. n : c[x][1] \in {"Act", "Test", "Iterable", "Comprehension"} => Children(c[x]) = 0
  BY <1>1, ChildrenOf DEF Compound
<1>3. ASSUME k = 0 PROVE p = i + 1
  BY <1>3, SpanNone
<1>4. ASSUME k = 1, i + 1 \in 1 .. n, Children(c[i + 1]) = 0 PROVE p = i + 2
  <2>1. p = (i + 1) + 1
    BY <1>4, SpanLeaf
  <2>. QED  BY <1>1, <2>1
<1>5. CASE c[i][1] \in {"If", "IfElse"}
  <2>1. c[i + 1][1] = "Test"
    BY <1>1, <1>5 DEF Shape
  <2>. QED  BY <1>3, <1>5, <2>1
<1>6. CASE c[i][1] = "WhileLoop"
  <2>1. c[i + 1][1] = "Test" /\ c[i + 2][1] = "StatementList" /\ i + 2 <= n
    BY <1>1, <1>6 DEF Shape
  <2>2. i + 1 \in 1 .. n
    BY <1>1, <2>1
  <2>3. k = 1 => p = i + 2
    BY <1>2, <1>4, <2>1, <2>2
  <2>. QED  BY <1>3, <1>6, <2>1, <2>3
<1>7. CASE c[i][1] = "ForLoop"
  <2>1. c[i + 1][1] = "Iterable" /\ c[i + 2][1] = "StatementList" /\ i + 2 <= n
    BY <1>1, <1>7 DEF Shape
  <2>2. i + 1 \in 1 .. n
    BY <1>1, <2>1
  <2>3. k = 1 => p = i + 2
    BY <1>2, <1>4, <2>1, <2>2
  <2>. QED  BY <1>3, <1>7, <2>1, <2>3
<1>8. CASE c[i][1] = "ListComp"
  <2>1. /\ i + 4 <= n /\ c[i + 1][1] = "Act" /\ c[i + 2][1] = "Comprehension"
        /\ c[i + 3][1] = "Iterable"
    BY <1>1, <1>8 DEF Shape
  <2>2. i + 1 \in 1 .. n /\ i + 2 \in 1 .. n
    BY <1>1, <2>1, SMTT(30)
  <2>3. Children(c[i + 1]) = 0 /\ Children(c[i + 2]) = 0
    BY <1>2, <2>1, <2>2
  <2>4. k = 1 => p = i + 2
    BY <1>4, <2>2, <2>3
  <2>5. ASSUME k = 1 PROVE Spans(h, i + 1, 2, p + 1)
    <3>1. Spans(h, i + 1, 1, i + 2) /\ p = i + 2
      BY <2>4, <2>5
    <3>2. Spans(h, i + 2, 1, (i + 2) + 1)
      BY <2>2, <2>3, SpanLeaf
    <3>3. Spans(h, i + 1, 1 + 1, (i + 2) + 1)
      BY <3>1, <3>2, SpanJoin
    <3>4. 1 + 1 = 2
      OBVIOUS
    <3>. QED  BY <3>1, <3>3, <3>4
  <2>6. ASSUME k = 2 PROVE p = i + 3
    <3>1. Spans(h, i + 1, 1 + 1, p)
      BY <2>6
    <3>2. Spans(h, (i + 1) + 1, 1, p)
      BY <2>2, <2>3, <3>1, SpanSecond
    <3>3. (i + 1) + 1 = i + 2 /\ (i + 2) + 1 = i + 3
      BY <1>1
    <3>. QED  BY <2>2, <2>3, <3>2, <3>3, SpanLeaf
  <2>7. k = 0 => p = i + 1
    BY <1>3
  <2>8. /\ k = 0 => c[p][1] = "Act"
        /\ k = 1 => c[p][1] = "Comprehension" /\ Spans(h, i + 1, 2, p + 1)
        /\ k = 2 => c[p][1] = "Iterable"
    BY <2>1, <2>4, <2>5, <2>6, <2>7
  <2>. QED  BY <1>8, <2>8
<1>. QED  BY <1>5, <1>6, <1>7, <1>8

-----------------------------------------------------------------------------
(* Appending to the activations, and replacing the last, spelled out.      *)
LEMMA Appended ==
  ASSUME NEW s \in Seq(Activation), NEW g \in Activation
  PROVE  /\ Append(s, g) \in Seq(Activation) /\ Append(s, g) # <<>>
         /\ Len(Append(s, g)) = Len(s) + 1
         /\ \A i \in 1 .. Len(s) : Append(s, g)[i] = s[i]
         /\ Append(s, g)[Len(s) + 1] = g
<1>1. Append(s, g) \in Seq(Activation) /\ Len(Append(s, g)) = Len(s) + 1
  BY AppendProperties
<1>2. \A i \in 1 .. Len(s) : Append(s, g)[i] = s[i]
  BY AppendProperties
<1>3. Append(s, g)[Len(s) + 1] = g /\ Append(s, g) # <<>>
  BY AppendProperties
<1>. QED  BY <1>1, <1>2, <1>3

LEMMA Replaced ==
  ASSUME NEW s \in Seq(Activation), NEW m \in Nat, m > 0, m <= Len(s), NEW g \in Activation
  PROVE  LET r == [SubSeq(s, 1, m) EXCEPT ![m] = g]
         IN  /\ r \in Seq(Activation) /\ r # <<>> /\ Len(r) = m /\ r[m] = g
             /\ \A i \in 1 .. m : i # m => r[i] = s[i]
<1>. DEFINE u == SubSeq(s, 1, m)
            r == [u EXCEPT ![m] = g]
<1>1. Len(s) \in Nat /\ DOMAIN s = 1 .. Len(s)
  BY LenProperties
<1>2. u \in Seq(Activation) /\ Len(u) = m /\ \A i \in 1 .. m : u[i] = s[i]
  <2>1. 1 \in 1 .. Len(s) + 1 /\ m \in 0 .. Len(s) /\ \A i \in 1 .. Len(s) : s[i] \in Activation
    BY <1>1, ElementOfSeq
  <2>2. u \in Seq(Activation) /\ Len(u) = IF 1 <= m THEN m - 1 + 1 ELSE 0
    BY <1>1, <2>1, SubSeqProperties
  <2>3. Len(u) = m
    BY <2>2
  <2>4. \A i \in 1 .. m - 1 + 1 : u[i] = s[1 + i - 1]
    BY <1>1, <2>1, SubSeqProperties
  <2>5. \A i \in 1 .. m : u[i] = s[i]
    BY <2>4
  <2>. QED  BY <2>2, <2>3, <2>5
<1>. HIDE DEF u
<1>3. m \in 1 .. Len(u)
  BY <1>2
<1>4. r \in Seq(Activation) /\ Len(r) = m
  BY <1>2, <1>3, ExceptSeq
<1>5. r[m] = g /\ \A i \in 1 .. m : i # m => r[i] = u[i]
  BY <1>2, <1>3, ExceptSeq
<1>6. r # <<>>
  BY <1>4
<1>. QED  BY <1>2, <1>4, <1>5, <1>6 DEF u

(* The same, for the last one. *)
LEMMA ReplacedLast ==
  ASSUME NEW s \in Seq(Activation), s # <<>>, NEW g \in Activation
  PROVE  LET r == [s EXCEPT ![Len(s)] = g]
         IN  /\ r \in Seq(Activation) /\ r # <<>> /\ Len(r) = Len(s) /\ r[Len(s)] = g
             /\ \A i \in 1 .. Len(s) : i # Len(s) => r[i] = s[i]
<1>. DEFINE n == Len(s)
            r == [s EXCEPT ![n] = g]
<1>1. n \in Nat /\ n \in 1 .. n
  BY LenProperties, EmptySeq
<1>2. r \in Seq(Activation) /\ Len(r) = n /\ r[n] = g
  BY <1>1, ExceptSeq
<1>3. \A i \in 1 .. n : i # n => r[i] = s[i]
  BY <1>1, ExceptSeq
<1>4. r # <<>>
  BY <1>1, <1>2
<1>. QED  BY <1>2, <1>3, <1>4

-----------------------------------------------------------------------------
(* A call: the caller is at the child, and nothing has been terminated.    *)
LEMMA CallKeeps ==
  ASSUME NEW c, NEW h, Form(c, h), NEW s, NEW p, NEW n, NEW t, Walking(c, h, s, p, n, t),
         NEW f, f = s[Len(s)], Calling(c, f), NEW q \in 1 .. Len(c), Spans(h, f.start + 1, Kid(c, f), q),
         Given(c, f) \in LoopStates,
         c[q][1] \notin {"StatementList", "Act"} => Given(c, f) \in Calmly,
         ~t
  PROVE  Walking(c, h, Append(s, Begun(q, Given(c, f))), q, 0, t)
<1>. DEFINE g == Begun(q, Given(c, f))
            u == Append(s, g)
<1>1. /\ Len(s) \in Nat /\ Len(s) >= 1 /\ Len(c) \in Nat
      /\ \A i \in 1 .. Len(s) : Fits(c, h, s[i])
      /\ \A i \in 1 .. Len(s) - 1 : Parent(c, h, s[i], s[i + 1])
  BY WalkingFacts, FormFacts
<1>2. g = [start |-> q, ls |-> Given(c, f), loop |-> "TopLevel", step |-> 0, cond |-> FALSE, end |-> 0]
  BY DEF Begun
<1>3. g \in Activation
  BY <1>1, <1>2 DEF Activation, LoopStates
<1>4. /\ g.start = q /\ g.ls = Given(c, f) /\ g.loop = "TopLevel" /\ g.step = 0
  BY <1>2
<1>. HIDE DEF g
<1>5. /\ u \in Seq(Activation) /\ u # <<>> /\ Len(u) = Len(s) + 1
      /\ \A i \in 1 .. Len(s) : u[i] = s[i]
      /\ u[Len(s) + 1] = g
  BY <1>3, Appended DEF Walking
<1>. HIDE DEF u
<1>6. Fits(c, h, g)
  <2>1. Calm(c, g) => g.ls \in Calmly
    BY <1>4 DEF Calm, What
  <2>. QED  BY <1>3, <1>4, <2>1 DEF Fits, Looping
<1>7. Parent(c, h, f, g)
  <2>1. g.ls \in From(Given(c, f))
    BY <1>4 DEF From, LoopStates, Looping, Jumps
  <2>. QED  BY <1>4, <2>1 DEF Parent
<1>8. Chained(c, h, u)
  <2>1. ASSUME NEW i \in 1 .. Len(u) PROVE Fits(c, h, u[i])
    <3>1. i \in 1 .. Len(s) \/ i = Len(s) + 1
      BY <1>1, <1>5, <2>1
    <3>. QED  BY <1>1, <1>5, <1>6, <3>1
  <2>2. ASSUME NEW i \in 1 .. Len(u) - 1 PROVE Parent(c, h, u[i], u[i + 1])
    <3>1. i \in 1 .. Len(s) - 1 \/ i = Len(s)
      BY <1>1, <1>5, <2>2
    <3>2. CASE i = Len(s)
      <4>1. u[i] = f /\ u[i + 1] = g
        BY <1>1, <1>5, <3>2
      <4>. QED  BY <1>7, <4>1
    <3>3. CASE i \in 1 .. Len(s) - 1
      <4>1. i \in 1 .. Len(s) /\ i + 1 \in 1 .. Len(s)
        BY <1>1, <3>3
      <4>2. u[i] = s[i] /\ u[i + 1] = s[i + 1]
        BY <1>5, <4>1
      <4>. QED  BY <1>1, <3>3, <4>2
    <3>. QED  BY <3>1, <3>2, <3>3
  <2>. QED  BY <2>1, <2>2 DEF Chained
<1>9. Inmost(c, h, g, q, 0, t)
  <2>1. Spans(h, q, 0, q)
    BY <1>1, SpanNone
  <2>2. Stands(c, h, g, q, t)
    BY <1>4 DEF Stands
  <2>. QED  BY <1>4, <2>1, <2>2 DEF Inmost
<1>10. u[1].ls = "None" /\ u[1].start = 1 /\ u[Len(u)] = g
  <2>1. 1 \in 1 .. Len(s)
    BY <1>1
  <2>. QED  BY <1>5, <2>1 DEF Walking
<1>. QED  BY <1>5, <1>8, <1>9, <1>10 DEF Walking, u, g

(* The innermost activation goes on as another of the same node and        *)
(* loop_state.                                                             *)
LEMMA GoKeeps ==
  ASSUME NEW c, NEW h, Form(c, h), NEW s, NEW p, NEW n, NEW t, Walking(c, h, s, p, n, t),
         NEW g, Fits(c, h, g), g.start = s[Len(s)].start, g.ls = s[Len(s)].ls,
         NEW q, NEW m \in Nat, Inmost(c, h, g, q, m, t)
  PROVE  Walking(c, h, [s EXCEPT ![Len(s)] = g], q, m, t)
<1>. DEFINE u == [s EXCEPT ![Len(s)] = g]
<1>1. /\ Len(s) \in Nat /\ Len(s) >= 1
      /\ \A i \in 1 .. Len(s) : Fits(c, h, s[i])
      /\ \A i \in 1 .. Len(s) - 1 : Parent(c, h, s[i], s[i + 1])
  BY WalkingFacts
<1>2. g \in Activation /\ s \in Seq(Activation) /\ s # <<>>
  BY DEF Fits, Walking
<1>3. /\ u \in Seq(Activation) /\ u # <<>> /\ Len(u) = Len(s) /\ u[Len(s)] = g
      /\ \A i \in 1 .. Len(s) : i # Len(s) => u[i] = s[i]
  BY <1>2, ReplacedLast
<1>. HIDE DEF u
<1>4. \A i \in 1 .. Len(s) : u[i].ls = s[i].ls /\ u[i].start = s[i].start
  BY <1>3
<1>5. \A i \in 1 .. Len(u) : Fits(c, h, u[i])
  BY <1>1, <1>3
<1>6. ASSUME NEW i \in 1 .. Len(u) - 1 PROVE Parent(c, h, u[i], u[i + 1])
  <2>1. i \in 1 .. Len(s) /\ i # Len(s) /\ i + 1 \in 1 .. Len(s) /\ i \in 1 .. Len(s) - 1
    BY <1>1, <1>3, <1>6
  <2>2. u[i] = s[i] /\ u[i + 1].ls = s[i + 1].ls /\ u[i + 1].start = s[i + 1].start
    BY <1>3, <1>4, <2>1
  <2>3. Parent(c, h, s[i], s[i + 1])
    BY <1>1, <2>1
  <2>. QED  BY <2>2, <2>3 DEF Parent
<1>7. u[1].ls = "None" /\ u[1].start = 1
  <2>1. 1 \in 1 .. Len(s)
    BY <1>1
  <2>. QED  BY <1>4, <2>1 DEF Walking
<1>. QED  BY <1>3, <1>5, <1>6, <1>7 DEF Walking, Chained, u

(* skip_next passes over one node.                                         *)
LEMMA SkipKeeps ==
  ASSUME NEW c, NEW h, Form(c, h), NEW s, NEW p, NEW n, NEW t, Walking(c, h, s, p, n, t), n > 0
  PROVE  /\ p \in 1 .. Len(c)
         /\ Walking(c, h, s, p + 1, n - 1 + Children(c[p]), t)
<1>. DEFINE f == s[Len(s)]
            m == n - 1 + Children(c[p])
<1>1. n \in Nat /\ Inmost(c, h, f, p, n, t)
  BY DEF Walking
<1>2. PICK q : Spans(h, p, n, q) /\ Stands(c, h, f, q, t)
  BY <1>1 DEF Inmost
<1>3. p \in 1 .. Len(c) /\ Spans(h, p + 1, m, q)
  BY <1>1, <1>2, SpanStep
<1>4. m \in Nat
  <2>1. Children(c[p]) \in Nat
    BY <1>3, FormFacts
  <2>. QED  BY <1>1, <2>1
<1>. HIDE DEF m, f
<1>5. Inmost(c, h, f, p + 1, m, t)
  BY <1>1, <1>2, <1>3 DEF Inmost
<1>. QED  BY <1>3, <1>4, <1>5 DEF Walking, f, m

(* A child is skipped: the caller stands in front of it.                   *)
LEMMA PassKeeps ==
  ASSUME NEW c, NEW h, Form(c, h), NEW s, NEW p, NEW n, NEW t, Walking(c, h, s, p, n, t),
         NEW f, f = s[Len(s)], NEW step \in Nat, step > 0, NEW g, g = [f EXCEPT !.step = step],
         Fits(c, h, g), NEW k \in Nat, k < Arity(c, f), Spans(h, f.start + 1, k, p),
         Behind(c, g, k + 1, t), Unasked(c, g) => ~t
  PROVE  Walking(c, h, [s EXCEPT ![Len(s)] = g], p, 1, t)
<1>1. /\ Len(s) \in Nat /\ Len(s) >= 1
      /\ \A i \in 1 .. Len(s) : /\ s[i] \in Activation /\ s[i].start \in 1 .. Len(c)
                                /\ Arity(c, s[i]) \in Nat
  BY WalkingFacts
<1>2. Len(s) \in 1 .. Len(s)
  BY <1>1
<1>3. f \in Activation /\ f.start \in 1 .. Len(c) /\ Arity(c, f) \in Nat
  BY <1>1, <1>2
<1>4. g.start = f.start /\ g.ls = f.ls /\ g.step = step
  BY <1>3 DEF Activation
<1>5. Children(c[f.start]) = Arity(c, f)
  BY DEF Arity
<1>6. PICK q : Spans(h, p, 1, q)
  BY <1>3, <1>5, KidStarts
<1>7. Spans(h, f.start + 1, k + 1, q)
  BY <1>3, <1>5, <1>6, KidStarts
<1>8. k + 1 \in 0 .. Arity(c, g) /\ Arity(c, g) = Arity(c, f)
  BY <1>3, <1>4 DEF Arity
<1>9. Stands(c, h, g, q, t)
  BY <1>4, <1>7, <1>8 DEF Stands
<1>10. Inmost(c, h, g, p, 1, t)
  BY <1>4, <1>6, <1>9 DEF Inmost
<1>. QED  BY <1>4, <1>10, GoKeeps

-----------------------------------------------------------------------------
(* Where an activation stands, kind by kind.                               *)
LEMMA BehindIs ==
  ASSUME NEW c, NEW f, NEW k, NEW t
  PROVE  /\ What(c, f) \in {"StatementList", "If", "IfElse"} =>
              (Behind(c, f, k, t) <=> k <= f.step - 1 /\ (f.ls \notin Jumps => k = f.step - 1))
         /\ What(c, f) = "WhileLoop" =>
              (Behind(c, f, k, t) <=>
                 IF f.step = 1 THEN k = 1 \/ (k = 0 /\ ~t /\ f.loop = "TopLevel")
                               ELSE k = f.step - 1)
         /\ What(c, f) = "ForLoop" => (Behind(c, f, k, t) <=> k = f.step - 1)
         /\ What(c, f) = "ListComp" =>
              (Behind(c, f, k, t) <=> /\ f.step \in {1, 2} => k = f.step - 1
                                      /\ f.step \in {3, 4} => k = f.step)
<1>1. What(c, f) \in {"StatementList", "If", "IfElse"} =>
        (Behind(c, f, k, t) <=> k <= f.step - 1 /\ (f.ls \notin Jumps => k = f.step - 1))
  BY DEF Behind
<1>2. What(c, f) = "WhileLoop" =>
        (Behind(c, f, k, t) <=>
           IF f.step = 1 THEN k = 1 \/ (k = 0 /\ ~t /\ f.loop = "TopLevel") ELSE k = f.step - 1)
  BY DEF Behind
<1>3. What(c, f) = "ForLoop" => (Behind(c, f, k, t) <=> k = f.step - 1)
  BY DEF Behind
<1>4. What(c, f) = "ListComp" =>
        (Behind(c, f, k, t) <=> /\ f.step \in {1, 2} => k = f.step - 1
                                /\ f.step \in {3, 4} => k = f.step)
  BY DEF Behind
<1>. QED  BY <1>1, <1>2, <1>3, <1>4

(* An activation that has changed: which parts are new. *)
LEMMA Stepped ==
  ASSUME NEW e \in Activation, NEW s \in Nat, NEW g, g = [e EXCEPT !.step = s]
  PROVE  /\ g \in Activation /\ g.start = e.start /\ g.end = e.end
         /\ g.step = s /\ g.ls = e.ls /\ g.loop = e.loop /\ g.cond = e.cond
<1>1. g = [start |-> e.start, ls |-> e.ls, loop |-> e.loop, step |-> s, cond |-> e.cond, end |-> e.end]
  BY DEF Activation
<1>. QED  BY <1>1 DEF Activation

LEMMA Looped ==
  ASSUME NEW e \in Activation, NEW o \in LoopStates, NEW g, g = [e EXCEPT !.loop = o]
  PROVE  /\ g \in Activation /\ g.start = e.start /\ g.end = e.end
         /\ g.step = e.step /\ g.ls = e.ls /\ g.loop = o /\ g.cond = e.cond
<1>1. g = [start |-> e.start, ls |-> e.ls, loop |-> o, step |-> e.step, cond |-> e.cond, end |-> e.end]
  BY DEF Activation
<1>. QED  BY <1>1 DEF Activation

(* A node at p returns with r, and the cursor at q if it is not taken back. *)
Comes(c, h, p, r, q, t) ==
  /\ Form(c, h) /\ r \in LoopStates /\ t \in BOOLEAN
  /\ ~Resets(r) => Spans(h, p, 1, q)
  /\ c[p][1] \in {"Test", "Iterable"} => r \in Calmly
  /\ c[p][1] = "Test" => ~t

(* An activation waits for it. *)
Waits(c, h, e, p, r) ==
  /\ Fits(c, h, e) /\ Calling(c, e) /\ Spans(h, e.start + 1, Kid(c, e), p)
  /\ r \in From(Given(c, e))

(* And goes on as g, the cursor at x. *)
Resumes(c, h, e, g, x, t) ==
  /\ Fits(c, h, g) /\ g.start = e.start
  /\ g.ls \in From(e.ls) /\ (e.ls \in Jumps => g.ls = e.ls)
  /\ Inmost(c, h, g, x, 0, t)

(* A caller goes on when its child, at p, has returned with r: behind it,  *)
(* or in front of it where the child took the cursor back.                 *)
LEMMA ResumeKeeps ==
  ASSUME NEW c, NEW h, NEW p, NEW r, NEW q, NEW t, Comes(c, h, p, r, q, t),
         NEW e, Waits(c, h, e, p, r), NEW b \in BOOLEAN
  PROVE  Resumes(c, h, e, Resumed(What(c, e), e, r, b), IF Resets(r) THEN p ELSE q, t)
<1>. DEFINE e2 == Resumed(What(c, e), e, r, b)
            x == IF Resets(r) THEN p ELSE q
<1>. SUFFICES /\ Fits(c, h, e2) /\ e2.start = e.start
              /\ e2.ls \in From(e.ls) /\ (e.ls \in Jumps => e2.ls = e.ls)
              /\ Inmost(c, h, e2, x, 0, t)
  BY Zenon DEF Resumes
<1>0. /\ Form(c, h) /\ r \in LoopStates /\ t \in BOOLEAN
      /\ ~Resets(r) => Spans(h, p, 1, q)
      /\ c[p][1] \in {"Test", "Iterable"} => r \in Calmly
      /\ c[p][1] = "Test" => ~t
      /\ Fits(c, h, e) /\ Calling(c, e) /\ Spans(h, e.start + 1, Kid(c, e), p)
      /\ r \in From(Given(c, e))
  BY DEF Comes, Waits
<1>a. e2 = Resumed(What(c, e), e, r, b) /\ x = IF Resets(r) THEN p ELSE q
  OBVIOUS
<1>. HIDE DEF e2, x
<1>. USE <1>0, <1>a
<1>. DEFINE k == Kid(c, e)
            a == Arity(c, e)
            w == What(c, e)
<1>1. /\ e \in Activation /\ e.start \in 1 .. Len(c)
      /\ e.step > 0 => w \in Compound /\ e.step <= a + 1
      /\ Calm(c, e) => e.ls \in Calmly
      /\ e.loop \in Looping
      /\ w = "ListComp" /\ e.step = 5 => Spans(h, e.start + 1, 4, e.end)
  BY DEF Fits
<1>2. /\ e.start \in Nat /\ e.ls \in LoopStates /\ e.loop \in LoopStates /\ e.step \in Nat
      /\ e.cond \in BOOLEAN /\ e.end \in Nat
  BY <1>1 DEF Activation
<1>3. /\ a \in Nat
      /\ w = "StatementList" => a = c[e.start][2]
      /\ w \in {"If", "WhileLoop", "ForLoop"} => a = 2
      /\ w = "IfElse" => a = 3
      /\ w = "ListComp" => a = 4
  BY <1>1, FormFacts, ChildrenOf DEF Arity, What
<1>4. k \in Nat /\ k < a
  BY <1>2, <1>3 DEF Calling, Kid
<1>5. /\ p \in 1 .. Len(c) /\ Spans(h, e.start + 1, k, p)
      /\ ~Resets(r) => Spans(h, e.start + 1, k + 1, q)
  <2>1. Children(c[e.start]) = a
    BY DEF Arity
  <2>2. Spans(h, e.start + 1, k, p)
    OBVIOUS
  <2>. HIDE DEF k, a
  <2>. QED  BY <1>1, <1>4, <2>1, <2>2, KidStarts
<1>6. /\ w \in {"If", "IfElse", "WhileLoop"} /\ k = 0 => c[p][1] = "Test"
      /\ w = "ForLoop" /\ k = 0 => c[p][1] = "Iterable"
      /\ w = "ListComp" /\ k = 2 => c[p][1] = "Iterable"
  <2>1. w = c[e.start][1]
    BY DEF What
  <2>. HIDE DEF w, k
  <2>. QED  BY <1>1, <1>4, <1>5, <2>1, KidKinds
<1>. DEFINE Kept(g) == /\ g \in Activation /\ g.start = e.start /\ g.loop \in Looping
                       /\ g.end = e.end
                       /\ g.step > 0 /\ g.step <= a + 1
                       /\ (Calm(c, g) => g.ls \in Calmly)
                       /\ (w = "ListComp" /\ g.step = 5 => e.step = 5)
                       /\ g.ls \in From(e.ls) /\ (e.ls \in Jumps => g.ls = e.ls)
                       /\ Behind(c, g, IF Resets(r) THEN k ELSE k + 1, t)
                       /\ (Unasked(c, g) => ~t)
<1>7. SUFFICES Kept(e2)
  <2>1. What(c, e2) = w /\ Arity(c, e2) = a
    BY <1>7 DEF What, Arity
  <2>2. Fits(c, h, e2)
    <3>1. w \in Compound
      BY DEF Calling, Compound
    <3>2. w = "ListComp" /\ e2.step = 5 => Spans(h, e2.start + 1, 4, e2.end)
      BY <1>1, <1>7
    <3>. HIDE DEF w, a, k
    <3>. QED  BY <1>1, <1>2, <1>7, <2>1, <3>1, <3>2 DEF Fits
  <2>3. Stands(c, h, e2, x, t)
    <3>1. CASE Resets(r)
      <4>1. k \in 0 .. a /\ Spans(h, e2.start + 1, k, x) /\ Behind(c, e2, k, t)
        BY <1>3, <1>4, <1>5, <1>7, <3>1
      <4>. HIDE DEF k, a
      <4>. QED  BY <1>7, <2>1, <4>1 DEF Stands
    <3>2. CASE ~Resets(r)
      <4>1. k + 1 \in 0 .. a /\ Spans(h, e2.start + 1, k + 1, x) /\ Behind(c, e2, k + 1, t)
        BY <1>3, <1>4, <1>5, <1>7, <3>2
      <4>. HIDE DEF k, a
      <4>. QED  BY <1>7, <2>1, <4>1 DEF Stands
    <3>. QED  BY <3>1, <3>2
  <2>4. Spans(h, x, 0, x)
    <3>1. x \in DOMAIN h
      BY <1>5 DEF Spans
    <3>2. DOMAIN h = 1 .. Len(c) + 1
      BY FormFacts
    <3>. QED  BY <3>1, <3>2, SpanNone
  <2>5. Inmost(c, h, e2, x, 0, t)
    <3>. HIDE DEF w, a, k
    <3>. QED  BY <1>7, <2>3, <2>4 DEF Inmost
  <2>. QED  BY <1>7, <2>2, <2>5
<1>8. \A ls : Resets(ls) <=> ls \notin {"Normal", "None"}
  BY DEF Resets
<1>9. CASE w = "StatementList"
  <2>1. k = e.step - 1 /\ e.step \in 1 .. a /\ e.ls \notin Jumps
    BY <1>9 DEF Calling, Kid
  <2>2. r \in From(ChildState(e.ls))
    BY <1>9 DEF Given
  <2>3. e2 = [e EXCEPT !.step = @ + 1, !.ls = Inherited(@, r)]
    BY <1>9 DEF Resumed
  <2>. DEFINE l == Inherited(e.ls, r)
  <2>4. l \in From(e.ls) /\ l \in LoopStates /\ (Resets(r) <=> l \in Jumps)
    BY <1>2, <1>8, <2>1, <2>2 DEF From, ChildState, Inherited, LoopStates, Looping, Jumps
  <2>5. /\ e2 \in Activation /\ e2.start = e.start /\ e2.loop = e.loop /\ e2.end = e.end
        /\ e2.step = e.step + 1 /\ e2.ls = l
    <3>1. e.step + 1 \in Nat
      BY <1>2
    <3>. HIDE DEF l
    <3>. QED  BY <1>1, <1>2, <2>3, <2>4, <3>1 DEF Activation, l
  <2>6. What(c, e2) = "StatementList"
    BY <1>9, <2>5 DEF What
  <2>. HIDE DEF l
  <2>7. Behind(c, e2, IF Resets(r) THEN k ELSE k + 1, t)
    BY <1>2, <2>1, <2>4, <2>5, <2>6, BehindIs
  <2>8. ~Calm(c, e2) /\ ~Unasked(c, e2)
    BY <1>2, <2>5, <2>6 DEF Calm, Unasked
  <2>. QED  BY <1>1, <1>2, <1>3, <1>9, <2>1, <2>4, <2>5, <2>7, <2>8
<1>10. CASE w \in {"If", "IfElse"}
  <2>1. /\ k = e.step - 1 /\ e.step \in 1 .. 3 /\ (w = "If" => e.step \in {1, 2})
        /\ w = "IfElse" /\ e.step = 2 => e.cond
        /\ w = "IfElse" /\ e.step = 3 => ~e.cond
    BY <1>2, <1>10 DEF Calling, Kid
  <2>2. e.ls \in Calmly /\ r \in From(e.ls)
    <3>1. Calm(c, e)
      BY <1>10, <2>1 DEF Calm
    <3>. QED  BY <1>1, <1>10, <3>1 DEF Given
  <2>3. e2 = [e EXCEPT !.step = @ + 1, !.ls = r, !.cond = IF e.step = 1 THEN b ELSE @]
    BY <1>10 DEF Resumed
  <2>4. /\ e2 \in Activation /\ e2.start = e.start /\ e2.loop = e.loop /\ e2.end = e.end
        /\ e2.step = e.step + 1 /\ e2.ls = r /\ (e.step # 1 => e2.cond = e.cond)
    <3>. DEFINE d == IF e.step = 1 THEN b ELSE e.cond
    <3>1. d \in BOOLEAN /\ (e.step # 1 => d = e.cond) /\ e.step + 1 \in Nat
      BY <1>2
    <3>2. e2 = [e EXCEPT !.step = @ + 1, !.ls = r, !.cond = d]
      BY <2>3
    <3>. HIDE DEF d
    <3>. QED  BY <1>1, <1>2, <3>1, <3>2 DEF Activation
  <2>5. What(c, e2) = w
    BY <2>4 DEF What
  <2>6. Resets(r) <=> r \in Jumps
    BY <1>8, <2>2 DEF From, Calmly, Jumps
  <2>7. Behind(c, e2, IF Resets(r) THEN k ELSE k + 1, t)
    <3>. DEFINE m == IF Resets(r) THEN k ELSE k + 1
    <3>1. m \in Nat /\ m <= e2.step - 1 /\ (~Resets(r) => m = e2.step - 1)
      BY <2>1, <2>4
    <3>2. e2.ls \notin Jumps => m = e2.step - 1
      BY <2>4, <2>6, <3>1
    <3>3. What(c, e2) \in {"StatementList", "If", "IfElse"}
      BY <1>10, <2>5
    <3>4. Behind(c, e2, m, t)
      <4>. HIDE DEF m, k, w
      <4>. QED  BY <3>1, <3>2, <3>3, BehindIs
    <3>. QED  BY <3>4
  <2>8. e.step = 1 => r \in Calmly /\ ~t
    BY <1>6, <1>10, <2>1
  <2>9. Calm(c, e2) => e.step = 1
    BY <1>2, <1>10, <2>1, <2>4, <2>5 DEF Calm
  <2>10. Unasked(c, e2) => e.step = 1
    BY <1>2, <1>10, <2>1, <2>4, <2>5 DEF Unasked
  <2>11. e2.ls \in From(e.ls) /\ (e.ls \in Jumps => e2.ls = e.ls)
    BY <2>2, <2>4 DEF Calmly, Jumps
  <2>12. e2.step > 0 /\ e2.step <= a + 1 /\ w # "ListComp"
    BY <1>2, <1>3, <1>10, <2>1, <2>4
  <2>. QED  BY <1>1, <2>4, <2>7, <2>8, <2>9, <2>10, <2>11, <2>12
<1>11. CASE w = "WhileLoop"
  <2>1. /\ k = e.step - 1 /\ e.step \in {1, 2}
        /\ e.step = 1 => r \in From("None")
        /\ e.step = 2 => r \in From(e.loop)
    BY <1>11 DEF Calling, Kid, Given
  <2>2. e2 = IF e.step = 1 THEN [e EXCEPT !.step = 2, !.cond = b]
                           ELSE [e EXCEPT !.step = 1, !.loop = r]
    BY <1>11 DEF Resumed
  <2>3. (e.step = 1 => r = "None") /\ (e.step = 2 => r \in Looping)
    BY <1>1, <2>1 DEF From, Looping
  <2>4. /\ e2 \in Activation /\ e2.start = e.start /\ e2.end = e.end
        /\ e2.step = 3 - e.step /\ e2.ls = e.ls /\ e2.loop \in Looping
    <3>1. CASE e.step = 1
      <4>1. e2 = [e EXCEPT !.step = 2, !.cond = b]
        BY <2>2, <3>1
      <4>2. /\ e2 \in Activation /\ e2.start = e.start /\ e2.end = e.end
            /\ e2.step = 2 /\ e2.ls = e.ls /\ e2.loop = e.loop
        <5>1. e2 = [start |-> e.start, ls |-> e.ls, loop |-> e.loop, step |-> 2, cond |-> b, end |-> e.end]
          BY <1>1, <4>1 DEF Activation
        <5>. QED  BY <1>2, <5>1 DEF Activation
      <4>. QED  BY <1>1, <3>1, <4>2
    <3>2. CASE e.step = 2
      <4>1. e2 = [e EXCEPT !.step = 1, !.loop = r]
        BY <2>2, <3>2
      <4>2. /\ e2 \in Activation /\ e2.start = e.start /\ e2.end = e.end
            /\ e2.step = 1 /\ e2.ls = e.ls /\ e2.loop = r
        <5>1. e2 = [start |-> e.start, ls |-> e.ls, loop |-> r, step |-> 1, cond |-> e.cond, end |-> e.end]
          BY <1>1, <4>1 DEF Activation
        <5>. QED  BY <1>2, <5>1 DEF Activation
      <4>. QED  BY <2>3, <3>2, <4>2
    <3>. QED  BY <2>1, <3>1, <3>2
  <2>5. What(c, e2) = "WhileLoop"
    BY <1>11, <2>4 DEF What
  <2>6. (IF Resets(r) THEN k ELSE k + 1) = 1
    BY <1>8, <2>1, <2>3 DEF Looping
  <2>7. Behind(c, e2, 1, t)
    BY <2>1, <2>4, <2>5, BehindIs
  <2>8. e.ls \in Calmly
    BY <1>1, <1>11 DEF Calm
  <2>9. Unasked(c, e2) => ~t
    BY <1>6, <1>11, <2>1, <2>4, <2>5 DEF Unasked
  <2>10. e2.ls \in From(e.ls)
    BY <2>4, <2>8 DEF From, Calmly
  <2>11. e2.step > 0 /\ e2.step <= a + 1 /\ w # "ListComp"
    BY <1>3, <1>11, <2>1, <2>4
  <2>. QED  BY <1>1, <2>4, <2>6, <2>7, <2>8, <2>9, <2>10, <2>11
<1>12. CASE w = "ForLoop"
  <2>1. /\ k = e.step - 1 /\ e.step \in {1, 2}
        /\ e.step = 1 => r \in From("None")
        /\ e.step = 2 => r \in From(e.loop)
    BY <1>12 DEF Calling, Kid, Given
  <2>2. e2 = IF e.step = 1 THEN [e EXCEPT !.step = 2] ELSE [e EXCEPT !.loop = r]
    BY <1>12 DEF Resumed
  <2>3. (e.step = 1 => r = "None") /\ (e.step = 2 => r \in Looping)
    BY <1>1, <2>1 DEF From, Looping
  <2>4. /\ e2 \in Activation /\ e2.start = e.start /\ e2.end = e.end
        /\ e2.step = 2 /\ e2.ls = e.ls /\ e2.loop \in Looping
    <3>1. CASE e.step = 1
      <4>1. e2 = [e EXCEPT !.step = 2]
        BY <2>2, <3>1
      <4>2. /\ e2 \in Activation /\ e2.start = e.start /\ e2.end = e.end
            /\ e2.step = 2 /\ e2.ls = e.ls /\ e2.loop = e.loop
        <5>1. e2 = [start |-> e.start, ls |-> e.ls, loop |-> e.loop, step |-> 2, cond |-> e.cond, end |-> e.end]
          BY <1>1, <4>1 DEF Activation
        <5>. QED  BY <1>2, <5>1 DEF Activation
      <4>. QED  BY <1>1, <4>2
    <3>2. CASE e.step = 2
      <4>1. e2 = [e EXCEPT !.loop = r]
        BY <2>2, <3>2
      <4>2. /\ e2 \in Activation /\ e2.start = e.start /\ e2.end = e.end
            /\ e2.step = 2 /\ e2.ls = e.ls /\ e2.loop = r
        BY <1>1, <1>2, <3>2, <4>1, Looped
      <4>. QED  BY <2>3, <3>2, <4>2
    <3>. QED  BY <2>1, <3>1, <3>2
  <2>5. What(c, e2) = "ForLoop"
    BY <1>12, <2>4 DEF What
  <2>6. (IF Resets(r) THEN k ELSE k + 1) = 1
    BY <1>8, <2>1, <2>3 DEF Looping
  <2>7. Behind(c, e2, 1, t)
    BY <2>4, <2>5, BehindIs
  <2>8. e.ls \in Calmly
    BY <1>1, <1>12 DEF Calm
  <2>9. ~Unasked(c, e2)
    BY <1>12, <2>1, <2>4, <2>5 DEF Unasked
  <2>10. e2.ls \in From(e.ls)
    BY <2>4, <2>8 DEF From, Calmly
  <2>11. e2.step > 0 /\ e2.step <= a + 1 /\ w # "ListComp"
    BY <1>3, <1>12, <2>1, <2>4
  <2>. QED  BY <1>1, <2>4, <2>6, <2>7, <2>8, <2>9, <2>10, <2>11
<1>13. CASE w = "ListComp"
  <2>1. /\ e.step \in {2, 5} /\ k = (IF e.step = 2 THEN 2 ELSE 0)
        /\ e.step = 2 => r \in From(e.ls)
        /\ e.step = 5 => r \in From(e.loop)
    BY <1>13 DEF Calling, Kid, Given
  <2>2. e2 = IF e.step = 2 THEN [e EXCEPT !.step = 3, !.ls = r] ELSE [e EXCEPT !.loop = r]
    BY <1>13 DEF Resumed
  <2>3. (e.step = 2 => r \in Calmly) /\ (e.step = 5 => r \in Looping)
    BY <1>1, <1>6, <1>13, <2>1 DEF From, Looping
  <2>4. /\ e2 \in Activation /\ e2.start = e.start /\ e2.end = e.end
        /\ e2.step = (IF e.step = 2 THEN 3 ELSE 5) /\ e2.loop \in Looping
        /\ e2.ls = (IF e.step = 2 THEN r ELSE e.ls)
    <3>1. CASE e.step = 2
      <4>1. e2 = [e EXCEPT !.step = 3, !.ls = r]
        BY <2>2, <3>1
      <4>2. /\ e2 \in Activation /\ e2.start = e.start /\ e2.end = e.end
            /\ e2.step = 3 /\ e2.ls = r /\ e2.loop = e.loop
        <5>1. e2 = [start |-> e.start, ls |-> r, loop |-> e.loop, step |-> 3, cond |-> e.cond, end |-> e.end]
          BY <1>1, <4>1 DEF Activation
        <5>. QED  BY <1>2, <5>1 DEF Activation
      <4>. QED  BY <1>1, <3>1, <4>2
    <3>2. CASE e.step = 5
      <4>1. e2 = [e EXCEPT !.loop = r]
        BY <2>2, <3>2
      <4>2. /\ e2 \in Activation /\ e2.start = e.start /\ e2.end = e.end
            /\ e2.step = 5 /\ e2.ls = e.ls /\ e2.loop = r
        BY <1>1, <1>2, <3>2, <4>1, Looped
      <4>. QED  BY <2>3, <3>2, <4>2
    <3>. QED  BY <2>1, <3>1, <3>2
  <2>5. What(c, e2) = "ListComp"
    BY <1>13, <2>4 DEF What
  <2>6. e.step = 2 => (IF Resets(r) THEN k ELSE k + 1) = 3
    BY <1>8, <2>1, <2>3 DEF Calmly
  <2>7. Behind(c, e2, IF Resets(r) THEN k ELSE k + 1, t)
    BY <1>13, <2>1, <2>4, <2>5, <2>6, BehindIs
  <2>8. e.ls \in Calmly
    BY <1>1, <1>13 DEF Calm
  <2>9. ~Unasked(c, e2)
    BY <1>13, <2>1, <2>4, <2>5 DEF Unasked
  <2>10. e2.ls \in From(e.ls) /\ e2.ls \in Calmly /\ (e.ls \notin Jumps)
    BY <2>1, <2>3, <2>4, <2>8 DEF From, Calmly, Jumps
  <2>11. e2.step > 0 /\ e2.step <= a + 1 /\ (e2.step = 5 => e.step = 5)
    BY <1>3, <1>13, <2>1, <2>4
  <2>. QED  BY <1>1, <2>4, <2>7, <2>8, <2>9, <2>10, <2>11
<1>. QED  BY <1>9, <1>10, <1>11, <1>12, <1>13 DEF Calling

-----------------------------------------------------------------------------
(* The innermost activation returns. *)
Leaves(c, h, s, r, q, t) ==
  /\ \E p, u : Walking(c, h, s, p, 0, u)
  /\ LET f == s[Len(s)]
     IN  (r = f.ls \/ (r \in Jumps /\ f.ls # "None")) /\ Comes(c, h, f.start, r, q, t)

Popped(c, s, r, b) ==
  LET m == Len(s) - 1
  IN  [SubSeq(s, 1, m) EXCEPT ![m] = Resumed(What(c, s[m]), s[m], r, b)]

(* A return: the caller goes on, and without one the walk has ended behind *)
(* the last node.                                                          *)
LEMMA ReturnKeeps ==
  ASSUME NEW c, NEW h, NEW s, NEW r, NEW q, NEW t, Leaves(c, h, s, r, q, t), NEW b \in BOOLEAN
  PROVE  /\ Len(s) = 1 => /\ (IF Resets(r) THEN s[Len(s)].start ELSE q) = Len(c) + 1
                          /\ r = "None" /\ s[Len(s)].ls = "None"
         /\ Len(s) > 1 => Walking(c, h, Popped(c, s, r, b),
                                  IF Resets(r) THEN s[Len(s)].start ELSE q, 0, t)
<1>. DEFINE f == s[Len(s)]
            x == IF Resets(r) THEN f.start ELSE q
<1>. SUFFICES /\ Len(s) = 1 => x = Len(c) + 1 /\ r = "None" /\ f.ls = "None"
              /\ Len(s) > 1 => Walking(c, h, Popped(c, s, r, b), x, 0, t)
  OBVIOUS
<1>0. PICK p, u : Walking(c, h, s, p, 0, u)
  BY DEF Leaves
<1>a. /\ r = f.ls \/ (r \in Jumps /\ f.ls # "None")
      /\ Comes(c, h, f.start, r, q, t)
      /\ Form(c, h) /\ (~Resets(r) => Spans(h, f.start, 1, q))
  BY DEF Leaves, Comes
<1>b. f = s[Len(s)] /\ x = IF Resets(r) THEN f.start ELSE q
  OBVIOUS
<1>. HIDE DEF f, x
<1>. USE <1>0, <1>a, <1>b
<1>1. /\ Len(s) \in Nat /\ Len(s) >= 1
      /\ \A i \in 1 .. Len(s) : s[i] \in Activation /\ Fits(c, h, s[i])
      /\ \A i \in 1 .. Len(s) - 1 : Parent(c, h, s[i], s[i + 1])
      /\ s \in Seq(Activation) /\ s[1].ls = "None" /\ s[1].start = 1
  BY WalkingFacts DEF Walking
<1>2. /\ Len(c) \in Nat /\ DOMAIN h = 1 .. Len(c) + 1 /\ h[Len(c) + 1] = 0
      /\ h \in [1 .. Len(c) + 1 -> Nat] /\ \A i \in 1 .. Len(c) : h[i] > 0
  BY FormFacts
<1>3. ASSUME Len(s) = 1 PROVE x = Len(c) + 1 /\ r = "None" /\ f.ls = "None"
  <2>1. f.ls = "None" /\ f.start = 1
    BY <1>1, <1>3
  <2>2. r = "None"
    BY <2>1
  <2>3. x = q /\ Spans(h, 1, 1, q)
    BY <2>1, <2>2 DEF Resets
  <2>4. h[1] = 1
    BY DEF Form, Counts
  <2>5. q \in 1 .. Len(c) + 1 /\ h[q] = 0
    <3>1. q \in 1 .. Len(c) + 1 /\ h[1] = h[q] + 1
      BY <1>2, <2>3 DEF Spans
    <3>2. h[q] \in Nat
      BY <1>2, <3>1
    <3>. QED  BY <2>4, <3>1, <3>2
  <2>6. q = Len(c) + 1
    BY <1>2, <2>5
  <2>. QED  BY <2>1, <2>2, <2>3, <2>6
<1>4. ASSUME Len(s) > 1
      PROVE  Walking(c, h, Popped(c, s, r, b), x, 0, t)
  <2>. DEFINE m == Len(s) - 1
              e == s[m]
              g == Resumed(What(c, e), e, r, b)
              w == [SubSeq(s, 1, m) EXCEPT ![m] = g]
  <2>1. /\ m \in Nat /\ m > 0 /\ m <= Len(s) /\ m \in 1 .. Len(s) /\ m \in 1 .. Len(s) - 1
        /\ m + 1 = Len(s)
    BY <1>1, <1>4
  <2>2. Fits(c, h, e) /\ Parent(c, h, e, f)
    BY <1>1, <2>1
  <2>3. /\ Calling(c, e) /\ Spans(h, e.start + 1, Kid(c, e), f.start)
        /\ f.ls \in From(Given(c, e))
    BY <2>2 DEF Parent
  <2>. HIDE DEF e
  <2>4. r \in From(Given(c, e))
    BY <2>3 DEF From, Jumps, Looping
  <2>0. Waits(c, h, e, f.start, r)
    BY <2>2, <2>3, <2>4 DEF Waits
  <2>5. /\ Fits(c, h, g) /\ g.start = e.start
        /\ g.ls \in From(e.ls) /\ (e.ls \in Jumps => g.ls = e.ls)
        /\ Inmost(c, h, g, x, 0, t)
    <3>1. Resumes(c, h, e, g, IF Resets(r) THEN f.start ELSE q, t)
      BY <2>0, ResumeKeeps, Zenon
    <3>2. Resumes(c, h, e, g, x, t)
      BY <3>1
    <3>. HIDE DEF g
    <3>. QED  BY <3>2 DEF Resumes
  <2>. HIDE DEF g, m
  <2>6. g \in Activation
    BY <2>5 DEF Fits
  <2>7. /\ w \in Seq(Activation) /\ w # <<>> /\ Len(w) = m /\ w[m] = g
        /\ \A i \in 1 .. m : i # m => w[i] = s[i]
    BY <1>1, <2>1, <2>6, Replaced
  <2>. HIDE DEF w
  <2>8. e.ls \in LoopStates
    <3>1. e \in Activation
      BY <2>2 DEF Fits
    <3>. QED  BY <3>1 DEF Activation
  <2>9. \A a : e.ls \in From(a) => g.ls \in From(a)
    BY <2>5, <2>8 DEF From, Jumps, Looping, LoopStates
  <2>10. \A i \in 1 .. m : Fits(c, h, w[i])
    <3>1. \A i \in 1 .. m : i \in 1 .. Len(s)
      BY <1>1, <2>1
    <3>. QED  BY <1>1, <2>5, <2>7, <3>1
  <2>11. ASSUME NEW i \in 1 .. m - 1 PROVE Parent(c, h, w[i], w[i + 1])
    <3>1. /\ i \in 1 .. m /\ i # m /\ i + 1 \in 1 .. m /\ i \in 1 .. Len(s) - 1
      BY <1>1, <2>1, <2>11
    <3>2. w[i] = s[i] /\ Parent(c, h, s[i], s[i + 1])
      BY <1>1, <2>7, <3>1 DEF e
    <3>3. CASE i + 1 # m
      BY <2>7, <3>1, <3>2, <3>3
    <3>4. CASE i + 1 = m
      <4>1. w[i + 1] = g /\ s[i + 1] = e
        BY <2>7, <3>4 DEF e
      <4>2. Parent(c, h, s[i], e)
        BY <3>2, <4>1
      <4>3. Parent(c, h, s[i], g)
        BY <2>5, <2>9, <4>2 DEF Parent
      <4>. QED  BY <3>2, <4>1, <4>3
    <3>. QED  BY <3>3, <3>4
  <2>12. w[1].ls = "None" /\ w[1].start = 1
    <3>1. CASE m = 1
      <4>1. e.ls = "None" /\ e.start = 1 /\ w[1] = g
        BY <1>1, <2>7, <3>1 DEF e
      <4>. QED  BY <2>5, <4>1 DEF From
    <3>2. CASE m # 1
      <4>1. 1 \in 1 .. m
        BY <2>1
      <4>2. w[1] = s[1]
        BY <2>7, <3>2, <4>1
      <4>. QED  BY <1>1, <4>2
    <3>. QED  BY <3>1, <3>2
  <2>13. Chained(c, h, w)
    BY <2>7, <2>10, <2>11 DEF Chained
  <2>14. Walking(c, h, w, x, 0, t)
    BY <2>5, <2>7, <2>12, <2>13 DEF Walking
  <2>15. Popped(c, s, r, b) = w
    BY DEF Popped, w, g, e, m
  <2>. QED  BY <2>14, <2>15
<1>. QED  BY <1>3, <1>4

-----------------------------------------------------------------------------
(* The machine, given how many nodes are still to come at each position.   *)
Machine(h) ==
  /\ Form(nodes, h)
  /\ ending \in {"none", "ok", "out_of_draws", "not_a_loop", "not_a_boolean", "cannot_skip"}
  /\ cursor \in 1 .. Len(nodes) + 1
  /\ stack \in Seq(Activation) /\ stack # <<>>
  /\ stack[1].ls = "None"
  /\ toSkip \in Nat
  /\ terminated \in BOOLEAN
  /\ CursorAtEnd
  /\ Running => Walking(nodes, h, stack, cursor, toSkip, terminated)

(* Where a walk stands, its cursor is in the code or right behind it.      *)
LEMMA CursorIn ==
  ASSUME NEW c, NEW h, Form(c, h), NEW s, NEW p, NEW n, NEW t, Walking(c, h, s, p, n, t)
  PROVE  p \in 1 .. Len(c) + 1
<1>1. PICK q : Spans(h, p, n, q)
  BY DEF Walking, Inmost
<1>. QED  BY <1>1, FormFacts DEF Spans

(* A walk that goes on. *)
LEMMA GoesOnWalking ==
  ASSUME NEW h, Machine(h), Running, UNCHANGED <<nodes, ending>>, terminated' \in BOOLEAN,
         Walking(nodes, h, stack', cursor', toSkip', terminated')
  PROVE  Machine(h)'
<1>1. cursor' \in 1 .. Len(nodes) + 1
  BY CursorIn DEF Machine
<1>2. ending' = "none" /\ nodes' = nodes
  BY DEF Running
<1>3. /\ stack' \in Seq(Activation) /\ stack' # <<>> /\ toSkip' \in Nat
      /\ stack'[1].ls = "None"
  BY DEF Walking
<1>. QED  BY <1>1, <1>2, <1>3 DEF Machine, CursorAtEnd, Running

LEMMA StepThrows ==
  ASSUME NEW h, Machine(h), UNCHANGED <<nodes, terminated>>,
         NEW reason \in {"not_a_loop", "not_a_boolean", "cannot_skip", "out_of_draws"},
         Throws(reason)
  PROVE  Machine(h)'
BY DEF Machine, Throws, CursorAtEnd, Running

(* The node executed, with what the model says of it. *)
LEMMA AtNode ==
  ASSUME NEW h, Machine(h), Running, toSkip = 0, NEW f, f = Innermost
  PROVE  /\ Form(nodes, h) /\ Walking(nodes, h, stack, cursor, 0, terminated)
         /\ Len(stack) \in Nat /\ Len(stack) >= 1 /\ f = stack[Len(stack)]
         /\ Fits(nodes, h, f) /\ f \in Activation
         /\ f.start \in 1 .. Len(nodes) /\ Kind(f) = What(nodes, f) /\ ~IsPast(f.start)
         /\ Stands(nodes, h, f, cursor, terminated)
         /\ Unasked(nodes, f) => ~terminated
         /\ f.step \in Nat /\ f.ls \in LoopStates /\ f.loop \in LoopStates /\ f.cond \in BOOLEAN
         /\ f.end \in Nat /\ f.loop \in Looping
         /\ Arity(nodes, f) = Children(nodes[f.start]) /\ Arity(nodes, f) \in Nat
         /\ What(nodes, f) = "StatementList" => Arity(nodes, f) = nodes[f.start][2]
         /\ What(nodes, f) \in {"If", "WhileLoop", "ForLoop"} => Arity(nodes, f) = 2
         /\ What(nodes, f) = "IfElse" => Arity(nodes, f) = 3
         /\ What(nodes, f) = "ListComp" => Arity(nodes, f) = 4
         /\ What(nodes, f) \notin Compound => Arity(nodes, f) = 0
<1>1. Form(nodes, h) /\ Walking(nodes, h, stack, cursor, 0, terminated)
  BY DEF Machine
<1>2. /\ Len(stack) \in Nat /\ Len(stack) >= 1 /\ f = stack[Len(stack)]
      /\ Fits(nodes, h, f)
  <2>1. Len(stack) \in Nat /\ Len(stack) >= 1 /\ \A i \in 1 .. Len(stack) : Fits(nodes, h, stack[i])
    BY <1>1, WalkingFacts
  <2>. QED  BY <2>1 DEF Innermost
<1>3. f \in Activation /\ f.start \in 1 .. Len(nodes) /\ f.loop \in Looping
  BY <1>2 DEF Fits
<1>4. Kind(f) = What(nodes, f)
  BY DEF Kind, KindAt, What
<1>5. ~IsPast(f.start)
  <2>1. nodes \in Seq(NodeSet)
    BY <1>1 DEF Form
  <2>2. DOMAIN nodes = 1 .. Len(nodes)
    BY <2>1, LenProperties
  <2>. QED  BY <1>3, <2>2 DEF IsPast
<1>6. Inmost(nodes, h, f, cursor, 0, terminated)
  BY <1>1, <1>2 DEF Walking
<1>7. Stands(nodes, h, f, cursor, terminated) /\ (Unasked(nodes, f) => ~terminated)
  <2>1. PICK q : Spans(h, cursor, 0, q) /\ Stands(nodes, h, f, q, terminated)
    BY <1>6 DEF Inmost
  <2>2. q = cursor
    BY <1>1, <2>1, SpanNone
  <2>. QED  BY <1>6, <2>1, <2>2 DEF Inmost
<1>8. /\ f.step \in Nat /\ f.ls \in LoopStates /\ f.loop \in LoopStates /\ f.cond \in BOOLEAN
      /\ f.end \in Nat
  BY <1>3 DEF Activation
<1>9. /\ Arity(nodes, f) = Children(nodes[f.start]) /\ What(nodes, f) = nodes[f.start][1]
      /\ nodes[f.start] \in NodeSet
  BY <1>1, <1>3, FormFacts DEF Arity, What
<1>10. /\ Arity(nodes, f) \in Nat
       /\ What(nodes, f) = "StatementList" => Arity(nodes, f) = nodes[f.start][2]
       /\ What(nodes, f) \in {"If", "WhileLoop", "ForLoop"} => Arity(nodes, f) = 2
       /\ What(nodes, f) = "IfElse" => Arity(nodes, f) = 3
       /\ What(nodes, f) = "ListComp" => Arity(nodes, f) = 4
       /\ What(nodes, f) \notin Compound => Arity(nodes, f) = 0
  BY <1>9, ChildrenOf
<1>. QED  BY <1>1, <1>2, <1>3, <1>4, <1>5, <1>7, <1>8, <1>9, <1>10

LEMMA StepCalls ==
  ASSUME NEW h, Machine(h), Running, toSkip = 0, UNCHANGED <<nodes, terminated>>,
         NEW f, f = Innermost, Calling(nodes, f),
         NEW q, Spans(h, f.start + 1, Kid(nodes, f), q),
         NEW ls \in LoopStates, ls = Given(nodes, f),
         nodes[q][1] \notin {"StatementList", "Act"} => ls \in Calmly,
         ~terminated, Calls(q, ls)
  PROVE  Machine(h)'
<1>. DEFINE k == Kid(nodes, f)
<1>1. /\ Form(nodes, h) /\ Walking(nodes, h, stack, cursor, 0, terminated)
      /\ f = stack[Len(stack)] /\ f.start \in 1 .. Len(nodes) /\ f.step \in Nat
      /\ Arity(nodes, f) = Children(nodes[f.start]) /\ Arity(nodes, f) \in Nat
      /\ What(nodes, f) \in {"If", "WhileLoop", "ForLoop"} => Arity(nodes, f) = 2
      /\ What(nodes, f) = "IfElse" => Arity(nodes, f) = 3
      /\ What(nodes, f) = "ListComp" => Arity(nodes, f) = 4
  BY AtNode
<1>2. k \in Nat /\ k < Children(nodes[f.start])
  BY <1>1 DEF Calling, Kid
<1>3. Spans(h, f.start + 1, k, q)
  OBVIOUS
<1>. HIDE DEF k
<1>4. q \in 1 .. Len(nodes)
  BY <1>1, <1>2, <1>3, KidStarts
<1>5. Walking(nodes, h, Append(stack, Begun(q, ls)), q, 0, terminated)
  BY <1>1, <1>4, CallKeeps
<1>6. /\ stack' = Append(stack, Begun(q, ls)) /\ cursor' = q /\ toSkip' = 0 /\ ending' = ending
      /\ terminated' = terminated /\ nodes' = nodes
  BY DEF Calls
<1>7. Walking(nodes, h, stack', cursor', toSkip', terminated')
  BY <1>5, <1>6
<1>8. terminated' \in BOOLEAN
  BY <1>6 DEF Machine
<1>. QED  BY <1>6, <1>7, <1>8, GoesOnWalking

LEMMA StepSkips ==
  ASSUME NEW h, Machine(h), Running, toSkip = 0, UNCHANGED <<nodes, terminated>>,
         NEW f, f = Innermost, NEW step \in Nat, step > 0, Skips(step),
         NEW g, g = [f EXCEPT !.step = step],
         What(nodes, f) \in Compound, step <= Arity(nodes, f) + 1, Calm(nodes, g) => f.ls \in Calmly,
         ~(What(nodes, f) = "ListComp" /\ step = 5),
         NEW k \in Nat, k < Arity(nodes, f), Spans(h, f.start + 1, k, cursor),
         Behind(nodes, g, k + 1, terminated), Unasked(nodes, g) => ~terminated
  PROVE  Machine(h)'
<1>1. /\ Form(nodes, h) /\ Walking(nodes, h, stack, cursor, 0, terminated)
      /\ f = stack[Len(stack)] /\ f \in Activation /\ f.start \in 1 .. Len(nodes)
      /\ f.loop \in Looping
  BY AtNode
<1>2. /\ g \in Activation /\ g.start = f.start /\ g.ls = f.ls /\ g.step = step /\ g.loop = f.loop
  BY <1>1, Stepped
<1>3. What(nodes, g) = What(nodes, f) /\ Arity(nodes, g) = Arity(nodes, f)
  BY <1>2 DEF What, Arity
<1>4. Fits(nodes, h, g)
  BY <1>1, <1>2, <1>3 DEF Fits
<1>5. Walking(nodes, h, [stack EXCEPT ![Len(stack)] = g], cursor, 1, terminated)
  BY <1>1, <1>4, PassKeeps
<1>6. /\ stack' = [stack EXCEPT ![Len(stack)] = g] /\ cursor' = cursor /\ toSkip' = 1
      /\ ending' = ending /\ terminated' = terminated /\ nodes' = nodes
  BY DEF Skips, GoesOn
<1>7. Walking(nodes, h, stack', cursor', toSkip', terminated')
  BY <1>5, <1>6
<1>8. terminated' \in BOOLEAN
  BY <1>6 DEF Machine
<1>. QED  BY <1>6, <1>7, <1>8, GoesOnWalking

LEMMA StepReturns ==
  ASSUME NEW h, Machine(h), Running, toSkip = 0, UNCHANGED nodes, terminated' \in BOOLEAN,
         NEW f, f = Innermost, NEW b \in BOOLEAN, NEW q, NEW r \in LoopStates, Returns(r, q, b),
         r = f.ls \/ (r \in Jumps /\ f.ls # "None"),
         ~Resets(r) => Spans(h, f.start, 1, q),
         What(nodes, f) \in {"Test", "Iterable"} => r \in Calmly,
         What(nodes, f) = "Test" => ~terminated'
  PROVE  Machine(h)'
<1>. DEFINE m == Len(stack) - 1
            x == IF Resets(r) THEN f.start ELSE q
            t == terminated'
<1>1. /\ Form(nodes, h) /\ Walking(nodes, h, stack, cursor, 0, terminated)
      /\ f = stack[Len(stack)] /\ f \in Activation /\ Len(stack) \in Nat /\ Len(stack) >= 1
      /\ What(nodes, f) = nodes[f.start][1]
  BY AtNode DEF What
<1>2. cursor' = x /\ nodes' = nodes /\ toSkip' = 0 /\ t \in BOOLEAN
  BY DEF Returns
<1>3. /\ Len(stack) = 1 => x = Len(nodes) + 1 /\ r = "None" /\ f.ls = "None"
      /\ Len(stack) > 1 => Walking(nodes, h, Popped(nodes, stack, r, b), x, 0, t)
  <2>. HIDE DEF t
  <2>1. Comes(nodes, h, f.start, r, q, t)
    BY <1>1, <1>2 DEF Comes, t
  <2>2. Leaves(nodes, h, stack, r, q, t)
    <3>1. \E p, u : Walking(nodes, h, stack, p, 0, u)
      BY <1>1
    <3>. QED  BY <1>1, <2>1, <3>1 DEF Leaves
  <2>3. /\ Len(stack) = 1 => /\ (IF Resets(r) THEN stack[Len(stack)].start ELSE q) = Len(nodes) + 1
                             /\ r = "None" /\ stack[Len(stack)].ls = "None"
        /\ Len(stack) > 1 => Walking(nodes, h, Popped(nodes, stack, r, b),
                                     IF Resets(r) THEN stack[Len(stack)].start ELSE q, 0, t)
    BY <2>2, ReturnKeeps, Zenon
  <2>4. x = IF Resets(r) THEN stack[Len(stack)].start ELSE q
    BY <1>1
  <2>. HIDE DEF x
  <2>. QED  BY <1>1, <2>3, <2>4
<1>4. CASE Len(stack) = 1
  <2>1. stack' = <<[f EXCEPT !.ls = r]>> /\ ending' = "ok"
    BY <1>4 DEF Returns
  <2>2. [f EXCEPT !.ls = r] \in Activation /\ [f EXCEPT !.ls = r].ls = "None"
    BY <1>1, <1>3, <1>4 DEF Activation
  <2>3. stack' \in Seq(Activation) /\ stack' # <<>> /\ stack'[1].ls = "None"
    <3>. DEFINE g == [f EXCEPT !.ls = r]
    <3>1. g \in Activation /\ g.ls = "None" /\ stack' = <<g>>
      BY <2>1, <2>2
    <3>. HIDE DEF g
    <3>. QED  BY <3>1
  <2>4. cursor' = Len(nodes) + 1 /\ Len(nodes) \in Nat
    BY <1>1, <1>2, <1>3, <1>4, FormFacts
  <2>5. cursor' \in 1 .. Len(nodes) + 1
    BY <2>4
  <2>. QED  BY <1>2, <2>1, <2>3, <2>4, <2>5 DEF Machine, CursorAtEnd, Running
<1>5. CASE Len(stack) > 1
  <2>1. m \in Nat /\ m >= 1 /\ m # 0 /\ m <= Len(stack)
    BY <1>1, <1>5
  <2>2. SubSeq(stack, 1, m)[m] = stack[m]
    <3>1. stack \in Seq(Activation)
      BY DEF Machine
    <3>. HIDE DEF m
    <3>2. 1 \in 1 .. Len(stack) + 1 /\ m \in 0 .. Len(stack) /\ m \in 1 .. m - 1 + 1 /\ 1 + m - 1 = m
      BY <1>1, <2>1
    <3>3. \A i \in 1 .. m - 1 + 1 : SubSeq(stack, 1, m)[i] = stack[1 + i - 1]
      BY <3>1, <3>2, SubSeqProperties
    <3>. QED  BY <3>2, <3>3
  <2>3. Kind(stack[m]) = What(nodes, stack[m])
    BY DEF Kind, KindAt, What
  <2>4. stack' = Popped(nodes, stack, r, b) /\ ending' = ending
    BY <2>1, <2>2, <2>3 DEF Returns, Popped
  <2>5. Walking(nodes, h, stack', cursor', toSkip', terminated')
    BY <1>2, <1>3, <1>5, <2>4
  <2>. QED  BY <1>2, <2>4, <2>5, GoesOnWalking
<1>. QED  BY <1>1, <1>4, <1>5, SMTT(30)

-----------------------------------------------------------------------------
(* The machine executes a node of this kind and is this far.               *)
LEMMA AtStep ==
  ASSUME NEW h, Machine(h), NEW kind, NEW step, Is(kind, step), NEW f, f = Innermost
  PROVE  /\ Running /\ toSkip = 0 /\ What(nodes, f) = kind /\ f.step = step /\ Form(nodes, h)
         /\ step = 0 => cursor = f.start /\ ~terminated /\ f.loop = "TopLevel"
         /\ step # 0 => \E k \in 0 .. Arity(nodes, f) :
                           Spans(h, f.start + 1, k, cursor) /\ Behind(nodes, f, k, terminated)
         /\ Calm(nodes, f) => f.ls \in Calmly
<1>1. Running /\ toSkip = 0 /\ Kind(f) = kind /\ f.step = step
  BY DEF Is
<1>2. /\ What(nodes, f) = kind /\ Form(nodes, h) /\ Fits(nodes, h, f)
      /\ Stands(nodes, h, f, cursor, terminated)
      /\ Unasked(nodes, f) => ~terminated
  BY <1>1, AtNode
<1>3. step = 0 => cursor = f.start /\ ~terminated /\ f.loop = "TopLevel"
  BY <1>1, <1>2 DEF Stands, Unasked, Fits
<1>4. step # 0 => \E k \in 0 .. Arity(nodes, f) :
                     Spans(h, f.start + 1, k, cursor) /\ Behind(nodes, f, k, terminated)
  BY <1>1, <1>2 DEF Stands
<1>5. Calm(nodes, f) => f.ls \in Calmly
  BY <1>2 DEF Fits
<1>. QED  BY <1>1, <1>2, <1>3, <1>4, <1>5

(* A node without children returns. *)
LEMMA LeafReturns ==
  ASSUME NEW h, Machine(h), UNCHANGED nodes, NEW kind \in Kinds \ Compound, Is(kind, 0),
         NEW b \in BOOLEAN, NEW r \in LoopStates, Returns(r, cursor + 1, b),
         r = Innermost.ls \/ (r \in Jumps /\ Innermost.ls # "None"),
         kind \in {"Test", "Iterable"} => r = Innermost.ls,
         terminated' \in BOOLEAN, kind = "Test" => terminated' = terminated
  PROVE  Machine(h)'
<1>. DEFINE f == Innermost
<1>1. /\ Running /\ toSkip = 0 /\ What(nodes, f) = kind /\ f.step = 0 /\ Form(nodes, h)
      /\ cursor = f.start /\ ~terminated
      /\ Calm(nodes, f) => f.ls \in Calmly
  BY AtStep
<1>2. f.start \in 1 .. Len(nodes) /\ Children(nodes[f.start]) = 0
  BY <1>1, AtNode
<1>3. Spans(h, f.start, 1, cursor + 1)
  BY <1>1, <1>2, SpanLeaf
<1>4. kind \in {"Test", "Iterable"} => f.ls \in Calmly
  BY <1>1 DEF Calm
<1>5. /\ What(nodes, f) \in {"Test", "Iterable"} => r \in Calmly
      /\ What(nodes, f) = "Test" => ~terminated'
  BY <1>1, <1>4
<1>. HIDE DEF f
<1>6. f = Innermost
  BY DEF f
<1>7. r = f.ls \/ (r \in Jumps /\ f.ls # "None")
  BY <1>6
<1>. QED  BY <1>1, <1>3, <1>5, <1>6, <1>7, StepReturns

(* A node with children does, once it is behind all of them or a child     *)
(* that jumped.                                                            *)
LEMMA WholeReturns ==
  ASSUME NEW h, Machine(h), UNCHANGED <<nodes, terminated>>, NEW kind \in Compound,
         NEW step \in Nat, step > 0, Is(kind, step), NEW f, f = Innermost,
         NEW b \in BOOLEAN, NEW q, Returns(f.ls, q, b),
         ~Resets(f.ls) => Spans(h, f.start + 1, Arity(nodes, f), q)
  PROVE  Machine(h)'
<1>1. Running /\ toSkip = 0 /\ What(nodes, f) = kind /\ Form(nodes, h)
  BY AtStep
<1>2. /\ f.start \in 1 .. Len(nodes) /\ Children(nodes[f.start]) = Arity(nodes, f)
      /\ f.ls \in LoopStates
  BY <1>1, AtNode
<1>3. ~Resets(f.ls) => Spans(h, f.start, 1, q)
  BY <1>1, <1>2, SpanBack
<1>4. What(nodes, f) \notin {"Test", "Iterable"}
  BY <1>1 DEF Compound
<1>5. terminated' \in BOOLEAN
  BY DEF Machine
<1>. DEFINE r == f.ls
<1>6. r \in LoopStates /\ Returns(r, q, b) /\ (~Resets(r) => Spans(h, f.start, 1, q)) /\ r = f.ls
  BY <1>2, <1>3
<1>. HIDE DEF r
<1>. QED  BY <1>1, <1>4, <1>5, <1>6, StepReturns

-----------------------------------------------------------------------------
LEMMA SkipStep ==
  ASSUME NEW h, Machine(h), Skip, UNCHANGED nodes
  PROVE  Machine(h)'
<1>1. /\ Running /\ toSkip > 0 /\ UNCHANGED <<nodes, terminated>>
      /\ Form(nodes, h) /\ Walking(nodes, h, stack, cursor, toSkip, terminated)
  BY DEF Skip, Machine, effects
<1>2. /\ cursor \in 1 .. Len(nodes)
      /\ Walking(nodes, h, stack, cursor + 1, toSkip - 1 + Children(nodes[cursor]), terminated)
  BY <1>1, SkipKeeps
<1>3. ~IsPast(cursor)
  <2>1. nodes \in Seq(NodeSet)
    BY <1>1 DEF Form
  <2>2. DOMAIN nodes = 1 .. Len(nodes)
    BY <2>1, LenProperties
  <2>. QED  BY <1>2, <2>2 DEF IsPast
<1>4. CASE KindAt(cursor) \in Unskippable
  <2>1. Throws("cannot_skip")
    BY <1>3, <1>4 DEF Skip
  <2>. QED  BY <1>1, <2>1, StepThrows
<1>5. CASE KindAt(cursor) \notin Unskippable
  <2>1. /\ cursor' = cursor + 1 /\ toSkip' = toSkip - 1 + Children(nodes[cursor])
        /\ stack' = stack /\ ending' = ending /\ terminated' = terminated /\ nodes' = nodes
    BY <1>1, <1>3, <1>5 DEF Skip
  <2>2. Walking(nodes, h, stack', cursor', toSkip', terminated')
    BY <1>2, <2>1
  <2>3. terminated' \in BOOLEAN
    BY <2>1 DEF Machine
  <2>. QED  BY <1>1, <2>1, <2>2, <2>3, GoesOnWalking
<1>. QED  BY <1>4, <1>5

LEMMA ActStep ==
  ASSUME NEW h, Machine(h), Act, UNCHANGED nodes
  PROVE  Machine(h)'
<1>1. /\ Is("Act", 0) /\ Returns(Innermost.ls, cursor + 1, TRUE) /\ terminated' = terminated
      /\ "Act" \in Kinds \ Compound /\ terminated \in BOOLEAN
  BY DEF Act, Kinds, Simple, Compound, Machine
<1>2. Innermost.ls \in LoopStates
  BY <1>1, AtStep, AtNode
<1>. QED  BY <1>1, <1>2, LeafReturns

LEMMA QuietStep ==
  ASSUME NEW h, Machine(h), Quiet, UNCHANGED nodes
  PROVE  Machine(h)'
<1>1. PICK kind \in {"Global", "Iterable"} : Is(kind, 0)
  BY DEF Quiet
<1>2. /\ Returns(Innermost.ls, cursor + 1, TRUE) /\ terminated' = terminated
      /\ kind \in Kinds \ Compound /\ terminated \in BOOLEAN
  BY DEF Quiet, effects, Kinds, Simple, Compound, Machine
<1>3. Innermost.ls \in LoopStates
  BY <1>1, AtStep, AtNode
<1>. QED  BY <1>1, <1>2, <1>3, LeafReturns

LEMMA TestStep ==
  ASSUME NEW h, Machine(h), NEW outcome \in BOOLEAN, Test(outcome), UNCHANGED nodes
  PROVE  Machine(h)'
<1>1. /\ Is("Test", 0) /\ Returns(Innermost.ls, cursor + 1, outcome) /\ terminated' = terminated
      /\ "Test" \in Kinds \ Compound /\ terminated \in BOOLEAN
  BY DEF Test, Draws, Kinds, Simple, Compound, Machine
<1>2. Innermost.ls \in LoopStates
  BY <1>1, AtStep, AtNode
<1>. QED  BY <1>1, <1>2, LeafReturns

LEMMA JumpStep ==
  ASSUME NEW h, Machine(h), NEW kind \in Jumps, Jump(kind), UNCHANGED nodes
  PROVE  Machine(h)'
<1>1. /\ Is(kind, 0) /\ terminated' = terminated /\ terminated \in BOOLEAN
      /\ kind \in Kinds \ Compound /\ kind \in LoopStates /\ kind \notin {"Test", "Iterable"}
  BY DEF Jump, Jumps, Kinds, Simple, Compound, LoopStates, Machine
<1>2. CASE Innermost.ls = "None"
  <2>1. Throws("not_a_loop") /\ UNCHANGED <<nodes, terminated>>
    BY <1>1, <1>2 DEF Jump
  <2>. QED  BY <2>1, StepThrows
<1>3. CASE Innermost.ls # "None"
  <2>1. Returns(kind, cursor + 1, FALSE)
    BY <1>3 DEF Jump
  <2>. QED  BY <1>1, <1>3, <2>1, LeafReturns
<1>. QED  BY <1>2, <1>3

LEMMA ReturnStep ==
  ASSUME NEW h, Machine(h), ReturnNode, UNCHANGED nodes
  PROVE  Machine(h)'
<1>1. /\ Is("Return", 0) /\ Returns(Innermost.ls, cursor + 1, FALSE) /\ terminated' = TRUE
      /\ "Return" \in Kinds \ Compound
  BY DEF ReturnNode, Kinds, Simple, Compound
<1>2. Innermost.ls \in LoopStates
  BY <1>1, AtStep, AtNode
<1>. QED  BY <1>1, <1>2, LeafReturns

LEMMA EnterStep ==
  ASSUME NEW h, Machine(h), Enter, UNCHANGED nodes
  PROVE  Machine(h)'
<1>. DEFINE f == Innermost
            g == [f EXCEPT !.step = 1]
<1>1. PICK kind \in Compound : Is(kind, 0)
  BY DEF Enter
<1>2. /\ Running /\ toSkip = 0 /\ What(nodes, f) = kind /\ f.step = 0 /\ Form(nodes, h)
      /\ cursor = f.start /\ ~terminated /\ f.loop = "TopLevel"
      /\ Calm(nodes, f) => f.ls \in Calmly
  BY <1>1, AtStep
<1>3. /\ Walking(nodes, h, stack, cursor, 0, terminated) /\ f = stack[Len(stack)]
      /\ f \in Activation /\ f.start \in 1 .. Len(nodes) /\ Arity(nodes, f) \in Nat
  BY <1>2, AtNode
<1>entered. g = [start |-> f.start, ls |-> f.ls, loop |-> f.loop, step |-> 1, cond |-> f.cond, end |-> f.end]
  <2>. HIDE DEF f
  <2>. QED  BY <1>3 DEF Activation
<1>4. /\ g \in Activation /\ g.start = f.start /\ g.ls = f.ls /\ g.step = 1 /\ g.loop = f.loop
  <2>. HIDE DEF g, f
  <2>. QED  BY <1>entered, <1>3, 1 \in Nat DEF Activation
<1>. HIDE DEF g, f
<1>5. What(nodes, g) = kind /\ Arity(nodes, g) = Arity(nodes, f)
  BY <1>2, <1>4 DEF What, Arity
<1>6. Fits(nodes, h, g)
  <2>1. Calm(nodes, g) => Calm(nodes, f)
    BY <1>2, <1>4, <1>5 DEF Calm
  <2>. QED  BY <1>1, <1>2, <1>3, <1>4, <1>5, <2>1 DEF Fits, Looping
<1>7. Inmost(nodes, h, g, cursor + 1, 0, terminated)
  <2>1. Len(nodes) \in Nat
    BY <1>2, FormFacts
  <2>2. f.start + 1 \in 1 .. Len(nodes) + 1
    BY <1>3, <2>1
  <2>3. Spans(h, f.start + 1, 0, cursor + 1)
    BY <1>2, <2>2, SpanNone
  <2>4. Behind(nodes, g, 0, terminated)
    BY <1>1, <1>2, <1>4, <1>5, BehindIs DEF Compound
  <2>5. Stands(nodes, h, g, cursor + 1, terminated)
    <3>1. 0 \in 0 .. Arity(nodes, g) /\ g.step # 0
      BY <1>3, <1>4, <1>5
    <3>. QED  BY <1>4, <2>3, <2>4, <3>1 DEF Stands
  <2>. QED  BY <1>2, <1>4, <2>3, <2>5 DEF Inmost
<1>8. Walking(nodes, h, [stack EXCEPT ![Len(stack)] = g], cursor + 1, 0, terminated)
  BY <1>2, <1>3, <1>4, <1>6, <1>7, GoKeeps
<1>9. /\ stack' = [stack EXCEPT ![Len(stack)] = g] /\ cursor' = cursor + 1 /\ toSkip' = 0
      /\ ending' = ending /\ terminated' = terminated /\ nodes' = nodes
  BY <1>2 DEF Enter, GoesOn, effects, g, f
<1>10. Walking(nodes, h, stack', cursor', toSkip', terminated')
  BY <1>8, <1>9
<1>11. terminated' \in BOOLEAN
  BY <1>9 DEF Machine
<1>. QED  BY <1>2, <1>9, <1>10, <1>11, GoesOnWalking

-----------------------------------------------------------------------------
LEMMA StatementListStep ==
  ASSUME NEW h, Machine(h), StatementList, UNCHANGED nodes
  PROVE  Machine(h)'
<1>. DEFINE f == Innermost
            i == f.step
            a == Arity(nodes, f)
            g == [f EXCEPT !.step = i + 1]
<1>1. /\ Is("StatementList", i) /\ i > 0 /\ UNCHANGED <<nodes, terminated>>
      /\ IF i > nodes[f.start][2] THEN Returns(f.ls, cursor, FALSE)
         ELSE IF Passed(f.ls)     THEN Skips(i + 1)
         ELSE Calls(cursor, ChildState(f.ls))
  BY DEF StatementList, effects
<1>2. /\ Running /\ toSkip = 0 /\ What(nodes, f) = "StatementList" /\ Form(nodes, h)
      /\ i # 0 => \E k \in 0 .. a : Spans(h, f.start + 1, k, cursor) /\ Behind(nodes, f, k, terminated)
  BY <1>1, AtStep
<1>3. /\ a \in Nat /\ a = nodes[f.start][2] /\ i \in Nat /\ Fits(nodes, h, f) /\ f \in Activation
      /\ f.ls \in LoopStates
  BY <1>2, AtNode
<1>. HIDE DEF f, i, a, g
<1>4. PICK k \in 0 .. a : Spans(h, f.start + 1, k, cursor) /\ Behind(nodes, f, k, terminated)
  BY <1>1, <1>2, <1>3
<1>5. k \in Nat /\ k <= i - 1 /\ (f.ls \notin Jumps => k = i - 1) /\ i <= a + 1
  <2>1. k <= f.step - 1 /\ (f.ls \notin Jumps => k = f.step - 1)
    BY <1>2, <1>4, BehindIs
  <2>2. f.step > 0 => f.step <= Arity(nodes, f) + 1
    BY <1>3 DEF Fits
  <2>. QED  BY <1>1, <1>3, <2>1, <2>2 DEF i, a
<1>6. CASE i > a
  <2>1. ~Resets(f.ls) => f.ls \notin Jumps
    BY DEF Resets, Jumps
  <2>2. ~Resets(f.ls) => k = a
    BY <1>3, <1>5, <1>6, <2>1
  <2>3. ~Resets(f.ls) => Spans(h, f.start + 1, Arity(nodes, f), cursor)
    BY <1>4, <2>2 DEF a
  <2>4. Returns(f.ls, cursor, FALSE)
    BY <1>1, <1>3, <1>6
  <2>5. "StatementList" \in Compound /\ f = Innermost
    BY DEF Compound, f
  <2>. QED  BY <1>1, <1>3, <2>3, <2>4, <2>5, WholeReturns
<1>7. CASE i <= a /\ Passed(f.ls)
  <2>1. Skips(i + 1) /\ i + 1 \in Nat /\ i + 1 > 0 /\ i + 1 <= a + 1 /\ k < a
    <3>1. ~(i > nodes[f.start][2])
      BY <1>3, <1>7
    <3>2. Skips(i + 1)
      BY <1>1, <1>7, <3>1, Zenon
    <3>. QED  BY <1>3, <1>5, <1>7, <3>2
  <2>2. g.start = f.start /\ g.ls = f.ls /\ g.step = i + 1
    BY <1>3 DEF Activation, g
  <2>3. What(nodes, g) = "StatementList"
    BY <1>2, <2>2 DEF What
  <2>4. Behind(nodes, g, k + 1, terminated)
    <3>1. k + 1 <= g.step - 1 /\ (g.ls \notin Jumps => k + 1 = g.step - 1)
      BY <1>3, <1>5, <2>2
    <3>. QED  BY <2>3, <3>1, BehindIs
  <2>5. ~Calm(nodes, g) /\ ~Unasked(nodes, g)
    BY <1>3, <2>2, <2>3 DEF Calm, Unasked
  <2>6. What(nodes, f) \in Compound /\ ~(What(nodes, f) = "ListComp" /\ i + 1 = 5)
    BY <1>2 DEF Compound
  <2>7. f = Innermost /\ g = [f EXCEPT !.step = i + 1] /\ a = Arity(nodes, f)
    BY DEF f, g, a
  <2>. DEFINE j == i + 1
  <2>8. /\ Skips(j) /\ j \in Nat /\ j > 0 /\ j <= Arity(nodes, f) + 1 /\ g = [f EXCEPT !.step = j]
        /\ ~(What(nodes, f) = "ListComp" /\ j = 5) /\ k < Arity(nodes, f)
    BY <2>1, <2>6, <2>7
  <2>. HIDE DEF j
  <2>. QED  BY <1>1, <1>2, <1>4, <1>5, <2>4, <2>5, <2>6, <2>7, <2>8, StepSkips
<1>8. CASE i <= a /\ ~Passed(f.ls)
  <2>. DEFINE l == ChildState(f.ls)
  <2>1. Calls(cursor, l) /\ ~terminated /\ f.ls \notin Jumps
    <3>1. ~(i > nodes[f.start][2])
      BY <1>3, <1>8
    <3>2. Calls(cursor, l)
      BY <1>1, <1>8, <3>1, Zenon
    <3>. QED  BY <1>8, <3>2 DEF Passed, Jumps
  <2>2. l \in LoopStates /\ l \in Calmly /\ l = Given(nodes, f)
    BY <1>2, <1>3, <2>1 DEF ChildState, Calmly, LoopStates, Jumps, Given
  <2>3. Kid(nodes, f) = k /\ Calling(nodes, f)
    <3>1. f.step = i /\ i \in 1 .. Arity(nodes, f)
      BY <1>1, <1>3, <1>8 DEF i, a
    <3>. QED  BY <1>2, <1>5, <2>1, <3>1 DEF Kid, Calling
  <2>4. f = Innermost
    BY DEF f
  <2>. HIDE DEF l
  <2>. QED  BY <1>1, <1>2, <1>4, <2>1, <2>2, <2>3, <2>4, StepCalls
<1>. QED  BY <1>3, <1>5, <1>6, <1>7, <1>8

(* The nodes with a fixed number of children skip the next one, or call    *)
(* it.                                                                     *)
LEMMA PassesKid ==
  ASSUME NEW h, Machine(h), UNCHANGED <<nodes, terminated>>, NEW f, f = Innermost,
         NEW kind \in Compound, NEW step \in Nat, Is(kind, step),
         NEW k \in Nat, Spans(h, f.start + 1, k, cursor), k < Arity(nodes, f),
         NEW j \in Nat, j > 0, j <= Arity(nodes, f) + 1, Skips(j), ~(kind = "ListComp" /\ j = 5),
         NEW g, g = [f EXCEPT !.step = j],
         g.step = j /\ g.start = f.start /\ g.ls = f.ls /\ g.cond = f.cond /\ What(nodes, g) = kind
           => /\ Behind(nodes, g, k + 1, terminated)
              /\ Calm(nodes, g) => f.ls \in Calmly
              /\ Unasked(nodes, g) => ~terminated
  PROVE  Machine(h)'
<1>1. Running /\ toSkip = 0 /\ What(nodes, f) = kind
  BY AtStep
<1>2. f \in Activation
  BY <1>1, AtNode
<1>3. g.step = j /\ g.start = f.start /\ g.ls = f.ls /\ g.cond = f.cond
  BY <1>2 DEF Activation
<1>4. What(nodes, g) = kind
  BY <1>1, <1>3 DEF What
<1>5. /\ Behind(nodes, g, k + 1, terminated)
      /\ Calm(nodes, g) => f.ls \in Calmly
      /\ Unasked(nodes, g) => ~terminated
  BY <1>3, <1>4
<1>. QED  BY <1>1, <1>5, StepSkips

LEMMA IfStep ==
  ASSUME NEW h, Machine(h), If, UNCHANGED nodes
  PROVE  Machine(h)'
<1>. DEFINE f == Innermost
            a == Arity(nodes, f)
<1>. SUFFICES ASSUME NEW step \in {1, 2, 3}, Is("If", step),
                     \/ step = 1 /\ Calls(cursor, f.ls)
                     \/ step = 2 /\ f.cond /\ Calls(cursor, f.ls)
                     \/ step = 2 /\ ~f.cond /\ Skips(3)
                     \/ step = 3 /\ Returns(f.ls, cursor, FALSE)
              PROVE  Machine(h)'
  BY DEF If
<1>1. UNCHANGED <<nodes, terminated>>
  BY DEF If, effects
<1>2. /\ Running /\ toSkip = 0 /\ What(nodes, f) = "If" /\ f.step = step /\ Form(nodes, h)
      /\ step # 0 => \E k \in 0 .. a : Spans(h, f.start + 1, k, cursor) /\ Behind(nodes, f, k, terminated)
      /\ Calm(nodes, f) => f.ls \in Calmly
  BY AtStep
<1>3. /\ a = 2 /\ Fits(nodes, h, f) /\ f \in Activation /\ f.ls \in LoopStates
      /\ Unasked(nodes, f) => ~terminated
  BY <1>2, AtNode
<1>4. f = Innermost /\ "If" \in Compound
  BY DEF Compound
<1>. HIDE DEF f
<1>5. PICK k \in 0 .. 2 : Spans(h, f.start + 1, k, cursor) /\ Behind(nodes, f, k, terminated)
  BY <1>2, <1>3
<1>6. k <= step - 1 /\ (f.ls \notin Jumps => k = step - 1)
  BY <1>2, <1>5, BehindIs
<1>7. step # 3 => f.ls \in Calmly /\ f.ls \notin Jumps
  BY <1>2 DEF Calm, Calmly, Jumps
<1>8. CASE Calls(cursor, f.ls) /\ step \in {1, 2}
  <2>1. ~terminated
    BY <1>2, <1>3, <1>8 DEF Unasked
  <2>2. Calling(nodes, f) /\ Kid(nodes, f) = k /\ Given(nodes, f) = f.ls
    BY <1>2, <1>6, <1>7, <1>8 DEF Calling, Kid, Given
  <2>. DEFINE l == f.ls
  <2>3. l \in LoopStates /\ l \in Calmly /\ l = Given(nodes, f) /\ Calls(cursor, l)
    BY <1>3, <1>7, <1>8, <2>2
  <2>. HIDE DEF l
  <2>. QED  BY <1>1, <1>2, <1>4, <1>5, <2>1, <2>2, <2>3, StepCalls
<1>9. CASE step = 2 /\ Skips(3)
  <2>. DEFINE g == [f EXCEPT !.step = 3]
  <2>1. k = 1 /\ f.ls \notin Jumps
    BY <1>6, <1>7, <1>9
  <2>2. g.step = 3 /\ g.ls = f.ls /\ What(nodes, g) = "If"
          => /\ Behind(nodes, g, k + 1, terminated)
             /\ ~Calm(nodes, g) /\ ~Unasked(nodes, g)
    <3>. HIDE DEF g
    <3>. QED  BY <2>1, BehindIs DEF Calm, Unasked
  <2>. HIDE DEF g
  <2>3. g = [f EXCEPT !.step = 3] /\ 3 \in Nat /\ 2 \in Nat /\ k \in Nat /\ k < a /\ 3 <= a + 1 /\ 3 > 0
    BY <1>3, <2>1 DEF g
  <2>. QED  BY <1>1, <1>3, <1>4, <1>5, <1>9, <2>2, <2>3, PassesKid
<1>10. CASE step = 3 /\ Returns(f.ls, cursor, FALSE)
  <2>1. ~Resets(f.ls) => Spans(h, f.start + 1, Arity(nodes, f), cursor)
    BY <1>3, <1>5, <1>6, <1>10 DEF Resets, Jumps
  <2>2. 3 \in Nat /\ 3 > 0
    OBVIOUS
  <2>. QED  BY <1>1, <1>4, <1>10, <2>1, <2>2, WholeReturns
<1>. QED  BY <1>8, <1>9, <1>10

LEMMA IfElseStep ==
  ASSUME NEW h, Machine(h), IfElse, UNCHANGED nodes
  PROVE  Machine(h)'
<1>. DEFINE f == Innermost
            a == Arity(nodes, f)
<1>. SUFFICES ASSUME NEW step \in {1, 2, 3, 4}, Is("IfElse", step),
                     \/ step = 1 /\ Calls(cursor, f.ls)
                     \/ step = 2 /\ Throws("not_a_boolean")
                     \/ step = 2 /\ f.cond /\ Calls(cursor, f.ls)
                     \/ step = 2 /\ ~f.cond /\ Skips(3)
                     \/ step = 3 /\ f.cond /\ Skips(4)
                     \/ step = 3 /\ ~f.cond /\ Calls(cursor, f.ls)
                     \/ step = 4 /\ Returns(f.ls, cursor, FALSE)
              PROVE  Machine(h)'
  BY DEF IfElse
<1>1. UNCHANGED <<nodes, terminated>>
  BY DEF IfElse, effects
<1>2. /\ Running /\ toSkip = 0 /\ What(nodes, f) = "IfElse" /\ f.step = step /\ Form(nodes, h)
      /\ step # 0 => \E k \in 0 .. a : Spans(h, f.start + 1, k, cursor) /\ Behind(nodes, f, k, terminated)
      /\ Calm(nodes, f) => f.ls \in Calmly
  BY AtStep
<1>3. /\ a = 3 /\ Fits(nodes, h, f) /\ f \in Activation /\ f.ls \in LoopStates
      /\ Unasked(nodes, f) => ~terminated
  BY <1>2, AtNode
<1>4. f = Innermost /\ "IfElse" \in Compound
  BY DEF Compound
<1>. HIDE DEF f
<1>5. PICK k \in 0 .. 3 : Spans(h, f.start + 1, k, cursor) /\ Behind(nodes, f, k, terminated)
  BY <1>2, <1>3
<1>6. k <= step - 1 /\ (f.ls \notin Jumps => k = step - 1)
  BY <1>2, <1>5, BehindIs
<1>7. step \in {1, 2} \/ (step = 3 /\ ~f.cond) => f.ls \in Calmly /\ f.ls \notin Jumps
  BY <1>2 DEF Calm, Calmly, Jumps
<1>8. CASE /\ Calls(cursor, f.ls)
           /\ step = 1 \/ (step = 2 /\ f.cond) \/ (step = 3 /\ ~f.cond)
  <2>1. ~terminated
    BY <1>2, <1>3, <1>8 DEF Unasked
  <2>2. Calling(nodes, f) /\ Kid(nodes, f) = k /\ Given(nodes, f) = f.ls
    BY <1>2, <1>6, <1>7, <1>8 DEF Calling, Kid, Given
  <2>. DEFINE l == f.ls
  <2>3. l \in LoopStates /\ l \in Calmly /\ l = Given(nodes, f) /\ Calls(cursor, l)
    BY <1>3, <1>7, <1>8, <2>2
  <2>. HIDE DEF l
  <2>. QED  BY <1>1, <1>2, <1>4, <1>5, <2>1, <2>2, <2>3, StepCalls
<1>9. CASE step = 2 /\ ~f.cond /\ Skips(3)
  <2>. DEFINE g == [f EXCEPT !.step = 3]
  <2>1. k = 1 /\ f.ls \notin Jumps /\ f.ls \in Calmly /\ ~terminated
    BY <1>2, <1>3, <1>6, <1>7, <1>9 DEF Unasked
  <2>2. g.step = 3 /\ g.ls = f.ls /\ What(nodes, g) = "IfElse"
          => Behind(nodes, g, k + 1, terminated)
    <3>. HIDE DEF g
    <3>. QED  BY <2>1, BehindIs
  <2>. HIDE DEF g
  <2>3. g = [f EXCEPT !.step = 3] /\ 3 \in Nat /\ 2 \in Nat /\ k \in Nat /\ k < a /\ 3 <= a + 1 /\ 3 > 0
    BY <1>3, <2>1 DEF g
  <2>. QED  BY <1>1, <1>3, <1>4, <1>5, <1>9, <2>1, <2>2, <2>3, PassesKid
<1>10. CASE step = 3 /\ f.cond /\ Skips(4)
  <2>. DEFINE g == [f EXCEPT !.step = 4]
  <2>1. k + 1 <= 3 /\ (f.ls \notin Jumps => k + 1 = 3)
    BY <1>6, <1>10
  <2>2. g.step = 4 /\ g.ls = f.ls /\ What(nodes, g) = "IfElse"
          => /\ Behind(nodes, g, k + 1, terminated)
             /\ ~Calm(nodes, g) /\ ~Unasked(nodes, g)
    <3>. HIDE DEF g
    <3>. QED  BY <2>1, BehindIs DEF Calm, Unasked
  <2>. HIDE DEF g
  <2>3. g = [f EXCEPT !.step = 4] /\ 4 \in Nat /\ 3 \in Nat /\ k \in Nat /\ k < a /\ 4 <= a + 1 /\ 4 > 0
    BY <1>3, <2>1 DEF g
  <2>. QED  BY <1>1, <1>3, <1>4, <1>5, <1>10, <2>2, <2>3, PassesKid
<1>11. CASE step = 4 /\ Returns(f.ls, cursor, FALSE)
  <2>1. ~Resets(f.ls) => Spans(h, f.start + 1, Arity(nodes, f), cursor)
    BY <1>3, <1>5, <1>6, <1>11 DEF Resets, Jumps
  <2>2. 4 \in Nat /\ 4 > 0
    OBVIOUS
  <2>. QED  BY <1>1, <1>4, <1>11, <2>1, <2>2, WholeReturns
<1>12. CASE Throws("not_a_boolean")
  BY <1>1, <1>12, StepThrows
<1>. QED  BY <1>8, <1>9, <1>10, <1>11, <1>12

LEMMA WhileLoopStep ==
  ASSUME NEW h, Machine(h), WhileLoop, UNCHANGED nodes
  PROVE  Machine(h)'
<1>. DEFINE f == Innermost
            a == Arity(nodes, f)
<1>. SUFFICES ASSUME NEW step \in {1, 2, 3}, Is("WhileLoop", step),
                     \/ step = 1 /\ LoopOver /\ Skips(3)
                     \/ step = 1 /\ ~LoopOver /\ Calls(f.start + 1, "None")
                     \/ step = 2 /\ f.cond /\ Calls(cursor, f.loop)
                     \/ step = 2 /\ ~f.cond /\ Skips(3)
                     \/ step = 3 /\ Returns(f.ls, cursor, FALSE)
              PROVE  Machine(h)'
  BY DEF WhileLoop
<1>1. UNCHANGED <<nodes, terminated>>
  BY DEF WhileLoop, effects
<1>2. /\ Running /\ toSkip = 0 /\ What(nodes, f) = "WhileLoop" /\ f.step = step /\ Form(nodes, h)
      /\ step # 0 => \E k \in 0 .. a : Spans(h, f.start + 1, k, cursor) /\ Behind(nodes, f, k, terminated)
      /\ Calm(nodes, f) => f.ls \in Calmly
  BY AtStep
<1>3. /\ a = 2 /\ Fits(nodes, h, f) /\ f \in Activation /\ f.ls \in LoopStates /\ f.loop \in LoopStates
      /\ f.start \in 1 .. Len(nodes)
      /\ Unasked(nodes, f) => ~terminated
  BY <1>2, AtNode
<1>4. f = Innermost /\ "WhileLoop" \in Compound
  BY DEF Compound
<1>0. LoopOver <=> terminated \/ f.loop = "Break"
  BY DEF LoopOver
<1>. HIDE DEF f
<1>5. PICK k \in 0 .. 2 : Spans(h, f.start + 1, k, cursor) /\ Behind(nodes, f, k, terminated)
  BY <1>2, <1>3
<1>6. /\ step = 1 => k = 1 \/ (k = 0 /\ ~terminated /\ f.loop = "TopLevel")
      /\ step # 1 => k = step - 1
  BY <1>2, <1>5, BehindIs
<1>7. f.ls \in Calmly
  BY <1>2 DEF Calm
<1>8. CASE step = 1 /\ ~LoopOver /\ Calls(f.start + 1, "None")
  <2>1. ~terminated
    BY <1>0, <1>8
  <2>2. Calling(nodes, f) /\ Kid(nodes, f) = 0 /\ Given(nodes, f) = "None"
    BY <1>2, <1>8 DEF Calling, Kid, Given
  <2>. DEFINE q == f.start + 1
              l == "None"
  <2>3. Spans(h, f.start + 1, 0, q)
    <3>1. Len(nodes) \in Nat
      BY <1>2, FormFacts
    <3>2. q \in 1 .. Len(nodes) + 1
      BY <1>3, <3>1
    <3>. QED  BY <1>2, <3>2, SpanNone
  <2>4. l \in LoopStates /\ l \in Calmly /\ l = Given(nodes, f) /\ Calls(q, l)
    BY <1>8, <2>2 DEF LoopStates, Calmly
  <2>. HIDE DEF l, q
  <2>. QED  BY <1>1, <1>2, <1>4, <2>1, <2>2, <2>3, <2>4, StepCalls
<1>9. CASE step = 2 /\ f.cond /\ Calls(cursor, f.loop)
  <2>1. ~terminated /\ k = 1
    BY <1>2, <1>3, <1>6, <1>9 DEF Unasked
  <2>2. Calling(nodes, f) /\ Kid(nodes, f) = k /\ Given(nodes, f) = f.loop
    BY <1>2, <1>9, <2>1 DEF Calling, Kid, Given
  <2>3. nodes[cursor][1] = "StatementList"
    <3>1. nodes[f.start][1] = "WhileLoop" /\ k \in Nat
      BY <1>2, <2>1 DEF What
    <3>. QED  BY <1>2, <1>3, <1>5, <2>1, <3>1, KidKinds
  <2>. DEFINE l == f.loop
  <2>4. l \in LoopStates /\ l = Given(nodes, f) /\ Calls(cursor, l)
    BY <1>3, <1>9, <2>2
  <2>. HIDE DEF l
  <2>. QED  BY <1>1, <1>2, <1>4, <1>5, <2>1, <2>2, <2>3, <2>4, StepCalls
<1>10. CASE (step = 1 /\ LoopOver /\ Skips(3)) \/ (step = 2 /\ ~f.cond /\ Skips(3))
  <2>. DEFINE g == [f EXCEPT !.step = 3]
  <2>1. k = 1
    BY <1>0, <1>6, <1>10
  <2>2. g.step = 3 /\ g.ls = f.ls /\ What(nodes, g) = "WhileLoop"
          => Behind(nodes, g, k + 1, terminated) /\ ~Unasked(nodes, g)
    <3>. HIDE DEF g
    <3>. QED  BY <2>1, BehindIs DEF Unasked
  <2>. HIDE DEF g
  <2>4. Skips(3)
    BY <1>10, Zenon
  <2>3. g = [f EXCEPT !.step = 3] /\ 3 \in Nat /\ step \in Nat /\ k \in Nat /\ k < a /\ 3 <= a + 1 /\ 3 > 0
    BY <1>3, <2>1 DEF g
  <2>. QED  BY <1>1, <1>3, <1>4, <1>5, <1>7, <2>2, <2>3, <2>4, PassesKid
<1>11. CASE step = 3 /\ Returns(f.ls, cursor, FALSE)
  <2>1. Spans(h, f.start + 1, Arity(nodes, f), cursor)
    BY <1>3, <1>5, <1>6, <1>11
  <2>2. 3 \in Nat /\ 3 > 0
    OBVIOUS
  <2>. QED  BY <1>1, <1>4, <1>11, <2>1, <2>2, WholeReturns
<1>. QED  BY <1>8, <1>9, <1>10, <1>11, <1>4, Zenon

LEMMA ForLoopStep ==
  ASSUME NEW h, Machine(h), ForLoop, UNCHANGED nodes
  PROVE  Machine(h)'
<1>. DEFINE f == Innermost
            a == Arity(nodes, f)
<1>. SUFFICES ASSUME NEW step \in {1, 2, 3}, Is("ForLoop", step),
                     \/ step = 1 /\ Calls(cursor, "None")
                     \/ step = 2 /\ ~LoopOver /\ Calls(cursor, f.loop)
                     \/ step = 2 /\ Skips(3)
                     \/ step = 3 /\ Returns(f.ls, cursor, FALSE)
              PROVE  Machine(h)'
  BY Zenon DEF ForLoop
<1>1. UNCHANGED <<nodes, terminated>>
  BY DEF ForLoop, effects, Draws
<1>2. /\ Running /\ toSkip = 0 /\ What(nodes, f) = "ForLoop" /\ f.step = step /\ Form(nodes, h)
      /\ step # 0 => \E k \in 0 .. a : Spans(h, f.start + 1, k, cursor) /\ Behind(nodes, f, k, terminated)
      /\ Calm(nodes, f) => f.ls \in Calmly
  BY AtStep
<1>3. /\ a = 2 /\ Fits(nodes, h, f) /\ f \in Activation /\ f.ls \in LoopStates /\ f.loop \in LoopStates
      /\ f.start \in 1 .. Len(nodes)
      /\ Unasked(nodes, f) => ~terminated
  BY <1>2, AtNode
<1>4. f = Innermost /\ "ForLoop" \in Compound
  BY DEF Compound
<1>0. LoopOver <=> terminated \/ f.loop = "Break"
  BY DEF LoopOver
<1>. HIDE DEF f
<1>5. PICK k \in 0 .. 2 : Spans(h, f.start + 1, k, cursor) /\ Behind(nodes, f, k, terminated)
  BY <1>2, <1>3
<1>6. k = step - 1
  BY <1>2, <1>5, BehindIs
<1>7. f.ls \in Calmly
  BY <1>2 DEF Calm
<1>8. CASE step = 1 /\ Calls(cursor, "None")
  <2>1. ~terminated
    BY <1>2, <1>3, <1>8 DEF Unasked
  <2>2. Calling(nodes, f) /\ Kid(nodes, f) = k /\ Given(nodes, f) = "None"
    BY <1>2, <1>6, <1>8 DEF Calling, Kid, Given
  <2>. DEFINE l == "None"
  <2>4. l \in LoopStates /\ l \in Calmly /\ l = Given(nodes, f) /\ Calls(cursor, l)
    BY <1>8, <2>2 DEF LoopStates, Calmly
  <2>. HIDE DEF l
  <2>. QED  BY <1>1, <1>2, <1>4, <1>5, <2>1, <2>2, <2>4, StepCalls
<1>9. CASE step = 2 /\ ~LoopOver /\ Calls(cursor, f.loop)
  <2>1. ~terminated /\ k = 1
    BY <1>0, <1>6, <1>9
  <2>2. Calling(nodes, f) /\ Kid(nodes, f) = k /\ Given(nodes, f) = f.loop
    BY <1>2, <1>9, <2>1 DEF Calling, Kid, Given
  <2>3. nodes[cursor][1] = "StatementList"
    <3>1. nodes[f.start][1] = "ForLoop" /\ k \in Nat
      BY <1>2, <2>1 DEF What
    <3>. QED  BY <1>2, <1>3, <1>5, <2>1, <3>1, KidKinds
  <2>. DEFINE l == f.loop
  <2>4. l \in LoopStates /\ l = Given(nodes, f) /\ Calls(cursor, l)
    BY <1>3, <1>9, <2>2
  <2>. HIDE DEF l
  <2>. QED  BY <1>1, <1>2, <1>4, <1>5, <2>1, <2>2, <2>3, <2>4, StepCalls
<1>10. CASE step = 2 /\ Skips(3)
  <2>. DEFINE g == [f EXCEPT !.step = 3]
  <2>1. k = 1
    BY <1>6, <1>10
  <2>2. g.step = 3 /\ g.ls = f.ls /\ What(nodes, g) = "ForLoop"
          => Behind(nodes, g, k + 1, terminated) /\ ~Unasked(nodes, g)
    <3>. HIDE DEF g
    <3>. QED  BY <2>1, BehindIs DEF Unasked
  <2>. HIDE DEF g
  <2>3. g = [f EXCEPT !.step = 3] /\ 3 \in Nat /\ 2 \in Nat /\ k \in Nat /\ k < a /\ 3 <= a + 1 /\ 3 > 0
    BY <1>3, <2>1 DEF g
  <2>. QED  BY <1>1, <1>3, <1>4, <1>5, <1>7, <1>10, <2>2, <2>3, PassesKid
<1>11. CASE step = 3 /\ Returns(f.ls, cursor, FALSE)
  <2>1. Spans(h, f.start + 1, Arity(nodes, f), cursor)
    BY <1>3, <1>5, <1>6, <1>11
  <2>2. 3 \in Nat /\ 3 > 0
    OBVIOUS
  <2>. QED  BY <1>1, <1>4, <1>11, <2>1, <2>2, WholeReturns
<1>. QED  BY <1>8, <1>9, <1>10, <1>11, <1>4, Zenon

LEMMA ListCompStep ==
  ASSUME NEW h, Machine(h), ListComp, UNCHANGED nodes
  PROVE  Machine(h)'
<1>. DEFINE f == Innermost
            a == Arity(nodes, f)
            Past == IF IsPast(cursor)                        THEN Throws("past_end")
                    ELSE IF KindAt(cursor) # "Comprehension" THEN Throws("invalid_type")
                    ELSE Calls(cursor + 1, f.ls)
            Marks == /\ GoesOn([f EXCEPT !.step = 5, !.end = cursor])
                     /\ UNCHANGED <<cursor, toSkip, ending>>
<1>. SUFFICES ASSUME NEW step \in {1, 2, 3, 4, 5}, Is("ListComp", step),
                     \/ step = 1 /\ Skips(2)
                     \/ step = 2 /\ Past
                     \/ step = 3 /\ Skips(4)
                     \/ step = 4 /\ Marks
                     \/ step = 5 /\ Returns(f.ls, f.end, TRUE)
                     \/ step = 5 /\ ~LoopOver /\ Calls(f.start + 1, f.loop)
              PROVE  Machine(h)'
  BY Zenon DEF ListComp
<1>1. UNCHANGED <<nodes, terminated>>
  BY DEF ListComp, effects, Draws
<1>2. /\ Running /\ toSkip = 0 /\ What(nodes, f) = "ListComp" /\ f.step = step /\ Form(nodes, h)
      /\ step # 0 => \E k \in 0 .. a : Spans(h, f.start + 1, k, cursor) /\ Behind(nodes, f, k, terminated)
      /\ Calm(nodes, f) => f.ls \in Calmly
  BY AtStep
<1>3. /\ a = 4 /\ Fits(nodes, h, f) /\ f \in Activation /\ f.ls \in LoopStates /\ f.loop \in LoopStates
      /\ f.loop \in Looping /\ f.start \in 1 .. Len(nodes) /\ f.cond \in BOOLEAN
      /\ Unasked(nodes, f) => ~terminated
      /\ Walking(nodes, h, stack, cursor, 0, terminated) /\ f = stack[Len(stack)]
  BY <1>2, AtNode
<1>4. f = Innermost /\ "ListComp" \in Compound /\ What(nodes, f) = nodes[f.start][1]
  BY DEF Compound, What
<1>0. LoopOver <=> terminated \/ f.loop = "Break"
  BY DEF LoopOver
<1>. HIDE DEF f, Past, Marks
<1>5. PICK k \in 0 .. 4 : Spans(h, f.start + 1, k, cursor) /\ Behind(nodes, f, k, terminated)
  BY <1>2, <1>3
<1>6. /\ step \in {1, 2} => k = step - 1
      /\ step \in {3, 4} => k = step
  BY <1>2, <1>5, BehindIs
<1>7. f.ls \in Calmly
  BY <1>2 DEF Calm
<1>8. CASE step = 1 /\ Skips(2)
  <2>. DEFINE g == [f EXCEPT !.step = 2]
  <2>1. k = 0 /\ ~terminated
    BY <1>2, <1>3, <1>6, <1>8 DEF Unasked
  <2>2. g.step = 2 /\ g.ls = f.ls /\ What(nodes, g) = "ListComp"
          => Behind(nodes, g, k + 1, terminated)
    <3>. HIDE DEF g
    <3>. QED  BY <2>1, BehindIs
  <2>. HIDE DEF g
  <2>3. g = [f EXCEPT !.step = 2] /\ 2 \in Nat /\ 1 \in Nat /\ k \in Nat /\ k < a /\ 2 <= a + 1 /\ 2 > 0
    BY <1>3, <2>1 DEF g
  <2>. QED  BY <1>1, <1>3, <1>4, <1>5, <1>7, <1>8, <2>1, <2>2, <2>3, PassesKid
<1>9. CASE step = 2 /\ Past
  <2>1. k = 1 /\ ~terminated
    BY <1>2, <1>3, <1>6, <1>9 DEF Unasked
  <2>2. nodes[cursor][1] = "Comprehension" /\ Spans(h, f.start + 1, 2, cursor + 1)
    <3>1. Spans(h, f.start + 1, 1, cursor) /\ 1 \in Nat /\ nodes[f.start][1] = "ListComp"
      BY <1>2, <1>4, <1>5, <2>1
    <3>. QED  BY <1>2, <1>3, <3>1, KidKinds, Zenon
  <2>3. ~IsPast(cursor)
    <3>1. nodes \in Seq(NodeSet)
      BY <1>2 DEF Form
    <3>2. DOMAIN nodes = 1 .. Len(nodes)
      BY <3>1, LenProperties
    <3>3. k \in Nat /\ Children(nodes[f.start]) = 4 /\ k < 4
      BY <1>3, <2>1 DEF Arity
    <3>4. cursor \in 1 .. Len(nodes)
      BY <1>2, <1>3, <1>5, <3>3, KidStarts, ZenonT(60)
    <3>. QED  BY <3>2, <3>4 DEF IsPast
  <2>. DEFINE q == cursor + 1
              l == f.ls
  <2>4. Calls(q, l)
    BY <1>9, <2>2, <2>3, Zenon DEF Past, KindAt
  <2>5. Calling(nodes, f) /\ Kid(nodes, f) = 2 /\ Given(nodes, f) = l
    BY <1>2, <1>9 DEF Calling, Kid, Given
  <2>6. l \in LoopStates /\ l \in Calmly /\ Spans(h, f.start + 1, 2, q)
    BY <1>3, <1>7, <2>2
  <2>. HIDE DEF q, l
  <2>. QED  BY <1>1, <1>2, <1>4, <2>1, <2>4, <2>5, <2>6, StepCalls
<1>10. CASE step = 3 /\ Skips(4)
  <2>. DEFINE g == [f EXCEPT !.step = 4]
  <2>1. k = 3
    BY <1>6, <1>10
  <2>2. g.step = 4 /\ g.ls = f.ls /\ What(nodes, g) = "ListComp"
          => Behind(nodes, g, k + 1, terminated) /\ ~Unasked(nodes, g)
    <3>. HIDE DEF g
    <3>. QED  BY <2>1, BehindIs DEF Unasked
  <2>. HIDE DEF g
  <2>3. g = [f EXCEPT !.step = 4] /\ 4 \in Nat /\ 3 \in Nat /\ k \in Nat /\ k < a /\ 4 <= a + 1 /\ 4 > 0
    BY <1>3, <2>1 DEF g
  <2>. QED  BY <1>1, <1>3, <1>4, <1>5, <1>7, <1>10, <2>2, <2>3, PassesKid
<1>11. CASE step = 4 /\ Marks
  <2>. DEFINE g == [f EXCEPT !.step = 5, !.end = cursor]
  <2>1. k = 4 /\ cursor \in Nat
    <3>1. cursor \in 1 .. Len(nodes) + 1 /\ Len(nodes) \in Nat
      BY <1>2, FormFacts DEF Machine
    <3>. QED  BY <1>6, <1>11, <3>1
  <2>2. g = [f EXCEPT !.step = 5, !.end = cursor]
    OBVIOUS
  <2>. HIDE DEF g
  <2>3. /\ g \in Activation /\ g.start = f.start /\ g.ls = f.ls /\ g.step = 5 /\ g.loop = f.loop
        /\ g.end = cursor
    <3>1. f \in Activation /\ f.loop \in LoopStates /\ cursor \in Nat
      BY <1>3, <2>1
    <3>2. g = [start |-> f.start, ls |-> f.ls, loop |-> f.loop, step |-> 5, cond |-> f.cond,
               end |-> cursor]
      BY <2>2, <3>1 DEF Activation
    <3>. QED  BY <3>1, <3>2 DEF Activation
  <2>4. /\ stack' = [stack EXCEPT ![Len(stack)] = g] /\ cursor' = cursor /\ toSkip' = 0
        /\ ending' = ending /\ terminated' = terminated /\ nodes' = nodes
    BY <1>1, <1>2, <1>11, <2>2 DEF Marks, GoesOn
  <2>5. What(nodes, g) = "ListComp" /\ Arity(nodes, g) = 4
    BY <1>2, <1>3, <2>3 DEF What, Arity
  <2>6. Fits(nodes, h, g)
    BY <1>3, <1>4, <1>5, <1>7, <2>1, <2>3, <2>5 DEF Fits
  <2>7. Inmost(nodes, h, g, cursor, 0, terminated)
    <3>1. Behind(nodes, g, 4, terminated)
      BY <2>3, <2>5, BehindIs
    <3>2. Stands(nodes, h, g, cursor, terminated)
      BY <1>5, <2>1, <2>3, <2>5, <3>1 DEF Stands
    <3>3. Spans(h, cursor, 0, cursor)
      <4>1. cursor \in 1 .. Len(nodes) + 1
        BY DEF Machine
      <4>. QED  BY <1>2, <4>1, SpanNone
    <3>4. ~Unasked(nodes, g)
      BY <2>3, <2>5 DEF Unasked
    <3>. QED  BY <3>2, <3>3, <3>4 DEF Inmost
  <2>8. Walking(nodes, h, [stack EXCEPT ![Len(stack)] = g], cursor, 0, terminated)
    BY <1>2, <1>3, <2>3, <2>6, <2>7, GoKeeps
  <2>9. Walking(nodes, h, stack', cursor', toSkip', terminated')
    BY <2>4, <2>8
  <2>10. terminated' \in BOOLEAN
    BY <2>4 DEF Machine
  <2>. QED  BY <1>2, <2>4, <2>9, <2>10, GoesOnWalking
<1>12. CASE step = 5 /\ Returns(f.ls, f.end, TRUE)
  <2>1. Spans(h, f.start + 1, Arity(nodes, f), f.end)
    BY <1>2, <1>3, <1>12 DEF Fits
  <2>2. 5 \in Nat /\ 5 > 0
    OBVIOUS
  <2>. DEFINE q == f.end
  <2>3. Returns(f.ls, q, TRUE) /\ Spans(h, f.start + 1, Arity(nodes, f), q)
    BY <1>12, <2>1
  <2>. HIDE DEF q
  <2>. QED  BY <1>1, <1>4, <1>12, <2>2, <2>3, WholeReturns
<1>13. CASE step = 5 /\ ~LoopOver /\ Calls(f.start + 1, f.loop)
  <2>1. ~terminated
    BY <1>0, <1>13
  <2>2. Calling(nodes, f) /\ Kid(nodes, f) = 0 /\ Given(nodes, f) = f.loop
    BY <1>2, <1>13 DEF Calling, Kid, Given
  <2>. DEFINE q == f.start + 1
              l == f.loop
  <2>3. Spans(h, f.start + 1, 0, q)
    <3>1. Len(nodes) \in Nat
      BY <1>2, FormFacts
    <3>2. q \in 1 .. Len(nodes) + 1
      BY <1>3, <3>1
    <3>. QED  BY <1>2, <3>2, SpanNone
  <2>4. nodes[q][1] = "Act"
    <3>. HIDE DEF q
    <3>1. 0 \in Nat /\ nodes[f.start][1] = "ListComp"
      BY <1>2, <1>4
    <3>. QED  BY <1>2, <1>3, <2>3, <3>1, KidKinds, Zenon
  <2>5. l \in LoopStates /\ l = Given(nodes, f) /\ Calls(q, l)
    BY <1>3, <1>13, <2>2
  <2>. HIDE DEF l, q
  <2>. QED  BY <1>1, <1>2, <1>4, <2>1, <2>2, <2>3, <2>4, <2>5, StepCalls
<1>. QED  BY <1>8, <1>9, <1>10, <1>11, <1>12, <1>13, <1>4, Zenon

LEMMA StopsStep ==
  ASSUME NEW h, Machine(h), Stops, UNCHANGED nodes
  PROVE  Machine(h)'
<1>1. Running /\ toSkip = 0 /\ UNCHANGED <<nodes, terminated>>
  BY DEF Stops, effects
<1>2. ~IsPast(Innermost.start)
  BY <1>1, AtNode
<1>3. Throws("out_of_draws")
  BY <1>2 DEF Stops
<1>. QED  BY <1>1, <1>3, StepThrows

-----------------------------------------------------------------------------
(* What a walk has drawn and done so far. *)
SoFar(d, l, b) == d \in Seq(BOOLEAN) /\ Len(d) <= MaxDraws /\ l \in Seq(Nat) /\ b \in BOOLEAN

WalkInv == SoFar(draws, trace, continued) /\ \E h : Machine(h)

LEMMA DrawsKeeps ==
  ASSUME SoFar(draws, trace, continued), NEW outcome \in BOOLEAN, Draws(outcome)
  PROVE  SoFar(draws, trace, continued)'
<1>1. draws \in Seq(BOOLEAN) /\ Len(draws) < MaxDraws /\ draws' = Append(draws, outcome)
      /\ trace' = trace /\ continued' = continued
  BY DEF Draws, SoFar
<1>2. draws' \in Seq(BOOLEAN) /\ Len(draws') = Len(draws) + 1 /\ Len(draws) \in Nat
  BY <1>1, AppendProperties, LenProperties
<1>3. Len(draws') <= MaxDraws
  BY <1>1, <1>2, MaxDrawsAssumption
<1>. QED  BY <1>1, <1>2, <1>3 DEF SoFar

(* The first activation starts at the one node that the code is.           *)
LEMMA WalkStarts == WalkInit => WalkInv
<1>. SUFFICES ASSUME WalkInit PROVE WalkInv
  OBVIOUS
<1>. DEFINE c == nodes
            f == Begun(1, "None")
<1>1. IsSuite(c)
  BY CodeIsWhole DEF WalkInit
<1>2. PICK h : Form(c, h)
  BY <1>1 DEF IsSuite, Whole, Balanced, Form
<1>3. Len(c) \in Nat /\ 1 \in 1 .. Len(c) /\ c[1][1] = "StatementList"
  BY <1>1, <1>2, FormFacts DEF IsSuite
<1>4. /\ cursor = 1 /\ stack = <<f>> /\ toSkip = 0 /\ terminated = FALSE /\ ending = "none"
      /\ draws = <<>> /\ trace = <<>> /\ continued = FALSE
  BY DEF WalkInit
<1>5. f = [start |-> 1, ls |-> "None", loop |-> "TopLevel", step |-> 0, cond |-> FALSE, end |-> 0]
  BY DEF Begun
<1>. HIDE DEF f, c
<1>6. f \in Activation
  BY <1>5 DEF Activation, LoopStates
<1>7. f.start = 1 /\ f.ls = "None" /\ f.loop = "TopLevel" /\ f.step = 0
  BY <1>5
<1>8. Fits(c, h, f)
  BY <1>3, <1>6, <1>7 DEF Fits, Looping, Calmly
<1>9. Inmost(c, h, f, 1, 0, FALSE)
  <2>1. Spans(h, 1, 0, 1)
    <3>1. 1 \in 1 .. Len(c) + 1
      BY <1>3
    <3>. QED  BY <1>2, <3>1, SpanNone
  <2>. QED  BY <1>7, <2>1 DEF Inmost, Stands
<1>10. stack \in Seq(Activation) /\ stack # <<>> /\ Len(stack) = 1 /\ stack[1] = f
  BY <1>4, <1>6
<1>11. Walking(c, h, stack, cursor, toSkip, terminated)
  <2>1. Chained(c, h, stack)
    BY <1>8, <1>10 DEF Chained
  <2>. QED  BY <1>4, <1>7, <1>9, <1>10, <2>1 DEF Walking
<1>12. Machine(h)
  <2>1. nodes = c
    BY DEF c
  <2>2. cursor \in 1 .. Len(c) + 1 /\ toSkip \in Nat /\ terminated \in BOOLEAN
    <3>1. 1 \in 1 .. Len(c) + 1
      BY <1>3
    <3>. QED  BY <1>4, <3>1
  <2>3. stack[1].ls = "None"
    BY <1>7, <1>10
  <2>4. CursorAtEnd
    BY <1>4 DEF CursorAtEnd
  <2>. QED  BY <1>2, <1>4, <1>10, <1>11, <2>1, <2>2, <2>3, <2>4 DEF Machine
<1>13. SoFar(draws, trace, continued)
  <2>1. Len(draws) = 0 /\ draws \in Seq(BOOLEAN) /\ trace \in Seq(Nat) /\ continued \in BOOLEAN
    <3>1. draws = <<>> /\ trace = <<>> /\ continued = FALSE
      BY <1>4
    <3>2. <<>> \in Seq(BOOLEAN) /\ <<>> \in Seq(Nat) /\ Len(<<>>) = 0
      BY EmptySeq
    <3>. QED  BY <3>1, <3>2
  <2>2. Len(draws) <= MaxDraws
    BY <2>1, MaxDrawsAssumption
  <2>. QED  BY <2>1, <2>2 DEF SoFar
<1>. QED  BY <1>12, <1>13 DEF WalkInv

(* Every step of the machine.                                              *)
LEMMA MachineSteps ==
  ASSUME NEW h, Machine(h), WalkNext
  PROVE  Machine(h)'
<1>0. UNCHANGED nodes
  BY DEF WalkNext
<1>1. CASE Skip
  BY <1>0, <1>1, SkipStep
<1>2. CASE Act
  BY <1>0, <1>2, ActStep
<1>3. CASE Quiet
  BY <1>0, <1>3, QuietStep
<1>4. CASE Jump("Break") \/ Jump("Continue")
  BY <1>0, <1>4, JumpStep DEF Jumps
<1>5. CASE ReturnNode
  BY <1>0, <1>5, ReturnStep
<1>6. CASE \E outcome \in BOOLEAN : Test(outcome)
  BY <1>0, <1>6, TestStep
<1>7. CASE Enter
  BY <1>0, <1>7, EnterStep
<1>8. CASE StatementList
  BY <1>0, <1>8, StatementListStep
<1>9. CASE If
  BY <1>0, <1>9, IfStep
<1>10. CASE IfElse
  BY <1>0, <1>10, IfElseStep
<1>11. CASE WhileLoop
  BY <1>0, <1>11, WhileLoopStep
<1>12. CASE ForLoop
  BY <1>0, <1>12, ForLoopStep
<1>13. CASE ListComp
  BY <1>0, <1>13, ListCompStep
<1>14. CASE Stops
  BY <1>0, <1>14, StopsStep
<1>15. CASE Halted
  BY <1>0, <1>15 DEF Halted, effects, Machine, CursorAtEnd, Running
<1>. QED  BY <1>1, <1>2, <1>3, <1>4, <1>5, <1>6, <1>7, <1>8, <1>9, <1>10, <1>11, <1>12, <1>13,
             <1>14, <1>15 DEF WalkNext, Walks

(* And what it draws and does in it.                                       *)
LEMMA DoneSteps ==
  ASSUME WalkInv, WalkNext
  PROVE  SoFar(draws, trace, continued)'
<1>0. SoFar(draws, trace, continued)
  BY DEF WalkInv
<1>1. CASE UNCHANGED effects
  BY <1>0, <1>1 DEF effects, SoFar
<1>2. CASE Act
  <2>1. PICK h : Machine(h)
    BY DEF WalkInv
  <2>2. Is("Act", 0)
    BY <1>2 DEF Act
  <2>3. cursor \in 1 .. Len(nodes) /\ Form(nodes, h)
    <3>1. Running /\ toSkip = 0 /\ cursor = Innermost.start /\ Form(nodes, h)
      BY <2>1, <2>2, AtStep
    <3>. QED  BY <2>1, <3>1, AtNode
  <2>4. nodes[cursor][2] \in Nat
    <3>1. nodes[cursor] \in NodeSet
      BY <2>3, FormFacts
    <3>. QED  BY <3>1, ChildrenOf
  <2>5. trace' \in Seq(Nat)
    <3>1. trace \in Seq(Nat) /\ (trace' = trace \/ trace' = Append(trace, nodes[cursor][2]))
      BY <1>0, <1>2 DEF Act, SoFar
    <3>. QED  BY <2>4, <3>1, AppendProperties, SMTT(30)
  <2>. QED  BY <1>0, <1>2, <2>5 DEF Act, SoFar
<1>3. CASE \E outcome \in BOOLEAN : Draws(outcome)
  BY <1>0, <1>3, DrawsKeeps
<1>4. CASE Jump("Break") \/ Jump("Continue")
  BY <1>0, <1>4 DEF Jump, SoFar
<1>5. CASE ReturnNode
  BY <1>0, <1>5 DEF ReturnNode, SoFar
<1>6. Walks => \/ UNCHANGED effects \/ Act \/ \E outcome \in BOOLEAN : Draws(outcome)
               \/ Jump("Break") \/ Jump("Continue") \/ ReturnNode
  <2>1. /\ Skip => UNCHANGED effects
        /\ Quiet => UNCHANGED effects
        /\ Enter => UNCHANGED effects
        /\ StatementList => UNCHANGED effects
        /\ If => UNCHANGED effects
        /\ IfElse => UNCHANGED effects
        /\ WhileLoop => UNCHANGED effects
        /\ Stops => UNCHANGED effects
    BY Zenon DEF Skip, Quiet, Enter, StatementList, If, IfElse, WhileLoop, Stops
  <2>2. TRUE \in BOOLEAN /\ FALSE \in BOOLEAN
    OBVIOUS
  <2>3. ForLoop => UNCHANGED effects \/ \E outcome \in BOOLEAN : Draws(outcome)
    BY <2>2, Zenon DEF ForLoop
  <2>4. ListComp => UNCHANGED effects \/ \E outcome \in BOOLEAN : Draws(outcome)
    BY <2>2, Zenon DEF ListComp
  <2>5. \A outcome \in BOOLEAN : Test(outcome) => Draws(outcome)
    BY Zenon DEF Test
  <2>. QED  BY <2>1, <2>3, <2>4, <2>5, Zenon DEF Walks
<1>. QED  BY <1>1, <1>2, <1>3, <1>4, <1>5, <1>6 DEF WalkNext, Halted

LEMMA WalkSteps == WalkInv /\ [WalkNext]_walkVars => WalkInv'
<1>. SUFFICES ASSUME WalkInv, [WalkNext]_walkVars PROVE WalkInv'
  OBVIOUS
<1>1. CASE WalkNext
  <2>1. PICK h : Machine(h)
    BY DEF WalkInv
  <2>2. Machine(h)'
    BY <1>1, <2>1, MachineSteps
  <2>3. SoFar(draws, trace, continued)'
    BY <1>1, DoneSteps
  <2>. QED  BY <2>2, <2>3 DEF WalkInv
<1>2. CASE UNCHANGED walkVars
  BY <1>2 DEF walkVars, WalkInv, SoFar, Machine, CursorAtEnd, Running
<1>. QED  BY <1>1, <1>2

LEMMA WalkInvIsInvariant == WalkSpec => []WalkInv
BY WalkStarts, WalkSteps, PTL DEF WalkSpec

(* execute_next and skip_next, for every function body: every read finds a *)
(* node of a kind that is expected there.                                  *)
THEOREM WalkTypeCorrect == WalkSpec => []WalkTypeOK
<1>1. WalkInv => WalkTypeOK
  BY DEF WalkInv, SoFar, Machine, WalkTypeOK
<1>. QED  BY <1>1, WalkInvIsInvariant, PTL

(* Wherever a body jumps, repeats, breaks out or returns, execution and    *)
(* skipping agree on where its statements end.                             *)
THEOREM EndsAtEnd == WalkSpec => []CursorAtEnd
<1>1. WalkInv => CursorAtEnd
  BY DEF WalkInv, Machine
<1>. QED  BY <1>1, WalkInvIsInvariant, PTL
=============================================================================
