----------------------------- MODULE NamesProofs -----------------------------
(***************************************************************************)
(* Theorems about Names, for every set of names and values and every depth *)
(* limit.  The invariant is about chains of scopes, not only the variable: *)
(* an assignment of a pair goes through a chain that is never a state.     *)
(***************************************************************************)
EXTENDS Names, TLAPS, FiniteSetTheorems

NewNames(ss) ==
  \A i, j \in 1 .. Len(ss), n \in Identifiers :
    j < i /\ ~ss[i].requires /\ ss[i].values[n] # Unbound
      => ss[j].values[n] = Unbound

Chain(ss) ==
  /\ ss \in Seq(Scope)
  /\ Len(ss) \in 1 .. MaxDepth
  /\ ss[1].requires = FALSE
  /\ NewNames(ss)

(* All that a step may change of the variables and what it may not change. *)
Respects(ss, tt) ==
  \A i \in 1 .. Len(ss), n \in Identifiers :
    tt[i].values[n] # ss[i].values[n]
      => \A j \in (i + 1) .. Len(ss) : ss[j].requires => n \in ss[j].tags

SameTags(ss, tt) ==
  /\ Len(tt) = Len(ss)
  /\ \A i \in 1 .. Len(ss) : tt[i].requires = ss[i].requires /\ tt[i].tags = ss[i].tags

-----------------------------------------------------------------------------
(* A set of numbers has a least one: their initial segments are finite,    *)
(* and the strict subset relation on finite sets is well-founded.          *)
LEMMA LeastNumber ==
  ASSUME NEW T, T \subseteq Nat, T # {}
  PROVE  \E x \in T : \A y \in T : x <= y
<1> DEFINE Below(x) == {k \in Nat : k < x}
           Segments == {Below(x) : x \in T}
<1>1. \A x \in Nat : Below(x) \in FiniteSubsetsOf(Nat)
  <2> SUFFICES ASSUME NEW x \in Nat PROVE IsFiniteSet(Below(x))
    BY DEF FiniteSubsetsOf
  <2>1. Below(x) \in SUBSET Nat /\ \A s \in Below(x) : s <= x
    OBVIOUS
  <2> HIDE DEF Below
  <2> QED
    BY <2>1, FS_BoundedSetOfNaturals
<1>2. Segments \subseteq FiniteSubsetsOf(Nat) /\ Segments # {}
  BY <1>1
<1> HIDE DEF Segments
<1>3. PICK b \in Segments : \A c \in Segments : <<c, b>> \notin StrictSubsetOrdering(Nat)
  BY <1>2, FS_StrictSubsetOrderingWellFounded, WFMin, Zenon
<1>4. PICK x \in T : b = Below(x)
  BY DEF Segments
<1>5. ASSUME NEW y \in T, y < x
      PROVE  FALSE
  <2>1. Below(y) \in Segments /\ Below(y) \in SUBSET Nat /\ Below(x) \in SUBSET Nat
    BY DEF Segments
  <2>2. Below(y) \subseteq Below(x) /\ Below(y) # Below(x)
    <3>1. y \in Below(x) /\ y \notin Below(y)
      BY <1>5
    <3> QED
      BY <1>5, <3>1
  <2> QED
    BY <1>3, <1>4, <2>1, <2>2 DEF StrictSubsetOrdering
<1> QED
  BY <1>5

(* Every assignment arrives somewhere: the global scope passes none on.    *)
LEMMA TargetExists ==
  ASSUME NEW ss \in Seq(Scope), Len(ss) > 0, NEW n \in Identifiers
  PROVE  /\ Target(ss, n) \in 1 .. Len(ss)
         /\ ~PassesOn(ss, Target(ss, n), n)
         /\ \A j \in (Target(ss, n) + 1) .. Len(ss) : PassesOn(ss, j, n)
<1> DEFINE T == {k \in Nat : k < Len(ss) /\ ~PassesOn(ss, Len(ss) - k, n)}
           Stops(i) == /\ ~PassesOn(ss, i, n)
                       /\ \A j \in (i + 1) .. Len(ss) : PassesOn(ss, j, n)
<1>0. Len(ss) \in Nat
  OBVIOUS
<1>1. Len(ss) - 1 \in T
  BY <1>0 DEF PassesOn
<1>2. PICK x \in T : \A y \in T : x <= y
  BY <1>1, LeastNumber
<1>3. Len(ss) - x \in 1 .. Len(ss) /\ ~PassesOn(ss, Len(ss) - x, n)
  BY <1>0, <1>2
<1>4. ASSUME NEW j \in (Len(ss) - x + 1) .. Len(ss)
      PROVE  PassesOn(ss, j, n)
  <2>1. Len(ss) - j \in Nat /\ Len(ss) - j < x /\ Len(ss) - j < Len(ss)
        /\ Len(ss) - (Len(ss) - j) = j
    BY <1>0, <1>2
  <2>2. Len(ss) - j \notin T
    BY <1>2, <2>1
  <2> QED
    BY <2>1, <2>2
<1>5. \E i \in 1 .. Len(ss) : Stops(i)
  BY <1>3, <1>4
<1>6. Target(ss, n) = CHOOSE i \in 1 .. Len(ss) : Stops(i)
  BY DEF Target
<1> HIDE DEF Stops
<1>7. Target(ss, n) \in 1 .. Len(ss) /\ Stops(Target(ss, n))
  BY <1>5, <1>6, Zenon
<1> QED
  BY <1>7 DEF Stops

(* One entry of one scope changes. *)
LEMMA SetValueEffect ==
  ASSUME NEW ss \in Seq(Scope), Len(ss) > 0, NEW n \in Identifiers, NEW v \in Values
  PROVE  /\ SetValue(ss, n, v) \in Seq(Scope)
         /\ SameTags(ss, SetValue(ss, n, v))
         /\ \A i \in 1 .. Len(ss), m \in Identifiers :
              SetValue(ss, n, v)[i].values[m]
                = IF i = Target(ss, n) /\ m = n THEN v ELSE ss[i].values[m]
<1> DEFINE t == Target(ss, n)
           new == [ss[t] EXCEPT !.values[n] = v]
<1>1. t \in 1 .. Len(ss)
  BY TargetExists
<1>2. ss[t] \in Scope
  BY <1>1
<1>3. /\ new \in Scope
      /\ new.requires = ss[t].requires /\ new.tags = ss[t].tags
      /\ \A m \in Identifiers : new.values[m] = IF m = n THEN v ELSE ss[t].values[m]
  BY <1>2 DEF Scope, Bindings
<1>4. SetValue(ss, n, v) = [ss EXCEPT ![t] = new]
  BY DEF SetValue
<1> HIDE DEF t, new
<1>5. /\ SetValue(ss, n, v) \in Seq(Scope)
      /\ Len(SetValue(ss, n, v)) = Len(ss)
      /\ \A i \in 1 .. Len(ss) : SetValue(ss, n, v)[i] = IF i = t THEN new ELSE ss[i]
  BY <1>1, <1>3, <1>4
<1>6. SameTags(ss, SetValue(ss, n, v))
  BY <1>3, <1>5 DEF SameTags
<1> QED
  BY <1>3, <1>5, <1>6 DEF t

(* An assignment leaves a chain: the scope it arrives at either is not a   *)
(* loop body or knows of no other scope with the name; and no body above   *)
(* it holds the name, or the assignment would not have passed it.          *)
LEMMA SetValueChain ==
  ASSUME NEW ss, Chain(ss), NEW n \in Identifiers, NEW v \in Values
  PROVE  /\ Chain(SetValue(ss, n, v))
         /\ SameTags(ss, SetValue(ss, n, v))
         /\ Respects(ss, SetValue(ss, n, v))
<1> DEFINE t == Target(ss, n)
           tt == SetValue(ss, n, v)
<1>0. ss \in Seq(Scope) /\ Len(ss) \in Nat /\ Len(ss) > 0
  BY MaxDepthAssumption DEF Chain
<1>1. /\ t \in 1 .. Len(ss)
      /\ ~PassesOn(ss, t, n)
      /\ \A j \in (t + 1) .. Len(ss) : PassesOn(ss, j, n)
  BY <1>0, TargetExists
<1>2. /\ tt \in Seq(Scope)
      /\ SameTags(ss, tt)
      /\ \A i \in 1 .. Len(ss), m \in Identifiers :
           tt[i].values[m] = IF i = t /\ m = n THEN v ELSE ss[i].values[m]
  BY <1>0, SetValueEffect
<1> HIDE DEF t, tt
<1>3. NewNames(tt)
  <2> SUFFICES ASSUME NEW i \in 1 .. Len(ss), NEW j \in 1 .. Len(ss), NEW m \in Identifiers,
                      j < i, ~ss[i].requires, tt[i].values[m] # Unbound
               PROVE  tt[j].values[m] = Unbound
    BY <1>2 DEF NewNames, SameTags
  <2>1. CASE m # n \/ (i # t /\ j # t)
    BY <1>2, <2>1 DEF Chain, NewNames
  <2>2. CASE m = n /\ i = t
    <3>1. ~HasValue(ss, i - 1, n)
      BY <1>0, <1>1, <2>2 DEF PassesOn
    <3>2. j \in 1 .. (i - 1) /\ j # t
      BY <1>0, <2>2
    <3> QED
      BY <1>2, <2>2, <3>1, <3>2 DEF HasValue
  <2>3. CASE m = n /\ j = t /\ i # t
    <3>1. HasValue(ss, i - 1, n)
      BY <1>0, <1>1, <2>3 DEF PassesOn
    <3>2. ss[i].values[n] # Unbound
      BY <1>2, <2>3
    <3>3. PICK k \in 1 .. (i - 1) : ss[k].values[n] # Unbound
      BY <3>1 DEF HasValue
    <3>4. k \in 1 .. Len(ss) /\ k < i
      BY <1>0
    <3> QED
      BY <3>2, <3>3, <3>4 DEF Chain, NewNames
  <2> QED
    BY <2>1, <2>2, <2>3
<1>4. Chain(tt)
  BY <1>0, <1>2, <1>3 DEF Chain, SameTags
<1>5. Respects(ss, tt)
  BY <1>0, <1>1, <1>2 DEF Respects, PassesOn
<1> QED
  BY <1>2, <1>4, <1>5 DEF tt

(* The scope of a loop body or of a call on top of a chain. *)
LEMMA AppendChain ==
  ASSUME NEW ss, Chain(ss), Len(ss) < MaxDepth,
         NEW s \in Scope, s.requires \/ s.values = NoBindings
  PROVE  /\ Chain(Append(ss, s))
         /\ Len(Append(ss, s)) = Len(ss) + 1
         /\ \A i \in 1 .. Len(ss) : Append(ss, s)[i] = ss[i]
<1>0. ss \in Seq(Scope) /\ Len(ss) \in Nat /\ Len(ss) > 0
  BY MaxDepthAssumption DEF Chain
<1>1. /\ Append(ss, s) \in Seq(Scope)
      /\ Len(Append(ss, s)) = Len(ss) + 1
      /\ Append(ss, s)[Len(ss) + 1] = s
      /\ \A i \in 1 .. Len(ss) : Append(ss, s)[i] = ss[i]
  BY <1>0
<1>2. NewNames(Append(ss, s))
  <2> SUFFICES ASSUME NEW i \in 1 .. Len(ss) + 1, NEW j \in 1 .. Len(ss) + 1,
                      NEW n \in Identifiers, j < i,
                      ~Append(ss, s)[i].requires, Append(ss, s)[i].values[n] # Unbound
               PROVE  Append(ss, s)[j].values[n] = Unbound
    BY <1>1 DEF NewNames
  <2>1. i # Len(ss) + 1
    BY <1>1 DEF NoBindings
  <2>2. i \in 1 .. Len(ss) /\ j \in 1 .. Len(ss)
    BY <1>0, <2>1
  <2> QED
    BY <1>1, <2>2 DEF Chain, NewNames
<1> QED
  BY <1>0, <1>1, <1>2, MaxDepthAssumption DEF Chain

(* The scope of a loop body is empty. *)
LEMMA BodyScopeType == BodyScope \in Scope /\ BodyScope.values = NoBindings
BY DEF BodyScope, Scope, Bindings, NoBindings

-----------------------------------------------------------------------------
(* A chain goes to a chain, and the variables of callers are kept. *)
Goes(tt) ==
  /\ Chain(tt)
  /\ \A i \in 1 .. Len(scopes), n \in Identifiers :
       i <= Len(tt) /\ tt[i].values[n] # scopes[i].values[n]
         => \A j \in (i + 1) .. Len(scopes) : scopes[j].requires => n \in scopes[j].tags

(* An assignment from the topmost scope of a chain that holds the same     *)
(* function scopes as the state does.                                      *)
LEMMA GoesOn ==
  ASSUME NEW ss, Goes(ss), Chain(scopes), Len(ss) >= Len(scopes),
         \A i \in 1 .. Len(scopes) :
           ss[i].requires = scopes[i].requires /\ ss[i].tags = scopes[i].tags,
         NEW n \in Identifiers, NEW v \in Values
  PROVE  /\ Goes(SetValue(ss, n, v))
         /\ SameTags(ss, SetValue(ss, n, v))
<1> DEFINE tt == SetValue(ss, n, v)
<1>0. Len(ss) \in Nat /\ Len(scopes) \in Nat
  BY DEF Goes, Chain
<1>1. Chain(tt) /\ SameTags(ss, tt) /\ Respects(ss, tt)
  BY SetValueChain DEF Goes
<1> HIDE DEF tt
<1>2. ASSUME NEW i \in 1 .. Len(scopes), NEW m \in Identifiers,
             tt[i].values[m] # scopes[i].values[m],
             NEW j \in (i + 1) .. Len(scopes), scopes[j].requires
      PROVE  m \in scopes[j].tags
  <2>1. i \in 1 .. Len(ss) /\ i <= Len(ss) /\ j \in (i + 1) .. Len(ss) /\ j \in 1 .. Len(scopes)
    BY <1>0
  <2>2. CASE tt[i].values[m] # ss[i].values[m]
    BY <1>1, <1>2, <2>1, <2>2 DEF Respects
  <2>3. CASE tt[i].values[m] = ss[i].values[m]
    BY <1>2, <2>1, <2>3 DEF Goes
  <2> QED
    BY <2>2, <2>3
<1> QED
  BY <1>1, <1>2 DEF Goes, tt

(* A step may leave the chain as it is ... *)
LEMMA Stays ==
  ASSUME Chain(scopes)
  PROVE  Goes(scopes)
BY DEF Goes

(* ... or put an empty body or the scope of a call on top of it. *)
LEMMA Enters ==
  ASSUME Chain(scopes), Room, NEW s \in Scope, s.requires \/ s.values = NoBindings
  PROVE  /\ Goes(Append(scopes, s))
         /\ Len(Append(scopes, s)) >= Len(scopes)
         /\ \A i \in 1 .. Len(scopes) :
              /\ Append(scopes, s)[i].requires = scopes[i].requires
              /\ Append(scopes, s)[i].tags = scopes[i].tags
<1>1. Len(scopes) \in Nat
  BY DEF Chain
<1> QED
  BY <1>1, AppendChain DEF Room, Goes

(* Two assignments in a row. *)
LEMMA GoesOnTwice ==
  ASSUME NEW ss, Goes(ss), Chain(scopes), Len(ss) >= Len(scopes),
         \A i \in 1 .. Len(scopes) :
           ss[i].requires = scopes[i].requires /\ ss[i].tags = scopes[i].tags,
         NEW m \in Identifiers, NEW n \in Identifiers, NEW v \in Values, NEW w \in Values
  PROVE  Goes(SetValue(SetValue(ss, m, v), n, w))
<1> DEFINE tt == SetValue(ss, m, v)
<1>1. Goes(tt) /\ SameTags(ss, tt)
  BY GoesOn
<1> HIDE DEF tt
<1>2. /\ Len(tt) >= Len(scopes)
      /\ \A i \in 1 .. Len(scopes) :
           tt[i].requires = scopes[i].requires /\ tt[i].tags = scopes[i].tags
  <2>1. Len(scopes) \in Nat /\ Len(ss) \in Nat
    BY DEF Goes, Chain
  <2> QED
    BY <1>1, <2>1 DEF SameTags
<1>3. Goes(SetValue(tt, n, w))
  BY <1>1, <1>2, GoesOn
<1> QED
  BY <1>3 DEF tt

(* The chain of the variable: it begins with the global scope. *)
LEMMA InitChain == Init => Chain(scopes)
<1> SUFFICES ASSUME Init PROVE Chain(scopes)
  OBVIOUS
<1>1. GlobalScope \in Scope /\ GlobalScope.requires = FALSE
  BY DEF GlobalScope, Scope, Bindings, NoBindings
<1>2. scopes = <<GlobalScope>> /\ scopes \in Seq(Scope) /\ Len(scopes) = 1
      /\ scopes[1] = GlobalScope
  BY <1>1 DEF Init
<1>3. NewNames(scopes)
  BY <1>2 DEF NewNames
<1> QED
  BY <1>1, <1>2, <1>3, MaxDepthAssumption DEF Chain

(* Every action takes a chain to a chain and keeps the callers' variables. *)
LEMMA NextGoes ==
  ASSUME Chain(scopes), Next
  PROVE  Goes(scopes')
<1>0. scopes \in Seq(Scope) /\ Len(scopes) \in Nat /\ Len(scopes) > 0
  BY MaxDepthAssumption DEF Chain
<1>1. ASSUME NEW n \in Identifiers, NEW v \in Values, Assign(n, v)
      PROVE  Goes(scopes')
  <2>1. Goes(SetValue(scopes, n, v))
    BY <1>0, Stays, GoesOn
  <2> QED
    BY <1>1, <2>1 DEF Assign
<1>2. ASSUME NEW n \in Identifiers, NEW v \in Values, EnterFor(n, v)
      PROVE  Goes(scopes')
  <2>1. Goes(SetValue(Append(scopes, BodyScope), n, v))
    BY <1>2, Enters, BodyScopeType, GoesOn DEF EnterFor
  <2> QED
    BY <1>2, <2>1 DEF EnterFor
<1>3. ASSUME NEW m \in Identifiers, NEW n \in Identifiers, NEW v \in Values, NEW w \in Values,
             AssignPair(m, n, v, w)
      PROVE  Goes(scopes')
  <2>1. Goes(SetValue(SetValue(scopes, m, v), n, w))
    BY <1>0, Stays, GoesOnTwice
  <2> QED
    BY <1>3, <2>1 DEF AssignPair
<1>4. ASSUME NEW m \in Identifiers, NEW n \in Identifiers, NEW v \in Values, NEW w \in Values,
             EnterForPair(m, n, v, w)
      PROVE  Goes(scopes')
  <2>1. Goes(SetValue(SetValue(Append(scopes, BodyScope), m, v), n, w))
    BY <1>4, Enters, BodyScopeType, GoesOnTwice DEF EnterForPair
  <2> QED
    BY <1>4, <2>1 DEF EnterForPair
<1>5. ASSUME NEW n \in Identifiers, DeclareGlobal(n)
      PROVE  Goes(scopes')
  <2> DEFINE l == Len(scopes)
             new == [scopes[l] EXCEPT !.tags = @ \cup {n}]
  <2>1. scopes[l] \in Scope
    BY <1>0
  <2>2. new \in Scope /\ new.requires = scopes[l].requires /\ new.values = scopes[l].values
    BY <2>1 DEF Scope
  <2>3. scopes' = [scopes EXCEPT ![l] = new]
    BY <1>5 DEF DeclareGlobal
  <2> HIDE DEF new
  <2>4. /\ scopes' \in Seq(Scope)
        /\ Len(scopes') = Len(scopes)
        /\ \A i \in 1 .. Len(scopes) : /\ scopes'[i].requires = scopes[i].requires
                                       /\ scopes'[i].values = scopes[i].values
    BY <1>0, <2>2, <2>3
  <2>5. NewNames(scopes')
    BY <2>4 DEF Chain, NewNames
  <2> QED
    BY <1>0, <2>4, <2>5 DEF Goes, Chain
<1>6. ASSUME NEW args \in Bindings, Call(args)
      PROVE  Goes(scopes')
  <2>1. CalleeScope(args) \in Scope /\ CalleeScope(args).requires
    BY DEF CalleeScope, Scope
  <2> QED
    BY <1>6, <2>1, Enters DEF Call
<1>7. CASE EnterWhile
  BY <1>7, Enters, BodyScopeType DEF EnterWhile
<1>8. CASE Leave
  <2>1. Len(scopes) > 1 /\ scopes' = SubSeq(scopes, 1, Len(scopes) - 1)
    BY <1>8 DEF Leave, InFunction
  <2>2. /\ scopes' \in Seq(Scope)
        /\ Len(scopes') = Len(scopes) - 1
        /\ \A i \in 1 .. (Len(scopes) - 1) : scopes'[i] = scopes[i]
    BY <1>0, <2>1
  <2>3. NewNames(scopes')
    BY <1>0, <2>2, SMTT(30) DEF Chain, NewNames
  <2> QED
    BY <1>0, <2>1, <2>2, <2>3, MaxDepthAssumption DEF Goes, Chain
<1> QED
  BY <1>1, <1>2, <1>3, <1>4, <1>5, <1>6, <1>7, <1>8 DEF Next

(* The chain of the variable: every step keeps it. *)
LEMMA NextChain == Chain(scopes) /\ [Next]_scopes => Chain(scopes)'
<1> SUFFICES ASSUME Chain(scopes), [Next]_scopes PROVE Chain(scopes')
  BY DEF Chain, NewNames
<1>1. CASE Next
  BY <1>1, NextGoes DEF Goes
<1>2. CASE UNCHANGED scopes
  BY <1>2
<1> QED
  BY <1>1, <1>2

(* Nothing above the scope an assignment arrives at hides what it assigned:*)
(* a loop body there never holds the name, and a function holds it only if *)
(* it is shadowed.                                                         *)
LEMMA AssignReads ==
  ASSUME Chain(scopes)
  PROVE  AssignedIsRead
<1> SUFFICES ASSUME NEW n \in Identifiers \ Builtins, NEW v \in Values,
                    Assign(n, v), ~Shadowed(n)
             PROVE  Lookup(scopes', n) = v
  BY DEF AssignedIsRead
<1> DEFINE t == Target(scopes, n)
<1>0. scopes \in Seq(Scope) /\ Len(scopes) \in Nat /\ Len(scopes) > 0
  BY MaxDepthAssumption DEF Chain
<1>1. t \in 1 .. Len(scopes) /\ \A j \in (t + 1) .. Len(scopes) : PassesOn(scopes, j, n)
  BY <1>0, TargetExists
<1>2. /\ Len(scopes') = Len(scopes)
      /\ \A i \in 1 .. Len(scopes) :
           scopes'[i].values[n] = IF i = t THEN v ELSE scopes[i].values[n]
  BY <1>0, SetValueEffect DEF Assign, SameTags
<1> HIDE DEF t
<1>3. ASSUME NEW j \in (t + 1) .. Len(scopes)
      PROVE  scopes[j].values[n] = Unbound
  <2>0. j \in 1 .. Len(scopes)
    BY <1>1
  <2>1. CASE scopes[j].requires
    BY <1>1, <2>0, <2>1 DEF PassesOn, Shadowed
  <2>2. CASE ~scopes[j].requires
    <3>1. PICK k \in 1 .. (j - 1) : scopes[k].values[n] # Unbound
      BY <1>1, <2>2 DEF PassesOn, HasValue
    <3>2. k \in 1 .. Len(scopes) /\ k < j
      BY <2>0
    <3> QED
      BY <2>0, <2>2, <3>1, <3>2 DEF Chain, NewNames
  <2> QED
    BY <2>1, <2>2
<1>4. t \in Holders(scopes', n) /\ \A j \in Holders(scopes', n) : j <= t
  BY <1>0, <1>1, <1>2, <1>3, UnboundAssumption DEF Holders
<1>5. Holders(scopes', n) \subseteq Nat
  BY <1>0, <1>2 DEF Holders
<1>6. (CHOOSE i \in Holders(scopes', n) : \A j \in Holders(scopes', n) : j <= i) = t
  BY <1>4, <1>5
<1> QED
  BY <1>1, <1>2, <1>4, <1>6 DEF Lookup

-----------------------------------------------------------------------------
(* The chain of scopes is well formed: Scope's constructor.                *)
THEOREM NamesTypeOK == Spec => []TypeOK
<1>1. Init => Chain(scopes)
  BY InitChain
<1>2. Chain(scopes) /\ [Next]_scopes => Chain(scopes)'
  BY NextChain
<1>3. Chain(scopes) => TypeOK
  BY DEF Chain, TypeOK
<1> QED
  BY <1>1, <1>2, <1>3, PTL DEF Spec

(* A loop body never holds a name that a scope below it has, however deep  *)
(* the calls and loops nest: has_value and set_value agree.                *)
THEOREM NamesBodyNamesAreNew == Spec => []BodyNamesAreNew
<1>1. Init => Chain(scopes)
  BY InitChain
<1>2. Chain(scopes) /\ [Next]_scopes => Chain(scopes)'
  BY NextChain
<1>3. Chain(scopes) => BodyNamesAreNew
  BY DEF Chain, NewNames, BodyNamesAreNew
<1> QED
  BY <1>1, <1>2, <1>3, PTL DEF Spec

(* A called function changes a variable of its callers only through global *)
(* declarations of every function in between.                              *)
THEOREM NamesCalleesKeepVariables == Spec => CalleesKeepVariables
<1>1. Init => Chain(scopes)
  BY InitChain
<1>2. Chain(scopes) /\ [Next]_scopes => Chain(scopes)'
  BY NextChain
<1>3. Chain(scopes) /\ [Next]_scopes => [VariablesKept]_scopes
  BY NextGoes DEF Goes, VariablesKept
<1> QED
  BY <1>1, <1>2, <1>3, PTL DEF Spec, CalleesKeepVariables

(* After an assignment the name reads as what was assigned, in every chain *)
(* of calls and loops in which no function shadows its own global.         *)
THEOREM NamesReadsWhatWasAssigned == Spec => ReadsWhatWasAssigned
<1>1. Init => Chain(scopes)
  BY InitChain
<1>2. Chain(scopes) /\ [Next]_scopes => Chain(scopes)'
  BY NextChain
<1>3. Chain(scopes) => AssignedIsRead
  BY AssignReads
<1> QED
  BY <1>1, <1>2, <1>3, PTL DEF Spec, ReadsWhatWasAssigned
=============================================================================
