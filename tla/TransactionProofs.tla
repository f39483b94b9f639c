-------------------------- MODULE TransactionProofs --------------------------
(***************************************************************************)
(* Theorems about Ledger and Transaction, for any word size and receivers, *)
(* any amounts and prices of gas, and any width of the integers the limit  *)
(* and the bill are computed in.  The proof that money is conserved rests  *)
(* on what a fold over a finite function computes, which is proved first.  *)
(***************************************************************************)
EXTENDS Transaction, TLAPS, FiniteSetTheorems

-----------------------------------------------------------------------------
(* Sums over finite functions.  Conserved is stated with the same fold.    *)
Total(f) == FoldFunction(LAMBDA x, y : x + y, 0, f)

(* A set of numbers has a least one: their initial segments are finite,    *)
(* and the strict subset relation on finite sets is well-founded.          *)
LEMMA LeastNumber ==
  ASSUME NEW T, T \subseteq Nat, T # {}
  PROVE  \E x \in T : \A y \in T : x <= y
<1> DEFINE Below(x) == {k \in Nat : k < x}
           Segments == {Below(x) : x \in T}
<1>1. \A x \in Nat : Below(x) \in FiniteSubsetsOf(Nat)
  <2> SUFFICES ASSUME NEW x \in Nat PROVE IsFiniteSet(Below(x))
    BY DEF FiniteSubsetsOf
  <2>1. Below(x) \in SUBSET Nat /\ \A s \in Below(x) : s <= x
    OBVIOUS
  <2> HIDE DEF Below
  <2> QED
    BY <2>1, FS_BoundedSetOfNaturals
<1>2. Segments \subseteq FiniteSubsetsOf(Nat) /\ Segments # {}
  BY <1>1
<1> HIDE DEF Segments
<1>3. PICK b \in Segments : \A c \in Segments : <<c, b>> \notin StrictSubsetOrdering(Nat)
  BY <1>2, FS_StrictSubsetOrderingWellFounded, WFMin, Zenon
<1>4. PICK x \in T : b = Below(x)
  BY DEF Segments
<1>5. ASSUME NEW y \in T, y < x
      PROVE  FALSE
  <2>1. Below(y) \in Segments /\ Below(y) \in SUBSET Nat /\ Below(x) \in SUBSET Nat
    BY DEF Segments
  <2>2. Below(y) \subseteq Below(x) /\ Below(y) # Below(x)
    <3>1. y \in Below(x) /\ y \notin Below(y)
      BY <1>5
    <3> QED
      BY <1>5, <3>1
  <2> QED
    BY <1>3, <1>4, <2>1, <2>2 DEF StrictSubsetOrdering
<1> QED
  BY <1>5

(* A set of subsets of a finite set that has each set all of whose         *)
(* elements may be left out has them all.                                  *)
LEMMA SubsetInduction ==
  ASSUME NEW D, IsFiniteSet(D), NEW P,
         \A s \in SUBSET D : (\A x \in s : s \ {x} \in P) => s \in P
  PROVE  SUBSET D \subseteq P
<1> SUFFICES ASSUME (SUBSET D) \ P # {} PROVE FALSE
  OBVIOUS
<1>1. (SUBSET D) \ P \subseteq FiniteSubsetsOf(D)
  BY FS_Subset DEF FiniteSubsetsOf
<1>2. PICK s \in (SUBSET D) \ P : \A t \in (SUBSET D) \ P : <<t, s>> \notin StrictSubsetOrdering(D)
  BY <1>1, FS_StrictSubsetOrderingWellFounded, WFMin, Zenon
<1>3. PICK x \in s : s \ {x} \notin P
  BY <1>2
<1>4. s \ {x} \in (SUBSET D) \ P
  BY <1>3
<1>5. <<s \ {x}, s>> \in (SUBSET D) \X (SUBSET D) /\ s \ {x} \subseteq s /\ s \ {x} # s
  BY <1>3
<1>. QED  BY <1>2, <1>4, <1>5 DEF StrictSubsetOrdering

(* The partial sums of a function, in the order in which a fold chooses.   *)
Sums(g, f) ==
  /\ g \in [SUBSET DOMAIN f -> Int]
  /\ g[{}] = 0
  /\ \A s \in SUBSET DOMAIN f :
       s # {} => g[s] = f[CHOOSE x \in s : TRUE] + g[s \ {CHOOSE x \in s : TRUE}]

(* A fold over a finite function with integer values is its sum.           *)
LEMMA FoldIsSum ==
  ASSUME NEW f, IsFiniteSet(DOMAIN f), \A a \in DOMAIN f : f[a] \in Int
  PROVE  \E g : Sums(g, f) /\ Total(f) = g[DOMAIN f]
<1>. DEFINE D == DOMAIN f
            c(s) == CHOOSE x \in s : TRUE
            Small(n) == {s \in SUBSET D : Cardinality(s) <= n}
            IsSum(g, n) == g = [s \in Small(n) |-> IF s = {} THEN 0 ELSE f[c(s)] + g[s \ {c(s)}]]
            Good == {n \in Nat : \E g : IsSum(g, n)}
            Def(g) == [s \in SUBSET D |-> IF s = {} THEN 0 ELSE f[c(s)] + g[s \ {c(s)}]]
<1>1. \A s \in SUBSET D : /\ IsFiniteSet(s) /\ Cardinality(s) \in Nat
                          /\ s # {} => /\ c(s) \in s
                                       /\ Cardinality(s \ {c(s)}) = Cardinality(s) - 1
  <2>. SUFFICES ASSUME NEW s \in SUBSET D
                PROVE  /\ IsFiniteSet(s) /\ Cardinality(s) \in Nat
                       /\ s # {} => /\ c(s) \in s
                                    /\ Cardinality(s \ {c(s)}) = Cardinality(s) - 1
    OBVIOUS
  <2>1. IsFiniteSet(s) /\ Cardinality(s) \in Nat
    BY FS_Subset, FS_CardinalityType
  <2>. QED  BY <2>1, FS_RemoveElement
<1>2. ASSUME NEW n \in Nat, n = 0 \/ n - 1 \in Good
      PROVE  n \in Good
  <2>1. CASE n = 0
    <3>1. Small(0) = {{}}
      BY <1>1, FS_EmptySet
    <3>2. IsSum([s \in Small(0) |-> 0], 0)
      BY <3>1
    <3>. QED  BY <2>1, <3>2
  <2>2. CASE n > 0 /\ n - 1 \in Good
    <3>1. PICK g : IsSum(g, n - 1)
      BY <2>2
    <3>. DEFINE h == [s \in Small(n) |-> IF Cardinality(s) < n THEN g[s]
                                         ELSE f[c(s)] + g[s \ {c(s)}]]
    <3>2. \A s \in Small(n) : IF Cardinality(s) < n THEN s \in Small(n - 1)
                              ELSE s # {} /\ s \ {c(s)} \in Small(n - 1)
      BY <1>1, <2>2, FS_EmptySet
    <3>4. ASSUME NEW s \in Small(n)
          PROVE  h[s] = IF s = {} THEN 0 ELSE f[c(s)] + h[s \ {c(s)}]
      <4>1. CASE s = {}
        BY <1>1, <2>2, <3>1, <3>2, <4>1, FS_EmptySet
      <4>2. CASE s # {}
        <5>1. h[s \ {c(s)}] = g[s \ {c(s)}]
          BY <1>1, <2>2, <3>4, <4>2
        <5>2. h[s] = f[c(s)] + g[s \ {c(s)}]
          BY <3>1, <3>2, <3>4, <4>2
        <5>. QED  BY <4>2, <5>1, <5>2
      <4>. QED  BY <4>1, <4>2
    <3>5. h = [s \in Small(n) |-> h[s]]
      OBVIOUS
    <3>6. IsSum(h, n)
      <4>. HIDE DEF h, c, Small
      <4>. QED  BY <3>4, <3>5
    <3>. QED  BY <3>6
  <2>. HIDE DEF Good
  <2>. QED  BY <1>2, <2>1, <2>2
<1>3. Cardinality(D) \in Good
  <2>. HIDE DEF Good
  <2>. DEFINE Bad == {n \in Nat : n \notin Good}
  <2>1. SUFFICES ASSUME Bad # {} PROVE FALSE
    BY <1>1
  <2>2. PICK n \in Bad : \A m \in Bad : n <= m
    BY <2>1, LeastNumber
  <2>3. n = 0 \/ n - 1 \in Nat \ Bad
    BY <2>2
  <2>. QED  BY <1>2, <2>2, <2>3
<1>4. PICK g : IsSum(g, Cardinality(D))
  BY <1>3
<1>5. Small(Cardinality(D)) = SUBSET D
  BY FS_Subset
<1>6. g = Def(g)
  BY <1>4, <1>5
<1>7. Total(f) = (CHOOSE h : h = Def(h))[D]
  BY DEF Total, FoldFunction, FoldFunctionOnSet, MapThenFoldSet
<1>. HIDE DEF Small
<1>8. PICK h : h = Def(h) /\ Total(f) = h[D]
  <2>. HIDE DEF Def
  <2>. QED  BY <1>6, <1>7
<1>9. ASSUME NEW s \in SUBSET D PROVE h[s] = IF s = {} THEN 0 ELSE f[c(s)] + h[s \ {c(s)}]
  BY <1>8
<1>10. \A s \in SUBSET D : h[s] \in Int
  <2>. DEFINE P == {s \in SUBSET D : h[s] \in Int}
  <2>1. ASSUME NEW s \in SUBSET D, \A x \in s : s \ {x} \in P
        PROVE  s \in P
    <3>1. s # {} => c(s) \in s /\ h[s \ {c(s)}] \in Int /\ f[c(s)] \in Int
      <4>1. s # {} => c(s) \in s
        OBVIOUS
      <4>. HIDE DEF c
      <4>. QED  BY <2>1, <4>1
    <3>2. CASE s = {}
      <4>1. h[s] = 0
        BY <1>9, <3>2, Zenon
      <4>. QED  BY <4>1
    <3>3. CASE s # {}
      <4>1. h[s] = f[c(s)] + h[s \ {c(s)}]
        BY <1>9, <3>3, Zenon
      <4>2. h[s \ {c(s)}] \in Int /\ f[c(s)] \in Int
        BY <3>1, <3>3, Zenon
      <4>3. h[s] \in Int
        <5>. HIDE DEF c
        <5>. QED  BY <4>1, <4>2
      <4>. QED  BY <4>3
    <3>. QED  BY <3>2, <3>3
  <2>2. SUBSET D \subseteq P
    <3>. HIDE DEF P, D
    <3>1. IsFiniteSet(D)
      BY DEF D
    <3>. QED  BY <2>1, <3>1, SubsetInduction
  <2>. QED  BY <2>2
<1>11. Sums(h, f)
  <2>1. h \in [SUBSET D -> Int]
    BY <1>8, <1>10
  <2>. QED  BY <1>9, <2>1 DEF Sums
<1>. QED  BY <1>8, <1>11

(* Any element may be taken out of a sum first.                            *)
LEMMA TakeOut ==
  ASSUME NEW f, IsFiniteSet(DOMAIN f), \A a \in DOMAIN f : f[a] \in Int,
         NEW g, Sums(g, f), NEW s \in SUBSET DOMAIN f, NEW a \in s
  PROVE  g[s] = f[a] + g[s \ {a}]
<1>. DEFINE c(t) == CHOOSE x \in t : TRUE
            P == {t \in SUBSET DOMAIN f : \A x \in t : g[t] = f[x] + g[t \ {x}]}
<1>1. \A t \in SUBSET DOMAIN f : t # {} => c(t) \in t /\ g[t] = f[c(t)] + g[t \ {c(t)}]
  BY DEF Sums
<1>2. \A t \in SUBSET DOMAIN f : g[t] \in Int
  BY DEF Sums
<1>. HIDE DEF c
<1>3. ASSUME NEW t \in SUBSET DOMAIN f, \A x \in t : t \ {x} \in P
      PROVE  t \in P
  <2>. SUFFICES ASSUME NEW x \in t, x # c(t) PROVE g[t] = f[x] + g[t \ {x}]
    BY <1>1
  <2>. DEFINE y == c(t)
              r == (t \ {x}) \ {y}
  <2>1. y \in t /\ g[t] = f[y] + g[t \ {y}]
    BY <1>1
  <2>2. g[t \ {y}] = f[x] + g[r] /\ g[t \ {x}] = f[y] + g[r]
    <3>1. t \ {y} \in P /\ t \ {x} \in P /\ x \in t \ {y} /\ y \in t \ {x}
      BY <1>3, <2>1
    <3>2. r = (t \ {y}) \ {x}
      OBVIOUS
    <3>. HIDE DEF y
    <3>. QED  BY <3>1, <3>2
  <2>3. f[x] \in Int /\ f[y] \in Int /\ g[r] \in Int
    BY <1>2, <2>1
  <2>. HIDE DEF y, r
  <2>. QED  BY <2>1, <2>2, <2>3
<1>. HIDE DEF P
<1>4. SUBSET DOMAIN f \subseteq P
  <2>. DEFINE D == DOMAIN f
  <2>1. IsFiniteSet(D) /\ \A t \in SUBSET D : (\A x \in t : t \ {x} \in P) => t \in P
    BY <1>3, Zenon
  <2>. HIDE DEF D
  <2>2. SUBSET D \subseteq P
    BY <2>1, SubsetInduction, Zenon
  <2>. QED  BY <2>2 DEF D
<1>. QED  BY <1>4 DEF P

(* A sum depends on the values of its elements only.                       *)
LEMMA SameSums ==
  ASSUME NEW f, IsFiniteSet(DOMAIN f), NEW fs, Sums(fs, f), NEW g, NEW gs, Sums(gs, g),
         NEW D, D \subseteq DOMAIN f, D \subseteq DOMAIN g, \A a \in D : f[a] = g[a]
  PROVE  fs[D] = gs[D]
<1>. DEFINE P == {s \in SUBSET D : fs[s] = gs[s]}
<1>1. IsFiniteSet(D)
  BY FS_Subset
<1>2. ASSUME NEW s \in SUBSET D, \A x \in s : s \ {x} \in P
      PROVE  s \in P
  <2>1. CASE s = {}
    BY <2>1 DEF Sums
  <2>2. CASE s # {}
    <3>. DEFINE x == CHOOSE y \in s : TRUE
    <3>1. x \in s /\ f[x] = g[x] /\ fs[s \ {x}] = gs[s \ {x}]
      BY <1>2, <2>2
    <3>2. fs[s] = f[x] + fs[s \ {x}] /\ gs[s] = g[x] + gs[s \ {x}]
      BY <2>2 DEF Sums
    <3>. QED  BY <3>1, <3>2
  <2>. QED  BY <2>1, <2>2
<1>. HIDE DEF P
<1>3. SUBSET D \subseteq P
  BY <1>1, <1>2, SubsetInduction
<1>. QED  BY <1>3 DEF P

(* What is added to one value is added to the sum.                         *)
LEMMA TotalOfCredit ==
  ASSUME NEW f, IsFiniteSet(DOMAIN f), \A b \in DOMAIN f : f[b] \in Int,
         NEW a, NEW n \in Int, NEW g, DOMAIN g = DOMAIN f \cup {a},
         \A b \in DOMAIN f \ {a} : g[b] = f[b],
         g[a] = IF a \in DOMAIN f THEN f[a] + n ELSE n
  PROVE  Total(f) \in Int /\ Total(g) = Total(f) + n
<1>. DEFINE D == DOMAIN f
<1>1. IsFiniteSet(DOMAIN g) /\ \A b \in DOMAIN g : g[b] \in Int
  BY FS_AddElement
<1>2. PICK fs : Sums(fs, f) /\ Total(f) = fs[D]
  BY FoldIsSum
<1>3. PICK gs : Sums(gs, g) /\ Total(g) = gs[DOMAIN g]
  BY <1>1, FoldIsSum
<1>4. Total(g) = g[a] + gs[DOMAIN g \ {a}]
  BY <1>1, <1>3, TakeOut
<1>5. DOMAIN g \ {a} = D \ {a} /\ gs[D \ {a}] = fs[D \ {a}]
  BY <1>2, <1>3, SameSums
<1>6. fs[D] \in Int /\ fs[D \ {a}] \in Int
  BY <1>2 DEF Sums
<1>. DEFINE d == fs[D \ {a}]
<1>7. Total(g) = g[a] + d /\ d \in Int
  BY <1>4, <1>5, <1>6
<1>8. CASE a \in D
  <2>1. fs[D] = f[a] + d
    BY <1>2, <1>8, TakeOut
  <2>2. f[a] \in Int /\ g[a] = f[a] + n
    BY <1>8
  <2>. HIDE DEF D, d
  <2>. QED  BY <1>2, <1>7, <2>1, <2>2
<1>9. CASE a \notin D
  <2>1. D \ {a} = D /\ g[a] = n
    BY <1>9
  <2>2. fs[D] = d
    BY <2>1, Zenon
  <2>. HIDE DEF D, d
  <2>. QED  BY <1>2, <1>7, <2>1, <2>2
<1>. QED  BY <1>8, <1>9

(* Nothing adds up to nothing.                                             *)
LEMMA TotalOfNothing == ASSUME NEW f, DOMAIN f = {} PROVE Total(f) = 0
<1>1. IsFiniteSet(DOMAIN f)
  BY FS_EmptySet
<1>. QED  BY <1>1, FoldIsSum, ZenonT(60) DEF Sums

-----------------------------------------------------------------------------
(* The ledger.  What is true of its amounts whatever a transaction does    *)
(* besides.  The sum is over finitely many receivers: a transaction begins *)
(* with none and each payment adds at most one.                            *)
Payments ==
  /\ contract_balance \in Words /\ funds \in Words
  /\ DOMAIN send_map \subseteq Addresses /\ IsFiniteSet(DOMAIN send_map)
  /\ send_map = [a \in DOMAIN send_map |-> send_map[a]]
  /\ \A a \in DOMAIN send_map : send_map[a] \in Words
  /\ NoReceiverExceedsSpent
  /\ contract_balance + Total(send_map) = funds

LedgerInv == Payments /\ status \in Endings \cup {"running"} /\ SendNeverOverflows

(* Reducing a number that is a word already changes nothing. *)
LEMMA WordMod ==
  ASSUME NEW n \in Words
  PROVE  n % Word = n
<1>1. Word \in Nat \ {0} /\ n \in 0 .. Word - 1
  BY HalfWordAssumption DEF Word, Words
<1> HIDE DEF Word
<1> QED
  BY <1>1

(* Words are the numbers below Word. *)
LEMMA WordBounds == /\ Word \in Nat \ {0}
                    /\ \A n \in Words : n \in Nat /\ n < Word
                    /\ \A n \in Nat : n < Word => n \in Words
BY HalfWordAssumption DEF Word, Words

(* A receiver credited with at most the balance does not overflow, so the  *)
(* credit is the plain sum.                                                *)
LEMMA CreditExact ==
  ASSUME Payments, NEW a \in Addresses, NEW n \in Words, n <= contract_balance
  PROVE  /\ DOMAIN Credit(a, n) = DOMAIN send_map \cup {a}
         /\ Credit(a, n) = [b \in DOMAIN Credit(a, n) |-> Credit(a, n)[b]]
         /\ \A b \in DOMAIN send_map \ {a} : Credit(a, n)[b] = send_map[b]
         /\ a \in DOMAIN send_map => Credit(a, n)[a] = send_map[a] + n
         /\ a \notin DOMAIN send_map => Credit(a, n)[a] = n
<1>1. a \in DOMAIN send_map => send_map[a] + n \in Words
  BY WordBounds DEF Payments, NoReceiverExceedsSpent
<1>2. a \in DOMAIN send_map => (send_map[a] + n) % Word = send_map[a] + n
  BY <1>1, WordMod
<1> QED
  BY <1>2 DEF Credit

(* A credit of at most the balance that is taken from the balance keeps    *)
(* every sum, the one over all receivers included.                         *)
LEMMA CreditInv ==
  ASSUME Payments, NEW a \in Addresses, NEW n \in Words, n <= contract_balance,
         send_map' = Credit(a, n), contract_balance' = contract_balance - n, funds' = funds
  PROVE  Payments'
<1>1. /\ DOMAIN send_map' = DOMAIN send_map \cup {a}
      /\ send_map' = [b \in DOMAIN send_map' |-> send_map'[b]]
      /\ \A b \in DOMAIN send_map \ {a} : send_map'[b] = send_map[b]
      /\ a \in DOMAIN send_map => send_map'[a] = send_map[a] + n
      /\ a \notin DOMAIN send_map => send_map'[a] = n
  BY CreditExact
<1>2. /\ contract_balance \in Nat /\ contract_balance < Word /\ funds \in Nat /\ funds < Word
      /\ contract_balance <= funds /\ n \in Nat
      /\ \A b \in DOMAIN send_map : send_map[b] \in Nat /\ send_map[b] + contract_balance <= funds
  BY WordBounds DEF Payments, NoReceiverExceedsSpent
<1>3. NoReceiverExceedsSpent'
  <2> SUFFICES ASSUME NEW b \in DOMAIN send_map'
               PROVE  send_map'[b] + contract_balance' <= funds'
    BY <1>2 DEF NoReceiverExceedsSpent
  <2>1. CASE b # a
    BY <1>1, <1>2, <2>1
  <2>2. CASE b = a /\ a \in DOMAIN send_map
    BY <1>1, <1>2, <2>2
  <2>3. CASE b = a /\ a \notin DOMAIN send_map
    BY <1>1, <1>2, <2>3
  <2> QED
    BY <2>1, <2>2, <2>3
<1>4. contract_balance' \in Words
  BY <1>2, WordBounds
<1>5. \A b \in DOMAIN send_map' : send_map'[b] \in Words
  <2> SUFFICES ASSUME NEW b \in DOMAIN send_map' PROVE send_map'[b] \in Words
    OBVIOUS
  <2>1. send_map'[b] \in Nat /\ send_map'[b] + contract_balance' <= funds'
    BY <1>1, <1>2, <1>3 DEF NoReceiverExceedsSpent
  <2> QED
    BY <1>2, <2>1, WordBounds
<1>6. IsFiniteSet(DOMAIN send_map')
  BY <1>1, FS_AddElement DEF Payments
<1>7. contract_balance' + Total(send_map') = funds'
  <2>1. Total(send_map) \in Int /\ Total(send_map') = Total(send_map) + n
    <3>1. IsFiniteSet(DOMAIN send_map) /\ \A b \in DOMAIN send_map : send_map[b] \in Int
      BY <1>2 DEF Payments
    <3>2. send_map'[a] = IF a \in DOMAIN send_map THEN send_map[a] + n ELSE n
      BY <1>1
    <3>3. n \in Int
      BY <1>2
    <3> QED
      BY <1>1, <3>1, <3>2, <3>3, TotalOfCredit
  <2> QED
    BY <1>2, <2>1 DEF Payments
<1>8. DOMAIN send_map' \subseteq Addresses /\ funds' \in Words
  BY <1>1 DEF Payments
<1> QED
  BY <1>1, <1>3, <1>4, <1>5, <1>6, <1>7, <1>8 DEF Payments

(* Steps that leave the amounts alone. *)
LEMMA SamePayments ==
  ASSUME Payments, UNCHANGED <<contract_balance, send_map, funds>>
  PROVE  Payments'
BY DEF Payments, NoReceiverExceedsSpent

(* A new transaction has no receivers. *)
LEMMA NoPayments ==
  ASSUME NEW b \in Words, contract_balance' = b, funds' = b, send_map' = [a \in {} |-> 0]
  PROVE  Payments'
<1>1. DOMAIN send_map' = {} /\ send_map' = [a \in DOMAIN send_map' |-> send_map'[a]]
  OBVIOUS
<1>2. IsFiniteSet(DOMAIN send_map') /\ Total(send_map') = 0
  BY <1>1, FS_EmptySet, TotalOfNothing
<1>3. b \in Nat
  BY WordBounds
<1> QED
  BY <1>1, <1>2, <1>3 DEF Payments, NoReceiverExceedsSpent

(* send moves exactly the amount. *)
LEMMA SendStep ==
  ASSUME Payments, NEW a \in Addresses, NEW v \in Amounts, Send(a, v)
  PROVE  /\ Payments'
         /\ status' = "running"
         /\ v \in Words /\ v > 0 /\ v <= contract_balance
         /\ contract_balance' = contract_balance - v
         /\ send_map' = Credit(a, v)
<1>1. v \in Words /\ v > 0 /\ v <= contract_balance
  BY WordBounds DEF Payments, Send, BadAmount, Amounts
<1>2. a \in DOMAIN send_map => Credit(a, v)[a] = send_map[a] + v
  BY <1>1, CreditExact
<1>3. /\ contract_balance \in Nat /\ contract_balance < Word /\ v \in Nat
      /\ \A b \in DOMAIN send_map : send_map[b] \in Nat
  BY <1>1, WordBounds DEF Payments
<1>4. ~CreditOverflows(a, v)
  BY <1>1, <1>2, <1>3 DEF CreditOverflows
<1>5. Debit(v) = contract_balance - v
  <2>1. contract_balance - v \in Words
    BY <1>1, <1>3, WordBounds
  <2> QED
    BY <2>1, WordMod DEF Debit
<1>6. /\ send_map' = Credit(a, v) /\ contract_balance' = contract_balance - v
      /\ status' = "running" /\ funds' = funds
  BY <1>1, <1>3, <1>4, <1>5 DEF Send
<1> QED
  BY <1>1, <1>6, CreditInv

(* suicide adds the whole balance at once: the sum still fits, and it is   *)
(* only when there is nothing to add that the check takes it for overflow. *)
LEMMA SuicideStep ==
  ASSUME Payments, NEW a \in Addresses, Suicide(a)
  PROVE  /\ Payments'
         /\ status' \in {"suicided", "suicide_overflow"}
         /\ contract_balance' <= contract_balance
         /\ send_map' = Credit(a, contract_balance)
         /\ status' = "suicide_overflow" => contract_balance = 0
<1> DEFINE n == contract_balance
<1>1. n \in Words /\ n <= contract_balance /\ n \in Nat
  BY WordBounds DEF Payments
<1>2. a \in DOMAIN send_map => Credit(a, n)[a] = send_map[a] + n
  BY <1>1, CreditExact
<1>3. \A b \in DOMAIN send_map : send_map[b] \in Nat
  BY WordBounds DEF Payments
<1>4. CreditOverflows(a, n) => n = 0
  BY <1>1, <1>2, <1>3 DEF CreditOverflows
<1>5. /\ send_map' = Credit(a, n) /\ funds' = funds
      /\ contract_balance' = contract_balance - n
      /\ status' \in {"suicided", "suicide_overflow"}
      /\ status' = "suicide_overflow" => n = 0
  BY <1>1, <1>4 DEF Suicide
<1> QED
  BY <1>1, <1>5, CreditInv

(* Every step of the ledger, in whatever it is a part of. *)
LEMMA PaymentsStep ==
  ASSUME Payments, LedgerNext
  PROVE  /\ Payments'
         /\ status' \in Endings \cup {"running"}
         /\ status' \notin {"receiver_overflow", "sender_overflow"}
<1>1. ASSUME NEW b \in Words, Reset(b)
      PROVE  Payments' /\ status' = "running"
  BY <1>1, NoPayments DEF Reset
<1>2. ASSUME NEW why \in {"returned", "reverted", "bad_address", "bad_amount"}, Fail(why)
      PROVE  Payments' /\ status' = why
  BY <1>2, SamePayments DEF Fail
<1>3. ASSUME Return \/ Revert
      PROVE  Payments' /\ status' \in {"returned", "reverted"}
  BY <1>2, <1>3 DEF Return, Revert
<1>4. ASSUME NEW a \in Addresses, Suicide(a) \/ SendBadAddress(a)
      PROVE  Payments' /\ status' \in {"suicided", "suicide_overflow", "bad_address"}
  BY <1>2, <1>4, SuicideStep DEF SendBadAddress
<1>5. ASSUME NEW a \in Addresses, NEW v \in Amounts, SendBadAmount(a, v) \/ Send(a, v)
      PROVE  Payments' /\ status' \in {"running", "bad_amount"}
  BY <1>2, <1>5, SendStep DEF SendBadAmount
<1> QED
  BY <1>1, <1>3, <1>4, <1>5 DEF LedgerNext, Endings

(* Nothing was paid when the transaction begins. *)
LEMMA LedgerInitInv == LedgerInit => LedgerInv
<1> SUFFICES ASSUME LedgerInit PROVE LedgerInv
  OBVIOUS
<1>1. /\ contract_balance \in Words /\ funds = contract_balance /\ contract_balance \in Nat
      /\ DOMAIN send_map = {} /\ send_map = [a \in DOMAIN send_map |-> send_map[a]]
  BY WordBounds DEF LedgerInit
<1>2. IsFiniteSet(DOMAIN send_map) /\ Total(send_map) = 0
  BY <1>1, FS_EmptySet, TotalOfNothing
<1> QED
  BY <1>1, <1>2 DEF LedgerInit, LedgerInv, Payments, NoReceiverExceedsSpent, SendNeverOverflows

(* Every step keeps the sums within a word. *)
LEMMA LedgerStepInv == LedgerInv /\ [LedgerNext]_ledger => LedgerInv'
<1>1. ASSUME LedgerInv, LedgerNext PROVE LedgerInv'
  BY <1>1, PaymentsStep DEF LedgerInv, SendNeverOverflows
<1>2. ASSUME LedgerInv, UNCHANGED ledger PROVE LedgerInv'
  BY <1>2, SamePayments DEF LedgerInv, SendNeverOverflows, ledger
<1> QED
  BY <1>1, <1>2

(* A credit of at most the balance leaves every receiver at least what it  *)
(* had.                                                                    *)
LEMMA CreditGrows ==
  ASSUME Payments, NEW a \in Addresses, NEW n \in Words, n <= contract_balance,
         send_map' = Credit(a, n)
  PROVE  \A b \in DOMAIN send_map : b \in DOMAIN send_map' /\ send_map'[b] >= send_map[b]
<1>1. \A b \in DOMAIN send_map : send_map[b] \in Nat
  BY WordBounds DEF Payments
<1>2. n \in Nat
  BY WordBounds
<1>3. /\ DOMAIN send_map' = DOMAIN send_map \cup {a}
      /\ \A b \in DOMAIN send_map \ {a} : send_map'[b] = send_map[b]
      /\ a \in DOMAIN send_map => send_map'[a] = send_map[a] + n
  BY CreditExact
<1> QED
  BY <1>1, <1>2, <1>3

(* No step takes a payment back. *)
LEMMA LedgerStepGrows ==
  ASSUME Payments, [LedgerNext]_ledger, status = "running"
  PROVE  /\ contract_balance' <= contract_balance
         /\ \A a \in DOMAIN send_map : a \in DOMAIN send_map' /\ send_map'[a] >= send_map[a]
<1>1. /\ contract_balance \in Nat
      /\ \A b \in DOMAIN send_map : send_map[b] \in Nat
  BY WordBounds DEF Payments
<1>2. ASSUME UNCHANGED <<contract_balance, send_map>>
      PROVE  /\ contract_balance' <= contract_balance
             /\ \A a \in DOMAIN send_map : a \in DOMAIN send_map' /\ send_map'[a] >= send_map[a]
  BY <1>1, <1>2
<1>3. ASSUME NEW a \in Addresses, Suicide(a)
      PROVE  /\ contract_balance' <= contract_balance
             /\ \A b \in DOMAIN send_map : b \in DOMAIN send_map' /\ send_map'[b] >= send_map[b]
  <2>1. contract_balance \in Words /\ contract_balance <= contract_balance
    BY <1>1 DEF Payments
  <2> QED
    BY <1>3, <2>1, SuicideStep, CreditGrows
<1>4. ASSUME NEW a \in Addresses, NEW v \in Amounts, Send(a, v)
      PROVE  /\ contract_balance' <= contract_balance
             /\ \A b \in DOMAIN send_map : b \in DOMAIN send_map' /\ send_map'[b] >= send_map[b]
  <2>1. /\ v \in Words /\ v > 0 /\ v <= contract_balance /\ v \in Nat
        /\ contract_balance' = contract_balance - v /\ send_map' = Credit(a, v)
    BY <1>4, SendStep, WordBounds
  <2> QED
    BY <1>1, <2>1, CreditGrows
<1> QED
  BY <1>2, <1>3, <1>4
     DEF LedgerNext, Reset, Return, Revert, SendBadAddress, SendBadAmount, Fail, ledger

(* blockchain_module.cpp: the amounts of the ledger stay exact, whatever    *)
(* order of sends, suicides and reverts a program makes.                   *)
THEOREM LedgerSafe == LedgerSpec => []LedgerInv
<1> QED
  BY LedgerInitInv, LedgerStepInv, PTL DEF LedgerSpec

(* send, suicide: every amount fits in a 64-bit word.                      *)
THEOREM LedgerTyped == LedgerSpec => []LedgerTypeOK
<1>1. LedgerInv => LedgerTypeOK
  BY DEF LedgerInv, Payments, LedgerTypeOK
<1> QED
  BY <1>1, LedgerSafe, PTL

(* send and suicide: no receiver is ever promised more than the contract   *)
(* has parted with, so that every sum they make fits in a word.            *)
THEOREM ReceiversBounded == LedgerSpec => []NoReceiverExceedsSpent
<1>1. LedgerInv => NoReceiverExceedsSpent
  BY DEF LedgerInv, Payments
<1> QED
  BY <1>1, LedgerSafe, PTL

(* send, suicide, revert: money is neither made nor lost, for any number   *)
(* of receivers and any word size.                                         *)
THEOREM LedgerConserves == LedgerSpec => []Conserved
<1>1. LedgerInv => Conserved
  BY DEF LedgerInv, Payments, Conserved, Total
<1> QED
  BY <1>1, LedgerSafe, PTL

(* blockchain_module.cpp:205 and :217 are unreachable. *)
THEOREM SendExact == LedgerSpec => []SendNeverOverflows
<1>1. LedgerInv => SendNeverOverflows
  BY DEF LedgerInv
<1> QED
  BY <1>1, LedgerSafe, PTL

(* blockchain_module.cpp: within a transaction no payment is taken back    *)
(* and no money is handed to the contract.                                 *)
THEOREM LedgerMonotone == LedgerSpec => PaymentsOnlyGrow
<1>1. LedgerInv /\ [LedgerNext]_ledger =>
        [status = "running" =>
           /\ contract_balance' <= contract_balance
           /\ \A a \in DOMAIN send_map : a \in DOMAIN send_map' /\ send_map'[a] >= send_map[a]]_ledger
  BY LedgerStepGrows DEF LedgerInv
<1> QED
  BY <1>1, LedgerSafe, PTL DEF LedgerSpec, PaymentsOnlyGrow

-----------------------------------------------------------------------------
(* Transactions. *)

(* What the host offered. *)
OfferOK == gas \in Nat /\ gasprice \in 1 .. Word32 - 1

(* The step count of a transaction under way: the limit is only reached by *)
(* the charge that runs out of gas.                                        *)
Counting ==
  /\ num \in Nat
  /\ Running => rc = "none"
  /\ rc = "none" =>
       /\ num <= Limit
       /\ num = Limit <=> status = "out_of_gas"

BillInv == OfferOK /\ Counting /\ BilledWithinGas

-----------------------------------------------------------------------------
(* Division and its remainder. *)
LEMMA Division ==
  ASSUME NEW n \in Nat, NEW d \in Nat \ {0}
  PROVE  /\ n \div d \in Nat /\ (n \div d) * d <= n
         /\ n % d \in Nat /\ n % d <= n /\ n % d < d
<1>1. n = d * (n \div d) + (n % d) /\ 0 <= n % d /\ n % d < d
  OBVIOUS
<1>2. n \div d \in Int /\ n % d \in Int
  OBVIOUS
<1>3. n \div d >= 0
  BY <1>1, <1>2
<1>. DEFINE q == n \div d
            r == n % d
            m == d * q
<1>4. q \in Nat /\ m \in Nat /\ m = q * d
  BY <1>2, <1>3
<1>. HIDE DEF q, r, m
<1>5. n = m + r /\ r \in Nat
  BY <1>1, <1>2 DEF q, r, m
<1>6. m <= n /\ r <= n
  BY <1>4, <1>5
<1>. QED  BY <1>1, <1>4, <1>5, <1>6 DEF q, r, m

(* The limit, cut to 32 bits, costs no more gas than there is. *)
LEMMA LimitType == ASSUME OfferOK PROVE Limit \in Nat /\ Limit * gasprice <= gas
<1>. DEFINE q == gas \div gasprice
            s == q % Word32
<1>1. gas \in Nat /\ gasprice \in Nat \ {0} /\ Word32 \in Nat \ {0}
  BY PriceAssumption DEF OfferOK
<1>2. q \in Nat /\ q * gasprice <= gas
  BY <1>1, Division
<1>. HIDE DEF q
<1>3. s \in Nat /\ s <= q
  BY <1>1, <1>2, Division
<1>. HIDE DEF s
<1>4. s * gasprice <= q * gasprice
  BY <1>1, <1>2, <1>3
<1>5. s * gasprice \in Nat /\ q * gasprice \in Nat
  BY <1>1, <1>2, <1>3
<1>. QED  BY <1>1, <1>2, <1>3, <1>4, <1>5 DEF Limit, q, s

(* A count within the limit is billed within the gas. *)
LEMMA BillWithinGas ==
  ASSUME OfferOK, num \in Nat, num <= Limit
  PROVE  Bill \in Nat /\ Bill < Word32 /\ Bill <= gas
<1>1. gas \in Nat /\ gasprice \in Nat \ {0} /\ Word32 \in Nat \ {0}
  BY PriceAssumption DEF OfferOK
<1>2. Limit \in Nat /\ Limit * gasprice <= gas
  BY LimitType
<1>. DEFINE m == num * gasprice
            l == Limit * gasprice
<1>3. m \in Nat /\ l \in Nat /\ m <= l
  <2>. HIDE DEF Limit
  <2>. QED  BY <1>1, <1>2
<1>. HIDE DEF m
<1>4. m % Word32 \in Nat /\ m % Word32 <= m /\ m % Word32 < Word32
  BY <1>1, <1>3, Division
<1>. QED  BY <1>1, <1>2, <1>3, <1>4 DEF Bill, m

-----------------------------------------------------------------------------
(* Before the first transaction nothing is counted or billed. *)
LEMMA InitInv == Init => BillInv
BY GasAssumption, PriceAssumption
   DEF Init, BillInv, OfferOK, Counting, BilledWithinGas, Ended, Codes, Running

(* A transaction is refused, or begins with a limit that is not reached. *)
LEMMA BeginInv ==
  ASSUME BillInv, NEW b, NEW g \in Gases, NEW p \in Prices, Begin(b, g, p)
  PROVE  BillInv'
<1>1. gas' = g /\ gasprice' = p /\ num' = 0
  BY DEF Begin
<1>2. OfferOK'
  BY <1>1, GasAssumption, PriceAssumption DEF OfferOK
<1>3. Limit' \in Nat
  <2>. DEFINE q == gas' \div gasprice'
  <2>1. gas' \in Nat /\ gasprice' \in Nat \ {0} /\ Word32 \in Nat \ {0}
    BY <1>2, PriceAssumption DEF OfferOK
  <2>2. q \in Nat
    BY <2>1, Division
  <2>. HIDE DEF q
  <2>3. q % Word32 \in Nat
    BY <2>1, <2>2, Division
  <2>. QED  BY <2>3 DEF Limit, q
<1>4. CASE Refuse(b)
  BY <1>1, <1>2, <1>4
     DEF Refuse, BillInv, Counting, BilledWithinGas, Ended, Codes, Running
<1>5. CASE Limit' # 0 /\ Reset(b) /\ rc' = "none"
  BY <1>1, <1>2, <1>3, <1>5
     DEF Reset, BillInv, Counting, BilledWithinGas, Ended, Codes, Running
<1>. QED  BY <1>4, <1>5 DEF Begin

(* Whatever is paid for leaves a step for the charge that throws. *)
LEMMA PayInv ==
  ASSUME BillInv, Pay, status' # "out_of_gas"
  PROVE  BillInv'
<1>1. /\ num \in Nat /\ num + 1 < Limit /\ num' = num + 1 /\ rc = "none"
      /\ UNCHANGED <<gas, gasprice, used_g, rc>>
  BY DEF Pay, Affordable, offer, BillInv, Counting
<1>2. Limit' = Limit /\ OfferOK'
  BY <1>1 DEF Limit, BillInv, OfferOK
<1>3. Limit \in Nat
  BY LimitType DEF BillInv
<1>. HIDE DEF Limit
<1>4. Counting'
  BY <1>1, <1>2, <1>3 DEF Counting, Running
<1>. QED  BY <1>1, <1>2, <1>4 DEF BillInv, BilledWithinGas, Ended, Codes

(* Nothing the ledger does ends a transaction with its gas used up. *)
LEMMA MoneyStatus == ASSUME Running, LedgerNext PROVE status' # "out_of_gas"
BY DEF Running, LedgerNext, Reset, Return, Revert, Suicide,
       SendBadAddress, SendBadAmount, Send, Fail

(* The charge that throws reaches the limit and does not pass it. *)
LEMMA OutOfGasInv == ASSUME BillInv, OutOfGas PROVE BillInv'
<1>1. /\ num \in Nat /\ num <= Limit /\ num # Limit /\ ~(num + 1 < Limit) /\ rc = "none"
      /\ num' = num + 1 /\ status' = "out_of_gas" /\ UNCHANGED <<gas, gasprice, used_g, rc>>
  BY DEF OutOfGas, Affordable, offer, BillInv, Counting, Running
<1>2. Limit' = Limit /\ OfferOK'
  BY <1>1 DEF Limit, BillInv, OfferOK
<1>3. Limit \in Nat
  BY LimitType DEF BillInv
<1>. HIDE DEF Limit
<1>4. Counting'
  BY <1>1, <1>2, <1>3 DEF Counting, Running
<1>. QED  BY <1>1, <1>2, <1>4 DEF BillInv, BilledWithinGas, Ended, Codes

(* A returning call only sets the count back. *)
LEMMA CallReturnsInv == ASSUME BillInv, CallReturns PROVE BillInv'
<1>1. /\ num \in Nat /\ num <= Limit /\ num # Limit /\ rc = "none"
      /\ num' \in 1 .. num - 1 /\ UNCHANGED <<gas, gasprice, used_g, rc, status>>
      /\ status = "running"
  BY DEF CallReturns, offer, ledger, BillInv, Counting, Running
<1>2. Limit' = Limit /\ OfferOK'
  BY <1>1 DEF Limit, BillInv, OfferOK
<1>3. Limit \in Nat
  BY LimitType DEF BillInv
<1>. HIDE DEF Limit
<1>4. Counting'
  BY <1>1, <1>2, <1>3 DEF Counting, Running
<1>. QED  BY <1>1, <1>2, <1>4 DEF BillInv, BilledWithinGas, Ended, Codes

(* The bill is written when the count is final. *)
LEMMA FinishInv == ASSUME BillInv, Finish PROVE BillInv'
<1>1. /\ num \in Nat /\ num <= Limit /\ (num = Limit <=> status = "out_of_gas")
      /\ UNCHANGED <<gas, gasprice, num, status>> /\ status # "running"
      /\ used_g' = Bill /\ rc' = ReturnCode
  BY DEF Finish, offer, ledger, BillInv, Counting, Running
<1>2. Limit' = Limit /\ OfferOK'
  BY <1>1 DEF Limit, BillInv, OfferOK
<1>3. used_g' <= gas
  BY <1>1, BillWithinGas DEF BillInv
<1>4. rc' # "none" /\ (rc' = "0x70" <=> status = "out_of_gas")
  BY <1>1 DEF ReturnCode
<1>. HIDE DEF Limit
<1>. QED  BY <1>1, <1>2, <1>3, <1>4 DEF BillInv, Counting, BilledWithinGas, Running

(* Nothing else matters to the bill. *)
LEMMA UnchangedInv ==
  ASSUME BillInv, UNCHANGED <<gas, gasprice, num, used_g, rc, status>>
  PROVE  BillInv'
BY DEF BillInv, OfferOK, Counting, BilledWithinGas, Running, Ended, Limit

(* Every step keeps the bill within the gas. *)
LEMMA StepInv == BillInv /\ [Next]_vars => BillInv'
<1>. SUFFICES ASSUME BillInv, [Next]_vars PROVE BillInv'
  OBVIOUS
<1>1. ASSUME NEW b \in Words, NEW g \in Gases, NEW p \in Prices, Begin(b, g, p)
      PROVE  BillInv'
  BY <1>1, BeginInv
<1>2. CASE Calculate
  BY <1>2, PayInv DEF Calculate, Pay, ledger, Running
<1>3. CASE RunTimeError
  BY <1>3, PayInv DEF RunTimeError
<1>4. CASE UseStore
  BY <1>4, PayInv DEF UseStore
<1>5. CASE UseMoney
  BY <1>5, PayInv, MoneyStatus DEF UseMoney, Pay
<1>6. CASE OutOfGas
  BY <1>6, OutOfGasInv
<1>7. CASE CallReturns
  BY <1>7, CallReturnsInv
<1>8. CASE Finish
  BY <1>8, FinishInv
<1>9. CASE Keep \/ UNCHANGED vars
  BY <1>9, UnchangedInv DEF Keep, vars, ledger, offer
<1>. QED
  BY <1>1, <1>2, <1>3, <1>4, <1>5, <1>6, <1>7, <1>8, <1>9 DEF Next

(* execute_program: whatever the gas, its price and the way a program      *)
(* ends, the host is billed no more than it offered, and the steps it is   *)
(* billed for are the whole limit exactly when the program ran out of gas. *)
THEOREM TransactionBill == Spec => []BilledWithinGas
<1>1. BillInv => BilledWithinGas
  BY DEF BillInv
<1>. QED  BY <1>1, InitInv, StepInv, PTL DEF Spec

-----------------------------------------------------------------------------
(* What reading each key returns, and what it would in a new transaction.  *)
View == [k \in Keys |-> Store!Get(k)]

KeptView == [k \in Keys |-> Kept!Get(k)]

(* What std::map::operator[] and std::map::erase leave of a map. *)
LEMMA WithMap ==
  ASSUME NEW R, NEW map, Store!IsMap(map, R), NEW k \in Keys, NEW d \in R
  PROVE  /\ Store!IsMap(Store!With(map, k, d), R)
         /\ Store!Has(Store!With(map, k, d), k) /\ Store!With(map, k, d)[k] = d
         /\ \A j \in Keys : j # k =>
              /\ Store!Has(Store!With(map, k, d), j) <=> Store!Has(map, j)
              /\ Store!Has(map, j) => Store!With(map, k, d)[j] = map[j]
BY DEF Store!With, Store!IsMap, Store!Has

(* And of a map a key is erased from. *)
LEMMA WithoutMap ==
  ASSUME NEW R, NEW map, Store!IsMap(map, R), NEW k \in Keys
  PROVE  /\ Store!IsMap(Store!Without(map, k), R)
         /\ ~Store!Has(Store!Without(map, k), k)
         /\ \A j \in Keys : j # k =>
              /\ Store!Has(Store!Without(map, k), j) <=> Store!Has(map, j)
              /\ Store!Has(map, j) => Store!Without(map, k)[j] = map[j]
BY DEF Store!Without, Store!IsMap, Store!Has

(* Get only looks at one key of the four maps. *)
LEMMA GetLocal ==
  ASSUME NEW j \in Keys,
         Store!Has(strings, j)' <=> Store!Has(strings, j),
         Store!Has(strings, j) => strings'[j] = strings[j],
         Store!Has(ints, j)' <=> Store!Has(ints, j),
         Store!Has(ints, j) => ints'[j] = ints[j],
         Store!Has(doubles, j)' <=> Store!Has(doubles, j),
         Store!Has(doubles, j) => doubles'[j] = doubles[j],
         Store!Has(bools, j)' <=> Store!Has(bools, j),
         Store!Has(bools, j) => bools'[j] = bools[j]
  PROVE  Store!Get(j)' = Store!Get(j)
BY DEF Store!Get

(* The four maps, whatever the latest outcome. *)
Maps ==
  /\ Store!IsMap(strings, Tokens) /\ Store!IsMap(ints, Int64)
  /\ Store!IsMap(doubles, Floats) /\ Store!IsMap(bools, Flags)

(* The store and the transaction speak of the same values. *)
LEMMA SameSets ==
  /\ Store!Int64 = Int64 /\ Store!Flags = Flags /\ Store!Storable = Storable
  /\ Store!Unstorable = Unstorable /\ Store!Supported = Supported
  /\ Store!Operators = Operators /\ Store!Floats = Floats
BY DEF Store!Int64, Int64, Store!Flags, Flags, Store!Storable, Storable, Store!Unstorable,
       Unstorable, Store!Supported, Supported, Store!Operators, Operators,
       Store!Floats, Floats, Store!Narrow, Narrow

(* remove, and the assignment after it, for each type of value. *)
LEMMA ReplaceStep ==
  ASSUME Maps, Store!OneTypePerKey, NEW k \in Keys, NEW v \in Storable, Store!Replace(k, v),
         v.type = "Float" => v.data \in Floats
  PROVE  /\ Maps' /\ Store!OneTypePerKey'
         /\ Store!Get(k)' = v
         /\ \A j \in Keys \ {k} : Store!Get(j)' = Store!Get(j)
<1>. USE DEF Maps
<1>1. CASE v.type = "String"
  <2>1. /\ v.data \in Tokens /\ v = [type |-> "String", data |-> v.data]
        /\ strings' = Store!With(strings, k, v.data) /\ ints' = Store!Without(ints, k)
        /\ doubles' = Store!Without(doubles, k) /\ bools' = bools
    BY <1>1 DEF Store!Replace, Storable
  <2>2. Maps'
    BY <2>1, WithMap, WithoutMap
  <2>3. \A j \in Keys \ {k} : Store!Get(j)' = Store!Get(j)
    BY <2>1, WithMap, WithoutMap, GetLocal
  <2>4. Store!Get(k)' = v
    BY <2>1, WithMap DEF Store!Get
  <2>5. Store!OneTypePerKey'
    BY <2>1, WithMap, WithoutMap DEF Store!OneTypePerKey
  <2>. QED  BY <2>2, <2>3, <2>4, <2>5
<1>2. CASE v.type = "Integer"
  <2>1. /\ v.data \in Int64 /\ v = [type |-> "Integer", data |-> v.data]
        /\ strings' = Store!Without(strings, k) /\ ints' = Store!With(ints, k, v.data)
        /\ doubles' = Store!Without(doubles, k) /\ bools' = bools
    BY <1>2 DEF Store!Replace, Storable
  <2>2. Maps'
    BY <2>1, WithMap, WithoutMap
  <2>3. \A j \in Keys \ {k} : Store!Get(j)' = Store!Get(j)
    BY <2>1, WithMap, WithoutMap, GetLocal
  <2>4. Store!Get(k)' = v
    BY <2>1, WithMap, WithoutMap DEF Store!Get, Store!Integer
  <2>5. Store!OneTypePerKey'
    BY <2>1, WithMap, WithoutMap DEF Store!OneTypePerKey
  <2>. QED  BY <2>2, <2>3, <2>4, <2>5
<1>3. CASE v.type = "Float"
  <2>1. /\ v.data \in Floats /\ v = [type |-> "Float", data |-> v.data]
        /\ strings' = Store!Without(strings, k) /\ ints' = Store!Without(ints, k)
        /\ doubles' = Store!With(doubles, k, v.data) /\ bools' = bools
    BY <1>3 DEF Store!Replace, Storable
  <2>2. Maps'
    BY <2>1, WithMap, WithoutMap
  <2>3. \A j \in Keys \ {k} : Store!Get(j)' = Store!Get(j)
    BY <2>1, WithMap, WithoutMap, GetLocal
  <2>4. Store!Get(k)' = v
    BY <2>1, WithMap, WithoutMap DEF Store!Get
  <2>5. Store!OneTypePerKey'
    BY <2>1, WithMap, WithoutMap DEF Store!OneTypePerKey
  <2>. QED  BY <2>2, <2>3, <2>4, <2>5
<1>4. CASE v.type = "Bool"
  <2>1. /\ v.data \in Flags /\ v = [type |-> "Bool", data |-> v.data]
        /\ strings' = Store!Without(strings, k) /\ ints' = Store!Without(ints, k)
        /\ doubles' = Store!Without(doubles, k) /\ bools' = Store!With(bools, k, v.data)
    BY <1>4 DEF Store!Replace, Storable
  <2>2. Maps'
    BY <2>1, WithMap, WithoutMap
  <2>3. \A j \in Keys \ {k} : Store!Get(j)' = Store!Get(j)
    BY <2>1, WithMap, WithoutMap, GetLocal
  <2>4. Store!Get(k)' = v
    BY <2>1, WithMap, WithoutMap DEF Store!Get
  <2>5. Store!OneTypePerKey'
    BY <2>1, WithMap, WithoutMap DEF Store!OneTypePerKey
  <2>. QED  BY <2>2, <2>3, <2>4, <2>5
<1>. QED  BY <1>1, <1>2, <1>3, <1>4 DEF Storable

(* Two's complement keeps an integer in range. *)
LEMMA WrapType == ASSUME NEW n \in Int PROVE Store!Wrap(n) \in Int64
<1>. DEFINE m == 2 * HalfRange
            a == n + HalfRange
<1>1. m \in Nat \ {0} /\ a \in Int
  BY HalfRangeAssumption
<1>2. a % m \in 0 .. m - 1
  <2>. HIDE DEF m, a
  <2>. QED  BY <1>1
<1>. QED  BY <1>2, HalfRangeAssumption DEF Store!Wrap, Int64

(* An update leaves an integer under its key and nothing else changed. *)
LEMMA ApplyStep ==
  ASSUME Maps, Store!OneTypePerKey, NEW k \in Keys, NEW v \in Values, NEW op,
         Store!Apply(k, v, op)
  PROVE  /\ Maps' /\ Store!OneTypePerKey'
         /\ Store!Get(k)' \in Storable
         /\ \A j \in Keys \ {k} : Store!Get(j)' = Store!Get(j)
<1>. DEFINE n == Store!Compute(op, Store!Target(k), v.data)
<1>1. /\ ~Store!Has(strings, k) /\ ~Store!Has(doubles, k) /\ ~Store!Has(bools, k)
      /\ v.type = "Integer" /\ op \in Supported /\ ints' = Store!With(ints, k, n)
      /\ strings' = strings /\ doubles' = doubles /\ bools' = bools
  BY SameSets DEF Store!Apply, Store!NotNumeric
<1>2. n \in Int64
  <2>1. v.data \in Int64
    BY <1>1 DEF Values, Storable, Unstorable
  <2>2. Store!Target(k) \in Int64
    BY HalfRangeAssumption DEF Maps, Store!Target, Store!Has, Store!IsMap, Int64
  <2>3. v.data \in Int /\ Store!Target(k) \in Int
    BY <2>1, <2>2, HalfRangeAssumption DEF Int64
  <2>4. /\ v.data + Store!Target(k) \in Int /\ Store!Target(k) - v.data \in Int
        /\ Store!Target(k) * v.data \in Int
    BY <2>3
  <2>. QED  BY <1>1, <2>4, WrapType DEF Store!Compute, Supported
<1>. HIDE DEF n
<1>3. Maps'
  BY <1>1, <1>2, WithMap DEF Maps
<1>4. \A j \in Keys \ {k} : Store!Get(j)' = Store!Get(j)
  BY <1>1, <1>2, WithMap, GetLocal DEF Maps
<1>5. Store!Get(k)' = Store!Integer(n)
  BY <1>1, <1>2, WithMap DEF Maps, Store!Get
<1>6. Store!Integer(n) \in Storable
  BY <1>2 DEF Store!Integer, Storable
<1>7. Store!OneTypePerKey'
  BY <1>1, <1>2, WithMap DEF Maps, Store!OneTypePerKey
<1>. QED  BY <1>3, <1>4, <1>5, <1>6, <1>7

(* A request changes at most what one key reads as, and only if accepted. *)
LEMMA ServeStep ==
  ASSUME Maps, Store!OneTypePerKey, NEW r \in Requests, Store!Serve(r)
  PROVE  /\ Maps' /\ Store!OneTypePerKey' /\ outcome' \in Store!Outcomes
         /\ \/ /\ outcome' = "ok"
               /\ \E k \in Keys, v \in Storable : View' = [View EXCEPT ![k] = v]
            \/ outcome' # "ok" /\ View' = View
<1>. DEFINE k  == r.key
            v  == r.value
            op == r.op
<1>1. k \in Keys /\ v \in Values
  BY DEF Requests
<1>2. CASE Store!Insert(k, v)
  <2>1. v \in Storable /\ Store!Replace(k, Store!Stored(v)) /\ outcome' = "ok"
    BY <1>2, SameSets DEF Store!Insert
  <2>2. /\ Store!Stored(v) \in Storable
        /\ Store!Stored(v).type = "Float" => Store!Stored(v).data \in Floats
    <3>1. CASE v.type = "Float"
      <4>1. /\ v.data \in Doubles
            /\ Store!Stored(v) = [type |-> "Float", data |-> Narrow(v.data)]
        BY <2>1, <3>1 DEF Store!Stored, Store!Narrow, Narrow, Storable
      <4>2. PICK n : n = Narrow(v.data)
        OBVIOUS
      <4>3. n \in Doubles /\ n \in Floats
        BY <4>1, <4>2, DoublesAssumption DEF Floats
      <4>4. Store!Stored(v) = [type |-> "Float", data |-> n]
        BY <4>1, <4>2
      <4>. QED  BY <4>3, <4>4 DEF Storable
    <3>2. CASE v.type # "Float"
      BY <2>1, <3>2 DEF Store!Stored
    <3>. QED  BY <3>1, <3>2
  <2>3. /\ Maps' /\ Store!OneTypePerKey' /\ Store!Get(k)' = Store!Stored(v)
        /\ \A j \in Keys \ {k} : Store!Get(j)' = Store!Get(j)
    BY <1>1, <2>1, <2>2, ReplaceStep
  <2>4. View' = [View EXCEPT ![k] = Store!Stored(v)]
    BY <1>1, <2>3 DEF View
  <2>. QED  BY <1>1, <2>1, <2>2, <2>3, <2>4 DEF Store!Outcomes
<1>3. CASE Store!Apply(k, v, op)
  <2>1. /\ Maps' /\ Store!OneTypePerKey' /\ Store!Get(k)' \in Storable
        /\ \A j \in Keys \ {k} : Store!Get(j)' = Store!Get(j)
    BY <1>1, <1>3, ApplyStep
  <2>2. View' = [View EXCEPT ![k] = Store!Get(k)']
    BY <1>1, <2>1 DEF View
  <2>. QED  BY <1>1, <1>3, <2>1, <2>2 DEF Store!Apply, Store!Outcomes
<1>4. CASE \E why \in Store!Outcomes \ {"ok"} : Store!Refuse(why)
  <2>1. /\ UNCHANGED <<strings, ints, doubles, bools>>
        /\ outcome' # "ok" /\ outcome' \in Store!Outcomes
    BY <1>4 DEF Store!Refuse, Store!maps
  <2>2. Maps' /\ Store!OneTypePerKey' /\ View' = View
    BY <2>1 DEF Maps, Store!OneTypePerKey, Store!IsMap, Store!Has, View, Store!Get
  <2>. QED  BY <2>1, <2>2
<1>. QED
  BY <1>2, <1>3, <1>4
     DEF Store!Serve, Store!Assign, Store!Augment, Store!InsertUnsupported,
         Store!ApplyNotNumeric, Store!ApplyUnknown, Store!Outcomes

-----------------------------------------------------------------------------
(* The maps of the host's copy are as good as those of the store. *)
KeptMaps ==
  /\ Store!IsMap(kept.strings, Tokens) /\ Store!IsMap(kept.ints, Int64)
  /\ Store!IsMap(kept.doubles, Floats) /\ Store!IsMap(kept.bools, Flags)

DataInv ==
  /\ Maps /\ Store!OneTypePerKey /\ outcome \in Store!Outcomes
  /\ KeptMaps /\ Kept!OneTypePerKey

AbstractStep == [Contract!Next]_<<View, KeptView, Running>>

(* Loading the serialised store gives the dictionary that was serialised. *)
LEMMA RestoreStep ==
  ASSUME DataInv, Restore, outcome' = "ok", UNCHANGED kept
  PROVE  DataInv' /\ View' = KeptView /\ KeptView' = KeptView
<1>1. /\ strings' = kept.strings /\ ints' = kept.ints /\ doubles' = kept.doubles
      /\ bools' = kept.bools /\ kept' = kept
  BY DEF Restore
<1>2. Maps' /\ KeptMaps'
  BY <1>1 DEF DataInv, Maps, KeptMaps
<1>3. Store!OneTypePerKey' /\ Kept!OneTypePerKey'
  BY <1>1 DEF DataInv, Store!OneTypePerKey, Kept!OneTypePerKey, Store!Has, Kept!Has
<1>4. View' = KeptView /\ KeptView' = KeptView
  BY <1>1 DEF View, KeptView, Store!Get, Kept!Get, Store!Has, Kept!Has,
              Store!Integer, Kept!Integer, Store!Absent, Kept!Absent
<1>. QED  BY <1>2, <1>3, <1>4 DEF DataInv, Store!Outcomes

(* Steps that touch neither the store nor the copy. *)
LEMMA SameStore ==
  ASSUME DataInv, UNCHANGED <<store, kept>>
  PROVE  DataInv' /\ View' = View /\ KeptView' = KeptView
<1>1. DataInv'
  BY DEF DataInv, store, Maps, KeptMaps, Store!OneTypePerKey, Kept!OneTypePerKey,
         Store!Has, Kept!Has, Store!IsMap
<1>2. View' = View
  BY DEF View, Store!Get, Store!Has, store
<1>3. KeptView' = KeptView
  BY DEF KeptView, Kept!Get, Kept!Has
<1>. QED  BY <1>1, <1>2, <1>3

(* The program runs on, or it ends: a stutter or a Stop of the dictionary. *)
LEMMA SameStoreStep ==
  ASSUME DataInv, UNCHANGED <<store, kept>>, Running \/ ~Running'
  PROVE  DataInv' /\ AbstractStep
<1>1. DataInv' /\ View' = View /\ KeptView' = KeptView
  BY SameStore
<1>2. CASE Running' = Running
  BY <1>1, <1>2 DEF AbstractStep
<1>3. CASE Running /\ ~Running'
  <2>1. Contract!Stop
    BY <1>1, <1>3 DEF Contract!Stop, View, KeptView, Running
  <2>. QED  BY <1>1, <2>1 DEF AbstractStep, Contract!Next
<1>. QED  BY <1>2, <1>3 DEF Running

(* A transaction that begins or is refused loads the copy. *)
LEMMA BeginStep ==
  ASSUME BillInv, DataInv, NEW b, NEW g, NEW p, Begin(b, g, p)
  PROVE  DataInv' /\ AbstractStep
<1>1. DataInv' /\ View' = KeptView /\ KeptView' = KeptView
  BY RestoreStep DEF Begin
<1>2. ~Running
  BY DEF Begin, BillInv, Counting
<1>3. Contract!Load
  BY <1>1, <1>2 DEF Contract!Load, View, KeptView, Running
<1>. QED  BY <1>1, <1>3 DEF AbstractStep, Contract!Next

(* A request is work on one key, or ends the transaction. *)
LEMMA UseStoreStep ==
  ASSUME DataInv, UseStore
  PROVE  DataInv' /\ AbstractStep
<1>1. /\ Running /\ UNCHANGED kept
      /\ status' = IF outcome' = "ok" THEN "running" ELSE "store_error"
  BY DEF UseStore, Pay
<1>2. PICK r \in Requests : Store!Serve(r)
  BY DEF UseStore
<1>3. /\ Maps' /\ Store!OneTypePerKey' /\ outcome' \in Store!Outcomes
      /\ \/ /\ outcome' = "ok"
            /\ \E k \in Keys, v \in Storable : View' = [View EXCEPT ![k] = v]
         \/ outcome' # "ok" /\ View' = View
  BY <1>2, ServeStep DEF DataInv
<1>4. KeptView' = KeptView /\ KeptMaps' /\ Kept!OneTypePerKey'
  BY <1>1 DEF DataInv, KeptMaps, KeptView, Kept!Get, Kept!Has, Kept!OneTypePerKey
<1>5. CASE outcome' = "ok" /\ \E k \in Keys, v \in Storable : View' = [View EXCEPT ![k] = v]
  <2>1. Running' = Running
    BY <1>1, <1>5 DEF Running
  <2>2. Contract!Storable = Storable
    BY DEF Contract!Storable, Storable, Contract!Int64, Int64, Contract!Flags, Flags
  <2>3. Contract!Work
    BY <1>1, <1>4, <1>5, <2>1, <2>2 DEF Contract!Work, View, KeptView
  <2>. QED  BY <1>3, <1>4, <2>3 DEF AbstractStep, Contract!Next, DataInv
<1>6. CASE outcome' # "ok" /\ View' = View
  <2>1. Contract!Stop
    BY <1>1, <1>4, <1>6 DEF Contract!Stop, View, KeptView, Running
  <2>. QED  BY <1>3, <1>4, <2>1 DEF AbstractStep, Contract!Next, DataInv
<1>. QED  BY <1>3, <1>5, <1>6

(* What was serialised is what the host keeps. *)
LEMMA KeepStep ==
  ASSUME BillInv, DataInv, Keep
  PROVE  DataInv' /\ AbstractStep
<1>1. /\ kept'.strings = strings /\ kept'.ints = ints /\ kept'.doubles = doubles
      /\ kept'.bools = bools /\ UNCHANGED store /\ UNCHANGED status
  BY DEF Keep, Serialised, ledger
<1>2. ~Running /\ ~Running'
  BY <1>1 DEF Keep, Ended, Codes, BillInv, Counting, Running
<1>3. UNCHANGED <<strings, ints, doubles, bools, outcome>>
  BY <1>1 DEF store
<1>4. Maps' /\ KeptMaps'
  BY <1>1, <1>3 DEF DataInv, Maps, KeptMaps
<1>5. Store!OneTypePerKey' /\ Kept!OneTypePerKey'
  BY <1>1, <1>3 DEF DataInv, Store!OneTypePerKey, Kept!OneTypePerKey, Store!Has, Kept!Has
<1>6. View' = View
  BY <1>3 DEF View, Store!Get, Store!Has
<1>7. KeptView' = View
  BY <1>1 DEF View, KeptView, Store!Get, Kept!Get, Store!Has, Kept!Has,
              Store!Integer, Kept!Integer, Store!Absent, Kept!Absent
<1>8. Contract!Save
  BY <1>2, <1>6, <1>7 DEF Contract!Save, View, KeptView, Running
<1>. QED  BY <1>3, <1>4, <1>5, <1>8 DEF AbstractStep, Contract!Next, DataInv

(* Every step of the transaction is one of the dictionary, or none. *)
LEMMA DataStep ==
  ASSUME BillInv, DataInv, [Next]_vars
  PROVE  DataInv' /\ AbstractStep
<1>1. ASSUME NEW b \in Words, NEW g \in Gases, NEW p \in Prices, Begin(b, g, p)
      PROVE  DataInv' /\ AbstractStep
  BY <1>1, BeginStep
<1>2. CASE Calculate \/ RunTimeError \/ UseMoney \/ OutOfGas \/ CallReturns
  <2>1. UNCHANGED <<store, kept>> /\ Running
    BY <1>2 DEF Calculate, RunTimeError, UseMoney, OutOfGas, CallReturns, Pay, store
  <2>. QED  BY <2>1, SameStoreStep
<1>3. CASE UseStore
  BY <1>3, UseStoreStep
<1>4. CASE Finish \/ UNCHANGED vars
  <2>1. UNCHANGED <<store, kept>> /\ UNCHANGED status
    BY <1>4 DEF Finish, vars, ledger
  <2>2. Running \/ ~Running'
    BY <2>1 DEF Running
  <2>. QED  BY <2>1, <2>2, SameStoreStep
<1>5. CASE Keep
  BY <1>5, KeepStep
<1>. QED  BY <1>1, <1>2, <1>3, <1>4, <1>5 DEF Next

(* Both begin empty. *)
LEMMA DataInit == ASSUME Init PROVE DataInv /\ Contract!Init
<1>1. /\ strings = Store!Empty /\ ints = Store!Empty /\ doubles = Store!Empty
      /\ bools = Store!Empty /\ outcome = "ok" /\ kept = Serialised /\ ~Running
  BY DEF Init, Store!Init, Running
<1>2. /\ kept.strings = strings /\ kept.ints = ints /\ kept.doubles = doubles
      /\ kept.bools = bools
  BY <1>1 DEF Serialised
<1>3. DOMAIN Store!Empty = {} /\ Store!Empty = [k \in {} |-> Store!Empty[k]]
  BY DEF Store!Empty
<1>4. DataInv
  BY <1>1, <1>2, <1>3 DEF DataInv, Maps, KeptMaps, Store!IsMap, Store!OneTypePerKey,
       Kept!OneTypePerKey, Store!Has, Kept!Has, Store!Outcomes
<1>5. \A k \in Keys : Store!Get(k) = Absent /\ Kept!Get(k) = Absent
  BY <1>1, <1>2, <1>3 DEF Store!Get, Kept!Get, Store!Has, Kept!Has, Store!Absent,
       Kept!Absent, Absent
<1>. QED  BY <1>1, <1>4, <1>5 DEF Contract!Init, Contract!Absent, Absent, Running

(* execute_program, serialize_database: over any number of transactions,   *)
(* with any keys and values, the contract has one dictionary.              *)
THEOREM TransactionRefines == Spec => ImplementsContract
<1>1. Init => BillInv /\ DataInv /\ Contract!Init
  BY InitInv, DataInit
<1>2. /\ BillInv /\ DataInv /\ [Next]_vars
      => BillInv' /\ DataInv' /\ [Contract!Next]_<<View, KeptView, Running>>
  BY StepInv, DataStep DEF AbstractStep
<1>. QED  BY <1>1, <1>2, PTL DEF Spec, ImplementsContract, Contract!Spec, View, KeptView

-----------------------------------------------------------------------------
(* What is left: the ledger, which is empty after a transaction that was   *)
(* refused, and what the host reads.                                       *)
Answer ==
  /\ Payments
  /\ rc = "refused" => DOMAIN send_map = {}
  /\ used_g \in 0 .. Word32 - 1
  /\ rc \in Codes \cup {"idle", "none", "refused"}

(* Balances and bills stay in their widths, and the payments add up. *)
LEMMA AnswerStep == ASSUME BillInv, Answer, [Next]_vars PROVE Answer'
<1>1. ASSUME NEW b \in Words, NEW g \in Gases, NEW p \in Prices, Begin(b, g, p)
      PROVE  Answer'
  <2>1. Payments' /\ DOMAIN send_map' = {}
    BY <1>1, NoPayments DEF Begin, Refuse, Reset
  <2>. QED  BY <1>1, <2>1 DEF Begin, Refuse, Answer, Codes
<1>2. CASE Calculate \/ RunTimeError \/ UseStore \/ OutOfGas \/ CallReturns \/ Keep
             \/ UNCHANGED vars
  <2>1. /\ UNCHANGED <<contract_balance, send_map, funds>>
        /\ UNCHANGED <<used_g, rc>>
    BY <1>2 DEF Calculate, RunTimeError, UseStore, OutOfGas, CallReturns, Keep, vars, ledger, Pay
  <2>2. Payments'
    BY <2>1, SamePayments DEF Answer
  <2>. QED  BY <2>1, <2>2 DEF Answer
<1>3. CASE UseMoney
  <2>1. LedgerNext /\ rc = "none" /\ UNCHANGED <<used_g, rc>>
    BY <1>3 DEF UseMoney, Pay, BillInv, Counting
  <2>2. Payments'
    BY <2>1, PaymentsStep DEF Answer
  <2>. QED  BY <2>1, <2>2 DEF Answer
<1>4. CASE Finish
  <2>1. Bill \in Nat /\ Bill < Word32 /\ Word32 \in Nat
    BY <1>4, BillWithinGas, PriceAssumption DEF BillInv, Counting, Finish
  <2>2. Bill \in 0 .. Word32 - 1
    BY <2>1
  <2>3. Payments' /\ UNCHANGED send_map
    BY <1>4, SamePayments DEF Finish, ledger, Answer
  <2>. HIDE DEF Bill
  <2>. QED  BY <1>4, <2>2, <2>3 DEF Finish, Answer, ReturnCode, Codes
<1>. QED  BY <1>1, <1>2, <1>3, <1>4 DEF Next

(* Zeros fit in any width, and nobody has been paid. *)
LEMMA AnswerInit == ASSUME Init PROVE Answer
<1>1. 0 \in Words /\ 0 \in 0 .. Word32 - 1
  BY WordBounds, PriceAssumption
<1>2. DOMAIN send_map = {} /\ send_map = [a \in DOMAIN send_map |-> send_map[a]]
  BY DEF Init
<1>3. IsFiniteSet(DOMAIN send_map) /\ Total(send_map) = 0
  BY <1>2, FS_EmptySet, TotalOfNothing
<1>4. Payments
  BY <1>1, <1>2, <1>3 DEF Init, Payments, NoReceiverExceedsSpent
<1>. QED  BY <1>1, <1>4 DEF Init, Answer

(* execute_program: in whatever way a transaction ends, and however the    *)
(* one before it ended, what the host is told to pay adds up with the      *)
(* balance to what it passed in, for any number of receivers.              *)
THEOREM TransactionBalances == Spec => []AccountsBalance
<1>1. Init => BillInv /\ Answer
  BY InitInv, AnswerInit
<1>2. BillInv /\ Answer /\ [Next]_vars => BillInv' /\ Answer'
  BY StepInv, AnswerStep
<1>3. Answer => AccountsBalance
  BY DEF Answer, Payments, AccountsBalance, Conserved, Total
<1>. QED  BY <1>1, <1>2, <1>3, PTL DEF Spec

(* execute_program: the store and its copy are well typed, the balance is  *)
(* a word and the bill a 32-bit number, whatever the widths are.           *)
THEOREM TransactionTypeOK == Spec => []TypeOK
<1>1. Init => BillInv /\ DataInv /\ Answer
  BY InitInv, DataInit, AnswerInit
<1>2. BillInv /\ DataInv /\ Answer /\ [Next]_vars => BillInv' /\ DataInv' /\ Answer'
  BY StepInv, DataStep, AnswerStep
<1>3. BillInv /\ DataInv /\ Answer => TypeOK
  <2>. SUFFICES ASSUME BillInv, DataInv, Answer PROVE TypeOK
    OBVIOUS
  <2>1. Store!TypeOK
    BY SameSets DEF DataInv, Maps, Store!TypeOK, Store!MapsOK, Store!Int64, Int64,
           Store!Flags, Flags, Store!NoRequest, NoRequest
  <2>2. Kept!TypeOK
    <3>1. Kept!Floats = Floats
      BY DEF Kept!Floats, Floats, Kept!Narrow, Narrow
    <3>. QED
      BY <3>1 DEF DataInv, KeptMaps, Kept!TypeOK, Kept!MapsOK, Kept!Int64, Int64,
                  Kept!Flags, Flags, Kept!NoRequest, NoRequest, Kept!IsMap, Store!IsMap,
                  Kept!Outcomes, Store!Outcomes
  <2>. QED  BY <2>1, <2>2 DEF TypeOK, Answer, Payments, BillInv, Counting
<1>. QED  BY <1>1, <1>2, <1>3, PTL DEF Spec
=============================================================================
