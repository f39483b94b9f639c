--------------------------- MODULE StorageProofs ----------------------------
(***************************************************************************)
(* Theorems about Storage, for every set of keys and every integer width:  *)
(* each map is well typed, a key has one type among string, integer and    *)
(* float, and the four maps together implement one dictionary.             *)
(***************************************************************************)
EXTENDS Storage, TLAPS

DataInv == MapsOK /\ OneTypePerKey

StoreInv == TypeOK /\ OneTypePerKey

-----------------------------------------------------------------------------
(* Two's complement keeps an integer in range. *)
LEMMA WrapType ==
  ASSUME NEW n \in Int
  PROVE  Wrap(n) \in Int64
<1> DEFINE m == 2 * HalfRange
           a == n + HalfRange
<1>1. m \in Nat \ {0} /\ a \in Int
  BY HalfRangeAssumption
<1> HIDE DEF m, a
<1>2. a % m \in 0 .. m - 1
  BY <1>1
<1>3. (a % m) - HalfRange \in Int64
  BY <1>2, HalfRangeAssumption DEF Int64, m
<1> QED
  BY <1>3 DEF Wrap, m, a

(* The switch of apply computes 64-bit integers. *)
LEMMA ComputeType ==
  ASSUME NEW op \in Supported, NEW t \in Int64, NEW n \in Int64
  PROVE  Compute(op, t, n) \in Int64
<1>1. t \in Int /\ n \in Int
  BY HalfRangeAssumption DEF Int64
<1>2. n + t \in Int /\ t - n \in Int /\ t * n \in Int
  BY <1>1
<1>3. CASE op = "Add"
  BY <1>2, <1>3, WrapType DEF Compute
<1>4. CASE op = "Sub"
  BY <1>2, <1>4, WrapType DEF Compute
<1>5. CASE op = "Mult"
  BY <1>2, <1>5, WrapType DEF Compute
<1> QED
  BY <1>3, <1>4, <1>5 DEF Supported

(* What std::map::operator[] and std::map::erase leave of a map. *)
LEMMA WithMap ==
  ASSUME NEW R, NEW map, IsMap(map, R), NEW k \in Keys, NEW d \in R
  PROVE  /\ IsMap(With(map, k, d), R)
         /\ Has(With(map, k, d), k) /\ With(map, k, d)[k] = d
         /\ \A j \in Keys : j # k => /\ Has(With(map, k, d), j) <=> Has(map, j)
                                     /\ Has(map, j) => With(map, k, d)[j] = map[j]
BY DEF With, IsMap, Has

(* And of a map a key is erased from. *)
LEMMA WithoutMap ==
  ASSUME NEW R, NEW map, IsMap(map, R), NEW k \in Keys
  PROVE  /\ IsMap(Without(map, k), R)
         /\ ~Has(Without(map, k), k)
         /\ \A j \in Keys : j # k => /\ Has(Without(map, k), j) <=> Has(map, j)
                                     /\ Has(map, j) => Without(map, k)[j] = map[j]
BY DEF Without, IsMap, Has

(* Get only looks at one key of the four maps. *)
LEMMA GetLocal ==
  ASSUME NEW j \in Keys,
         Has(strings, j)' <=> Has(strings, j), Has(strings, j) => strings'[j] = strings[j],
         Has(ints, j)'    <=> Has(ints, j),    Has(ints, j)    => ints'[j] = ints[j],
         Has(doubles, j)' <=> Has(doubles, j), Has(doubles, j) => doubles'[j] = doubles[j],
         Has(bools, j)'   <=> Has(bools, j),   Has(bools, j)   => bools'[j] = bools[j]
  PROVE  Get(j)' = Get(j)
BY DEF Get

-----------------------------------------------------------------------------
(* What remove and the assignment after it leave, for each type of value.  *)
LEMMA ReplaceStep ==
  ASSUME DataInv, NEW k \in Keys, NEW v \in Storable, Replace(k, v), outcome' = "ok",
         v.type = "Float" => v.data \in Floats
  PROVE  /\ DataInv'
         /\ Get(k)' = v
         /\ \A j \in Keys \ {k} : Get(j)' = Get(j)
<1>0. IsMap(strings, Tokens) /\ IsMap(ints, Int64) /\ IsMap(doubles, Floats)
      /\ IsMap(bools, Flags) /\ OneTypePerKey
  BY DEF DataInv, MapsOK
<1>1. CASE v.type = "String"
  <2>1. /\ v.data \in Tokens /\ v = [type |-> "String", data |-> v.data]
        /\ strings' = With(strings, k, v.data) /\ ints' = Without(ints, k)
        /\ doubles' = Without(doubles, k) /\ bools' = bools /\ outcome' = "ok"
    BY <1>1 DEF Replace, Storable
  <2>2. IsMap(strings', Tokens) /\ IsMap(ints', Int64) /\ IsMap(doubles', Floats)
        /\ IsMap(bools', Flags)
    BY <1>0, <2>1, WithMap, WithoutMap
  <2>3. \A j \in Keys \ {k} : Get(j)' = Get(j)
    BY <1>0, <2>1, WithMap, WithoutMap, GetLocal
  <2>4. Get(k)' = v
    BY <1>0, <2>1, WithMap DEF Get
  <2>5. OneTypePerKey'
    BY <1>0, <2>1, WithMap, WithoutMap DEF OneTypePerKey
  <2> QED
    BY <2>1, <2>2, <2>3, <2>4, <2>5 DEF DataInv, MapsOK, Outcomes
<1>2. CASE v.type = "Integer"
  <2>1. /\ v.data \in Int64 /\ v = [type |-> "Integer", data |-> v.data]
        /\ strings' = Without(strings, k) /\ ints' = With(ints, k, v.data)
        /\ doubles' = Without(doubles, k) /\ bools' = bools /\ outcome' = "ok"
    BY <1>2 DEF Replace, Storable
  <2>2. IsMap(strings', Tokens) /\ IsMap(ints', Int64) /\ IsMap(doubles', Floats)
        /\ IsMap(bools', Flags)
    BY <1>0, <2>1, WithMap, WithoutMap
  <2>3. \A j \in Keys \ {k} : Get(j)' = Get(j)
    BY <1>0, <2>1, WithMap, WithoutMap, GetLocal
  <2>4. Get(k)' = v
    BY <1>0, <2>1, WithMap, WithoutMap DEF Get, Integer
  <2>5. OneTypePerKey'
    BY <1>0, <2>1, WithMap, WithoutMap DEF OneTypePerKey
  <2> QED
    BY <2>1, <2>2, <2>3, <2>4, <2>5 DEF DataInv, MapsOK, Outcomes
<1>3. CASE v.type = "Float"
  <2>1. /\ v.data \in Floats /\ v = [type |-> "Float", data |-> v.data]
        /\ strings' = Without(strings, k) /\ ints' = Without(ints, k)
        /\ doubles' = With(doubles, k, v.data) /\ bools' = bools /\ outcome' = "ok"
    BY <1>3 DEF Replace, Storable
  <2>2. IsMap(strings', Tokens) /\ IsMap(ints', Int64) /\ IsMap(doubles', Floats)
        /\ IsMap(bools', Flags)
    BY <1>0, <2>1, WithMap, WithoutMap
  <2>3. \A j \in Keys \ {k} : Get(j)' = Get(j)
    BY <1>0, <2>1, WithMap, WithoutMap, GetLocal
  <2>4. Get(k)' = v
    BY <1>0, <2>1, WithMap, WithoutMap DEF Get
  <2>5. OneTypePerKey'
    BY <1>0, <2>1, WithMap, WithoutMap DEF OneTypePerKey
  <2> QED
    BY <2>1, <2>2, <2>3, <2>4, <2>5 DEF DataInv, MapsOK, Outcomes
<1>4. CASE v.type = "Bool"
  <2>1. /\ v.data \in Flags /\ v = [type |-> "Bool", data |-> v.data]
        /\ strings' = Without(strings, k) /\ ints' = Without(ints, k)
        /\ doubles' = Without(doubles, k) /\ bools' = With(bools, k, v.data)
        /\ outcome' = "ok"
    BY <1>4 DEF Replace, Storable
  <2>2. IsMap(strings', Tokens) /\ IsMap(ints', Int64) /\ IsMap(doubles', Floats)
        /\ IsMap(bools', Flags)
    BY <1>0, <2>1, WithMap, WithoutMap
  <2>3. \A j \in Keys \ {k} : Get(j)' = Get(j)
    BY <1>0, <2>1, WithMap, WithoutMap, GetLocal
  <2>4. Get(k)' = v
    BY <1>0, <2>1, WithMap, WithoutMap DEF Get
  <2>5. OneTypePerKey'
    BY <1>0, <2>1, WithMap, WithoutMap DEF OneTypePerKey
  <2> QED
    BY <2>1, <2>2, <2>3, <2>4, <2>5 DEF DataInv, MapsOK, Outcomes
<1> QED
  BY <1>1, <1>2, <1>3, <1>4 DEF Storable

(* A double that passed through a float is one the store may hold. *)
LEMMA StoredType ==
  ASSUME NEW v \in Storable
  PROVE  Stored(v) \in Storable /\ (Stored(v).type = "Float" => Stored(v).data \in Floats)
<1>1. CASE v.type = "Float"
  <2>1. v.data \in Doubles /\ Stored(v) = [type |-> "Float", data |-> Narrow(v.data)]
    BY <1>1 DEF Stored, Storable
  <2>2. PICK n : n = Narrow(v.data)
    OBVIOUS
  <2>3. n \in Doubles /\ n \in Floats
    BY <2>1, <2>2, DoublesAssumption DEF Floats
  <2>4. Stored(v) = [type |-> "Float", data |-> n]
    BY <2>1, <2>2
  <2>. QED  BY <2>3, <2>4 DEF Storable
<1>2. CASE v.type # "Float"
  BY <1>2 DEF Stored
<1>. QED  BY <1>1, <1>2

(* An assignment is what the key reads as, and no other key changes. *)
LEMMA InsertStep ==
  ASSUME DataInv, NEW k \in Keys, NEW v \in Storable, Insert(k, v)
  PROVE  /\ DataInv'
         /\ Get(k)' = Stored(v)
         /\ \A j \in Keys \ {k} : Get(j)' = Get(j)
BY StoredType, ReplaceStep DEF Insert

(* An update computes from what the key read as, or from zero. *)
LEMMA ApplyStep ==
  ASSUME DataInv, NEW k \in Keys, NEW v \in Values, NEW op \in Operators, Apply(k, v, op)
  PROVE  /\ DataInv'
         /\ v.data \in Int64 /\ op \in Supported
         /\ Get(k).type \in {"Integer", "Absent"}
         /\ Get(k)' = Integer(Compute(op, Get(k).data, v.data))
         /\ \A j \in Keys \ {k} : Get(j)' = Get(j)
<1> DEFINE r == Compute(op, Target(k), v.data)
<1>0. IsMap(strings, Tokens) /\ IsMap(ints, Int64) /\ IsMap(doubles, Floats)
      /\ IsMap(bools, Flags) /\ OneTypePerKey
  BY DEF DataInv, MapsOK
<1>1. /\ ~Has(strings, k) /\ ~Has(doubles, k) /\ ~Has(bools, k) /\ v.type = "Integer"
      /\ op \in Supported /\ ints' = With(ints, k, r) /\ outcome' = "ok"
      /\ strings' = strings /\ doubles' = doubles /\ bools' = bools
  BY DEF Apply, NotNumeric
<1>2. v.data \in Int64
  BY <1>1 DEF Values, Storable, Unstorable
<1>3. Target(k) \in Int64
  BY <1>0, HalfRangeAssumption DEF Target, Has, IsMap, Int64
<1>4. r \in Int64
  BY <1>1, <1>2, <1>3, ComputeType
<1>5. Get(k).type \in {"Integer", "Absent"} /\ Get(k).data = Target(k)
  BY <1>1 DEF Get, Target, Integer, Absent
<1> HIDE DEF r
<1>6. IsMap(ints', Int64)
  BY <1>0, <1>1, <1>4, WithMap
<1>7. \A j \in Keys \ {k} : Get(j)' = Get(j)
  BY <1>0, <1>1, <1>4, WithMap, GetLocal
<1>8. Get(k)' = Integer(r)
  BY <1>0, <1>1, <1>4, WithMap DEF Get, Integer
<1>9. OneTypePerKey'
  BY <1>0, <1>1, <1>4, WithMap DEF OneTypePerKey
<1> QED
  BY <1>0, <1>1, <1>2, <1>5, <1>6, <1>7, <1>8, <1>9 DEF DataInv, MapsOK, Outcomes, r

(* A refused request changes no answer. *)
LEMMA RefuseStep ==
  ASSUME DataInv, NEW why \in Outcomes, Refuse(why)
  PROVE  DataInv' /\ \A j \in Keys : Get(j)' = Get(j)
BY DEF Refuse, DataInv, MapsOK, OneTypePerKey, IsMap, Has, Get, maps

(* The dictionary a contract sees. *)
View == [k \in Keys |-> Get(k)]

(* A request that is served does to the dictionary what the promise says.  *)
LEMMA ServeStep ==
  ASSUME DataInv, NEW r \in Requests, Serve(r)
  PROVE  /\ DataInv'
         /\ \/ outcome' = "ok" /\ (Abstract!Put(r) \/ Abstract!Update(r))
            \/ outcome' # "ok" /\ ~Abstract!CanPut(r) /\ UNCHANGED View
<1> DEFINE k  == r.key
           v  == r.value
           op == r.op
<1>0. k \in Keys /\ v \in Values /\ op \in Operators \cup {"Assign"}
  BY DEF Requests
<1>1. CASE op = "Assign" /\ Insert(k, v)
  <2>1. v \in Storable /\ outcome' = "ok"
    BY <1>1 DEF Insert
  <2>2. View' = [View EXCEPT ![k] = Stored(v)] /\ DataInv'
    BY <1>0, <1>1, <2>1, InsertStep DEF View
  <2>3. Abstract!Put(r)
    BY <1>1, <2>1, <2>2 DEF Abstract!Put, Abstract!CanPut, View, Abstract!Stored, Stored,
         Abstract!Narrow, Narrow, Abstract!Storable, Storable, Abstract!Int64, Int64,
         Abstract!Flags, Flags
  <2> QED
    BY <2>1, <2>2, <2>3
<1>2. CASE op = "Assign" /\ InsertUnsupported(k, v)
  <2>1. DataInv' /\ UNCHANGED View /\ outcome' # "ok"
    BY <1>0, <1>2, RefuseStep DEF InsertUnsupported, Refuse, Outcomes, View
  <2>2. v \notin Storable
    BY <1>2 DEF InsertUnsupported, Unstorable, Storable
  <2> QED
    BY <2>1, <2>2 DEF Abstract!CanPut, Abstract!Storable, Storable, Abstract!Int64, Int64,
         Abstract!Flags, Flags
<1>3. CASE op \in Operators /\ Apply(k, v, op)
  <2>1. /\ DataInv' /\ v.data \in Int64 /\ op \in Supported
        /\ View[k].type \in {"Integer", "Absent"}
        /\ View' = [View EXCEPT ![k] = Integer(Compute(op, View[k].data, v.data))]
    BY <1>0, <1>3, ApplyStep DEF View
  <2>2. v.type = "Integer" /\ outcome' = "ok"
    BY <1>3 DEF Apply, NotNumeric
  <2>3. Abstract!Update(r)
    BY <2>1, <2>2 DEF Abstract!Update, View, Abstract!Integer, Integer, Abstract!Compute,
         Compute, Abstract!Wrap, Wrap, Abstract!Supported, Supported
  <2> QED
    BY <2>1, <2>2, <2>3
<1>4. CASE op \in Operators /\ (ApplyNotNumeric(k, v, op) \/ ApplyUnknown(k, v, op))
  <2>1. DataInv' /\ UNCHANGED View /\ outcome' # "ok"
    BY <1>4, RefuseStep DEF ApplyNotNumeric, ApplyUnknown, Refuse, Outcomes, View
  <2>2. op # "Assign"
    BY <1>4 DEF Operators
  <2> QED
    BY <2>1, <2>2 DEF Abstract!CanPut
<1> QED
  BY <1>0, <1>1, <1>2, <1>3, <1>4 DEF Serve, Assign, Augment

(* Every step keeps the types and is one of the abstract store. *)
LEMMA StepInv ==
  ASSUME StoreInv, [Next]_vars
  PROVE  StoreInv' /\ [Abstract!Next]_<<View, request, outcome = "ok">>
<1>1. DataInv
  BY DEF StoreInv, DataInv, TypeOK
<1>2. ASSUME NEW r \in Requests, Serve(r), request' = r
      PROVE  StoreInv' /\ Abstract!Next
  <2>1. StoreInv'
    BY <1>1, <1>2, ServeStep DEF StoreInv, DataInv, TypeOK
  <2>2. Abstract!Accept(r) \/ Abstract!Refuse(r)
    <3>1. CASE outcome' = "ok" /\ (Abstract!Put(r) \/ Abstract!Update(r))
      BY <3>1 DEF Abstract!Accept
    <3>2. CASE outcome' # "ok" /\ ~Abstract!CanPut(r) /\ UNCHANGED View
      BY <3>2 DEF Abstract!Refuse, View
    <3> QED
      BY <1>1, <1>2, <3>1, <3>2, ServeStep
  <2>3. r \in Abstract!Requests
    BY DEF Abstract!Requests, Requests, Abstract!Values, Values, Abstract!Storable, Storable,
         Abstract!Unstorable, Unstorable, Abstract!Int64, Int64, Abstract!Flags, Flags,
         Abstract!Operators, Operators
  <2> QED
    BY <1>2, <2>1, <2>2, <2>3 DEF Abstract!Next
<1>3. CASE UNCHANGED vars
  <2>1. StoreInv'
    BY <1>3 DEF vars, StoreInv, TypeOK, MapsOK, OneTypePerKey, IsMap, Has
  <2>2. UNCHANGED <<View, request, outcome = "ok">>
    BY <1>3 DEF vars, Has, View, Get
  <2> QED
    BY <2>1, <2>2
<1> QED
  BY <1>2, <1>3 DEF Next

(* Both stores begin empty. *)
LEMMA InitInv ==
  ASSUME Init
  PROVE  StoreInv /\ Abstract!Init
<1>1. StoreInv
  BY DEF Init, StoreInv, TypeOK, MapsOK, OneTypePerKey, IsMap, Has, Empty, Outcomes
<1>2. \A k \in Keys : Get(k) = Absent
  BY DEF Init, Get, Has, Empty
<1> QED
  BY <1>1, <1>2 DEF Init, Abstract!Init, Abstract!Absent, Absent, Abstract!NoRequest, NoRequest

-----------------------------------------------------------------------------
(* PersistableDictionary.cpp: whatever a contract stores and updates, no   *)
(* key is in two of the string, integer and float maps, and every map      *)
(* holds data of its type.                                                 *)
THEOREM StorageSafe == Spec => [](TypeOK /\ OneTypePerKey)
<1>1. Init => StoreInv
  BY InitInv
<1>2. StoreInv /\ [Next]_vars => StoreInv'
  BY StepInv
<1> QED
  BY <1>1, <1>2, PTL DEF Spec, StoreInv

(* PersistableDictionary::apply: every integer that is kept fits its width.*)
THEOREM StorageTypeOK == Spec => []TypeOK
<1>1. TypeOK /\ OneTypePerKey => TypeOK
  OBVIOUS
<1> QED
  BY <1>1, StorageSafe, PTL

(* PersistableDictionary.cpp: the four maps, with the flags that replaced  *)
(* values leave behind, answer every read as one dictionary would after    *)
(* the same requests.                                                      *)
THEOREM StorageRefines == Spec => ImplementsDictionary
<1>1. Init => StoreInv /\ Abstract!Init
  BY InitInv
<1>2. StoreInv /\ [Next]_vars => StoreInv' /\ [Abstract!Next]_<<View, request, outcome = "ok">>
  BY StepInv
<1> QED
  BY <1>1, <1>2, PTL DEF Spec, ImplementsDictionary, Abstract!Spec, View
=============================================================================
