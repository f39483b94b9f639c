----------------------------- MODULE CallsProofs -----------------------------
(***************************************************************************)
(* Safety of Calls for every step limit and every depth limit.  The counts *)
(* are copied in both directions: down when a function is called, up when  *)
(* an exception leaves it.  What makes the copies agree is an invariant    *)
(* about the whole chain of interpreters: their counts rise from the       *)
(* host's to the innermost, their depths do so strictly, and while the     *)
(* program runs each of them is below the limit.                           *)
(***************************************************************************)
EXTENDS Calls, TLAPS

USE LimitAssumption, MaxDepthAssumption

(* One frame, the i-th: its place in the chain of scopes and its count. *)
Deep(f, i) == /\ i - 1 <= f.base /\ f.base <= f.depth
              /\ f.depth < MaxDepth

Within(f, w, total) == /\ f.num <= Limit /\ f.num <= total
                       /\ f.num = Limit => w = "out_of_gas"

Chain(fs, w, total) ==
  /\ fs \in Seq(Frame) /\ fs # <<>>
  /\ \A i \in 1 .. Len(fs) : Deep(fs[i], i) /\ Within(fs[i], w, total)
  /\ \A i, j \in 1 .. Len(fs) : i <= j => fs[i].num <= fs[j].num

CInv ==
  /\ Chain(frames, why, executed)
  /\ executed \in Nat
  /\ status \in {"running", "throwing", "done"}
  /\ why \in Exceptions \cup {"none"}
  /\ status = "running" => why = "none"
  /\ status # "running" /\ why = "out_of_gas" => Top.num = Limit
  /\ status = "done" => Len(frames) = 1

-----------------------------------------------------------------------------
(* The facts about the innermost interpreter that every step begins with. *)
LEMMA TopFacts ==
  ASSUME CInv
  PROVE  /\ frames \in Seq(Frame) /\ Len(frames) \in Nat \ {0}
         /\ Top = frames[Len(frames)] /\ Top \in Frame
         /\ Deep(Top, Len(frames)) /\ Within(Top, why, executed)
         /\ status = "running" => Top.num < Limit
<1>1. frames \in Seq(Frame) /\ Len(frames) \in Nat \ {0}
  BY DEF CInv, Chain
<1>2. Len(frames) \in 1 .. Len(frames)
  BY <1>1
<1>3. Top = frames[Len(frames)] /\ Top \in Frame
  BY <1>1, <1>2 DEF Top
<1>4. Deep(Top, Len(frames)) /\ Within(Top, why, executed)
  BY <1>2, <1>3 DEF CInv, Chain
<1>5. status = "running" => Top.num < Limit
  <2>1. status = "running" => why = "none"
    BY DEF CInv
  <2>2. Top.num \in Nat
    BY <1>3 DEF Frame
  <2>. QED  BY <1>4, <2>1, <2>2 DEF Within
<1>. QED  BY <1>1, <1>3, <1>4, <1>5

(* The innermost interpreter goes on to a count that is no smaller. *)
LEMMA ChainReplace ==
  ASSUME NEW fs, NEW w, NEW total \in Nat, NEW total2 \in Nat,
         Chain(fs, w, total), total <= total2,
         NEW f \in Frame, Deep(f, Len(fs)), Within(f, w, total2),
         fs[Len(fs)].num <= f.num
  PROVE  Chain([fs EXCEPT ![Len(fs)] = f], w, total2)
<1>. DEFINE n == Len(fs)
            gs == [fs EXCEPT ![n] = f]
<1>1. fs \in Seq(Frame) /\ n \in Nat \ {0}
  BY DEF Chain
<1>2. gs \in Seq(Frame) /\ Len(gs) = n
  BY <1>1
<1>3. \A i \in 1 .. n : gs[i] = IF i = n THEN f ELSE fs[i]
  BY <1>1
<1>4. \A i \in 1 .. n : fs[i].num \in Nat /\ f.num \in Nat
  <2>1. \A i \in 1 .. n : fs[i] \in Frame
    BY <1>1
  <2>. QED  BY <2>1 DEF Frame
<1>5. \A i \in 1 .. n : Deep(gs[i], i) /\ Within(gs[i], w, total2)
  <2>. TAKE i \in 1 .. n
  <2>1. CASE i = n
    BY <2>1, <1>3
  <2>2. CASE i # n
    <3>1. gs[i] = fs[i] /\ Deep(fs[i], i) /\ Within(fs[i], w, total)
      BY <2>2, <1>3 DEF Chain
    <3>. QED  BY <3>1, <1>4 DEF Within
  <2>. QED  BY <2>1, <2>2
<1>6. \A i, j \in 1 .. n : i <= j => gs[i].num <= gs[j].num
  <2>. TAKE i, j \in 1 .. n
  <2>. HAVE i <= j
  <2>1. fs[i].num <= fs[j].num /\ fs[i].num <= fs[n].num
    BY <1>1 DEF Chain
  <2>. QED  BY <2>1, <1>1, <1>3, <1>4
<1>7. gs # <<>> /\ gs[n] = f
  BY <1>1, <1>2, <1>3
<1>. QED  BY <1>2, <1>5, <1>6, <1>7 DEF Chain

(* While the program runs no count is at the limit, so any reason will do. *)
LEMMA ChainThrows ==
  ASSUME NEW fs, NEW w, NEW total, Chain(fs, "none", total)
  PROVE  Chain(fs, w, total)
BY DEF Chain, Within

(* A call adds an interpreter with its caller's count. *)
LEMMA ChainAppend ==
  ASSUME NEW fs, NEW w, NEW total \in Nat, Chain(fs, w, total),
         NEW f \in Frame, Deep(f, Len(fs) + 1), f.num = fs[Len(fs)].num
  PROVE  Chain(Append(fs, f), w, total)
<1>. DEFINE n == Len(fs)
            gs == Append(fs, f)
<1>1. fs \in Seq(Frame) /\ n \in Nat \ {0}
  BY DEF Chain
<1>2. gs \in Seq(Frame) /\ Len(gs) = n + 1 /\ gs # <<>>
  BY <1>1
<1>3. \A i \in 1 .. n + 1 : gs[i] = IF i = n + 1 THEN f ELSE fs[i]
  BY <1>1
<1>4. n \in 1 .. n /\ Within(fs[n], w, total)
  BY <1>1 DEF Chain
<1>5. Within(f, w, total)
  BY <1>4 DEF Within
<1>6. \A i \in 1 .. n + 1 : Deep(gs[i], i) /\ Within(gs[i], w, total)
  BY <1>1, <1>3, <1>5 DEF Chain
<1>7. \A i, j \in 1 .. n + 1 : i <= j => gs[i].num <= gs[j].num
  <2>. TAKE i, j \in 1 .. n + 1
  <2>. HAVE i <= j
  <2>1. \A k, l \in 1 .. n : k <= l => fs[k].num <= fs[l].num
    BY DEF Chain
  <2>2. f.num <= f.num
    BY DEF Frame
  <2>. QED  BY <2>1, <2>2, <1>1, <1>3
<1>. QED  BY <1>2, <1>6, <1>7 DEF Chain

(* Without its last interpreter the chain is still one. *)
LEMMA ChainPop ==
  ASSUME NEW fs, NEW w, NEW total \in Nat, Chain(fs, w, total), Len(fs) > 1
  PROVE  /\ Chain(SubSeq(fs, 1, Len(fs) - 1), w, total)
         /\ Len(SubSeq(fs, 1, Len(fs) - 1)) = Len(fs) - 1
         /\ \A i \in 1 .. Len(fs) - 1 : SubSeq(fs, 1, Len(fs) - 1)[i] = fs[i]
<1>. DEFINE n == Len(fs) - 1
            gs == SubSeq(fs, 1, n)
<1>1. fs \in Seq(Frame) /\ n \in Nat \ {0} /\ n + 1 = Len(fs)
  BY DEF Chain
<1>2. gs \in Seq(Frame) /\ Len(gs) = n /\ \A i \in 1 .. n : gs[i] = fs[i]
  BY <1>1
<1>3. gs # <<>>
  BY <1>1, <1>2
<1>. QED  BY <1>1, <1>2, <1>3 DEF Chain

-----------------------------------------------------------------------------
(* One interpreter, nothing charged. *)
LEMMA InitInv == Init => CInv
<1>. SUFFICES ASSUME Init PROVE CInv
  OBVIOUS
<1>. DEFINE f == [num |-> 0, base |-> 0, depth |-> 0, fresh |-> TRUE]
<1>1. frames = <<f>> /\ f \in Frame
  BY DEF Init, Frame
<1>2. Deep(f, 1) /\ Within(f, why, executed)
  BY DEF Init, Deep, Within
<1>3. Len(frames) = 1 /\ frames[1] = f /\ frames \in Seq(Frame) /\ frames # <<>>
  BY <1>1
<1>4. Chain(frames, why, executed)
  <2>1. \A i \in 1 .. Len(frames) : i = 1 /\ frames[i] = f
    BY <1>3
  <2>2. f.num <= f.num
    OBVIOUS
  <2>. HIDE DEF f
  <2>. QED  BY <1>2, <1>3, <2>1, <2>2 DEF Chain
<1>. QED  BY <1>1, <1>4 DEF Init, CInv, Exceptions

(* A charge leaves a well-formed innermost interpreter that is either      *)
(* still below the limit or the one that throws.                           *)
LEMMA ChargedFacts ==
  ASSUME CInv, status = "running"
  PROVE  /\ Charged \in Frame /\ Deep(Charged, Len(frames))
         /\ Charged.num = Top.num + 1 /\ Charged.num <= Limit
         /\ Charged.depth = Top.depth /\ Charged.base = Top.base
         /\ why = "none" /\ Top.num <= Charged.num
<1>1. Top \in Frame /\ Deep(Top, Len(frames)) /\ Top.num < Limit
  BY TopFacts
<1>2. Charged \in Frame /\ Charged.num = Top.num + 1 /\ Charged.depth = Top.depth
                       /\ Charged.base = Top.base
  BY <1>1 DEF Charged, Frame
<1>3. Top.num \in Nat
  BY <1>1 DEF Frame
<1>. QED  BY <1>1, <1>2, <1>3 DEF Deep, CInv

(* The history counts at least what the charged interpreter does. *)
LEMMA CountedFacts ==
  ASSUME CInv, Counted, status = "running"
  PROVE  executed' \in Nat /\ executed <= executed' /\ Charged.num <= executed'
<1>1. executed \in Nat
  BY DEF CInv
<1>2. Top.num \in Nat /\ Top.num <= executed /\ Charged.num = Top.num + 1 /\ Charged.num <= Limit
  BY TopFacts, ChargedFacts DEF Frame, Within
<1>. QED  BY <1>1, <1>2 DEF Counted

(* The three ways a charge can end, for every action that makes one. *)
LEMMA ChargeThrows ==
  ASSUME CInv, status = "running", Counted, frames' = SetTop(Charged),
         NEW e \in Exceptions, Throw(e), Charged.num = Limit <=> e = "out_of_gas"
  PROVE  CInv'
<1>1. /\ executed \in Nat /\ executed' \in Nat /\ executed <= executed'
      /\ Charged.num <= executed'
  BY CountedFacts DEF CInv
<1>2. /\ Charged \in Frame /\ Deep(Charged, Len(frames)) /\ Charged.num <= Limit
      /\ why = "none" /\ Top.num <= Charged.num
  BY ChargedFacts
<1>3. Within(Charged, e, executed')
  BY <1>1, <1>2 DEF Within
<1>4. Chain(frames, e, executed) /\ frames[Len(frames)].num <= Charged.num
  BY <1>2, ChainThrows DEF CInv, Top
<1>5. Chain(SetTop(Charged), e, executed')
  BY <1>1, <1>2, <1>3, <1>4, ChainReplace DEF SetTop
<1>6. Top' = Charged
  BY TopFacts DEF SetTop, Top
<1>. QED  BY <1>1, <1>5, <1>6 DEF CInv, Throw

(* A charge below the limit, with whatever it does to the depth. *)
LEMMA ChargeGoesOn ==
  ASSUME CInv, status = "running", Counted, NEW f \in Frame, frames' = SetTop(f),
         f.num = Charged.num, Deep(f, Len(frames)), ~OutOfGas(Charged.num),
         UNCHANGED <<status, why>>
  PROVE  CInv'
<1>1. /\ executed \in Nat /\ executed' \in Nat /\ executed <= executed'
      /\ Charged.num <= executed'
  BY CountedFacts DEF CInv
<1>2. why = "none" /\ Top.num <= Charged.num /\ Charged.num < Limit
  <2>1. Charged \in Frame /\ why = "none" /\ Top.num <= Charged.num
    BY ChargedFacts
  <2>. QED  BY <2>1 DEF OutOfGas, Frame
<1>3. Within(f, why, executed')
  <2>1. f.num \in Nat
    BY DEF Frame
  <2>. QED  BY <1>1, <1>2, <2>1 DEF Within
<1>4. Chain(frames, why, executed) /\ frames[Len(frames)].num <= f.num
  BY <1>2 DEF CInv, Top
<1>5. Chain(SetTop(f), why, executed')
  BY <1>1, <1>2, <1>3, <1>4, ChainReplace DEF SetTop
<1>. QED  BY <1>1, <1>2, <1>5 DEF CInv

(* An action that makes a charge and a scope either throws or goes on. *)
LEMMA OpenScopeCases ==
  ASSUME CInv, status = "running", NEW next, OpenScope(next)
  PROVE  \/ CInv'
         \/ /\ frames' = next /\ Counted /\ UNCHANGED <<status, why>>
            /\ ~OutOfGas(Charged.num) /\ Top.depth + 1 < MaxDepth
<1>1. Charged.num \in Nat /\ Charged.num <= Limit /\ Top.depth \in Nat
  BY TopFacts, ChargedFacts DEF Frame
<1>2. CASE OutOfGas(Charged.num)
  <2>1. Throw("out_of_gas") /\ frames' = SetTop(Charged) /\ Counted
    BY <1>2 DEF OpenScope
  <2>2. Charged.num = Limit /\ "out_of_gas" \in Exceptions
    BY <1>1, <1>2 DEF OutOfGas, Exceptions
  <2>. QED  BY <2>1, <2>2, ChargeThrows
<1>3. CASE ~OutOfGas(Charged.num) /\ TooDeep(Top.depth + 1)
  <2>1. Throw("depth") /\ frames' = SetTop(Charged) /\ Counted
    BY <1>3 DEF OpenScope
  <2>2. Charged.num # Limit /\ "depth" \in Exceptions /\ "depth" # "out_of_gas"
    BY <1>1, <1>3 DEF OutOfGas, Exceptions
  <2>. QED  BY <2>1, <2>2, ChargeThrows
<1>4. CASE ~OutOfGas(Charged.num) /\ ~TooDeep(Top.depth + 1)
  BY <1>1, <1>4 DEF OpenScope, TooDeep
<1>. QED  BY <1>2, <1>3, <1>4

(* A charge raises the step count of the innermost interpreter only. *)
LEMMA ChargeInv == ASSUME CInv, Charge PROVE CInv'
<1>. USE DEF Charge
<1>1. /\ Charged \in Frame /\ Deep(Charged, Len(frames))
      /\ Charged.num \in Nat /\ Charged.num <= Limit
  BY ChargedFacts DEF Frame
<1>2. CASE OutOfGas(Charged.num)
  <2>1. Charged.num = Limit /\ "out_of_gas" \in Exceptions /\ Throw("out_of_gas")
    BY <1>1, <1>2 DEF OutOfGas, Exceptions
  <2>. QED  BY <2>1, ChargeThrows
<1>3. CASE ~OutOfGas(Charged.num)
  BY <1>1, <1>3, ChargeGoesOn
<1>. QED  BY <1>2, <1>3

(* The scope of a loop body makes the innermost frame one deeper. *)
LEMMA EnterLoopBodyInv == ASSUME CInv, EnterLoopBody PROVE CInv'
<1>. DEFINE f == [Charged EXCEPT !.depth = @ + 1]
<1>1. status = "running" /\ OpenScope(SetTop(f))
  BY DEF EnterLoopBody, InFunction
<1>. SUFFICES ASSUME frames' = SetTop(f), Counted, UNCHANGED <<status, why>>,
                     ~OutOfGas(Charged.num), Top.depth + 1 < MaxDepth
              PROVE  CInv'
  BY <1>1, OpenScopeCases
<1>2. Charged \in Frame /\ Deep(Charged, Len(frames)) /\ Charged.depth = Top.depth
  BY <1>1, ChargedFacts
<1>3. f \in Frame /\ f.num = Charged.num
  BY <1>2 DEF Frame
<1>4. Deep(f, Len(frames))
  BY <1>2 DEF Deep, Frame
<1>. QED  BY <1>1, <1>3, <1>4, ChargeGoesOn

(* The end of a loop takes that scope away. *)
LEMMA LeaveLoopBodyInv == ASSUME CInv, LeaveLoopBody PROVE CInv'
<1>. DEFINE f == [Top EXCEPT !.depth = @ - 1]
<1>1. status = "running" /\ Top.depth > Top.base /\ frames' = SetTop(f)
      /\ UNCHANGED <<status, why, executed>>
  BY DEF LeaveLoopBody, InFunction
<1>2. Top \in Frame /\ Deep(Top, Len(frames)) /\ Within(Top, why, executed)
  BY TopFacts
<1>3. f \in Frame /\ f.num = Top.num
  BY <1>1, <1>2 DEF Frame
<1>4. Deep(f, Len(frames)) /\ Within(f, why, executed)
  BY <1>1, <1>2 DEF Deep, Within, Frame
<1>5. /\ Chain(frames, why, executed) /\ frames[Len(frames)].num <= f.num
      /\ executed \in Nat /\ executed <= executed
  BY <1>2, <1>3 DEF CInv, Top, Frame
<1>6. Chain(SetTop(f), why, executed)
  BY <1>3, <1>4, <1>5, ChainReplace DEF SetTop
<1>. QED  BY <1>1, <1>6 DEF CInv

(* The frame of a call, one level below the caller's scope. *)
LEMMA CalleeFacts ==
  ASSUME CInv, NEW num \in Nat, Top.depth + 1 < MaxDepth
  PROVE  Callee(num) \in Frame /\ Callee(num).num = num /\ Deep(Callee(num), Len(frames) + 1)
<1>1. Top \in Frame /\ Deep(Top, Len(frames)) /\ Len(frames) \in Nat \ {0}
  BY TopFacts
<1>2. Top.depth \in Nat /\ Top.base \in Nat
  BY <1>1 DEF Frame
<1>3. Callee(num) \in Frame /\ Callee(num).num = num
  BY <1>2 DEF Callee, Frame
<1>4. Callee(num).base = Top.depth + 1 /\ Callee(num).depth = Top.depth + 1
  BY DEF Callee
<1>. QED  BY <1>1, <1>2, <1>3, <1>4 DEF Deep

(* The new interpreter begins with the count of its caller. *)
LEMMA CallInv == ASSUME CInv, Call PROVE CInv'
<1>. DEFINE gs == SetTop(Charged)
<1>1. status = "running" /\ OpenScope(Append(gs, Callee(Charged.num)))
  BY DEF Call, InFunction
<1>. SUFFICES ASSUME frames' = Append(gs, Callee(Charged.num)), Counted,
                     UNCHANGED <<status, why>>,
                     ~OutOfGas(Charged.num), Top.depth + 1 < MaxDepth
              PROVE  CInv'
  BY <1>1, OpenScopeCases
<1>2. /\ Charged \in Frame /\ Deep(Charged, Len(frames)) /\ Charged.num <= Limit
      /\ why = "none" /\ Top.num <= Charged.num /\ Charged.num \in Nat
  BY <1>1, ChargedFacts DEF Frame
<1>3. executed \in Nat /\ executed' \in Nat /\ executed <= executed' /\ Charged.num <= executed'
  BY <1>1, CountedFacts DEF CInv
<1>4. Within(Charged, why, executed')
  BY <1>2, <1>3 DEF Within, OutOfGas
<1>5. Chain(frames, why, executed) /\ frames[Len(frames)].num <= Charged.num
  BY <1>2 DEF CInv, Top
<1>6. Chain(gs, why, executed')
  BY <1>2, <1>3, <1>4, <1>5, ChainReplace DEF SetTop
<1>7. Len(gs) = Len(frames) /\ gs[Len(gs)] = Charged
  BY TopFacts DEF SetTop
<1>8. /\ Callee(Charged.num) \in Frame /\ Callee(Charged.num).num = gs[Len(gs)].num
      /\ Deep(Callee(Charged.num), Len(gs) + 1)
  BY <1>2, <1>7, CalleeFacts
<1>9. Chain(frames', why, executed')
  <2>. HIDE DEF gs
  <2>. QED  BY <1>3, <1>6, <1>8, ChainAppend
<1>. QED  BY <1>1, <1>2, <1>3, <1>9 DEF CInv

(* A native function has a scope and no interpreter. *)
LEMMA CallNativeInv == ASSUME CInv, CallNative PROVE CInv'
<1>1. status = "running" /\ OpenScope(SetTop(Charged))
  BY DEF CallNative, InFunction
<1>2. Charged \in Frame /\ Deep(Charged, Len(frames))
  BY <1>1, ChargedFacts
<1>. QED  BY <1>1, <1>2, OpenScopeCases, ChargeGoesOn

(* The call of the call data is made like any other. *)
LEMMA CalldataInv == ASSUME CInv, Calldata PROVE CInv'
<1>1. status = "running" /\ executed' = executed /\ executed \in Nat /\ why = "none"
  BY DEF Calldata, CInv
<1>2. Top.num \in Nat /\ Top.depth \in Nat
  BY TopFacts DEF Frame
<1>3. CASE TooDeep(Top.depth + 1)
  <2>1. Throw("depth") /\ UNCHANGED frames
    BY <1>3 DEF Calldata
  <2>2. Chain(frames, "depth", executed)
    BY <1>1, ChainThrows DEF CInv
  <2>. QED  BY <1>1, <2>1, <2>2 DEF CInv, Throw, Exceptions
<1>4. CASE ~TooDeep(Top.depth + 1)
  <2>1. frames' = Append(frames, Callee(Top.num)) /\ UNCHANGED <<status, why>>
    BY <1>4 DEF Calldata
  <2>2. /\ Callee(Top.num) \in Frame /\ Callee(Top.num).num = frames[Len(frames)].num
        /\ Deep(Callee(Top.num), Len(frames) + 1)
    BY <1>2, <1>4, CalleeFacts DEF TooDeep, Top
  <2>3. Chain(frames', why, executed)
    BY <1>1, <2>1, <2>2, ChainAppend DEF CInv
  <2>. QED  BY <1>1, <2>1, <2>3 DEF CInv
<1>. QED  BY <1>3, <1>4

(* A native function called from outside leaves every count as it is.      *)
LEMMA CalldataNativeInv == ASSUME CInv, CalldataNative PROVE CInv'
<1>1. /\ status = "running" /\ why = "none" /\ Len(frames) = 1
      /\ UNCHANGED <<frames, executed>> /\ Top' = Top
  BY DEF CalldataNative, CInv, Top
<1>2. CASE TooDeep(Top.depth + 1)
  <2>1. Throw("depth")
    BY <1>2 DEF CalldataNative
  <2>2. Chain(frames, "depth", executed)
    BY <1>1, ChainThrows DEF CInv
  <2>. QED  BY <1>1, <2>1, <2>2 DEF CInv, Throw, Exceptions
<1>3. CASE ~TooDeep(Top.depth + 1)
  <2>1. status' = "done" /\ UNCHANGED why
    BY <1>3 DEF CalldataNative
  <2>. QED  BY <1>1, <2>1 DEF CInv
<1>. QED  BY <1>2, <1>3

(* What is left when the innermost interpreter is gone: its caller, now    *)
(* innermost, with its own count or with the callee's.                     *)
LEMMA PopFacts ==
  ASSUME CInv, Len(frames) > 1,
         NEW f, f \in {frames[Len(frames) - 1], [frames[Len(frames) - 1] EXCEPT !.num = Top.num]}
  PROVE  LET n  == Len(frames) - 1
             gs == [SubSeq(frames, 1, n) EXCEPT ![n] = f]
         IN  Chain(gs, why, executed) /\ Len(gs) = n /\ gs[n] = f
<1>. DEFINE n == Len(frames) - 1
            low == SubSeq(frames, 1, n)
            g == frames[n]
<1>1. frames \in Seq(Frame) /\ Len(frames) \in Nat \ {0} /\ n \in Nat \ {0}
  BY TopFacts
<1>2. Chain(low, why, executed) /\ Len(low) = n /\ low[n] = g
  BY <1>1, ChainPop DEF CInv
<1>3. g \in Frame /\ Top \in Frame /\ g.num <= Top.num
  BY <1>1, TopFacts DEF CInv, Chain, Top
<1>4. Deep(g, n) /\ Within(g, why, executed) /\ Within(Top, why, executed)
  BY <1>1, TopFacts DEF CInv, Chain
<1>5. f \in Frame /\ (f.num = g.num \/ f.num = Top.num) /\ f.base = g.base /\ f.depth = g.depth
  BY <1>3 DEF Frame
<1>6. Deep(f, n) /\ Within(f, why, executed) /\ g.num <= f.num
  BY <1>3, <1>4, <1>5 DEF Deep, Within, Frame
<1>7. executed \in Nat /\ executed <= executed
  BY DEF CInv
<1>8. Chain([low EXCEPT ![Len(low)] = f], why, executed)
  <2>. HIDE DEF low, n
  <2>. QED  BY <1>2, <1>5, <1>6, <1>7, ChainReplace
<1>9. low \in Seq(Frame)
  BY <1>2 DEF Chain
<1>. QED  BY <1>1, <1>2, <1>8, <1>9, SMTT(30)

(* The caller goes on with its old count, or with that of the callee. *)
LEMMA ReturnInv == ASSUME CInv, Return PROVE CInv'
<1>. DEFINE n == Len(frames) - 1
            f == AfterReturn(frames[n], Top)
            gs == [SubSeq(frames, 1, n) EXCEPT ![n] = f]
<1>1. status = "running" /\ Len(frames) > 1 /\ UNCHANGED <<why, executed>>
      /\ status' = IF n = 1 THEN "done" ELSE "running"
  BY DEF Return, InFunction
<1>2. frames \in Seq(Frame) /\ Len(frames) \in Nat \ {0}
  BY TopFacts
<1>3. SubSeq(frames, 1, n)[n] = frames[n]
  BY <1>1, <1>2
<1>4. frames' = gs
  BY <1>3 DEF Return
<1>5. f \in {frames[n], [frames[n] EXCEPT !.num = Top.num]}
  BY DEF AfterReturn
<1>6. Chain(gs, why, executed) /\ Len(gs) = n
  BY <1>1, <1>5, PopFacts
<1>7. why = "none"
  BY <1>1 DEF CInv
<1>. QED  BY <1>1, <1>4, <1>6, <1>7 DEF CInv

(* An exception leaves the counts as they are. *)
LEMMA RaiseInv == ASSUME CInv, Raise PROVE CInv'
<1>1. Chain(frames, "error", executed)
  BY ChainThrows DEF CInv, Raise
<1>. QED  BY <1>1 DEF CInv, Raise, Throw, Exceptions

(* The count of the frame an exception leaves goes to its caller. *)
LEMMA UnwindInv == ASSUME CInv, Unwind PROVE CInv'
<1>. DEFINE n == Len(frames) - 1
            f == AfterThrow(frames[n], Top)
            gs == [SubSeq(frames, 1, n) EXCEPT ![n] = f]
<1>1. status = "throwing" /\ UNCHANGED <<why, executed>>
  BY DEF Unwind
<1>2. frames \in Seq(Frame) /\ Len(frames) \in Nat \ {0} /\ Top \in Frame
  BY TopFacts
<1>3. CASE Len(frames) = 1
  <2>1. status' = "done" /\ UNCHANGED frames
    BY <1>2, <1>3 DEF Unwind
  <2>2. Top' = Top
    BY <2>1 DEF Top
  <2>. QED  BY <1>1, <1>3, <2>1, <2>2 DEF CInv
<1>4. CASE Len(frames) > 1
  <2>1. SubSeq(frames, 1, n)[n] = frames[n] /\ ~(n = 0)
    BY <1>2, <1>4
  <2>2. frames' = gs /\ UNCHANGED status
    BY <2>1 DEF Unwind
  <2>3. f \in {frames[n], [frames[n] EXCEPT !.num = Top.num]}
    BY DEF AfterThrow
  <2>4. Chain(gs, why, executed) /\ Len(gs) = n /\ gs[n] = f
    BY <1>4, <2>3, PopFacts
  <2>5. Top' = f
    BY <2>2, <2>4 DEF Top
  <2>6. f.num = Top.num
    <3>1. frames[n] \in Frame
      BY <1>2, <1>4
    <3>. QED  BY <3>1 DEF AfterThrow, Frame
  <2>. QED  BY <1>1, <2>2, <2>4, <2>5, <2>6 DEF CInv
<1>. QED  BY <1>2, <1>3, <1>4

(* Every step keeps the invariant. *)
LEMMA StepInv == CInv /\ [Next]_vars => CInv'
<1>. SUFFICES ASSUME CInv, [Next]_vars PROVE CInv'
  OBVIOUS
<1>1. CASE Step
  BY <1>1, ChargeInv, EnterLoopBodyInv, LeaveLoopBodyInv, CalldataInv, CalldataNativeInv,
     CallInv, CallNativeInv, ReturnInv, RaiseInv, UnwindInv DEF Step
<1>2. CASE UNCHANGED vars
  BY <1>2 DEF vars, CInv, Top
<1>. QED  BY <1>1, <1>2 DEF Next, Done

(* CInv holds in every state the interpreters reach, whatever the program  *)
(* does: the counts of the whole chain agree with each other, with the     *)
(* limit and with the exception under way.                                 *)
THEOREM CallsSafe == Spec => []CInv
<1>. QED  BY InitInv, StepInv, PTL DEF Spec

-----------------------------------------------------------------------------
(* The host's interpreter is always there and every frame is well formed.  *)
THEOREM CallsTypeOK == Spec => []TypeOK
<1>1. CInv => TypeOK
  BY DEF CInv, Chain, TypeOK
<1>. QED  BY <1>1, CallsSafe, PTL

(* Counts rise from the host's interpreter to the innermost, for any limit *)
(* and any nesting of calls: what an exception stores takes no step back.  *)
THEOREM CallsCountersNested == Spec => []CountersNested
<1>1. CInv => CountersNested
  BY DEF CInv, Chain, CountersNested
<1>. QED  BY <1>1, CallsSafe, PTL

(* No interpreter passes the limit, and none is at the limit before the    *)
(* charge that throws, for any limit.                                      *)
THEOREM CallsLimit == Spec => []LimitReachedOnlyByThrowing
<1>1. CInv => LimitReachedOnlyByThrowing
  BY DEF CInv, Chain, Within, LimitReachedOnlyByThrowing
<1>. QED  BY <1>1, CallsSafe, PTL

(* The host bills all the steps of the limit exactly when the program ran  *)
(* out of gas, and never more steps than were executed.                    *)
THEOREM CallsBill == Spec => []BillMatchesEnding
<1>1. CInv => BillMatchesEnding
  <2>. SUFFICES ASSUME CInv PROVE BillMatchesEnding
    OBVIOUS
  <2>1. Len(frames) \in Nat \ {0}
    BY TopFacts
  <2>2. Within(frames[1], why, executed)
    BY <2>1 DEF CInv, Chain
  <2>3. status = "done" => Top = frames[1]
    BY DEF CInv, Top
  <2>. QED  BY <2>2, <2>3 DEF CInv, Within, BillMatchesEnding
<1>. QED  BY <1>1, CallsSafe, PTL

(* Neither the scopes nor the interpreters nest deeper than the limit of   *)
(* the scope's constructor.                                                *)
THEOREM CallsDepth == Spec => []DepthBounded
<1>1. CInv => DepthBounded
  <2>. SUFFICES ASSUME CInv PROVE DepthBounded
    OBVIOUS
  <2>1. /\ frames \in Seq(Frame) /\ Len(frames) \in Nat \ {0} /\ Top \in Frame
        /\ Deep(Top, Len(frames))
    BY TopFacts
  <2>2. Len(frames) <= MaxDepth
    BY <2>1 DEF Deep, Frame
  <2>3. \A i \in 1 .. Len(frames) : frames[i].depth < MaxDepth
    BY DEF CInv, Chain, Deep
  <2>. QED  BY <2>2, <2>3 DEF DepthBounded
<1>. QED  BY <1>1, CallsSafe, PTL
=============================================================================
