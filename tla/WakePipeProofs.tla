--------------------------- MODULE WakePipeProofs ---------------------------
(***************************************************************************)
(* For any number of reactors and signals and any pipe capacity: the shim  *)
(* and the dispatch loops are well typed, the signal handler's target is   *)
(* open whenever the handler may run, no signal counted for the target     *)
(* since its pipe was opened is left without a byte in it, and no callback *)
(* runs more often than its signal was delivered.                          *)
(***************************************************************************)
EXTENDS WakePipe, TLAPS, SequenceTheorems

PcSet == {"wait", "drain", "read", "clear", "call", "cb", "tell"}

\* dispatch_signals stays inside the table it took the length of.
Ranges ==
    \A r \in Reactors :
        /\ idx[r] >= 1
        /\ hi[r] <= Len(sigs[r])
        /\ pc[r] \in {"clear", "call", "cb"} => idx[r] <= hi[r]

IInv == TypeOK /\ Ranges /\ HandlerTargetOpen

(* The initial state satisfies the invariant.                                *)
LEMMA InitIInv == Init => IInv
    BY WakeAssumption
    DEF Init, IInv, TypeOK, Ranges, HandlerTargetOpen

(* The entry being served is a signal.                                       *)
LEMMA ServedEntry ==
  ASSUME IInv, NEW r \in Reactors, idx[r] <= hi[r]
  PROVE  sigs[r][idx[r]] \in Signals
<1>1. sigs[r] \in Seq(Signals) /\ idx[r] \in 1 .. Len(sigs[r])
    BY DEF IInv, TypeOK, Ranges
<1>2. QED
    BY <1>1, ElementOfSeq

(* Cutting the innermost reactor off the stack leaves a stack.               *)
LEMMA Popped ==
  ASSUME IInv, stack # <<>>
  PROVE  SubSeq(stack, 1, Len(stack) - 1) \in Seq(Reactors)
<1>0. stack \in Seq(Reactors)
    BY DEF IInv, TypeOK
<1>1. stack \in Seq(Reactors) /\ Len(stack) \in Nat /\ Len(stack) > 0
    BY <1>0, EmptySeq, LenProperties
<1>2. \A i \in 1 .. Len(stack) - 1 : stack[i] \in Reactors
    BY <1>1, ElementOfSeq
<1>3. QED
    BY <1>1, <1>2, SubSeqProperties

(* One byte more or less keeps a pipe in range.                              *)
LEMMA PipeRange ==
  ASSUME IInv, NEW r \in Reactors
  PROVE  /\ WriteByte(r) => pipe' \in [Reactors -> 0 .. PipeCap]
         /\ pipe' = [pipe EXCEPT ![r] = @ - Least(@, BufSize)]
              => pipe' \in [Reactors -> 0 .. PipeCap]
<1>1. pipe \in [Reactors -> 0 .. PipeCap] /\ PipeCap \in Nat /\ BufSize \in Nat
    BY WakeAssumption DEF IInv, TypeOK
<1>2. pipe[r] \in 0 .. PipeCap
    BY <1>1
<1>3. Least(pipe[r] + 1, PipeCap) \in 0 .. PipeCap
    BY <1>1, <1>2 DEF Least
<1>4. pipe[r] - Least(pipe[r], BufSize) \in 0 .. PipeCap
    BY <1>1, <1>2 DEF Least
<1>5. QED
    BY <1>1, <1>3, <1>4 DEF WriteByte

(* A call on a reactor keeps the invariant.                                  *)
LEMMA CallKeeps ==
  ASSUME IInv, NEW r \in Reactors,
         \/ Wakeable(r) \/ WakeableFails(r) \/ OnWake(r) \/ Wake(r)
         \/ CloseDisarm(r) \/ CloseFds(r)
  PROVE  IInv'
<1>a. NoReactor \notin Reactors /\ PipeCap \in Nat
    BY WakeAssumption
<1>1. CASE Wakeable(r)
    BY <1>a, <1>1
    DEF Wakeable, IInv, TypeOK, Ranges, HandlerTargetOpen, loopVars, histVars
<1>2. CASE WakeableFails(r)
    BY <1>a, <1>2
    DEF WakeableFails, IInv, TypeOK, Ranges, HandlerTargetOpen, loopVars, histVars
<1>3. CASE OnWake(r)
    BY <1>a, <1>3
    DEF OnWake, IInv, TypeOK, Ranges, HandlerTargetOpen, shimVars, histVars
<1>4. CASE Wake(r)
  <2>1. pipe' \in [Reactors -> 0 .. PipeCap]
    BY <1>4, PipeRange DEF Wake
  <2>2. wakes' \in [Reactors -> Nat]
    BY <1>4, SMTT(30) DEF Wake, IInv, TypeOK
  <2>3. QED
    BY <1>4, <2>1, <2>2 DEF Wake, IInv, TypeOK, Ranges, HandlerTargetOpen, loopVars
<1>5. CASE CloseDisarm(r)
    BY <1>a, <1>5
    DEF CloseDisarm, IInv, TypeOK, Ranges, HandlerTargetOpen, loopVars, histVars
<1>6. CASE CloseFds(r)
  <2>1. target' # r
    BY <1>6, <1>a DEF CloseFds, IInv, HandlerTargetOpen, TypeOK
  <2>2. QED
    BY <1>a, <1>6, <2>1, SMTT(30)
    DEF CloseFds, IInv, TypeOK, Ranges, HandlerTargetOpen, loopVars, histVars
<1>7. QED
    BY <1>1, <1>2, <1>3, <1>4, <1>5, <1>6

(* onSignal() only lengthens the table.                                      *)
LEMMA OnSignalKeeps ==
  ASSUME IInv, NEW r \in Reactors, NEW s \in Signals, OnSignal(r, s)
  PROVE  IInv'
<1>1. sigs[r] \in Seq(Signals)
    BY DEF IInv, TypeOK
<1>2. Append(sigs[r], s) \in Seq(Signals) /\ Len(Append(sigs[r], s)) = Len(sigs[r]) + 1
    BY <1>1, AppendProperties
<1>3. sigs' \in [Reactors -> Seq(Signals)] /\ \A q \in Reactors : Len(sigs[q]) <= Len(sigs'[q])
    BY <1>1, <1>2, SMTT(30) DEF OnSignal, IInv, TypeOK
<1>4. Ranges'
    BY <1>3 DEF OnSignal, IInv, TypeOK, Ranges
<1>5. QED
    BY <1>3, <1>4 DEF OnSignal, IInv, TypeOK, HandlerTargetOpen, histVars

(* The handler writes to an open pipe.                                       *)
LEMMA DeliverKeeps ==
  ASSUME IInv, NEW s \in Signals, Deliver(s)
  PROVE  IInv'
<1>1. pipe' \in [Reactors -> 0 .. PipeCap]
    BY PipeRange DEF Deliver, IInv, TypeOK
<1>2. count' \in [Signals -> 0 .. CountMax]
    BY WakeAssumption, SMTT(30) DEF Deliver, IInv, TypeOK, Least
<1>3. arrived' \in [Signals -> Nat]
    BY DEF Deliver, IInv, TypeOK
<1>4. since' \subseteq Signals
    BY DEF Deliver, IInv, TypeOK
<1>5. missed' \in [Signals -> Int]
    BY DEF Deliver, IInv, TypeOK
<1>6. QED
    BY <1>1, <1>2, <1>3, <1>4, <1>5 DEF Deliver, IInv, TypeOK, Ranges, HandlerTargetOpen, loopVars

(* A step of the dispatch loop keeps the invariant.                          *)
LEMMA LoopKeeps ==
  ASSUME IInv, NEW r \in Reactors,
         \/ Notice(r) \/ Drain(r) \/ ReadCount(r) \/ ClearCount(r)
         \/ CallSignal(r) \/ EndDispatch(r) \/ Return(r)
  PROVE  IInv'
<1>1. CASE Notice(r)
  <2>1. Append(stack, r) \in Seq(Reactors)
    BY AppendProperties DEF IInv, TypeOK
  <2>2. QED
    BY <1>1, <2>1
    DEF Notice, IInv, TypeOK, Ranges, HandlerTargetOpen, shimVars, histVars
<1>2. CASE Drain(r)
  <2>1. pipe' \in [Reactors -> 0 .. PipeCap]
    BY <1>2, PipeRange DEF Drain
  <2>2. Len(sigs[r]) \in Nat
    BY DEF IInv, TypeOK
  <2>3. CASE UNCHANGED <<pc, idx, hi, any>>
    BY <1>2, <2>1, <2>3 DEF Drain, IInv, TypeOK, Ranges, HandlerTargetOpen, histVars
  <2>4. CASE /\ pc' = [pc EXCEPT ![r] = "read"]
             /\ idx' = [idx EXCEPT ![r] = 1]
             /\ hi' = [hi EXCEPT ![r] = Len(sigs[r])]
             /\ any' = [any EXCEPT ![r] = FALSE]
    <3>1. Ranges'
      BY <1>2, <2>2, <2>4 DEF Drain, IInv, TypeOK, Ranges
    <3>2. QED
      BY <1>2, <2>1, <2>2, <2>4, <3>1 DEF Drain, IInv, TypeOK, HandlerTargetOpen, histVars
  <2>5. QED
    BY <1>2, <2>3, <2>4 DEF Drain
<1>3. CASE ReadCount(r)
  <2>1. count[sigs[r][idx[r]]] \in 0 .. CountMax
    BY <1>3, ServedEntry DEF ReadCount, IInv, TypeOK
  <2>2. QED
    BY <1>3, <2>1
    DEF ReadCount, IInv, TypeOK, Ranges, HandlerTargetOpen, shimVars, histVars
<1>4. CASE ClearCount(r)
  <2>1. count' \in [Signals -> 0 .. CountMax]
    <3>1. count \in [Signals -> 0 .. CountMax] /\ 0 \in 0 .. CountMax
      BY WakeAssumption DEF IInv, TypeOK
    <3>2. count' = [count EXCEPT ![sigs[r][idx[r]]] = 0]
      BY <1>4 DEF ClearCount
    <3>3. QED
      BY <3>1, <3>2
  <2>2. any' \in [Reactors -> BOOLEAN]
    BY <1>4, Zenon DEF ClearCount, IInv, TypeOK
  <2>3. missed' \in [Signals -> Int]
    <3>1. sigs[r][idx[r]] \in Signals
      BY <1>4, ServedEntry DEF ClearCount, IInv, Ranges
    <3>2. /\ missed \in [Signals -> Int] /\ count[sigs[r][idx[r]]] \in 0 .. CountMax
          /\ num[r] \in 0 .. CountMax /\ CountMax \in Nat
      BY <3>1, WakeAssumption DEF IInv, TypeOK
    <3>3. PICK x : x = sigs[r][idx[r]]
      OBVIOUS
    <3>4. missed' = [missed EXCEPT ![x] = @ + count[x] - num[r]]
      BY <1>4, <3>3 DEF ClearCount
    <3>5. QED
      BY <3>1, <3>2, <3>3, <3>4
  <2>4. since' \subseteq Signals
    BY <1>4 DEF ClearCount, IInv, TypeOK
  <2>5. QED
    BY <1>4, <2>1, <2>2, <2>3, <2>4
    DEF ClearCount, IInv, TypeOK, Ranges, HandlerTargetOpen
<1>5. CASE CallSignal(r)
  <2>1. CASE num[r] > 0
    <3>1. called' \in [Signals -> Nat]
      <4>1. sigs[r][idx[r]] \in Signals
        BY <1>5, ServedEntry DEF CallSignal, IInv, Ranges
      <4>2. called \in [Signals -> Nat] /\ num[r] \in 0 .. CountMax /\ CountMax \in Nat
        BY WakeAssumption DEF IInv, TypeOK
      <4>3. called' = [called EXCEPT ![sigs[r][idx[r]]] = @ + 1]
        BY <1>5, <2>1, <4>2 DEF CallSignal
      <4>4. QED
        BY <4>1, <4>2, <4>3
    <3>2. num' \in [Reactors -> 0 .. CountMax]
      <4>1. num[r] \in 0 .. CountMax /\ num \in [Reactors -> 0 .. CountMax] /\ CountMax \in Nat
        BY WakeAssumption DEF IInv, TypeOK
      <4>2. num' = [num EXCEPT ![r] = @ - 1]
        BY <1>5, <2>1, <4>1 DEF CallSignal
      <4>3. num[r] - 1 \in 0 .. CountMax
        BY <2>1, <4>1
      <4>4. QED
        BY <4>1, <4>2, <4>3
    <3>3. pc' = [pc EXCEPT ![r] = "cb"] /\ UNCHANGED idx
      BY <1>5, <2>1 DEF CallSignal, IInv, TypeOK
    <3>4. Ranges'
      BY <1>5, <3>3 DEF CallSignal, IInv, TypeOK, Ranges
    <3>5. QED
      BY <1>5, <3>1, <3>2, <3>3, <3>4
      DEF CallSignal, IInv, TypeOK, HandlerTargetOpen, shimVars
  <2>2. CASE num[r] = 0
    <3>1. /\ idx' = [idx EXCEPT ![r] = @ + 1] /\ pc' = [pc EXCEPT ![r] = "read"]
          /\ UNCHANGED <<num, called>>
      BY <1>5, <2>2 DEF CallSignal
    <3>2. Ranges'
      BY <1>5, <3>1 DEF CallSignal, IInv, TypeOK, Ranges
    <3>3. QED
      BY <1>5, <3>1, <3>2
      DEF CallSignal, IInv, TypeOK, HandlerTargetOpen, shimVars
  <2>3. num[r] > 0 \/ num[r] = 0
    BY <1>5 DEF CallSignal
  <2>4. QED
    BY <2>1, <2>2, <2>3
<1>6. CASE EndDispatch(r)
  <2>1. stack' \in Seq(Reactors)
    BY <1>6, Popped DEF EndDispatch, In, IInv, TypeOK
  <2>2. pc' \in [Reactors -> PcSet] /\ \A q \in Reactors : pc'[q] \in {pc[q], "tell", "wait"}
    BY <1>6 DEF EndDispatch, IInv, TypeOK, PcSet
  <2>3. QED
    BY <1>6, <2>1, <2>2
    DEF EndDispatch, IInv, TypeOK, PcSet, Ranges, HandlerTargetOpen, shimVars
<1>7. CASE Return(r)
  <2>1. stack' \in Seq(Reactors)
    BY <1>7, Popped DEF Return, In, IInv, TypeOK
  <2>2. /\ pc' \in [Reactors -> PcSet]
        /\ \A q \in Reactors : \/ pc'[q] = pc[q] \/ pc'[q] = "wait"
                               \/ pc[q] = "cb" /\ pc'[q] = "call"
    BY <1>7 DEF Return, IInv, TypeOK, PcSet
  <2>3. QED
    BY <1>7, <2>1, <2>2
    DEF Return, IInv, TypeOK, PcSet, Ranges, HandlerTargetOpen, shimVars, histVars
<1>8. QED
    BY <1>1, <1>2, <1>3, <1>4, <1>5, <1>6, <1>7

(* Every step keeps the invariant.                                           *)
LEMMA NextIInv == IInv /\ [Next]_vars => IInv'
<1> SUFFICES ASSUME IInv, [Next]_vars PROVE IInv'
    OBVIOUS
<1>1. CASE UNCHANGED vars
    BY <1>1
    DEF vars, shimVars, loopVars, histVars, IInv, TypeOK, Ranges, HandlerTargetOpen
<1>2. ASSUME NEW r \in Reactors, Loop(r) PROVE IInv'
    BY <1>2, LoopKeeps, CallKeeps DEF Loop
<1>3. QED
    BY <1>1, <1>2, CallKeeps, OnSignalKeeps, DeliverKeeps DEF Next

(* The invariant holds throughout.                                           *)
LEMMA WakeInvariant == Spec => []IInv
    BY InitIInv, NextIInv, PTL DEF Spec

(* The shim's counts and pipes stay within their bounds and dispatch_signals *)
(* never indexes outside its table, however handlers, nested ticks and       *)
(* onSignal() calls from callbacks interleave.                               *)
THEOREM WakeTypeCorrect == Spec => []TypeOK
    BY WakeInvariant, PTL DEF IInv

(* The handler never writes to a closed descriptor: vwake_close disarms it   *)
(* first, and closing one reactor leaves another reactor's target alone.     *)
THEOREM WakeHandlerTargetOpen == Spec => []HandlerTargetOpen
    BY WakeInvariant, PTL DEF IInv

-----------------------------------------------------------------------------
(* No lost wakeup.                                                           *)

\* What was counted for the target since its pipe was opened, the target routes.
SinceRouted == \A r \in Reactors, s \in since : target = r => Routes(r, s)

(* onSignal() keeps the routes there are and adds one.                       *)
LEMMA RouteAdded ==
  ASSUME IInv, NEW r \in Reactors, NEW s \in Signals, OnSignal(r, s)
  PROVE  /\ \A q \in Reactors : Len(sigs'[q]) >= Len(sigs[q]) /\ \A j \in 1 .. Len(sigs[q]) : sigs'[q][j] = sigs[q][j]
         /\ \A q \in Reactors, x \in Signals : Routes(q, x) => Routes(q, x)'
         /\ \A q \in Reactors, x \in Signals : Routes(q, x)' => Routes(q, x) \/ (q = r /\ x = s)
         /\ Routes(r, s)'
<1>1. sigs \in [Reactors -> Seq(Signals)] /\ sigs' = [sigs EXCEPT ![r] = Append(sigs[r], s)]
    BY DEF OnSignal, IInv, TypeOK
<1>2. \A q \in Reactors : Len(sigs[q]) \in Nat /\ DOMAIN sigs[q] = 1 .. Len(sigs[q])
    BY <1>1, LenProperties
<1>3. PICK a : a = Append(sigs[r], s)
    OBVIOUS
<1>4. /\ Len(a) = Len(sigs[r]) + 1 /\ DOMAIN a = 1 .. Len(sigs[r]) + 1
      /\ \A j \in 1 .. Len(sigs[r]) : a[j] = sigs[r][j]
      /\ a[Len(sigs[r]) + 1] = s
    BY <1>1, <1>2, <1>3, AppendProperties
<1>5. sigs'[r] = a /\ \A q \in Reactors \ {r} : sigs'[q] = sigs[q]
    BY <1>1, <1>3
<1>6. \A q \in Reactors : Len(sigs'[q]) >= Len(sigs[q]) /\ \A j \in 1 .. Len(sigs[q]) : sigs'[q][j] = sigs[q][j]
    BY <1>2, <1>4, <1>5
<1>7. ASSUME NEW q \in Reactors, NEW x \in Signals, Routes(q, x)
      PROVE  Routes(q, x)'
  <2>1. PICK j \in 1 .. Len(sigs[q]) : sigs[q][j] = x
    BY <1>2, <1>7 DEF Routes
  <2>2. j \in DOMAIN sigs'[q] /\ sigs'[q][j] = x
    BY <1>2, <1>4, <1>5, <1>6, <2>1
  <2>3. QED
    BY <2>2 DEF Routes
<1>8. ASSUME NEW q \in Reactors, NEW x \in Signals, Routes(q, x)', ~(q = r /\ x = s)
      PROVE  Routes(q, x)
  <2>1. PICK j \in DOMAIN sigs'[q] : sigs'[q][j] = x
    BY <1>8 DEF Routes
  <2>2. CASE q # r
    BY <1>5, <2>1, <2>2 DEF Routes
  <2>3. CASE q = r
    <3>1. j \in 1 .. Len(sigs[q]) + 1 /\ a[j] = x /\ Len(sigs[q]) \in Nat
      BY <1>2, <1>4, <1>5, <2>1, <2>3
    <3>2. j # Len(sigs[q]) + 1
      BY <1>4, <1>8, <2>3, <3>1
    <3>3. j \in 1 .. Len(sigs[q])
      BY <3>1, <3>2
    <3>4. QED
      BY <1>2, <1>4, <2>3, <3>1, <3>3 DEF Routes
  <2>4. QED
    BY <2>2, <2>3
<1>9. Routes(r, s)'
  <2>1. Len(sigs[r]) + 1 \in DOMAIN a
    BY <1>2, <1>4
  <2>2. QED
    BY <1>4, <1>5, <2>1 DEF Routes
<1>10. QED
    BY <1>6, <1>7, <1>8, <1>9

(* A signal counted for the target stays routed by it.                       *)
LEMMA SinceRoutedKept == IInv /\ SinceRouted /\ [Next]_vars => SinceRouted'
<1> SUFFICES ASSUME IInv, SinceRouted, [Next]_vars PROVE SinceRouted'
    OBVIOUS
<1>0. since' \subseteq Signals
    BY NextIInv DEF IInv, TypeOK
<1> SUFFICES ASSUME NEW r \in Reactors, NEW s \in Signals, s \in since', target' = r
             PROVE  Routes(r, s)'
    BY <1>0 DEF SinceRouted
<1> USE DEF shimVars, loopVars, histVars
<1>t. NoReactor \notin Reactors
    BY WakeAssumption
<1>1. CASE UNCHANGED vars
    BY <1>1 DEF vars, SinceRouted, Routes
<1>2. ASSUME NEW q \in Reactors,
             \/ Wakeable(q) \/ WakeableFails(q) \/ OnWake(q) \/ Wake(q) \/ CloseDisarm(q)
             \/ CloseFds(q)
      PROVE  Routes(r, s)'
    BY <1>t, <1>2
    DEF Wakeable, WakeableFails, OnWake, Wake, CloseDisarm, CloseFds, SinceRouted, Routes
<1>3. ASSUME NEW q \in Reactors, NEW x \in Signals, OnSignal(q, x)
      PROVE  Routes(r, s)'
  <2>1. target = r /\ s \in since
    BY <1>3 DEF OnSignal
  <2>2. QED
    BY <1>3, <2>1, RouteAdded DEF SinceRouted
<1>4. ASSUME NEW x \in Signals, Deliver(x)
      PROVE  Routes(r, s)'
    BY <1>4 DEF Deliver, SinceRouted, Routes
<1>5. ASSUME NEW q \in Reactors,
             \/ Notice(q) \/ Drain(q) \/ ReadCount(q) \/ ClearCount(q) \/ CallSignal(q)
             \/ EndDispatch(q) \/ Return(q)
      PROVE  Routes(r, s)'
  <2>1. UNCHANGED <<target, sigs>> /\ s \in since
    BY <1>5 DEF Notice, Drain, ReadCount, ClearCount, CallSignal, EndDispatch, Return
  <2>2. QED
    BY <2>1 DEF SinceRouted, Routes
<1>6. QED
    BY <1>1, <1>2, <1>3, <1>4, <1>5 DEF Next, Loop

\* What was counted for the target has a byte behind it or a read before it.
Announced(r, s) == s \in since => pipe[r] > 0 \/ WillRead(r, s)

(* A reactor that gets, or keeps, the handler's target is not robbed of a    *)
(* wakeup by a call on any reactor.                                          *)
LEMMA CallsAnnounce ==
  ASSUME IInv, NEW r \in Reactors, NEW s \in Signals, NEW q \in Reactors,
         target = r => Announced(r, s),
         \/ Wakeable(q) \/ WakeableFails(q) \/ OnWake(q) \/ Wake(q) \/ CloseDisarm(q) \/ CloseFds(q),
         target' = r
  PROVE  Announced(r, s)'
<1>t. /\ pipe \in [Reactors -> 0 .. PipeCap] /\ life \in [Reactors -> {"new", "open", "closing", "closed"}]
      /\ NoReactor \notin Reactors /\ PipeCap \in Nat \ {0}
    BY WakeAssumption DEF IInv, TypeOK
<1> USE DEF loopVars, histVars, shimVars
<1>1. UNCHANGED <<sigs, pc, idx, hi>>
    BY DEF Wakeable, WakeableFails, OnWake, Wake, CloseDisarm, CloseFds
<1>2. CASE Wakeable(q)
    BY <1>2 DEF Wakeable, Announced
<1>3. CASE ~Wakeable(q)
  <2>1. target = r /\ since' = since
    BY <1>t, <1>3 DEF WakeableFails, OnWake, Wake, CloseDisarm, CloseFds
  <2>2. ~CloseFds(r)
    BY <1>t, <2>1 DEF CloseFds, IInv, HandlerTargetOpen
  <2>3. pipe[r] > 0 => pipe'[r] > 0
    BY <1>t, <1>3, <2>2 DEF WakeableFails, OnWake, Wake, CloseDisarm, CloseFds, WriteByte, Least
  <2>4. QED
    BY <1>1, <2>1, <2>3 DEF Announced, Routes, WillRead
<1>4. QED
    BY <1>2, <1>3

(* onSignal() lengthens the table behind the range that is being read.       *)
LEMMA OnSignalAnnounces ==
  ASSUME IInv, NEW r \in Reactors, NEW s \in Signals, NEW q \in Reactors, NEW x \in Signals,
         target = r => Announced(r, s),
         OnSignal(q, x), target' = r
  PROVE  Announced(r, s)'
<1>1. target = r /\ UNCHANGED <<since, pipe, pc, idx, hi, life>>
    BY DEF OnSignal, histVars
<1>2. /\ sigs[r] \in Seq(Signals) /\ idx[r] \in Nat /\ idx[r] >= 1 /\ hi[r] \in Nat
      /\ hi[r] <= Len(sigs[r])
    BY DEF IInv, TypeOK, Ranges
<1>3. Len(sigs[r]) \in Nat
    BY <1>2, LenProperties
<1>4. SUFFICES ASSUME s \in since PROVE pipe[r] > 0 \/ WillRead(r, s)'
    BY <1>1 DEF Announced
<1>6. SUFFICES ASSUME WillRead(r, s) PROVE WillRead(r, s)'
    BY <1>1, <1>4 DEF Announced
<1>7. CASE pc[r] = "drain"
    BY <1>1, <1>6, <1>7, RouteAdded DEF WillRead
<1>8. ASSUME NEW j \in Nat, 1 <= j, j <= hi[r], sigs[r][j] = s
      PROVE  sigs'[r][j] = s
    BY <1>2, <1>3, <1>8, RouteAdded
<1>9. CASE pc[r] \in {"read", "clear"}
  <2>1. PICK j \in idx[r] .. hi[r] : sigs[r][j] = s
    BY <1>6, <1>9 DEF WillRead
  <2>2. sigs'[r][j] = s
    BY <1>2, <1>8, <2>1
  <2>3. QED
    BY <1>1, <1>9, <2>1, <2>2 DEF WillRead
<1>10. CASE pc[r] \in {"call", "cb"}
  <2>1. PICK j \in idx[r] + 1 .. hi[r] : sigs[r][j] = s
    BY <1>6, <1>10 DEF WillRead
  <2>2. sigs'[r][j] = s
    BY <1>2, <1>8, <2>1
  <2>3. QED
    BY <1>1, <1>10, <2>1, <2>2 DEF WillRead
<1>11. QED
    BY <1>6, <1>7, <1>9, <1>10 DEF WillRead

(* The dispatch of r itself takes a byte only to read the counts after it.   *)
LEMMA LoopAnnounces ==
  ASSUME IInv, NEW r \in Reactors, NEW s \in Signals, s \in since => Routes(r, s), Announced(r, s),
         \/ Notice(r) \/ Drain(r) \/ ReadCount(r) \/ ClearCount(r)
         \/ CallSignal(r) \/ EndDispatch(r) \/ Return(r)
  PROVE  Announced(r, s)'
<1> USE DEF shimVars, histVars
<1>t. /\ pc \in [Reactors -> PcSet] /\ idx \in [Reactors -> Nat] /\ hi \in [Reactors -> Nat]
      /\ pipe \in [Reactors -> 0 .. PipeCap] /\ count \in [Signals -> 0 .. CountMax]
      /\ DOMAIN sigs[r] = 1 .. Len(sigs[r]) /\ Len(sigs[r]) \in Nat
      /\ PipeCap \in Nat
    BY WakeAssumption, LenProperties DEF IInv, TypeOK, PcSet
<1>u. sigs' = sigs
    BY DEF Notice, Drain, ReadCount, ClearCount, CallSignal, EndDispatch, Return
<1>v. Routes(r, s)' <=> Routes(r, s)
    BY <1>u DEF Routes
<1>1. CASE Notice(r)
    BY <1>t, <1>v, <1>1 DEF Notice, Announced, WillRead
<1>2. CASE Drain(r)
  <2>1. CASE pc' = pc
    BY <1>t, <1>u, <1>v, <1>2, <2>1 DEF Drain, Announced, WillRead, Routes
  <2>2. CASE /\ pc' = [pc EXCEPT ![r] = "read"]
             /\ idx' = [idx EXCEPT ![r] = 1]
             /\ hi' = [hi EXCEPT ![r] = Len(sigs[r])]
    <3>1. since' = since /\ pc[r] = "drain"
      BY <1>2 DEF Drain
    <3>2. QED
      BY <1>t, <1>u, <1>v, <2>2, <3>1 DEF Announced, WillRead, Routes
  <2>3. QED
    BY <1>2, <2>1, <2>2 DEF Drain
<1>3. CASE ReadCount(r)
    BY <1>t, <1>u, <1>v, <1>3 DEF ReadCount, Announced, WillRead
<1>4. CASE ClearCount(r)
  <2>1. sigs[r][idx[r]] \in Signals
    BY <1>4, ServedEntry DEF ClearCount, IInv, Ranges
  <2>2. CASE s = sigs[r][idx[r]]
    <3>1. s \notin since'
      BY <1>4, <2>2 DEF ClearCount
    <3>2. QED
      BY <3>1 DEF Announced
  <2>3. CASE s # sigs[r][idx[r]]
    <3>1. since' \subseteq since /\ pipe' = pipe /\ pc[r] = "clear" /\ pc'[r] = "call"
          /\ idx' = idx /\ hi' = hi
      BY <1>t, <1>4, <2>3 DEF ClearCount
    <3>2. WillRead(r, s) => WillRead(r, s)'
      <4>1. \A j \in idx[r] .. hi[r] : sigs[r][j] = s => j \in idx[r] + 1 .. hi[r]
        BY <1>t, <2>3
      <4>2. QED
        BY <1>u, <3>1, <4>1 DEF WillRead
    <3>3. QED
      BY <1>v, <3>1, <3>2 DEF Announced
  <2>4. QED
    BY <2>2, <2>3
<1>5. CASE CallSignal(r)
    BY <1>t, <1>u, <1>v, <1>5 DEF CallSignal, Announced, WillRead
<1>6. CASE EndDispatch(r)
  <2>1. pc[r] = "read" /\ idx[r] > hi[r] /\ UNCHANGED <<since, pipe>>
    BY <1>6 DEF EndDispatch
  <2>2. ~WillRead(r, s)
    BY <1>t, <2>1 DEF WillRead
  <2>3. QED
    BY <1>v, <2>1, <2>2 DEF Announced
<1>7. CASE Return(r)
    BY <1>t, <1>u, <1>v, <1>7 DEF Return, Announced, WillRead
<1>8. QED
    BY <1>1, <1>2, <1>3, <1>4, <1>5, <1>6, <1>7

(* The dispatch of another reactor leaves r's pipe and its reads alone, and  *)
(* can only clear a count.                                                   *)
LEMMA OtherLoopAnnounces ==
  ASSUME IInv, NEW r \in Reactors, NEW s \in Signals, Announced(r, s), NEW q \in Reactors \ {r},
         \/ Notice(q) \/ Drain(q) \/ ReadCount(q) \/ ClearCount(q)
         \/ CallSignal(q) \/ EndDispatch(q) \/ Return(q)
  PROVE  Announced(r, s)'
<1> USE DEF shimVars, histVars
<1>t. /\ pc \in [Reactors -> PcSet] /\ idx \in [Reactors -> Nat] /\ hi \in [Reactors -> Nat]
      /\ pipe \in [Reactors -> 0 .. PipeCap] /\ count \in [Signals -> 0 .. CountMax]
    BY DEF IInv, TypeOK, PcSet
<1>1. sigs' = sigs
    BY DEF Notice, Drain, ReadCount, ClearCount, CallSignal, EndDispatch, Return
<1>2. pipe'[r] = pipe[r] /\ pc'[r] = pc[r] /\ idx'[r] = idx[r] /\ hi'[r] = hi[r]
    BY <1>t DEF Notice, Drain, ReadCount, ClearCount, CallSignal, EndDispatch, Return
<1>3. since' \subseteq since
    BY DEF Notice, Drain, ReadCount, ClearCount, CallSignal, EndDispatch, Return
<1>4. QED
    BY <1>1, <1>2, <1>3 DEF Announced, Routes, WillRead

(* Every step keeps a counted signal announced.                              *)
LEMMA AnnouncedKept == IInv /\ SinceRouted /\ NoLostWakeup /\ [Next]_vars => NoLostWakeup'
<1> SUFFICES ASSUME IInv, SinceRouted, NoLostWakeup, [Next]_vars PROVE NoLostWakeup'
    OBVIOUS
<1>s. since' \subseteq Signals
    BY NextIInv DEF IInv, TypeOK
<1> SUFFICES ASSUME NEW r \in Reactors, target' = r, NEW s \in Signals PROVE Announced(r, s)'
    BY <1>s DEF NoLostWakeup, Announced
<1>0. target = r => Announced(r, s)
    BY DEF NoLostWakeup, Announced
<1> USE DEF shimVars, histVars, loopVars
<1>1. CASE UNCHANGED vars
    BY <1>0, <1>1 DEF vars, Announced, Routes, WillRead
<1>2. ASSUME NEW q \in Reactors,
             \/ Wakeable(q) \/ WakeableFails(q) \/ OnWake(q) \/ Wake(q) \/ CloseDisarm(q) \/ CloseFds(q)
      PROVE  Announced(r, s)'
    BY <1>0, <1>2, CallsAnnounce
<1>3. ASSUME NEW q \in Reactors, NEW x \in Signals, OnSignal(q, x)
      PROVE  Announced(r, s)'
    BY <1>0, <1>3, OnSignalAnnounces
<1>4. ASSUME NEW x \in Signals, Deliver(x)
      PROVE  Announced(r, s)'
  <2>1. target \in Reactors /\ pipe \in [Reactors -> 0 .. PipeCap] /\ PipeCap \in Nat \ {0}
    BY <1>4, WakeAssumption DEF Deliver, IInv, TypeOK
  <2>2. pipe'[r] > 0
    BY <1>4, <2>1, WakeAssumption DEF Deliver, WriteByte, Least
  <2>3. QED
    BY <2>2 DEF Announced
<1>5. ASSUME NEW q \in Reactors,
             \/ Notice(q) \/ Drain(q) \/ ReadCount(q) \/ ClearCount(q)
             \/ CallSignal(q) \/ EndDispatch(q) \/ Return(q)
      PROVE  Announced(r, s)'
  <2>1. UNCHANGED target
    BY <1>5 DEF Notice, Drain, ReadCount, ClearCount, CallSignal, EndDispatch, Return
  <2>2. Announced(r, s)
    BY <1>0, <2>1
  <2>3. s \in since => Routes(r, s)
    BY <2>1 DEF SinceRouted
  <2>4. QED
    BY <1>5, <2>2, <2>3, LoopAnnounces, OtherLoopAnnounces
<1>6. QED
    BY <1>1, <1>2, <1>3, <1>4, <1>5 DEF Next, Loop

(* A signal counted for the handler's target since the target's pipe was     *)
(* opened has a byte in the pipe, or the dispatch under way is yet to read   *)
(* it: the handler may run between any two steps of vwake_drain and          *)
(* dispatch_signals, the pipe may be full, and other reactors may open,      *)
(* close, fail to open and read the counts.                                  *)
THEOREM WakeNeverLost == Spec => []NoLostWakeup
<1>1. Init => SinceRouted /\ NoLostWakeup
    BY WakeAssumption DEF Init, SinceRouted, NoLostWakeup
<1>2. QED
    BY <1>1, WakeInvariant, SinceRoutedKept, AnnouncedKept, PTL DEF Spec

-----------------------------------------------------------------------------
(* At most one callback for every delivery.                                  *)

Owes(r, s) == IF Serving(r, s) THEN num[r] ELSE 0

\* The reactors inside tick() are the ones on the stack, each once, and all but
\* the innermost are inside a callback.
Nested ==
    /\ \A i, j \in 1 .. Len(stack) : stack[i] = stack[j] => i = j
    /\ \A i \in 1 .. Len(stack) : pc[stack[i]] # "wait"
    /\ \A i \in 1 .. Len(stack) - 1 : pc[stack[i]] \in {"cb", "tell"}
    /\ \A r \in Reactors : pc[r] # "wait" => \E i \in 1 .. Len(stack) : stack[i] = r

\* Between the two statements of vwake_signal_count the count can only grow.
CountRead == \A r \in Reactors : pc[r] = "clear" => num[r] <= count[sigs[r][idx[r]]]

\* The numbers w[1], ..., w[n] sum to at most cap: a running total witnesses it.
WithinCap(w, n, cap) ==
    \E t \in [0 .. n -> Nat] :
        /\ \A i, j \in 0 .. n : i <= j => t[i] <= t[j]
        /\ \A i \in 1 .. n : t[i - 1] + w[i] <= t[i]
        /\ t[n] <= cap

\* The callbacks owed for s, from the outermost reactor on the stack inwards, and
\* the deliveries that were neither called back nor are still counted.
Debts(s) == [i \in 1 .. Len(stack) |-> Owes(stack[i], s)]
Unclaimed(s) == arrived[s] - called[s] - count[s]

Ledger == \A s \in Signals : WithinCap(Debts(s), Len(stack), Unclaimed(s))

CallInv == Nested /\ CountRead /\ Ledger

(* The stack is a sequence of reactors, one for each position.               *)
LEMMA StackFacts ==
  ASSUME IInv
  PROVE  /\ Len(stack) \in Nat /\ DOMAIN stack = 1 .. Len(stack)
         /\ \A i \in 1 .. Len(stack) : stack[i] \in Reactors
         /\ stack # <<>> => Len(stack) > 0
<1>1. stack \in Seq(Reactors)
    BY DEF IInv, TypeOK
<1>2. QED
    BY <1>1, LenProperties, ElementOfSeq, EmptySeq

(* What a reactor owes is a number.                                          *)
LEMMA OwesType ==
  ASSUME IInv, NEW r \in Reactors, NEW s \in Signals
  PROVE  Owes(r, s) \in Nat
<1>1. num[r] \in 0 .. CountMax /\ CountMax \in Nat
    BY WakeAssumption DEF IInv, TypeOK
<1>2. QED
    BY <1>1 DEF Owes

LEMMA HistoryType ==
  ASSUME IInv, NEW s \in Signals
  PROVE  called[s] \in Nat /\ count[s] \in Nat /\ arrived[s] \in Nat
    BY WakeAssumption DEF IInv, TypeOK

-----------------------------------------------------------------------------
(* Running totals.                                                           *)

LEMMA CapEmpty ==
  ASSUME NEW w, NEW cap \in Nat
  PROVE  WithinCap(w, 0, cap)
<1> DEFINE t == [i \in 0 .. 0 |-> 0]
<1>1. /\ t \in [0 .. 0 -> Nat] /\ \A i, j \in 0 .. 0 : i <= j => t[i] <= t[j]
      /\ \A i \in 1 .. 0 : t[i - 1] + w[i] <= t[i]
      /\ t[0] <= cap
    OBVIOUS
<1>2. QED
    BY <1>1 DEF WithinCap

(* The last number changes by no more than the cap does.                     *)
LEMMA CapLast ==
  ASSUME NEW n \in Nat, n > 0, NEW w \in [1 .. n -> Nat], NEW v \in [1 .. n -> Nat],
         NEW cap \in Int, NEW cap2 \in Int, WithinCap(w, n, cap),
         \A i \in 1 .. n - 1 : v[i] = w[i],
         v[n] - w[n] <= cap2 - cap
  PROVE  WithinCap(v, n, cap2)
<1>1. PICK t \in [0 .. n -> Nat] :
        /\ \A i, j \in 0 .. n : i <= j => t[i] <= t[j]
        /\ \A i \in 1 .. n : t[i - 1] + w[i] <= t[i]
        /\ t[n] <= cap
    BY DEF WithinCap
<1> DEFINE u == [i \in 0 .. n |-> IF i = n THEN t[n - 1] + v[n] ELSE t[i]]
<1>2. n - 1 \in 0 .. n /\ n \in 0 .. n /\ n \in 1 .. n /\ v[n] \in Nat /\ w[n] \in Nat
    OBVIOUS
<1>3. t[n - 1] \in Nat /\ t[n] \in Nat /\ t[n - 1] + w[n] <= t[n]
    BY <1>1, <1>2
<1>4. u \in [0 .. n -> Nat] /\ u[n] = t[n - 1] + v[n] /\ \A i \in 0 .. n - 1 : u[i] = t[i]
    BY <1>2, <1>3
<1> HIDE DEF u
<1>5. ASSUME NEW i \in 0 .. n, NEW j \in 0 .. n, i <= j PROVE u[i] <= u[j]
  <2>1. CASE j # n
    <3>1. i \in 0 .. n - 1 /\ j \in 0 .. n - 1
      BY <1>5, <2>1
    <3>2. QED
      BY <1>1, <1>4, <1>5, <3>1
  <2>2. CASE j = n /\ i # n
    <3>1. i \in 0 .. n - 1 /\ i <= n - 1
      BY <2>2
    <3>2. t[i] <= t[n - 1] /\ t[i] \in Nat
      BY <1>1, <1>2, <3>1
    <3>3. QED
      BY <1>2, <1>3, <1>4, <2>2, <3>1, <3>2, SMTT(30)
  <2>3. QED
    BY <1>2, <1>4, <2>1, <2>2
<1>6. ASSUME NEW i \in 1 .. n PROVE u[i - 1] + v[i] <= u[i]
  <2>1. CASE i = n
    BY <1>2, <1>3, <1>4, <2>1
  <2>2. CASE i # n
    <3>1. i \in 1 .. n - 1 /\ i - 1 \in 0 .. n - 1 /\ i \in 0 .. n - 1
      BY <2>2
    <3>2. QED
      BY <1>1, <1>4, <3>1
  <2>3. QED
    BY <2>1, <2>2
<1>7. u[n] <= cap2
    BY <1>1, <1>2, <1>3, <1>4, SMTT(30)
<1>8. QED
    BY <1>4, <1>5, <1>6, <1>7 DEF WithinCap

(* A number of zero more, or one number less.                                *)
LEMMA CapPush ==
  ASSUME NEW n \in Nat, NEW w, NEW v, NEW cap \in Int, WithinCap(w, n, cap),
         \A i \in 1 .. n : v[i] = w[i], v[n + 1] = 0
  PROVE  WithinCap(v, n + 1, cap)
<1>1. PICK t \in [0 .. n -> Nat] :
        /\ \A i, j \in 0 .. n : i <= j => t[i] <= t[j]
        /\ \A i \in 1 .. n : t[i - 1] + w[i] <= t[i]
        /\ t[n] <= cap
    BY DEF WithinCap
<1> DEFINE u == [i \in 0 .. n + 1 |-> IF i = n + 1 THEN t[n] ELSE t[i]]
<1>2. u \in [0 .. n + 1 -> Nat] /\ u[n + 1] = t[n] /\ (\A i \in 0 .. n : u[i] = t[i]) /\ t[n] \in Nat
    OBVIOUS
<1> HIDE DEF u
<1>3. ASSUME NEW i \in 0 .. n + 1, NEW j \in 0 .. n + 1, i <= j PROVE u[i] <= u[j]
  <2>1. CASE j # n + 1
    BY <1>1, <1>2, <1>3, <2>1
  <2>2. CASE j = n + 1 /\ i # n + 1
    BY <1>1, <1>2, <2>2
  <2>3. QED
    BY <1>2, <2>1, <2>2
<1>4. ASSUME NEW i \in 1 .. n + 1 PROVE u[i - 1] + v[i] <= u[i]
  <2>1. CASE i = n + 1
    BY <1>2, <2>1
  <2>2. CASE i # n + 1
    <3>1. i \in 1 .. n /\ i - 1 \in 0 .. n /\ i \in 0 .. n
      BY <2>2
    <3>2. QED
      BY <1>1, <1>2, <3>1
  <2>3. QED
    BY <2>1, <2>2
<1>5. QED
    BY <1>1, <1>2, <1>3, <1>4 DEF WithinCap

LEMMA CapPop ==
  ASSUME NEW n \in Nat, NEW w, NEW v, NEW cap \in Int, WithinCap(w, n + 1, cap),
         \A i \in 1 .. n : v[i] = w[i]
  PROVE  WithinCap(v, n, cap)
<1>1. PICK t \in [0 .. n + 1 -> Nat] :
        /\ \A i, j \in 0 .. n + 1 : i <= j => t[i] <= t[j]
        /\ \A i \in 1 .. n + 1 : t[i - 1] + w[i] <= t[i]
        /\ t[n + 1] <= cap
    BY DEF WithinCap
<1> DEFINE u == [i \in 0 .. n |-> t[i]]
<1>2. u \in [0 .. n -> Nat] /\ \A i \in 0 .. n : u[i] = t[i]
    OBVIOUS
<1> HIDE DEF u
<1>3. \A i, j \in 0 .. n : i <= j => u[i] <= u[j]
    BY <1>1, <1>2
<1>4. ASSUME NEW i \in 1 .. n PROVE u[i - 1] + v[i] <= u[i]
  <2>1. i - 1 \in 0 .. n /\ i \in 0 .. n /\ i \in 1 .. n + 1
    OBVIOUS
  <2>2. QED
    BY <1>1, <1>2, <2>1
<1>5. u[n] <= cap
  <2>1. t[n] <= t[n + 1] /\ t[n] \in Nat /\ t[n + 1] \in Nat
    BY <1>1
  <2>2. QED
    BY <1>1, <1>2, <2>1
<1>6. QED
    BY <1>2, <1>3, <1>4, <1>5 DEF WithinCap

(* Each of the numbers is within the cap, and the cap may grow.              *)
LEMMA CapEach ==
  ASSUME NEW n \in Nat, NEW w \in [1 .. n -> Nat], NEW cap \in Int, WithinCap(w, n, cap)
  PROVE  cap >= 0 /\ \A i \in 1 .. n : w[i] <= cap
<1>1. PICK t \in [0 .. n -> Nat] :
        /\ \A i, j \in 0 .. n : i <= j => t[i] <= t[j]
        /\ \A i \in 1 .. n : t[i - 1] + w[i] <= t[i]
        /\ t[n] <= cap
    BY DEF WithinCap
<1>2. t[n] \in Nat
    OBVIOUS
<1>3. ASSUME NEW i \in 1 .. n PROVE w[i] <= cap
  <2>1. i \in 0 .. n /\ i - 1 \in 0 .. n /\ n \in 0 .. n /\ i <= n
    OBVIOUS
  <2>2. t[i - 1] \in Nat /\ t[i] \in Nat /\ t[i] <= t[n] /\ t[i - 1] + w[i] <= t[i] /\ w[i] \in Nat
    BY <1>1, <2>1
  <2>3. QED
    BY <1>1, <1>2, <2>2
<1>4. QED
    BY <1>1, <1>2, <1>3

LEMMA CapGrows ==
  ASSUME NEW n \in Nat, NEW w, NEW cap \in Int, NEW cap2 \in Int, cap <= cap2, WithinCap(w, n, cap)
  PROVE  WithinCap(w, n, cap2)
<1>1. PICK t \in [0 .. n -> Nat] :
        /\ \A i, j \in 0 .. n : i <= j => t[i] <= t[j]
        /\ \A i \in 1 .. n : t[i - 1] + w[i] <= t[i]
        /\ t[n] <= cap
    BY DEF WithinCap
<1>2. t[n] <= cap2
  <2>1. t[n] \in Nat
    OBVIOUS
  <2>2. QED
    BY <1>1, <2>1
<1>3. QED
    BY <1>1, <1>2 DEF WithinCap

-----------------------------------------------------------------------------
(* The ledger, step by step.                                                 *)

LEMMA DebtsType ==
  ASSUME IInv, NEW s \in Signals
  PROVE  Debts(s) \in [1 .. Len(stack) -> Nat] /\ Unclaimed(s) \in Int
<1>1. \A i \in 1 .. Len(stack) : Owes(stack[i], s) \in Nat
    BY StackFacts, OwesType
<1>2. called[s] \in Nat /\ count[s] \in Nat /\ arrived[s] \in Nat
    BY HistoryType
<1>3. QED
    BY <1>1, <1>2 DEF Debts, Unclaimed

LEMMA DebtsTypePrimed ==
  ASSUME IInv', NEW s \in Signals
  PROVE  Debts(s)' \in [1 .. Len(stack') -> Nat] /\ Unclaimed(s)' \in Int
<1>1. /\ stack' \in Seq(Reactors) /\ num' \in [Reactors -> 0 .. CountMax] /\ CountMax \in Nat
      /\ called'[s] \in Nat /\ count'[s] \in Nat /\ arrived'[s] \in Nat
    BY WakeAssumption DEF IInv, TypeOK
<1>2. \A i \in 1 .. Len(stack') : stack'[i] \in Reactors
    BY <1>1, ElementOfSeq
<1>3. \A i \in 1 .. Len(stack') : Owes(stack[i], s)' \in Nat
    BY <1>1, <1>2 DEF Owes
<1>4. QED
    BY <1>1, <1>3 DEF Debts, Unclaimed

(* The innermost reactor moves on, and what it owes grows by no more than    *)
(* what is taken off the counts.                                             *)
LEMMA TopMoves ==
  ASSUME IInv, IInv', Nested, Ledger, NEW r \in Reactors,
         stack # <<>>, Top = r, stack' = stack,
         \A q \in Reactors \ {r} : pc'[q] = pc[q] /\ \A s \in Signals : Owes(q, s)' = Owes(q, s),
         pc'[r] # "wait",
         \A s \in Signals : Owes(r, s)' - Owes(r, s) <= Unclaimed(s)' - Unclaimed(s)
  PROVE  Nested' /\ Ledger'
<1>0. /\ Len(stack) \in Nat /\ Len(stack) > 0 /\ stack[Len(stack)] = r
      /\ \A i \in 1 .. Len(stack) : stack[i] \in Reactors
    BY StackFacts DEF Top
<1>1. \A i \in 1 .. Len(stack) - 1 : stack[i] \in Reactors \ {r}
    BY <1>0 DEF Nested
<1>2. Nested'
  <2>1. \A i \in 1 .. Len(stack) - 1 : pc'[stack[i]] \in {"cb", "tell"}
    BY <1>1 DEF Nested
  <2>2. \A i \in 1 .. Len(stack) : pc'[stack[i]] # "wait"
    BY <1>0, <2>1
  <2>3. \A q \in Reactors : pc'[q] # "wait" => \E i \in 1 .. Len(stack) : stack[i] = q
    BY <1>0 DEF Nested
  <2>4. QED
    BY <2>1, <2>2, <2>3 DEF Nested
<1>3. ASSUME NEW s \in Signals
      PROVE  WithinCap(Debts(s), Len(stack), Unclaimed(s))'
  <2>1. WithinCap(Debts(s), Len(stack), Unclaimed(s))
    BY DEF Ledger
  <2>2. /\ Debts(s) \in [1 .. Len(stack) -> Nat] /\ Unclaimed(s) \in Int
        /\ Debts(s)' \in [1 .. Len(stack) -> Nat] /\ Unclaimed(s)' \in Int
    BY DebtsType, DebtsTypePrimed
  <2>3. ASSUME NEW i \in 1 .. Len(stack) - 1 PROVE Debts(s)'[i] = Debts(s)[i]
    <3>1. Owes(stack[i], s)' = Owes(stack[i], s)
      BY <1>1
    <3>2. i \in 1 .. Len(stack)
      BY <1>0
    <3>3. QED
      BY <3>1, <3>2 DEF Debts
  <2>4. Debts(s)'[Len(stack)] = Owes(r, s)' /\ Debts(s)[Len(stack)] = Owes(r, s)
    <3>1. Len(stack) \in 1 .. Len(stack)
      BY <1>0
    <3>2. Owes(stack[Len(stack)], s)' = Owes(r, s)'
      BY <1>0
    <3>3. QED
      BY <1>0, <3>1, <3>2 DEF Debts
  <2>5. Debts(s)'[Len(stack)] - Debts(s)[Len(stack)] <= Unclaimed(s)' - Unclaimed(s)
    BY <2>4
  <2>6. WithinCap(Debts(s)', Len(stack), Unclaimed(s)')
    BY <1>0, <2>1, <2>2, <2>3, <2>5, CapLast
  <2>7. QED
    BY <2>6
<1>4. QED
    BY <1>2, <1>3 DEF Ledger

(* A tick() begins: its reactor owes nothing yet.                            *)
LEMMA NoticeCalls ==
  ASSUME IInv, IInv', CallInv, NEW r \in Reactors, Notice(r)
  PROVE  CallInv'
<1>0. /\ Len(stack) \in Nat /\ \A i \in 1 .. Len(stack) : stack[i] \in Reactors
      /\ pc \in [Reactors -> PcSet] /\ stack \in Seq(Reactors)
    BY StackFacts DEF IInv, TypeOK, PcSet
<1>1. /\ Len(stack') = Len(stack) + 1 /\ stack'[Len(stack) + 1] = r
      /\ \A i \in 1 .. Len(stack) : stack'[i] = stack[i]
    BY <1>0, AppendProperties DEF Notice
<1>2. /\ pc[r] = "wait" /\ pc' = [pc EXCEPT ![r] = "drain"]
      /\ UNCHANGED <<sigs, idx, num, count, called, arrived>>
    BY DEF Notice, shimVars, histVars
<1>3. \A i \in 1 .. Len(stack) : stack[i] # r /\ pc'[stack[i]] = pc[stack[i]]
    BY <1>0, <1>2 DEF CallInv, Nested
<1>4. \A i \in 1 .. Len(stack) : pc[stack[i]] \in {"cb", "tell"}
  <2>1. stack # <<>> => pc[stack[Len(stack)]] \in {"cb", "tell"}
    BY DEF Notice, UserCode, Top
  <2>2. \A i \in 1 .. Len(stack) : stack # <<>>
    BY <1>0, EmptySeq
  <2>3. QED
    BY <1>0, <2>1, <2>2 DEF CallInv, Nested
<1>5. Nested'
  <2>1. \A i, j \in 1 .. Len(stack') : stack'[i] = stack'[j] => i = j
    <3> SUFFICES ASSUME NEW i \in 1 .. Len(stack) + 1, NEW j \in 1 .. Len(stack) + 1,
                        stack'[i] = stack'[j]
                 PROVE  i = j
      BY <1>1
    <3>1. CASE i \in 1 .. Len(stack) /\ j \in 1 .. Len(stack)
      BY <1>1, <3>1 DEF CallInv, Nested
    <3>2. CASE i \in 1 .. Len(stack) /\ j = Len(stack) + 1
      BY <1>1, <1>3, <3>2
    <3>3. CASE j \in 1 .. Len(stack) /\ i = Len(stack) + 1
      BY <1>1, <1>3, <3>3
    <3>4. QED
      BY <1>0, <3>1, <3>2, <3>3
  <2>2. \A i \in 1 .. Len(stack) : pc'[stack'[i]] \in {"cb", "tell"}
    BY <1>1, <1>3, <1>4
  <2>3. pc'[r] = "drain"
    BY <1>0, <1>2
  <2>4. \A i \in 1 .. Len(stack') : pc'[stack'[i]] # "wait"
    BY <1>0, <1>1, <2>2, <2>3
  <2>5. \A i \in 1 .. Len(stack') - 1 : pc'[stack'[i]] \in {"cb", "tell"}
    BY <1>0, <1>1, <2>2
  <2>6. ASSUME NEW q \in Reactors, pc'[q] # "wait"
        PROVE  \E i \in 1 .. Len(stack') : stack'[i] = q
    <3>1. CASE q = r
      BY <1>0, <1>1, <3>1
    <3>2. CASE q # r
      <4>1. PICK i \in 1 .. Len(stack) : stack[i] = q
        BY <1>0, <1>2, <2>6, <3>2 DEF CallInv, Nested
      <4>2. i \in 1 .. Len(stack') /\ stack'[i] = q
        BY <1>0, <1>1, <4>1
      <4>3. QED
        BY <4>2
    <3>3. QED
      BY <3>1, <3>2
  <2>7. QED
    BY <2>1, <2>4, <2>5, <2>6 DEF Nested
<1>6. CountRead'
    BY <1>0, <1>2 DEF CallInv, CountRead
<1>7. ASSUME NEW s \in Signals
      PROVE  WithinCap(Debts(s), Len(stack), Unclaimed(s))'
  <2>1. WithinCap(Debts(s), Len(stack), Unclaimed(s)) /\ Unclaimed(s) \in Int
    BY DebtsType DEF CallInv, Ledger
  <2>2. Unclaimed(s)' = Unclaimed(s)
    BY <1>2 DEF Unclaimed
  <2>3. ASSUME NEW i \in 1 .. Len(stack) PROVE Debts(s)'[i] = Debts(s)[i]
    <3>1. Owes(stack[i], s)' = Owes(stack[i], s)
      BY <1>1, <1>2, <1>3 DEF Owes, Serving
    <3>2. i \in 1 .. Len(stack')
      BY <1>0, <1>1
    <3>3. QED
      BY <3>1, <3>2 DEF Debts
  <2>4. Debts(s)'[Len(stack) + 1] = 0
    <3>1. Len(stack) + 1 \in 1 .. Len(stack')
      BY <1>0, <1>1
    <3>2. Debts(s)'[Len(stack) + 1] = Owes(r, s)'
      BY <1>1, <3>1 DEF Debts, Owes, Serving
    <3>3. Owes(r, s)' = 0
      BY <1>0, <1>2 DEF Owes, Serving
    <3>4. QED
      BY <3>2, <3>3
  <2>5. WithinCap(Debts(s)', Len(stack) + 1, Unclaimed(s))
    BY <1>0, <2>1, <2>3, <2>4, CapPush
  <2>6. QED
    BY <1>1, <2>2, <2>5
<1>8. QED
    BY <1>5, <1>6, <1>7 DEF CallInv, Ledger

(* The stack without its top.                                                *)
LEMMA Shorter ==
  ASSUME IInv, stack # <<>>, NEW z, z = SubSeq(stack, 1, Len(stack) - 1)
  PROVE  Len(z) = Len(stack) - 1 /\ \A i \in 1 .. Len(stack) - 1 : z[i] = stack[i]
<1>0. Len(stack) \in Nat /\ Len(stack) > 0 /\ stack \in Seq(Reactors)
    BY StackFacts DEF IInv, TypeOK
<1>1. PICK m : m = Len(stack) - 1
    OBVIOUS
<1>2. m \in 0 .. Len(stack) /\ 1 \in 1 .. m + 1
    BY <1>0, <1>1
<1>3. Len(SubSeq(stack, 1, m)) = m /\ \A i \in 1 .. m : SubSeq(stack, 1, m)[i] = stack[i]
    BY <1>0, <1>2, SubSeqProperties
<1>4. QED
    BY <1>1, <1>3

(* A tick() ends: the reactors further out are where they were.              *)
LEMMA PopCalls ==
  ASSUME IInv, IInv', CallInv, NEW r \in Reactors, stack # <<>>, Top = r,
         stack' = SubSeq(stack, 1, Len(stack) - 1), pc' = [pc EXCEPT ![r] = "wait"],
         UNCHANGED <<sigs, idx, num, count, called, arrived>>
  PROVE  CallInv'
<1>0. /\ Len(stack) \in Nat /\ Len(stack) > 0 /\ stack[Len(stack)] = r
      /\ \A i \in 1 .. Len(stack) : stack[i] \in Reactors
      /\ pc \in [Reactors -> PcSet] /\ stack \in Seq(Reactors)
    BY StackFacts DEF Top, IInv, TypeOK, PcSet
<1>1. Len(stack') = Len(stack) - 1 /\ \A i \in 1 .. Len(stack) - 1 : stack'[i] = stack[i]
    BY Shorter
<1>2. \A i \in 1 .. Len(stack) - 1 : stack[i] # r /\ pc'[stack[i]] = pc[stack[i]]
    BY <1>0 DEF CallInv, Nested
<1>3. Nested'
  <2>1. \A i, j \in 1 .. Len(stack') : stack'[i] = stack'[j] => i = j
    BY <1>0, <1>1 DEF CallInv, Nested
  <2>2. \A i \in 1 .. Len(stack') : pc'[stack'[i]] \in {"cb", "tell"}
    BY <1>0, <1>1, <1>2 DEF CallInv, Nested
  <2>3. \A i \in 1 .. Len(stack') - 1 : pc'[stack'[i]] \in {"cb", "tell"}
    BY <1>0, <1>1, <2>2
  <2>4. ASSUME NEW q \in Reactors, pc'[q] # "wait"
        PROVE  \E i \in 1 .. Len(stack') : stack'[i] = q
    <3>1. q # r /\ pc[q] # "wait"
      BY <1>0, <2>4
    <3>2. PICK i \in 1 .. Len(stack) : stack[i] = q
      BY <3>1 DEF CallInv, Nested
    <3>3. i \in 1 .. Len(stack')
      BY <1>0, <1>1, <3>1, <3>2
    <3>4. QED
      BY <1>1, <3>2, <3>3
  <2>5. QED
    BY <2>1, <2>2, <2>3, <2>4 DEF Nested
<1>4. CountRead'
    BY <1>0 DEF CallInv, CountRead
<1>5. ASSUME NEW s \in Signals
      PROVE  WithinCap(Debts(s), Len(stack), Unclaimed(s))'
  <2>1. WithinCap(Debts(s), Len(stack), Unclaimed(s)) /\ Unclaimed(s) \in Int
    BY DebtsType DEF CallInv, Ledger
  <2>2. Unclaimed(s)' = Unclaimed(s)
    BY DEF Unclaimed
  <2>3. ASSUME NEW i \in 1 .. Len(stack) - 1 PROVE Debts(s)'[i] = Debts(s)[i]
    <3>1. Owes(stack[i], s)' = Owes(stack[i], s)
      BY <1>1, <1>2 DEF Owes, Serving
    <3>2. i \in 1 .. Len(stack') /\ i \in 1 .. Len(stack)
      BY <1>0, <1>1
    <3>3. QED
      BY <3>1, <3>2 DEF Debts
  <2>4. Len(stack) - 1 \in Nat /\ (Len(stack) - 1) + 1 = Len(stack)
    BY <1>0
  <2>5. WithinCap(Debts(s)', Len(stack) - 1, Unclaimed(s))
    BY <2>1, <2>3, <2>4, CapPop
  <2>6. QED
    BY <1>1, <2>2, <2>5
<1>6. QED
    BY <1>3, <1>4, <1>5 DEF CallInv, Ledger

(* Another delivery is one more that may be claimed.                         *)
LEMMA DeliverCalls ==
  ASSUME IInv, IInv', CallInv, NEW x \in Signals, Deliver(x)
  PROVE  CallInv'
<1>0. /\ Len(stack) \in Nat /\ UNCHANGED <<stack, pc, sigs, idx, num, called>>
      /\ count \in [Signals -> 0 .. CountMax] /\ CountMax \in Nat
    BY StackFacts, WakeAssumption DEF Deliver, loopVars, IInv, TypeOK
<1>1. \A s \in Signals : count[s] <= count'[s] /\ Unclaimed(s) <= Unclaimed(s)'
  <2> SUFFICES ASSUME NEW s \in Signals
               PROVE  count[s] <= count'[s] /\ Unclaimed(s) <= Unclaimed(s)'
    OBVIOUS
  <2>1. called[s] \in Nat /\ arrived[s] \in Nat /\ count[s] \in 0 .. CountMax
    BY <1>0, HistoryType
  <2>2. CASE s # x
    <3>1. count'[s] = count[s] /\ arrived'[s] = arrived[s] /\ called'[s] = called[s]
      BY <2>2 DEF Deliver, IInv, TypeOK
    <3>2. QED
      BY <1>0, <2>1, <3>1 DEF Unclaimed
  <2>3. CASE s = x
    <3>1. count'[s] = Least(count[s] + 1, CountMax) /\ arrived'[s] = arrived[s] + 1 /\ called'[s] = called[s]
      BY <2>3 DEF Deliver, IInv, TypeOK
    <3>2. QED
      BY <1>0, <2>1, <3>1 DEF Unclaimed, Least
  <2>4. QED
    BY <2>2, <2>3
<1>2. Nested'
    BY <1>0 DEF CallInv, Nested
<1>3. CountRead'
  <2> SUFFICES ASSUME NEW r \in Reactors, pc[r] = "clear"
               PROVE  num[r] <= count'[sigs[r][idx[r]]]
    BY <1>0 DEF CountRead
  <2>1. sigs[r][idx[r]] \in Signals
    BY ServedEntry DEF IInv, Ranges
  <2>2. /\ num[r] <= count[sigs[r][idx[r]]] /\ num[r] \in 0 .. CountMax
        /\ count'[sigs[r][idx[r]]] \in 0 .. CountMax
    BY <2>1 DEF CallInv, CountRead, IInv, TypeOK
  <2>3. QED
    BY <1>0, <1>1, <2>1, <2>2
<1>4. ASSUME NEW s \in Signals
      PROVE  WithinCap(Debts(s), Len(stack), Unclaimed(s))'
  <2>1. WithinCap(Debts(s), Len(stack), Unclaimed(s))
    BY DEF CallInv, Ledger
  <2>2. Unclaimed(s) \in Int /\ Unclaimed(s)' \in Int
    BY DebtsType, DebtsTypePrimed
  <2>3. Debts(s)' = Debts(s) /\ Len(stack') = Len(stack)
    BY <1>0 DEF Debts, Owes, Serving
  <2>4. WithinCap(Debts(s), Len(stack), Unclaimed(s)')
    BY <1>0, <1>1, <2>1, <2>2, CapGrows
  <2>5. QED
    BY <2>3, <2>4
<1>5. QED
    BY <1>2, <1>3, <1>4 DEF CallInv, Ledger

(* The calls on a reactor change nobody's debts; onSignal() appends behind   *)
(* the entry being served.                                                   *)
LEMMA CallsOwe ==
  ASSUME IInv, CallInv, UNCHANGED <<stack, pc, idx, num, count, called, arrived>>,
         \A q \in Reactors : pc[q] \in {"clear", "call", "cb"} => sigs'[q][idx[q]] = sigs[q][idx[q]]
  PROVE  CallInv'
<1>1. Nested' /\ CountRead'
    BY DEF CallInv, Nested, CountRead
<1>2. ASSUME NEW s \in Signals
      PROVE  Debts(s)' = Debts(s) /\ Unclaimed(s)' = Unclaimed(s)
  <2>1. \A i \in 1 .. Len(stack) : Owes(stack[i], s)' = Owes(stack[i], s)
    BY StackFacts DEF Owes, Serving
  <2>2. QED
    BY <2>1 DEF Debts, Unclaimed
<1>3. Ledger'
    BY <1>2 DEF CallInv, Ledger
<1>4. QED
    BY <1>1, <1>3 DEF CallInv

(* Only the innermost reactor can be between the two statements.             *)
LEMMA OnlyTopReads ==
  ASSUME IInv, CallInv, NEW r \in Reactors, In(r), NEW q \in Reactors, pc[q] = "clear"
  PROVE  q = r
<1>1. PICK i \in 1 .. Len(stack) : stack[i] = q
    BY DEF CallInv, Nested
<1>2. i = Len(stack)
  <2>1. Len(stack) \in Nat
    BY StackFacts
  <2>2. i \notin 1 .. Len(stack) - 1
    BY <1>1 DEF CallInv, Nested
  <2>3. QED
    BY <2>1, <2>2
<1>3. QED
    BY <1>1, <1>2 DEF In, Top

(* The steps of a dispatch that stay inside it.                              *)
LEMMA InsideCalls ==
  ASSUME IInv, IInv', CallInv, NEW r \in Reactors, In(r), stack' = stack, pc'[r] # "wait",
         sigs' = sigs, arrived' = arrived,
         \A q \in Reactors \ {r} : pc'[q] = pc[q] /\ idx'[q] = idx[q] /\ num'[q] = num[q],
         \A s \in Signals : Owes(r, s)' - Owes(r, s) <= Unclaimed(s)' - Unclaimed(s),
         pc'[r] = "clear" => num'[r] <= count'[sigs'[r][idx'[r]]]
  PROVE  CallInv'
<1>1. stack # <<>> /\ Top = r
    BY DEF In
<1>2. \A q \in Reactors \ {r} : pc'[q] = pc[q] /\ \A s \in Signals : Owes(q, s)' = Owes(q, s)
    BY DEF Owes, Serving
<1>3. Nested' /\ Ledger'
    BY <1>1, <1>2, TopMoves DEF CallInv
<1>4. CountRead'
    BY OnlyTopReads DEF CountRead
<1>5. QED
    BY <1>3, <1>4 DEF CallInv

(* Every step of a dispatch keeps the ledger.                                *)
LEMMA LoopCalls ==
  ASSUME IInv, IInv', CallInv, NEW r \in Reactors,
         \/ Drain(r) \/ ReadCount(r) \/ ClearCount(r)
         \/ CallSignal(r) \/ EndDispatch(r) \/ Return(r)
  PROVE  CallInv'
<1> USE DEF shimVars, histVars
<1>t. /\ pc \in [Reactors -> PcSet] /\ idx \in [Reactors -> Nat] /\ num \in [Reactors -> 0 .. CountMax]
      /\ count \in [Signals -> 0 .. CountMax] /\ called \in [Signals -> Nat]
      /\ arrived \in [Signals -> Nat] /\ CountMax \in Nat
    BY WakeAssumption DEF IInv, TypeOK, PcSet
<1>u. /\ In(r) /\ sigs' = sigs /\ arrived' = arrived
      /\ \A q \in Reactors \ {r} : pc'[q] = pc[q] /\ idx'[q] = idx[q] /\ num'[q] = num[q]
    BY <1>t DEF Drain, ReadCount, ClearCount, CallSignal, EndDispatch, Return
<1>v. stack # <<>> /\ Top = r
    BY <1>u DEF In
<1> DEFINE Even == \A s \in Signals : Owes(r, s)' = Owes(r, s) /\ Unclaimed(s)' = Unclaimed(s)
<1>w. ASSUME Even PROVE \A s \in Signals : Owes(r, s)' - Owes(r, s) <= Unclaimed(s)' - Unclaimed(s)
    BY <1>w, OwesType, DebtsType
<1>1. CASE Drain(r) \/ (EndDispatch(r) /\ stack' = stack)
  <2>1. pc[r] \notin {"call", "cb"} /\ pc'[r] \in {"drain", "read", "tell"} /\ stack' = stack
        /\ UNCHANGED <<count, called>>
    <3>1. CASE Drain(r)
      BY <1>t, <3>1 DEF Drain
    <3>2. CASE EndDispatch(r) /\ stack' = stack
      <4>1. stack' # SubSeq(stack, 1, Len(stack) - 1)
        <5>1. Len(stack) \in Nat /\ Len(stack) > 0 /\ stack \in Seq(Reactors)
          BY <1>v, StackFacts DEF IInv, TypeOK
        <5>2. stack' = SubSeq(stack, 1, Len(stack) - 1) => Len(stack') = Len(stack) - 1
          BY <1>v, Shorter
        <5>3. QED
          BY <3>2, <5>1, <5>2
      <4>2. QED
        BY <1>t, <3>2, <4>1 DEF EndDispatch
    <3>3. QED
      BY <1>1, <3>1, <3>2
  <2>2. Even
    BY <1>u, <2>1 DEF Owes, Serving, Unclaimed
  <2>3. QED
    BY <1>u, <1>w, <2>1, <2>2, InsideCalls
<1>2. CASE ReadCount(r)
  <2>1. pc[r] = "read" /\ pc'[r] = "clear" /\ UNCHANGED <<stack, count, called, idx>>
        /\ num'[r] = count[sigs[r][idx[r]]]
    BY <1>t, <1>2 DEF ReadCount
  <2>2. Even
    BY <1>u, <2>1 DEF Owes, Serving, Unclaimed
  <2>3. num'[r] <= count'[sigs'[r][idx'[r]]]
    <3>1. sigs[r][idx[r]] \in Signals
      BY <1>2, ServedEntry DEF ReadCount
    <3>2. QED
      BY <1>t, <1>u, <2>1, <3>1
  <2>4. QED
    BY <1>u, <1>w, <2>1, <2>2, <2>3, InsideCalls
<1>3. CASE ClearCount(r)
  <2> DEFINE x == sigs[r][idx[r]]
  <2>0. x \in Signals
    BY <1>3, ServedEntry DEF ClearCount, IInv, Ranges
  <2>1. /\ pc[r] = "clear" /\ pc'[r] = "call" /\ UNCHANGED <<stack, called, idx, num>>
        /\ count' = [count EXCEPT ![x] = 0] /\ num[r] <= count[x] /\ num[r] \in Nat
    BY <1>t, <1>3 DEF ClearCount, CallInv, CountRead
  <2>2. ASSUME NEW s \in Signals
        PROVE  Owes(r, s)' - Owes(r, s) <= Unclaimed(s)' - Unclaimed(s)
    <3>1. called[s] \in Nat /\ arrived[s] \in Nat /\ count[s] \in Nat
      BY HistoryType
    <3>2. Owes(r, s) = 0
      BY <2>1 DEF Owes, Serving
    <3>3. CASE s = x
      <4>1. Owes(r, s)' = num[r]
        BY <1>u, <2>1, <3>3 DEF Owes, Serving
      <4>2. count'[s] = 0
        BY <1>t, <2>1, <3>3
      <4>3. QED
        BY <1>u, <2>1, <3>1, <3>2, <3>3, <4>1, <4>2 DEF Unclaimed
    <3>4. CASE s # x
      <4>1. Owes(r, s)' = 0
        BY <1>u, <2>1, <3>4 DEF Owes, Serving
      <4>2. count'[s] = count[s]
        BY <1>t, <2>1, <3>4
      <4>3. QED
        BY <1>u, <2>1, <3>1, <3>2, <4>1, <4>2 DEF Unclaimed
    <3>5. QED
      BY <3>3, <3>4
  <2>3. QED
    BY <1>u, <2>1, <2>2, InsideCalls
<1>4. CASE CallSignal(r)
  <2> DEFINE x == sigs[r][idx[r]]
  <2>0. x \in Signals
    BY <1>4, ServedEntry DEF CallSignal, IInv, Ranges
  <2>1. CASE num[r] > 0
    <3>1. /\ pc[r] = "call" /\ pc'[r] = "cb" /\ UNCHANGED <<stack, count, idx>>
          /\ called' = [called EXCEPT ![x] = @ + 1] /\ num'[r] = num[r] - 1 /\ num[r] \in Nat
      BY <1>t, <1>4, <2>1 DEF CallSignal
    <3>2. ASSUME NEW s \in Signals
          PROVE  Owes(r, s)' - Owes(r, s) <= Unclaimed(s)' - Unclaimed(s)
      <4>1. called[s] \in Nat /\ arrived[s] \in Nat /\ count[s] \in Nat
        BY HistoryType
      <4>2. CASE s = x
        <5>1. Owes(r, s) = num[r] /\ Owes(r, s)' = num[r] - 1
          BY <1>u, <3>1, <4>2 DEF Owes, Serving
        <5>2. called'[s] = called[s] + 1
          BY <1>t, <3>1, <4>2
        <5>3. QED
          BY <1>u, <3>1, <4>1, <5>1, <5>2 DEF Unclaimed
      <4>3. CASE s # x
        <5>1. Owes(r, s) = 0 /\ Owes(r, s)' = 0
          BY <1>u, <3>1, <4>3 DEF Owes, Serving
        <5>2. called'[s] = called[s]
          BY <1>t, <3>1, <4>3
        <5>3. QED
          BY <1>u, <3>1, <4>1, <5>1, <5>2 DEF Unclaimed
      <4>4. QED
        BY <4>2, <4>3
    <3>3. QED
      BY <1>u, <3>1, <3>2, InsideCalls
  <2>2. CASE num[r] = 0
    <3>1. pc[r] = "call" /\ pc'[r] = "read" /\ UNCHANGED <<stack, count, called, num>>
      BY <1>t, <1>4, <2>2 DEF CallSignal
    <3>2. Even
      BY <1>u, <2>2, <3>1 DEF Owes, Serving, Unclaimed
    <3>3. QED
      BY <1>u, <1>w, <3>1, <3>2, InsideCalls
  <2>3. QED
    BY <1>4, <2>1, <2>2 DEF CallSignal
<1>5. CASE Return(r) /\ pc[r] = "cb"
  <2>1. pc'[r] = "call" /\ UNCHANGED <<stack, count, called, num, idx>>
    BY <1>t, <1>5 DEF Return
  <2>2. Even
    BY <1>u, <1>5, <2>1 DEF Owes, Serving, Unclaimed
  <2>3. QED
    BY <1>u, <1>w, <2>1, <2>2, InsideCalls
<1>6. CASE (EndDispatch(r) /\ stack' # stack) \/ (Return(r) /\ pc[r] # "cb")
  <2>1. /\ stack' = SubSeq(stack, 1, Len(stack) - 1) /\ pc' = [pc EXCEPT ![r] = "wait"]
        /\ UNCHANGED <<sigs, idx, num, count, called, arrived>>
    BY <1>6 DEF EndDispatch, Return
  <2>2. QED
    BY <1>v, <2>1, PopCalls
<1>7. QED
    BY <1>1, <1>2, <1>3, <1>4, <1>5, <1>6

(* Every step keeps it.                                                      *)
LEMMA NextCallInv == IInv /\ IInv' /\ CallInv /\ [Next]_vars => CallInv'
<1> SUFFICES ASSUME IInv, IInv', CallInv, [Next]_vars PROVE CallInv'
    OBVIOUS
<1> USE DEF shimVars, histVars, loopVars
<1>1. CASE UNCHANGED vars
    BY <1>1, CallsOwe DEF vars
<1>2. ASSUME NEW r \in Reactors,
             \/ Wakeable(r) \/ WakeableFails(r) \/ OnWake(r) \/ Wake(r) \/ CloseDisarm(r)
             \/ CloseFds(r)
      PROVE  CallInv'
  <2>1. UNCHANGED <<stack, pc, idx, num, count, called, arrived, sigs>>
    BY <1>2 DEF Wakeable, WakeableFails, OnWake, Wake, CloseDisarm, CloseFds
  <2>2. QED
    BY <2>1, CallsOwe
<1>3. ASSUME NEW r \in Reactors, NEW x \in Signals, OnSignal(r, x)
      PROVE  CallInv'
  <2>1. UNCHANGED <<stack, pc, idx, num, count, called, arrived>>
    BY <1>3 DEF OnSignal
  <2>2. ASSUME NEW q \in Reactors, pc[q] \in {"clear", "call", "cb"}
        PROVE  sigs'[q][idx[q]] = sigs[q][idx[q]]
    <3>1. sigs[q] \in Seq(Signals) /\ idx[q] \in Nat /\ idx[q] >= 1 /\ idx[q] <= hi[q]
          /\ hi[q] <= Len(sigs[q]) /\ hi[q] \in Nat
      BY <2>2 DEF IInv, TypeOK, Ranges
    <3>2. idx[q] \in 1 .. Len(sigs[q])
      BY <3>1, LenProperties
    <3>3. QED
      BY <1>3, <3>2, RouteAdded
  <2>3. QED
    BY <2>1, <2>2, CallsOwe
<1>4. ASSUME NEW r \in Reactors, Loop(r) PROVE CallInv'
    BY <1>2, <1>4, NoticeCalls, LoopCalls DEF Loop
<1>5. QED
    BY <1>1, <1>2, <1>3, <1>4, DeliverCalls DEF Next

(* The initial state has no debts.                                           *)
LEMMA InitCallInv == Init => CallInv
<1> SUFFICES ASSUME Init PROVE CallInv
    OBVIOUS
<1>1. stack = <<>> /\ Len(stack) = 0
    BY DEF Init
<1>2. Nested /\ CountRead
    BY <1>1 DEF Init, Nested, CountRead
<1>3. ASSUME NEW s \in Signals PROVE WithinCap(Debts(s), Len(stack), Unclaimed(s))
  <2>1. Unclaimed(s) = 0
    BY DEF Init, Unclaimed
  <2>2. QED
    BY <1>1, <2>1, CapEmpty
<1>4. QED
    BY <1>2, <1>3 DEF CallInv, Ledger

(* Each reactor's debt is covered by deliveries that nobody else claims.     *)
LEMMA LedgerSuffices == IInv /\ CallInv => CalledAtMostOnce
<1> SUFFICES ASSUME IInv, CallInv, NEW s \in Signals, NEW r \in Reactors
             PROVE  called[s] + count[s] + Owes(r, s) <= arrived[s]
    BY DEF CalledAtMostOnce, Owes
<1>1. /\ Len(stack) \in Nat /\ Debts(s) \in [1 .. Len(stack) -> Nat] /\ Unclaimed(s) \in Int
      /\ WithinCap(Debts(s), Len(stack), Unclaimed(s))
    BY StackFacts, DebtsType DEF CallInv, Ledger
<1>2. Unclaimed(s) >= 0 /\ \A i \in 1 .. Len(stack) : Debts(s)[i] <= Unclaimed(s)
    BY <1>1, CapEach
<1>3. called[s] \in Nat /\ count[s] \in Nat /\ arrived[s] \in Nat /\ Owes(r, s) \in Nat
    BY HistoryType, OwesType
<1>4. CASE pc[r] = "wait"
  <2>1. Owes(r, s) = 0
    BY <1>4 DEF Owes, Serving
  <2>2. QED
    BY <1>2, <1>3, <2>1 DEF Unclaimed
<1>5. CASE pc[r] # "wait"
  <2>1. PICK i \in 1 .. Len(stack) : stack[i] = r
    BY <1>5 DEF CallInv, Nested
  <2>2. Owes(r, s) <= Unclaimed(s)
    BY <1>2, <2>1 DEF Debts
  <2>3. QED
    BY <1>3, <2>2 DEF Unclaimed
<1>6. QED
    BY <1>4, <1>5

(* dispatch_signals calls back at most once for every delivery, on whatever  *)
(* reactors, with callbacks that tick() other reactors in the middle of a    *)
(* dispatch and a handler that runs between reading a count and clearing it. *)
THEOREM WakeCallsAtMostOnce == Spec => []CalledAtMostOnce
<1>1. Spec => []CallInv
    BY InitCallInv, NextCallInv, WakeInvariant, PTL DEF Spec
<1>2. QED
    BY <1>1, LedgerSuffices, WakeInvariant, PTL
=============================================================================
