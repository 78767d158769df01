---------------------------- MODULE ReactorProofs ----------------------------
(***************************************************************************)
(* For any set of descriptors, any finite heap of timers and any callback: *)
(* the reactor's counters, which decide when run() returns, are exact; its *)
(* wait is for the live timers; timers fire in the order of their          *)
(* deadlines; and the loop does not end while something can wake it.       *)
(***************************************************************************)
EXTENDS Reactor, FiniteSetTheorems, SequenceTheorems, TLAPS

WatchedFds == {f \in AllFd : Watched(f)}
LiveTimers == {e \in Entries : Live(e)}

\* A callback runs for an entry of the ready list.
Dispatching == pc = "fcb" => idx <= Len(ready)

\* The pipe is watched from wakeable() to close().
PipeWatched == wakeable <=> Watched(WakeFd)

\* No timer in the heap is earlier than the one fired last, which was due.
Timely ==
    /\ t0 <= now /\ lastAt <= now
    /\ \A e \in Entries : InHeap(e) => lastAt <= timers[e].at

IInv == TypeOK /\ CountsExact /\ Dispatching /\ PipeWatched /\ WaitsForLive /\ Timely

(* The initial state satisfies the invariant.                                *)
LEMMA InitIInv == Init => IInv
<1> SUFFICES ASSUME Init PROVE IInv
    OBVIOUS
<1>1. \A f \in AllFd : ~Watched(f)
    BY DEF Init, Watched
<1>2. \A e \in Entries : ~InHeap(e)
    BY DEF Init, InHeap
<1>3. {f \in AllFd : Watched(f)} = {} /\ {e \in Entries : Live(e)} = {}
    BY <1>1, <1>2 DEF Live
<1>4. CountsExact
    BY <1>3, FS_EmptySet DEF CountsExact, Init
<1>5. TypeOK
  <2>1. slots \in [AllFd -> [serial : Nat, events : SUBSET Events]]
    BY DEF Init, NoWatch
  <2>2. timers \in [Entries -> [at : Nat, every : Nat \cup {-1}, cancelled : BOOLEAN]]
    BY DEF Init, NoTimer
  <2>3. {running, wakeable, routed, waiter} \subseteq BOOLEAN
    BY DEF Init
  <2>4. ready \in Seq([fd : AllFd, events : SUBSET Events, serial : Nat])
    BY DEF Init
  <2>5. QED
    BY <2>1, <2>2, <2>3, <2>4 DEF Init, TypeOK
<1>6. QED
    BY <1>1, <1>2, <1>4, <1>5 DEF IInv, Dispatching, PipeWatched, WaitsForLive, Timely, Init, AllFd

-----------------------------------------------------------------------------
(* What a step may do to the descriptor table and to the heap.               *)

SetWatch(f, ev) == Watched(f) /\ slots' = [slots EXCEPT ![f].events = ev] /\ nwatch' = nwatch

TableStep ==
    \/ UNCHANGED <<slots, nwatch>>
    \/ \E f \in AllFd, ev \in EventSets : AddWatch(f, ev) \/ SetWatch(f, ev)
    \/ \E f \in AllFd : Unwatched(f)

PutTimer(e, ms, iv) ==
    /\ ~InHeap(e)
    /\ timers' = [timers EXCEPT ![e] = [at |-> now + Later(ms, 0), every |-> iv, cancelled |-> FALSE]]
    /\ ntimers' = ntimers + 1 /\ UNCHANGED <<now, lastAt, t0>>

FlagTimer(e) ==
    /\ Live(e)
    /\ timers' = [timers EXCEPT ![e].cancelled = TRUE]
    /\ ntimers' = ntimers - 1 /\ UNCHANGED <<now, lastAt, t0>>

DropTimer(e) ==
    /\ InHeap(e) /\ timers[e].cancelled
    /\ timers' = [timers EXCEPT ![e] = NoTimer]
    /\ UNCHANGED <<ntimers, now, lastAt, t0>>

HeapStep ==
    \/ UNCHANGED <<timers, ntimers, lastAt>> /\ now' >= now /\ t0' <= now'
    \/ \E e \in Entries, ms \in Int, iv \in Nat : UserCode /\ PutTimer(e, ms, iv)
    \/ \E e \in Entries : UserCode /\ FlagTimer(e)
    \/ \E e \in Entries : pc \in {"timeout", "timers"} /\ DropTimer(e)
    \/ \E e \in Entries : pc = "timers" /\ Fire(e) /\ UNCHANGED t0

(* The entry that is dispatched is a descriptor's.                           *)
LEMMA ServedEntry ==
  ASSUME TypeOK, Dispatching, pc = "fcb"
  PROVE  ready[idx] \in [fd : AllFd, events : SUBSET Events, serial : Nat] /\ ready[idx].fd \in AllFd
<1>1. ready \in Seq([fd : AllFd, events : SUBSET Events, serial : Nat])
    BY DEF TypeOK
<1>2. idx \in 1 .. Len(ready)
  <2>1. Len(ready) \in Nat
    BY <1>1, LenProperties
  <2>2. QED
    BY <2>1 DEF TypeOK, Dispatching
<1>3. ready[idx] \in [fd : AllFd, events : SUBSET Events, serial : Nat]
    BY <1>1, <1>2, ElementOfSeq, Zenon
<1>4. QED
    BY <1>3

(* Every step does one of these to the table.                                *)
LEMMA TableSteps == TypeOK /\ Dispatching /\ [Next]_vars => TableStep
<1> SUFFICES ASSUME TypeOK, Dispatching, [Next]_vars PROVE TableStep
    OBVIOUS
<1> USE DEF TableStep, objVars, loopVars
<1>1. CASE UNCHANGED vars
    BY <1>1 DEF vars
<1>2. ASSUME NEW f \in Fd, NEW ev \in EventSets, Watch(f, ev) \/ SetEvents(f, ev)
      PROVE  TableStep
    BY <1>2 DEF Watch, SetEvents, SetWatch, AllFd
<1>3. ASSUME NEW f \in Fd, Unwatch(f) PROVE TableStep
    BY <1>3 DEF Unwatch, AllFd
<1>4. CASE Wakeable
  <2>1. {"r"} \in EventSets /\ WakeFd \in AllFd
    BY ReactorAssumption DEF EventSets, AllFd
  <2>2. QED
    BY <1>4, <2>1 DEF Wakeable
<1>5. CASE Close
    BY <1>5 DEF Close, AllFd
<1>6. CASE Route \/ SetWaiter \/ Run \/ Stop
    BY <1>6 DEF Route, SetWaiter, Run, Stop
<1>7. ASSUME NEW e \in Entries, NEW ms, NEW iv, AddTimer(e, ms, iv) \/ Cancel(e)
      PROVE  TableStep
    BY <1>7 DEF AddTimer, Cancel
<1>8. ASSUME NEW keep \in BOOLEAN, FdReturns(keep) PROVE TableStep
  <2>1. ready[idx].fd \in AllFd
    BY <1>8, ServedEntry DEF FdReturns
  <2>2. QED
    BY <1>8, <2>1 DEF FdReturns
<1>9. CASE TimerReturns
    BY <1>9 DEF TimerReturns
<1>10. CASE Step
    BY <1>10 DEF Step, TickEnds, TickGoesOn, TickWaits, TimersDone, SkipFd, CallFd, TickDone,
                 PopStale, PopCancelled, Fire
<1>11. CASE WaitReturns \/ Interrupted \/ WaitFails
    BY <1>11 DEF WaitReturns, Interrupted, WaitFails, BeginTimers
<1>12. CASE World
    BY <1>12 DEF World, ClockTick, Arrive, Consume
<1>13. QED
  <2>1. CASE Calls
    BY <2>1, <1>2, <1>3, <1>4, <1>5, <1>6, <1>7 DEF Calls
  <2>2. CASE Return
    BY <2>2, <1>8, <1>9 DEF Return
  <2>3. QED
    BY <1>1, <1>10, <1>11, <1>12, <2>1, <2>2 DEF Next

(* ... and one of these to the heap.                                         *)
LEMMA HeapSteps == TypeOK /\ Timely /\ [Next]_vars => HeapStep
<1> SUFFICES ASSUME TypeOK, Timely, [Next]_vars PROVE HeapStep
    OBVIOUS
<1>t. now \in Nat /\ t0 \in Nat /\ t0 <= now
    BY DEF TypeOK, Timely
<1> DEFINE Still == UNCHANGED <<timers, ntimers, lastAt>> /\ now' >= now /\ t0' <= now'
<1>0. Still => HeapStep
    BY DEF HeapStep
<1> USE DEF objVars, loopVars
<1>1. CASE UNCHANGED vars
    BY <1>0, <1>1, <1>t DEF vars
<1>2. ASSUME NEW f \in Fd, NEW ev, Watch(f, ev) \/ SetEvents(f, ev) \/ Unwatch(f)
      PROVE  HeapStep
    BY <1>0, <1>2, <1>t DEF Watch, SetEvents, Unwatch
<1>3. CASE Wakeable \/ Close \/ Route \/ SetWaiter \/ Run \/ Stop
    BY <1>0, <1>3, <1>t DEF Wakeable, Close, Route, SetWaiter, Run, Stop
<1>4. ASSUME NEW e \in Entries, NEW ms \in Delays, AddTimer(e, ms, 0) PROVE HeapStep
    BY <1>4, ReactorAssumption DEF HeapStep, AddTimer, PutTimer
<1>5. ASSUME NEW e \in Entries, NEW ms \in Periods, AddTimer(e, ms, ms) PROVE HeapStep
  <2>1. ms \in Int /\ ms \in Nat
    BY ReactorAssumption
  <2>2. UserCode /\ PutTimer(e, ms, ms)
    BY <1>5 DEF AddTimer, PutTimer
  <2>3. QED
    BY <2>1, <2>2 DEF HeapStep
<1>6. ASSUME NEW e \in Entries, Cancel(e) PROVE HeapStep
    BY <1>6 DEF HeapStep, Cancel, FlagTimer
<1>7. ASSUME NEW keep \in BOOLEAN, FdReturns(keep) \/ TimerReturns PROVE HeapStep
    BY <1>0, <1>7, <1>t DEF FdReturns, TimerReturns
<1>8. CASE TickEnds \/ TickGoesOn \/ TickWaits \/ TimersDone \/ SkipFd \/ CallFd \/ TickDone
    BY <1>0, <1>8, <1>t DEF TickEnds, TickGoesOn, TickWaits, TimersDone, SkipFd, CallFd, TickDone
<1>9. ASSUME NEW e \in Entries, PopStale(e) PROVE HeapStep
    BY <1>9 DEF HeapStep, PopStale, DropTimer, Peek
<1>10. ASSUME NEW e \in Entries, PopCancelled(e) PROVE HeapStep
    BY <1>10 DEF HeapStep, PopCancelled, DropTimer, Peek
<1>11. ASSUME NEW e \in Entries, Fire(e) PROVE HeapStep
  <2>1. pc = "timers" /\ UNCHANGED t0
    BY <1>11 DEF Fire
  <2>2. QED
    BY <1>11, <2>1 DEF HeapStep
<1>12. CASE WaitReturns \/ Interrupted \/ WaitFails
    BY <1>0, <1>12, <1>t DEF WaitReturns, Interrupted, WaitFails, BeginTimers
<1>13. CASE World
    BY <1>0, <1>13, <1>t DEF World, ClockTick, Arrive, Consume
<1>14. QED
  <2>1. CASE Calls
    BY <2>1, <1>2, <1>3, <1>4, <1>5, <1>6 DEF Calls
  <2>2. CASE Return
    BY <2>2, <1>7 DEF Return
  <2>3. CASE Step
    BY <2>3, <1>8, <1>9, <1>10, <1>11 DEF Step
  <2>4. QED
    BY <1>1, <1>12, <1>13, <2>1, <2>2, <2>3 DEF Next

-----------------------------------------------------------------------------
(* The counters.                                                             *)

LEMMA FiniteTables ==
    /\ IsFiniteSet(AllFd)
    /\ \A S \in SUBSET AllFd : IsFiniteSet(S) /\ Cardinality(S) \in Nat
    /\ \A S \in SUBSET Entries : IsFiniteSet(S) /\ Cardinality(S) \in Nat
<1>1. IsFiniteSet(AllFd)
    BY ReactorAssumption, FS_AddElement DEF AllFd
<1>2. QED
    BY <1>1, ReactorAssumption, FS_Subset, FS_CardinalityType

(* nwatch stays the number of watches.                                       *)
LEMMA WatchesCounted ==
  ASSUME TypeOK, nwatch = Cardinality(WatchedFds), TableStep
  PROVE  nwatch' = Cardinality(WatchedFds')
<1>0. /\ slots \in [AllFd -> [serial : Nat, events : SUBSET Events]] /\ nwatch \in Nat
      /\ IsFiniteSet(WatchedFds) /\ made \in Nat
    BY FiniteTables DEF TypeOK, WatchedFds
<1>1. CASE UNCHANGED <<slots, nwatch>>
    BY <1>1 DEF WatchedFds, Watched
<1>2. ASSUME NEW f \in AllFd, NEW ev \in EventSets, AddWatch(f, ev)
      PROVE  nwatch' = Cardinality(WatchedFds')
  <2>1. f \notin WatchedFds /\ WatchedFds' = WatchedFds \cup {f}
    BY <1>0, <1>2 DEF AddWatch, WatchedFds, Watched, NoWatch
  <2>2. QED
    BY <1>0, <1>2, <2>1, FS_AddElement DEF AddWatch
<1>3. ASSUME NEW f \in AllFd, NEW ev \in EventSets, SetWatch(f, ev)
      PROVE  nwatch' = Cardinality(WatchedFds')
  <2>1. ev # {}
    BY DEF EventSets
  <2>2. WatchedFds' = WatchedFds
    BY <1>0, <1>3, <2>1 DEF SetWatch, WatchedFds, Watched, NoWatch
  <2>3. QED
    BY <1>3, <2>2 DEF SetWatch
<1>4. ASSUME NEW f \in AllFd, Unwatched(f)
      PROVE  nwatch' = Cardinality(WatchedFds')
  <2>1. WatchedFds' = WatchedFds \ {f} /\ (f \in WatchedFds <=> Watched(f))
    BY <1>0, <1>4 DEF Unwatched, WatchedFds, Watched, NoWatch
  <2>2. QED
    BY <1>0, <1>4, <2>1, FS_RemoveElement DEF Unwatched
<1>5. QED
    BY <1>1, <1>2, <1>3, <1>4 DEF TableStep

(* ntimers stays the number of live timers.                                  *)
LEMMA TimersCounted ==
  ASSUME TypeOK, ntimers = Cardinality(LiveTimers), HeapStep
  PROVE  ntimers' = Cardinality(LiveTimers')
<1>0. /\ timers \in [Entries -> [at : Nat, every : Nat \cup {-1}, cancelled : BOOLEAN]]
      /\ ntimers \in Nat /\ IsFiniteSet(LiveTimers)
    BY FiniteTables DEF TypeOK, LiveTimers
<1>1. CASE UNCHANGED <<timers, ntimers>>
    BY <1>1 DEF LiveTimers, Live, InHeap
<1>2. ASSUME NEW e \in Entries, NEW ms \in Int, NEW iv \in Nat, PutTimer(e, ms, iv)
      PROVE  ntimers' = Cardinality(LiveTimers')
  <2>1. e \notin LiveTimers /\ LiveTimers' = LiveTimers \cup {e}
    BY <1>0, <1>2 DEF PutTimer, LiveTimers, Live, InHeap, NoTimer
  <2>2. QED
    BY <1>0, <1>2, <2>1, FS_AddElement DEF PutTimer
<1>3. ASSUME NEW e \in Entries, FlagTimer(e)
      PROVE  ntimers' = Cardinality(LiveTimers')
  <2>1. e \in LiveTimers /\ LiveTimers' = LiveTimers \ {e}
    BY <1>0, <1>3 DEF FlagTimer, LiveTimers, Live, InHeap, NoTimer
  <2>2. QED
    BY <1>0, <1>3, <2>1, FS_RemoveElement DEF FlagTimer
<1>5. ASSUME NEW e \in Entries, DropTimer(e)
      PROVE  ntimers' = Cardinality(LiveTimers')
  <2>1. LiveTimers' = LiveTimers
    BY <1>0, <1>5 DEF DropTimer, LiveTimers, Live, InHeap, NoTimer
  <2>2. QED
    BY <1>5, <2>1 DEF DropTimer
<1>6. ASSUME NEW e \in Entries, Fire(e)
      PROVE  ntimers' = Cardinality(LiveTimers')
  <2>1. e \in LiveTimers
    BY <1>6 DEF Fire, LiveTimers
  <2>2. CASE /\ timers[e].every > 0 /\ UNCHANGED ntimers
             /\ timers' = [timers EXCEPT ![e].at = Later(@ + timers[e].every, now)]
    <3>1. LiveTimers' = LiveTimers
      BY <1>0, <2>1, <2>2 DEF LiveTimers, Live, InHeap, NoTimer
    <3>2. QED
      BY <2>2, <3>1
  <2>3. CASE timers' = [timers EXCEPT ![e] = NoTimer] /\ ntimers' = ntimers - 1
    <3>1. LiveTimers' = LiveTimers \ {e}
      BY <1>0, <2>3 DEF LiveTimers, Live, InHeap, NoTimer
    <3>2. QED
      BY <1>0, <2>1, <2>3, <3>1, FS_RemoveElement
  <2>4. QED
    BY <1>6, <2>2, <2>3 DEF Fire
<1>7. QED
    BY <1>1, <1>2, <1>3, <1>5, <1>6 DEF HeapStep

-----------------------------------------------------------------------------
(* The heap and the wait.                                                    *)

(* The heap stays typed and no timer in it is earlier than the last fired.   *)
LEMMA HeapKeeps ==
  ASSUME IInv, HeapStep, now' \in Nat, t0' \in Nat
  PROVE  /\ timers' \in [Entries -> [at : Nat, every : Nat \cup {-1}, cancelled : BOOLEAN]]
         /\ lastAt' \in Nat
         /\ Timely'
<1>0. /\ timers \in [Entries -> [at : Nat, every : Nat \cup {-1}, cancelled : BOOLEAN]]
      /\ now \in Nat /\ t0 \in Nat /\ lastAt \in Nat
      /\ t0 <= now /\ lastAt <= now
      /\ \A d \in Entries : timers[d] # NoTimer => lastAt <= timers[d].at
    BY DEF IInv, TypeOK, Timely, InHeap
<1>1. CASE UNCHANGED <<timers, ntimers, lastAt>> /\ now' >= now /\ t0' <= now'
    BY <1>0, <1>1 DEF Timely, InHeap
<1>2. ASSUME NEW e \in Entries, NEW ms \in Int, NEW iv \in Nat, PutTimer(e, ms, iv)
      PROVE  /\ timers' \in [Entries -> [at : Nat, every : Nat \cup {-1}, cancelled : BOOLEAN]]
             /\ lastAt' \in Nat /\ Timely'
  <2>1. now + Later(ms, 0) \in Nat /\ now + Later(ms, 0) >= lastAt
    BY <1>0 DEF Later
  <2>2. QED
    BY <1>0, <1>2, <2>1 DEF PutTimer, Timely, InHeap
<1>3. ASSUME NEW e \in Entries, FlagTimer(e)
      PROVE  /\ timers' \in [Entries -> [at : Nat, every : Nat \cup {-1}, cancelled : BOOLEAN]]
             /\ lastAt' \in Nat /\ Timely'
    BY <1>0, <1>3 DEF FlagTimer, Timely, InHeap, Live, NoTimer
<1>5. ASSUME NEW e \in Entries, DropTimer(e)
      PROVE  /\ timers' \in [Entries -> [at : Nat, every : Nat \cup {-1}, cancelled : BOOLEAN]]
             /\ lastAt' \in Nat /\ Timely'
    BY <1>0, <1>5 DEF DropTimer, Timely, InHeap, NoTimer
<1>6. ASSUME NEW e \in Entries, Fire(e), UNCHANGED t0
      PROVE  /\ timers' \in [Entries -> [at : Nat, every : Nat \cup {-1}, cancelled : BOOLEAN]]
             /\ lastAt' \in Nat /\ Timely'
  <2>1. /\ timers[e].at \in Nat /\ timers[e].every \in Int /\ timers[e].at <= now
        /\ lastAt' = timers[e].at /\ now' = now
        /\ \A d \in Entries : timers[d] # NoTimer => timers[e].at <= timers[d].at
    BY <1>0, <1>6 DEF Fire, Peek, InHeap
  <2>2. CASE /\ timers[e].every > 0
             /\ timers' = [timers EXCEPT ![e].at = Later(@ + timers[e].every, now)]
    <3>1. /\ Later(timers[e].at + timers[e].every, now) \in Nat
          /\ Later(timers[e].at + timers[e].every, now) >= timers[e].at
      BY <1>0, <2>1, <2>2 DEF Later
    <3>2. timers' = [timers EXCEPT ![e].at = Later(timers[e].at + timers[e].every, now)]
      BY <2>2
    <3>3. QED
      BY <1>0, <1>6, <2>1, <3>1, <3>2 DEF Timely, InHeap
  <2>3. CASE timers' = [timers EXCEPT ![e] = NoTimer]
    BY <1>0, <1>6, <2>1, <2>3 DEF Timely, InHeap, NoTimer
  <2>4. QED
    BY <1>6, <2>2, <2>3 DEF Fire
<1>7. QED
    BY <1>1, <1>2, <1>3, <1>5, <1>6 DEF HeapStep

-----------------------------------------------------------------------------
(* The loop.                                                                 *)

Pcs == {"out", "tick", "timeout", "wait", "timers", "tcb", "fds", "fcb"}
ReadyEntry == [fd : AllFd, events : SUBSET Events, serial : Nat]

FlagsOK == {running, wakeable, routed, waiter} \subseteq BOOLEAN
LoopOK ==
    /\ pc \in Pcs /\ until \in Nat \cup {-1}
    /\ ready \in Seq(ReadyEntry) /\ idx \in Nat \ {0}
    /\ {keeper, t0, budget, now, made} \subseteq Nat
    /\ present \in [AllFd -> SUBSET Events]

(* What a wait reports is a list of descriptors with their watches.          *)
LEMMA ReportedList ==
  ASSUME TypeOK, NEW q \in ReadyLists
  PROVE  q \in Seq(ReadyEntry)
<1>0. /\ slots \in [AllFd -> [serial : Nat, events : SUBSET Events]]
      /\ present \in [AllFd -> SUBSET Events]
    BY DEF TypeOK
<1>1. ReadySet \in SUBSET AllFd
    BY DEF ReadySet
<1>2. Cardinality(ReadySet) \in Nat
    BY <1>1, FiniteTables
<1>3. PICK s \in SetToSeqs(ReadySet) :
          q = [i \in DOMAIN s |-> [fd |-> s[i], events |-> Reported(s[i]), serial |-> slots[s[i]].serial]]
    BY DEF ReadyLists
<1>4. s \in [1 .. Cardinality(ReadySet) -> ReadySet]
    BY <1>3 DEF SetToSeqs
<1>5. \A f \in AllFd :
          [fd |-> f, events |-> Reported(f), serial |-> slots[f].serial] \in ReadyEntry
    BY <1>0 DEF Reported, ReadyEntry
<1>6. q \in [1 .. Cardinality(ReadySet) -> ReadyEntry]
    BY <1>1, <1>3, <1>4, <1>5
<1>7. QED
    BY <1>2, <1>6, SeqDef

(* The flags stay flags.                                                     *)
LEMMA FlagsKept ==
  ASSUME FlagsOK, [Next]_vars
  PROVE  FlagsOK'
<1> USE DEF FlagsOK, objVars, loopVars
<1>1. CASE UNCHANGED vars
    BY <1>1 DEF vars
<1>2. CASE Calls
    BY <1>2 DEF Calls, Unwatch, Watch, SetEvents, Wakeable, Route, Close, SetWaiter, AddTimer,
                Cancel, Run, Stop
<1>3. CASE Return
    BY <1>3 DEF Return, TimerReturns, FdReturns
<1>4. CASE Step
    BY <1>4 DEF Step, TickEnds, TickGoesOn, TickWaits, TimersDone, SkipFd, CallFd, TickDone,
                PopStale, PopCancelled, Fire, Leave
<1>5. CASE WaitReturns \/ Interrupted \/ WaitFails \/ World
    BY <1>5 DEF WaitReturns, Interrupted, WaitFails, BeginTimers, Leave, World, ClockTick,
                Arrive, Consume
<1>6. QED
    BY <1>1, <1>2, <1>3, <1>4, <1>5 DEF Next

(* The loop's own variables keep their types, and a dispatch its range.      *)
LEMMA LoopKept ==
  ASSUME TypeOK, Dispatching, [Next]_vars
  PROVE  LoopOK' /\ Dispatching'
<1>0. LoopOK /\ now \in Nat /\ MaxBlock \in Nat /\ Slack \in Nat /\ Len(ready) \in Nat
  <2>1. LoopOK
    BY DEF TypeOK, LoopOK, Pcs, ReadyEntry
  <2>2. QED
    BY <2>1, LenProperties, ReactorAssumption DEF LoopOK
<1> USE DEF objVars, loopVars, LoopOK, Dispatching, Pcs
<1>1. CASE UNCHANGED vars
    BY <1>0, <1>1 DEF vars
<1>2. CASE Calls
  <2>1. ASSUME NEW f, NEW ev, Watch(f, ev) \/ SetEvents(f, ev) \/ Unwatch(f)
        PROVE  LoopOK' /\ Dispatching'
    BY <1>0, <2>1 DEF Watch, SetEvents, Unwatch, AddWatch
  <2>2. CASE Wakeable \/ Route \/ Close \/ SetWaiter \/ Run \/ Stop
    BY <1>0, <2>2 DEF Wakeable, Route, Close, SetWaiter, AddWatch, Run, Stop
  <2>3. ASSUME NEW e, NEW ms, NEW iv, AddTimer(e, ms, iv) \/ Cancel(e)
        PROVE  LoopOK' /\ Dispatching'
    BY <1>0, <2>3 DEF AddTimer, Cancel
  <2>4. QED
    BY <1>2, <2>1, <2>2, <2>3 DEF Calls
<1>3. CASE Return
    BY <1>0, <1>3 DEF Return, TimerReturns, FdReturns
<1>4. CASE Step
  <2>1. CASE TickEnds \/ TickGoesOn \/ TimersDone \/ SkipFd \/ TickDone
    <3>1. CASE TickEnds
      BY <1>0, <3>1 DEF TickEnds, Leave
    <3>6. CASE TickGoesOn
      BY <1>0, <3>6 DEF TickGoesOn
    <3>2. CASE TimersDone
      <4>1. CASE Leave
        BY <1>0, <3>2, <4>1 DEF TimersDone, Leave
      <4>2. CASE pc' = "fds" /\ UNCHANGED <<running, until, ready, idx>>
        BY <1>0, <3>2, <4>2 DEF TimersDone
      <4>3. QED
        BY <3>2, <4>1, <4>2 DEF TimersDone
    <3>3. CASE SkipFd
      BY <1>0, <3>3 DEF SkipFd
    <3>4. CASE TickDone
      <4>1. CASE Leave
        BY <1>0, <3>4, <4>1 DEF TickDone, Leave
      <4>2. CASE pc' = "tick" /\ ready' = <<>> /\ idx' = 1 /\ UNCHANGED <<running, until>>
        BY <1>0, <3>4, <4>2 DEF TickDone
      <4>3. QED
        BY <3>4, <4>1, <4>2 DEF TickDone
    <3>5. QED
      BY <2>1, <3>1, <3>2, <3>3, <3>4, <3>6
  <2>2. CASE TickWaits
    <3>1. until' \in Nat \cup {-1}
      BY <1>0, <2>2 DEF TickWaits, Later, TypeOK
    <3>2. QED
      BY <1>0, <2>2, <3>1 DEF TickWaits
  <2>3. CASE CallFd
    <3>1. ready[idx].fd \in AllFd
      <4>1. idx \in 1 .. Len(ready)
        BY <1>0, <2>3 DEF CallFd
      <4>2. ready[idx] \in ReadyEntry
        BY <1>0, <4>1, ElementOfSeq
      <4>3. QED
        BY <4>2 DEF ReadyEntry
    <3>2. keeper' \in Nat
      BY <2>3, <3>1 DEF CallFd, TypeOK
    <3>3. QED
      BY <1>0, <2>3, <3>2 DEF CallFd
  <2>4. ASSUME NEW e \in Entries, PopStale(e) \/ PopCancelled(e) \/ Fire(e)
        PROVE  LoopOK' /\ Dispatching'
    BY <1>0, <2>4 DEF PopStale, PopCancelled, Fire
  <2>5. QED
    BY <1>4, <2>1, <2>2, <2>3, <2>4 DEF Step
<1>5. CASE WaitReturns \/ Interrupted
  <2>1. ready' \in Seq(ReadyEntry)
    <3>1. <<>> \in Seq(ReadyEntry)
      OBVIOUS
    <3>2. ready' = <<>> \/ ready' \in ReadyLists
      BY <1>5 DEF WaitReturns, Interrupted
    <3>3. \A q \in ReadyLists : q \in Seq(ReadyEntry)
      BY ReportedList
    <3>4. QED
      BY <3>1, <3>2, <3>3
  <2>2. Cardinality({e \in Entries : InHeap(e)}) \in Nat
    BY FiniteTables
  <2>3. QED
    BY <1>0, <1>5, <2>1, <2>2 DEF WaitReturns, Interrupted, BeginTimers
<1>6. CASE WaitFails
    BY <1>0, <1>6 DEF WaitFails, Leave
<1>7. CASE World
  <2>1. CASE ClockTick
    BY <1>0, <2>1 DEF ClockTick
  <2>2. ASSUME NEW f \in AllFd, NEW ev \in Events, Arrive(f, ev) \/ Consume(f, ev)
        PROVE  LoopOK' /\ Dispatching'
    <3>1. present' \in [AllFd -> SUBSET Events]
      BY <1>0, <2>2 DEF Arrive, Consume
    <3>2. QED
      BY <1>0, <2>2, <3>1 DEF Arrive, Consume
  <2>3. QED
    BY <1>7, <2>1, <2>2 DEF World
<1>8. QED
    BY <1>1, <1>2, <1>3, <1>4, <1>5, <1>6, <1>7 DEF Next

(* A wait that is under way keeps its bound, and a new one gets it.          *)
LEMMA WaitKept ==
  ASSUME IInv, [Next]_vars
  PROVE  WaitsForLive'
<1> USE DEF objVars, loopVars
<1>0. now \in Nat /\ until \in Nat \cup {-1} /\ WaitsForLive /\ MaxBlock \in Nat
      /\ timers \in [Entries -> [at : Nat, every : Nat \cup {-1}, cancelled : BOOLEAN]]
    BY ReactorAssumption DEF IInv, TypeOK
<1>1. \/ pc' # "wait"
      \/ TickWaits
      \/ pc = "wait" /\ UNCHANGED <<pc, until, timers, waiter>> /\ now' \in Nat /\ now' >= now
  <2>1. CASE UNCHANGED vars
    BY <1>0, <2>1 DEF vars
  <2>2. CASE Calls
    BY <2>2 DEF Calls, UserCode, Unwatch, Watch, SetEvents, Wakeable, Route, Close, SetWaiter,
                AddTimer, Cancel, Run, Stop
  <2>3. CASE Return
    BY <2>3 DEF Return, TimerReturns, FdReturns
  <2>4. CASE Step
    BY <2>4 DEF Step, TickEnds, TickGoesOn, TimersDone, SkipFd, CallFd, TickDone, PopStale,
                PopCancelled, Fire, Leave
  <2>5. CASE WaitReturns \/ Interrupted \/ WaitFails
    BY <2>5 DEF WaitReturns, Interrupted, WaitFails, BeginTimers, Leave
  <2>6. CASE World
    BY <1>0, <2>6 DEF World, ClockTick, Arrive, Consume
  <2>7. QED
    BY <2>1, <2>2, <2>3, <2>4, <2>5, <2>6 DEF Next
<1>2. CASE pc' # "wait"
    BY <1>2 DEF WaitsForLive
<1>3. CASE pc = "wait" /\ UNCHANGED <<pc, until, timers, waiter>> /\ now' \in Nat /\ now' >= now
  <2>1. \A e \in Entries : Live(e)' <=> Live(e)
    BY <1>3 DEF Live, InHeap
  <2>2. \A e \in Entries : Live(e) => until # -1 /\ (until <= timers[e].at \/ until <= now')
    BY <1>0, <1>3 DEF WaitsForLive
  <2>3. until # -1 => \/ \E e \in Entries : Live(e) /\ timers[e].at <= until
                      \/ waiter /\ \A e \in Entries : ~Live(e)
    BY <1>0, <1>3 DEF WaitsForLive
  <2>4. QED
    BY <1>3, <2>1, <2>2, <2>3 DEF WaitsForLive
<1>4. CASE TickWaits
  <2>0. UNCHANGED <<timers, waiter, now>> /\ \A e \in Entries : Live(e)' <=> Live(e)
    BY <1>4 DEF TickWaits, Live, InHeap
  <2>1. CASE HeapEmpty /\ until' = IF waiter THEN now + MaxBlock ELSE -1
    <3>1. \A e \in Entries : ~Live(e)
      BY <2>1 DEF HeapEmpty, Live
    <3>2. QED
      BY <2>0, <2>1, <3>1 DEF WaitsForLive
  <2>2. ASSUME NEW e \in Entries, Peek(e), Live(e), until' = Later(timers[e].at, now)
        PROVE  WaitsForLive'
    <3>1. timers[e].at \in Nat /\ until' \in Nat /\ timers[e].at <= until'
          /\ (until' = timers[e].at \/ until' = now)
      BY <1>0, <2>2 DEF Later
    <3>2. ASSUME NEW d \in Entries, Live(d)
          PROVE  until' <= timers[d].at \/ until' <= now
      <4>1. timers[e].at <= timers[d].at /\ timers[d].at \in Nat
        BY <1>0, <2>2, <3>2 DEF Peek, Live
      <4>2. QED
        BY <1>0, <3>1, <4>1
    <3>3. QED
      BY <2>0, <2>2, <3>1, <3>2 DEF WaitsForLive
  <2>3. QED
    BY <1>4, <2>1, <2>2 DEF TickWaits
<1>5. QED
    BY <1>1, <1>2, <1>3, <1>4

(* Only wakeable() and close() change whether the pipe is watched.           *)
LEMMA PipeKept ==
  ASSUME TypeOK, Dispatching, PipeWatched, [Next]_vars
  PROVE  PipeWatched'
<1> USE DEF objVars, loopVars
<1>0. /\ slots \in [AllFd -> [serial : Nat, events : SUBSET Events]] /\ made \in Nat
      /\ WakeFd \in AllFd /\ WakeFd \notin Fd
    BY ReactorAssumption DEF TypeOK, AllFd
<1>1. CASE slots'[WakeFd] = slots[WakeFd] /\ wakeable' = wakeable
    BY <1>1 DEF PipeWatched, Watched
<1>2. CASE UNCHANGED vars
    BY <1>1, <1>2 DEF vars
<1>3. ASSUME NEW f \in Fd, NEW ev, Watch(f, ev) \/ SetEvents(f, ev) \/ Unwatch(f)
      PROVE  PipeWatched'
  <2>1. f \in AllFd /\ f # WakeFd
    BY <1>0 DEF AllFd
  <2>2. QED
    BY <1>0, <1>1, <1>3, <2>1 DEF Watch, AddWatch, SetEvents, Unwatch, Unwatched
<1>4. CASE Wakeable
    BY <1>0, <1>4 DEF Wakeable, AddWatch, PipeWatched, Watched, NoWatch
<1>5. CASE Close
    BY <1>0, <1>5 DEF Close, Unwatched, PipeWatched, Watched
<1>6. CASE Route \/ SetWaiter \/ Run \/ Stop
    BY <1>1, <1>6 DEF Route, SetWaiter, Run, Stop
<1>7. ASSUME NEW e, NEW ms, NEW iv, AddTimer(e, ms, iv) \/ Cancel(e)
      PROVE  PipeWatched'
    BY <1>1, <1>7 DEF AddTimer, Cancel
<1>8. ASSUME NEW keep \in BOOLEAN, FdReturns(keep) PROVE PipeWatched'
  <2>1. ready[idx].fd \in AllFd
    BY <1>8, ServedEntry DEF FdReturns
  <2>2. CASE UNCHANGED slots
    BY <1>1, <1>8, <2>2 DEF FdReturns
  <2>3. CASE ready[idx].fd # WakeFd /\ Unwatched(ready[idx].fd)
    BY <1>0, <1>1, <1>8, <2>1, <2>3 DEF FdReturns, Unwatched
  <2>4. QED
    BY <1>8, <2>2, <2>3 DEF FdReturns
<1>9. CASE TimerReturns
    BY <1>1, <1>9 DEF TimerReturns
<1>10. CASE Step
    BY <1>1, <1>10 DEF Step, TickEnds, TickGoesOn, TickWaits, TimersDone, SkipFd, CallFd,
                       TickDone, PopStale, PopCancelled, Fire
<1>11. CASE WaitReturns \/ Interrupted \/ WaitFails
    BY <1>1, <1>11 DEF WaitReturns, Interrupted, WaitFails, BeginTimers
<1>12. CASE World
    BY <1>1, <1>12 DEF World, ClockTick, Arrive, Consume
<1>13. QED
  <2>1. CASE Calls
    BY <2>1, <1>3, <1>4, <1>5, <1>6, <1>7 DEF Calls
  <2>2. CASE Return
    BY <2>2, <1>8, <1>9 DEF Return
  <2>3. QED
    BY <1>2, <1>10, <1>11, <1>12, <2>1, <2>2 DEF Next

(* The table stays typed.                                                    *)
LEMMA TableKept ==
  ASSUME TypeOK, TableStep
  PROVE  slots' \in [AllFd -> [serial : Nat, events : SUBSET Events]]
<1>0. slots \in [AllFd -> [serial : Nat, events : SUBSET Events]] /\ made \in Nat
    BY DEF TypeOK
<1>1. ASSUME NEW f \in AllFd, NEW ev \in EventSets, AddWatch(f, ev) \/ SetWatch(f, ev)
      PROVE  slots' \in [AllFd -> [serial : Nat, events : SUBSET Events]]
    BY <1>0, <1>1 DEF AddWatch, SetWatch, EventSets
<1>2. ASSUME NEW f \in AllFd, Unwatched(f)
      PROVE  slots' \in [AllFd -> [serial : Nat, events : SUBSET Events]]
    BY <1>0, <1>2 DEF Unwatched, NoWatch
<1>3. QED
    BY <1>0, <1>1, <1>2 DEF TableStep

(* Every step keeps the invariant.                                           *)
LEMMA NextIInv == IInv /\ [Next]_vars => IInv'
<1> SUFFICES ASSUME IInv, [Next]_vars PROVE IInv'
    OBVIOUS
<1>0. TypeOK /\ Dispatching /\ Timely /\ nwatch = Cardinality(WatchedFds) /\ ntimers = Cardinality(LiveTimers)
    BY DEF IInv, CountsExact, WatchedFds, LiveTimers
<1>1. TableStep /\ HeapStep
    BY <1>0, TableSteps, HeapSteps
<1>2. nwatch' = Cardinality(WatchedFds') /\ ntimers' = Cardinality(LiveTimers')
    BY <1>0, <1>1, WatchesCounted, TimersCounted
<1>3. CountsExact'
    BY <1>2 DEF CountsExact, WatchedFds, LiveTimers
<1>4. nwatch' \in Nat /\ ntimers' \in Nat
  <2>1. WatchedFds' \in SUBSET AllFd /\ LiveTimers' \in SUBSET Entries
    BY DEF WatchedFds, LiveTimers
  <2>2. QED
    BY <1>2, <2>1, FiniteTables
<1>5. LoopOK' /\ Dispatching'
    BY <1>0, LoopKept
<1>6. FlagsOK'
  <2>1. FlagsOK
    BY <1>0 DEF TypeOK, FlagsOK
  <2>2. QED
    BY <2>1, FlagsKept
<1>7. slots' \in [AllFd -> [serial : Nat, events : SUBSET Events]]
    BY <1>0, <1>1, TableKept
<1>8. /\ timers' \in [Entries -> [at : Nat, every : Nat \cup {-1}, cancelled : BOOLEAN]]
      /\ lastAt' \in Nat /\ Timely'
  <2>1. now' \in Nat /\ t0' \in Nat
    BY <1>5 DEF LoopOK
  <2>2. QED
    BY <1>1, <2>1, HeapKeeps
<1>9. TypeOK'
    BY <1>4, <1>5, <1>6, <1>7, <1>8 DEF TypeOK, LoopOK, FlagsOK, Pcs, ReadyEntry
<1>10. PipeWatched'
    BY <1>0, PipeKept DEF IInv
<1>11. QED
    BY <1>3, <1>5, <1>8, <1>9, <1>10, WaitKept DEF IInv

-----------------------------------------------------------------------------
(* The invariant holds in every state of the reactor.                        *)
LEMMA ReactorInvariant == Spec => []IInv
<1>1. Init => IInv
    BY InitIInv
<1>2. IInv /\ [Next]_vars => IInv'
    BY NextIInv
<1>3. QED
    BY <1>1, <1>2, PTL DEF Spec

(* The Reactor object and its loop are well typed, whatever callbacks do.    *)
THEOREM ReactorTypeCorrect == Spec => []TypeOK
<1>1. IInv => TypeOK
    BY DEF IInv
<1>2. QED
    BY <1>1, ReactorInvariant, PTL

(* nwatch and ntimers, on which tick() decides that nothing is left to wait  *)
(* for, are exact through every unwatch(), cancel(), retirement and close(). *)
THEOREM ReactorCountsExact == Spec => []CountsExact
<1>1. IInv => CountsExact
    BY DEF IInv
<1>2. QED
    BY <1>1, ReactorInvariant, PTL

(* next_timeout() looks through any number of cancelled entries: the wait it *)
(* bounds ends by the first live deadline, and not for a cancelled timer.    *)
THEOREM ReactorWaitsForLive == Spec => []WaitsForLive
<1>1. IInv => WaitsForLive
    BY DEF IInv
<1>2. QED
    BY <1>1, ReactorInvariant, PTL

(* work_count() takes the pipe out of nwatch, and puts it back for a routed  *)
(* signal: when it says nothing is left, no descriptor of the program's is   *)
(* watched, no timer is live, and nothing is routed through the pipe.        *)
LEMMA NoWorkLeft ==
  ASSUME IInv, WorkCount = 0, ntimers = 0, ~waiter
  PROVE  ~HasWork
<1>0. /\ nwatch = Cardinality(WatchedFds) /\ ntimers = Cardinality(LiveTimers)
      /\ nwatch \in Nat /\ IsFiniteSet(WatchedFds) /\ IsFiniteSet(LiveTimers)
      /\ (wakeable <=> Watched(WakeFd)) /\ WakeFd \notin Fd
      /\ wakeable \in BOOLEAN /\ routed \in BOOLEAN
  <2>1. WatchedFds \in SUBSET AllFd /\ LiveTimers \in SUBSET Entries
    BY DEF WatchedFds, LiveTimers
  <2>2. QED
    BY <2>1, FiniteTables, ReactorAssumption
    DEF IInv, CountsExact, TypeOK, PipeWatched, WatchedFds, LiveTimers
<1>1. LiveTimers = {}
    BY <1>0, FS_EmptySet
<1>2. CASE wakeable /\ ~routed
  <2>1. nwatch = 1 /\ WakeFd \in WatchedFds
    BY <1>0, <1>2 DEF WorkCount, WatchedFds, AllFd
  <2>2. WatchedFds = {WakeFd}
    <3>1. IsFiniteSet(WatchedFds \ {WakeFd})
      BY <1>0, FS_RemoveElement
    <3>4. Cardinality(WatchedFds \ {WakeFd}) = Cardinality(WatchedFds) - 1
      BY <1>0, <2>1, FS_RemoveElement
    <3>2. WatchedFds \ {WakeFd} = {}
      BY <1>0, <2>1, <3>1, <3>4, FS_EmptySet
    <3>3. QED
      BY <2>1, <3>2
  <2>3. QED
    BY <1>0, <1>1, <1>2, <2>2 DEF HasWork, WatchedFds, LiveTimers, AllFd
<1>3. CASE ~(wakeable /\ ~routed)
  <2>1. nwatch = 0
    BY <1>0, <1>3 DEF WorkCount
  <2>2. WatchedFds = {}
    BY <1>0, <2>1, FS_EmptySet
  <2>3. ~wakeable
    BY <1>0, <2>2 DEF WatchedFds, AllFd
  <2>4. QED
    BY <1>1, <2>2, <2>3 DEF HasWork, WatchedFds, LiveTimers, AllFd
<1>4. QED
    BY <1>2, <1>3

(* A loop that a descriptor, a live timer, a routed signal or the foreign    *)
(* wait can still wake is not ended by tick().                               *)
THEOREM ReactorStaysWithWork == Spec => StaysWithWork
<1>1. IInv /\ [Next]_vars => (pc = "tick" /\ running /\ pc' = "out" => ~HasWork)
  <2> SUFFICES ASSUME IInv, [Next]_vars, pc = "tick", running, pc' = "out"
               PROVE  ~HasWork
    OBVIOUS
  <2>1. TickEnds
    BY DEF Next, Calls, Return, Step, World, vars, objVars, loopVars, UserCode, Unwatch, Watch,
           SetEvents, Wakeable, Route, Close, SetWaiter, AddTimer, Cancel, Run, Stop,
           TimerReturns, FdReturns, TickEnds, TickGoesOn, TickWaits, TimersDone, SkipFd, CallFd,
           TickDone, PopStale, PopCancelled, Fire, Leave, WaitReturns, Interrupted, WaitFails,
           BeginTimers, ClockTick, Arrive, Consume
  <2>2. QED
    BY <2>1, NoWorkLeft DEF TickEnds
<1>2. QED
    BY <1>1, ReactorInvariant, PTL DEF Spec, StaysWithWork

(* fire_timers goes by deadline, across ticks, repeaters that are put back   *)
(* and timers that callbacks add.                                            *)
THEOREM ReactorFiresInOrder == Spec => FiresInOrder
<1>1. IInv /\ [Next]_vars => (pc = "timers" /\ pc' = "tcb" => lastAt <= lastAt')
  <2> SUFFICES ASSUME IInv, [Next]_vars, pc = "timers", pc' = "tcb"
               PROVE  lastAt <= lastAt'
    OBVIOUS
  <2>1. PICK e \in Entries : Fire(e)
    BY DEF Next, Calls, Return, Step, World, vars, objVars, loopVars, UserCode, Unwatch, Watch,
           SetEvents, Wakeable, Route, Close, SetWaiter, AddTimer, Cancel, Run, Stop,
           TimerReturns, FdReturns, TickEnds, TickGoesOn, TickWaits, TimersDone, SkipFd, CallFd,
           TickDone, PopStale, PopCancelled, Leave, WaitReturns, Interrupted, WaitFails,
           ClockTick, Arrive, Consume
  <2>2. lastAt' = timers[e].at /\ InHeap(e)
    BY <2>1 DEF Fire, Peek
  <2>3. QED
    BY <2>2 DEF IInv, Timely
<1>2. QED
    BY <1>1, ReactorInvariant, PTL DEF Spec, FiresInOrder
=============================================================================
