------------------------------ MODULE Reactor ------------------------------
(***************************************************************************)
(* vyto/os/reactor: one poll loop over descriptors and timers, with        *)
(* callbacks that run to completion on the loop's own stack and may call   *)
(* any method of the reactor. The self-pipe is one more watched descriptor *)
(* here; what travels through it is modelled in WakePipe.                  *)
(*                                                                         *)
(* A watch has an identity (the Watch object), an armed set of events, and *)
(* the kernel reports, level triggered, the armed events that are present, *)
(* and an error or a hang-up whatever is armed.                            *)
(* A timer is named by the heap entry it occupies; the program's ids never *)
(* repeat, so a cancel() of one that already fired is a step that changes  *)
(* nothing.                                                                *)
(***************************************************************************)
EXTENDS Integers, Sequences, FiniteSets, SequencesExt

CONSTANTS
    Fd,           \* descriptors the program watches
    WakeFd,       \* the read end of the self-pipe
    Events,       \* poll events in use: "r", "w" and "e" (VP_ERR)
    UsesPipe,     \* the program calls wakeable()
    UsesWaiter,   \* the program calls set_waiter()
    Entries,      \* bound: timers in the heap at once
    Delays,       \* arguments of after()
    Periods,      \* arguments of every(), at least 1
    Slack,        \* fire_timers: the 8 of its budget
    MaxBlock,     \* WAITER_MAX_BLOCK_MS
    MaxNow,       \* bound: the clock
    MaxWatches    \* bound: watch() calls that succeed

ASSUME ReactorAssumption ==
    /\ WakeFd \notin Fd
    /\ IsFiniteSet(Fd) /\ IsFiniteSet(Entries)
    /\ "r" \in Events
    /\ {UsesPipe, UsesWaiter} \subseteq BOOLEAN
    /\ Delays \subseteq Int
    /\ Periods \subseteq Nat \ {0}
    /\ Slack \in Nat
    /\ MaxBlock \in Nat
    /\ MaxNow \in Nat
    /\ MaxWatches \in Nat

AllFd == Fd \cup {WakeFd}

\* What a program arms: POLL_READ, POLL_WRITE or both.
EventSets == {ev \in SUBSET (Events \ {"e"}) : ev # {}}
NoWatch == [serial |-> 0, events |-> {}]
NoTimer == [at |-> 0, every |-> -1, cancelled |-> FALSE]

VARIABLES
    \* The Reactor object.
    slots,     \* the Watch of a descriptor, NoWatch for null
    nwatch,
    timers,    \* heap entries, NoTimer where free
    ntimers,
    running,
    wakeable,  \* wake_r >= 0
    routed,    \* a signal or an onWake handler goes through the pipe
    waiter,    \* a foreign wait is installed
    \* The loop.
    pc,        \* "out", "tick", "timeout", "wait", "timers", "tcb", "fds", "fcb"
    until,     \* when the wait times out, -1 never
    ready,     \* the ready list: descriptor, events, and (history) the serial
               \* of the watch that was registered at the wait
    idx,       \* the entry of ready being dispatched
    keeper,    \* the serial of the watch whose callback runs
    t0,        \* fire_timers: the time it started at
    budget,    \* fire_timers: entries it may still look at
    \* The kernel, the clock, history.
    present,   \* events present on a descriptor
    now,
    made,      \* watch() calls that succeeded
    lastAt     \* the deadline of the timer fired last

objVars  == <<slots, nwatch, timers, ntimers, running, wakeable, routed, waiter>>
loopVars == <<pc, until, ready, idx, keeper, t0, budget>>
vars == <<objVars, loopVars, present, now, made, lastAt>>

Watched(f) == slots[f] # NoWatch
InHeap(e) == timers[e] # NoTimer
Live(e) == InHeap(e) /\ ~timers[e].cancelled
Later(a, b) == IF a > b THEN a ELSE b

\* heap.peek(): an entry with the least deadline.
Peek(e) == InHeap(e) /\ \A d \in Entries : InHeap(d) => timers[e].at <= timers[d].at
HeapEmpty == \A e \in Entries : ~InHeap(e)

\* The program's code runs, in a callback or outside the loop.
UserCode == pc \in {"out", "tcb", "fcb"}

\* Wrong on purpose: the pipe is work like any other descriptor.
WorkCount_Pipe == nwatch

\* Wrong on purpose: the pipe is never work.
WorkCount_NoPipe == nwatch - (IF wakeable THEN 1 ELSE 0)

\* work_count(): watched descriptors, the pipe only when something is routed.
WorkCount == nwatch - (IF wakeable /\ ~routed THEN 1 ELSE 0)

-----------------------------------------------------------------------------
Init ==
    /\ slots = [f \in AllFd |-> NoWatch]
    /\ nwatch = 0
    /\ timers = [e \in Entries |-> NoTimer]
    /\ ntimers = 0
    /\ running = FALSE
    /\ wakeable = FALSE
    /\ routed = FALSE
    /\ waiter = FALSE
    /\ pc = "out"
    /\ until = -1
    /\ ready = <<>>
    /\ idx = 1
    /\ keeper = 0
    /\ t0 = 0
    /\ budget = 0
    /\ present = [f \in AllFd |-> {}]
    /\ now = 0
    /\ made = 0
    /\ lastAt = 0

-----------------------------------------------------------------------------
(* Descriptors.                                                              *)

\* epoll_ctl(ADD) and a new Watch in the slot.
AddWatch(f, ev) ==
    /\ ~Watched(f)
    /\ made < MaxWatches
    /\ made' = made + 1
    /\ slots' = [slots EXCEPT ![f] = [serial |-> made + 1, events |-> ev]]
    /\ nwatch' = nwatch + 1

\* watch(f, ev, cb). On a descriptor that is already registered the ADD fails
\* and nothing changes.
Watch(f, ev) ==
    /\ UserCode
    /\ AddWatch(f, ev)
    /\ UNCHANGED <<timers, ntimers, running, wakeable, routed, waiter, loopVars,
                   present, now, lastAt>>

\* unwatch(f), its effect on the table; nothing for one that is not watched.
Unwatched(f) ==
    /\ slots' = [slots EXCEPT ![f] = NoWatch]
    /\ nwatch' = IF Watched(f) THEN nwatch - 1 ELSE nwatch

Unwatch(f) ==
    /\ UserCode
    /\ Unwatched(f)
    /\ UNCHANGED <<timers, ntimers, running, wakeable, routed, waiter, loopVars,
                   present, now, made, lastAt>>

\* arm_write(f) and disarm_write(f).
SetEvents(f, ev) ==
    /\ UserCode
    /\ Watched(f)
    /\ slots' = [slots EXCEPT ![f].events = ev]
    /\ UNCHANGED <<nwatch, timers, ntimers, running, wakeable, routed, waiter, loopVars,
                   present, now, made, lastAt>>

\* wakeable(): the pipe's read end is watched for reading.
Wakeable ==
    /\ UserCode
    /\ UsesPipe /\ ~wakeable
    /\ AddWatch(WakeFd, {"r"})
    /\ wakeable' = TRUE
    /\ UNCHANGED <<timers, ntimers, running, routed, waiter, loopVars, present, now, lastAt>>

\* onSignal() and onWake(): from now on the pipe carries something. onWake does
\* not ask for the pipe.
Route ==
    /\ UserCode
    /\ UsesPipe
    /\ routed' = TRUE
    /\ UNCHANGED <<slots, nwatch, timers, ntimers, running, wakeable, waiter, loopVars,
                   present, now, made, lastAt>>

\* close().
Close ==
    /\ UserCode
    /\ wakeable
    /\ Unwatched(WakeFd)
    /\ wakeable' = FALSE
    /\ UNCHANGED <<timers, ntimers, running, routed, waiter, loopVars, present, now, made, lastAt>>

SetWaiter ==
    /\ UserCode
    /\ UsesWaiter /\ ~waiter
    /\ waiter' = TRUE
    /\ UNCHANGED <<slots, nwatch, timers, ntimers, running, wakeable, routed, loopVars,
                   present, now, made, lastAt>>

-----------------------------------------------------------------------------
(* Timers.                                                                   *)

\* Wrong on purpose: a negative delay is kept.
AddTimer_Negative(e, ms, iv) ==
    /\ UserCode
    /\ ~InHeap(e)
    /\ timers' = [timers EXCEPT ![e] = [at |-> now + ms, every |-> iv, cancelled |-> FALSE]]
    /\ ntimers' = ntimers + 1
    /\ UNCHANGED <<slots, nwatch, running, wakeable, routed, waiter, loopVars,
                   present, now, made, lastAt>>

\* after(ms, cb) is add_timer(ms, 0), every(ms, cb) is add_timer(ms, ms).
AddTimer(e, ms, iv) ==
    /\ UserCode
    /\ ~InHeap(e)
    /\ timers' = [timers EXCEPT ![e] =
                    [at |-> now + Later(ms, 0), every |-> iv, cancelled |-> FALSE]]
    /\ ntimers' = ntimers + 1
    /\ UNCHANGED <<slots, nwatch, running, wakeable, routed, waiter, loopVars,
                   present, now, made, lastAt>>

\* Wrong on purpose: a timer that is cancelled twice is counted out twice.
Cancel_Twice(e) ==
    /\ UserCode
    /\ InHeap(e)
    /\ timers' = [timers EXCEPT ![e].cancelled = TRUE]
    /\ ntimers' = ntimers - 1
    /\ UNCHANGED <<slots, nwatch, running, wakeable, routed, waiter, loopVars,
                   present, now, made, lastAt>>

\* cancel(id): the flag; the entry stays in the heap.
Cancel(e) ==
    /\ UserCode
    /\ Live(e)
    /\ timers' = [timers EXCEPT ![e].cancelled = TRUE]
    /\ ntimers' = ntimers - 1
    /\ UNCHANGED <<slots, nwatch, running, wakeable, routed, waiter, loopVars,
                   present, now, made, lastAt>>

-----------------------------------------------------------------------------
(* The loop.                                                                 *)

\* run().
Run ==
    /\ pc = "out"
    /\ running' = TRUE
    /\ pc' = "tick"
    /\ UNCHANGED <<slots, nwatch, timers, ntimers, wakeable, routed, waiter, until, ready,
                   idx, keeper, t0, budget, present, now, made, lastAt>>

\* stop(), from a callback.
Stop ==
    /\ pc \in {"tcb", "fcb"}
    /\ running' = FALSE
    /\ UNCHANGED <<slots, nwatch, timers, ntimers, wakeable, routed, waiter, loopVars,
                   present, now, made, lastAt>>

\* tick() has returned false: run() returns. (Here and below, a variable of the
\* loop that is set again before it is read is reset where it dies.)
Leave ==
    /\ pc' = "out"
    /\ running' = FALSE
    /\ until' = -1 /\ ready' = <<>> /\ idx' = 1

\* The head of tick(): nothing watched and nothing scheduled ends the loop.
TickEnds ==
    /\ pc = "tick"
    /\ ~running \/ (WorkCount = 0 /\ ntimers = 0 /\ ~waiter)
    /\ Leave
    /\ UNCHANGED <<slots, nwatch, timers, ntimers, wakeable, routed, waiter,
                   keeper, t0, budget, present, now, made, lastAt>>

\* The rest of tick()'s head: there is something to wait for.
TickGoesOn ==
    /\ pc = "tick"
    /\ running
    /\ WorkCount # 0 \/ ntimers # 0 \/ waiter
    /\ pc' = "timeout"
    /\ UNCHANGED <<objVars, until, ready, idx, keeper, t0, budget, present, now, made, lastAt>>

\* Wrong on purpose: next_timeout() returns once it has popped an entry.
PopStale_Returns(e) ==
    /\ pc = "timeout"
    /\ Peek(e) /\ timers[e].cancelled
    /\ timers' = [timers EXCEPT ![e] = NoTimer]
    /\ pc' = "wait"
    /\ UNCHANGED <<slots, nwatch, ntimers, running, wakeable, routed, waiter, until, ready,
                   idx, keeper, t0, budget, present, now, made, lastAt>>

\* next_timeout() pops a cancelled entry at the top of the heap and looks again.
PopStale(e) ==
    /\ pc = "timeout"
    /\ Peek(e) /\ timers[e].cancelled
    /\ timers' = [timers EXCEPT ![e] = NoTimer]
    /\ UNCHANGED <<slots, nwatch, ntimers, running, wakeable, routed, waiter, loopVars,
                   present, now, made, lastAt>>

\* Wrong on purpose: the wait is not bounded by the timers.
TickWaits_Never ==
    /\ pc = "timeout"
    /\ HeapEmpty \/ \E e \in Entries : Peek(e) /\ Live(e)
    /\ pc' = "wait"
    /\ UNCHANGED <<objVars, until, ready, idx, keeper, t0, budget, present, now, made, lastAt>>

\* next_timeout() returns and the wait begins: until the deadline at the top of
\* the heap, but not before now. With an empty heap it has no end, unless it is a
\* foreign one.
TickWaits ==
    /\ pc = "timeout"
    /\ \/ HeapEmpty /\ until' = IF waiter THEN now + MaxBlock ELSE -1
       \/ \E e \in Entries : Peek(e) /\ Live(e) /\ until' = Later(timers[e].at, now)
    /\ pc' = "wait"
    /\ UNCHANGED <<objVars, ready, idx, keeper, t0, budget, present, now, made, lastAt>>

\* What epoll_wait reports of f, and the list in any order.
Reported(f) == IF Watched(f) THEN (slots[f].events \cup {"e"}) \cap present[f] ELSE {}
ReadySet == {f \in AllFd : Reported(f) # {}}
ReadyLists ==
    {[i \in DOMAIN s |-> [fd |-> s[i], events |-> Reported(s[i]), serial |-> slots[s[i]].serial]] :
        s \in SetToSeqs(ReadySet)}

\* The wait is over; fire_timers begins.
BeginTimers ==
    /\ t0' = now
    /\ budget' = Cardinality({e \in Entries : InHeap(e)}) + Slack
    /\ pc' = "timers"
    /\ until' = -1
    /\ UNCHANGED <<objVars, idx, keeper, present, now, made, lastAt>>

\* The wait returns with ready descriptors or at its deadline. A foreign wait
\* returns when it likes, and the descriptors are then polled without blocking.
WaitReturns ==
    /\ pc = "wait"
    /\ ReadySet # {} \/ waiter \/ (until # -1 /\ now >= until)
    /\ ready' \in ReadyLists
    /\ BeginTimers

\* EINTR, which epoll_wait gives only when nothing is ready: reported as no
\* ready descriptor.
Interrupted ==
    /\ pc = "wait" /\ ~waiter
    /\ ReadySet = {}
    /\ ready' = <<>>
    /\ BeginTimers

\* epoll_wait fails: tick() returns false.
WaitFails ==
    /\ pc = "wait"
    /\ Leave
    /\ UNCHANGED <<slots, nwatch, timers, ntimers, wakeable, routed, waiter,
                   keeper, t0, budget, present, now, made, lastAt>>

-----------------------------------------------------------------------------
(* fire_timers.                                                              *)

\* It looks at no further entry. After it, a stop() ends the tick at once.
TimersDone ==
    /\ pc = "timers"
    /\ budget = 0 \/ HeapEmpty \/ \E e \in Entries : Peek(e) /\ Live(e) /\ timers[e].at > t0
    /\ \/ running /\ pc' = "fds" /\ UNCHANGED <<running, until, ready, idx>>
       \/ ~running /\ Leave
    /\ t0' = 0 /\ budget' = 0
    /\ UNCHANGED <<slots, nwatch, timers, ntimers, wakeable, routed, waiter,
                   keeper, present, now, made, lastAt>>

\* A cancelled entry at the top is popped.
PopCancelled(e) ==
    /\ pc = "timers"
    /\ budget > 0
    /\ Peek(e) /\ timers[e].cancelled
    /\ budget' = budget - 1
    /\ timers' = [timers EXCEPT ![e] = NoTimer]
    /\ UNCHANGED <<slots, nwatch, ntimers, running, wakeable, routed, waiter, pc, until,
                   ready, idx, keeper, t0, present, now, made, lastAt>>

\* Wrong on purpose: the budget is not spent.
Fire_NoBudget(e) ==
    /\ pc = "timers"
    /\ budget > 0
    /\ Peek(e) /\ Live(e) /\ timers[e].at <= t0
    /\ UNCHANGED budget
    /\ \/ /\ timers[e].every > 0
          /\ timers' = [timers EXCEPT ![e].at = Later(@ + timers[e].every, now)]
          /\ UNCHANGED ntimers
       \/ /\ timers[e].every = 0
          /\ timers' = [timers EXCEPT ![e] = NoTimer]
          /\ ntimers' = ntimers - 1
    /\ lastAt' = timers[e].at
    /\ pc' = "tcb"
    /\ UNCHANGED <<slots, nwatch, running, wakeable, routed, waiter, until, ready,
                   idx, keeper, t0, present, now, made>>

\* A due timer: a repeater goes back into the heap, then the callback runs.
Fire(e) ==
    /\ pc = "timers"
    /\ budget > 0
    /\ Peek(e) /\ Live(e) /\ timers[e].at <= t0
    /\ budget' = budget - 1
    /\ \/ /\ timers[e].every > 0
          /\ timers' = [timers EXCEPT ![e].at = Later(@ + timers[e].every, now)]
          /\ UNCHANGED ntimers
       \/ /\ timers[e].every = 0
          /\ timers' = [timers EXCEPT ![e] = NoTimer]
          /\ ntimers' = ntimers - 1
    /\ lastAt' = timers[e].at
    /\ pc' = "tcb"
    /\ UNCHANGED <<slots, nwatch, running, wakeable, routed, waiter, until, ready,
                   idx, keeper, t0, present, now, made>>

TimerReturns ==
    /\ pc = "tcb"
    /\ pc' = "timers"
    /\ UNCHANGED <<objVars, until, ready, idx, keeper, t0, budget, present, now, made, lastAt>>

-----------------------------------------------------------------------------
(* Dispatch of the ready list.                                               *)

\* An entry whose descriptor was unwatched by an earlier callback is skipped.
SkipFd ==
    /\ pc = "fds"
    /\ idx <= Len(ready)
    /\ ~Watched(ready[idx].fd)
    /\ idx' = idx + 1
    /\ UNCHANGED <<objVars, pc, until, ready, keeper, t0, budget, present, now, made, lastAt>>

\* w = slots[fd]; w.cb(fd, ev).
CallFd ==
    /\ pc = "fds"
    /\ idx <= Len(ready)
    /\ Watched(ready[idx].fd)
    /\ keeper' = slots[ready[idx].fd].serial
    /\ pc' = "fcb"
    /\ UNCHANGED <<objVars, until, ready, idx, t0, budget, present, now, made, lastAt>>

\* A callback that returned false is retired if its own watch is still there.
Retires(f) == slots[f].serial = keeper

\* The callback returns, asking to be kept or not. The pipe's always stays.
FdReturns(keep) ==
    /\ pc = "fcb"
    /\ LET f == ready[idx].fd IN
         /\ f = WakeFd => keep
         /\ \/ ~keep /\ Watched(f) /\ Retires(f) /\ Unwatched(f)
            \/ (keep \/ ~(Watched(f) /\ Retires(f))) /\ UNCHANGED <<slots, nwatch>>
    /\ idx' = idx + 1
    /\ pc' = "fds"
    /\ keeper' = 0
    /\ UNCHANGED <<timers, ntimers, running, wakeable, routed, waiter, until, ready,
                   t0, budget, present, now, made, lastAt>>

\* The end of tick().
TickDone ==
    /\ pc = "fds"
    /\ idx > Len(ready)
    /\ \/ /\ running /\ pc' = "tick"
          /\ ready' = <<>> /\ idx' = 1
          /\ UNCHANGED <<running, until>>
       \/ ~running /\ Leave
    /\ UNCHANGED <<slots, nwatch, timers, ntimers, wakeable, routed, waiter,
                   keeper, t0, budget, present, now, made, lastAt>>

-----------------------------------------------------------------------------
(* The world.                                                                *)

\* Bytes arrive, room appears, or a callback consumes what is there.
Arrive(f, ev) ==
    /\ ev \notin present[f]
    /\ f = WakeFd => ev = "r" /\ wakeable
    /\ present' = [present EXCEPT ![f] = @ \cup {ev}]
    /\ UNCHANGED <<objVars, loopVars, now, made, lastAt>>

Consume(f, ev) ==
    /\ UserCode
    /\ ev \in present[f]
    /\ present' = [present EXCEPT ![f] = @ \ {ev}]
    /\ UNCHANGED <<objVars, loopVars, now, made, lastAt>>

ClockTick ==
    /\ now < MaxNow
    /\ now' = now + 1
    /\ UNCHANGED <<objVars, loopVars, present, made, lastAt>>

-----------------------------------------------------------------------------
Calls ==
    \/ \E f \in Fd : Unwatch(f)
    \/ \E f \in Fd, ev \in EventSets : Watch(f, ev) \/ SetEvents(f, ev)
    \/ Wakeable \/ Route \/ Close \/ SetWaiter
    \/ \E e \in Entries : \E ms \in Delays : AddTimer(e, ms, 0)
    \/ \E e \in Entries : \E ms \in Periods : AddTimer(e, ms, ms)
    \/ \E e \in Entries : Cancel(e)
    \/ Run \/ Stop

Return == TimerReturns \/ \E keep \in BOOLEAN : FdReturns(keep)

\* What the loop does by itself, apart from the wait.
Step ==
    \/ TickEnds \/ TickGoesOn \/ TickWaits \/ TimersDone \/ SkipFd \/ CallFd \/ TickDone
    \/ \E e \in Entries : PopStale(e) \/ PopCancelled(e) \/ Fire(e)

World ==
    \/ ClockTick
    \/ \E f \in AllFd, ev \in Events : Arrive(f, ev) \/ Consume(f, ev)

Next == Calls \/ Return \/ Step \/ WaitReturns \/ Interrupted \/ WaitFails \/ World

Spec == Init /\ [][Next]_vars

\* The loop is scheduled and callbacks return; time need not pass.
FairSpec == Spec /\ WF_vars(Step) /\ WF_vars(Return)

\* A wait that can return does, and time passes.
TimePasses == WF_vars(WaitReturns) /\ WF_vars(ClockTick)

-----------------------------------------------------------------------------
(* Properties.                                                               *)
\* The type invariant of the Reactor object and its loop.
TypeOK ==
    /\ slots \in [AllFd -> [serial : Nat, events : SUBSET Events]]
    /\ nwatch \in Nat
    /\ timers \in [Entries -> [at : Nat, every : Nat \cup {-1}, cancelled : BOOLEAN]]
    /\ ntimers \in Nat
    /\ {running, wakeable, routed, waiter} \subseteq BOOLEAN
    /\ pc \in {"out", "tick", "timeout", "wait", "timers", "tcb", "fds", "fcb"}
    /\ until \in Nat \cup {-1}
    /\ ready \in Seq([fd : AllFd, events : SUBSET Events, serial : Nat])
    /\ idx \in Nat \ {0}
    /\ {keeper, t0, budget, now, made, lastAt} \subseteq Nat
    /\ present \in [AllFd -> SUBSET Events]

\* nwatch and ntimers, which decide when the loop ends, count exactly the
\* watches and the live timers, through retirement, unwatch() and cancel() in
\* any callback.
CountsExact ==
    /\ nwatch = Cardinality({f \in AllFd : Watched(f)})
    /\ ntimers = Cardinality({e \in Entries : Live(e)})

\* The wait is for the live timers, whatever cancelled ones lie above them in the
\* heap: it never lasts past a live deadline, and it has no end of its own but
\* at the deadline of a timer that is still live. (A foreign wait is also
\* bounded when there is no timer.)
WaitsForLive ==
    pc = "wait" =>
        /\ \A e \in Entries :
             Live(e) => until # -1 /\ (until <= timers[e].at \/ until <= now)
        /\ until # -1 => \/ \E e \in Entries : Live(e) /\ timers[e].at <= until
                         \/ waiter /\ \A e \in Entries : ~Live(e)

\* Timers fire in the order of their deadlines, across ticks, repeats and
\* timers that callbacks add.
FiresInOrder ==
    [][pc = "timers" /\ pc' = "tcb" => lastAt <= lastAt']_vars

\* Somebody can still wake the loop: a descriptor, a live timer, a signal or
\* wake() handler behind the pipe, or the foreign wait.
HasWork ==
    \/ \E f \in Fd : Watched(f)
    \/ \E e \in Entries : Live(e)
    \/ wakeable /\ routed
    \/ waiter

\* tick() finds nothing left to wait for only when nothing is: a loop that has
\* work, or that only a signal or wake() can reach, goes on until stop().
StaysWithWork ==
    [][pc = "tick" /\ running /\ pc' = "out" => ~HasWork]_vars

\* A loop without work ends; the bare pipe does not keep it alive.
EndsWhenIdle == (pc # "out" /\ ~HasWork) ~> (pc = "out" \/ HasWork)

\* A live timer that is due fires, is cancelled, or the loop ends. (A repeater
\* that fired has a later deadline.)
Due(e) == Live(e) /\ timers[e].at <= now
TimersFire ==
    TimePasses => \A e \in Entries : Due(e) /\ pc # "out" ~> ~Due(e) \/ pc = "out"

\* A watched descriptor with an event to report is served, also when every timer
\* callback schedules another timer that is due at once, for ever: its callback
\* runs, the event goes away, or the loop ends.
Pending(f) == Watched(f) /\ Reported(f) # {} /\ pc # "out"
FdsServed ==
    TimePasses => \A f \in Fd :
        Pending(f) ~> ~Pending(f) \/ (pc = "fcb" /\ ready[idx].fd = f)
=============================================================================
