------------------------------ MODULE WakePipe ------------------------------
(***************************************************************************)
(* vyto/os/reactor, the part that breaks a reactor out of its wait: the    *)
(* self-pipe, the signal handler that writes to it, and the dispatch of    *)
(* signals on the loop's own stack (wake_shim.c, Reactor.wakeable, wake,   *)
(* onSignal, onWake, dispatch_signals, close).                             *)
(*                                                                         *)
(* The handler runs between any two steps of the loop. The target of its   *)
(* write and the delivery counts are globals of the process: every reactor *)
(* shares them.                                                            *)
(***************************************************************************)
EXTENDS Integers, Sequences, FiniteSets

CONSTANTS
    Reactors,      \* Reactor objects of the process
    Signals,       \* signal numbers below VWAKE_NSIG
    PipeCap,       \* bytes a pipe holds
    BufSize,       \* bytes one read of vwake_drain asks for
    CountMax,      \* where a delivery count saturates
    NoReactor,     \* g_wake_fd = -1
    MaxRoutes,     \* bound: onSignal calls on one reactor
    MaxArrivals,   \* bound: deliveries of one signal
    MaxWakes,      \* bound: wake() calls on one reactor
    MaxOpens       \* bound: pipes ever opened

ASSUME WakeAssumption ==
    /\ NoReactor \notin Reactors
    /\ PipeCap \in Nat \ {0}
    /\ BufSize \in Nat \ {0}
    /\ CountMax \in Nat \ {0}
    /\ MaxRoutes \in Nat
    /\ MaxArrivals \in Nat
    /\ MaxWakes \in Nat
    /\ MaxOpens \in Nat

VARIABLES
    \* Globals of wake_shim.c.
    target,     \* the reactor whose write end is in g_wake_fd, or NoReactor
    count,      \* g_sigcount
    installed,  \* signals whose handler is vwake_handler
    \* The pipe of each reactor.
    life,       \* "new", "open" (wake_r >= 0), "closing" (disarmed, the
                \* descriptors still open), "closed"
    pipe,       \* bytes in it
    \* Each Reactor object and its loop.
    sigs,       \* sig_nums: routed signals, in order of registration
    onWake,     \* on_wake is installed
    pc,         \* "wait", "drain", "read", "clear", "call", or inside a
                \* callback: "cb" (a signal's) or "tell" (on_wake)
    idx,        \* dispatch_signals: the entry being served
    hi,         \* dispatch_signals: the end of its range
    num,        \* dispatch_signals: the count it read, callbacks left to make
    any,        \* dispatch_signals: some count was positive
    stack,      \* reactors inside tick(), innermost last: a callback of one may
                \* tick() another
    \* History.
    arrived,    \* deliveries of a signal
    called,     \* signal callbacks run
    wakes,      \* wake() calls that wrote to the pipe, by reactor
    opens,      \* pipes opened so far
    since,      \* signals counted for the target, which routes them, since its
                \* pipe was opened, and not cleared since
    missed      \* deliveries that no count shows: past CountMax, or wiped by the
                \* clear that follows the read

shimVars == <<target, count, installed, life, pipe>>
loopVars == <<sigs, onWake, pc, idx, hi, num, any, stack>>
histVars == <<arrived, called, wakes, opens, since, missed>>
vars == <<shimVars, loopVars, histVars>>

Least(a, b) == IF a < b THEN a ELSE b

Top == stack[Len(stack)]
NoneClosing == \A r \in Reactors : life[r] # "closing"

\* The program's own code runs: outside every tick(), or inside a callback.
UserCode == NoneClosing /\ (stack # <<>> => pc[Top] \in {"cb", "tell"})

\* Control is inside r's tick().
In(r) == NoneClosing /\ stack # <<>> /\ Top = r

\* r's table has an entry for s.
Routes(r, s) == \E j \in DOMAIN sigs[r] : sigs[r][j] = s

\* A non-blocking one-byte write; a full pipe drops it.
WriteByte(r) == pipe' = [pipe EXCEPT ![r] = Least(@ + 1, PipeCap)]

-----------------------------------------------------------------------------
Init ==
    /\ target = NoReactor
    /\ count = [s \in Signals |-> 0]
    /\ installed = {}
    /\ life = [r \in Reactors |-> "new"]
    /\ pipe = [r \in Reactors |-> 0]
    /\ sigs = [r \in Reactors |-> <<>>]
    /\ onWake = [r \in Reactors |-> FALSE]
    /\ pc = [r \in Reactors |-> "wait"]
    /\ idx = [r \in Reactors |-> 1]
    /\ hi = [r \in Reactors |-> 0]
    /\ num = [r \in Reactors |-> 0]
    /\ any = [r \in Reactors |-> FALSE]
    /\ stack = <<>>
    /\ arrived = [s \in Signals |-> 0]
    /\ called = [s \in Signals |-> 0]
    /\ wakes = [r \in Reactors |-> 0]
    /\ opens = 0
    /\ since = {}
    /\ missed = [s \in Signals |-> 0]

-----------------------------------------------------------------------------
(* Calls on a reactor.                                                       *)

\* wakeable(), first or again after close(): open a pipe and point the handler
\* at it. The routed signals, their counts and their handlers are as they were.
Wakeable(r) ==
    /\ UserCode
    /\ life[r] \in {"new", "closed"}
    /\ opens < MaxOpens
    /\ opens' = opens + 1
    /\ life' = [life EXCEPT ![r] = "open"]
    /\ target' = r
    /\ since' = {}
    /\ UNCHANGED <<count, installed, pipe, loopVars, arrived, called, wakes, missed>>

\* wakeable() that cannot watch the new pipe and closes it again: the handler is
\* left without a target, whatever it was aimed at before.
WakeableFails(r) ==
    /\ UserCode
    /\ life[r] \in {"new", "closed"}
    /\ target' = NoReactor
    /\ UNCHANGED <<count, installed, life, pipe, loopVars, histVars>>

\* onSignal(s, cb): install the handler, then append to the table.
OnSignal(r, s) ==
    /\ UserCode
    /\ life[r] = "open"
    /\ Len(sigs[r]) < MaxRoutes
    /\ installed' = installed \cup {s}
    /\ sigs' = [sigs EXCEPT ![r] = Append(@, s)]
    /\ UNCHANGED <<target, count, life, pipe, onWake, pc, idx, hi, num, any, stack, histVars>>

\* onWake(cb).
OnWake(r) ==
    /\ UserCode
    /\ ~onWake[r]
    /\ onWake' = [onWake EXCEPT ![r] = TRUE]
    /\ UNCHANGED <<shimVars, sigs, pc, idx, hi, num, any, stack, histVars>>

\* wake(), from another thread or from the loop itself.
Wake(r) ==
    /\ life[r] = "open"
    /\ wakes[r] < MaxWakes
    /\ WriteByte(r)
    /\ wakes' = [wakes EXCEPT ![r] = @ + 1]
    /\ UNCHANGED <<target, count, installed, life, loopVars, arrived, called, opens, since, missed>>

\* Wrong on purpose: the descriptors are closed before the handler is disarmed.
CloseDisarm_Late(r) ==
    /\ UserCode
    /\ life[r] = "open"
    /\ life' = [life EXCEPT ![r] = "closing"]
    /\ UNCHANGED <<target, count, installed, pipe, loopVars, histVars>>

\* close(), first half: vwake_close disarms the handler if it is aimed here.
CloseDisarm(r) ==
    /\ UserCode
    /\ life[r] = "open"
    /\ target' = IF target = r THEN NoReactor ELSE target
    /\ life' = [life EXCEPT ![r] = "closing"]
    /\ UNCHANGED <<count, installed, pipe, loopVars, histVars>>

\* close(), second half: both descriptors are closed, the bytes are gone.
CloseFds(r) ==
    /\ life[r] = "closing"
    /\ life' = [life EXCEPT ![r] = "closed"]
    /\ pipe' = [pipe EXCEPT ![r] = 0]
    /\ UNCHANGED <<target, count, installed, loopVars, histVars>>

-----------------------------------------------------------------------------
(* The handler.                                                              *)

\* vwake_handler: one bounded increment, one non-blocking write.
Deliver(s) ==
    /\ s \in installed
    /\ arrived[s] < MaxArrivals
    /\ arrived' = [arrived EXCEPT ![s] = @ + 1]
    /\ count' = [count EXCEPT ![s] = Least(@ + 1, CountMax)]
    /\ \/ target \in Reactors /\ WriteByte(target)
       \/ target = NoReactor /\ UNCHANGED pipe
    /\ since' = IF \E r \in Reactors : target = r /\ Routes(r, s) THEN since \cup {s} ELSE since
    /\ missed' = [missed EXCEPT ![s] = @ + IF count[s] = CountMax THEN 1 ELSE 0]
    /\ UNCHANGED <<target, installed, life, loopVars, called, wakes, opens>>

-----------------------------------------------------------------------------
(* The loop: the wake descriptor's callback and dispatch_signals.            *)

\* The wait reports the read end and tick() calls its callback.
Notice(r) ==
    /\ UserCode
    /\ pc[r] = "wait" /\ life[r] = "open"
    /\ pipe[r] > 0
    /\ pc' = [pc EXCEPT ![r] = "drain"]
    /\ stack' = Append(stack, r)
    /\ UNCHANGED <<shimVars, sigs, onWake, idx, hi, num, any, histVars>>

\* Wrong on purpose: the bytes that arrive while the callbacks run are dropped
\* with the ones that announced them.
EndDispatch_Drains(r) ==
    /\ pc[r] = "read" /\ In(r)
    /\ idx[r] > hi[r]
    /\ pipe' = [pipe EXCEPT ![r] = 0]
    /\ \/ /\ ~any[r] /\ onWake[r]
          /\ pc' = [pc EXCEPT ![r] = "tell"]
          /\ UNCHANGED stack
       \/ /\ any[r] \/ ~onWake[r]
          /\ pc' = [pc EXCEPT ![r] = "wait"]
          /\ stack' = SubSeq(stack, 1, Len(stack) - 1)
    /\ UNCHANGED <<target, count, installed, life, sigs, onWake, idx, hi, num, any,
                   arrived, called, wakes, opens, since, missed>>

\* Wrong on purpose: the bytes are left in the pipe.
Drain_Leaves(r) ==
    /\ pc[r] = "drain" /\ In(r)
    /\ pc' = [pc EXCEPT ![r] = "read"]
    /\ idx' = [idx EXCEPT ![r] = 1]
    /\ hi' = [hi EXCEPT ![r] = Len(sigs[r])]
    /\ any' = [any EXCEPT ![r] = FALSE]
    /\ UNCHANGED <<shimVars, sigs, onWake, num, stack, histVars>>

\* vwake_drain: read until a read comes back short, then dispatch_signals.
Drain(r) ==
    /\ pc[r] = "drain" /\ In(r)
    /\ pipe' = [pipe EXCEPT ![r] = @ - Least(@, BufSize)]
    /\ \/ /\ pipe[r] >= BufSize
          /\ UNCHANGED <<pc, idx, hi, any>>
       \/ /\ pipe[r] < BufSize
          /\ pc' = [pc EXCEPT ![r] = "read"]
          /\ idx' = [idx EXCEPT ![r] = 1]
          /\ hi' = [hi EXCEPT ![r] = Len(sigs[r])]
          /\ any' = [any EXCEPT ![r] = FALSE]
    /\ UNCHANGED <<target, count, installed, life, sigs, onWake, num, stack, histVars>>

\* vwake_signal_count, first statement: n = g_sigcount[signo].
ReadCount(r) ==
    /\ pc[r] = "read" /\ In(r)
    /\ idx[r] <= hi[r]
    /\ num' = [num EXCEPT ![r] = count[sigs[r][idx[r]]]]
    /\ pc' = [pc EXCEPT ![r] = "clear"]
    /\ UNCHANGED <<shimVars, sigs, onWake, idx, hi, any, stack, histVars>>

\* Wrong on purpose: the count is not cleared.
ClearCount_Kept(r) ==
    /\ pc[r] = "clear" /\ In(r)
    /\ any' = [any EXCEPT ![r] = @ \/ num[r] > 0]
    /\ pc' = [pc EXCEPT ![r] = "call"]
    /\ UNCHANGED <<shimVars, sigs, onWake, idx, hi, num, stack, histVars>>

\* vwake_signal_count, second statement: g_sigcount[signo] = 0. It returns n.
ClearCount(r) ==
    /\ pc[r] = "clear" /\ In(r)
    /\ count' = [count EXCEPT ![sigs[r][idx[r]]] = 0]
    /\ any' = [any EXCEPT ![r] = @ \/ num[r] > 0]
    /\ pc' = [pc EXCEPT ![r] = "call"]
    /\ since' = since \ {sigs[r][idx[r]]}
    /\ missed' = [missed EXCEPT ![sigs[r][idx[r]]] = @ + count[sigs[r][idx[r]]] - num[r]]
    /\ UNCHANGED <<target, installed, life, pipe, sigs, onWake, idx, hi, num, stack,
                   arrived, called, wakes, opens>>

\* One callback for every delivery counted, then the next entry.
CallSignal(r) ==
    /\ pc[r] = "call" /\ In(r)
    /\ \/ /\ num[r] > 0
          /\ num' = [num EXCEPT ![r] = @ - 1]
          /\ called' = [called EXCEPT ![sigs[r][idx[r]]] = @ + 1]
          /\ pc' = [pc EXCEPT ![r] = "cb"]
          /\ UNCHANGED idx
       \/ /\ num[r] = 0
          /\ idx' = [idx EXCEPT ![r] = @ + 1]
          /\ pc' = [pc EXCEPT ![r] = "read"]
          /\ UNCHANGED <<num, called>>
    /\ UNCHANGED <<shimVars, sigs, onWake, hi, any, stack, arrived, wakes,
                   opens, since, missed>>

\* The end of dispatch_signals: on_wake runs when no count was positive.
EndDispatch(r) ==
    /\ pc[r] = "read" /\ In(r)
    /\ idx[r] > hi[r]
    /\ \/ /\ ~any[r] /\ onWake[r]
          /\ pc' = [pc EXCEPT ![r] = "tell"]
          /\ UNCHANGED stack
       \/ /\ any[r] \/ ~onWake[r]
          /\ pc' = [pc EXCEPT ![r] = "wait"]
          /\ stack' = SubSeq(stack, 1, Len(stack) - 1)
    /\ UNCHANGED <<shimVars, sigs, onWake, idx, hi, num, any, arrived, called, wakes, opens, since, missed>>

\* A callback returns.
Return(r) ==
    /\ In(r)
    /\ \/ /\ pc[r] = "cb"
          /\ pc' = [pc EXCEPT ![r] = "call"]
          /\ UNCHANGED stack
       \/ /\ pc[r] = "tell"
          /\ pc' = [pc EXCEPT ![r] = "wait"]
          /\ stack' = SubSeq(stack, 1, Len(stack) - 1)
    /\ UNCHANGED <<shimVars, sigs, onWake, idx, hi, num, any, histVars>>

-----------------------------------------------------------------------------
Loop(r) ==
    \/ Notice(r) \/ Drain(r) \/ ReadCount(r) \/ ClearCount(r) \/ CallSignal(r)
    \/ EndDispatch(r) \/ Return(r) \/ CloseFds(r)

Next ==
    \/ \E r \in Reactors :
         \/ Wakeable(r) \/ WakeableFails(r) \/ OnWake(r) \/ Wake(r) \/ CloseDisarm(r)
         \/ \E s \in Signals : OnSignal(r, s)
         \/ Loop(r)
    \/ \E s \in Signals : Deliver(s)

Spec == Init /\ [][Next]_vars
\* The loops run: a reactor in its wait notices a readable pipe, and every
\* callback returns.
FairSpec == Spec /\ \A r \in Reactors : WF_vars(Loop(r))

-----------------------------------------------------------------------------
(* Properties.                                                               *)
\* The type invariant of the shim's globals, the pipes and the loops.
TypeOK ==
    /\ target \in Reactors \cup {NoReactor}
    /\ count \in [Signals -> 0 .. CountMax]
    /\ installed \subseteq Signals
    /\ life \in [Reactors -> {"new", "open", "closing", "closed"}]
    /\ pipe \in [Reactors -> 0 .. PipeCap]
    /\ sigs \in [Reactors -> Seq(Signals)]
    /\ onWake \in [Reactors -> BOOLEAN]
    /\ pc \in [Reactors -> {"wait", "drain", "read", "clear", "call", "cb", "tell"}]
    /\ idx \in [Reactors -> Nat]
    /\ hi \in [Reactors -> Nat]
    /\ num \in [Reactors -> 0 .. CountMax]
    /\ any \in [Reactors -> BOOLEAN]
    /\ stack \in Seq(Reactors)
    /\ arrived \in [Signals -> Nat]
    /\ called \in [Signals -> Nat]
    /\ wakes \in [Reactors -> Nat]
    /\ opens \in Nat
    /\ since \subseteq Signals
    /\ missed \in [Signals -> Int]

\* Entry idx of r's table is being served and its count was read as num.
Serving(r, s) == pc[r] \in {"call", "cb"} /\ sigs[r][idx[r]] = s

\* r has still to read the count of s in the dispatch it is in.
WillRead(r, s) ==
    \/ pc[r] = "drain" /\ Routes(r, s)
    \/ pc[r] \in {"read", "clear"} /\ \E j \in idx[r] .. hi[r] : sigs[r][j] = s
    \/ pc[r] \in {"call", "cb"} /\ \E j \in idx[r] + 1 .. hi[r] : sigs[r][j] = s

\* A signal callback runs at most once for every delivery, whatever reactor it
\* runs on and however the handler interleaves with the dispatch: callbacks
\* made, callbacks owed and counts still to be read never exceed deliveries.
CalledAtMostOnce ==
    \A s \in Signals :
        \A r \in Reactors :
            called[s] + count[s] + (IF Serving(r, s) THEN num[r] ELSE 0) <= arrived[s]

\* "Disarm the handler's target BEFORE closing": whenever the handler may run,
\* its target's descriptors are open, though another reactor may have opened,
\* or closed, its own pipe in between.
HandlerTargetOpen == target # NoReactor => life[target] = "open"

\* No lost wakeup: a signal that the handler counted for its target since the
\* target's pipe was opened has a byte in it, or is yet to be read by the
\* dispatch under way. A full pipe, a handler in the middle of a drain, a short
\* read and other reactors that come and go keep this. What was counted before
\* the pipe was opened, and not read, has no byte in it.
NoLostWakeup ==
    \A r \in Reactors : target = r =>
        \A s \in since : pipe[r] > 0 \/ WillRead(r, s)

\* Every delivery to the handler's target has its callback, unless the reactor is
\* closed, or another takes the handler, first; all but those that were missed,
\* past the count's limit or between the read of a count and its clear.
SignalServed ==
    \A r \in Reactors, s \in Signals, n \in 1 .. MaxArrivals :
        (target = r /\ s \in since /\ arrived[s] = n)
            ~> (target # r \/ called[s] + missed[s] >= n)

\* wake() breaks the wait: the byte it wrote is taken up by the loop.
WakeServed == \A r \in Reactors : pipe[r] > 0 ~> pipe[r] = 0
=============================================================================
