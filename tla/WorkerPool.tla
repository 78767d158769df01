----------------------------- MODULE WorkerPool -----------------------------
(***************************************************************************)
(* vyto/os/worker: a parent process, N worker slots, and one forked child  *)
(* per live slot, joined by a data channel that carries length-prefixed    *)
(* frames strictly as request and response.                                *)
(*                                                                         *)
(* Job inputs and outputs are represented by the ticket of the job they    *)
(* belong to, so "the right answer for ticket t" is a frame that says t.   *)
(* The parent is single threaded: `at' is where its control is.            *)
(***************************************************************************)
EXTENDS Integers, Sequences, FiniteSets

CONSTANTS
    N,              \* worker slots of the pool
    Fd,             \* descriptor numbers the kernel may hand out
    SigpipeFatal,   \* a write to a closed peer kills the writer (POSIX default)
    TermHandled,    \* the host caught SIGTERM (Reactor.onSignal) before forking
    OversizeIn,     \* tickets whose input is longer than W_MAX_FRAME
    OversizeOut,    \* tickets whose output is longer than W_MAX_FRAME
    CallerDriven,   \* the caller walks its own ready list and may call the pool
                    \* between two entries; FALSE: it uses poll() and map()
    MaxTickets,     \* bound: jobs ever submitted
    MaxSpawns,      \* bound: forks ever made
    MaxCrashes      \* bound: children that die on their own

ASSUME ConstantsAssumption ==
    /\ N \in Nat \ {0}
    /\ -1 \notin Fd
    /\ SigpipeFatal \in BOOLEAN
    /\ TermHandled \in BOOLEAN
    /\ CallerDriven \in BOOLEAN
    /\ MaxTickets \in Nat
    /\ MaxSpawns \in Nat
    /\ MaxCrashes \in Nat

Slots == 0 .. N - 1
Tickets == 0 .. MaxTickets - 1

VARIABLES
    \* The WorkerPool object.
    fds,         \* parent-side data descriptor of a slot, -1 when dead
    busy,        \* the slot runs a job
    held,        \* the slot is reserved by checkout()
    ticketOf,    \* the ticket the slot runs, -1 when idle
    pending,     \* backlog of tickets, oldest first
    nextTicket,  \* tickets handed out so far
    ready,       \* descriptors a wait() reported and the caller has not handled
    \* The parent's control point.
    at,          \* "init", "user", "read", "reap", "fini" or "down"
    cur,         \* the slot that "init", "read", "reap" and "fini" work on
    \* The operating system.
    child,       \* state of the slot's process
    inbox,       \* frames on their way to the child
    now,         \* the job the child is running, -1 when none
    outbox,      \* complete frames on their way to the parent
    open,        \* the parent process holds its end of the data channel
    inherits,    \* the slots whose parent-side end the child got through fork()
    \* History and bounds.
    outcome,     \* what the caller learned of a ticket
    spawns,
    crashes

poolVars == <<fds, busy, held, ticketOf, pending, nextTicket>>
osVars   == <<child, inbox, now, outbox, open, inherits>>
vars == <<poolVars, ready, at, cur, osVars, outcome, spawns, crashes>>

-----------------------------------------------------------------------------
(* States of a child process: "none" before fork and after waitpid; "idle"   *)
(* inside w_read_len; "job" running the closure; "hdr" between the two       *)
(* writes of the result frame; "dead" exited; "torn" exited in "hdr".        *)
Running(w) == child[w] \in {"idle", "job", "hdr"}
Dead(w)    == child[w] \in {"dead", "torn"}

Alive(w) == fds[w] # -1
Free(w)  == Alive(w) /\ ~busy[w] /\ ~held[w]

\* The parent-side end of w's channel is still open somewhere: in the parent,
\* or in a sibling forked while the parent held it.
ParentEndOpen(w) ==
    \/ open[w]
    \/ \E v \in Slots : Running(v) /\ w \in inherits[v]
\* Wrong on purpose: the poll reports data but not a hangup.
Readable_NoHangup(w) ==
    Alive(w) /\ (outbox[w] # <<>> \/ child[w] = "hdr")

\* poll(2)'s verdict on the parent-side descriptor: bytes to read, or a hangup.
Readable(w) ==
    Alive(w) /\ (outbox[w] # <<>> \/ child[w] = "hdr" \/ Dead(w))

\* The caller is in its own code and may call a method of the pool.
UserTurn == at = "user" /\ (CallerDriven \/ ready = {})

\* A Result for ticket tk reaches the caller. A second one would be a duplicate.
Surface(tk, what) ==
    outcome' = IF tk < 0 THEN outcome
               ELSE [outcome EXCEPT ![tk] = IF @ = "open" THEN what ELSE "dup"]

-----------------------------------------------------------------------------
(* Writing and dispatching. q is the outbox left by what the caller of       *)
(* dispatch has already read.                                                *)

\* w_write_frame to the data channel of w. The result is ignored by dispatch: a
\* payload above W_MAX_FRAME is refused before anything is written, and on a
\* closed peer the write either fails quietly or raises SIGPIPE.
WriteFrame(w, tk) ==
    \/ /\ tk \in OversizeIn
       /\ at' = "user"
       /\ UNCHANGED <<inbox, open>>
    \/ /\ tk \notin OversizeIn /\ Running(w)
       /\ inbox' = [inbox EXCEPT ![w] = Append(@, tk)]
       /\ at' = "user"
       /\ UNCHANGED open
    \/ /\ tk \notin OversizeIn /\ Dead(w) /\ ~SigpipeFatal
       /\ at' = "user"
       /\ UNCHANGED <<inbox, open>>
    \/ /\ tk \notin OversizeIn /\ Dead(w) /\ SigpipeFatal
       /\ at' = "down"
       /\ open' = [v \in Slots |-> FALSE]
       /\ UNCHANGED inbox

Dispatch(w, tk) ==
    /\ busy' = [busy EXCEPT ![w] = TRUE]
    /\ ticketOf' = [ticketOf EXCEPT ![w] = tk]
    /\ WriteFrame(w, tk)
\* Wrong on purpose: the entry is dispatched but not popped.
DrainOne_NoPop(w) ==
    /\ pending # <<>>
    /\ UNCHANGED pending
    /\ Dispatch(w, Head(pending))

\* Wrong on purpose: pop_back, the newest entry first.
DrainOne_Newest(w) ==
    /\ pending # <<>>
    /\ pending' = SubSeq(pending, 1, Len(pending) - 1)
    /\ Dispatch(w, pending[Len(pending)])

\* Wrong on purpose: the two deques are popped from different ends, so the
\* ticket is the oldest and the input the newest.
DrainOne_OutOfStep(w) ==
    /\ pending # <<>>
    /\ pending' = Tail(pending)
    /\ busy' = [busy EXCEPT ![w] = TRUE]
    /\ ticketOf' = [ticketOf EXCEPT ![w] = Head(pending)]
    /\ WriteFrame(w, pending[Len(pending)])

\* Hand the oldest backlog entry to w.
DrainOne(w) ==
    /\ pending # <<>>
    /\ pending' = Tail(pending)
    /\ Dispatch(w, Head(pending))

-----------------------------------------------------------------------------
(* Spawning and retiring.                                                    *)
\* Wrong on purpose: the child does not close its copy of the parent's end.
SpawnInto_KeepsOwnEnd(w) ==
    /\ spawns < MaxSpawns
    /\ spawns' = spawns + 1
    /\ \E f \in Fd \ {fds[v] : v \in Slots} : fds' = [fds EXCEPT ![w] = f]
    /\ busy' = [busy EXCEPT ![w] = FALSE]
    /\ held' = [held EXCEPT ![w] = FALSE]
    /\ ticketOf' = [ticketOf EXCEPT ![w] = -1]
    /\ child' = [child EXCEPT ![w] = "idle"]
    /\ inbox' = [inbox EXCEPT ![w] = <<>>]
    /\ outbox' = [outbox EXCEPT ![w] = <<>>]
    /\ now' = [now EXCEPT ![w] = -1]
    /\ open' = [open EXCEPT ![w] = TRUE]
    /\ inherits' = [inherits EXCEPT ![w] = {v \in Slots : open'[v]}]

\* A successful w_spawn recorded in slot w. The child copies every parent-side
\* descriptor the parent holds at the fork.
SpawnInto(w) ==
    /\ spawns < MaxSpawns
    /\ spawns' = spawns + 1
    /\ \E f \in Fd \ {fds[v] : v \in Slots} : fds' = [fds EXCEPT ![w] = f]
    /\ busy' = [busy EXCEPT ![w] = FALSE]
    /\ held' = [held EXCEPT ![w] = FALSE]
    /\ ticketOf' = [ticketOf EXCEPT ![w] = -1]
    /\ child' = [child EXCEPT ![w] = "idle"]
    /\ inbox' = [inbox EXCEPT ![w] = <<>>]
    /\ outbox' = [outbox EXCEPT ![w] = <<>>]
    /\ now' = [now EXCEPT ![w] = -1]
    /\ open' = [open EXCEPT ![w] = TRUE]
    /\ inherits' = [inherits EXCEPT ![w] = {v \in Slots \ {w} : open[v]}]

SpawnFailed ==
    /\ spawns < MaxSpawns
    /\ spawns' = spawns + 1
    /\ UNCHANGED <<fds, busy, held, ticketOf, osVars>>

\* The end of retire(): the child is gone and reaped, the slot is dead in place.
Retire(w) ==
    /\ fds' = [fds EXCEPT ![w] = -1]
    /\ busy' = [busy EXCEPT ![w] = FALSE]
    /\ held' = [held EXCEPT ![w] = FALSE]
    /\ ticketOf' = [ticketOf EXCEPT ![w] = -1]
    /\ child' = [child EXCEPT ![w] = "none"]
    /\ inbox' = [inbox EXCEPT ![w] = <<>>]
    /\ outbox' = [outbox EXCEPT ![w] = <<>>]
    /\ now' = [now EXCEPT ![w] = -1]
    /\ open' = [open EXCEPT ![w] = FALSE]
    /\ inherits' = [v \in Slots |-> IF v = w THEN {} ELSE inherits[v] \ {w}]

\* Process w ends, whatever it was doing: unread input is discarded, complete
\* output stays readable, a header without its payload is left torn.
ChildEnds(w) ==
    /\ child' = [child EXCEPT ![w] = IF @ = "hdr" THEN "torn" ELSE "dead"]
    /\ inbox' = [inbox EXCEPT ![w] = <<>>]
    /\ now' = [now EXCEPT ![w] = -1]
    /\ UNCHANGED outbox

-----------------------------------------------------------------------------
Init ==
    /\ fds = [w \in Slots |-> -1]
    /\ busy = [w \in Slots |-> FALSE]
    /\ held = [w \in Slots |-> FALSE]
    /\ ticketOf = [w \in Slots |-> -1]
    /\ pending = <<>>
    /\ nextTicket = 0
    /\ ready = {}
    /\ at = "init"
    /\ cur = 0
    /\ child = [w \in Slots |-> "none"]
    /\ inbox = [w \in Slots |-> <<>>]
    /\ now = [w \in Slots |-> -1]
    /\ outbox = [w \in Slots |-> <<>>]
    /\ open = [w \in Slots |-> FALSE]
    /\ inherits = [w \in Slots |-> {}]
    /\ outcome = [t \in Tickets |-> "open"]
    /\ spawns = 0
    /\ crashes = 0

\* The constructor's loop: spawn slot cur, or leave it dead when that fails.
InitSlot ==
    /\ at = "init"
    /\ SpawnInto(cur) \/ SpawnFailed
    /\ IF cur + 1 < N THEN cur' = cur + 1 /\ at' = at
                      ELSE cur' = cur /\ at' = "user"
    /\ UNCHANGED <<pending, nextTicket, ready, outcome, crashes>>

-----------------------------------------------------------------------------
(* Methods of the pool.                                                      *)

\* submit(): the lowest free slot, else the backlog.
Submit ==
    /\ UserTurn
    /\ nextTicket < MaxTickets
    /\ nextTicket' = nextTicket + 1
    /\ \/ \E w \in Slots :
            /\ Free(w)
            /\ \A v \in Slots : Free(v) => w <= v
            /\ Dispatch(w, nextTicket)
            /\ UNCHANGED pending
       \/ /\ \A w \in Slots : ~Free(w)
          /\ pending' = Append(pending, nextTicket)
          /\ UNCHANGED <<busy, ticketOf, inbox, open, at>>
    /\ UNCHANGED <<fds, held, ready, cur, child, now, outbox, inherits,
                   outcome, spawns, crashes>>

\* submitTo(w): refused (-1, nothing changes) on a dead or busy slot.
SubmitTo(w) ==
    /\ UserTurn
    /\ Alive(w) /\ ~busy[w]
    /\ nextTicket < MaxTickets
    /\ nextTicket' = nextTicket + 1
    /\ Dispatch(w, nextTicket)
    /\ UNCHANGED <<fds, held, pending, ready, cur, child, now, outbox, inherits,
                   outcome, spawns, crashes>>

\* checkout(): reserve the lowest free slot.
Checkout ==
    /\ UserTurn
    /\ \E w \in Slots :
         /\ Free(w)
         /\ \A v \in Slots : Free(v) => w <= v
         /\ held' = [held EXCEPT ![w] = TRUE]
    /\ UNCHANGED <<fds, busy, ticketOf, pending, nextTicket, ready, at, cur,
                   osVars, outcome, spawns, crashes>>

\* release(w): any in-range index is accepted, reserved or not.
Release(w) ==
    /\ UserTurn
    /\ held' = [held EXCEPT ![w] = FALSE]
    /\ IF Alive(w) /\ ~busy[w] /\ pending # <<>>
       THEN DrainOne(w)
       ELSE UNCHANGED <<busy, ticketOf, pending, inbox, open, at>>
    /\ UNCHANGED <<fds, nextTicket, ready, cur, child, now, outbox, inherits,
                   outcome, spawns, crashes>>

\* kill(w), up to waitpid: close the channel and send SIGTERM.
Kill(w) ==
    /\ UserTurn
    /\ Alive(w)
    /\ at' = "reap"
    /\ cur' = w
    /\ open' = [open EXCEPT ![w] = FALSE]
    /\ IF Running(w) /\ ~TermHandled
       THEN ChildEnds(w)
       ELSE UNCHANGED <<child, inbox, now, outbox>>
    /\ UNCHANGED <<poolVars, ready, inherits, outcome, spawns, crashes>>

\* waitpid returned: the rest of retire(). The job the slot ran is dropped
\* without a Result.
Reaped ==
    /\ at = "reap"
    /\ Dead(cur)
    /\ at' = "user"
    /\ Retire(cur)
    /\ Surface(ticketOf[cur], "lost")
    /\ UNCHANGED <<pending, nextTicket, ready, cur, spawns, crashes>>

\* respawn(w) of a dead slot. It leaves the backlog alone.
Respawn(w) ==
    /\ UserTurn
    /\ ~Alive(w)
    /\ SpawnInto(w) \/ SpawnFailed
    /\ UNCHANGED <<pending, nextTicket, ready, at, cur, outcome, crashes>>

\* PollSet.wait(): every descriptor that is ready now.
Wait ==
    /\ at = "user" /\ ready = {}
    /\ ready' = {fds[w] : w \in {v \in Slots : Readable(v)}}
    /\ ready' # {}
    /\ UNCHANGED <<poolVars, at, cur, osVars, outcome, spawns, crashes>>

\* onReady(fd) up to w_read_len: null when no slot has that descriptor.
OnReady(f) ==
    /\ at = "user"
    /\ f \in ready
    /\ ready' = ready \ {f}
    /\ \/ \E w \in Slots : fds[w] = f /\ at' = "read" /\ cur' = w
       \/ (\A w \in Slots : fds[w] # f) /\ UNCHANGED <<at, cur>>
    /\ UNCHANGED <<poolVars, osVars, outcome, spawns, crashes>>
\* Wrong on purpose: the worker stays busy after its answer was read.
AfterFrame_StaysBusy(w) ==
    IF pending = <<>>
    THEN /\ ticketOf' = [ticketOf EXCEPT ![w] = -1]
         /\ at' = "user"
         /\ UNCHANGED <<busy, pending, inbox, open>>
    ELSE DrainOne(w)

\* onReady: what follows a frame was read, whole or not: the slot is idle again
\* and takes the next backlog entry.
AfterFrame(w) ==
    IF pending = <<>>
    THEN /\ busy' = [busy EXCEPT ![w] = FALSE]
         /\ ticketOf' = [ticketOf EXCEPT ![w] = -1]
         /\ at' = "user"
         /\ UNCHANGED <<pending, inbox, open>>
    ELSE DrainOne(w)

\* onReady: header and payload arrive.
ReadFrame ==
    /\ at = "read"
    /\ outbox[cur] # <<>>
    /\ outbox' = [outbox EXCEPT ![cur] = Tail(@)]
    /\ Surface(ticketOf[cur], IF Head(outbox[cur]) = ticketOf[cur] THEN "ok" ELSE "wrong")
    /\ AfterFrame(cur)
    /\ UNCHANGED <<fds, held, nextTicket, ready, cur, child, now, inherits,
                   spawns, crashes>>

\* onReady: the header arrives and the payload never does. The failure of
\* w_read_bytes is not looked at.
ReadTorn ==
    /\ at = "read"
    /\ outbox[cur] = <<>>
    /\ child[cur] = "torn"
    /\ child' = [child EXCEPT ![cur] = "dead"]
    /\ Surface(ticketOf[cur], "torn")
    /\ AfterFrame(cur)
    /\ UNCHANGED <<fds, held, nextTicket, ready, cur, now, outbox, inherits,
                   spawns, crashes>>

\* onReady: end of file. The slot is retired, its ticket gets an empty Result.
ReadEOF ==
    /\ at = "read"
    /\ outbox[cur] = <<>>
    /\ child[cur] = "dead"
    /\ at' = "user"
    /\ Retire(cur)
    /\ Surface(ticketOf[cur], "empty")
    /\ UNCHANGED <<pending, nextTicket, ready, cur, spawns, crashes>>
\* Wrong on purpose: only the first channel is closed before the reaping.
Deinit_ClosesFirstOnly ==
    /\ UserTurn
    /\ at' = "fini"
    /\ cur' = 0
    /\ open' = [open EXCEPT ![0] = FALSE]
    /\ UNCHANGED <<poolVars, ready, child, inbox, now, outbox, inherits,
                   outcome, spawns, crashes>>

\* deinit: close every channel, then reap slot by slot.
Deinit ==
    /\ UserTurn
    /\ at' = "fini"
    /\ cur' = 0
    /\ open' = [w \in Slots |-> FALSE]
    /\ UNCHANGED <<poolVars, ready, child, inbox, now, outbox, inherits,
                   outcome, spawns, crashes>>

\* w_reap of slot cur inside deinit: SIGTERM, then wait until it is gone.
FiniTerm ==
    /\ at = "fini"
    /\ Running(cur) /\ ~TermHandled
    /\ ChildEnds(cur)
    /\ UNCHANGED <<poolVars, ready, at, cur, open, inherits, outcome, spawns, crashes>>

FiniReap ==
    /\ at = "fini"
    /\ ~Running(cur)
    /\ child' = [child EXCEPT ![cur] = "none"]
    /\ IF cur + 1 < N THEN cur' = cur + 1 /\ at' = at
                      ELSE cur' = cur /\ at' = "down"
    /\ UNCHANGED <<poolVars, ready, inbox, now, outbox, open, inherits,
                   outcome, spawns, crashes>>

-----------------------------------------------------------------------------
(* The child: runChild, its crash, and the death of the parent.              *)

ChildRead(w) ==
    /\ child[w] = "idle"
    /\ inbox[w] # <<>>
    /\ child' = [child EXCEPT ![w] = "job"]
    /\ now' = [now EXCEPT ![w] = Head(inbox[w])]
    /\ inbox' = [inbox EXCEPT ![w] = Tail(@)]
    /\ UNCHANGED <<poolVars, ready, at, cur, outbox, open, inherits, outcome,
                   spawns, crashes>>

\* The first write_all of the result frame. An answer above W_MAX_FRAME is
\* refused; that, like a closed channel, ends the child.
ChildHeader(w) ==
    /\ child[w] = "job"
    /\ IF ParentEndOpen(w) /\ now[w] \notin OversizeOut
       THEN /\ child' = [child EXCEPT ![w] = "hdr"]
            /\ UNCHANGED <<inbox, now, outbox>>
       ELSE ChildEnds(w)
    /\ UNCHANGED <<poolVars, ready, at, cur, open, inherits, outcome, spawns, crashes>>

ChildPayload(w) ==
    /\ child[w] = "hdr"
    /\ IF ParentEndOpen(w)
       THEN /\ child' = [child EXCEPT ![w] = "idle"]
            /\ outbox' = [outbox EXCEPT ![w] = Append(@, now[w])]
            /\ now' = [now EXCEPT ![w] = -1]
            /\ UNCHANGED inbox
       ELSE ChildEnds(w)
    /\ UNCHANGED <<poolVars, ready, at, cur, open, inherits, outcome, spawns, crashes>>

\* End of file on the data channel: runChild leaves its loop.
ChildEOF(w) ==
    /\ child[w] = "idle"
    /\ inbox[w] = <<>>
    /\ ~ParentEndOpen(w)
    /\ ChildEnds(w)
    /\ UNCHANGED <<poolVars, ready, at, cur, open, inherits, outcome, spawns, crashes>>

\* A job crashes, or someone kills the child.
ChildCrash(w) ==
    /\ Running(w)
    /\ crashes < MaxCrashes
    /\ crashes' = crashes + 1
    /\ ChildEnds(w)
    /\ UNCHANGED <<poolVars, ready, at, cur, open, inherits, outcome, spawns>>

\* The parent process ends without running deinit.
ParentDies ==
    /\ at # "down"
    /\ at' = "down"
    /\ open' = [w \in Slots |-> FALSE]
    /\ UNCHANGED <<poolVars, ready, cur, child, inbox, now, outbox, inherits,
                   outcome, spawns, crashes>>

\* Everything has stopped.
Terminated ==
    /\ at = "down"
    /\ \A w \in Slots : ~Running(w)
    /\ UNCHANGED vars

-----------------------------------------------------------------------------
Read == ReadFrame \/ ReadTorn \/ ReadEOF
Fini == FiniTerm \/ FiniReap
Child(w) == ChildRead(w) \/ ChildHeader(w) \/ ChildPayload(w) \/ ChildEOF(w)

Next ==
    \/ InitSlot
    \/ Submit \/ Checkout
    \/ \E w \in Slots : SubmitTo(w) \/ Release(w) \/ Kill(w) \/ Respawn(w)
    \/ Reaped
    \/ Wait
    \/ \E f \in Fd : OnReady(f)
    \/ Read
    \/ Deinit \/ Fini
    \/ \E w \in Slots : Child(w) \/ ChildCrash(w)
    \/ ParentDies
    \/ Terminated

Spec == Init /\ [][Next]_vars

\* The caller keeps polling and handling what poll reports; a blocking call
\* that can return does; every child is scheduled and every job ends.
Fairness ==
    /\ WF_vars(InitSlot)
    /\ WF_vars(Wait)
    /\ WF_vars(\E f \in Fd : OnReady(f))
    /\ WF_vars(Read)
    /\ WF_vars(Reaped)
    /\ WF_vars(Fini)
    /\ \A w \in Slots : WF_vars(Child(w))

FairSpec == Spec /\ Fairness
-----------------------------------------------------------------------------
(* Properties.                                                               *)

\* The type invariant of the pool's fields, the parent's control and the
\* processes.
TypeOK ==
    /\ fds \in [Slots -> Fd \cup {-1}]
    /\ busy \in [Slots -> BOOLEAN]
    /\ held \in [Slots -> BOOLEAN]
    /\ ticketOf \in [Slots -> Tickets \cup {-1}]
    /\ pending \in Seq(Tickets)
    /\ nextTicket \in 0 .. MaxTickets
    /\ ready \subseteq Fd
    /\ at \in {"init", "user", "read", "reap", "fini", "down"}
    /\ cur \in Slots
    /\ child \in [Slots -> {"none", "idle", "job", "hdr", "dead", "torn"}]
    /\ inbox \in [Slots -> Seq(Tickets)]
    /\ now \in [Slots -> Tickets \cup {-1}]
    /\ outbox \in [Slots -> Seq(Tickets \cup {-1})]
    /\ open \in [Slots -> BOOLEAN]
    /\ inherits \in [Slots -> SUBSET Slots]
    /\ outcome \in [Tickets -> {"open", "ok", "empty", "torn", "lost", "wrong", "dup"}]
    /\ spawns \in 0 .. MaxSpawns
    /\ crashes \in 0 .. MaxCrashes

Queued(t)   == \E i \in DOMAIN pending : pending[i] = t
Assigned(t) == \E w \in Slots : ticketOf[w] = t

\* No ticket submit() or submitTo() handed out is ever forgotten, run twice or
\* reported twice: until its outcome is known it is in the backlog (which stays
\* in ticket order) or on exactly one worker, and afterwards in neither.
TicketConserved ==
    /\ \A t \in Tickets :
         /\ (Queued(t) \/ Assigned(t)) <=> (t < nextTicket /\ outcome[t] = "open")
         /\ ~(Queued(t) /\ Assigned(t))
         /\ outcome[t] # "dup"
    /\ \A v, w \in Slots : ticketOf[v] = ticketOf[w] /\ ticketOf[v] # -1 => v = w
    /\ \A i, j \in DOMAIN pending : i < j => pending[i] < pending[j]

\* The data channel carries no ticket, only payloads: onReady labels what it
\* reads with ticketOf[w]. The label is always the job the payload came from.
AnswersMatch == \A t \in Tickets : outcome[t] # "wrong"

\* fork() leaks the parent-side ends of older workers into younger ones. In any
\* set of live workers one is leaked to none of the others: it will see the end
\* of file when the parent goes, so the leak never makes a circle.
NoInheritanceCycle ==
    \A S \in SUBSET {w \in Slots : Running(w)} :
        S # {} => \E w \in S : \A v \in S : w \notin inherits[v]

\* The slot was given a job that its worker never got: onReady is not called for
\* it before the worker dies or is killed.
Refused(w) == Alive(w) /\ ticketOf[w] \in OversizeIn

\* The slot takes nothing from the backlog: dead, reserved and idle, or waiting
\* for the answer to a job it never got.
Withheld(w) == ~Alive(w) \/ (held[w] /\ ~busy[w]) \/ Refused(w)

\* A ticket whose job a worker has been sent reaches its outcome, whoever dies
\* on the way and whichever answer is too long to be sent back, unless the pool
\* itself goes away first.
TicketsSettle ==
    \A t \in Tickets \ OversizeIn :
        Assigned(t) ~> outcome[t] # "open" \/ at \in {"fini", "down"}

\* A ticket in the backlog gets a worker, unless the pool goes away or every slot
\* is withheld from it: one worker that takes jobs is enough, with others dead,
\* reserved, or stuck with a job that was refused.
BacklogServed ==
    \A t \in Tickets :
        Queued(t) ~> \/ ~Queued(t) \/ at \in {"fini", "down"}
                     \/ \A w \in Slots : Withheld(w)

\* deinit returns, even when SIGTERM does not end a child and its end of file
\* is delayed by younger siblings that hold the channel open.
DeinitReturns == at = "fini" ~> at = "down"

\* However the parent ended, no worker process outlives it for good.
OrphansExit == at = "down" ~> \A w \in Slots : ~Running(w)
-----------------------------------------------------------------------------
(* The promise to the caller.                                                *)
Exec == INSTANCE Executor WITH
    issued   <- nextTicket,
    queue    <- pending,
    running  <- {ticketOf[w] : w \in Slots} \ {-1},
    answered <- {t \in Tickets : outcome[t] \in {"ok", "empty", "torn"}},
    dropped  <- {t \in Tickets : outcome[t] = "lost"}

\* Every step of the pool is a step of the abstract executor or changes nothing
\* the executor shows: no ticket is answered twice, out of thin air or under the
\* wrong label, whatever crashes and kills happen in between.
ImplementsExecutor == Exec!ExecSpec
=============================================================================
