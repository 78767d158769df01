# Verification of vyto's runtime, build and services

vyto is a small compiled language: a compiler written in C, a C runtime with reference
counting, and a large standard library written in vyto itself. Most of the repository is
sequential (the compiler, text and numeric libraries, drawing code) and is well served
by its tests. What tests hardly reach are the services that deal with processes,
signals, descriptors and time, the code that user callbacks and destructors re-enter,
and the build's caches, which outlive crashes. This project models those, checks them
with TLC on small instances, and proves the central facts with TLAPS for every value of
the constants.

## 1. Inventory

| part | state it keeps | operations | hard because | correct when |
|---|---|---|---|---|
| `os/worker` pool (`worker.vt`, `worker_shim.c`) | slots, busy/held flags, ticket of each slot, backlog, one forked child per slot and its channel | submit, submitTo, checkout/release, kill, respawn, poll/onReady, map, deinit; the child loop | children crash anywhere; a frame carries no ticket; fork leaks descriptors; SIGPIPE, SIGTERM | no ticket is lost, duplicated or mislabelled; a backlog never waits beside a free worker; teardown ends |
| `os/reactor` loop (`reactor.vt`) | watch per descriptor, timer heap, live counts, running flag | watch/unwatch/arm, after/every/cancel, tick/run/stop, set_waiter, close | callbacks change the tables that are being walked; cancelled timers; starvation | counts exact, no oversleeping, everything due is served, the loop ends exactly when idle |
| `os/reactor` wakeup (`reactor.vt`, `wake_shim.c`) | self-pipe, process-wide handler target and delivery counts, routed signals | wakeable, onSignal, onWake, wake, close; the signal handler; drain and dispatch | the handler runs between any two instructions; globals shared by all reactors; a pipe that fills | no lost wakeup, at most one callback per delivery, never a write to a closed descriptor |
| `net/server` supervisor (`server.vt`, `run`) | pids, birth times, early-death count, backoff | start, reap, back off, give up, re-fork | deaths during a sleep; failing forks; other children of the process | gives up on a crash loop and only then; replaces what dies |
| `net/server` connections (`server.vt`, `drive`) | buffer, pending output, streaming sink, deadline | parse, serve, stream, flush, upgrade, drain | partial writes, pipelining, the peer leaving mid-body | responses in order; a sink learns its outcome once; nothing is stranded |
| `reactive` (`reactive.vt`) | node states, versions, edges, flush queue | set, get, effect, batch, dispose | effects write, create and dispose inside the flush that runs them; edges change at every run | computeds glitch-free, effects settle, one run per batch |
| build driver (`src/main.c`) | shared objects by content key, generated C, objects and executable of each program | build, `--clean`; editing and killing around it | several builds race for one cache; a kill between any two steps; decisions by modification time | no torn or stale object is linked, `--clean` always helps |
| runtime memory (`vyto_rt.c`, assignments in `emit.c`) | counts, weak registry, arenas | retain, release, weak set/drop, region open/close | destructors run user code inside a cascade; addresses are used again | counts exact, weak slots never lead to what is dying, only cycles leak |
| `db` sessions (`db/pgsql`, `db/mysql`) | the wire, the open cursor, transaction status | execute, fetch, drain, close | who owns the wire; errors mid-answer | answers belong to their statement |
| compiler proper, packager, collections, UI, drawing, media, hardware and platform bindings, utilities | | | sequential or external | not modelled, see section 8 |

How the parts interact: a worker's data descriptor is watched by a reactor (or
by the pool's own poll set), so a pool answer arrives as a reactor callback; the
server's supervisor forks processes that each run a reactor-like loop; the
reactor's signal handler, once installed, is inherited by every worker forked
later, which is why `TermHandled` is a constant of the pool; `waitpid(-1)` in the
supervisor also reaps children of a worker pool in the same process, which is why
`Foreign` is a constant of the supervisor.

## 2. Modules

| module | models | used by |
|---|---|---|
| `WorkerPool` | the pool, its children, their channels and the leaked descriptors | `MCWorkerPool`, `WorkerMap`, `WorkerMapProofs` |
| `Executor` | what the pool promises: a FIFO executor without processes | instantiated by `WorkerPool` as `Exec` |
| `WorkerMap` | `map()` on top of the pool | `MCWorkerMap`, `WorkerMapProofs` |
| `WakePipe` | the self-pipe, the handler, dispatch of signals | `MCWakePipe`, `WakePipeProofs` |
| `Reactor` | the loop over descriptors and timers | `MCReactor`, `ReactorProofs` |
| `ServerConn` | one connection under `reactor()`, `drive()` and `pump_stream()` | `MCServerConn`, `ServerConnProofs` |
| `Supervisor` | `Server.run()` | `MCSupervisor`, `SupervisorProofs` |
| `Reactive` | signals, computeds and effects of one domain | `MCReactive`, `ReactiveProofs` |
| `Build` | the incremental build and its two caches | `MCBuild`, `BuildProofs` |
| `Heap` | reference counts, weak registry, arenas | `MCHeap`, `HeapProofs` |

`PROJECT.json` maps every definition to its lines.

### WorkerPool

Variables are the fields of the class (`fds`, `busy`, `held`, `ticketOf`,
`pending`, `nextTicket`), the parent's control point (`at`, `cur`), and, for each
child, its state, the frames in both directions, and which parent-side ends it
inherited. A payload is represented by the ticket it belongs to, so a mislabelled
answer is visible. One action is one method up to the point where it blocks:
`OnReady` only starts the blocking read; `ReadFrame`, `ReadTorn` and `ReadEOF`
finish it. A child writes its answer in two steps (header, payload) and may die
between them. `SpawnInto` lets the child inherit every parent-side end that is
open at the fork. `CallerDriven` tells a caller with its own ready list (which may
call the pool between two entries) from one that uses `poll()`. `OversizeIn` and
`OversizeOut` are the tickets whose input, or whose answer, is longer than
`W_MAX_FRAME`: `w_write_frame` refuses it before anything is written, `dispatch` does not
look, and the child ends. A slot whose job was refused is `Refused`; one that takes
nothing from the backlog is `Withheld`. `WorkerMap` tells three kinds of Result apart: the
output, the `Empty` one of a worker that died before its answer, and the `Unfilled` bytes
of one that died inside it.

### WakePipe

The handler (`Deliver`) is an action of its own, enabled between any two steps of
the loop. `vwake_signal_count` is two steps (`ReadCount`, `ClearCount`), because
it is two statements; `close()` is two steps, because its order matters to the
handler. A callback may call any method of any reactor and may tick another
reactor, so ticks nest: `stack` holds the reactors whose tick is under way. `wakeable()`
may be called again after `close()`; routes and counts are then still there, the pipe
is new. `since` holds the signals counted for the handler's target since its pipe was
opened, and `missed` counts the deliveries that no count shows; both only record.

### Reactor

A `Watch` object is a serial number and an event set, so that a slot that was
re-used is told apart from the one that was dispatched. The heap is a table of
entries of which the least deadline is at the top, with ties in any order;
cancelled entries stay in it, as in the code, until `next_timeout()` (`pc = "timeout"`:
`PopStale`, `TickWaits`) or `fire_timers()` meets them there. A watch may be for any set
of events, and an error is reported whatever is armed. Time is an integer clock that may
advance between any two steps. The wait may return at its deadline, with ready
descriptors in any order, with EINTR, or fail.

### ServerConn

`cn` is the class `Conn`; `pc` is the place in `reactor()` (top, wait, rearm,
dispose) or in `drive()` and `pump_stream()` (flush, recv, parse, route, pump), one
step per system call or callback, so the peer and the clock may move between any
two. A received stream is a sequence of units `<<request, position>>`: the model
sees a unit that is dropped, repeated or taken for part of another message.
Output units are `<<request, stage, position>>` (interim, response, file, error).
`flush()` is called from four places; `ret` says which. A head keeps what framing
and keep-alive depend on (`minor`, `hosts`, `cl`, `te`, `conn`, `expect`); the
syntax checks of `parse_head()` are one field, `bad`. The peer's body has any
length that some reader of the head could have meant (`Readings`). Two Content-Length
fields are refused; of several Transfer-Encoding fields the last counts, and a head that is
accepted although a coding was passed over sets the mark `coding`. The deadline is
`late`, set by the clock and cleared by a read. Handlers may call `stop()` and
`upgrade()`, sinks may refuse any chunk or the end. An error response is one unit,
sent or lost. The factory is asked again at every wakeup of a buffered body, as in the
code (server.vt:1123 says once), and may change its mind.
`sinkGot`, `sinkTold`, `last`, `wire` and `mishaps` only record.

### Supervisor

What the code computes as `mono_ms() - born[i]` is `age[i]`, which grows after the
worker is dead until it is reaped; `lived` is its real lifetime. Time passes only
while the supervisor waits or sleeps.

### Reactive

`graph` holds what the nodes hold: state (clean, check, dirty), version, value,
sources with the version each was read at, observers, and the domain's queue. `frames`
is the call stack, so a step is one turn of one loop or the end of one call:

| frame | stands for | left by |
|---|---|---|
| `mark` | the loop of `Signal.set` or `ReactiveNode.mark`, with the observers still to come | `MarkObserver`, `MarkEnds` |
| `get` | `Signal.get`, `Computed.get` until `update` is done | `Pull`, `GetReturns` |
| `check` | the CHECK loop of `update`, with the sources still to come | `Pull`, `CheckSource`, `CheckEnds` |
| `compute` | `recompute_self` of a computed: it reads its test, then a branch | `Pull`, `ComputeBranches`, `ComputeEnds` |
| `run` | the body of an effect | `Return` |
| `flush` | the loop of `flush`, with its guard | `FlushNext`, `FlushAbort`, `FlushDone` |
| `batch` | `batch` while its function runs | `BatchEnd` |

Computeds are pure functions of other nodes; `Prog[c]` makes one a choice between two
nodes, so its edges change with the values. Effects are user code: while a `run` is on
top anything the effect may do can happen, and a write flushes at once inside the effect
that made it. The order in which a loop visits its edges is left open (edge lists are
sets), so what is shown does not depend on it. `Rank` says that a computed reads only
nodes that were there when its closure was made: the graph is acyclic. `Current` is the
reference the values are compared with.

Restrictions: the domain is disposed of while no effect runs, and nothing is created in
it afterwards; an effect that an aborted flush dropped stays dirty and is not queued
again, as in the code, so `Settled` is about flushes that did not give up. `Settled`
is claimed for effects in `Calm`: the body starts nothing (no write, no batch, no
creation), or no effect writes what it depends on. `FiresOnce` is claimed for those of
the second kind (`Unfed`). Section 6 says what the code does to the others.

### Build

One `job` per running compiler; its `pc` is the place in `main()`: `cached_object` for
the runtime (lookup, compile into a temporary, rename), emission of the C, one compile
per module, link. A file is its content and modification time. A compile, a write or a
link that is killed leaves a torn file where the code writes in place and nothing where it
renames. `Text[m]` gives each module's header and its C for each `Mode`, because a changed
header recompiles the others and because the checks of a debug build, and the kind of
entry, change the C (`main.c:1139`), of which there is one file for all profiles
(`main.c:1143`). Objects are named by `Suffix`, which leaves the compiler out
(`main.c:914-918`). `vyto_rt.h` is an input of every module (`RtHeader`), and its
modification time starts `latest_h`. Assumed, because the code cannot tell otherwise: an
edit and a build never fall into one second (`st_mtime` has that grain), sources are edited
between builds, and one entry file is built by one process at a time. A program is an
entry file built for one target.

### Heap

Every object has a strong field and a weak one, declared in this order; `stack` is the C
stack of pending releases, destructors and stores. `vt_release` of a last reference nulls
the weak slots and pushes the destructor's body (`user`), the release of its fields and
the end of its memory, so user code runs between any two of them, as it does under the
C the compiler emits; an assignment is `retain new; release old; store`, and the release
may run destructors before the store. Addresses are used again at once. The language
has no global variables (`docs/classes.md:142`), so a destructor reaches only what its
object's fields lead to. `main` and destructors may read and write the fields of any
object they reach over at most two fields, weak ones too. A destructor has no variables
of its own and creates nothing. The compiler lets a program do four things the runtime
was not written for; the step that does one sets `mishap`, the model ends there, and the
properties are about what is before:

| mark | what the program does | what then goes wrong |
|---|---|---|
| `dying` | a destructor stores an object that is being destroyed | a slot is left that leads to freed memory |
| `twice` | a destructor that runs under `o.f = v` assigns `o.f` | the inner value is never released |
| `owner` | `o` itself dies under `o.f = v` | the store goes to freed memory |
| `arena` | an arena ends while weak fields of its objects are registered | the registry keeps their addresses |

Section 6 gives the lines of the code and of the comments.

## 3. Runs

| run | instance | shows |
|---|---|---|
| `pool_safety` | 2 slots, 3 descriptor numbers, 4 tickets (one input and one answer above `W_MAX_FRAME`), 3 forks, 2 crashes, SIGPIPE fatal; 812k states | tickets conserved, answers labelled right, leaked descriptors form no circle, the pool implements `Executor` |
| `pool_serve` | 2 slots, 4 tickets as above, no respawn, fair; 146k states | every job a worker was sent settles, every queued ticket moves on while one worker takes jobs |
| `map_alone` | `map()` of up to 4 inputs, one above `W_MAX_FRAME`, on 3 slots with SIGTERM caught, a crash, then `deinit`, fair; 505k states | outputs in input order and inside the array, unfilled ones exactly where an answer was torn, a job undone only when no worker is left; `map()` returns unless a worker waits for the refused input; `deinit` returns and no worker outlives the parent |
| `wake` | 2 reactors that open 3 pipes between them, 1 signal, pipe of 2 bytes; 416k states | at most one callback per delivery, none without a byte behind it since the target's pipe was opened, never a write to a closed descriptor; deliveries the counts show and wakes are taken up |
| `reactor_safety` | a descriptor, the pipe, 2 timers, clock to 2; 3.3M states | exact counts, the wait is for the live timers only, a loop with work goes on, deadlines in order |
| `reactor_live` | a descriptor (read, write, error) or the pipe, a timer, own and foreign wait, clock to 1, fair; 457k states | due timers fire, ready descriptors are served although callbacks add due timers for ever, an idle loop ends |
| `sup` | 2 workers, one foreign child, ages to 2, 3 early deaths; 49k states | gives up only on a crash loop; replaces the dead |
| `server` | 13 request streams, buffer of 3 units, reads of 2 and 5, send buffer of 2; 167k states | up to a head with a coding passed over: whole responses in order, framing agreed, every sink told once, nothing left behind while the socket keeps up; drain and sweep end |
| `reactive` | 2 signals, 2 computeds with changing edges, 3 effects, 2 writes, flush guard of 2; 1.8M states | current computeds, settled effects, one run per batch, disposed effects stay quiet |
| `build` | 2 builders, 2 programs of 2 modules, 3 profiles (two with the same C and object names), 3 builds, an edit, a kill; 3.4M states | honest shared cache, no stale module object at a link, `--clean` gives the program of the sources |
| `heap` | 3 addresses, 2 variables, an arena; 653k states | up to the first mishap: exact counts at every point of a cascade, weak slots never lead to the dying, only cycles leak |
| `build_stale` | 2 builders, 2 programs, one profile, an edit of the runtime's C, no kill | one disagreement, section 6 |

The bounds are counters in guards (`MaxTickets`, `MaxSpawns`, `MaxCrashes`, `MaxRoutes`,
`MaxArrivals`, `MaxWakes`, `MaxOpens`, `MaxNow`, `MaxWatches`, `MaxInputs`, `MaxWrites`,
`MaxBatch`, `MaxDepth`, `MaxBuilds`, `MaxEdits`, `MaxKills`). They are the smallest for
which every action fires and every wrong variant of the code listed under "mutants" in
`PROJECT.json` is caught: four tickets on two slots force a backlog beside one that is
refused; three forks on two slots force a respawn that inherits; two timers force an order;
a pipe of two bytes overflows with two signals and a wake. The server's buffer of three
units, reads of two and five and room for two keep the code's order (a streaming read is
larger than the buffer's cap, a response may not fit the socket). Three builds are a first
one, one that is killed or that builds the other program, and one that finds what they left.
In `reactor_live` the clock stops at 1, where a callback may still add a timer due at once:
starvation is possible there, and only the budget of `fire_timers` prevents it. In `wake` no
count reaches its limit with a delivery to spare; `WakeNeverLost` and `WakeCallsAtMostOnce`
cover that. Three objects are an owner, a neighbour and one that takes a freed address;
`Heap` has no bound besides its addresses. A mutant is written next to the definition it
distorts, marked as wrong on purpose, and used by nothing else. `TypeOK` is the type
invariant of each module; where a proof exists it is a theorem.

`wake` runs with CHECK_DEADLOCK FALSE: a reactor nobody wakes waits for ever, and
that is what it should do. So do the `build` runs: after the last build nothing need
happen.

## 4. Fairness

`WorkerPool`: the caller keeps polling, a blocking call that can return does,
every child is scheduled and every job ends. No fairness is given to crashes,
kills, or the caller's other calls. `WorkerMap` has the same for `map()`'s own loop and
for `deinit` once it is called. `WakePipe`: each loop runs and callbacks
return. `Reactor`: the loop is scheduled and callbacks return (`FairSpec`);
`EndsWhenIdle` needs no more, and `TimersFire` and `FdsServed` also
assume `TimePasses`. `ServerConn`: the
process is scheduled, the sweep's 500 ms and the drain budget pass; nothing is
asked of the peer. `Supervisor`: it is scheduled, time passes, and no dead child
is passed over for ever (`waitpid(-1)` scans the children in the order of their
forks, so strong fairness of each `Reap(w)` is what the kernel gives). `Reactive`,
`Build` and `Heap` are checked for safety only.

## 5. Theorems

All proofs are for arbitrary constants under the named ASSUMEs of the modules.

* `WorkerMapProofs`, the pool. `PoolTicketsConserved` and `PoolAnswersMatch` are not
  inductive. The invariant adds the *books* (backlog strictly increasing and below
  `nextTicket`, running tickets distinct and open, outcomes only for issued
  tickets) and the *channels*: for each slot, what is in the inbox, being run, half
  written or in the outbox is exactly the one ticket the slot is charged with, or
  nothing when it is idle. It is preserved in two halves: `NextBooks` shows that
  every action changes the books like one of a few bookkeeping steps and
  `BooksKept` that those keep them; `NextChannels` does the channels action by
  action. `PoolImplementsExecutor` maps the same bookkeeping steps to the abstract
  ones. `PoolNoInheritanceCycle` has an invariant of its own: forks give every
  child a time, and a child holds only ends of children with an earlier one.
  `PoolTypeCorrect` is the type invariant.
* `WorkerMapProofs`, `map()`. `MapKeepsOrder`: `map()` stores every Result in its own place
  and never outside; the place holds the output, unfilled bytes or nothing according to
  whether the job was answered, its answer was torn, or it had none (section 6 says what the
  comment promises instead); a job is left undone only when no worker is left, for any
  sequence of `map()` calls (`MixedUse = FALSE`: no ticket of `submit()` is in flight; with
  one the index leaves the array, section 6). It rests on the pool's invariant: a slot runs
  only tickets without an outcome. All tickets before `base` have one, or no worker is left
  to run them (`Earlier`), because an earlier call returned for just one of these reasons;
  for the first, `done` counts the settled tickets of the call exactly (`Counted`).
* `WakePipeProofs`. `WakeTypeCorrect` needs that a dispatch stays within the length it took,
  although callbacks append to the table meanwhile; it says that pipes and counts keep their
  bounds. `WakeHandlerTargetOpen`: whenever the handler may run, its target is open, with
  any number of reactors opening and closing. `WakeNeverLost`: with any number of reactors
  that open, close and open again, a signal counted for the handler's target since its pipe
  was opened has a byte in the pipe or is yet to be read by the dispatch under way, so the
  wait cannot sleep on it; full pipes, failing writes and counts at their limit included.
  `WakeCallsAtMostOnce`: callbacks made, callbacks owed by the ticks on the stack and counts
  still to be read never exceed the deliveries, however deeply ticks of several reactors
  nest.
* `ReactorProofs`. `ReactorCountsExact`: `nwatch` and `ntimers` are the cardinalities of
  the watch table and of the live timers; every action changes each table in one of a
  few ways, and those keep the counts. `ReactorWaitsForLive`: `next_timeout()` pops only
  cancelled entries, so that no live one is lost and the one it stops at is live and the
  least. `ReactorFiresInOrder` needs that what a callback adds is not earlier than the
  clock and that cancelled entries stay in the heap until they come to its top.
  `ReactorStaysWithWork`: `tick()` looks at counts, so that the loop does not end while a
  watch, a live timer, a routed signal or a foreign wait could wake it rests on
  `ReactorCountsExact`. `ReactorTypeCorrect` is the type invariant.
* `ServerConnProofs`. For any set of request streams, buffer, read and socket sizes, and
  up to the first head that is accepted although a coding was passed over (the mark
  `coding`; section 6 says what follows then).
  `ServerFramingHolds` and `ServerSinkToldOnce`: what is ahead of the server, the buffer
  followed by the socket's queue, is a chain of units from the place where the current
  request stands to the next unit the peer will send (`Framed`), and while a sink is
  open what it got and what it still expects make up the body its sender meant
  (`SinkFed`). `ServerWireInOrder`: wire, pending output and pending file together are
  in order and answer every request before the current one (`Answered`), so a step that
  moves units between them, or drops the connection, breaks nothing.
  `ServerNothingLeftBehind`: while no response had to wait, every place in `drive()`
  knows whether a whole request may still be in the buffer, whether the last response
  has gone and whether an upgrade is due (`Parted`). `ServerTypeCorrect` is the type
  invariant.
* `SupervisorProofs`. `SupervisorGivesUpOnCrashLoop`: the measured life of a dead
  worker is at least its real one, so the early-death counter never runs ahead of
  the real streak. `SupervisorTypeCorrect` is the type invariant.
* `BuildProofs`. `SharedObjectsHonest`: what `cached_object` renames into place is the
  finished compile of what its own digest says, for any number of builds that race and die;
  it needs that a temporary belongs to one builder and that no source changes during a
  build. `NoStaleObjectLinked` is not inductive: an object may be stale for a long time,
  while its build is killed and others run. The invariant says how staleness shows: an
  object that is not that of the C and the headers on disk is torn or older than one of them
  (`StaleShows`). That is kept because no file is newer than the clock (`Behind`), a build
  emits in a later second than every object of its program (`OlderWhileEmitting`) and is
  alone with it (`OneBuildEach`). So a module that a build has passed is current
  (`PassedOver`), and the link comes after all of them (`LinkComesLast`). The whole
  invariant was first checked with TLC on the instance of the run. `CleanBuildMakesProgram`:
  a finished `--clean` build leaves the program of its sources. The invariant follows one
  build: what it has emitted is what the sources yield (`EmittedSources`), the runtime's
  object is in place from emission on (`RuntimeReady`), and after `--clean` there is no
  executable, so the link is not skipped (`LinksAfresh`). Together with
  `NoStaleObjectLinked` every object on the link line is current; it is also of the right
  profile (`OwnInv`), although two profiles may name their objects alike, since `--clean`
  left none. Other builds work on other programs, and the shared cache only grows.
* `HeapProofs`. For any finite memory, any variables and any program, up to its first mishap
  (section 2, `Heap`): the invariant is `mishap = "none" => IInv`. `HeapRefsExact` needs the
  shape of the C stack: every release and every destructor stands above the store or the
  teardown that called it and is about the value that is overwritten there (`Nested`), an
  object whose destructor is on the stack has no count left and is there once (`DyingOnce`,
  which `HeapDestroysOnce` states), main still holds the object whose field it is writing
  (`OwnerKept`), and arena and heap objects do not mix (`ArenaApart`). `HeapWeakExact`
  follows the registry through the same steps. `HeapOnlyCyclesLeak` adds that a count is 0
  only while its object's destructor is on the stack (`ZeroDying`): when main runs every
  object has a referrer, and in a finite memory the way back from one that no variable leads
  to goes round in a circle. Reaching is defined as membership in every closed set, not by
  recursion, so that it can be reasoned about.

* `ReactiveProofs`. For any acyclic program of computeds, any effects and any depth of
  nesting. All five theorems rest on one invariant, `IInv`, because none of the properties
  is inductive and each needs what the others say of the graph in the middle of a walk:
  - the stack (`StackOK`): which frame may be somewhere above which (`Under`) and right
    above which (`Calls`). Pulls call only pulls, of ever lower rank, so no node is pulled
    twice; marks call only marks; a flush waits for every batch; an effect is run or
    checked once at a time.
  - a frame and its node (`FrameInv`): a node that computes is dirty, with exactly the
    edges of what it has read; one that is checked has found the sources it is done with
    unchanged, unless its verdict says otherwise.
  - the edges (`EdgeInv`): the two directions agree, and a version that was read is no
    later than the version now.
  - the graph (`CompInv`, `EffInv`): each source of a clean computed is clean and at the
    version that was read, or a mark is still on its way (`UpToDate`); and as long as the
    versions are those read, the value follows from theirs, although the edges of a
    computed depend on values (`ValueFits`). This is what lets a CHECK end without
    recomputing. The same for what an effect has seen.
  - the queue (`QueueInv`): an effect that is not clean is queued once, runs, is checked
    or was dropped; a queue that is not empty has somebody who will flush it. `FireInv`:
    an effect that has fired is neither queued nor marked again before the outermost call
    returns.

  `NoGlitch` and `EffectsSettle` then compare values with the reference by the least
  rank at which they could differ. `EffectsFireOnce`, `DisposedIsQuiet` and `TypesHold`
  follow more directly.
  The invariant was first checked with TLC on the instance of the run, which showed that
  earlier forms of it were not inductive (effects that open batches, effects not born yet).

Only model-checked: the thirteen liveness properties (`TicketsSettle`, `BacklogServed`,
`MapReturns`, `DeinitReturns`, `OrphansExit`, `WakeServed`, `SignalServed`, `TimersFire`,
`FdsServed`, `EndsWhenIdle`, `DrainEnds`, `SlowPeerDropped`, `DeadAreReplaced`), since the
prover has no support for fairness. Every other property of a passing run is a theorem.

## 6. Where the code and its comments disagree

With a run:

* `build_stale`: a program is not linked again when the changed runtime was already
  compiled by the build of another program, or by an earlier build before a revert:
  `cached_object` reports a hit as "nothing compiled", and the link depends on that
  (`main.c:400`, `1254`; `docs/getting-started.md:90-91`). This is for the runtime's C
  files; a change of `vyto_rt.h` recompiles the modules and so links (`main.c:1163`). A
  build that was killed between its compiles and its link leaves the wrong executable the
  same way, and so do two profiles in turn (one executable path) as long as they generate
  the same C: two compilers, say, or debug and release of a program without checked
  arithmetic. Where the C differs, the switch rewrites it, recompiles and links
  (`main.c:1139`, `1143`). `--clean` helps (`CleanBuildCurrent`).

Seen in the models, without a run of their own:

* A job longer than `W_MAX_FRAME` is refused before anything is written
  (`worker_shim.c:146`) and `dispatch` ignores that (`worker.vt:388`): the worker stays busy
  with nothing to answer until it dies or is killed, its ticket does not settle, and `map()`
  waits for it on a worker that is alive (`worker.vt:184-186`: "map()/callers never wait
  forever on a lost ticket"). `TicketsSettle`, `BacklogServed` and `MapReturns` say so: the
  first is for the other tickets, the others end also where only such workers are left. An
  answer that is too long ends its child, and the job's Result is empty. (Lengths of 2 GiB
  and more, which wrap when read as an `i32`, are not modelled.)
* A signal that arrives between the read and the clear of its count is lost
  (`wake_shim.c:294-299`; the comment at 292-293 says it cannot be). `missed` counts it,
  and `SignalServed` is about the others.
* `close()` restores `wake_r < 0` but keeps routes and counts, so `wakeable()` may follow
  (`reactor.vt:255`, `544-550`). A signal that was counted before the new pipe was opened,
  or whose byte `close()` discarded, has no byte in the new one: the wait sleeps on it
  until another signal comes. `NoLostWakeup` is about what was counted since.
* `waitpid(-1)` also reaps children the host process had before `run()`, those of a worker
  pool for instance (`server.vt:2416`): each resets the early-death count, since it has no
  birth time, and for each another worker is forked.
* With two workers that die at once, the backoff slept for one makes the other look
  long-lived when it is reaped; the early-death counter is reset and the supervisor
  never gives up (`server.vt:2421`; 2409-2410 says it "gives up rather than spinning").
* A pipelined request already in the buffer is not served when the response before it
  had to wait for the socket: at the next wakeup `drive()` flushes, then reads the
  socket (`server.vt:2335`; 2189-2192 says that would "strand a request that has already
  arrived").
* An effect that writes a signal it depends on is neither run again nor reported: it is
  DIRTY while it runs, so the mark is dropped, and `update()` then stores CLEAN
  (`reactive.vt:149`). The same happens to an effect that lets another run inside it: a
  `batch()` in its body flushes, an effect run there writes what the outer one has read, and
  its mark is dropped (hence `Calm`). When a computed lies between, that computed stays
  stale and later writes by anyone no longer reach the effect. `reactive.vt:35-36` says "we
  stop and report".
* A weak field of an arena object stays registered after `vt_region_close`; when its
  target dies, `vt_weak_on_free` writes into memory that is free or used again
  (`vyto_rt.c:395`; 484-485 says the registry never holds such an address). Mark `arena`.
* A destructor that stores `this` leaves a reference to an object that is freed when it
  returns (`vyto_rt.c:524`): mark `dying`. The same line runs the destructor twice when
  its body keeps `this` in a local variable, whose release takes the count from 1 to 0
  again; locals of destructors are not modelled.
* The receiver of `o.f = v` is not retained, and the old value is released before the
  store (`emit.c:1657-1660`). When that release runs a destructor that assigns `o.f` too,
  the outer store overwrites the inner one and the value it stored is never released
  (mark `twice`). When it ends `o` itself, which may be because only a weak reference led
  to it (`docs/memory.md:107-130` lets a path through one be narrowed), the store goes to
  a freed object (mark `owner`).
* A build killed in the middle of a compile or a link leaves a torn `.o` or executable
  in the program's own cache, newer than its sources: the next build takes it as current
  (a torn object makes the link fail; a torn executable is kept).
* An edit between the digest and the compile stores the new object under the old key
  (`main.c:404`), for every program and for `--clean` too. An edit in the second in
  which its object was written is not seen by the modification times.
* Dispatching to a worker that died idle ends the parent with SIGPIPE, since
  `w_write` uses write(2) (`worker.vt:390-392` says no job goes to a corpse).
* `map()` with a ticket outstanding indexes `results` below zero (`MixedUse`).
* `drive()` returns at the same place (server.vt:2335) before it looks at `keep` and
  `upgrade_cb`: after a response that had to wait, a connection announced as closing
  stays open, and an upgrade is forgotten until the connection ends.
* When more than the buffer's cap follows a streamed body in one read, the response
  of the upload is dropped and a 431 sent (server.vt:2157).
* Of several Transfer-Encoding fields only the last is looked at (server.vt:1470,
  1495-1496; the comment at 1481-1488 is to "refuse anything ambiguous"): `chunked`
  before `identity` is accepted with a body of length 0, and the chunks are parsed as the
  next request. The run has such a head; the properties about framing hold up to it.
* A static file that shrinks while it is sent leaves its response short, and the
  next one follows (server.vt:726).
* `sendfile()` on a dead socket counts as "would block"; the next drive() does not get
  to the read that would notice (server.vt:719-723), only the sweep does.
* A request within the cap is refused with 431 when the read that completes it also
  brings enough of the next one (`RecvOverflows`; server.vt:737 says the request exceeds
  the cap).
* In the blocking `serve_conn()`, which is not modelled, a body that arrives after its
  head leaves `used` negative for the next request (server.vt:1775-1803).
* A worker that dies between header and payload yields a Result of the right length whose
  bytes were never filled (`ReadTorn`; `worker.vt:197-203`), and `map()` stores it
  (`worker.vt:234`; 184-186 promises an empty Result). `MapInOrder` says that this, and
  nothing else, is where unfilled bytes come from.
* A checked-out worker that answers a `submitTo()` is given a backlog job
  (`AfterFrame` does not look at `held`; `worker.vt:98` and `266` say otherwise).
* After every worker died, `respawn()` does not start the backlog.
* With SIGTERM caught, `kill()` of an older worker waits for ever when a younger
  one holds its channel.
* A signal that arrives after the drain but before its count is read leaves a byte
  behind, and `on_wake` later runs without a `wake()` (`reactor.vt:333`).
* The handler's target is global: a second wakeable reactor takes the signals of the
  first, and closing it leaves nobody woken.
* A descriptor that an earlier callback of the round unwatched and watched again is
  called with the events of its predecessor (`reactor.vt:175-176`).
* `stop()` in a timer's callback abandons the ready descriptors of that tick
  (`reactor.vt:527-528`).
* When the fork of a replacement fails, the supervisor does not try again.

## 7. Plan

1. `ServerLoop`: the table of connections over an abstract `drive()`: the count,
   descriptor reuse within a batch, a full table, drain over several connections.
2. `PgSession`: ownership of the wire and draining.

## 8. Not modelled

The server's table of many connections, routing and the blocking `serve_conn()`, the
control channel of a worker (a byte stream with no protocol of its own), the Windows
branches, the growth of the reactor's slot table, the pool allocator and the arrays and
maps of the runtime (sequential; a map or array as an owner follows the same retain and
release), database sessions (planned), asset embedding and prebuilt libraries of the
build, the compiler's front and back end and the packager (large sequential functions of
text), the collections (sequential, tested directly), drawing, media, hardware and
platform bindings, and the vendored libraries (SQLite, PCRE2, zlib, micro-ecc, stb).

Of the C in the repository nearly all is vendored: SQLite alone is 236,000 of 367,000
lines, PCRE2 and zlib most of the rest. The program's own logic lies in the runtime, the
compiler and the vyto library, and that is what the modules are taken from.
