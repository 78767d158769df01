------------------------------ MODULE Reactive ------------------------------
(***************************************************************************)
(* The reactive domain of lib/vyto/reactive/reactive.vt: signals, memoised *)
(* computeds and effects, the walk that marks what a write made stale      *)
(* (mark), the pull that brings a node up to date (update), and the flush  *)
(* that runs the effects.                                                  *)
(*                                                                         *)
(* `frames` is the call stack: mark and update call themselves, an effect  *)
(* is user code that may read, write, batch, create and dispose, and a     *)
(* write flushes inside the effect that made it.  Computeds are pure.  An  *)
(* edge list is a set (of observers) or a function (from sources to the    *)
(* versions read), so a walk takes its elements in any order.  The domain  *)
(* roots every node until it is disposed: no weak back edge is null here.  *)
(***************************************************************************)
EXTENDS Naturals, Sequences, FiniteSets, SequencesExt

CONSTANTS
    Sig, Comp, Eff,   \* the nodes: signals, computeds, effects
    Prog,             \* Prog[c]: c reads .test, then .yes or .no, its value
    Rank,             \* an order in which the nodes can have been created
    MayRead,          \* MayRead[e]: what the body of effect e may read
    MayWrite,         \* MayWrite[e]: the signals it may write
    MayCreate,        \* MayCreate[e]: the effects it may create
    MayBatch,         \* the effects whose bodies may call batch()
    MaxFlush,         \* MAX_FLUSH
    MaxWrites,        \* bound: writes in a behaviour
    MaxBatch,         \* bound: batches open at a time
    MaxDepth          \* bound: frames of user code

Readable == Sig \cup Comp
Node == Readable \cup Eff
Value == {0, 1}
None == 2

Deps(c) == {Prog[c].test, Prog[c].yes, Prog[c].no}

ASSUME NodesAreApart ==
    /\ Sig \cap Comp = {} /\ Sig \cap Eff = {} /\ Comp \cap Eff = {}
    /\ IsFiniteSet(Comp)

\* A computed reads nodes that were there when its closure was made.
ASSUME ProgramsLookBack ==
    /\ Rank \in [Readable -> 0 .. Cardinality(Comp)]
    /\ \A c \in Comp : Deps(c) \subseteq Readable /\ \A n \in Deps(c) : Rank[n] < Rank[c]

ASSUME EffectsTouchNodes ==
    /\ \A e \in Eff : MayRead[e] \subseteq Readable /\ MayWrite[e] \subseteq Sig
                       /\ MayCreate[e] \subseteq Eff
    /\ MayBatch \subseteq Eff

ASSUME BoundsAreNumbers ==
    MaxFlush \in Nat /\ MaxWrites \in Nat /\ MaxBatch \in Nat /\ MaxDepth \in Nat

VARIABLES
    state, version, value,   \* of every node: "clean", "check" or "dirty"; ...
    sources,      \* what a node read, with the version it read
    observers,    \* who reads a node
    disposed,     \* the nodes that are disposed
    pending,      \* the queue of effects
    frames,       \* the call stack
    batch_depth,
    born,         \* effects that exist
    over,         \* Reactive.dispose() was called
    seen,         \* history: what each effect read in its latest run
    fired,        \* history: its flushed runs since the outermost call began
    reported,     \* history: a flush gave up
    writes        \* bound counter

graph == <<state, version, value, sources, observers, disposed, pending>>
vars == <<graph, frames, batch_depth, born, over, seen, fired, reported, writes>>

-----------------------------------------------------------------------------
(* The call stack.                                                         *)

RunFrame(e) == [kind |-> "run", node |-> e]
ComputeFrame(c) == [kind |-> "compute", node |-> c, at |-> "test"]
CheckFrame(n) ==
    [kind |-> "check", node |-> n, todo |-> DOMAIN sources[n], verdict |-> "clean"]
MarkFrame(n) == [kind |-> "mark", node |-> n, todo |-> observers[n]]
GetFrame(n) == [kind |-> "get", node |-> n]
FlushFrame == [kind |-> "flush", guard |-> 0]
BatchFrame == [kind |-> "batch"]

On(kind) == frames # <<>> /\ Last(frames).kind = kind
Runs == {i \in DOMAIN frames : frames[i].kind = "run"}
Running == {frames[i].node : i \in Runs}

\* Reactive.top(): the running effect that was pushed last.
Top == {frames[i].node : i \in {j \in Runs : \A k \in Runs : k <= j}}

UserCode == frames = <<>> \/ On("run") \/ On("batch")
Room == Len(frames) < MaxDepth

\* What the code that runs now may do.
May(outside, inside) == IF Top = {} THEN outside ELSE UNION {inside[e] : e \in Top}

\* An outermost call begins: the history of runs starts afresh.
Fired == IF frames = <<>> THEN [e \in Eff |-> 0] ELSE fired

-----------------------------------------------------------------------------
(* Edges.                                                                  *)

NoSources == [n \in {} |-> 0]

AddSource(o, s) ==
    /\ sources' = [sources EXCEPT ![o] =
           [n \in DOMAIN sources[o] \cup {s} |->
               IF n \in DOMAIN sources[o] THEN sources[o][n] ELSE version[n]]]
    /\ observers' = [observers EXCEPT ![s] = @ \cup {o}]

UnlinkSources(n) ==
    /\ sources' = [sources EXCEPT ![n] = NoSources]
    /\ observers' = [s \in Node |-> IF s \in DOMAIN sources[n] THEN observers[s] \ {n}
                                    ELSE observers[s]]

-----------------------------------------------------------------------------
Init ==
    /\ state = [n \in Node |-> IF n \in Comp THEN "dirty" ELSE "clean"]
    /\ version = [n \in Node |-> 0]
    /\ value = [n \in Readable |-> IF n \in Sig THEN 0 ELSE None]
    /\ sources = [n \in Node |-> NoSources]
    /\ observers = [n \in Node |-> {}]
    /\ disposed = {} /\ pending = <<>>
    /\ frames = <<>> /\ batch_depth = 0
    /\ born = {} /\ over = FALSE
    /\ seen = [e \in Eff |-> [n \in Readable |-> None]]
    /\ fired = [e \in Eff |-> 0]
    /\ reported = FALSE /\ writes = 0

(* Marking: only the first transition out of CLEAN is propagated.          *)

\* Signal.set, up to its loop: a write of an equal value does nothing.
Set(s, v) ==
    /\ UserCode /\ s \in May(Sig, MayWrite) /\ Room
    /\ writes < MaxWrites
    /\ value[s] # v
    /\ value' = [value EXCEPT ![s] = v]
    /\ version' = [version EXCEPT ![s] = @ + 1]
    /\ frames' = Append(frames, MarkFrame(s))
    /\ fired' = Fired
    /\ writes' = writes + 1
    /\ UNCHANGED <<state, sources, observers, disposed, pending, batch_depth, born, over,
                   seen, reported>>

\* Wrong on purpose: disposed nodes are marked too.
X_Ignores(n) == FALSE

\* The early return of mark() for a disposed node.
Ignores(n) == n \in disposed

\* What the loop of `from` marks its observers: a write makes them dirty.
Mark(from) == IF from \in Sig THEN "dirty" ELSE "check"

\* Wrong on purpose: an effect that only has to check is not queued.
X_Scheduled(n, from) ==
    IF n \in Eff /\ from \in Sig THEN Append(pending, n) ELSE pending

\* Reactive.schedule, for an effect that leaves CLEAN.
Scheduled(n, from) == IF n \in Eff THEN Append(pending, n) ELSE pending

\* One turn of the loop of mark or set: h.node.mark(...).
MarkObserver(o) ==
    /\ On("mark") /\ o \in Last(frames).todo
    /\ LET f == Last(frames)
           here == Append(Front(frames), [f EXCEPT !.todo = @ \ {o}])
       IN \/ /\ ~Ignores(o) /\ state[o] = "clean"
             /\ state' = [state EXCEPT ![o] = Mark(f.node)]
             /\ pending' = Scheduled(o, f.node)
             /\ frames' = Append(here, MarkFrame(o))
          \/ /\ ~Ignores(o) /\ state[o] # "clean"
             /\ state' = [state EXCEPT ![o] = IF f.node \in Sig THEN "dirty" ELSE @]
             /\ frames' = here /\ UNCHANGED pending
          \/ /\ Ignores(o)
             /\ frames' = here /\ UNCHANGED <<state, pending>>
    /\ UNCHANGED <<version, value, sources, observers, disposed, batch_depth, born, over,
                   seen, fired, reported, writes>>

\* Wrong on purpose: a write flushes inside a batch too.
X_AfterWrite(below) == Append(below, FlushFrame)

\* The end of Signal.set: flush unless a batch is open.
AfterWrite(below) == IF batch_depth = 0 THEN Append(below, FlushFrame) ELSE below

MarkEnds ==
    /\ On("mark") /\ Last(frames).todo = {}
    /\ frames' = IF Last(frames).node \in Sig THEN AfterWrite(Front(frames))
                 ELSE Front(frames)
    /\ UNCHANGED <<graph, batch_depth, born, over, seen, fired, reported, writes>>

-----------------------------------------------------------------------------
(* Pulling.                                                                *)

\* Where recompute calls recompute_self: the edges of n go, n is pushed.
Recompute(n, below) ==
    /\ UnlinkSources(n)
    /\ frames' = Append(below, IF n \in Eff THEN RunFrame(n) ELSE ComputeFrame(n))
    /\ seen' = [e \in Eff |-> IF e = n THEN [m \in Readable |-> None] ELSE seen[e]]

\* The history of runs, when n recomputes.
Ran(n) == [e \in Eff |-> IF e = n THEN fired[e] + 1 ELSE fired[e]]

\* The call n.update() of a stale node, by the frame on top of `below`.
Update(n, below) ==
    /\ n \notin disposed
    /\ \/ /\ state[n] = "check"
          /\ frames' = Append(below, CheckFrame(n))
          /\ UNCHANGED <<sources, observers, seen, fired>>
       \/ /\ state[n] = "dirty"
          /\ Recompute(n, below)
          /\ fired' = Ran(n)

\* What a computed reads next: its test, then the branch that selects.
Operand(f) ==
    LET p == Prog[f.node]
    IN IF f.at = "test" THEN p.test ELSE IF value[p.test] = 1 THEN p.yes ELSE p.no

\* The nodes the frame f has to bring up to date.
Wanted(f) ==
    {n \in Readable : \/ f.kind = "get" /\ n = f.node
                      \/ f.kind = "compute" /\ n = Operand(f)
                      \/ f.kind = "check" /\ n \in f.todo}

\* A frame updates a node that is stale.
Pull(n) ==
    /\ frames # <<>> /\ n \in Wanted(Last(frames))
    /\ Update(n, frames)
    /\ UNCHANGED <<state, version, value, disposed, pending, batch_depth, born, over,
                   reported, writes>>

\* Signal.get and Computed.get are called, by an effect or outside every effect.
Get(n) ==
    /\ UserCode /\ n \in May(Readable, MayRead)
    /\ frames' = Append(frames, GetFrame(n))
    /\ UNCHANGED <<graph, batch_depth, born, over, seen, fired, reported, writes>>

\* get(), after update: track the running effect, return the value.
GetReturns ==
    /\ On("get")
    /\ LET n == Last(frames).node
       IN /\ state[n] = "clean"
          /\ IF Top = {} THEN UNCHANGED <<sources, observers>>
             ELSE AddSource(CHOOSE e \in Top : TRUE, n)
          /\ seen' = [e \in Eff |-> IF e \in Top THEN [seen[e] EXCEPT ![n] = value[n]]
                                    ELSE seen[e]]
    /\ frames' = Front(frames)
    /\ UNCHANGED <<state, version, value, disposed, pending, batch_depth, born, over, fired,
                   reported, writes>>

\* A computed has read its test, and goes on to the branch.
ComputeBranches ==
    /\ On("compute") /\ Last(frames).at = "test"
    /\ LET f == Last(frames)
       IN /\ state[Operand(f)] = "clean"
          /\ AddSource(f.node, Operand(f))
          /\ frames' = Append(Front(frames), [f EXCEPT !.at = "branch"])
    /\ UNCHANGED <<state, version, value, disposed, pending, batch_depth, born, over, seen,
                   fired, reported, writes>>

\* The end of recompute_self and of update: the version moves with the value.
ComputeEnds ==
    /\ On("compute") /\ Last(frames).at = "branch"
    /\ LET f == Last(frames)
           c == f.node
           v == value[Operand(f)]
       IN /\ state[Operand(f)] = "clean"
          /\ AddSource(c, Operand(f))
          /\ value' = [value EXCEPT ![c] = v]
          /\ version' = [version EXCEPT ![c] = IF value[c] # v THEN @ + 1 ELSE @]
          /\ state' = [state EXCEPT ![c] = "clean"]
    /\ frames' = Front(frames)
    /\ UNCHANGED <<disposed, pending, batch_depth, born, over, seen, fired, reported, writes>>

\* Wrong on purpose: only the last source counts.
X_Compared(f, n) ==
    [f EXCEPT !.todo = @ \ {n},
              !.verdict = IF version[n] # sources[f.node][n] THEN "dirty" ELSE "clean"]

\* The version of the source n is compared with the version that was read.
Compared(f, n) ==
    [f EXCEPT !.todo = @ \ {n},
              !.verdict = IF version[n] # sources[f.node][n] THEN "dirty" ELSE @]

\* One turn of the CHECK loop, its source being up to date.
CheckSource(n) ==
    /\ On("check") /\ n \in Last(frames).todo /\ state[n] = "clean"
    /\ frames' = Append(Front(frames), Compared(Last(frames), n))
    /\ UNCHANGED <<graph, batch_depth, born, over, seen, fired, reported, writes>>

\* The end of the CHECK loop: recompute if a version moved.
CheckEnds ==
    /\ On("check") /\ Last(frames).todo = {}
    /\ LET f == Last(frames)
       IN /\ state' = [state EXCEPT ![f.node] = f.verdict]
          /\ \/ /\ f.verdict = "clean"
                /\ frames' = Front(frames)
                /\ UNCHANGED <<sources, observers, seen, fired>>
             \/ /\ f.verdict = "dirty"
                /\ Recompute(f.node, Front(frames))
                /\ fired' = Ran(f.node)
    /\ UNCHANGED <<version, value, disposed, pending, batch_depth, born, over, reported,
                   writes>>

-----------------------------------------------------------------------------
(* Batches, effects, the flush.                                            *)

\* batch(): up to the call of f.
BatchBegin ==
    /\ UserCode /\ Top \subseteq MayBatch /\ Room /\ batch_depth < MaxBatch
    /\ batch_depth' = batch_depth + 1
    /\ frames' = Append(frames, BatchFrame)
    /\ fired' = Fired
    /\ UNCHANGED <<graph, born, over, seen, reported, writes>>

\* batch(): f returned.
BatchEnd ==
    /\ On("batch")
    /\ batch_depth' = batch_depth - 1
    /\ frames' = IF batch_depth = 1 THEN Append(Front(frames), FlushFrame) ELSE Front(frames)
    /\ UNCHANGED <<graph, born, over, seen, fired, reported, writes>>

\* effect(): the node is created and runs at once.
NewEffect(e) ==
    /\ UserCode /\ Room
    /\ e \in May(Eff, MayCreate) \ born /\ ~over
    /\ born' = born \cup {e}
    /\ state' = [state EXCEPT ![e] = "dirty"]
    /\ Recompute(e, frames)
    /\ fired' = Fired
    /\ UNCHANGED <<version, value, disposed, pending, batch_depth, over, reported, writes>>

\* The body of the effect on top returns: pop_obs, then update stores CLEAN.
Return ==
    /\ On("run")
    /\ state' = [state EXCEPT ![Last(frames).node] = "clean"]
    /\ frames' = Front(frames)
    /\ UNCHANGED <<version, value, sources, observers, disposed, pending, batch_depth, born,
                   over, seen, fired, reported, writes>>

\* ReactiveNode.dispose of an effect, which may be queued or running.
DisposeEffect(e) ==
    /\ UserCode /\ e \in born \ disposed
    /\ disposed' = disposed \cup {e}
    /\ UnlinkSources(e)
    /\ state' = [state EXCEPT ![e] = "clean"]
    /\ UNCHANGED <<version, value, pending, frames, batch_depth, born, over, seen, fired,
                   reported, writes>>

\* Reactive.dispose, called while no effect runs: every node is disposed.
DisposeDomain ==
    /\ frames = <<>> /\ ~over
    /\ over' = TRUE
    /\ disposed' = Readable \cup born \cup disposed
    /\ state' = [n \in Node |-> IF n \in disposed' THEN "clean" ELSE state[n]]
    /\ sources' = [n \in Node |-> IF n \in disposed' THEN NoSources ELSE sources[n]]
    /\ observers' = [n \in Node |-> observers[n] \ disposed']
    /\ pending' = <<>>
    /\ UNCHANGED <<version, value, frames, batch_depth, born, seen, fired, reported, writes>>

\* One turn of the loop of flush: e.update(), which returns at once when e was
\* disposed meanwhile.
FlushNext ==
    /\ On("flush") /\ pending # <<>> /\ Last(frames).guard < MaxFlush
    /\ pending' = Tail(pending)
    /\ LET e == Head(pending)
           here == Append(Front(frames), [Last(frames) EXCEPT !.guard = @ + 1])
       IN \/ Update(e, here) /\ UNCHANGED state
          \/ /\ state[e] = "clean" \/ e \in disposed
             /\ state' = [state EXCEPT ![e] = "clean"]
             /\ frames' = here
             /\ UNCHANGED <<sources, observers, seen, fired>>
    /\ UNCHANGED <<version, value, disposed, batch_depth, born, over, reported, writes>>

\* The runaway guard: the queue is dropped.
FlushAbort ==
    /\ On("flush") /\ pending # <<>> /\ Last(frames).guard >= MaxFlush
    /\ pending' = <<>>
    /\ frames' = Front(frames)
    /\ reported' = TRUE
    /\ UNCHANGED <<state, version, value, sources, observers, disposed, batch_depth, born,
                   over, seen, fired, writes>>

\* The queue is empty.  on_flush may do what the code below may do.
FlushDone ==
    /\ On("flush") /\ pending = <<>>
    /\ frames' = Front(frames)
    /\ UNCHANGED <<graph, batch_depth, born, over, seen, fired, reported, writes>>

Next ==
    \/ \E n \in Readable : Get(n) \/ Pull(n) \/ CheckSource(n)
    \/ GetReturns \/ ComputeBranches \/ ComputeEnds \/ CheckEnds
    \/ \E s \in Sig, v \in Value : Set(s, v)
    \/ \E o \in Node : MarkObserver(o)
    \/ MarkEnds
    \/ BatchBegin \/ BatchEnd
    \/ \E e \in Eff : NewEffect(e) \/ DisposeEffect(e)
    \/ Return \/ DisposeDomain
    \/ FlushNext \/ FlushAbort \/ FlushDone

Spec == Init /\ [][Next]_vars

-----------------------------------------------------------------------------
(* Reference: a computed is a function of the signals.                     *)

\* The values of all nodes that fit the signals as they are.
Readings ==
    {v \in [Readable -> Value] :
        /\ \A s \in Sig : v[s] = value[s]
        /\ \A c \in Comp : v[c] = v[IF v[Prog[c].test] = 1 THEN Prog[c].yes ELSE Prog[c].no]}

Current == CHOOSE v \in Readings : TRUE

\* What an effect may depend on, through computeds.
DependsOn == [e \in Eff |->
    {n \in Readable :
        \A T \in SUBSET Readable :
            MayRead[e] \subseteq T /\ (\A c \in T \cap Comp : Deps(c) \subseteq T) => n \in T}]

\* The effects that depend on nothing an effect writes.
Unfed == {e \in Eff : \A f \in Eff : MayWrite[f] \cap DependsOn[e] = {}}

\* Nothing that runs inside a run of the effect writes what it depends on: its
\* body starts nothing, or what it depends on is written outside effects only.
Calm == {e \in Eff : \/ MayWrite[e] = {} /\ MayCreate[e] = {} /\ e \notin MayBatch
                     \/ e \in Unfed}

Live == born \ disposed

TypeOK ==
    /\ state \in [Node -> {"clean", "check", "dirty"}]
    /\ version \in [Node -> Nat]
    /\ value \in [Readable -> Value \cup {None}]
    /\ disposed \subseteq Node /\ born \subseteq Eff
    /\ pending \in Seq(Eff)
    /\ batch_depth = Cardinality({i \in DOMAIN frames : frames[i].kind = "batch"})
    /\ fired \in [Eff -> Nat]

\* Glitch-freedom: once a write has marked what depends on it, a computed that
\* counts as current holds exactly what its function gives for the signals as
\* they are now, whatever writes, cut-offs and changes of branch came before
\* (Computed.get returns the cached value).
ComputedsCurrent ==
    ~On("mark") =>
        LET now == Current
        IN \A c \in Comp \ disposed : state[c] = "clean" => value[c] = now[c]

\* An effect that does not write what it depends on, nor starts one that does:
\* once the outermost set() or batch() has returned, it has seen the current
\* value of everything it read in its latest run.
Settled ==
    frames = <<>> /\ ~reported =>
        LET now == Current
        IN \A e \in Live \cap Calm : \A n \in Readable : seen[e][n] \in {None, now[n]}

\* An effect fires at most once per batch (or single write), when no effect
\* writes what it depends on.
FiresOnce == \A e \in Unfed : fired[e] <= 1

\* An effect disposed while it is queued, stale or running, even one that
\* goes on reading after it disposed itself, is never queued or run again.
DisposedStaysQuiet ==
    [][\A e \in disposed \cap Eff :
          /\ Contains(pending', e) => Contains(pending, e)
          /\ e \in Running' => e \in Running]_vars
=============================================================================
