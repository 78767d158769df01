----------------------------- MODULE Supervisor -----------------------------
(***************************************************************************)
(* vyto/net/server, Server.run(): the pre-fork supervisor that re-forks    *)
(* workers that die, backs off when they die on arrival, and gives up when *)
(* that keeps happening.                                                   *)
(*                                                                         *)
(* Time is measured in ages: what the code computes as mono_ms() - born[i] *)
(* is age[i], which keeps growing after the worker is dead, because the    *)
(* clock is read when the supervisor gets round to reaping it. Ages and    *)
(* lifetimes are only compared with FastMs and stop growing there.         *)
(***************************************************************************)
EXTENDS Integers, FiniteSets

CONSTANTS
    N,             \* workers
    Foreign,       \* children the process had before run(), a worker pool's say
    FastMs,        \* crash_fast_ms
    GiveUp,        \* crash_give_up
    BackoffMin,    \* CRASH_BACKOFF_MIN_MS
    BackoffMax,    \* crash_backoff_max_ms
    Life           \* a worker dies at this age at the latest; FastMs: it need not

ASSUME SupervisorAssumption ==
    /\ N \in Nat \ {0}
    /\ Foreign \in Nat
    /\ FastMs \in Nat \ {0}
    /\ GiveUp \in Nat \ {0}
    /\ BackoffMin \in Nat \ {0}
    /\ BackoffMax \in Nat \ {0} /\ BackoffMin <= BackoffMax
    /\ Life \in 0 .. FastMs

\* The workers, and a place for the worker that each foreign child's death adds.
Workers == 0 .. N + Foreign - 1

VARIABLES
    at,       \* "start", "wait" (in waitpid), "sleep", "fork", "gaveup", "done"
    cur,      \* start: the worker to fork next; sleep, fork: the dead one
    state,    \* of a worker: "none", "up", "dead" (not reaped), "gone" (reaped, to
              \* be replaced), "lost" (its replacement could not be forked);
              \* "foreign" while the process of that place is not a worker
    age,      \* time since its fork
    lived,    \* history: its age when it died
    fast,     \* fast_deaths
    backoff,
    left,     \* what is left of sleepMs
    streak    \* history: consecutive reaped workers that lived less than FastMs

vars == <<at, cur, state, age, lived, fast, backoff, left, streak>>

Least(a, b) == IF a < b THEN a ELSE b

-----------------------------------------------------------------------------
Init ==
    /\ at = "start"
    /\ cur = 0
    /\ state = [w \in Workers |-> IF w < N THEN "none" ELSE "foreign"]
    /\ age = [w \in Workers |-> 0]
    /\ lived = [w \in Workers |-> 0]
    /\ fast = 0
    /\ backoff = BackoffMin
    /\ left = 0
    /\ streak = 0

\* fork() in the supervisor returned the pid of worker w.
Forked(w) ==
    /\ state' = [state EXCEPT ![w] = "up"]
    /\ age' = [age EXCEPT ![w] = 0]

\* The first loop: fork the workers; the first failure ends it, and no worker
\* at all is a failed start.
StartWorker ==
    /\ at = "start"
    /\ \/ /\ Forked(cur)
          /\ IF cur + 1 < N THEN cur' = cur + 1 /\ at' = at
                            ELSE cur' = cur /\ at' = "wait"
       \/ /\ at' = IF cur = 0 THEN "done" ELSE "wait"
          /\ UNCHANGED <<cur, state, age>>
    /\ UNCHANGED <<lived, fast, backoff, left, streak>>

\* Wrong on purpose: a worker that lived long does not reset the count.
ReapSlow_NoReset(w) ==
    /\ age[w] >= FastMs
    /\ at' = "fork"
    /\ UNCHANGED <<fast, backoff, left>>

\* The reaped worker did real work before it died.
ReapSlow(w) ==
    /\ age[w] >= FastMs
    /\ fast' = 0
    /\ backoff' = BackoffMin
    /\ at' = "fork"
    /\ UNCHANGED left

\* The reaped worker died on arrival: give up, or back off and try again.
ReapFast(w) ==
    /\ age[w] < FastMs
    /\ fast' = fast + 1
    /\ \/ /\ fast + 1 >= GiveUp
          /\ at' = "gaveup"
          /\ UNCHANGED <<left, backoff>>
       \/ /\ fast + 1 < GiveUp
          /\ at' = "sleep"
          /\ left' = backoff
          /\ backoff' = Least(2 * backoff, BackoffMax)

\* waitpid(-1) returns a dead worker.
Reap(w) ==
    /\ at = "wait"
    /\ state[w] = "dead"
    /\ cur' = w
    /\ state' = [state EXCEPT ![w] = "gone"]
    /\ ReapSlow(w) \/ ReapFast(w)
    /\ streak' = IF lived[w] < FastMs THEN Least(streak + 1, GiveUp) ELSE 0
    /\ UNCHANGED <<age, lived>>

\* waitpid(-1) returns a child that is not in kids: lived is -1, which counts as
\* a long life, and a worker is forked in its place.
ReapForeign(w) ==
    /\ at = "wait"
    /\ state[w] = "foreign"
    /\ cur' = w
    /\ state' = [state EXCEPT ![w] = "gone"]
    /\ fast' = 0
    /\ backoff' = BackoffMin
    /\ at' = "fork"
    /\ UNCHANGED <<age, lived, left, streak>>

\* waitpid(-1) has no child left to wait for: run() returns true.
NoChildren ==
    /\ at = "wait"
    /\ \A w \in Workers : state[w] \in {"none", "lost"}
    /\ at' = "done"
    /\ UNCHANGED <<cur, state, age, lived, fast, backoff, left, streak>>

\* Wrong on purpose: back to waitpid, without the replacement.
Wakes_NoFork ==
    /\ at = "sleep"
    /\ left = 0
    /\ at' = "wait"
    /\ UNCHANGED <<cur, state, age, lived, fast, backoff, left, streak>>

\* sleepMs(backoff) returns.
Wakes ==
    /\ at = "sleep"
    /\ left = 0
    /\ at' = "fork"
    /\ UNCHANGED <<cur, state, age, lived, fast, backoff, left, streak>>

\* The replacement takes the dead worker's place. When fork() fails the place
\* stays empty.
Refork ==
    /\ at = "fork"
    /\ \/ Forked(cur)
       \/ /\ state' = [state EXCEPT ![cur] = "lost"]
          /\ UNCHANGED age
    /\ at' = "wait"
    /\ UNCHANGED <<cur, lived, fast, backoff, left, streak>>

-----------------------------------------------------------------------------
\* A worker exits or crashes.
WorkerDies(w) ==
    /\ state[w] = "up"
    /\ state' = [state EXCEPT ![w] = "dead"]
    /\ lived' = [lived EXCEPT ![w] = age[w]]
    /\ UNCHANGED <<at, cur, age, fast, backoff, left, streak>>

\* One unit of time passes. The supervisor's own statements take none of it.
TimePasses ==
    /\ at \in {"wait", "sleep"}
    /\ at = "wait" => \A w \in Workers : state[w] # "dead"
    /\ at = "sleep" => left > 0
    /\ \A w \in Workers : state[w] = "up" => Life = FastMs \/ age[w] < Life
    /\ age' = [w \in Workers |-> Least(age[w] + 1, FastMs)]
    /\ left' = IF at = "sleep" THEN left - 1 ELSE left
    /\ UNCHANGED <<at, cur, state, lived, fast, backoff, streak>>

Ended ==
    /\ at \in {"gaveup", "done"}
    /\ UNCHANGED vars

Next ==
    \/ StartWorker \/ NoChildren \/ Wakes \/ Refork \/ TimePasses \/ Ended
    \/ \E w \in Workers : Reap(w) \/ ReapForeign(w) \/ WorkerDies(w)

Spec == Init /\ [][Next]_vars

\* The supervisor is scheduled and time passes. waitpid(-1) scans the children in
\* the order of their forks, so no dead one is passed over for ever. Workers that
\* must die by age Life do; the others may live for ever.
Fairness ==
    /\ WF_vars(StartWorker \/ NoChildren \/ Wakes \/ Refork)
    /\ \A w \in Workers : SF_vars(Reap(w))
    /\ WF_vars(TimePasses)
    /\ Life < FastMs => \A w \in Workers : WF_vars(WorkerDies(w))

FairSpec == Spec /\ Fairness

-----------------------------------------------------------------------------
(* Properties.                                                               *)

\* The type invariant of the supervisor.
TypeOK ==
    /\ at \in {"start", "wait", "sleep", "fork", "gaveup", "done"}
    /\ cur \in Workers
    /\ state \in [Workers -> {"none", "up", "dead", "gone", "lost", "foreign"}]
    /\ age \in [Workers -> 0 .. FastMs]
    /\ lived \in [Workers -> 0 .. FastMs]
    /\ fast \in 0 .. GiveUp
    /\ backoff \in BackoffMin .. BackoffMax
    /\ left \in 0 .. BackoffMax
    /\ streak \in 0 .. GiveUp

\* The supervisor gives up only on a crash loop: the last GiveUp workers it
\* reaped all died within FastMs of their own fork. A worker that did real work
\* in between never counts towards giving up, however late it was reaped.
GivesUpOnCrashLoop == at = "gaveup" => streak >= GiveUp

\* "re-fork whatever dies": a worker that died is replaced, in whatever order
\* the workers die and however long each has to wait, unless the supervisor
\* gives up or the fork() of its replacement fails.
DeadAreReplaced ==
    \A w \in Workers :
        state[w] = "dead" ~> state[w] \in {"up", "lost"} \/ at = "gaveup"
=============================================================================
