-------------------------- MODULE SupervisorProofs --------------------------
(***************************************************************************)
(* For any number of workers and any crash policy: the supervisor's state  *)
(* is well typed, and it gives up only on a crash loop.                    *)
(***************************************************************************)
EXTENDS Supervisor, TLAPS

\* What the code takes for a lifetime is never shorter than the real one, and
\* the counter of fast deaths never runs ahead of the real streak.
Counting ==
    /\ \A w \in Workers : state[w] = "dead" => lived[w] <= age[w]
    /\ fast <= streak
    /\ at # "gaveup" => fast < GiveUp
    /\ at = "gaveup" => fast = GiveUp

IInv == TypeOK /\ Counting

(* Least is one of its arguments and bounded by both.                        *)
LEMMA LeastFact ==
  ASSUME NEW a \in Int, NEW b \in Int
  PROVE  Least(a, b) \in {a, b} /\ Least(a, b) <= a /\ Least(a, b) <= b
    BY DEF Least

(* The initial state satisfies the invariant.                                *)
LEMMA InitIInv == Init => IInv
    BY SupervisorAssumption DEF Init, IInv, TypeOK, Counting, Workers

(* A reaped worker: the three numbers stay in range and in step.             *)
LEMMA ReapKeeps ==
  ASSUME IInv, NEW w \in Workers, Reap(w)
  PROVE  IInv'
<1>a. /\ FastMs \in Nat /\ GiveUp \in Nat \ {0} /\ BackoffMin \in Nat /\ BackoffMax \in Nat
      /\ BackoffMin <= BackoffMax /\ BackoffMin > 0
    BY SupervisorAssumption
<1>b. /\ fast \in Nat /\ streak \in 0 .. GiveUp /\ fast <= streak /\ fast < GiveUp
      /\ lived[w] \in Nat /\ age[w] \in Nat /\ lived[w] <= age[w]
      /\ backoff \in BackoffMin .. BackoffMax /\ left \in 0 .. BackoffMax
      /\ state \in [Workers -> {"none", "up", "dead", "gone", "lost", "foreign"}]
    BY <1>a DEF Reap, IInv, TypeOK, Counting
<1>1. /\ state' = [state EXCEPT ![w] = "gone"] /\ cur' = w
      /\ UNCHANGED <<age, lived>>
      /\ streak' = IF lived[w] < FastMs THEN Least(streak + 1, GiveUp) ELSE 0
    BY DEF Reap
<1>2. /\ state' \in [Workers -> {"none", "up", "dead", "gone", "lost", "foreign"}]
      /\ \A v \in Workers : state'[v] = "dead" => state[v] = "dead"
    BY <1>b, <1>1
<1>3. streak' \in 0 .. GiveUp
    BY <1>a, <1>b, <1>1 DEF Least
<1>4. CASE ReapSlow(w)
    BY <1>a, <1>b, <1>1, <1>2, <1>3, <1>4 DEF ReapSlow, IInv, TypeOK, Counting
<1>5. CASE ReapFast(w)
  <2>1. lived[w] < FastMs /\ fast' = fast + 1 /\ streak' = Least(streak + 1, GiveUp)
    BY <1>a, <1>b, <1>1, <1>5 DEF ReapFast
  <2>2. fast' <= streak' /\ fast' \in 0 .. GiveUp
    BY <1>a, <1>b, <2>1 DEF Least
  <2>3. CASE fast + 1 >= GiveUp
    BY <1>a, <1>b, <1>1, <1>2, <1>3, <1>5, <2>1, <2>2, <2>3
    DEF ReapFast, IInv, TypeOK, Counting
  <2>4. CASE fast + 1 < GiveUp
    <3>1. backoff' \in BackoffMin .. BackoffMax
      BY <1>a, <1>b, <1>5, <2>4 DEF ReapFast, Least
    <3>2. at' = "sleep" /\ left' \in 0 .. BackoffMax
      BY <1>a, <1>b, <1>5, <2>4 DEF ReapFast
    <3>3. QED
      BY <1>a, <1>b, <1>1, <1>2, <1>3, <2>1, <2>2, <2>4, <3>1, <3>2
      DEF IInv, TypeOK, Counting
  <2>5. QED
    BY <1>a, <1>b, <2>3, <2>4
<1>6. QED
    BY <1>4, <1>5 DEF Reap

(* Every step keeps the invariant.                                           *)
LEMMA NextIInv == IInv /\ [Next]_vars => IInv'
<1> SUFFICES ASSUME IInv, [Next]_vars PROVE IInv'
    OBVIOUS
<1>a. N \in Nat \ {0} /\ Foreign \in Nat /\ FastMs \in Nat \ {0} /\ GiveUp \in Nat \ {0}
    BY SupervisorAssumption
<1> USE <1>a
<1>1. CASE StartWorker
  <2>1. cur \in 0 .. N + Foreign - 1 /\ at = "start"
    BY <1>1 DEF StartWorker, IInv, TypeOK, Workers
  <2>2. CASE Forked(cur) /\ (IF cur + 1 < N THEN cur' = cur + 1 /\ at' = at
                                            ELSE cur' = cur /\ at' = "wait")
    <3>1. cur' \in Workers /\ at' \in {"start", "wait"}
      BY <2>1, <2>2 DEF Workers
    <3>2. QED
      BY <1>1, <2>1, <2>2, <3>1 DEF StartWorker, Forked, IInv, TypeOK, Counting
  <2>3. CASE at' = (IF cur = 0 THEN "done" ELSE "wait") /\ UNCHANGED <<cur, state, age>>
    BY <1>1, <2>1, <2>3 DEF StartWorker, IInv, TypeOK, Counting
  <2>4. QED
    BY <1>1, <2>2, <2>3 DEF StartWorker
<1>2. CASE NoChildren
    BY <1>2 DEF NoChildren, IInv, TypeOK, Counting
<1>3. CASE Wakes
    BY <1>3 DEF Wakes, IInv, TypeOK, Counting
<1>4. CASE Refork
    BY <1>4 DEF Refork, Forked, IInv, TypeOK, Counting
<1>5. CASE TimePasses
  <2>1. age' \in [Workers -> 0 .. FastMs] /\ \A w \in Workers : age[w] <= age'[w]
    BY <1>5 DEF TimePasses, IInv, TypeOK, Least
  <2>2. left' \in 0 .. BackoffMax
    BY <1>5, SupervisorAssumption DEF TimePasses, IInv, TypeOK
  <2>3. \A w \in Workers : lived[w] <= age[w] => lived[w] <= age'[w]
    BY <2>1 DEF IInv, TypeOK
  <2>4. QED
    BY <1>5, <2>1, <2>2, <2>3 DEF TimePasses, IInv, TypeOK, Counting
<1>6. CASE Ended \/ UNCHANGED vars
    BY <1>6 DEF Ended, vars, IInv, TypeOK, Counting
<1>7. ASSUME NEW w \in Workers, Reap(w) PROVE IInv'
    BY <1>7, ReapKeeps
<1>8. ASSUME NEW w \in Workers, WorkerDies(w) PROVE IInv'
    BY <1>8 DEF WorkerDies, IInv, TypeOK, Counting
<1>9. ASSUME NEW w \in Workers, ReapForeign(w) PROVE IInv'
    BY <1>9, SupervisorAssumption DEF ReapForeign, IInv, TypeOK, Counting
<1>10. QED
    BY <1>1, <1>2, <1>3, <1>4, <1>5, <1>6, <1>7, <1>8, <1>9 DEF Next

(* The invariant holds throughout.                                           *)
LEMMA SupervisorInvariant == Spec => []IInv
    BY InitIInv, NextIInv, PTL DEF Spec

(* Server.run() keeps its counters and timers in range, for any number of    *)
(* workers and any crash policy.                                             *)
THEOREM SupervisorTypeCorrect == Spec => []TypeOK
    BY SupervisorInvariant, PTL DEF IInv

(* Server.run() never gives up on a service whose workers do real work       *)
(* between deaths: its last GiveUp reaped workers all died on arrival. What  *)
(* it measures at reaping time overstates a lifetime, so the counter can     *)
(* only err on the side of carrying on.                                      *)
THEOREM SupervisorGivesUpOnCrashLoop == Spec => []GivesUpOnCrashLoop
<1>1. IInv => GivesUpOnCrashLoop
    BY SupervisorAssumption DEF IInv, TypeOK, Counting, GivesUpOnCrashLoop
<1>2. QED
    BY <1>1, SupervisorInvariant, PTL
=============================================================================
