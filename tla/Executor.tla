------------------------------ MODULE Executor ------------------------------
(***************************************************************************)
(* What a WorkerPool promises its caller about tickets, with no workers,   *)
(* processes or channels: a FIFO backlog, a set of jobs being run, and the *)
(* jobs that came back or were abandoned by kill(). A ticket is answered   *)
(* at most once, only a running job is answered, and the backlog is served *)
(* in the order it was filled.                                             *)
(***************************************************************************)
EXTENDS Integers, Sequences

VARIABLES issued, queue, running, answered, dropped

execVars == <<issued, queue, running, answered, dropped>>

ExecInit ==
    /\ issued = 0
    /\ queue = <<>>
    /\ running = {}
    /\ answered = {}
    /\ dropped = {}

\* A new job goes straight to a worker or to the end of the backlog.
Accept ==
    /\ issued' = issued + 1
    /\ \/ running' = running \cup {issued} /\ UNCHANGED queue
       \/ queue' = Append(queue, issued) /\ UNCHANGED running
    /\ UNCHANGED <<answered, dropped>>

\* The oldest backlog entry starts on a worker that a caller released.
Start ==
    /\ queue # <<>>
    /\ running' = running \cup {Head(queue)}
    /\ queue' = Tail(queue)
    /\ UNCHANGED <<issued, answered, dropped>>

\* A running job is answered; the worker may take the oldest backlog entry.
Answer(t) ==
    /\ t \in running
    /\ answered' = answered \cup {t}
    /\ \/ running' = running \ {t} /\ UNCHANGED queue
       \/ /\ queue # <<>>
          /\ running' = (running \ {t}) \cup {Head(queue)}
          /\ queue' = Tail(queue)
    /\ UNCHANGED <<issued, dropped>>

\* The worker running t is killed by the caller.
Abandon(t) ==
    /\ t \in running
    /\ running' = running \ {t}
    /\ dropped' = dropped \cup {t}
    /\ UNCHANGED <<issued, queue, answered>>

ExecNext == Accept \/ Start \/ \E t \in running : Answer(t) \/ Abandon(t)

ExecSpec == ExecInit /\ [][ExecNext]_execVars
=============================================================================
