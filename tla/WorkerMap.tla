------------------------------ MODULE WorkerMap ------------------------------
(***************************************************************************)
(* WorkerPool.map(): submit every input, then poll() the pool's own        *)
(* PollSet until all outputs are in or no worker is left. Outputs are      *)
(* stored at results[ticket - base], and every Result counts, whoever      *)
(* submitted it.                                                           *)
(***************************************************************************)
EXTENDS WorkerPool

CONSTANTS
    MaxInputs,      \* bound: inputs of one map() call
    MixedUse        \* the caller also uses submit, checkout, release, respawn

ASSUME MapAssumption == MaxInputs \in Nat \ {0} /\ MixedUse \in BOOLEAN

VARIABLES
    mapAt,      \* "out": not in map(); "submit"; "poll"; "panic": index error
    base,       \* nextTicket when map() was entered
    inputs,     \* number of inputs
    done,       \* Results counted
    results     \* results[k]: what the caller will read for input k

mapVars == <<mapAt, base, inputs, done, results>>
allVars == <<vars, mapVars>>

MapInit ==
    /\ Init
    /\ mapAt = "out"
    /\ base = 0
    /\ inputs = 0
    /\ done = 0
    /\ results = <<>>

\* Live workers, as size() counts them.
Size == Cardinality({w \in Slots : Alive(w)})

-----------------------------------------------------------------------------
\* map() is entered with k inputs.
MapCall(k) ==
    /\ mapAt = "out" /\ UserTurn
    /\ nextTicket + k <= MaxTickets
    /\ mapAt' = "submit"
    /\ base' = nextTicket
    /\ inputs' = k
    /\ done' = 0
    /\ results' = <<>>
    /\ UNCHANGED vars

\* for (inp in inputs) submit(inp)
MapSubmit ==
    /\ mapAt = "submit"
    /\ nextTicket < base + inputs
    /\ Submit
    /\ UNCHANGED mapVars

\* What results[k] holds when it is not an output: no bytes at all, or a buffer
\* of the announced length that nothing was read into.
Empty == -1
Unfilled == -2

\* The bytes of a Result of ticket t, as onReady made them: read from the frame,
\* allocated for a payload that never came, or bytes(0).
Output(t, what) ==
    CASE what = "ok"   -> t
      [] what = "torn" -> Unfilled
      [] OTHER         -> Empty

\* results starts as empty outputs.
MapPrepare ==
    /\ mapAt = "submit" /\ UserTurn
    /\ nextTicket = base + inputs
    /\ mapAt' = "poll"
    /\ results' = [k \in 1 .. inputs |-> Empty]
    /\ UNCHANGED <<vars, base, inputs, done>>

\* The loop's test, at the start of a round.
MapGoesOn == done < inputs /\ Size > 0

MapWait == mapAt = "poll" /\ MapGoesOn /\ Wait /\ UNCHANGED mapVars

\* Wrong on purpose: the outputs are stored in the order they arrive.
StoreResult_Arrival(t) ==
    /\ results' = [results EXCEPT ![done + 1] = Output(t, outcome'[t])]
    /\ done' = done + 1
    /\ UNCHANGED mapAt

\* results[r.ticket - base] = r.output; done += 1. An index out of range is a
\* panic.
StoreResult(t) ==
    IF t - base \in 0 .. inputs - 1
    THEN /\ results' = [results EXCEPT ![t - base + 1] = Output(t, outcome'[t])]
         /\ done' = done + 1
         /\ UNCHANGED mapAt
    ELSE /\ mapAt' = "panic"
         /\ UNCHANGED <<results, done>>

\* One Result, or none when an idle worker turned out to be dead.
MapRead ==
    /\ mapAt = "poll"
    /\ Read
    /\ IF ticketOf[cur] = -1 THEN UNCHANGED <<results, done, mapAt>>
                             ELSE StoreResult(ticketOf[cur])
    /\ UNCHANGED <<base, inputs>>

MapOnReady == mapAt = "poll" /\ (\E f \in Fd : OnReady(f)) /\ UNCHANGED mapVars

\* Wrong on purpose: map() does not look at size().
MapReturn_NoSize ==
    /\ mapAt = "poll" /\ at = "user" /\ ready = {}
    /\ done >= inputs
    /\ mapAt' = "out"
    /\ UNCHANGED <<vars, base, inputs, done, results>>

MapReturn ==
    /\ mapAt = "poll" /\ at = "user" /\ ready = {}
    /\ ~MapGoesOn
    /\ mapAt' = "out"
    /\ UNCHANGED <<vars, base, inputs, done, results>>

\* Outside map(): construction, destruction and the other methods.
OtherUse ==
    /\ mapAt = "out"
    /\ \/ InitSlot \/ Deinit \/ Fini
       \/ /\ MixedUse
          /\ \/ Submit \/ Checkout \/ Wait \/ Read
             \/ \E f \in Fd : OnReady(f)
             \/ \E w \in Slots : Release(w) \/ Respawn(w)
    /\ UNCHANGED mapVars

\* What happens around the parent, whatever it is doing.
Environment ==
    /\ ParentDies \/ \E w \in Slots : Child(w) \/ ChildCrash(w)
    /\ UNCHANGED mapVars

\* The process is gone or has panicked.
MapTerminated ==
    /\ at = "down" \/ mapAt = "panic"
    /\ UNCHANGED allVars

MapNext ==
    \/ \E k \in 1 .. MaxInputs : MapCall(k)
    \/ MapSubmit \/ MapPrepare \/ MapWait \/ MapOnReady \/ MapRead \/ MapReturn
    \/ OtherUse
    \/ Environment
    \/ MapTerminated

MapSpec ==
    /\ MapInit /\ [][MapNext]_allVars
    /\ WF_allVars(MapSubmit \/ MapPrepare \/ MapWait \/ MapOnReady \/ MapRead \/ MapReturn)
    /\ WF_allVars(Fini /\ UNCHANGED mapVars)
    /\ \A w \in Slots : WF_allVars(Child(w) /\ UNCHANGED mapVars)

-----------------------------------------------------------------------------
\* map() returns the outputs in input order and never indexes outside them,
\* although it counts whatever Result poll() brings: once it has returned, entry
\* k is the output of input k when that job was answered, bytes nobody wrote
\* when its worker died inside the answer, and empty when the worker died before
\* it or none was left; a job is left undone only when no worker is left to run
\* it. For a caller that has no other ticket in flight.
MapInOrder ==
    /\ mapAt # "panic"
    /\ mapAt = "out" => \A k \in DOMAIN results :
         LET t == base + k - 1 IN
         /\ outcome[t] = "ok"   <=> results[k] = t
         /\ outcome[t] = "torn" <=> results[k] = Unfilled
         /\ results[k] \in {t, Unfilled, Empty}
         /\ outcome[t] = "open" => \A w \in Slots : ~Alive(w)

\* All that map() still waits for is jobs whose frames were refused.
OnlyRefused ==
    /\ \E w \in Slots : Refused(w)
    /\ \A w \in Slots : busy[w] => Refused(w)

\* map() returns, or the process goes down with a worker's broken channel, or it
\* comes to wait only for inputs that were too long to be sent: a dead pool, or a
\* worker that dies inside a job, does not leave the caller blocked on a PollSet
\* that can never fire.
MapReturns == mapAt = "poll" ~> mapAt # "poll" \/ at = "down" \/ OnlyRefused
=============================================================================
