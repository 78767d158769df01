-------------------------- MODULE WorkerMapProofs --------------------------
(***************************************************************************)
(* Theorems of the worker pool, and of map() on top of it, for every       *)
(* number of slots, tickets, inputs, forks and crashes; of map() when the  *)
(* caller keeps no other ticket in flight.                                 *)
(*                                                                         *)
(* First the pool, under its own specification.  Then map().               *)
(* The argument: a Result that poll() brings is that of a ticket some slot *)
(* runs, and a slot runs only tickets without an outcome (the pool's own   *)
(* invariant).  All tickets before base have one when map() is entered, or *)
(* else there is no worker left to run them: an earlier map() returned     *)
(* because its Results were all in, which is what done counts, or because  *)
(* no worker was left, and none is born outside the constructor.  So every *)
(* Result belongs to this call and finds its place.                        *)
(***************************************************************************)
EXTENDS WorkerMap, TLAPS, SequenceTheorems, FiniteSetTheorems

LEMMA SlotsFact == /\ Slots \subseteq Nat
                   /\ 0 \in Slots
                   /\ \A c \in Slots : c + 1 < N => c + 1 \in Slots
  BY ConstantsAssumption DEF Slots

LEMMA TicketsFact == /\ -1 \notin Tickets
                     /\ Tickets \subseteq Nat
                     /\ \A t \in 0 .. MaxTickets : t < MaxTickets => t \in Tickets
  BY ConstantsAssumption DEF Tickets

(* The pool's fields, the processes and the outcome each keep their type.    *)
LEMMA InitTypeOK == Init => TypeOK
  BY SlotsFact, ConstantsAssumption DEF Init, TypeOK

(* What the helpers of the actions assign keeps its type.                    *)
LEMMA DispatchType ==
  ASSUME TypeOK, NEW w \in Slots, NEW tk \in Tickets, Dispatch(w, tk)
  PROVE  /\ busy' \in [Slots -> BOOLEAN]
         /\ ticketOf' \in [Slots -> Tickets \cup {-1}]
         /\ inbox' \in [Slots -> Seq(Tickets)]
         /\ open' \in [Slots -> BOOLEAN]
         /\ at' \in {"user", "down"}
<1>1. Append(inbox[w], tk) \in Seq(Tickets)
    BY AppendProperties DEF TypeOK
<1>2. inbox' \in [Slots -> Seq(Tickets)]
    BY <1>1 DEF Dispatch, WriteFrame, TypeOK
<1>3. open' \in [Slots -> BOOLEAN] /\ at' \in {"user", "down"}
    BY DEF Dispatch, WriteFrame, TypeOK
<1>4. busy' \in [Slots -> BOOLEAN] /\ ticketOf' \in [Slots -> Tickets \cup {-1}]
    BY DEF Dispatch, TypeOK
<1>5. QED
    BY <1>2, <1>3, <1>4

LEMMA DrainOneType ==
  ASSUME TypeOK, NEW w \in Slots, DrainOne(w)
  PROVE  /\ busy' \in [Slots -> BOOLEAN]
         /\ ticketOf' \in [Slots -> Tickets \cup {-1}]
         /\ inbox' \in [Slots -> Seq(Tickets)]
         /\ open' \in [Slots -> BOOLEAN]
         /\ at' \in {"user", "down"}
         /\ pending' \in Seq(Tickets)
<1>1. Head(pending) \in Tickets /\ Tail(pending) \in Seq(Tickets)
    BY HeadTailProperties DEF TypeOK, DrainOne
<1>2. QED
    BY <1>1, DispatchType DEF DrainOne

LEMMA SpawnIntoType ==
  ASSUME TypeOK, NEW w \in Slots, SpawnInto(w)
  PROVE  /\ fds' \in [Slots -> Fd \cup {-1}]
         /\ busy' \in [Slots -> BOOLEAN]
         /\ held' \in [Slots -> BOOLEAN]
         /\ ticketOf' \in [Slots -> Tickets \cup {-1}]
         /\ child' \in [Slots -> {"none", "idle", "job", "hdr", "dead", "torn"}]
         /\ inbox' \in [Slots -> Seq(Tickets)]
         /\ now' \in [Slots -> Tickets \cup {-1}]
         /\ outbox' \in [Slots -> Seq(Tickets \cup {-1})]
         /\ open' \in [Slots -> BOOLEAN]
         /\ inherits' \in [Slots -> SUBSET Slots]
         /\ spawns' \in 0 .. MaxSpawns
<1>1. <<>> \in Seq(Tickets) /\ <<>> \in Seq(Tickets \cup {-1})
    BY EmptySeq
<1>2. inbox' \in [Slots -> Seq(Tickets)] /\ outbox' \in [Slots -> Seq(Tickets \cup {-1})]
    BY <1>1 DEF SpawnInto, TypeOK
<1>3. inherits' \in [Slots -> SUBSET Slots]
    BY DEF SpawnInto, TypeOK
<1>4. fds' \in [Slots -> Fd \cup {-1}]
    BY DEF SpawnInto, TypeOK
<1>5. spawns' \in 0 .. MaxSpawns
    BY ConstantsAssumption DEF SpawnInto, TypeOK
<1>6. QED
    BY <1>2, <1>3, <1>4, <1>5 DEF SpawnInto, TypeOK

LEMMA ChildEndsType ==
  ASSUME TypeOK, NEW w \in Slots, ChildEnds(w)
  PROVE  /\ child' \in [Slots -> {"none", "idle", "job", "hdr", "dead", "torn"}]
         /\ inbox' \in [Slots -> Seq(Tickets)]
         /\ now' \in [Slots -> Tickets \cup {-1}]
         /\ outbox' \in [Slots -> Seq(Tickets \cup {-1})]
<1>1. <<>> \in Seq(Tickets) /\ <<>> \in Seq(Tickets \cup {-1})
    BY EmptySeq
<1>2. QED
    BY <1>1 DEF ChildEnds, TypeOK

LEMMA RetireType ==
  ASSUME TypeOK, NEW w \in Slots, Retire(w)
  PROVE  /\ fds' \in [Slots -> Fd \cup {-1}]
         /\ busy' \in [Slots -> BOOLEAN]
         /\ held' \in [Slots -> BOOLEAN]
         /\ ticketOf' \in [Slots -> Tickets \cup {-1}]
         /\ child' \in [Slots -> {"none", "idle", "job", "hdr", "dead", "torn"}]
         /\ inbox' \in [Slots -> Seq(Tickets)]
         /\ now' \in [Slots -> Tickets \cup {-1}]
         /\ outbox' \in [Slots -> Seq(Tickets \cup {-1})]
         /\ open' \in [Slots -> BOOLEAN]
         /\ inherits' \in [Slots -> SUBSET Slots]
<1>1. <<>> \in Seq(Tickets) /\ <<>> \in Seq(Tickets \cup {-1})
    BY EmptySeq
<1>2. inbox' \in [Slots -> Seq(Tickets)] /\ outbox' \in [Slots -> Seq(Tickets \cup {-1})]
    BY <1>1 DEF Retire, TypeOK
<1>3. inherits' \in [Slots -> SUBSET Slots]
    BY DEF Retire, TypeOK
<1>4. QED
    BY <1>2, <1>3 DEF Retire, TypeOK

LEMMA AfterFrameType ==
  ASSUME TypeOK, NEW w \in Slots, AfterFrame(w)
  PROVE  /\ busy' \in [Slots -> BOOLEAN]
         /\ ticketOf' \in [Slots -> Tickets \cup {-1}]
         /\ inbox' \in [Slots -> Seq(Tickets)]
         /\ open' \in [Slots -> BOOLEAN]
         /\ at' \in {"user", "down"}
         /\ pending' \in Seq(Tickets)
<1>1. CASE pending = <<>>
    BY <1>1 DEF AfterFrame, TypeOK
<1>2. CASE pending # <<>>
    BY <1>2, DrainOneType DEF AfterFrame
<1>3. QED
    BY <1>1, <1>2

LEMMA NextTypeOK == TypeOK /\ [Next]_vars => TypeOK'
<1> SUFFICES ASSUME TypeOK, [Next]_vars PROVE TypeOK'
    OBVIOUS
<1> USE SlotsFact, TicketsFact, ConstantsAssumption
<1>1. CASE InitSlot
  <2>1. CASE SpawnInto(cur)
    <3>1. cur \in Slots /\ cur' \in Slots /\ at' \in {"init", "user"}
      BY <1>1 DEF InitSlot, TypeOK
    <3>2. QED
      BY <1>1, <2>1, <3>1, SpawnIntoType DEF InitSlot, TypeOK
  <2>2. CASE SpawnFailed
    <3>1. cur' \in Slots /\ at' \in {"init", "user"} /\ spawns' \in 0 .. MaxSpawns
      BY <1>1, <2>2 DEF InitSlot, SpawnFailed, TypeOK
    <3>2. QED
      BY <1>1, <2>2, <3>1 DEF InitSlot, SpawnFailed, TypeOK, osVars
  <2>3. QED
    BY <1>1, <2>1, <2>2 DEF InitSlot
<1>2. CASE Submit
  <2>1. nextTicket \in Tickets /\ nextTicket' \in 0 .. MaxTickets
    BY <1>2 DEF Submit, TypeOK
  <2>2. CASE \E w \in Slots : Dispatch(w, nextTicket) /\ UNCHANGED pending
    BY <1>2, <2>1, <2>2, DispatchType DEF Submit, TypeOK
  <2>3. CASE pending' = Append(pending, nextTicket) /\ UNCHANGED <<busy, ticketOf, inbox, open, at>>
    <3>1. pending' \in Seq(Tickets)
      BY <2>1, <2>3, AppendProperties DEF TypeOK
    <3>2. QED
      BY <1>2, <2>1, <2>3, <3>1 DEF Submit, TypeOK
  <2>4. QED
    BY <1>2, <2>2, <2>3 DEF Submit
<1>3. CASE Checkout
    BY <1>3 DEF Checkout, TypeOK, osVars
<1>4. ASSUME NEW w \in Slots, SubmitTo(w) PROVE TypeOK'
  <2>1. nextTicket \in Tickets /\ nextTicket' \in 0 .. MaxTickets
    BY <1>4 DEF SubmitTo, TypeOK
  <2>2. QED
    BY <1>4, <2>1, DispatchType DEF SubmitTo, TypeOK
<1>5. ASSUME NEW w \in Slots, Release(w) PROVE TypeOK'
  <2>1. CASE DrainOne(w)
    BY <1>5, <2>1, DrainOneType DEF Release, TypeOK
  <2>2. CASE UNCHANGED <<busy, ticketOf, pending, inbox, open, at>>
    BY <1>5, <2>2 DEF Release, TypeOK
  <2>3. QED
    BY <1>5, <2>1, <2>2 DEF Release
<1>6. ASSUME NEW w \in Slots, Kill(w) PROVE TypeOK'
  <2>1. CASE ChildEnds(w)
    BY <1>6, <2>1, ChildEndsType DEF Kill, TypeOK, poolVars
  <2>2. CASE UNCHANGED <<child, inbox, now, outbox>>
    BY <1>6, <2>2 DEF Kill, TypeOK, poolVars
  <2>3. QED
    BY <1>6, <2>1, <2>2 DEF Kill
<1>7. ASSUME NEW w \in Slots, Respawn(w) PROVE TypeOK'
  <2>1. CASE SpawnInto(w)
    BY <1>7, <2>1, SpawnIntoType DEF Respawn, TypeOK
  <2>2. CASE SpawnFailed
    <3>1. spawns' \in 0 .. MaxSpawns
      BY <2>2 DEF SpawnFailed, TypeOK
    <3>2. QED
      BY <1>7, <2>2, <3>1 DEF Respawn, SpawnFailed, TypeOK, osVars
  <2>3. QED
    BY <1>7, <2>1, <2>2 DEF Respawn
<1>8. CASE Reaped
    BY <1>8, RetireType DEF Reaped, Surface, TypeOK
<1>9. CASE Wait
  <2>1. \A v \in Slots : Readable(v) => fds[v] \in Fd
    BY DEF TypeOK, Readable, Alive
  <2>2. ready' = {fds[w] : w \in {v \in Slots : Readable(v)}}
    BY <1>9 DEF Wait
  <2>3. ready' \subseteq Fd
    BY <2>1, <2>2
  <2>4. QED
    BY <1>9, <2>3 DEF Wait, TypeOK, poolVars, osVars
<1>10. ASSUME NEW f \in Fd, OnReady(f) PROVE TypeOK'
    BY <1>10 DEF OnReady, TypeOK, poolVars, osVars
<1>11. CASE ReadFrame
  <2>0. Tail(outbox[cur]) \in Seq(Tickets \cup {-1})
    BY <1>11, HeadTailProperties DEF ReadFrame, TypeOK
  <2>1. outbox' \in [Slots -> Seq(Tickets \cup {-1})]
    BY <1>11, <2>0 DEF ReadFrame, TypeOK
  <2>2. QED
    BY <1>11, <2>1, AfterFrameType DEF ReadFrame, Surface, TypeOK
<1>12. CASE ReadTorn
    BY <1>12, AfterFrameType DEF ReadTorn, Surface, TypeOK
<1>13. CASE ReadEOF
    BY <1>13, RetireType DEF ReadEOF, Surface, TypeOK
<1>14. CASE Deinit
    BY <1>14 DEF Deinit, TypeOK, poolVars
<1>15. CASE FiniTerm
    BY <1>15, ChildEndsType DEF FiniTerm, TypeOK, poolVars
<1>16. CASE FiniReap
    BY <1>16 DEF FiniReap, TypeOK, poolVars
<1>17. ASSUME NEW w \in Slots, ChildRead(w) PROVE TypeOK'
  <2>1. Head(inbox[w]) \in Tickets /\ Tail(inbox[w]) \in Seq(Tickets)
    BY <1>17, HeadTailProperties DEF ChildRead, TypeOK
  <2>2. QED
    BY <1>17, <2>1 DEF ChildRead, TypeOK, poolVars
<1>18. ASSUME NEW w \in Slots, ChildHeader(w) PROVE TypeOK'
  <2>1. CASE ChildEnds(w)
    BY <1>18, <2>1, ChildEndsType DEF ChildHeader, TypeOK, poolVars
  <2>2. CASE /\ child' = [child EXCEPT ![w] = "hdr"]
             /\ UNCHANGED <<inbox, now, outbox>>
    BY <1>18, <2>2 DEF ChildHeader, TypeOK, poolVars
  <2>3. QED
    BY <1>18, <2>1, <2>2 DEF ChildHeader
<1>19. ASSUME NEW w \in Slots, ChildPayload(w) PROVE TypeOK'
  <2>1. CASE ChildEnds(w)
    BY <1>19, <2>1, ChildEndsType DEF ChildPayload, TypeOK, poolVars
  <2>2. CASE /\ child' = [child EXCEPT ![w] = "idle"]
             /\ outbox' = [outbox EXCEPT ![w] = Append(@, now[w])]
             /\ now' = [now EXCEPT ![w] = -1]
             /\ UNCHANGED inbox
    BY <1>19, <2>2, AppendProperties DEF ChildPayload, TypeOK, poolVars
  <2>3. QED
    BY <1>19, <2>1, <2>2 DEF ChildPayload
<1>20. ASSUME NEW w \in Slots, ChildEOF(w) PROVE TypeOK'
    BY <1>20, ChildEndsType DEF ChildEOF, TypeOK, poolVars
<1>21. ASSUME NEW w \in Slots, ChildCrash(w) PROVE TypeOK'
  <2>1. crashes' \in 0 .. MaxCrashes
    BY <1>21 DEF ChildCrash, TypeOK
  <2>2. QED
    BY <1>21, <2>1, ChildEndsType DEF ChildCrash, TypeOK, poolVars
<1>22. CASE ParentDies
    BY <1>22 DEF ParentDies, TypeOK, poolVars
<1>23. CASE UNCHANGED vars
    BY <1>23 DEF vars, poolVars, osVars, TypeOK
<1>24. QED
    BY <1>1, <1>2, <1>3, <1>4, <1>5, <1>6, <1>7, <1>8, <1>9, <1>10, <1>11, <1>12,
       <1>13, <1>14, <1>15, <1>16, <1>17, <1>18, <1>19, <1>20, <1>21, <1>22, <1>23
    DEF Next, Read, Fini, Child, Terminated
(* Every reachable state of the pool is well typed.                          *)
THEOREM PoolTypeCorrect == Spec => []TypeOK
<1>1. Init => TypeOK
    BY InitTypeOK
<1>2. TypeOK /\ [Next]_vars => TypeOK'
    BY NextTypeOK
<1>3. QED
    BY <1>1, <1>2, PTL DEF Spec

-----------------------------------------------------------------------------
(* The inductive invariant. TicketConserved speaks of tickets only; it is    *)
(* kept because each slot's channel and process agree with busy and ticketOf *)
(* (Channels), because a dead slot runs nothing, and because the constructor *)
(* has not reached the slots it has yet to spawn (Unborn).                   *)

\* The backlog: known, unanswered, on no worker, in ticket order.
Backlog ==
    /\ \A i \in 1 .. Len(pending) :
         /\ pending[i] < nextTicket
         /\ outcome[pending[i]] = "open"
         /\ \A w \in Slots : ticketOf[w] # pending[i]
    /\ \A i, j \in 1 .. Len(pending) : i < j => pending[i] < pending[j]

\* The tickets being run: known, unanswered, one worker each.
RunningTickets ==
    /\ \A w \in Slots : ticketOf[w] # -1 =>
         ticketOf[w] < nextTicket /\ outcome[ticketOf[w]] = "open"
    /\ \A v, w \in Slots : ticketOf[v] = ticketOf[w] /\ ticketOf[v] # -1 => v = w

\* An unanswered ticket is somewhere; no answer is a duplicate or mislabelled.
Outcomes ==
    \A t \in Tickets :
        /\ t >= nextTicket => outcome[t] = "open"
        /\ t < nextTicket /\ outcome[t] = "open" =>
             \/ \E i \in 1 .. Len(pending) : pending[i] = t
             \/ \E w \in Slots : ticketOf[w] = t
        /\ outcome[t] \notin {"dup", "wrong"}

Books == Backlog /\ RunningTickets /\ Outcomes

\* Where the one job of slot w is, in terms of its channel and process.
Channel(w) ==
    \/ /\ ~busy[w] /\ ticketOf[w] = -1
       /\ inbox[w] = <<>> /\ outbox[w] = <<>>
       /\ child[w] \in {"none", "idle", "dead"}
    \/ /\ busy[w] /\ ticketOf[w] # -1
       /\ \/ child[w] = "idle" /\ inbox[w] = <<ticketOf[w]>> /\ outbox[w] = <<>>
          \/ child[w] = "idle" /\ inbox[w] = <<>> /\ outbox[w] = <<ticketOf[w]>>
          \/ /\ child[w] = "idle" /\ ticketOf[w] \in OversizeIn
             /\ inbox[w] = <<>> /\ outbox[w] = <<>>
          \/ /\ child[w] \in {"job", "hdr"} /\ now[w] = ticketOf[w]
             /\ inbox[w] = <<>> /\ outbox[w] = <<>>
          \/ child[w] \in {"dead", "none"} /\ inbox[w] = <<>> /\ outbox[w] = <<ticketOf[w]>>
          \/ child[w] \in {"dead", "none", "torn"} /\ inbox[w] = <<>> /\ outbox[w] = <<>>

Channels == \A w \in Slots : Channel(w)

\* A dead slot runs nothing, and the constructor has not spawned ahead of itself.
Unborn ==
    /\ \A w \in Slots : ~Alive(w) => ticketOf[w] = -1
    /\ at = "init" => \A w \in Slots : w >= cur => ~Alive(w)

IInv == TypeOK /\ Books /\ Channels /\ Unborn

-----------------------------------------------------------------------------
(* The bookkeeping of a step, with everything but the tickets projected away.*)
books == <<ticketOf, pending, nextTicket, outcome>>

BookFresh(w) ==
    /\ ticketOf[w] = -1
    /\ nextTicket < MaxTickets
    /\ nextTicket' = nextTicket + 1
    /\ ticketOf' = [ticketOf EXCEPT ![w] = nextTicket]
    /\ UNCHANGED <<pending, outcome>>
BookQueue ==
    /\ nextTicket < MaxTickets
    /\ nextTicket' = nextTicket + 1
    /\ pending' = Append(pending, nextTicket)
    /\ UNCHANGED <<ticketOf, outcome>>
BookStart(w) ==
    /\ ticketOf[w] = -1
    /\ pending # <<>>
    /\ pending' = Tail(pending)
    /\ ticketOf' = [ticketOf EXCEPT ![w] = Head(pending)]
    /\ UNCHANGED <<nextTicket, outcome>>
BookSettle(w, what) ==
    /\ ticketOf[w] # -1
    /\ outcome' = [outcome EXCEPT ![ticketOf[w]] = what]
    /\ ticketOf' = [ticketOf EXCEPT ![w] = -1]
    /\ UNCHANGED <<pending, nextTicket>>
BookSettleStart(w, what) ==
    /\ ticketOf[w] # -1
    /\ outcome' = [outcome EXCEPT ![ticketOf[w]] = what]
    /\ pending # <<>>
    /\ pending' = Tail(pending)
    /\ ticketOf' = [ticketOf EXCEPT ![w] = Head(pending)]
    /\ UNCHANGED nextTicket

BookNext ==
    \/ UNCHANGED books
    \/ BookQueue
    \/ \E w \in Slots : BookFresh(w) \/ BookStart(w)
    \/ \E w \in Slots : \E what \in {"ok", "empty", "torn", "lost"} : BookSettle(w, what)
    \/ \E w \in Slots : \E what \in {"ok", "empty", "torn"} : BookSettleStart(w, what)

(* Each kind of bookkeeping step keeps the books.                            *)
LEMMA BooksKept == TypeOK /\ TypeOK' /\ Books /\ BookNext => Books'
<1> SUFFICES ASSUME TypeOK, TypeOK', Books, BookNext PROVE Books'
    OBVIOUS
<1> DEFINE T == Tickets \cup {-1}
<1>a. /\ ticketOf \in [Slots -> T] /\ ticketOf' \in [Slots -> T]
      /\ nextTicket \in Nat /\ nextTicket' \in Nat
      /\ Len(pending) \in Nat /\ Len(pending') \in Nat
      /\ \A i \in 1 .. Len(pending) : pending[i] \in Tickets
      /\ \A i \in 1 .. Len(pending') : pending'[i] \in Tickets
      /\ outcome \in [Tickets -> {"open", "ok", "empty", "torn", "lost", "wrong", "dup"}]
    BY LenProperties, ElementOfSeq, SMTT(30) DEF TypeOK
<1>b. /\ \A t \in Tickets : t \in Nat /\ t # -1
      /\ nextTicket < MaxTickets => nextTicket \in Tickets
    BY TicketsFact DEF TypeOK
<1> HIDE DEF T
<1>c. \A t \in T : t \in Tickets \/ t = -1
    BY DEF T
<1>d. \A v \in Slots : ticketOf[v] # nextTicket
  <2> SUFFICES ASSUME NEW v \in Slots, ticketOf[v] = nextTicket PROVE FALSE
      OBVIOUS
  <2>1. nextTicket # -1
    BY <1>a
  <2>2. nextTicket < nextTicket
    BY <2>1 DEF Books, RunningTickets
  <2>3. QED
    BY <1>a, <2>2
<1>1. CASE UNCHANGED books
    BY <1>1 DEF books, Books, Backlog, RunningTickets, Outcomes
<1>2. CASE BookQueue
  <2>1. /\ Len(pending') = Len(pending) + 1
        /\ pending'[Len(pending) + 1] = nextTicket
        /\ \A i \in 1 .. Len(pending) : pending'[i] = pending[i]
    BY <1>2, AppendProperties DEF BookQueue, TypeOK
  <2>2. nextTicket \in Tickets /\ outcome[nextTicket] = "open"
    BY <1>a, <1>b, <1>c, <1>2 DEF BookQueue, Books, Outcomes
  <2>4. Backlog'
    <3>1. ASSUME NEW i \in 1 .. Len(pending')
          PROVE  /\ pending'[i] < nextTicket'
                 /\ outcome'[pending'[i]] = "open"
                 /\ \A w \in Slots : ticketOf'[w] # pending'[i]
      <4>1. CASE i \in 1 .. Len(pending)
        BY <1>a, <1>b, <1>2, <2>1, <4>1 DEF BookQueue, Books, Backlog
      <4>2. CASE i = Len(pending) + 1
        BY <1>a, <1>d, <1>2, <2>1, <2>2, <4>2 DEF BookQueue
      <4>3. QED
        BY <1>a, <2>1, <4>1, <4>2
    <3>2. ASSUME NEW i \in 1 .. Len(pending'), NEW j \in 1 .. Len(pending'), i < j
          PROVE  pending'[i] < pending'[j]
      <4>1. i \in 1 .. Len(pending)
        BY <1>a, <2>1, <3>2
      <4>2. CASE j \in 1 .. Len(pending)
        BY <2>1, <3>2, <4>1, <4>2 DEF Books, Backlog
      <4>3. CASE j = Len(pending) + 1
        BY <2>1, <4>1, <4>3 DEF Books, Backlog
      <4>4. QED
        BY <1>a, <2>1, <4>2, <4>3
    <3>3. QED
      BY <3>1, <3>2 DEF Backlog
  <2>5. RunningTickets'
    BY <1>a, <1>b, <1>c, <1>2 DEF BookQueue, Books, RunningTickets
  <2>6. Outcomes'
    BY <1>a, <1>b, <1>c, <1>2, <2>1 DEF BookQueue, Books, Outcomes
  <2>7. QED
    BY <2>4, <2>5, <2>6 DEF Books
<1>3. ASSUME NEW w \in Slots, BookFresh(w) PROVE Books'
  <2>1. nextTicket \in Tickets /\ outcome[nextTicket] = "open"
    BY <1>a, <1>b, <1>c, <1>3 DEF BookFresh, Books, Outcomes
  <2>3. Backlog'
    <3>1. ASSUME NEW i \in 1 .. Len(pending)
          PROVE  /\ pending[i] < nextTicket + 1
                 /\ pending[i] # nextTicket
                 /\ \A v \in Slots : ticketOf'[v] # pending[i]
      <4>1. pending[i] \in Nat /\ pending[i] < nextTicket
        BY <1>a, <1>b DEF Books, Backlog
      <4>2. \A v \in Slots : ticketOf'[v] \in {ticketOf[v], nextTicket}
        BY <1>a, <1>3 DEF BookFresh
      <4>3. QED
        BY <1>a, <4>1, <4>2 DEF Books, Backlog
    <3>2. QED
      BY <1>3, <3>1 DEF BookFresh, Books, Backlog
  <2>4. RunningTickets'
    <3>1. \A v \in Slots : ticketOf'[v] = IF v = w THEN nextTicket ELSE ticketOf[v]
      BY <1>a, <1>3 DEF BookFresh
    <3>2. \A v \in Slots : ticketOf'[v] # -1 =>
            ticketOf'[v] < nextTicket' /\ outcome'[ticketOf'[v]] = "open"
      <4>1. nextTicket' = nextTicket + 1 /\ outcome' = outcome
        BY <1>3 DEF BookFresh
      <4>2. ASSUME NEW v \in Slots, v # w, ticketOf[v] # -1
            PROVE  ticketOf[v] < nextTicket + 1 /\ outcome[ticketOf[v]] = "open"
        <5>1. ticketOf[v] \in Nat /\ ticketOf[v] < nextTicket
          BY <1>a, <1>b, <1>c, <4>2 DEF Books, RunningTickets
        <5>2. QED
          BY <1>a, <4>2, <5>1 DEF Books, RunningTickets
      <4>3. QED
        BY <1>a, <2>1, <3>1, <4>1, <4>2
    <3>3. \A u, v \in Slots : ticketOf'[u] = ticketOf'[v] /\ ticketOf'[u] # -1 => u = v
      BY <1>d, <3>1 DEF Books, RunningTickets
    <3>4. QED
      BY <3>2, <3>3 DEF RunningTickets
  <2>5. Outcomes'
    BY <1>a, <1>b, <1>c, <1>3, <2>1 DEF BookFresh, Books, Outcomes
  <2>6. QED
    BY <2>3, <2>4, <2>5 DEF Books
<1>4. ASSUME pending # <<>>
      PROVE  /\ Len(Tail(pending)) = Len(pending) - 1
             /\ \A i \in 1 .. Len(Tail(pending)) : Tail(pending)[i] = pending[i + 1]
             /\ Head(pending) = pending[1]
             /\ 1 \in 1 .. Len(pending)
             /\ Head(pending) \in Tickets
    BY <1>4, HeadTailProperties DEF TypeOK
<1>5. ASSUME NEW w \in Slots, BookStart(w) PROVE Books'
  <2>1. Backlog'
    BY <1>a, <1>b, <1>c, <1>4, <1>5 DEF BookStart, Books, Backlog
  <2>2. RunningTickets'
    BY <1>a, <1>b, <1>c, <1>4, <1>5 DEF BookStart, Books, Backlog, RunningTickets
  <2>3. Outcomes'
    <3>1. ticketOf'[w] = Head(pending)
      BY <1>a, <1>5 DEF BookStart
    <3>2. ASSUME NEW i \in 1 .. Len(pending)
          PROVE  \/ ticketOf'[w] = pending[i]
                 \/ \E k \in 1 .. Len(pending') : pending'[k] = pending[i]
      <4>1. CASE i = 1
        BY <1>4, <1>5, <3>1, <4>1 DEF BookStart
      <4>2. CASE i # 1
        <5>1. i - 1 \in 1 .. Len(pending') /\ pending'[i - 1] = pending[(i - 1) + 1]
          BY <1>a, <1>4, <1>5, <4>2 DEF BookStart
        <5>2. (i - 1) + 1 = i
          OBVIOUS
        <5>3. QED
          BY <5>1, <5>2
      <4>3. QED
        BY <4>1, <4>2
    <3>3. \A v \in Slots : ticketOf[v] # -1 => ticketOf'[v] = ticketOf[v]
      BY <1>a, <1>5 DEF BookStart
    <3>4. nextTicket' = nextTicket /\ outcome' = outcome
      BY <1>5 DEF BookStart
    <3>5. ASSUME NEW t \in Tickets, t < nextTicket, outcome[t] = "open"
          PROVE  \/ \E k \in 1 .. Len(pending') : pending'[k] = t
                 \/ \E v \in Slots : ticketOf'[v] = t
      <4>1. CASE \E i \in 1 .. Len(pending) : pending[i] = t
        BY <3>2, <4>1
      <4>2. CASE \E v \in Slots : ticketOf[v] = t
        BY <1>b, <3>3, <4>2
      <4>3. QED
        BY <3>5, <4>1, <4>2 DEF Books, Outcomes
    <3>6. QED
      BY <3>4, <3>5 DEF Books, Outcomes
  <2>4. QED
    BY <2>1, <2>2, <2>3 DEF Books
<1>6. ASSUME NEW w \in Slots, NEW what \in {"ok", "empty", "torn", "lost"},
             BookSettle(w, what)
      PROVE  Books'
  <2>1. Backlog'
    BY <1>a, <1>b, <1>c, <1>6 DEF BookSettle, Books, Backlog
  <2>2. RunningTickets'
    BY <1>a, <1>b, <1>c, <1>6 DEF BookSettle, Books, RunningTickets
  <2>3. Outcomes'
    BY <1>a, <1>b, <1>c, <1>6 DEF BookSettle, Books, RunningTickets, Outcomes
  <2>4. QED
    BY <2>1, <2>2, <2>3 DEF Books
<1>7. ASSUME NEW w \in Slots, NEW what \in {"ok", "empty", "torn"},
             BookSettleStart(w, what)
      PROVE  Books'
  <2>1. Backlog'
    BY <1>a, <1>b, <1>c, <1>4, <1>7 DEF BookSettleStart, Books, Backlog
  <2>2. RunningTickets'
    BY <1>a, <1>b, <1>c, <1>4, <1>7 DEF BookSettleStart, Books, Backlog, RunningTickets
  <2>3. Outcomes'
    <3>1. ticketOf'[w] = Head(pending)
      BY <1>a, <1>7 DEF BookSettleStart
    <3>2. ASSUME NEW i \in 1 .. Len(pending)
          PROVE  \/ ticketOf'[w] = pending[i]
                 \/ \E k \in 1 .. Len(pending') : pending'[k] = pending[i]
      <4>1. CASE i = 1
        BY <1>4, <1>7, <3>1, <4>1 DEF BookSettleStart
      <4>2. CASE i # 1
        <5>1. i - 1 \in 1 .. Len(pending') /\ pending'[i - 1] = pending[(i - 1) + 1]
          BY <1>a, <1>4, <1>7, <4>2 DEF BookSettleStart
        <5>2. (i - 1) + 1 = i
          OBVIOUS
        <5>3. QED
          BY <5>1, <5>2
      <4>3. QED
        BY <4>1, <4>2
    <3>3. \A v \in Slots : v # w => ticketOf'[v] = ticketOf[v]
      BY <1>a, <1>7 DEF BookSettleStart
    <3>4. ticketOf[w] \in Tickets /\ ticketOf[w] < nextTicket
      BY <1>a, <1>c, <1>7 DEF BookSettleStart, Books, RunningTickets
    <3>5. ASSUME NEW t \in Tickets
          PROVE  outcome'[t] = IF t = ticketOf[w] THEN what ELSE outcome[t]
      BY <1>a, <1>7, <3>4 DEF BookSettleStart
    <3>6. nextTicket' = nextTicket
      BY <1>7 DEF BookSettleStart
    <3>7. ASSUME NEW t \in Tickets, t < nextTicket, outcome'[t] = "open"
          PROVE  \/ \E k \in 1 .. Len(pending') : pending'[k] = t
                 \/ \E v \in Slots : ticketOf'[v] = t
      <4>1. t # ticketOf[w] /\ outcome[t] = "open"
        BY <3>5, <3>7
      <4>2. CASE \E i \in 1 .. Len(pending) : pending[i] = t
        BY <3>2, <4>2
      <4>3. CASE \E v \in Slots : ticketOf[v] = t
        BY <3>3, <4>1, <4>3
      <4>4. QED
        BY <3>7, <4>1, <4>2, <4>3 DEF Books, Outcomes
    <3>8. ASSUME NEW t \in Tickets
          PROVE  /\ t >= nextTicket => outcome'[t] = "open"
                 /\ outcome'[t] \notin {"dup", "wrong"}
      <4>1. t = ticketOf[w] => ~(t >= nextTicket)
        BY <1>a, <1>b, <3>4
      <4>2. QED
        BY <3>5, <4>1 DEF Books, Outcomes
    <3>9. QED
      BY <3>6, <3>7, <3>8 DEF Outcomes
  <2>4. QED
    BY <2>1, <2>2, <2>3 DEF Books
<1>8. QED
    BY <1>1, <1>2, <1>3, <1>5, <1>6, <1>7 DEF BookNext

(* Reading an answer from slot w settles its ticket and may start another.   *)
LEMMA AfterFrameBooks ==
  ASSUME TypeOK, NEW w \in Slots, NEW what \in {"ok", "empty", "torn"},
         ticketOf[w] # -1,
         outcome' = [outcome EXCEPT ![ticketOf[w]] = what],
         AfterFrame(w), UNCHANGED nextTicket
  PROVE  BookNext
<1>1. CASE pending = <<>>
  <2>1. BookSettle(w, what)
    BY <1>1 DEF AfterFrame, BookSettle
  <2>2. QED
    BY <2>1 DEF BookNext
<1>2. CASE pending # <<>>
  <2>1. BookSettleStart(w, what)
    BY <1>2 DEF AfterFrame, DrainOne, Dispatch, BookSettleStart
  <2>2. QED
    BY <2>1 DEF BookNext
<1>3. QED
    BY <1>1, <1>2

(* A ticket that runs is unanswered, so surfacing it is not a duplicate.     *)
LEMMA SurfaceRunning ==
  ASSUME TypeOK, Books, NEW w \in Slots, NEW what, ticketOf[w] # -1,
         Surface(ticketOf[w], what)
  PROVE  outcome' = [outcome EXCEPT ![ticketOf[w]] = what]
<1>0. ticketOf[w] \in Tickets
    BY DEF TypeOK
<1>1. ~(ticketOf[w] < 0)
  <2>1. ticketOf[w] \in Nat
    BY <1>0, TicketsFact
  <2>2. QED
    BY <2>1
<1>2. outcome[ticketOf[w]] = "open"
    BY DEF Books, RunningTickets
<1>3. QED
    BY <1>0, <1>1, <1>2 DEF Surface

(* Retiring slot w settles its ticket, if it ran one.                        *)
LEMMA RetireBooks ==
  ASSUME TypeOK, Books, NEW w \in Slots, NEW what \in {"empty", "lost"},
         Retire(w), Surface(ticketOf[w], what), UNCHANGED <<pending, nextTicket>>
  PROVE  BookNext
<1>1. CASE ticketOf[w] = -1
  <2>1. ticketOf' = ticketOf
    BY <1>1 DEF Retire, TypeOK
  <2>2. outcome' = outcome
    <3>1. -1 < 0
      OBVIOUS
    <3>2. QED
      BY <1>1, <3>1 DEF Surface
  <2>3. QED
    BY <2>1, <2>2 DEF BookNext, books
<1>2. CASE ticketOf[w] # -1
  <2>1. outcome' = [outcome EXCEPT ![ticketOf[w]] = what]
    BY <1>2, SurfaceRunning
  <2>2. BookSettle(w, what)
    BY <1>2, <2>1 DEF Retire, BookSettle
  <2>3. QED
    BY <2>2 DEF BookNext
<1>3. QED
    BY <1>1, <1>2

(* Spawning into a slot that runs nothing leaves the books alone.            *)
LEMMA SpawnBooks ==
  ASSUME TypeOK, NEW w \in Slots, ticketOf[w] = -1, SpawnInto(w) \/ SpawnFailed,
         UNCHANGED <<pending, nextTicket, outcome>>
  PROVE  BookNext
<1>1. ticketOf' = ticketOf
    BY DEF SpawnInto, SpawnFailed, TypeOK
<1>2. QED
    BY <1>1 DEF BookNext, books

(* Every step of the pool is one of the bookkeeping steps.                   *)
LEMMA NextBooks == IInv /\ [Next]_vars => BookNext
<1> SUFFICES ASSUME IInv, [Next]_vars PROVE BookNext
    OBVIOUS
<1>t. TypeOK /\ Books /\ Channels /\ Unborn
    BY DEF IInv
<1>1. CASE InitSlot
  <2>1. cur \in Slots /\ ticketOf[cur] = -1
    BY <1>t, <1>1, SlotsFact DEF InitSlot, Unborn, TypeOK
  <2>2. QED
    BY <1>t, <1>1, <2>1, SpawnBooks DEF InitSlot
<1>2. CASE Submit
  <2>1. ASSUME NEW w \in Slots, Free(w), Dispatch(w, nextTicket), UNCHANGED pending
        PROVE  BookNext
    <3>1. ticketOf[w] = -1
      BY <1>t, <2>1 DEF Channels, Channel, Free
    <3>2. BookFresh(w)
      BY <1>2, <2>1, <3>1 DEF Submit, Dispatch, BookFresh
    <3>3. QED
      BY <3>2 DEF BookNext
  <2>2. ASSUME pending' = Append(pending, nextTicket), UNCHANGED ticketOf
        PROVE  BookNext
    BY <1>2, <2>2 DEF Submit, BookQueue, BookNext
  <2>3. QED
    BY <1>2, <2>1, <2>2 DEF Submit
<1>3. CASE Checkout
    BY <1>3 DEF Checkout, BookNext, books
<1>4. ASSUME NEW w \in Slots, SubmitTo(w) PROVE BookNext
  <2>1. ticketOf[w] = -1
    BY <1>t, <1>4 DEF SubmitTo, Channels, Channel
  <2>2. BookFresh(w)
    BY <1>4, <2>1 DEF SubmitTo, Dispatch, BookFresh
  <2>3. QED
    BY <2>2 DEF BookNext
<1>5. ASSUME NEW w \in Slots, Release(w) PROVE BookNext
  <2>1. CASE Alive(w) /\ ~busy[w] /\ pending # <<>>
    <3>1. ticketOf[w] = -1
      BY <1>t, <2>1 DEF Channels, Channel
    <3>2. BookStart(w)
      BY <1>5, <2>1, <3>1 DEF Release, DrainOne, Dispatch, BookStart
    <3>3. QED
      BY <3>2 DEF BookNext
  <2>2. CASE ~(Alive(w) /\ ~busy[w] /\ pending # <<>>)
    BY <1>5, <2>2 DEF Release, BookNext, books
  <2>3. QED
    BY <2>1, <2>2
<1>6. ASSUME NEW w \in Slots, Kill(w) PROVE BookNext
    BY <1>6 DEF Kill, poolVars, BookNext, books
<1>7. ASSUME NEW w \in Slots, Respawn(w) PROVE BookNext
  <2>1. ticketOf[w] = -1
    BY <1>t, <1>7 DEF Respawn, Unborn
  <2>2. QED
    BY <1>t, <1>7, <2>1, SpawnBooks DEF Respawn
<1>8. CASE Reaped
    BY <1>t, <1>8, RetireBooks DEF Reaped, TypeOK
<1>9. CASE Wait
    BY <1>9 DEF Wait, poolVars, BookNext, books
<1>10. ASSUME NEW f \in Fd, OnReady(f) PROVE BookNext
    BY <1>10 DEF OnReady, poolVars, BookNext, books
<1>11. CASE ReadFrame
  <2>1. cur \in Slots
    BY <1>t DEF TypeOK
  <2>2. ticketOf[cur] # -1 /\ outbox[cur] = <<ticketOf[cur]>>
    BY <1>t, <1>11, <2>1 DEF ReadFrame, Channels, Channel
  <2>3. Surface(ticketOf[cur], "ok")
    BY <1>11, <2>2 DEF ReadFrame
  <2>4. QED
    BY <1>t, <1>11, <2>1, <2>2, <2>3, SurfaceRunning, AfterFrameBooks DEF ReadFrame
<1>12. CASE ReadTorn
  <2>1. cur \in Slots /\ ticketOf[cur] # -1
    BY <1>t, <1>12 DEF ReadTorn, Channels, Channel, TypeOK
  <2>2. QED
    BY <1>t, <1>12, <2>1, SurfaceRunning, AfterFrameBooks DEF ReadTorn
<1>13. CASE ReadEOF
    BY <1>t, <1>13, RetireBooks DEF ReadEOF, TypeOK
<1>14. CASE Deinit \/ FiniTerm \/ FiniReap \/ ParentDies \/ UNCHANGED vars
    BY <1>14 DEF Deinit, FiniTerm, FiniReap, ParentDies, vars, poolVars, BookNext, books
<1>15. ASSUME NEW w \in Slots, Child(w) \/ ChildCrash(w) PROVE BookNext
    BY <1>15 DEF Child, ChildRead, ChildHeader, ChildPayload, ChildEOF, ChildCrash,
                 poolVars, BookNext, books
<1>16. QED
    BY <1>1, <1>2, <1>3, <1>4, <1>5, <1>6, <1>7, <1>8, <1>9, <1>10, <1>11, <1>12,
       <1>13, <1>14, <1>15
    DEF Next, Read, Fini, Terminated

(* A write to slot w's channel leaves every other slot's alone, and puts the *)
(* slot it serves in one of the busy shapes.                                 *)
LEMMA DispatchChannels ==
  ASSUME TypeOK, NEW w \in Slots, NEW tk \in Tickets, Dispatch(w, tk),
         \A v \in Slots \ {w} : Channel(v),
         inbox[w] = <<>>, outbox'[w] = <<>>, child'[w] \in {"idle", "dead", "none"},
         Running(w) => child'[w] = "idle",
         Dead(w) => child'[w] = "dead",
         \A v \in Slots \ {w} :
            child'[v] = child[v] /\ now'[v] = now[v] /\ outbox'[v] = outbox[v]
  PROVE  Channels'
<1>1. ASSUME NEW v \in Slots, v # w PROVE Channel(v)'
  <2>1. /\ busy'[v] = busy[v] /\ ticketOf'[v] = ticketOf[v] /\ inbox'[v] = inbox[v]
    BY <1>1 DEF Dispatch, WriteFrame, TypeOK
  <2>2. QED
    BY <1>1, <2>1 DEF Channel
<1>2. Channel(w)'
  <2>1. busy'[w] /\ ticketOf'[w] = tk /\ tk # -1
    BY TicketsFact DEF Dispatch, TypeOK
  <2>0. CASE tk \in OversizeIn
    <3>1. inbox'[w] = <<>>
      BY <2>0 DEF Dispatch, WriteFrame
    <3>2. QED
      BY <2>0, <2>1, <3>1 DEF Channel
  <2>2. CASE tk \notin OversizeIn /\ Running(w)
    <3>1. inbox'[w] = <<tk>>
      BY <2>2 DEF Dispatch, WriteFrame, TypeOK, Running, Dead
    <3>2. QED
      BY <2>1, <2>2, <3>1 DEF Channel
  <2>3. CASE tk \notin OversizeIn /\ Dead(w)
    <3>1. inbox'[w] = <<>>
      BY <2>3 DEF Dispatch, WriteFrame, TypeOK, Running, Dead
    <3>2. QED
      BY <2>1, <2>3, <3>1 DEF Channel
  <2>4. QED
    BY <2>0, <2>2, <2>3 DEF Dispatch, WriteFrame
<1>3. QED
    BY <1>1, <1>2 DEF Channels

(* A process that ends keeps its slot in one of the shapes.                  *)
LEMMA ChildEndsChannels ==
  ASSUME TypeOK, Channels, NEW w \in Slots, Running(w), ChildEnds(w),
         UNCHANGED <<busy, ticketOf>>
  PROVE  Channels'
<1>1. ASSUME NEW v \in Slots, v # w PROVE Channel(v)'
    BY <1>1 DEF ChildEnds, TypeOK, Channels, Channel
<1>2. Channel(w)'
  <2>1. /\ child'[w] \in {"dead", "torn"} /\ (child'[w] = "torn" <=> child[w] = "hdr")
        /\ inbox'[w] = <<>> /\ outbox'[w] = outbox[w]
        /\ busy'[w] = busy[w] /\ ticketOf'[w] = ticketOf[w]
    BY DEF ChildEnds, TypeOK
  <2>2. Channel(w)
    BY DEF Channels
  <2>3. QED
    BY <2>1, <2>2 DEF Channel, Running
<1>3. QED
    BY <1>1, <1>2 DEF Channels

(* A slot that is reset, by a spawn or a retirement, is in the idle shape.   *)
LEMMA ResetChannels ==
  ASSUME TypeOK, Channels, NEW w \in Slots, NEW c \in {"none", "idle"},
         busy' = [busy EXCEPT ![w] = FALSE],
         ticketOf' = [ticketOf EXCEPT ![w] = -1],
         child' = [child EXCEPT ![w] = c],
         inbox' = [inbox EXCEPT ![w] = <<>>],
         outbox' = [outbox EXCEPT ![w] = <<>>],
         now' = [now EXCEPT ![w] = -1]
  PROVE  Channels'
<1>1. ASSUME NEW v \in Slots, v # w PROVE Channel(v)'
    BY <1>1 DEF TypeOK, Channels, Channel
<1>2. Channel(w)'
    BY DEF TypeOK, Channel
<1>3. QED
    BY <1>1, <1>2 DEF Channels

(* After an answer was read: idle, or busy with the oldest backlog entry.    *)
LEMMA AfterFrameChannels ==
  ASSUME TypeOK, Channels, NEW w \in Slots, AfterFrame(w),
         inbox[w] = <<>>, outbox'[w] = <<>>, child'[w] \in {"idle", "dead", "none"},
         Running(w) => child'[w] = "idle",
         Dead(w) => child'[w] = "dead",
         \A v \in Slots \ {w} :
            child'[v] = child[v] /\ now'[v] = now[v] /\ outbox'[v] = outbox[v]
  PROVE  Channels'
<1>1. CASE pending = <<>>
  <2>1. ASSUME NEW v \in Slots, v # w PROVE Channel(v)'
    BY <1>1, <2>1 DEF AfterFrame, TypeOK, Channels, Channel
  <2>2. Channel(w)'
    BY <1>1 DEF AfterFrame, TypeOK, Channel
  <2>3. QED
    BY <2>1, <2>2 DEF Channels
<1>2. CASE pending # <<>>
  <2>1. Head(pending) \in Tickets
    BY <1>2, HeadTailProperties DEF TypeOK
  <2>2. \A v \in Slots \ {w} : Channel(v)
    BY DEF Channels
  <2>3. Dispatch(w, Head(pending))
    BY <1>2 DEF AfterFrame, DrainOne
  <2>4. QED
    BY <2>1, <2>2, <2>3, DispatchChannels
<1>3. QED
    BY <1>1, <1>2

(* Every step keeps each slot in one of the shapes.                          *)
LEMMA NextChannels == IInv /\ [Next]_vars => Channels'
<1> SUFFICES ASSUME IInv, [Next]_vars PROVE Channels'
    OBVIOUS
<1>t. TypeOK /\ Books /\ Channels /\ Unborn
    BY DEF IInv
<1>n. nextTicket < MaxTickets => nextTicket \in Tickets
    BY <1>t, TicketsFact DEF TypeOK
<1>s. ASSUME NEW w \in Slots, SpawnInto(w) \/ SpawnFailed PROVE Channels'
  <2>1. CASE SpawnInto(w)
    BY <1>t, <2>1, ResetChannels DEF SpawnInto
  <2>2. CASE SpawnFailed
    BY <1>t, <2>2 DEF SpawnFailed, osVars, Channels, Channel
  <2>3. QED
    BY <1>s, <2>1, <2>2
<1>d. ASSUME NEW w \in Slots, ~busy[w], NEW tk \in Tickets, Dispatch(w, tk),
             UNCHANGED <<child, now, outbox>>
      PROVE  Channels'
  <2>1. /\ inbox[w] = <<>> /\ outbox[w] = <<>> /\ child[w] \in {"idle", "dead", "none"}
    BY <1>t, <1>d DEF Channels, Channel
  <2>2. \A v \in Slots \ {w} : Channel(v)
    BY <1>t DEF Channels
  <2>3. (Running(w) => child[w] = "idle") /\ (Dead(w) => child[w] = "dead")
    BY <2>1 DEF Running, Dead
  <2>4. QED
    BY <1>t, <1>d, <2>1, <2>2, <2>3, DispatchChannels
<1>1. CASE InitSlot
    BY <1>t, <1>1, <1>s DEF InitSlot, TypeOK
<1>2. CASE Submit
  <2>1. ASSUME NEW w \in Slots, Free(w), Dispatch(w, nextTicket)
        PROVE  Channels'
    BY <1>2, <1>n, <1>d, <2>1 DEF Submit, Free
  <2>2. ASSUME UNCHANGED <<busy, ticketOf, inbox>>
        PROVE  Channels'
    BY <1>t, <1>2, <2>2 DEF Submit, Channels, Channel
  <2>3. QED
    BY <1>2, <2>1, <2>2 DEF Submit
<1>4. ASSUME NEW w \in Slots, SubmitTo(w) PROVE Channels'
    BY <1>4, <1>n, <1>d DEF SubmitTo
<1>5. ASSUME NEW w \in Slots, Release(w) PROVE Channels'
  <2>1. CASE Alive(w) /\ ~busy[w] /\ pending # <<>>
    <3>1. Head(pending) \in Tickets
      BY <1>t, <2>1, HeadTailProperties DEF TypeOK
    <3>2. QED
      BY <1>5, <1>d, <2>1, <3>1 DEF Release, DrainOne
  <2>2. CASE ~(Alive(w) /\ ~busy[w] /\ pending # <<>>)
    BY <1>t, <1>5, <2>2 DEF Release, Channels, Channel
  <2>3. QED
    BY <2>1, <2>2
<1>6. ASSUME NEW w \in Slots, Kill(w) PROVE Channels'
  <2>1. CASE Running(w) /\ ~TermHandled
    BY <1>t, <1>6, <2>1, ChildEndsChannels DEF Kill, poolVars
  <2>2. CASE ~(Running(w) /\ ~TermHandled)
    BY <1>t, <1>6, <2>2 DEF Kill, poolVars, Channels, Channel
  <2>3. QED
    BY <2>1, <2>2
<1>7. ASSUME NEW w \in Slots, Respawn(w) PROVE Channels'
    BY <1>7, <1>s DEF Respawn
<1>8. CASE Reaped \/ ReadEOF
  <2>1. Retire(cur) /\ cur \in Slots
    BY <1>t, <1>8 DEF Reaped, ReadEOF, TypeOK
  <2>2. QED
    BY <1>t, <2>1, ResetChannels DEF Retire
<1>9. CASE Checkout \/ Wait \/ Deinit \/ ParentDies \/ UNCHANGED vars
    BY <1>t, <1>9 DEF Checkout, Wait, Deinit, ParentDies, vars, poolVars, osVars, Channels, Channel
<1>10. ASSUME NEW f \in Fd, OnReady(f) PROVE Channels'
    BY <1>t, <1>10 DEF OnReady, poolVars, osVars, Channels, Channel
<1>11. CASE ReadFrame
  <2>1. cur \in Slots /\ Channel(cur)
    BY <1>t DEF TypeOK, Channels
  <2>2. /\ inbox[cur] = <<>> /\ outbox[cur] = <<ticketOf[cur]>>
        /\ child[cur] \in {"idle", "dead", "none"}
    BY <1>11, <2>1 DEF ReadFrame, Channel
  <2>3. outbox'[cur] = <<>> /\ \A v \in Slots \ {cur} : outbox'[v] = outbox[v]
    <3>1. Tail(<<ticketOf[cur]>>) = <<>>
      OBVIOUS
    <3>2. QED
      BY <1>t, <1>11, <2>1, <2>2, <3>1 DEF ReadFrame, TypeOK
  <2>4. (Running(cur) => child[cur] = "idle") /\ (Dead(cur) => child[cur] = "dead")
    BY <2>2 DEF Running, Dead
  <2>5. AfterFrame(cur) /\ UNCHANGED <<child, now>>
    BY <1>11 DEF ReadFrame
  <2>6. QED
    BY <1>t, <2>1, <2>2, <2>3, <2>4, <2>5, AfterFrameChannels
<1>12. CASE ReadTorn
  <2>1. cur \in Slots /\ Channel(cur)
    BY <1>t DEF TypeOK, Channels
  <2>2. inbox[cur] = <<>> /\ outbox[cur] = <<>>
    BY <1>12, <2>1 DEF ReadTorn, Channel
  <2>3. /\ child'[cur] = "dead"
        /\ \A v \in Slots \ {cur} : child'[v] = child[v]
        /\ outbox' = outbox /\ now' = now
        /\ AfterFrame(cur) /\ ~Running(cur)
    BY <1>t, <1>12 DEF ReadTorn, Running, TypeOK
  <2>4. QED
    BY <1>t, <2>1, <2>2, <2>3, AfterFrameChannels
<1>13. CASE FiniTerm
    BY <1>t, <1>13, ChildEndsChannels DEF FiniTerm, poolVars, TypeOK
<1>14. CASE FiniReap
  <2>1. ASSUME NEW v \in Slots PROVE Channel(v)'
    <3>1. UNCHANGED <<busy, ticketOf, inbox, now, outbox>>
      BY <1>14 DEF FiniReap, poolVars
    <3>2. CASE v # cur
      <4>1. child'[v] = child[v]
        BY <1>t, <1>14, <3>2 DEF FiniReap, TypeOK
      <4>2. QED
        BY <1>t, <3>1, <4>1 DEF Channels, Channel
    <3>3. CASE v = cur
      <4>1. child[v] \in {"none", "dead", "torn"} /\ child'[v] = "none"
        BY <1>t, <1>14, <3>3 DEF FiniReap, Running, TypeOK
      <4>2. QED
        BY <1>t, <3>1, <4>1 DEF Channels, Channel
    <3>4. QED
      BY <3>2, <3>3
  <2>2. QED
    BY <2>1 DEF Channels
<1>15. ASSUME NEW w \in Slots, ChildRead(w) PROVE Channels'
  <2>1. ASSUME NEW v \in Slots, v # w PROVE Channel(v)'
    BY <1>t, <1>15, <2>1 DEF ChildRead, poolVars, TypeOK, Channels, Channel
  <2>2. Channel(w)'
    <3>1. busy[w] /\ ticketOf[w] # -1 /\ inbox[w] = <<ticketOf[w]>> /\ outbox[w] = <<>>
      BY <1>t, <1>15 DEF ChildRead, Channels, Channel
    <3>2. Tail(<<ticketOf[w]>>) = <<>> /\ Head(<<ticketOf[w]>>) = ticketOf[w]
      OBVIOUS
    <3>3. child'[w] = "job" /\ now'[w] = ticketOf[w] /\ inbox'[w] = <<>>
      BY <1>t, <1>15, <3>1, <3>2 DEF ChildRead, TypeOK
    <3>4. QED
      BY <1>15, <3>1, <3>3 DEF ChildRead, poolVars, Channel
  <2>3. QED
    BY <2>1, <2>2 DEF Channels
<1>16. ASSUME NEW w \in Slots, ChildHeader(w) PROVE Channels'
  <2>1. CASE ParentEndOpen(w) /\ now[w] \notin OversizeOut
    <3>1. ASSUME NEW v \in Slots PROVE Channel(v)'
      BY <1>t, <1>16, <2>1 DEF ChildHeader, poolVars, TypeOK, Channels, Channel
    <3>2. QED
      BY <3>1 DEF Channels
  <2>2. CASE ~(ParentEndOpen(w) /\ now[w] \notin OversizeOut)
    BY <1>t, <1>16, <2>2, ChildEndsChannels DEF ChildHeader, poolVars, Running
  <2>3. QED
    BY <2>1, <2>2
<1>17. ASSUME NEW w \in Slots, ChildPayload(w) PROVE Channels'
  <2>1. CASE ParentEndOpen(w)
    <3>1. ASSUME NEW v \in Slots, v # w PROVE Channel(v)'
      BY <1>t, <1>17, <2>1, <3>1 DEF ChildPayload, poolVars, TypeOK, Channels, Channel
    <3>2. Channel(w)'
      <4>1. /\ busy[w] /\ ticketOf[w] # -1 /\ now[w] = ticketOf[w]
            /\ inbox[w] = <<>> /\ outbox[w] = <<>>
        BY <1>t, <1>17 DEF ChildPayload, Channels, Channel
      <4>2. child'[w] = "idle" /\ outbox'[w] = <<ticketOf[w]>> /\ inbox'[w] = <<>>
        BY <1>t, <1>17, <2>1, <4>1 DEF ChildPayload, TypeOK
      <4>3. QED
        BY <1>17, <4>1, <4>2 DEF ChildPayload, poolVars, Channel
    <3>3. QED
      BY <3>1, <3>2 DEF Channels
  <2>2. CASE ~ParentEndOpen(w)
    BY <1>t, <1>17, <2>2, ChildEndsChannels DEF ChildPayload, poolVars, Running
  <2>3. QED
    BY <2>1, <2>2
<1>18. ASSUME NEW w \in Slots, ChildEOF(w) \/ ChildCrash(w) PROVE Channels'
    BY <1>t, <1>18, ChildEndsChannels DEF ChildEOF, ChildCrash, poolVars, Running
<1>19. QED
    BY <1>1, <1>2, <1>4, <1>5, <1>6, <1>7, <1>8, <1>9, <1>10, <1>11, <1>12,
       <1>13, <1>14, <1>15, <1>16, <1>17, <1>18
    DEF Next, Read, Fini, Child, Terminated

(* A dead slot gets no job, and the constructor's loop stays ahead.          *)
LEMMA SpawnUnborn ==
  ASSUME TypeOK, Unborn, NEW w \in Slots, SpawnInto(w)
  PROVE  /\ \A v \in Slots : fds'[v] = -1 => ticketOf'[v] = -1
         /\ \A v \in Slots \ {w} : fds'[v] = fds[v]
<1>1. \A v \in Slots : ticketOf'[v] = IF v = w THEN -1 ELSE ticketOf[v]
    BY DEF SpawnInto, TypeOK
<1>2. \A v \in Slots \ {w} : fds'[v] = fds[v]
    BY DEF SpawnInto, TypeOK
<1>3. QED
    BY <1>1, <1>2 DEF Unborn, Alive

LEMMA NextUnborn == IInv /\ [Next]_vars => Unborn'
<1> SUFFICES ASSUME IInv, [Next]_vars PROVE Unborn'
    OBVIOUS
<1>t. TypeOK /\ Channels /\ Unborn
    BY DEF IInv
<1>q. ASSUME UNCHANGED <<fds, ticketOf, at, cur>> PROVE Unborn'
    BY <1>t, <1>q DEF Unborn, Alive
<1>u. ASSUME UNCHANGED <<fds, ticketOf>>, at' # "init" PROVE Unborn'
    BY <1>t, <1>u DEF Unborn, Alive
<1>d. ASSUME NEW w \in Slots, Alive(w), NEW tk, at # "init", UNCHANGED fds,
             ticketOf' = [ticketOf EXCEPT ![w] = tk], at' # "init"
      PROVE  Unborn'
    BY <1>t, <1>d DEF Unborn, Alive, TypeOK
<1>1. CASE InitSlot
  <2>1. cur \in Slots /\ at = "init"
    BY <1>t, <1>1 DEF InitSlot, TypeOK
  <2>2. CASE SpawnInto(cur)
    <3>1. /\ \A v \in Slots : fds'[v] = -1 => ticketOf'[v] = -1
          /\ \A v \in Slots \ {cur} : fds'[v] = fds[v]
      BY <1>t, <2>1, <2>2, SpawnUnborn
    <3>2. at' = "init" => \A v \in Slots : v >= cur' => v \in Slots \ {cur} /\ v >= cur
      BY <1>1, <2>1, SlotsFact DEF InitSlot
    <3>3. QED
      BY <1>t, <2>1, <3>1, <3>2 DEF Unborn, Alive
  <2>3. CASE SpawnFailed
    <3>1. at' = "init" => \A v \in Slots : v >= cur' => v >= cur
      BY <1>1, <2>1, SlotsFact DEF InitSlot
    <3>2. QED
      BY <1>t, <2>1, <2>3, <3>1 DEF Unborn, Alive, SpawnFailed
  <2>4. QED
    BY <1>1, <2>2, <2>3 DEF InitSlot
<1>2. CASE Submit
  <2>1. ASSUME NEW w \in Slots, Free(w), Dispatch(w, nextTicket) PROVE Unborn'
    BY <1>2, <1>d, <2>1 DEF Submit, UserTurn, Free, Dispatch, WriteFrame
  <2>2. ASSUME UNCHANGED <<ticketOf, at>> PROVE Unborn'
    BY <1>2, <1>q, <2>2 DEF Submit
  <2>3. QED
    BY <1>2, <2>1, <2>2 DEF Submit
<1>3. ASSUME NEW w \in Slots, SubmitTo(w) PROVE Unborn'
    BY <1>3, <1>d DEF SubmitTo, UserTurn, Dispatch, WriteFrame
<1>4. ASSUME NEW w \in Slots, Release(w) PROVE Unborn'
  <2>1. CASE Alive(w) /\ ~busy[w] /\ pending # <<>>
    BY <1>4, <1>d, <2>1 DEF Release, UserTurn, DrainOne, Dispatch, WriteFrame
  <2>2. CASE ~(Alive(w) /\ ~busy[w] /\ pending # <<>>)
    BY <1>4, <1>q, <2>2 DEF Release
  <2>3. QED
    BY <2>1, <2>2
<1>5. ASSUME NEW w \in Slots, Respawn(w) PROVE Unborn'
  <2>1. CASE SpawnInto(w)
    <3>1. at' = "user"
      BY <1>5 DEF Respawn, UserTurn
    <3>2. QED
      BY <1>t, <2>1, <3>1, SpawnUnborn DEF Unborn, Alive
  <2>2. CASE SpawnFailed
    BY <1>5, <1>q, <2>2 DEF Respawn, SpawnFailed
  <2>3. QED
    BY <1>5, <2>1, <2>2 DEF Respawn
<1>6. CASE Reaped \/ ReadEOF
  <2>1. Retire(cur) /\ cur \in Slots /\ at' = "user"
    BY <1>t, <1>6 DEF Reaped, ReadEOF, TypeOK
  <2>2. \A v \in Slots : /\ ticketOf'[v] = IF v = cur THEN -1 ELSE ticketOf[v]
                         /\ v # cur => fds'[v] = fds[v]
    BY <1>t, <2>1 DEF Retire, TypeOK
  <2>3. QED
    BY <1>t, <2>1, <2>2 DEF Unborn, Alive
<1>7. CASE ReadFrame \/ ReadTorn
  <2>1. cur \in Slots /\ Alive(cur) /\ at # "init"
    <3>1. cur \in Slots /\ ticketOf[cur] # -1
      BY <1>t, <1>7 DEF ReadFrame, ReadTorn, Channels, Channel, TypeOK
    <3>2. QED
      BY <1>t, <1>7, <3>1 DEF ReadFrame, ReadTorn, Unborn
  <2>2. AfterFrame(cur) /\ UNCHANGED fds
    BY <1>7 DEF ReadFrame, ReadTorn
  <2>3. at' # "init" /\ \E tk : ticketOf' = [ticketOf EXCEPT ![cur] = tk]
    BY <2>2 DEF AfterFrame, DrainOne, Dispatch, WriteFrame
  <2>4. QED
    BY <1>d, <2>1, <2>2, <2>3
<1>8. ASSUME NEW w \in Slots, Kill(w) PROVE Unborn'
    BY <1>8, <1>u DEF Kill, poolVars
<1>9. ASSUME NEW f \in Fd, OnReady(f) PROVE Unborn'
    BY <1>9, <1>u DEF OnReady, poolVars
<1>10. CASE Deinit \/ FiniReap \/ ParentDies
    BY <1>10, <1>u DEF Deinit, FiniReap, ParentDies, poolVars
<1>11. CASE Checkout \/ Wait \/ FiniTerm \/ UNCHANGED vars
    BY <1>11, <1>q DEF Checkout, Wait, FiniTerm, vars, poolVars
<1>12. ASSUME NEW w \in Slots, Child(w) \/ ChildCrash(w) PROVE Unborn'
    BY <1>12, <1>q DEF Child, ChildRead, ChildHeader, ChildPayload, ChildEOF, ChildCrash, poolVars
<1>13. QED
    BY <1>1, <1>2, <1>3, <1>4, <1>5, <1>6, <1>7, <1>8, <1>9, <1>10, <1>11, <1>12
    DEF Next, Read, Fini, Terminated

-----------------------------------------------------------------------------
LEMMA InitIInv == Init => IInv
<1> SUFFICES ASSUME Init PROVE IInv
    OBVIOUS
<1>1. TypeOK
    BY InitTypeOK
<1>2. Books
    BY ConstantsAssumption DEF Init, Books, Backlog, RunningTickets, Outcomes, Tickets
<1>3. Channels /\ Unborn
    BY DEF Init, Channels, Channel, Unborn, Alive
<1>4. QED
    BY <1>1, <1>2, <1>3 DEF IInv

LEMMA NextIInv == IInv /\ [Next]_vars => IInv'
<1> SUFFICES ASSUME IInv, [Next]_vars PROVE IInv'
    OBVIOUS
<1>1. TypeOK'
    BY NextTypeOK DEF IInv
<1>2. Books'
    BY <1>1, NextBooks, BooksKept DEF IInv
<1>3. QED
    BY <1>1, <1>2, NextChannels, NextUnborn DEF IInv

(* The books imply the property as the runs check it.                        *)
LEMMA BooksConserve == TypeOK /\ Books => TicketConserved /\ AnswersMatch
<1> SUFFICES ASSUME TypeOK, Books PROVE TicketConserved /\ AnswersMatch
    OBVIOUS
<1>0. DOMAIN pending = 1 .. Len(pending)
    BY LenProperties DEF TypeOK
<1>1. ASSUME NEW t \in Tickets
      PROVE  /\ (Queued(t) \/ Assigned(t)) <=> (t < nextTicket /\ outcome[t] = "open")
             /\ ~(Queued(t) /\ Assigned(t))
             /\ outcome[t] # "dup"
  <2>1. Queued(t) => t < nextTicket /\ outcome[t] = "open" /\ ~Assigned(t)
    BY <1>0 DEF Queued, Assigned, Books, Backlog
  <2>2. Assigned(t) => t < nextTicket /\ outcome[t] = "open"
    BY TicketsFact DEF Assigned, Books, RunningTickets
  <2>3. t < nextTicket /\ outcome[t] = "open" => Queued(t) \/ Assigned(t)
    BY <1>0 DEF Queued, Assigned, Books, Outcomes
  <2>4. QED
    BY <2>1, <2>2, <2>3 DEF Books, Outcomes
<1>2. TicketConserved
    BY <1>0, <1>1 DEF TicketConserved, Books, Backlog, RunningTickets
<1>3. AnswersMatch
    BY DEF AnswersMatch, Books, Outcomes
<1>4. QED
    BY <1>2, <1>3

LEMMA PoolInvariant == Spec => []IInv
<1>1. QED
    BY InitIInv, NextIInv, PTL DEF Spec

(* For any number of workers, jobs, forks, crashes and kills: every ticket   *)
(* handed out by submit() and submitTo() is in the backlog, on exactly one   *)
(* worker, or settled exactly once.                                          *)
THEOREM PoolTicketsConserved == Spec => []TicketConserved
<1>1. IInv => TicketConserved
    BY BooksConserve DEF IInv
<1>2. QED
    BY <1>1, PoolInvariant, PTL

(* The output onReady() returns for a ticket is always the output of the job *)
(* that ticket names, although no ticket travels on the wire.                *)
THEOREM PoolAnswersMatch == Spec => []AnswersMatch
<1>1. IInv => AnswersMatch
    BY BooksConserve DEF IInv
<1>2. QED
    BY <1>1, PoolInvariant, PTL

-----------------------------------------------------------------------------
(* Descriptors leaked by fork(). The absence of a circle is kept because a   *)
(* new child can only copy channels that exist: Leaks says that whatever is  *)
(* open in the parent or copied in a child belongs to a live slot, so nobody *)
(* holds a copy for the slot that is being filled.                           *)
Leaks ==
    /\ \A w \in Slots : open[w] => Alive(w)
    /\ \A v, w \in Slots : w \in inherits[v] => Alive(w)

\* A step that ends processes, closes ends and drops copies, and spawns nothing.
Shrinks ==
    /\ UNCHANGED fds
    /\ \A w \in Slots : open'[w] => open[w]
    /\ \A w \in Slots : Running(w)' => Running(w)
    /\ UNCHANGED inherits

LEMMA ShrinksKeeps ==
  ASSUME TypeOK, Leaks, NoInheritanceCycle, Shrinks
  PROVE  Leaks' /\ NoInheritanceCycle'
<1>1. Leaks'
    BY DEF Shrinks, Leaks, Alive
<1>2. ASSUME NEW S \in SUBSET {w \in Slots : Running(w)'}, S # {}
      PROVE  \E w \in S : \A v \in S : w \notin inherits'[v]
  <2>1. S \in SUBSET {w \in Slots : Running(w)}
    BY DEF Shrinks
  <2>2. QED
    BY <1>2, <2>1 DEF NoInheritanceCycle, Shrinks
<1>3. NoInheritanceCycle'
    BY <1>2 DEF NoInheritanceCycle
<1>4. QED
    BY <1>1, <1>3

LEMMA SpawnKeeps ==
  ASSUME TypeOK, Leaks, NoInheritanceCycle, NEW w \in Slots, ~Alive(w), SpawnInto(w)
  PROVE  Leaks' /\ NoInheritanceCycle'
<1>1. \A v \in Slots : w \notin inherits[v]
    BY DEF Leaks
<1>2. /\ \A v \in Slots \ {w} : /\ inherits'[v] = inherits[v] /\ open'[v] = open[v]
                                /\ fds'[v] = fds[v] /\ child'[v] = child[v]
      /\ inherits'[w] = {v \in Slots \ {w} : open[v]}
    BY DEF SpawnInto, TypeOK
<1>3. fds'[w] # -1
    BY ConstantsAssumption DEF SpawnInto, TypeOK
<1>4. Leaks'
    BY <1>2, <1>3 DEF Leaks, Alive
<1>5. ASSUME NEW S \in SUBSET {v \in Slots : Running(v)'}, S # {}
      PROVE  \E u \in S : \A v \in S : u \notin inherits'[v]
  <2>1. CASE w \in S
    BY <1>1, <1>2, <2>1
  <2>2. CASE w \notin S
    <3>1. S \in SUBSET {v \in Slots : Running(v)}
      BY <1>2, <2>2 DEF Running
    <3>2. PICK u \in S : \A v \in S : u \notin inherits[v]
      BY <1>5, <3>1 DEF NoInheritanceCycle
    <3>3. QED
      BY <1>2, <2>2, <3>2
  <2>3. QED
    BY <2>1, <2>2
<1>6. NoInheritanceCycle'
    BY <1>5 DEF NoInheritanceCycle
<1>7. QED
    BY <1>4, <1>6

LEMMA RetireKeeps ==
  ASSUME TypeOK, Leaks, NoInheritanceCycle, NEW w \in Slots, Retire(w)
  PROVE  Leaks' /\ NoInheritanceCycle'
<1>1. \A v \in Slots : /\ inherits'[v] \subseteq inherits[v] \ {w}
                       /\ Running(v)' => Running(v)
    BY DEF Retire, TypeOK, Running
<1>2. \A v \in Slots \ {w} : fds'[v] = fds[v] /\ open'[v] = open[v]
    BY DEF Retire, TypeOK
<1>3. ~open'[w]
    BY DEF Retire, TypeOK
<1>4. Leaks'
    BY <1>1, <1>2, <1>3 DEF Leaks, Alive
<1>5. ASSUME NEW S \in SUBSET {v \in Slots : Running(v)'}, S # {}
      PROVE  \E u \in S : \A v \in S : u \notin inherits'[v]
  <2>1. S \in SUBSET {v \in Slots : Running(v)}
    BY <1>1
  <2>2. PICK u \in S : \A v \in S : u \notin inherits[v]
    BY <1>5, <2>1 DEF NoInheritanceCycle
  <2>3. QED
    BY <1>1, <2>2
<1>6. NoInheritanceCycle'
    BY <1>5 DEF NoInheritanceCycle
<1>7. QED
    BY <1>4, <1>6

LEMMA ChildEndsShrinks ==
  ASSUME TypeOK, NEW w \in Slots, ChildEnds(w) PROVE \A v \in Slots : Running(v)' => Running(v)
  BY DEF ChildEnds, TypeOK, Running

LEMMA WriteFrameShrinks ==
  ASSUME TypeOK, NEW w \in Slots, NEW tk, WriteFrame(w, tk)
  PROVE  \A v \in Slots : open'[v] => open[v]
  BY DEF WriteFrame, TypeOK

LEMMA NextLeaks ==
  IInv /\ Leaks /\ NoInheritanceCycle /\ [Next]_vars => Leaks' /\ NoInheritanceCycle'
<1> SUFFICES ASSUME IInv, Leaks, NoInheritanceCycle, [Next]_vars
             PROVE  Leaks' /\ NoInheritanceCycle'
    OBVIOUS
<1>t. TypeOK /\ Unborn
    BY DEF IInv
<1>s. ASSUME Shrinks PROVE Leaks' /\ NoInheritanceCycle'
    BY <1>t, <1>s, ShrinksKeeps
<1>q. ASSUME UNCHANGED <<fds, open, child, inherits>> PROVE Shrinks
    BY <1>q DEF Shrinks, Running
<1>1. CASE InitSlot
  <2>1. cur \in Slots /\ ~Alive(cur)
    BY <1>t, <1>1, SlotsFact DEF InitSlot, Unborn, TypeOK
  <2>2. CASE SpawnInto(cur)
    BY <1>t, <2>1, <2>2, SpawnKeeps
  <2>3. CASE SpawnFailed
    BY <1>s, <1>q, <2>3 DEF SpawnFailed, osVars
  <2>4. QED
    BY <1>1, <2>2, <2>3 DEF InitSlot
<1>2. ASSUME NEW w \in Slots, Respawn(w) PROVE Leaks' /\ NoInheritanceCycle'
  <2>1. CASE SpawnInto(w)
    BY <1>t, <1>2, <2>1, SpawnKeeps DEF Respawn
  <2>2. CASE SpawnFailed
    BY <1>s, <1>q, <2>2 DEF SpawnFailed, osVars
  <2>3. QED
    BY <1>2, <2>1, <2>2 DEF Respawn
<1>3. CASE Reaped \/ ReadEOF
  <2>1. Retire(cur) /\ cur \in Slots
    BY <1>t, <1>3 DEF Reaped, ReadEOF, TypeOK
  <2>2. QED
    BY <1>t, <2>1, RetireKeeps
<1>4. CASE Submit
  <2>1. \A v \in Slots : open'[v] => open[v]
    BY <1>t, <1>4, WriteFrameShrinks DEF Submit, Dispatch
  <2>2. QED
    BY <1>4, <1>s, <2>1 DEF Submit, Shrinks, Running
<1>5. ASSUME NEW w \in Slots, SubmitTo(w) PROVE Leaks' /\ NoInheritanceCycle'
  <2>1. \A v \in Slots : open'[v] => open[v]
    BY <1>t, <1>5, WriteFrameShrinks DEF SubmitTo, Dispatch
  <2>2. QED
    BY <1>5, <1>s, <2>1 DEF SubmitTo, Shrinks, Running
<1>6. ASSUME NEW w \in Slots, Release(w) PROVE Leaks' /\ NoInheritanceCycle'
  <2>1. \A v \in Slots : open'[v] => open[v]
    BY <1>t, <1>6, WriteFrameShrinks DEF Release, DrainOne, Dispatch
  <2>2. QED
    BY <1>6, <1>s, <2>1 DEF Release, Shrinks, Running
<1>7. CASE ReadFrame \/ ReadTorn
  <2>1. AfterFrame(cur) /\ cur \in Slots /\ UNCHANGED <<fds, inherits>>
    BY <1>t, <1>7 DEF ReadFrame, ReadTorn, TypeOK
  <2>2. \A v \in Slots : open'[v] => open[v]
    BY <1>t, <2>1, WriteFrameShrinks DEF AfterFrame, DrainOne, Dispatch
  <2>3. \A v \in Slots : Running(v)' => Running(v)
    BY <1>t, <1>7 DEF ReadFrame, ReadTorn, Running, TypeOK
  <2>4. QED
    BY <1>s, <2>1, <2>2, <2>3 DEF Shrinks
<1>8. ASSUME NEW w \in Slots, Kill(w) PROVE Leaks' /\ NoInheritanceCycle'
  <2>1. \A v \in Slots : Running(v)' => Running(v)
    BY <1>t, <1>8, ChildEndsShrinks DEF Kill, Running
  <2>2. \A v \in Slots : open'[v] => open[v]
    BY <1>t, <1>8 DEF Kill, TypeOK
  <2>3. QED
    BY <1>8, <1>s, <2>1, <2>2 DEF Kill, Shrinks, poolVars
<1>9. CASE FiniTerm
    BY <1>t, <1>9, <1>s, ChildEndsShrinks DEF FiniTerm, Shrinks, poolVars, TypeOK
<1>10. CASE FiniReap
  <2>1. \A v \in Slots : Running(v)' => Running(v)
    BY <1>t, <1>10 DEF FiniReap, Running, TypeOK
  <2>2. QED
    BY <1>10, <1>s, <2>1 DEF FiniReap, Shrinks, poolVars
<1>11. CASE Deinit \/ ParentDies
    BY <1>11, <1>s DEF Deinit, ParentDies, Shrinks, Running, poolVars
<1>12. ASSUME NEW w \in Slots, Child(w) \/ ChildCrash(w)
       PROVE  Leaks' /\ NoInheritanceCycle'
  <2>1. UNCHANGED <<fds, open, inherits>>
    BY <1>12 DEF Child, ChildRead, ChildHeader, ChildPayload, ChildEOF, ChildCrash, poolVars
  <2>2. CASE ChildEnds(w)
    BY <1>t, <1>s, <2>1, <2>2, ChildEndsShrinks DEF Shrinks
  <2>3. CASE ~ChildEnds(w)
    <3>1. Running(w) /\ \A v \in Slots \ {w} : child'[v] = child[v]
      BY <1>t, <1>12, <2>3
      DEF Child, ChildRead, ChildHeader, ChildPayload, ChildEOF, ChildCrash, Running, TypeOK
    <3>2. QED
      BY <1>s, <2>1, <3>1 DEF Shrinks, Running
  <2>4. QED
    BY <2>2, <2>3
<1>13. ASSUME NEW f \in Fd, OnReady(f) PROVE Leaks' /\ NoInheritanceCycle'
    BY <1>13, <1>s, <1>q DEF OnReady, poolVars, osVars
<1>14. CASE Checkout \/ Wait \/ UNCHANGED vars
    BY <1>14, <1>s, <1>q DEF Checkout, Wait, vars, poolVars, osVars
<1>15. QED
    BY <1>1, <1>2, <1>3, <1>4, <1>5, <1>6, <1>7, <1>8, <1>9, <1>10, <1>11, <1>12,
       <1>13, <1>14
    DEF Next, Read, Fini, Terminated

(* The descriptors that fork() leaks from older workers into younger ones    *)
(* never form a circle, through any sequence of deaths and respawns.         *)
THEOREM PoolNoInheritanceCycle == Spec => []NoInheritanceCycle
<1>1. Init => Leaks /\ NoInheritanceCycle
    BY DEF Init, Leaks, NoInheritanceCycle, Running
<1>2. QED
    BY <1>1, NextLeaks, PoolInvariant, PTL DEF Spec

-----------------------------------------------------------------------------
(* Refinement.                                                               *)
runningSet == {ticketOf[w] : w \in Slots} \ {-1}
answeredSet == {t \in Tickets : outcome[t] \in {"ok", "empty", "torn"}}
droppedSet == {t \in Tickets : outcome[t] = "lost"}

(* A bookkeeping step is a step of the abstract executor.                    *)
LEMMA BookImplements ==
  TypeOK /\ TypeOK' /\ Books /\ BookNext => [Exec!ExecNext]_(Exec!execVars)
<1> SUFFICES ASSUME TypeOK, TypeOK', Books, BookNext
             PROVE  [Exec!ExecNext]_(Exec!execVars)
    OBVIOUS
<1>a. /\ ticketOf \in [Slots -> Tickets \cup {-1}]
      /\ nextTicket \in Nat
      /\ outcome \in [Tickets -> {"open", "ok", "empty", "torn", "lost", "wrong", "dup"}]
    BY SMTT(30) DEF TypeOK
<1>b. \A t \in Tickets : t # -1
    BY TicketsFact
<1>1. CASE UNCHANGED books
    BY <1>1 DEF books, Exec!execVars
<1>2. CASE BookQueue
    BY <1>2 DEF BookQueue, Exec!ExecNext, Exec!Accept
<1>3. ASSUME NEW w \in Slots, BookFresh(w) PROVE Exec!ExecNext
  <2>1. runningSet' = runningSet \cup {nextTicket}
    BY <1>a, <1>3 DEF BookFresh, runningSet
  <2>2. QED
    BY <1>3, <2>1 DEF BookFresh, runningSet, Exec!ExecNext, Exec!Accept
<1>4. ASSUME pending # <<>> PROVE Head(pending) \in Tickets
    BY <1>4, HeadTailProperties DEF TypeOK
<1>5. ASSUME NEW w \in Slots, BookStart(w) PROVE Exec!ExecNext
  <2>1. runningSet' = runningSet \cup {Head(pending)}
    BY <1>a, <1>b, <1>4, <1>5 DEF BookStart, runningSet
  <2>2. QED
    BY <1>5, <2>1 DEF BookStart, runningSet, Exec!ExecNext, Exec!Start
<1>6. ASSUME NEW w \in Slots, NEW what, ticketOf[w] # -1,
             outcome' = [outcome EXCEPT ![ticketOf[w]] = what]
      PROVE  /\ ticketOf[w] \in Tickets /\ ticketOf[w] \in runningSet
             /\ what \in {"ok", "empty", "torn"} =>
                  answeredSet' = answeredSet \cup {ticketOf[w]} /\ droppedSet' = droppedSet
             /\ what = "lost" =>
                  droppedSet' = droppedSet \cup {ticketOf[w]} /\ answeredSet' = answeredSet
  <2>1. ticketOf[w] \in Tickets /\ ticketOf[w] \in runningSet
    BY <1>a, <1>6 DEF runningSet
  <2>2. outcome[ticketOf[w]] = "open"
    BY <1>6 DEF Books, RunningTickets
  <2>3. \A t \in Tickets : outcome'[t] = IF t = ticketOf[w] THEN what ELSE outcome[t]
    BY <1>a, <1>6, <2>1
  <2>4. QED
    BY <2>1, <2>2, <2>3 DEF answeredSet, droppedSet
<1>7. ASSUME NEW w \in Slots, NEW what \in {"ok", "empty", "torn", "lost"},
             BookSettle(w, what)
      PROVE  Exec!ExecNext
  <2>1. runningSet' = runningSet \ {ticketOf[w]}
    BY <1>a, <1>7 DEF BookSettle, runningSet, Books, RunningTickets
  <2>2. /\ ticketOf[w] # -1
        /\ outcome' = [outcome EXCEPT ![ticketOf[w]] = what]
        /\ UNCHANGED <<pending, nextTicket>>
    BY <1>7 DEF BookSettle
  <2>3. ticketOf[w] \in runningSet
    BY <1>6, <2>2
  <2>4. CASE what = "lost"
    <3>1. droppedSet' = droppedSet \cup {ticketOf[w]} /\ answeredSet' = answeredSet
      BY <1>6, <2>2, <2>4
    <3>2. \A t \in runningSet : t = ticketOf[w] => Exec!Abandon(t)
      BY <2>1, <2>2, <2>3, <3>1 DEF runningSet, answeredSet, droppedSet, Exec!Abandon
    <3>3. QED
      BY <2>3, <3>2 DEF runningSet, Exec!ExecNext
  <2>5. CASE what \in {"ok", "empty", "torn"}
    <3>1. answeredSet' = answeredSet \cup {ticketOf[w]} /\ droppedSet' = droppedSet
      BY <1>6, <2>2, <2>5
    <3>2. \A t \in runningSet : t = ticketOf[w] => Exec!Answer(t)
      BY <2>1, <2>2, <2>3, <3>1 DEF runningSet, answeredSet, droppedSet, Exec!Answer
    <3>3. QED
      BY <2>3, <3>2 DEF runningSet, Exec!ExecNext
  <2>6. QED
    BY <2>4, <2>5
<1>8. ASSUME NEW w \in Slots, NEW what \in {"ok", "empty", "torn"},
             BookSettleStart(w, what)
      PROVE  Exec!ExecNext
  <2>1. runningSet' = (runningSet \ {ticketOf[w]}) \cup {Head(pending)}
    BY <1>a, <1>b, <1>4, <1>8 DEF BookSettleStart, runningSet, Books, RunningTickets
  <2>2. /\ ticketOf[w] # -1
        /\ outcome' = [outcome EXCEPT ![ticketOf[w]] = what]
        /\ pending # <<>>
        /\ pending' = Tail(pending)
        /\ UNCHANGED nextTicket
    BY <1>8 DEF BookSettleStart
  <2>3. ticketOf[w] \in runningSet
    BY <1>6, <2>2
  <2>4. answeredSet' = answeredSet \cup {ticketOf[w]} /\ droppedSet' = droppedSet
    BY <1>6, <2>2
  <2>5. \A t \in runningSet : t = ticketOf[w] => Exec!Answer(t)
    BY <2>1, <2>2, <2>3, <2>4 DEF runningSet, answeredSet, droppedSet, Exec!Answer
  <2>6. QED
    BY <2>3, <2>5 DEF runningSet, Exec!ExecNext
<1>9. QED
    BY <1>1, <1>2, <1>3, <1>5, <1>7, <1>8 DEF BookNext

(* The pool implements the FIFO executor, whatever its size and whatever     *)
(* crashes: every step is an executor step or invisible to the caller.       *)
THEOREM PoolImplementsExecutor == Spec => ImplementsExecutor
<1>1. Init => Exec!ExecInit
  <2> SUFFICES ASSUME Init PROVE Exec!ExecInit
      OBVIOUS
  <2>1. {ticketOf[w] : w \in Slots} \ {-1} = {}
    BY DEF Init
  <2>2. QED
    BY <2>1 DEF Init, Exec!ExecInit
<1>2. IInv /\ IInv' /\ [Next]_vars => [Exec!ExecNext]_(Exec!execVars)
    BY NextBooks, BookImplements DEF IInv
<1>3. QED
    BY <1>1, <1>2, PoolInvariant, PTL DEF Spec, ImplementsExecutor, Exec!ExecSpec

-----------------------------------------------------------------------------
(* map().                                                                    *)

\* The tickets of the interval that begins at b and has n members which have
\* an outcome according to o.
SettledIn(o, b, n) == {t \in b .. b + n - 1 : o[t] # "open"}
NoneLeft == \A w \in Slots : ~Alive(w)

MapTypes ==
    /\ mapAt \in {"out", "submit", "poll"}
    /\ base \in Nat /\ inputs \in Nat /\ done \in Nat
    /\ base + inputs <= MaxTickets

\* How far map() has come in handing out its tickets.
Issued ==
    /\ at = "init" => nextTicket = 0
    /\ base <= nextTicket
    /\ mapAt = "submit" => /\ nextTicket <= base + inputs
                           /\ done = 0
                           /\ \A t \in Tickets : t >= base => outcome[t] = "open"
    /\ mapAt = "poll" => nextTicket = base + inputs
    /\ mapAt = "out" => base + inputs <= nextTicket

\* Whatever was submitted before this call has its outcome, or will never have.
Earlier ==
    \/ NoneLeft
    \/ \A t \in Tickets :
         t < (IF mapAt = "out" THEN nextTicket ELSE base) => outcome[t] # "open"

\* done counts the tickets of this call that have an outcome.
Counted == mapAt = "poll" => done = Cardinality(SettledIn(outcome, base, inputs))

\* What is stored is the output of the job of that place.
Stored ==
    mapAt # "submit" =>
        /\ results \in [1 .. inputs -> Int]
        /\ \A t \in base .. base + inputs - 1 :
             results[t - base + 1] = Output(t, outcome[t])

MapInv == IInv /\ MapTypes /\ Issued /\ Earlier /\ Counted /\ Stored

-----------------------------------------------------------------------------
(* An interval of n numbers has n members, and all of them are settled when  *)
(* n of them are.                                                            *)
LEMMA SettledFinite ==
  ASSUME NEW o, NEW b \in Nat, NEW n \in Nat
  PROVE  /\ IsFiniteSet(SettledIn(o, b, n))
         /\ Cardinality(SettledIn(o, b, n)) \in Nat
         /\ Cardinality(SettledIn(o, b, n)) <= n
         /\ Cardinality(SettledIn(o, b, n)) = n =>
              \A t \in b .. b + n - 1 : o[t] # "open"
<1> DEFINE I == b .. b + n - 1
<1>1. IsFiniteSet(I) /\ Cardinality(I) = n
  <2>1. b \in Int /\ b + n - 1 \in Int
    OBVIOUS
  <2>2. PICK c \in Int : c = b + n - 1
    BY <2>1
  <2>3. IsFiniteSet(b .. c) /\ Cardinality(b .. c) = IF b > c THEN 0 ELSE c - b + 1
    BY <2>1, FS_Interval
  <2>4. QED
    BY <2>2, <2>3
<1>2. SettledIn(o, b, n) \subseteq I
    BY DEF SettledIn
<1> HIDE DEF I
<1>3. PICK S : S = SettledIn(o, b, n)
    OBVIOUS
<1>4. IsFiniteSet(S) /\ Cardinality(S) <= Cardinality(I) /\ (Cardinality(S) = Cardinality(I) => S = I)
    BY <1>1, <1>2, <1>3, FS_Subset
<1>5. Cardinality(S) \in Nat
    BY <1>4, FS_CardinalityType
<1>6. S = I => \A t \in b .. b + n - 1 : o[t] # "open"
    BY <1>3 DEF SettledIn, I
<1>7. QED
    BY <1>1, <1>3, <1>4, <1>5, <1>6

(* Settling one more ticket of the interval makes the count one more.        *)
LEMMA SettleOne ==
  ASSUME NEW o, NEW p, NEW b \in Nat, NEW n \in Nat, NEW t \in Tickets,
         b + n <= MaxTickets, b <= t, t < b + n,
         o[t] = "open", p[t] # "open", \A u \in Tickets \ {t} : p[u] = o[u]
  PROVE  Cardinality(SettledIn(p, b, n)) = Cardinality(SettledIn(o, b, n)) + 1
<1>1. PICK S : S = SettledIn(o, b, n)
    OBVIOUS
<1>2. IsFiniteSet(S)
    BY <1>1, SettledFinite
<1>3. t \notin S
    BY <1>1 DEF SettledIn
<1>4. SettledIn(p, b, n) = S \cup {t}
  <2>1. t \in b .. b + n - 1
    BY ConstantsAssumption DEF Tickets
  <2>2. \A u \in b .. b + n - 1 : u \in Tickets
    BY ConstantsAssumption DEF Tickets
  <2>3. \A u \in b .. b + n - 1 : p[u] # "open" <=> u = t \/ o[u] # "open"
    BY <2>2
  <2>4. QED
    BY <1>1, <2>1, <2>3 DEF SettledIn
<1>5. QED
    BY <1>1, <1>2, <1>3, <1>4, FS_AddElement

(* Every step of the program is one of the pool, or leaves the pool alone.   *)
LEMMA MapStepsPool == [MapNext]_allVars => [Next]_vars
<1>1. MapNext => [Next]_vars
    BY DEF MapNext, MapCall, MapSubmit, MapPrepare, MapWait, MapOnReady, MapRead,
           MapReturn, OtherUse, Environment, MapTerminated, allVars, Next
<1>2. QED
    BY <1>1 DEF allVars

LEMMA MapInitInv == MapInit => MapInv
<1> SUFFICES ASSUME MapInit PROVE MapInv
    OBVIOUS
<1>1. IInv
    BY InitIInv DEF MapInit
<1>2. MapTypes /\ Issued /\ Counted
    BY ConstantsAssumption DEF MapInit, MapTypes, Issued, Counted, Init
<1>3. Earlier
    BY DEF MapInit, Earlier, Init, NoneLeft, Alive
<1>4. Stored
    BY DEF MapInit, Stored
<1>5. QED
    BY <1>1, <1>2, <1>3, <1>4 DEF MapInv

-----------------------------------------------------------------------------
\* What a step outside the constructor that brings no Result does to what the
\* invariant speaks of.
Quiet ==
    /\ UNCHANGED <<fds, outcome>>
    /\ at' = "init" => at = "init"

(* The steps around map() and in its waiting leave the books of the pool.    *)
LEMMA AroundQuiet ==
  ASSUME MixedUse = FALSE, IInv,
         MapWait \/ MapOnReady \/ Environment \/ MapTerminated
           \/ (OtherUse /\ ~InitSlot) \/ UNCHANGED allVars
  PROVE  Quiet /\ UNCHANGED nextTicket /\ UNCHANGED mapVars
<1>1. CASE MapWait
    BY <1>1 DEF MapWait, Wait, Quiet, poolVars
<1>2. CASE MapOnReady
    BY <1>2 DEF MapOnReady, OnReady, Quiet, poolVars
<1>3. CASE Environment
    BY <1>3 DEF Environment, ParentDies, Child, ChildRead, ChildHeader, ChildPayload,
                ChildEOF, ChildCrash, Quiet, poolVars
<1>4. CASE MapTerminated \/ UNCHANGED allVars
    BY <1>4 DEF MapTerminated, allVars, vars, poolVars, Quiet
<1>5. CASE OtherUse /\ ~InitSlot
  <2>1. Deinit \/ Fini
    BY <1>5 DEF OtherUse
  <2>2. QED
    BY <1>5, <2>1 DEF OtherUse, Deinit, Fini, FiniTerm, FiniReap, Quiet, poolVars
<1>6. QED
    BY <1>1, <1>2, <1>3, <1>4, <1>5

(* A read brings the outcome of the ticket its slot runs, or none when the   *)
(* slot runs none; a slot never comes to life.                               *)
LEMMA ReadSettles ==
  ASSUME IInv, Read
  PROVE  /\ cur \in Slots
         /\ nextTicket' = nextTicket
         /\ at' # "init"
         /\ NoneLeft => NoneLeft'
         /\ ticketOf[cur] = -1 => outcome' = outcome
         /\ ticketOf[cur] # -1 =>
              \E what \in {"ok", "empty", "torn"} :
                  outcome' = [outcome EXCEPT ![ticketOf[cur]] = what]
<1>t. TypeOK /\ Books /\ Channels /\ Unborn
    BY DEF IInv
<1>0. cur \in Slots
    BY <1>t DEF TypeOK
<1>a. ASSUME AfterFrame(cur) PROVE at' # "init"
    BY <1>a DEF AfterFrame, DrainOne, Dispatch, WriteFrame
<1>1. CASE ReadFrame
  <2>1. ticketOf[cur] # -1 /\ outbox[cur] = <<ticketOf[cur]>>
    BY <1>t, <1>0, <1>1 DEF ReadFrame, Channels, Channel
  <2>2. Surface(ticketOf[cur], "ok")
    BY <1>1, <2>1 DEF ReadFrame
  <2>3. outcome' = [outcome EXCEPT ![ticketOf[cur]] = "ok"]
    BY <1>t, <1>0, <2>1, <2>2, SurfaceRunning
  <2>4. QED
    BY <1>0, <1>1, <1>a, <2>1, <2>3 DEF ReadFrame, NoneLeft, Alive
<1>2. CASE ReadTorn
  <2>1. ticketOf[cur] # -1
    BY <1>t, <1>0, <1>2 DEF ReadTorn, Channels, Channel
  <2>2. outcome' = [outcome EXCEPT ![ticketOf[cur]] = "torn"]
    BY <1>t, <1>0, <1>2, <2>1, SurfaceRunning DEF ReadTorn
  <2>3. QED
    BY <1>0, <1>2, <1>a, <2>1, <2>2 DEF ReadTorn, NoneLeft, Alive
<1>3. CASE ReadEOF
  <2>1. ticketOf[cur] # -1 => outcome' = [outcome EXCEPT ![ticketOf[cur]] = "empty"]
    BY <1>t, <1>0, <1>3, SurfaceRunning DEF ReadEOF
  <2>2. ticketOf[cur] = -1 => outcome' = outcome
    <3>1. -1 < 0
      OBVIOUS
    <3>2. QED
      BY <1>3, <3>1 DEF ReadEOF, Surface
  <2>3. NoneLeft => NoneLeft'
    BY <1>t, <1>3 DEF ReadEOF, Retire, NoneLeft, Alive, TypeOK
  <2>4. QED
    BY <1>0, <1>3, <2>1, <2>2, <2>3 DEF ReadEOF
<1>4. QED
    BY <1>1, <1>2, <1>3 DEF Read

(* The invariant through a step that brings no Result and issues no ticket.  *)
LEMMA QuietKeeps ==
  ASSUME MapInv, IInv', Quiet, UNCHANGED nextTicket, UNCHANGED mapVars
  PROVE  MapInv'
<1>1. MapTypes' /\ Issued' /\ Counted' /\ Stored'
    BY DEF MapInv, MapTypes, Issued, Counted, Stored, Quiet, mapVars
<1>2. Earlier'
    BY DEF MapInv, Earlier, NoneLeft, Alive, Quiet, mapVars
<1>3. QED
    BY <1>1, <1>2 DEF MapInv

(* The constructor runs before any ticket exists.                            *)
LEMMA InitSlotKeeps ==
  ASSUME MapInv, IInv', InitSlot, UNCHANGED mapVars
  PROVE  MapInv'
<1>1. nextTicket = 0 /\ nextTicket' = 0 /\ outcome' = outcome
    BY DEF MapInv, Issued, InitSlot
<1>2. base \in Nat /\ base <= nextTicket
    BY DEF MapInv, MapTypes, Issued
<1>3. MapTypes' /\ Issued' /\ Counted' /\ Stored'
    BY <1>1 DEF MapInv, MapTypes, Issued, Counted, Stored, mapVars
<1>4. Earlier'
    BY <1>1, <1>2, TicketsFact DEF Earlier, mapVars
<1>5. QED
    BY <1>3, <1>4 DEF MapInv

(* map() is entered: all outcomes are known or none will come.               *)
LEMMA MapCallKeeps ==
  ASSUME MapInv, IInv', NEW k \in 1 .. MaxInputs, MapCall(k)
  PROVE  MapInv'
<1>0. k \in Nat /\ nextTicket \in Nat
    BY MapAssumption DEF MapInv, IInv, TypeOK
<1>1. fds' = fds /\ outcome' = outcome /\ nextTicket' = nextTicket /\ at' = at
    BY DEF MapCall, vars, poolVars
<1>2. MapTypes'
    BY <1>0 DEF MapCall, MapTypes
<1>3. Issued'
    BY <1>0, <1>1 DEF MapCall, MapInv, Issued, IInv, Books, Outcomes
<1>4. Earlier'
    BY <1>1 DEF MapCall, MapInv, Earlier, NoneLeft, Alive
<1>5. Counted' /\ Stored'
    BY DEF MapCall, Counted, Stored
<1>6. QED
    BY <1>2, <1>3, <1>4, <1>5 DEF MapInv

LEMMA MapSubmitKeeps ==
  ASSUME MapInv, IInv', MapSubmit
  PROVE  MapInv'
<1>0. nextTicket \in Nat /\ base \in Nat /\ inputs \in Nat
    BY DEF MapInv, MapTypes, IInv, TypeOK
<1>1. fds' = fds /\ outcome' = outcome /\ nextTicket' = nextTicket + 1 /\ at' # "init"
    BY DEF MapSubmit, Submit, UserTurn, Dispatch, WriteFrame
<1>2. MapTypes' /\ Counted' /\ Stored'
    BY DEF MapSubmit, MapInv, MapTypes, Counted, Stored, mapVars
<1>3. Issued'
    BY <1>0, <1>1 DEF MapSubmit, MapInv, Issued, mapVars
<1>4. Earlier'
    BY <1>1 DEF MapSubmit, MapInv, Earlier, NoneLeft, Alive, mapVars
<1>5. QED
    BY <1>2, <1>3, <1>4 DEF MapInv

(* The outputs start empty, and no job of this call has an outcome yet.      *)
LEMMA MapPrepareKeeps ==
  ASSUME MapInv, IInv', MapPrepare
  PROVE  MapInv'
<1>0. nextTicket \in Nat /\ base \in Nat /\ inputs \in Nat /\ done = 0
    BY DEF MapInv, MapTypes, IInv, TypeOK, MapPrepare, Issued
<1>1. fds' = fds /\ outcome' = outcome /\ nextTicket' = nextTicket /\ at' = at
    BY DEF MapPrepare, vars, poolVars
<1>2. \A t \in base .. base + inputs - 1 : t \in Tickets /\ outcome[t] = "open"
    BY <1>0, ConstantsAssumption DEF MapInv, MapTypes, Issued, MapPrepare, Tickets
<1>3. MapTypes' /\ Issued'
    BY <1>1 DEF MapPrepare, MapInv, MapTypes, Issued
<1>4. Earlier'
    BY <1>1 DEF MapPrepare, MapInv, Earlier, NoneLeft, Alive
<1>5. Counted'
  <2>1. SettledIn(outcome, base, inputs) = {}
    BY <1>2 DEF SettledIn
  <2>2. Cardinality(SettledIn(outcome, base, inputs)) = 0
    BY <2>1, FS_EmptySet
  <2>3. QED
    BY <1>0, <1>1, <2>2 DEF MapPrepare, Counted
<1>6. Stored'
  <2>1. results' \in [1 .. inputs -> Int]
    BY DEF MapPrepare, Empty
  <2>2. \A t \in base .. base + inputs - 1 : results'[t - base + 1] = Empty
    BY <1>0 DEF MapPrepare
  <2>3. QED
    BY <1>1, <1>2, <2>1, <2>2 DEF MapPrepare, Stored, Output
<1>7. QED
    BY <1>3, <1>4, <1>5, <1>6 DEF MapInv

(* A Result finds its place.                                                 *)
LEMMA MapReadKeeps ==
  ASSUME MapInv, IInv', MapRead
  PROVE  MapInv'
<1>0. /\ nextTicket \in Nat /\ base \in Nat /\ inputs \in Nat /\ done \in Nat
      /\ base + inputs <= MaxTickets /\ nextTicket = base + inputs
      /\ mapAt = "poll" /\ base' = base /\ inputs' = inputs
    BY DEF MapInv, MapTypes, IInv, TypeOK, MapRead, Issued
<1>1. /\ cur \in Slots /\ nextTicket' = nextTicket /\ at' # "init" /\ (NoneLeft => NoneLeft')
      /\ ticketOf[cur] = -1 => outcome' = outcome
      /\ ticketOf[cur] # -1 =>
              \E what \in {"ok", "empty", "torn"} :
                  outcome' = [outcome EXCEPT ![ticketOf[cur]] = what]
    BY ReadSettles DEF MapInv, MapRead
<1>2. CASE ticketOf[cur] = -1
  <2>1. UNCHANGED <<results, done, mapAt>> /\ outcome' = outcome
    BY <1>1, <1>2 DEF MapRead
  <2>2. MapTypes' /\ Issued' /\ Counted' /\ Stored'
    BY <1>0, <1>1, <2>1 DEF MapInv, MapTypes, Issued, Counted, Stored
  <2>3. Earlier'
    BY <1>0, <1>1, <2>1 DEF MapInv, Earlier
  <2>4. QED
    BY <2>2, <2>3 DEF MapInv
<1>3. CASE ticketOf[cur] # -1
  <2>1. PICK t \in Tickets : t = ticketOf[cur]
    BY <1>1, <1>3 DEF MapInv, IInv, TypeOK
  <2>2. PICK what \in {"ok", "empty", "torn"} : outcome' = [outcome EXCEPT ![t] = what]
    BY <1>1, <1>3, <2>1
  <2>3. t \in Nat /\ t < nextTicket /\ outcome[t] = "open"
    BY <1>1, <1>3, <2>1, TicketsFact DEF MapInv, IInv, Books, RunningTickets
  <2>4. ~NoneLeft
    BY <1>1, <1>3 DEF MapInv, IInv, Unborn, NoneLeft
  <2>5. base <= t
    BY <1>0, <2>3, <2>4 DEF MapInv, Earlier
  <2>6. t - base \in 0 .. inputs - 1
    BY <1>0, <2>3, <2>5
  <2>7. outcome \in [Tickets -> {"open", "ok", "empty", "torn", "lost", "wrong", "dup"}]
    BY DEF MapInv, IInv, TypeOK
  <2>8. outcome'[t] = what
    BY <2>2, <2>7
  <2>9. /\ results' = [results EXCEPT ![t - base + 1] = Output(t, what)]
        /\ done' = done + 1 /\ mapAt' = mapAt
    BY <1>3, <2>1, <2>6, <2>8 DEF MapRead, StoreResult
  <2>10. MapTypes' /\ Issued'
    BY <1>0, <1>1, <2>9 DEF MapInv, MapTypes, Issued
  <2>11. Earlier'
    <3>1. \A u \in Tickets : u < base => outcome[u] # "open"
      BY <1>0, <2>4 DEF MapInv, Earlier
    <3>2. \A u \in Tickets : u < base => outcome'[u] # "open"
      BY <2>2, <2>7, <3>1
    <3>3. QED
      BY <1>0, <2>9, <3>2 DEF Earlier
  <2>12. Counted'
    <3>1. done = Cardinality(SettledIn(outcome, base, inputs))
      BY <1>0 DEF MapInv, Counted
    <3>2. what # "open"
      OBVIOUS
    <3>3. Cardinality(SettledIn(outcome', base, inputs)) = Cardinality(SettledIn(outcome, base, inputs)) + 1
      <4>1. PICK o : o = outcome
        OBVIOUS
      <4>2. PICK p : p = outcome'
        OBVIOUS
      <4>3. base <= t /\ t < base + inputs
        BY <1>0, <2>3, <2>5
      <4>4. o[t] = "open" /\ p[t] # "open"
        BY <2>3, <2>8, <3>2, <4>1, <4>2
      <4>5. \A u \in Tickets \ {t} : p[u] = o[u]
        BY <2>2, <2>7, <4>1, <4>2
      <4>6. Cardinality(SettledIn(p, base, inputs)) = Cardinality(SettledIn(o, base, inputs)) + 1
        BY <1>0, <4>3, <4>4, <4>5, SettleOne
      <4>7. QED
        BY <4>1, <4>2, <4>6
    <3>4. QED
      BY <1>0, <2>9, <3>1, <3>3 DEF Counted
  <2>13. Stored'
    <3>1. /\ results \in [1 .. inputs -> Int]
          /\ \A u \in base .. base + inputs - 1 :
               results[u - base + 1] = Output(u, outcome[u])
      BY <1>0 DEF MapInv, Stored
    <3>2. results' \in [1 .. inputs -> Int]
      <4>1. PICK v \in Int : v = Output(t, what)
        BY <2>3 DEF Output, Empty, Unfilled
      <4>2. results' = [results EXCEPT ![t - base + 1] = v]
        BY <2>9, <4>1
      <4>3. QED
        BY <3>1, <4>2
    <3>3. ASSUME NEW u \in base .. base + inputs - 1
          PROVE  results'[u - base + 1] = Output(u, outcome'[u])
      <4>0. u \in Tickets /\ u - base + 1 \in 1 .. inputs
        BY <1>0, ConstantsAssumption DEF Tickets
      <4>1. CASE u = t
        BY <2>3, <2>8, <2>9, <3>1, <4>0, <4>1
      <4>2. CASE u # t
        <5>1. outcome'[u] = outcome[u]
          BY <2>2, <2>7, <4>0, <4>2
        <5>2. u - base + 1 # t - base + 1
          BY <1>0, <2>3, <4>2
        <5>3. results'[u - base + 1] = results[u - base + 1]
          BY <2>9, <3>1, <4>0, <5>2
        <5>4. QED
          BY <3>1, <5>1, <5>3
      <4>3. QED
        BY <4>1, <4>2
    <3>4. QED
      BY <1>0, <3>2, <3>3 DEF Stored
  <2>14. QED
    BY <2>10, <2>11, <2>12, <2>13 DEF MapInv
<1>4. QED
    BY <1>2, <1>3

(* map() returns with all its Results, or with no worker left.               *)
LEMMA MapReturnKeeps ==
  ASSUME MapInv, IInv', MapReturn
  PROVE  MapInv'
<1>0. /\ nextTicket \in Nat /\ base \in Nat /\ inputs \in Nat /\ done \in Nat
      /\ base + inputs <= MaxTickets /\ nextTicket = base + inputs /\ mapAt = "poll"
    BY DEF MapInv, MapTypes, IInv, TypeOK, MapReturn, Issued
<1>1. /\ fds' = fds /\ outcome' = outcome /\ nextTicket' = nextTicket /\ at' = at
      /\ mapAt' = "out"
    BY DEF MapReturn, vars, poolVars
<1>2. MapTypes' /\ Issued' /\ Counted' /\ Stored'
    BY <1>0, <1>1 DEF MapReturn, MapInv, MapTypes, Issued, Counted, Stored
<1>3. NoneLeft \/ \A t \in Tickets : t < nextTicket => outcome[t] # "open"
  <2>1. CASE done >= inputs
    <3>1. done = Cardinality(SettledIn(outcome, base, inputs))
      BY <1>0 DEF MapInv, Counted
    <3>2. \A t \in base .. base + inputs - 1 : outcome[t] # "open"
      <4>1. PICK c : c = Cardinality(SettledIn(outcome, base, inputs))
        OBVIOUS
      <4>2. /\ c \in Nat /\ c <= inputs
            /\ c = inputs => \A t \in base .. base + inputs - 1 : outcome[t] # "open"
        BY <1>0, <4>1, SettledFinite
      <4>3. c = inputs
        BY <1>0, <2>1, <3>1, <4>1, <4>2
      <4>4. QED
        BY <4>2, <4>3
    <3>3. QED
      BY <1>0, <3>2, TicketsFact DEF MapInv, Earlier
  <2>2. CASE ~(Size > 0)
    <3>1. IsFiniteSet({w \in Slots : Alive(w)})
      <4>1. IsFiniteSet(Slots)
        BY ConstantsAssumption, FS_Interval DEF Slots
      <4>2. QED
        BY <4>1, FS_Subset
    <3>2. Size \in Nat
      BY <3>1, FS_CardinalityType DEF Size
    <3>3. Size = 0
      BY <2>2, <3>2
    <3>4. {w \in Slots : Alive(w)} = {}
      BY <3>1, <3>3, FS_EmptySet DEF Size
    <3>5. QED
      BY <3>4 DEF NoneLeft
  <2>3. QED
    BY <1>0, <2>1, <2>2 DEF MapReturn, MapGoesOn
<1>4. Earlier'
    BY <1>1, <1>3 DEF Earlier, NoneLeft, Alive
<1>5. QED
    BY <1>2, <1>4 DEF MapInv

LEMMA MapNextInv == ASSUME MixedUse = FALSE PROVE MapInv /\ [MapNext]_allVars => MapInv'
<1> SUFFICES ASSUME MapInv, [MapNext]_allVars PROVE MapInv'
    OBVIOUS
<1>1. IInv'
    BY MapStepsPool, NextIInv DEF MapInv
<1>2. CASE \/ MapWait \/ MapOnReady \/ Environment \/ MapTerminated
           \/ (OtherUse /\ ~InitSlot) \/ UNCHANGED allVars
    BY <1>1, <1>2, AroundQuiet, QuietKeeps DEF MapInv
<1>3. CASE OtherUse /\ InitSlot
    BY <1>1, <1>3, InitSlotKeeps DEF OtherUse
<1>4. ASSUME NEW k \in 1 .. MaxInputs, MapCall(k) PROVE MapInv'
    BY <1>1, <1>4, MapCallKeeps
<1>5. CASE MapSubmit
    BY <1>1, <1>5, MapSubmitKeeps
<1>6. CASE MapPrepare
    BY <1>1, <1>6, MapPrepareKeeps
<1>7. CASE MapRead
    BY <1>1, <1>7, MapReadKeeps
<1>8. CASE MapReturn
    BY <1>1, <1>8, MapReturnKeeps
<1>9. QED
    BY <1>2, <1>3, <1>4, <1>5, <1>6, <1>7, <1>8 DEF MapNext

(* However many workers crash and in whatever order their Results come in:   *)
(* map() of a pool with no other ticket in flight stores every Result in its *)
(* place, never outside: the output, unfilled bytes or nothing, as the job   *)
(* was answered, its answer was torn, or it had none.  A job is left undone  *)
(* only when no worker is left; for any sequence of map() calls              *)
(* (worker.vt:220-239).                                                      *)
THEOREM MapKeepsOrder == ASSUME MixedUse = FALSE PROVE MapSpec => []MapInOrder
<1>1. MapInv => MapInOrder
  <2> SUFFICES ASSUME MapInv PROVE MapInOrder
    OBVIOUS
  <2>1. mapAt # "panic"
    BY DEF MapInv, MapTypes
  <2>2. ASSUME mapAt = "out", NEW k \in DOMAIN results
        PROVE  /\ outcome[base + k - 1] = "ok"   <=> results[k] = base + k - 1
               /\ outcome[base + k - 1] = "torn" <=> results[k] = Unfilled
               /\ results[k] \in {base + k - 1, Unfilled, Empty}
               /\ outcome[base + k - 1] = "open" => NoneLeft
    <3>1. base \in Nat /\ inputs \in Nat /\ nextTicket \in Nat /\ base + inputs <= nextTicket
             /\ base + inputs <= MaxTickets
      BY <2>2 DEF MapInv, MapTypes, Issued, IInv, TypeOK
    <3>2. k \in 1 .. inputs
      BY <2>2 DEF MapInv, Stored
    <3>3. PICK t \in base .. base + inputs - 1 : t = base + k - 1
      BY <3>1, <3>2
    <3>4. results[t - base + 1] = Output(t, outcome[t])
      BY <2>2, <3>3 DEF MapInv, Stored
    <3>5. t - base + 1 = k
      BY <3>1, <3>2, <3>3
    <3>6. t \in Tickets /\ t < nextTicket
      BY <3>1, <3>3, ConstantsAssumption DEF Tickets
    <3>7. t \in Nat /\ t = base + k - 1 /\ results[k] = Output(t, outcome[t])
      BY <3>1, <3>3, <3>4, <3>5, <3>6 DEF Tickets
    <3>8. /\ outcome[t] = "ok"   <=> results[k] = t
          /\ outcome[t] = "torn" <=> results[k] = Unfilled
          /\ results[k] \in {t, Unfilled, Empty}
      BY <3>7 DEF Output, Empty, Unfilled
    <3>9. outcome[t] = "open" => NoneLeft
      BY <2>2, <3>6 DEF MapInv, Earlier
    <3>10. QED
      BY <3>7, <3>8, <3>9
  <2>3. QED
    BY <2>1, <2>2 DEF MapInOrder, NoneLeft
<1>2. QED
    BY <1>1, MapInitInv, MapNextInv, PTL DEF MapSpec
=============================================================================
