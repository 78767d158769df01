--------------------------- MODULE ReactiveProofs ---------------------------
(***************************************************************************)
(* For any acyclic graph of signals, computeds and effects, and any number *)
(* of writes, batches and nested runs: what a computed returns is what the *)
(* signals give now; a calm effect has seen the current values once the    *)
(* outermost call returns; one that no effect feeds fires once per batch;  *)
(* a disposed effect stays quiet.                                          *)
(***************************************************************************)
EXTENDS Reactive, FiniteSetTheorems, SequenceTheorems, WellFoundedInduction,
        NaturalsInduction, TLAPS

States == {"clean", "check", "dirty"}
Pulls == {"check", "compute"}

Frame ==
    [kind : {"run"}, node : Eff]
    \cup [kind : {"compute"}, node : Comp, at : {"test", "branch"}]
    \cup [kind : {"check"}, node : Comp \cup Eff, todo : SUBSET Readable,
          verdict : {"clean", "dirty"}]
    \cup [kind : {"mark"}, node : Node, todo : SUBSET (Comp \cup Eff)]
    \cup [kind : {"get"}, node : Readable]
    \cup [kind : {"flush"}, guard : Nat]
    \cup [kind : {"batch"}]

TypeInv ==
    /\ state \in [Node -> States]
    /\ version \in [Node -> Nat]
    /\ value \in [Readable -> Value \cup {None}]
    /\ observers \in [Node -> SUBSET (Comp \cup Eff)]
    /\ DOMAIN sources = Node
    /\ \A o \in Node : /\ DOMAIN sources[o] \subseteq Readable
                       /\ sources[o] \in [DOMAIN sources[o] -> Nat]
    /\ disposed \subseteq Node /\ born \subseteq Eff
    /\ pending \in Seq(Eff) /\ frames \in Seq(Frame)
    /\ batch_depth \in Nat /\ over \in BOOLEAN /\ reported \in BOOLEAN
    /\ seen \in [Eff -> [Readable -> Value \cup {None}]]
    /\ fired \in [Eff -> Nat]

\* Edges are there in both directions, and lead to what a node may read; a
\* version that was read is no later than the version now.
EdgeInv ==
    /\ \A n, o \in Node : o \in observers[n] <=> n \in DOMAIN sources[o]
    /\ \A c \in Comp : DOMAIN sources[c] \subseteq Deps(c)
    /\ \A e \in Eff : DOMAIN sources[e] \subseteq MayRead[e]
    /\ \A e \in Eff \ born : DOMAIN sources[e] = {}
    /\ \A o \in Node : \A n \in DOMAIN sources[o] : sources[o][n] <= version[n]
    /\ \A s \in Sig : state[s] = "clean" /\ value[s] \in Value /\ DOMAIN sources[s] = {}

\* Effects are disposed of after they are made, the rest with the domain.
DisposalInv ==
    /\ disposed \cap Eff \subseteq born
    /\ over => Readable \cup born \subseteq disposed
    /\ ~over => disposed \subseteq Eff

-----------------------------------------------------------------------------
(* The stack.                                                              *)

StartsNothing(e) == MayWrite[e] = {} /\ MayCreate[e] = {} /\ e \notin MayBatch

\* Frame g may be somewhere above frame f: pulls call only pulls, of ever
\* older computeds; marks only marks of observers; a flush waits for every
\* batch; an effect that starts nothing only reads; an effect is run or checked
\* once at a time; and marks that an effect or a flush leads to spare the effects that no
\* effect feeds.
Under(f, g) ==
    /\ f.kind \in Pulls =>
          /\ g.kind \in Pulls /\ g.node \in Comp
          /\ f.node \in Comp => Rank[g.node] < Rank[f.node]
    /\ f.kind = "get" => g.kind \in Pulls /\ g.node \in Comp
    /\ f.kind = "mark" => g.kind = "mark" /\ g.node \notin Sig
    /\ g.kind = "flush" => f.kind # "batch"
    /\ f.kind = "run" /\ StartsNothing(f.node) => g.kind \in Pulls \cup {"get"}
    /\ f.kind \in {"run", "check"} /\ g.kind \in {"run", "check"} => f.node # g.node
    /\ f.kind \in {"run", "flush"} /\ g.kind = "mark" =>
          \A e \in Unfed : g.node \notin DependsOn[e]

\* Frame g may be right above frame f, or at the bottom.
Calls(f, g) ==
    /\ f.kind = "flush" => g.kind \in {"run", "check"} /\ g.node \in Eff
    /\ g.kind = "check" /\ g.node \in Eff => f.kind = "flush"
    /\ g.kind = "mark" /\ g.node \notin Sig => f.kind = "mark"
Bottom(g) ==
    /\ ~(g.kind = "check" /\ g.node \in Eff)
    /\ ~(g.kind = "mark" /\ g.node \notin Sig)

In(s) == {s[i] : i \in 1 .. Len(s)}

\* The effect that runs, and what the code above it may read.
TopOf(s) ==
    {s[i].node : i \in {j \in 1 .. Len(s) :
        s[j].kind = "run" /\ \A k \in 1 .. Len(s) : s[k].kind = "run" => k <= j}}
MayGet(s) == IF TopOf(s) = {} THEN Readable ELSE UNION {MayRead[e] : e \in TopOf(s)}

StackOK(s) ==
    /\ \A i, j \in 1 .. Len(s) : i < j => Under(s[i], s[j])
    /\ \A i \in 1 .. Len(s) - 1 : Calls(s[i], s[i + 1])
    /\ Len(s) > 0 => Bottom(s[1])
    /\ \A f \in In(s) : f.kind = "get" => f.node \in MayGet(s)

Batches(s) == Cardinality({i \in 1 .. Len(s) : s[i].kind = "batch"})
BatchInv == batch_depth = Batches(frames)

\* What o read of n is what n has now.
Fresh(o, n) == state[n] = "clean" /\ sources[o][n] = version[n]

\* A frame and the graph.
FrameOK(f) ==
    /\ f.kind = "run" =>
          f.node \in born /\ (state[f.node] = "dirty" \/ f.node \in disposed)
    /\ f.kind = "compute" =>
          /\ state[f.node] = "dirty" /\ f.node \notin disposed
          /\ f.at = "test" => DOMAIN sources[f.node] = {}
          /\ f.at = "branch" =>
                DOMAIN sources[f.node] = {Prog[f.node].test} /\ Fresh(f.node, Prog[f.node].test)
    /\ f.kind = "check" =>
          /\ state[f.node] = "check" /\ f.node \notin disposed
          /\ f.node \in Eff => f.node \in born
          /\ f.todo \subseteq DOMAIN sources[f.node]
          /\ f.verdict = "clean" => \A n \in DOMAIN sources[f.node] \ f.todo : Fresh(f.node, n)
    /\ f.kind = "mark" => f.todo \subseteq observers[f.node]

FrameInv == \A f \in In(frames) : FrameOK(f)

-----------------------------------------------------------------------------
(* The graph.                                                              *)

IsRun(e) == \E f \in In(frames) : f.kind = "run" /\ f.node = e
IsChecked(e) == \E f \in In(frames) : f.kind = "check" /\ f.node = e

\* The walk that marks has o still to come, from n.
Ahead(n, o) ==
    \E f \in In(frames) : f.kind = "mark" /\ f.node = n /\ o \in f.todo

UpToDate(o) == \A n \in DOMAIN sources[o] : Ahead(n, o) \/ Fresh(o, n)

Branch(c) == IF value[Prog[c].test] = 1 THEN Prog[c].yes ELSE Prog[c].no

\* As long as the versions read are those of now, the value follows from them.
ValueFits(c) ==
    /\ Prog[c].test \in DOMAIN sources[c]
    /\ sources[c][Prog[c].test] = version[Prog[c].test] =>
          /\ Branch(c) \in DOMAIN sources[c]
          /\ sources[c][Branch(c)] = version[Branch(c)] => value[c] = value[Branch(c)]

CompInv ==
    \A c \in Comp \ disposed :
        /\ state[c] = "clean" => UpToDate(c)
        /\ state[c] # "dirty" => ValueFits(c)

EffInv ==
    \A e \in Live :
        /\ \A n \in Readable : seen[e][n] # None => n \in DOMAIN sources[e]
        /\ \A n \in DOMAIN sources[e] :
              sources[e][n] = version[n] => seen[e][n] = value[n]
        /\ e \in Calm /\ (state[e] = "clean" \/ IsRun(e)) => UpToDate(e)

-----------------------------------------------------------------------------
(* The queue.                                                              *)

QueueInv ==
    /\ \A i, j \in 1 .. Len(pending) : pending[i] = pending[j] => i = j
    /\ \A e \in In(pending) :
          /\ e \in born /\ ~IsRun(e) /\ ~IsChecked(e)
          /\ state[e] # "clean" \/ e \in disposed
    /\ \A e \in Live :
          state[e] # "clean" => e \in In(pending) \/ IsRun(e) \/ IsChecked(e) \/ reported
    /\ pending # <<>> => \E f \in In(frames) : f.kind \in {"flush", "batch", "mark"}

FireInv ==
    \A e \in Unfed :
        /\ fired[e] <= 1
        /\ fired[e] = 1 =>
              /\ e \notin In(pending) /\ ~IsChecked(e)
              /\ frames # <<>> => frames[1].kind \in {"flush", "run", "get"}

IInv ==
    /\ TypeInv /\ EdgeInv /\ DisposalInv
    /\ StackOK(frames) /\ BatchInv /\ FrameInv
    /\ CompInv /\ EffInv /\ QueueInv /\ FireInv

-----------------------------------------------------------------------------
(* Facts about sequences: what In, [1], Batches and StackOK are after a      *)
(* frame is pushed.  Every change of the stack is a number of pushes on what *)
(* is left when the top is taken off.                                        *)

\* The frame g may be pushed on the stack s.
Fits(s, g) ==
    /\ \A h \in In(s) : Under(h, g)
    /\ s # <<>> => Calls(Last(s), g)
    /\ s = <<>> => Bottom(g)
    /\ g.kind = "get" => g.node \in MayGet(s)

(* A sequence and one more element.                                          *)
LEMMA AppendFacts ==
  ASSUME NEW S, NEW s \in Seq(S), NEW x \in S
  PROVE  /\ Append(s, x) \in Seq(S) /\ Append(s, x) # <<>>
         /\ Len(s) \in Nat /\ Len(Append(s, x)) = Len(s) + 1
         /\ \A i \in 1 .. Len(s) : Append(s, x)[i] = s[i]
         /\ Append(s, x)[Len(s) + 1] = x
         /\ In(Append(s, x)) = In(s) \cup {x}
         /\ Append(s, x)[1] = IF s = <<>> THEN x ELSE s[1]
<1>1. Len(s) \in Nat /\ Len(Append(s, x)) = Len(s) + 1 /\ Append(s, x) \in Seq(S)
    BY LenProperties
<1>2. /\ \A i \in 1 .. Len(s) : Append(s, x)[i] = s[i]
      /\ Append(s, x)[Len(s) + 1] = x
    BY <1>1
<1>3. 1 .. Len(s) + 1 = (1 .. Len(s)) \cup {Len(s) + 1}
    BY <1>1
<1>4. In(Append(s, x)) = In(s) \cup {x}
    BY <1>1, <1>2, <1>3 DEF In
<1>5. Append(s, x)[1] = IF s = <<>> THEN x ELSE s[1]
  <2>1. CASE s = <<>>
    BY <1>1, <1>2, <2>1
  <2>2. CASE s # <<>>
    <3>1. 1 \in 1 .. Len(s)
      BY <1>1, <2>2, EmptySeq
    <3>2. QED
      BY <1>2, <2>2, <3>1
  <2>3. QED
    BY <2>1, <2>2
<1>6. Append(s, x) # <<>>
    BY <1>1
<1>7. QED
    BY <1>1, <1>2, <1>4, <1>5, <1>6

(* A sequence that is not empty is its front and its last element.           *)
LEMMA FrontFacts ==
  ASSUME NEW S, NEW s \in Seq(S), s # <<>>
  PROVE  /\ Front(s) \in Seq(S) /\ Last(s) \in S
         /\ s = Append(Front(s), Last(s))
<1>1. Len(s) \in Nat /\ Len(s) >= 1
    BY LenProperties, EmptySeq
<1>2. \A i \in 1 .. Len(s) : s[i] \in S
    BY ElementOfSeq
<1>3. /\ SubSeq(s, 1, Len(s) - 1) \in Seq(S)
      /\ Len(SubSeq(s, 1, Len(s) - 1)) = Len(s) - 1
      /\ \A i \in 1 .. Len(s) - 1 : SubSeq(s, 1, Len(s) - 1)[i] = s[i]
  <2> DEFINE k == Len(s) - 1
  <2>1. k \in Int /\ \A i \in 1 .. k : s[i] \in S
    BY <1>1, <1>2
  <2>2. /\ SubSeq(s, 1, k) \in Seq(S)
        /\ Len(SubSeq(s, 1, k)) = IF 1 <= k THEN k - 1 + 1 ELSE 0
        /\ \A i \in 1 .. k - 1 + 1 : SubSeq(s, 1, k)[i] = s[1 + i - 1]
    <3> HIDE DEF k
    <3>1. 1 \in Int
      OBVIOUS
    <3>2. QED
      BY <2>1, <3>1, SubSeqProperties
  <2>3. k - 1 + 1 = k /\ \A i \in 1 .. k : 1 + i - 1 = i
    BY <2>1
  <2>4. QED
    BY <1>1, <2>2, <2>3
<1>4. Front(s) \in Seq(S) /\ Last(s) \in S
    BY <1>1, <1>2, <1>3 DEF Front, Last
<1>5. s = Append(Front(s), Last(s))
  <2>1. Append(Front(s), Last(s)) \in Seq(S) /\ Len(Append(Front(s), Last(s))) = Len(s)
    BY <1>1, <1>3, <1>4, AppendFacts DEF Front
  <2>2. \A i \in 1 .. Len(s) : Append(Front(s), Last(s))[i] = s[i]
    <3>1. TAKE i \in 1 .. Len(s)
    <3>2. CASE i \in 1 .. Len(s) - 1
      <4>1. \A j \in 1 .. Len(Front(s)) : Append(Front(s), Last(s))[j] = Front(s)[j]
        BY <1>4, AppendFacts
      <4>2. Len(Front(s)) = Len(s) - 1 /\ Front(s)[i] = s[i]
        BY <1>3, <3>2 DEF Front
      <4>3. QED
        BY <3>2, <4>1, <4>2
    <3>3. CASE i = Len(s)
      <4>1. Append(Front(s), Last(s))[Len(Front(s)) + 1] = Last(s)
        BY <1>4, AppendFacts
      <4>2. Len(Front(s)) + 1 = Len(s)
        BY <1>1, <1>3 DEF Front
      <4>3. QED
        BY <3>3, <4>1, <4>2 DEF Last
    <3>4. i \in 1 .. Len(s) - 1 \/ i = Len(s)
      BY <1>1, <3>1
    <3>5. QED
      BY <3>2, <3>3, <3>4
  <2>3. QED
    BY <2>1, <2>2, SeqEqual
<1>6. QED
    BY <1>4, <1>5

(* The other way: a push is taken back by Front.                             *)
LEMMA PushFacts ==
  ASSUME NEW S, NEW s \in Seq(S), NEW x \in S
  PROVE  Front(Append(s, x)) = s /\ Last(Append(s, x)) = x
<1> DEFINE t == Append(s, x)
<1>1. /\ t \in Seq(S) /\ t # <<>> /\ Len(t) = Len(s) + 1 /\ Len(s) \in Nat
      /\ \A i \in 1 .. Len(s) : t[i] = s[i]
      /\ t[Len(s) + 1] = x
    BY AppendFacts
<1>2. Last(t) = x
    BY <1>1 DEF Last
<1>3. /\ Front(t) \in Seq(S) /\ Last(t) \in S /\ t = Append(Front(t), Last(t))
    BY <1>1, FrontFacts
<1>4. Len(Front(t)) = Len(s) /\ \A i \in 1 .. Len(s) : Front(t)[i] = s[i]
    BY <1>1, <1>3, AppendFacts
<1>5. Front(t) = s
    BY <1>3, <1>4, SeqEqual
<1>6. QED
    BY <1>2, <1>5

(* The open batches after a push.                                            *)
LEMMA BatchPush ==
  ASSUME NEW s \in Seq(Frame), NEW g \in Frame
  PROVE  /\ Batches(s) \in Nat
         /\ Batches(Append(s, g)) = Batches(s) + (IF g.kind = "batch" THEN 1 ELSE 0)
<1> DEFINE B(q) == {i \in 1 .. Len(q) : q[i].kind = "batch"}
<1>1. /\ Len(s) \in Nat /\ Len(Append(s, g)) = Len(s) + 1
      /\ \A i \in 1 .. Len(s) : Append(s, g)[i] = s[i]
      /\ Append(s, g)[Len(s) + 1] = g
    BY AppendFacts
<1>2. IsFiniteSet(B(s))
  <2>1. IsFiniteSet(1 .. Len(s)) /\ B(s) \subseteq 1 .. Len(s)
    BY <1>1, FS_Interval
  <2>2. QED
    BY <2>1, FS_Subset
<1>3. B(Append(s, g)) = IF g.kind = "batch" THEN B(s) \cup {Len(s) + 1} ELSE B(s)
    BY <1>1
<1>4. Len(s) + 1 \notin B(s)
    BY <1>1
<1>5. Cardinality(B(s)) \in Nat /\ Cardinality(B(s) \cup {Len(s) + 1}) = Cardinality(B(s)) + 1
    BY <1>2, <1>4, FS_AddElement, FS_CardinalityType
<1>6. Batches(s) = Cardinality(B(s)) /\ Batches(Append(s, g)) = Cardinality(B(Append(s, g)))
    BY DEF Batches
<1> HIDE DEF B
<1>7. CASE g.kind = "batch"
    BY <1>3, <1>5, <1>6, <1>7
<1>8. CASE g.kind # "batch"
    BY <1>3, <1>5, <1>6, <1>8
<1>9. QED
    BY <1>7, <1>8

(* A stack has an open batch when one is counted.                            *)
LEMMA SomeBatch ==
  ASSUME NEW s \in Seq(Frame)
  PROVE  Batches(s) # 0 <=> \E f \in In(s) : f.kind = "batch"
<1> DEFINE B == {i \in 1 .. Len(s) : s[i].kind = "batch"}
<1>1. Len(s) \in Nat
    BY LenProperties
<1>2. IsFiniteSet(B)
  <2>1. IsFiniteSet(1 .. Len(s))
    BY <1>1, FS_Interval
  <2>2. B \subseteq 1 .. Len(s)
    OBVIOUS
  <2>3. QED
    BY <2>1, <2>2, FS_Subset
<1>3. Cardinality(B) = 0 <=> B = {}
    BY <1>2, FS_EmptySet
<1>4. B # {} <=> \E f \in In(s) : f.kind = "batch"
    BY DEF In
<1>5. QED
    BY <1>3, <1>4 DEF Batches

(* Only a run changes which effect is on top.                                *)
LEMMA TopPush ==
  ASSUME NEW s \in Seq(Frame), NEW g \in Frame
  PROVE  TopOf(Append(s, g)) = IF g.kind = "run" THEN {g.node} ELSE TopOf(s)
<1> DEFINE t == Append(s, g)
           I(q) == {j \in 1 .. Len(q) :
                      q[j].kind = "run" /\ \A k \in 1 .. Len(q) : q[k].kind = "run" => k <= j}
<1>1. /\ Len(s) \in Nat /\ Len(t) = Len(s) + 1
      /\ \A i \in 1 .. Len(s) : t[i] = s[i]
      /\ t[Len(s) + 1] = g
    BY AppendFacts
<1>2. TopOf(s) = {s[i].node : i \in I(s)} /\ TopOf(t) = {t[i].node : i \in I(t)}
    BY DEF TopOf
<1> HIDE DEF t
<1>3. CASE g.kind = "run"
  <2>1. I(t) = {Len(s) + 1}
    BY <1>1, <1>3
  <2>2. QED
    BY <1>1, <1>2, <1>3, <2>1 DEF t
<1>4. CASE g.kind # "run"
  <2>1. I(t) = I(s)
    BY <1>1, <1>4
  <2>2. \A i \in I(s) : t[i].node = s[i].node
    BY <1>1
  <2>3. QED
    BY <1>2, <1>4, <2>1, <2>2 DEF t
<1>5. QED
    BY <1>3, <1>4

(* A stack is well formed exactly when what is below its top is, and the top *)
(* fits on that.                                                             *)
LEMMA StackPush ==
  ASSUME NEW s \in Seq(Frame), NEW g \in Frame
  PROVE  StackOK(Append(s, g)) <=> StackOK(s) /\ Fits(s, g)
<1> DEFINE t == Append(s, g)
<1>1. /\ Len(s) \in Nat /\ Len(t) = Len(s) + 1
      /\ \A i \in 1 .. Len(s) : t[i] = s[i]
      /\ t[Len(s) + 1] = g
    BY AppendFacts
<1>2. s = <<>> <=> Len(s) = 0
    BY EmptySeq
<1> HIDE DEF t
<1>3. (\A i, j \in 1 .. Len(t) : i < j => Under(t[i], t[j]))
      <=> /\ \A i, j \in 1 .. Len(s) : i < j => Under(s[i], s[j])
          /\ \A i \in 1 .. Len(s) : Under(s[i], g)
  <2>1. ASSUME \A i, j \in 1 .. Len(t) : i < j => Under(t[i], t[j])
        PROVE  /\ \A i, j \in 1 .. Len(s) : i < j => Under(s[i], s[j])
               /\ \A i \in 1 .. Len(s) : Under(s[i], g)
    <3>1. ASSUME NEW i \in 1 .. Len(s), NEW j \in 1 .. Len(s), i < j PROVE Under(s[i], s[j])
      BY <1>1, <2>1, <3>1
    <3>2. ASSUME NEW i \in 1 .. Len(s) PROVE Under(s[i], g)
      BY <1>1, <2>1
    <3>3. QED
      BY <3>1, <3>2
  <2>2. ASSUME /\ \A i, j \in 1 .. Len(s) : i < j => Under(s[i], s[j])
               /\ \A i \in 1 .. Len(s) : Under(s[i], g),
               NEW i \in 1 .. Len(t), NEW j \in 1 .. Len(t), i < j
        PROVE  Under(t[i], t[j])
    <3>1. CASE j = Len(s) + 1
      BY <1>1, <2>2, <3>1
    <3>2. CASE j # Len(s) + 1
      BY <1>1, <2>2, <3>2
    <3>3. QED
      BY <3>1, <3>2
  <2>3. QED
    BY <2>1, <2>2
<1>4. (\A i \in 1 .. Len(t) - 1 : Calls(t[i], t[i + 1]))
      <=> /\ \A i \in 1 .. Len(s) - 1 : Calls(s[i], s[i + 1])
          /\ Len(s) > 0 => Calls(s[Len(s)], g)
  <2>1. ASSUME \A i \in 1 .. Len(t) - 1 : Calls(t[i], t[i + 1])
        PROVE  /\ \A i \in 1 .. Len(s) - 1 : Calls(s[i], s[i + 1])
               /\ Len(s) > 0 => Calls(s[Len(s)], g)
    BY <1>1, <2>1
  <2>2. ASSUME /\ \A i \in 1 .. Len(s) - 1 : Calls(s[i], s[i + 1])
               /\ Len(s) > 0 => Calls(s[Len(s)], g),
               NEW i \in 1 .. Len(t) - 1
        PROVE  Calls(t[i], t[i + 1])
    <3>1. CASE i = Len(s)
      BY <1>1, <2>2, <3>1
    <3>2. CASE i # Len(s)
      BY <1>1, <2>2, <3>2
    <3>3. QED
      BY <3>1, <3>2
  <2>3. QED
    BY <2>1, <2>2
<1>5. (Len(t) > 0 => Bottom(t[1])) <=> IF Len(s) = 0 THEN Bottom(g) ELSE Bottom(s[1])
  <2>1. CASE Len(s) = 0
    BY <1>1, <2>1
  <2>2. CASE Len(s) # 0
    BY <1>1, <2>2
  <2>3. QED
    BY <2>1, <2>2
<1>6. (\A i \in 1 .. Len(s) : Under(s[i], g)) <=> \A h \in In(s) : Under(h, g)
    BY DEF In
<1>7. (Len(s) > 0 => Bottom(s[1])) <=> IF Len(s) = 0 THEN TRUE ELSE Bottom(s[1])
    BY <1>1
<1>8. ASSUME \A h \in In(s) : Under(h, g)
      PROVE  (\A f \in In(t) : f.kind = "get" => f.node \in MayGet(t))
             <=> /\ \A f \in In(s) : f.kind = "get" => f.node \in MayGet(s)
                 /\ g.kind = "get" => g.node \in MayGet(s)
  <2>1. In(t) = In(s) \cup {g}
    BY AppendFacts DEF t
  <2>2. TopOf(t) = IF g.kind = "run" THEN {g.node} ELSE TopOf(s)
    BY TopPush DEF t
  <2>3. CASE g.kind = "run"
    <3>1. \A f \in In(t) : f.kind # "get"
      BY <1>8, <2>1, <2>3 DEF Under, Pulls
    <3>2. QED
      BY <2>1, <2>3, <3>1
  <2>4. CASE g.kind # "run"
    <3>1. MayGet(t) = MayGet(s)
      BY <2>2, <2>4 DEF MayGet
    <3>2. QED
      BY <2>1, <3>1
  <2>5. QED
    BY <2>3, <2>4
<1>9. StackOK(t) <=> StackOK(s) /\ Fits(s, g)
    BY <1>1, <1>2, <1>3, <1>4, <1>5, <1>6, <1>7, <1>8 DEF StackOK, Fits, Last
<1>10. QED
    BY <1>9 DEF t

(* Whether a frame fits is a matter of its kind and its node.                *)
LEMMA FitsAlike ==
  ASSUME NEW s, NEW f, NEW g, Fits(s, f), g.kind = f.kind,
         f.kind \in {"mark", "check", "compute"} => g.node = f.node,
         f.kind \in {"mark", "check", "compute", "flush"}
  PROVE  Fits(s, g)
    BY DEF Fits, Under, Calls, Bottom, Pulls

(* All of this for a push.                                                   *)
PushedOn(t, s, g) ==
    /\ t \in Seq(Frame) /\ t # <<>> /\ In(t) = In(s) \cup {g}
    /\ t[1] = IF s = <<>> THEN g ELSE s[1]
    /\ Front(t) = s /\ Last(t) = g
    /\ Batches(s) \in Nat
    /\ Batches(t) = Batches(s) + (IF g.kind = "batch" THEN 1 ELSE 0)
    /\ StackOK(t) <=> StackOK(s) /\ Fits(s, g)

(* A push, in all the ways the steps speak of it.                            *)
LEMMA Pushed ==
  ASSUME NEW s \in Seq(Frame), NEW g \in Frame
  PROVE  PushedOn(Append(s, g), s, g)
    BY AppendFacts, PushFacts, BatchPush, StackPush DEF PushedOn

(* And for the stack as it is.                                               *)
LEMMA TopFrame ==
  ASSUME TypeInv, StackOK(frames), frames # <<>>,
         NEW s, NEW f, s = Front(frames), f = Last(frames)
  PROVE  /\ s \in Seq(Frame) /\ f \in Frame /\ frames = Append(s, f)
         /\ In(frames) = In(s) \cup {f} /\ In(s) \subseteq Frame
         /\ frames[1] = IF s = <<>> THEN f ELSE s[1]
         /\ Batches(s) \in Nat
         /\ Batches(frames) = Batches(s) + (IF f.kind = "batch" THEN 1 ELSE 0)
         /\ StackOK(s) /\ Fits(s, f)
<1>1. s \in Seq(Frame) /\ f \in Frame /\ frames = Append(s, f)
    BY FrontFacts DEF TypeInv
<1>2. In(s) \subseteq Frame
    BY <1>1, ElementOfSeq DEF In
<1>3. /\ In(Append(s, f)) = In(s) \cup {f}
      /\ Append(s, f)[1] = IF s = <<>> THEN f ELSE s[1]
    BY <1>1, AppendFacts
<1>4. /\ Batches(s) \in Nat
      /\ Batches(Append(s, f)) = Batches(s) + (IF f.kind = "batch" THEN 1 ELSE 0)
    BY <1>1, BatchPush
<1>5. StackOK(Append(s, f)) <=> StackOK(s) /\ Fits(s, f)
    BY <1>1, StackPush
<1>6. QED
    BY <1>1, <1>2, <1>3, <1>4, <1>5

(* Nothing runs.                                                             *)
LEMMA EmptyStack == In(<<>>) = {} /\ Batches(<<>>) = 0 /\ StackOK(<<>>)
<1>1. Len(<<>>) = 0 /\ 1 .. 0 = {}
    OBVIOUS
<1>2. In(<<>>) = {}
    BY <1>1 DEF In
<1>3. {i \in 1 .. Len(<<>>) : <<>>[i].kind = "batch"} = {}
    BY <1>1
<1>4. Batches(<<>>) = 0
    BY <1>3, FS_EmptySet DEF Batches
<1>5. QED
    BY <1>1, <1>2, <1>4 DEF StackOK

(* Top and May, as the stack's own TopOf and MayGet.                         *)
LEMMA TopIs ==
  ASSUME TypeInv
  PROVE  Top = TopOf(frames) /\ May(Readable, MayRead) = MayGet(frames)
<1>1. DOMAIN frames = 1 .. Len(frames)
    BY LenProperties DEF TypeInv
<1>2. Top = TopOf(frames)
    BY <1>1 DEF Top, TopOf, Runs
<1>3. QED
    BY <1>2 DEF May, MayGet

-----------------------------------------------------------------------------
(* Who runs.                                                                 *)

(* Some number is the least of a set of numbers.                             *)
LEMMA LeastOne ==
  ASSUME NEW K \in SUBSET Nat, K # {}
  PROVE  \E k \in K : \A j \in K : k <= j
<1>1. PICK k \in K : \A j \in K : <<j, k>> \notin OpToRel(<, Nat)
    BY NatLessThanWellFounded, WFMin, Zenon
<1>2. \A j \in K : ~(j < k)
    BY <1>1, Zenon DEF OpToRel
<1>3. QED
    BY <1>2

(* A set of frame numbers has a last one.                                    *)
LEMMA LastOne ==
  ASSUME NEW n \in Nat, NEW R \in SUBSET (1 .. n), R # {}
  PROVE  \E j \in R : \A k \in R : k <= j
<1> DEFINE D == {n - i : i \in R}
<1>1. D \subseteq Nat /\ D # {}
  <2>1. \A i \in R : n - i \in Nat
    OBVIOUS
  <2>2. PICK i \in R : TRUE
    OBVIOUS
  <2>3. n - i \in D
    OBVIOUS
  <2>4. QED
    BY <2>1, <2>3
<1>2. PICK d \in D : \A m \in D : d <= m
    BY <1>1, LeastOne
<1>3. PICK j \in R : d = n - j
    BY <1>2
<1>4. \A k \in R : k <= j
  <2>1. TAKE k \in R
  <2>2. n - k \in D /\ n - j <= n - k
    BY <1>2, <1>3, <2>1
  <2>3. QED
    BY <2>2
<1>5. QED
    BY <1>4

(* Top is one effect, if any runs; Running are those on the stack.           *)
LEMMA TopEffect ==
  ASSUME TypeInv
  PROVE  /\ Top = {} => \A h \in In(frames) : h.kind # "run"
         /\ Top # {} => \E e \in Eff : Top = {e} /\ IsRun(e)
         /\ frames # <<>> /\ Last(frames).kind = "run" => Top = {Last(frames).node}
         /\ \A e : e \in Running <=> IsRun(e)
<1>1. /\ Len(frames) \in Nat /\ DOMAIN frames = 1 .. Len(frames)
      /\ \A i \in 1 .. Len(frames) : frames[i] \in Frame
    BY LenProperties, ElementOfSeq DEF TypeInv
<1>2. Runs \subseteq 1 .. Len(frames) /\ \A i \in Runs : frames[i].node \in Eff /\ frames[i].kind = "run"
    BY <1>1 DEF Runs, Frame
<1>3. \A e : e \in Running <=> IsRun(e)
    BY <1>1 DEF Running, Runs, IsRun, In
<1>4. Top = {} => \A h \in In(frames) : h.kind # "run"
  <2>1. SUFFICES ASSUME NEW i \in 1 .. Len(frames), frames[i].kind = "run" PROVE Top # {}
    BY DEF In
  <2>2. Runs # {}
    BY <1>1, <2>1 DEF Runs
  <2>3. PICK j \in Runs : \A k \in Runs : k <= j
    BY <1>1, <1>2, <2>2, LastOne
  <2>4. QED
    BY <2>3 DEF Top
<1>5. Top # {} => \E e \in Eff : Top = {e} /\ IsRun(e)
  <2>1. SUFFICES ASSUME NEW j \in Runs, \A k \in Runs : k <= j
                 PROVE  \E e \in Eff : Top = {e} /\ IsRun(e)
    BY DEF Top
  <2>2. \A k \in Runs : (\A m \in Runs : m <= k) => k = j
    BY <1>1, <1>2, <2>1
  <2>3. Top = {frames[j].node}
    BY <2>1, <2>2 DEF Top
  <2>4. IsRun(frames[j].node) /\ frames[j].node \in Eff
    BY <1>2 DEF IsRun, In
  <2>5. QED
    BY <2>3, <2>4
<1>6. frames # <<>> /\ Last(frames).kind = "run" => Top = {Last(frames).node}
  <2>1. SUFFICES ASSUME frames # <<>>, Last(frames).kind = "run" PROVE Top = {Last(frames).node}
    OBVIOUS
  <2>2. Len(frames) \in 1 .. Len(frames)
    BY <1>1, <2>1, EmptySeq DEF TypeInv
  <2>3. Len(frames) \in Runs
    BY <1>1, <2>1, <2>2 DEF Runs, Last
  <2>4. \A k \in Runs : k <= Len(frames)
    BY <1>1, <1>2
  <2>5. ASSUME NEW k \in Runs, \A m \in Runs : m <= k PROVE k = Len(frames)
    <3>1. Len(frames) <= k /\ k <= Len(frames)
      BY <2>3, <2>4, <2>5, Zenon
    <3>2. k \in 1 .. Len(frames)
      BY <1>2, <2>5
    <3>3. Len(frames) \in Nat
      BY <1>1
    <3>4. QED
      BY <3>1, <3>2, <3>3
  <2>6. QED
    BY <2>3, <2>4, <2>5 DEF Top, Last
<1>7. QED
    BY <1>3, <1>4, <1>5, <1>6

(* What is on the stack when user code runs.                                 *)
LEMMA UserStack ==
  ASSUME TypeInv, StackOK(frames), UserCode
  PROVE  /\ \A h \in In(frames) :
               /\ h \in Frame /\ h.kind \in {"run", "batch", "flush"}
               /\ h.kind = "run" /\ StartsNothing(h.node) => Top = {h.node}
               /\ h.kind \in {"run", "flush"} => Top # {}
         /\ frames # <<>> => Last(frames).kind \in {"run", "batch"}
<1>1. CASE frames = <<>>
    BY <1>1, EmptyStack
<1>2. CASE frames # <<>>
  <2> DEFINE s == Front(frames)
             f == Last(frames)
  <2>1. /\ s \in Seq(Frame) /\ f \in Frame /\ frames = Append(s, f)
        /\ In(frames) = In(s) \cup {f} /\ In(s) \subseteq Frame /\ Fits(s, f)
    BY <1>2, TopFrame
  <2>2. f.kind \in {"run", "batch"}
    BY <1>2 DEF UserCode, On
  <2> HIDE DEF s, f
  <2>3. ASSUME NEW h \in In(s)
        PROVE  h.kind \in {"run", "batch", "flush"} /\ ~(h.kind = "run" /\ StartsNothing(h.node))
    <3>1. Under(h, f) /\ h \in Frame
      BY <2>1 DEF Fits
    <3>2. QED
      BY <3>1, <2>2 DEF Under, Frame, Pulls
  <2>4. f.kind = "run" => Top = {f.node}
    BY <1>2, TopEffect DEF f
  <2>5. ASSUME NEW h \in In(frames), h.kind \in {"run", "flush"} PROVE Top # {}
    <3>1. CASE h.kind = "run"
      BY <3>1, TopEffect
    <3>2. CASE h.kind = "flush"
      <4>1. Len(frames) \in Nat /\ f = frames[Len(frames)]
        BY LenProperties DEF TypeInv, f, Last
      <4>2. PICK i \in 1 .. Len(frames) : h = frames[i]
        BY DEF In
      <4>3. i # Len(frames)
        BY <2>2, <3>2, <4>1, <4>2
      <4>4. i \in 1 .. Len(frames) - 1 /\ i + 1 \in 1 .. Len(frames)
        BY <4>1, <4>2, <4>3
      <4>5. Calls(h, frames[i + 1]) /\ frames[i + 1] \in In(frames)
        BY <4>2, <4>4 DEF StackOK, In
      <4>6. frames[i + 1].kind = "run"
        BY <2>1, <2>2, <2>3, <3>2, <4>5 DEF Calls
      <4>7. QED
        BY <4>5, <4>6, TopEffect
    <3>3. QED
      BY <2>5, <3>1, <3>2
  <2>6. QED
    BY <2>1, <2>2, <2>3, <2>4, <2>5 DEF f
<1>3. QED
    BY <1>1, <1>2

-----------------------------------------------------------------------------
(* Frames.                                                                   *)

(* What a frame of each kind holds.                                          *)
LEMMA FrameKinds ==
  ASSUME NEW f \in Frame
  PROVE  /\ f.kind \in {"run", "compute", "check", "mark", "get", "flush", "batch"}
         /\ f.kind = "run" => f.node \in Eff
         /\ f.kind = "compute" => f.node \in Comp /\ f.at \in {"test", "branch"}
         /\ f.kind = "check" =>
               /\ f.node \in Comp \cup Eff /\ f.todo \subseteq Readable
               /\ f.verdict \in {"clean", "dirty"}
         /\ f.kind = "mark" => f.node \in Node /\ f.todo \subseteq Comp \cup Eff
         /\ f.kind = "get" => f.node \in Readable
         /\ f.kind = "flush" => f.guard \in Nat
    BY DEF Frame

(* The frames that calls push are frames.                                    *)
LEMMA NewFrames ==
  ASSUME TypeInv
  PROVE  /\ \A n \in Readable : GetFrame(n) \in Frame
         /\ \A e \in Eff : RunFrame(e) \in Frame
         /\ \A c \in Comp : ComputeFrame(c) \in Frame
         /\ \A n \in Comp \cup Eff : CheckFrame(n) \in Frame
         /\ \A n \in Node : MarkFrame(n) \in Frame
         /\ FlushFrame \in Frame /\ BatchFrame \in Frame
<1>1. \A n \in Comp \cup Eff : CheckFrame(n) \in Frame
    BY DEF TypeInv, CheckFrame, Frame, Node, Readable
<1>2. \A n \in Node : MarkFrame(n) \in Frame
    BY DEF TypeInv, MarkFrame, Frame
<1>3. QED
    BY <1>1, <1>2 DEF GetFrame, RunFrame, ComputeFrame, FlushFrame, BatchFrame, Frame

(* A turn of a loop changes its own frame only: of mark,                     *)
LEMMA MarkTurn ==
  ASSUME NEW f \in Frame, f.kind = "mark", NEW o, NEW g, g = [f EXCEPT !.todo = @ \ {o}]
  PROVE  g \in Frame /\ g.kind = "mark" /\ g.node = f.node /\ g.todo = f.todo \ {o}
    BY DEF Frame

(* of the CHECK loop,                                                        *)
LEMMA CheckTurn ==
  ASSUME NEW f \in Frame, f.kind = "check", NEW n, NEW g, g = Compared(f, n)
  PROVE  /\ g \in Frame /\ g.kind = "check" /\ g.node = f.node /\ g.todo = f.todo \ {n}
         /\ g.verdict = IF version[n] # sources[f.node][n] THEN "dirty" ELSE f.verdict
    BY DEF Frame, Compared

(* of a computed's closure,                                                  *)
LEMMA ComputeTurn ==
  ASSUME NEW f \in Frame, f.kind = "compute", NEW g, g = [f EXCEPT !.at = "branch"]
  PROVE  g \in Frame /\ g.kind = "compute" /\ g.node = f.node /\ g.at = "branch"
    BY DEF Frame

(* and of flush.                                                             *)
LEMMA FlushTurn ==
  ASSUME NEW f \in Frame, f.kind = "flush", NEW g, g = [f EXCEPT !.guard = @ + 1]
  PROVE  g \in Frame /\ g.kind = "flush"
    BY DEF Frame

-----------------------------------------------------------------------------
(* What fits where.                                                          *)

(* What user code calls fits on the stack.                                   *)
LEMMA FitsUser ==
  ASSUME TypeInv, StackOK(frames), UserCode
  PROVE  /\ \A n \in May(Readable, MayRead) : Fits(frames, GetFrame(n))
         /\ \A s \in May(Sig, MayWrite) : s \in Sig => Fits(frames, MarkFrame(s))
         /\ Top \subseteq MayBatch => Fits(frames, BatchFrame)
         /\ \A e \in May(Eff, MayCreate) : ~IsRun(e) => Fits(frames, RunFrame(e))
<1>1. /\ \A h \in In(frames) :
            /\ h.kind \in {"run", "batch", "flush"}
            /\ h.kind = "run" /\ StartsNothing(h.node) => Top = {h.node}
            /\ h.kind \in {"run", "flush"} => Top # {}
      /\ frames # <<>> => Last(frames).kind \in {"run", "batch"}
    BY UserStack
<1>2. Top # {} => \E e \in Eff : Top = {e}
    BY TopEffect
<1>3. ASSUME NEW n \in May(Readable, MayRead) PROVE Fits(frames, GetFrame(n))
    BY <1>1, TopIs DEF Fits, GetFrame, Under, Calls, Bottom, Pulls
<1>4. ASSUME NEW s \in May(Sig, MayWrite), s \in Sig PROVE Fits(frames, MarkFrame(s))
  <2>1. \A e : Top = {e} => s \in MayWrite[e]
    BY <1>4 DEF May
  <2>2. MarkFrame(s).kind = "mark" /\ MarkFrame(s).node = s
    BY DEF MarkFrame
  <2>3. ASSUME NEW h \in In(frames) PROVE Under(h, MarkFrame(s))
    <3>1. h.kind = "run" => ~StartsNothing(h.node)
      BY <1>1, <2>1 DEF StartsNothing
    <3>2. h.kind \in {"run", "flush"} => \A e \in Unfed : s \notin DependsOn[e]
      BY <1>1, <1>2, <2>1 DEF Unfed
    <3>3. QED
      BY <1>1, <2>2, <3>1, <3>2 DEF Under, Pulls
  <2>4. QED
    BY <1>1, <1>4, <2>2, <2>3 DEF Fits, Calls, Bottom
<1>5. ASSUME Top \subseteq MayBatch PROVE Fits(frames, BatchFrame)
  <2>1. \A h \in In(frames) : h.kind = "run" => ~StartsNothing(h.node)
    BY <1>1, <1>5 DEF StartsNothing
  <2>2. QED
    BY <1>1, <2>1 DEF Fits, BatchFrame, Under, Calls, Bottom, Pulls
<1>6. ASSUME NEW e \in May(Eff, MayCreate), ~IsRun(e) PROVE Fits(frames, RunFrame(e))
  <2>1. \A d : Top = {d} => e \in MayCreate[d]
    BY <1>6 DEF May
  <2>2. \A h \in In(frames) : h.kind = "run" => ~StartsNothing(h.node) /\ h.node # e
    BY <1>1, <1>6, <2>1 DEF StartsNothing, IsRun
  <2>3. QED
    BY <1>1, <2>2 DEF Fits, RunFrame, Under, Calls, Bottom, Pulls
<1>7. QED
    BY <1>3, <1>4, <1>5, <1>6

(* A frame that has to bring a computed up to date calls for an older one.   *)
LEMMA FitsPull ==
  ASSUME TypeInv, EdgeInv, FrameInv, StackOK(frames), frames # <<>>,
         NEW n \in Wanted(Last(frames)), state[n] # "clean"
  PROVE  n \in Comp /\ Fits(frames, CheckFrame(n)) /\ Fits(frames, ComputeFrame(n))
<1> DEFINE s == Front(frames)
           f == Last(frames)
<1>1. /\ s \in Seq(Frame) /\ f \in Frame /\ frames = Append(s, f)
      /\ In(frames) = In(s) \cup {f} /\ In(s) \subseteq Frame /\ Fits(s, f)
    BY TopFrame
<1>2. n \in Comp
    BY DEF Wanted, EdgeInv, Readable
<1>3. f.kind \in {"get", "compute", "check"}
    BY DEF Wanted
<1>4. f.kind \in Pulls /\ f.node \in Comp => Rank[n] < Rank[f.node]
  <2>1. ASSUME f.kind = "compute" PROVE f.node \in Comp /\ n \in Deps(f.node)
    BY <1>1, <2>1, FrameKinds DEF Wanted, Operand, Deps
  <2>2. ASSUME f.kind = "check", f.node \in Comp PROVE n \in Deps(f.node)
    <3>1. FrameOK(f) /\ n \in f.todo
      BY <1>1, <2>2 DEF Wanted, FrameInv
    <3>2. QED
      BY <2>2, <3>1 DEF FrameOK, EdgeInv
  <2>3. QED
    BY <2>1, <2>2, ProgramsLookBack DEF Pulls
<1>5. f.kind \in {"check", "compute"} => f.node \in Comp \cup Eff
    BY <1>1, FrameKinds
<1>6. n \notin Eff /\ (f.kind = "check" => f.node # n)
  <2>1. Rank[n] \in Nat /\ ~(Rank[n] < Rank[n])
    BY <1>2, ProgramsLookBack DEF Readable
  <2>2. QED
    BY <1>2, <1>4, <2>1, NodesAreApart DEF Pulls
<1> HIDE DEF s, f
<1>7. ASSUME NEW g, g.kind \in Pulls, g.node = n
      PROVE  Fits(frames, g)
  <2>1. Under(f, g)
    BY <1>2, <1>3, <1>4, <1>5, <1>6, <1>7 DEF Under, Pulls
  <2>2. ASSUME NEW h \in In(s) PROVE Under(h, g)
    <3>1. Under(h, f) /\ h \in Frame
      BY <1>1 DEF Fits
    <3>2. h.kind \notin {"mark", "batch", "flush"} \/ h.kind \in {"batch", "flush"}
      BY <1>3, <3>1 DEF Under
    <3>3. h.kind \in Pulls =>
            f.kind \in Pulls /\ f.node \in Comp /\ (h.node \in Comp => Rank[n] < Rank[h.node])
      <4>1. h.kind \in Pulls /\ h.node \in Comp =>
              f.kind \in Pulls /\ f.node \in Comp /\ Rank[f.node] < Rank[h.node]
        BY <3>1 DEF Under
      <4>2. f.node \in Comp /\ h.node \in Comp => Rank[f.node] \in Nat /\ Rank[h.node] \in Nat /\ Rank[n] \in Nat
        BY <1>2, ProgramsLookBack DEF Readable
      <4>3. h.kind \in Pulls => f.kind \in Pulls /\ f.node \in Comp
        BY <3>1 DEF Under
      <4>4. QED
        BY <1>4, <4>1, <4>2, <4>3
    <3>4. h.kind \in {"run", "check"} => h.node # n
      <4>1. h.kind = "run" => h.node \in Eff
        BY <3>1, FrameKinds
      <4>2. CASE h.kind = "check" /\ h.node \in Comp
        <5>1. Rank[n] < Rank[h.node] /\ Rank[n] \in Nat
          BY <1>2, <3>3, <4>2, ProgramsLookBack DEF Pulls, Readable
        <5>2. QED
          BY <5>1
      <4>3. h.kind = "check" => h.node \in Comp \cup Eff
        BY <3>1, FrameKinds
      <4>4. QED
        BY <1>6, <4>1, <4>2, <4>3
    <3>5. h.kind # "mark"
      BY <1>3, <3>1 DEF Under
    <3>6. QED
      BY <1>2, <1>7, <3>3, <3>4, <3>5 DEF Under, Pulls
  <2>3. Calls(f, g) /\ Last(frames) = f
    BY <1>3, <1>6, <1>7 DEF Calls, f, Pulls
  <2>4. QED
    BY <1>1, <1>7, <2>1, <2>2, <2>3 DEF Fits, Pulls
<1>8. QED
    BY <1>2, <1>7 DEF CheckFrame, ComputeFrame, Pulls

(* What a node recomputes as fits where it was checked.                      *)
LEMMA FitsRecompute ==
  ASSUME NEW s \in Seq(Frame), NEW f \in Frame, StackOK(s), Fits(s, f), f.kind = "check"
  PROVE  /\ f.node \in Comp => Fits(s, ComputeFrame(f.node))
         /\ f.node \in Eff => Fits(s, RunFrame(f.node))
<1>1. ASSUME f.node \in Comp PROVE Fits(s, ComputeFrame(f.node))
  <2>1. f.node \notin Eff
    BY <1>1, NodesAreApart
  <2>2. QED
    BY <1>1, <2>1 DEF Fits, ComputeFrame, Under, Calls, Bottom, Pulls
<1>2. ASSUME f.node \in Eff PROVE Fits(s, RunFrame(f.node))
  <2>1. s # <<>> /\ Last(s).kind = "flush"
    BY <1>2 DEF Fits, Calls, Bottom
  <2>2. /\ Front(s) \in Seq(Frame) /\ Last(s) \in Frame /\ s = Append(Front(s), Last(s))
    BY <2>1, FrontFacts
  <2>3. Fits(Front(s), Last(s)) /\ In(s) = In(Front(s)) \cup {Last(s)}
    <3>1. StackOK(Append(Front(s), Last(s)))
      BY <2>2
    <3>2. Fits(Front(s), Last(s))
      BY <2>2, <3>1, StackPush
    <3>3. In(Append(Front(s), Last(s))) = In(Front(s)) \cup {Last(s)}
      BY <2>2, AppendFacts
    <3>4. QED
      BY <2>2, <3>2, <3>3
  <2>4. \A h \in In(s) : ~(h.kind = "run" /\ StartsNothing(h.node))
    BY <2>1, <2>3 DEF Fits, Under, Pulls
  <2>5. f.node \notin Comp
    BY <1>2, NodesAreApart
  <2>6. \A h \in In(s) : Under(h, f)
    BY DEF Fits
  <2>7. \A h \in In(s) : Under(h, RunFrame(f.node))
    BY <2>4, <2>5, <2>6 DEF Under, RunFrame, Pulls
  <2>8. QED
    BY <1>2, <2>1, <2>7 DEF Fits, Calls, Bottom, RunFrame
<1>3. QED
    BY <1>1, <1>2

(* What an effect depends on is closed under what computeds read.            *)
LEMMA DependsOnFacts ==
  ASSUME NEW e \in Eff
  PROVE  /\ DependsOn[e] \subseteq Readable /\ MayRead[e] \subseteq DependsOn[e]
         /\ \A c \in DependsOn[e] \cap Comp : Deps(c) \subseteq DependsOn[e]
<1>1. DependsOn[e] =
        {n \in Readable :
           \A T \in SUBSET Readable :
              MayRead[e] \subseteq T /\ (\A c \in T \cap Comp : Deps(c) \subseteq T) => n \in T}
    BY DEF DependsOn
<1>2. MayRead[e] \subseteq Readable
    BY EffectsTouchNodes
<1>3. \A c \in Comp : Deps(c) \subseteq Readable
    BY ProgramsLookBack
<1>4. MayRead[e] \subseteq DependsOn[e]
    BY <1>1, <1>2
<1>5. ASSUME NEW c \in DependsOn[e] \cap Comp, NEW n \in Deps(c) PROVE n \in DependsOn[e]
    BY <1>1, <1>3, <1>5
<1>6. QED
    BY <1>1, <1>4, <1>5

(* A mark goes on to the observers.                                          *)
LEMMA FitsMark ==
  ASSUME NEW s \in Seq(Frame), NEW f \in Frame, f.kind = "mark", Fits(s, f),
         TypeInv, EdgeInv, NEW o \in observers[f.node],
         NEW f2, f2.kind = "mark", f2.node = f.node,
         NEW t, t # <<>>, In(t) = In(s) \cup {f2}, Last(t) = f2
  PROVE  Fits(t, MarkFrame(o))
<1> DEFINE g == MarkFrame(o)
<1>1. g.kind = "mark" /\ g.node = o
    BY DEF MarkFrame
<1>2. f.node \in Node /\ o \in Comp \cup Eff /\ o \in Node
    BY FrameKinds DEF TypeInv, Node, Readable
<1>3. o \notin Sig
    BY <1>2, NodesAreApart
<1>4. \A e \in Unfed : o \in DependsOn[e] => f.node \in DependsOn[e]
  <2>1. SUFFICES ASSUME NEW e \in Unfed, o \in DependsOn[e] PROVE f.node \in DependsOn[e]
    OBVIOUS
  <2>2. e \in Eff
    BY DEF Unfed
  <2>3. o \in Comp
    BY <1>2, <2>1, <2>2, DependsOnFacts, NodesAreApart DEF Readable
  <2>4. f.node \in Deps(o)
    BY <1>2, <2>3 DEF EdgeInv
  <2>5. QED
    BY <2>1, <2>2, <2>3, <2>4, DependsOnFacts
<1> HIDE DEF g
<1>5. Under(f2, g)
    BY <1>1, <1>3 DEF Under, Pulls
<1>6. ASSUME NEW h \in In(s) PROVE Under(h, g)
  <2>1. Under(h, f)
    BY DEF Fits
  <2>2. QED
    BY <1>1, <1>3, <1>4, <2>1 DEF Under, Pulls
<1>7. Calls(f2, g)
    BY <1>1 DEF Calls
<1>8. QED
    BY <1>1, <1>5, <1>6, <1>7 DEF Fits, g

(* A flush fits where a write or the last open batch ends.                   *)
LEMMA FitsFlush ==
  ASSUME NEW s \in Seq(Frame), NEW f \in Frame, Fits(s, f), Batches(s) = 0,
         f.kind = "batch" \/ (f.kind = "mark" /\ f.node \in Sig)
  PROVE  Fits(s, FlushFrame)
<1>1. \A h \in In(s) : h.kind # "batch"
    BY SomeBatch
<1>2. FlushFrame.kind = "flush"
    BY DEF FlushFrame
<1>3. QED
    BY <1>1, <1>2 DEF Fits, Under, Calls, Bottom, Pulls

(* The next effect of the queue fits on the flush.                           *)
LEMMA FitsNext ==
  ASSUME NEW s \in Seq(Frame), NEW f \in Frame, f.kind = "flush", Fits(s, f),
         NEW e \in Eff, ~IsRun(e), ~IsChecked(e), In(s) \subseteq In(frames),
         NEW f2, f2.kind = "flush",
         NEW t, t # <<>>, In(t) = In(s) \cup {f2}, Last(t) = f2,
         NEW g, g.kind \in {"run", "check"}, g.node = e
  PROVE  Fits(t, g)
<1>1. ASSUME NEW h \in In(s) PROVE Under(h, g)
  <2>1. Under(h, f) /\ (h.kind \in {"run", "check"} => h.node # e)
    BY DEF Fits, IsRun, IsChecked
  <2>2. QED
    BY <2>1 DEF Under, Pulls
<1>2. Under(f2, g) /\ Calls(f2, g)
    BY DEF Under, Calls, Pulls
<1>3. QED
    BY <1>1, <1>2 DEF Fits

-----------------------------------------------------------------------------
(* The steps, one lemma for each action.                                     *)

(* A step that changes the stack and leaves the graph alone.                 *)
LEMMA StackStep ==
  ASSUME IInv, UNCHANGED <<graph, born, over, seen, reported>>,
         fired' \in [Eff -> Nat], FireInv',
         frames' \in Seq(Frame), StackOK(frames'),
         batch_depth' \in Nat, batch_depth' = Batches(frames'),
         \A f \in In(frames') : FrameOK(f),
         \A e \in Eff : IsRun(e)' <=> IsRun(e),
         \A e \in Eff : IsChecked(e)' <=> IsChecked(e),
         \A m, o : Ahead(m, o) => Ahead(m, o)',
         pending # <<>> => \E f \in In(frames') : f.kind \in {"flush", "batch", "mark"}
  PROVE  IInv'
<1>1. /\ TypeInv /\ EdgeInv /\ DisposalInv /\ StackOK(frames) /\ BatchInv /\ FrameInv
      /\ CompInv /\ EffInv /\ QueueInv /\ FireInv
    BY DEF IInv
<1>2. /\ state' = state /\ version' = version /\ value' = value /\ sources' = sources
      /\ observers' = observers /\ disposed' = disposed /\ pending' = pending
      /\ born' = born /\ over' = over /\ seen' = seen /\ reported' = reported
    BY DEF graph
<1>3. TypeInv'
    BY <1>1, <1>2 DEF TypeInv
<1>4. EdgeInv' /\ DisposalInv'
    BY <1>1, <1>2 DEF EdgeInv, DisposalInv
<1>5. BatchInv'
    BY DEF BatchInv
<1>6. FrameInv'
    BY <1>2 DEF FrameInv, FrameOK, Fresh
<1>7. CompInv'
    BY <1>1, <1>2 DEF CompInv, UpToDate, Fresh, ValueFits, Branch
<1>8. Live' = Live /\ Live \subseteq Eff
    BY <1>1, <1>2 DEF Live, TypeInv
<1>9. EffInv'
    BY <1>1, <1>2, <1>8 DEF EffInv, UpToDate, Fresh
<1>10. QueueInv'
  <2>1. In(pending) \subseteq Eff
    BY <1>1, ElementOfSeq DEF In, TypeInv
  <2>2. QED
    BY <1>1, <1>2, <1>8, <2>1 DEF QueueInv
<1>11. QED
    BY <1>3, <1>4, <1>5, <1>6, <1>7, <1>9, <1>10 DEF IInv

(* A call of get() touches the stack only.                                   *)
LEMMA GetStep ==
  ASSUME IInv, NEW n \in Readable, Get(n)
  PROVE  IInv'
<1> DEFINE g == GetFrame(n)
<1>1. TypeInv /\ StackOK(frames) /\ BatchInv /\ FrameInv /\ QueueInv /\ FireInv
    BY DEF IInv
<1>2. UserCode /\ frames' = Append(frames, g) /\ frames \in Seq(Frame)
    BY <1>1 DEF Get, TypeInv
<1>3. UNCHANGED <<graph, batch_depth, born, over, seen, fired, reported>>
    BY DEF Get
<1>4. g \in Frame /\ g.kind = "get" /\ Fits(frames, g)
    BY <1>1, <1>2, NewFrames, FitsUser DEF GetFrame, Get
<1> HIDE DEF g
<1>5. /\ frames' \in Seq(Frame) /\ frames' # <<>> /\ In(frames') = In(frames) \cup {g}
      /\ frames'[1] = IF frames = <<>> THEN g ELSE frames[1]
      /\ Batches(frames') = Batches(frames) + 0
      /\ Batches(frames) \in Nat
      /\ StackOK(frames')
    BY <1>1, <1>2, <1>4, Pushed DEF PushedOn
<1>6. /\ \A e : IsRun(e)' <=> IsRun(e)
      /\ \A e : IsChecked(e)' <=> IsChecked(e)
      /\ \A m, o : Ahead(m, o)' <=> Ahead(m, o)
    BY <1>4, <1>5 DEF IsRun, IsChecked, Ahead
<1>7. \A f \in In(frames') : FrameOK(f)
    BY <1>1, <1>4, <1>5 DEF FrameInv, FrameOK
<1>8. FireInv' /\ fired' \in [Eff -> Nat]
    BY <1>1, <1>3, <1>4, <1>5, <1>6 DEF FireInv, TypeInv, graph
<1>9. pending # <<>> => \E f \in In(frames') : f.kind \in {"flush", "batch", "mark"}
    BY <1>1, <1>5 DEF QueueInv
<1>10. batch_depth' \in Nat /\ batch_depth' = Batches(frames')
    BY <1>1, <1>3, <1>5 DEF BatchInv
<1>11. QED
    BY <1>3, <1>5, <1>6, <1>7, <1>8, <1>9, <1>10, StackStep

(* The history of runs when an outermost call may begin.                     *)
LEMMA FiredFacts ==
  ASSUME TypeInv, FireInv
  PROVE  /\ Fired \in [Eff -> Nat]
         /\ \A e \in Unfed : /\ Fired[e] <= 1
                             /\ Fired[e] = 1 => frames # <<>> /\ fired[e] = 1
    BY DEF Fired, TypeInv, FireInv, Unfed

(* One more batch is open: the depth and the stack move together.            *)
LEMMA BatchBeginStep ==
  ASSUME IInv, BatchBegin
  PROVE  IInv'
<1> DEFINE g == BatchFrame
<1>1. TypeInv /\ StackOK(frames) /\ BatchInv /\ FrameInv /\ QueueInv /\ FireInv
    BY DEF IInv
<1>2. UserCode /\ frames' = Append(frames, g) /\ frames \in Seq(Frame)
    BY <1>1 DEF BatchBegin, TypeInv
<1>3. UNCHANGED <<graph, born, over, seen, reported>> /\ fired' = Fired
      /\ batch_depth' = batch_depth + 1
    BY DEF BatchBegin
<1>4. g \in Frame /\ g.kind = "batch" /\ Fits(frames, g)
    BY <1>1, <1>2, NewFrames, FitsUser DEF BatchFrame, BatchBegin
<1> HIDE DEF g
<1>5. /\ frames' \in Seq(Frame) /\ frames' # <<>> /\ In(frames') = In(frames) \cup {g}
      /\ frames'[1] = IF frames = <<>> THEN g ELSE frames[1]
      /\ Batches(frames) \in Nat
      /\ Batches(frames') = Batches(frames) + (IF g.kind = "batch" THEN 1 ELSE 0)
      /\ StackOK(frames')
  <2>1. PushedOn(frames', frames, g)
    BY <1>2, <1>4, Pushed
  <2>2. QED
    BY <1>1, <1>4, <2>1 DEF PushedOn
<1>6. /\ \A e : IsRun(e)' <=> IsRun(e)
      /\ \A e : IsChecked(e)' <=> IsChecked(e)
      /\ \A m, o : Ahead(m, o)' <=> Ahead(m, o)
    BY <1>4, <1>5 DEF IsRun, IsChecked, Ahead
<1>7. \A f \in In(frames') : FrameOK(f)
    BY <1>1, <1>4, <1>5 DEF FrameInv, FrameOK
<1>8. FireInv' /\ fired' \in [Eff -> Nat]
    BY <1>1, <1>3, <1>4, <1>5, <1>6, FiredFacts DEF FireInv, graph
<1>9. \E f \in In(frames') : f.kind \in {"flush", "batch", "mark"}
    BY <1>4, <1>5
<1>10. batch_depth' \in Nat /\ batch_depth' = Batches(frames')
    BY <1>1, <1>3, <1>4, <1>5 DEF BatchInv
<1>11. QED
    BY <1>3, <1>5, <1>6, <1>7, <1>8, <1>9, <1>10, StackStep

(* The outermost batch flushes: no other is open below it.                   *)
LEMMA BatchEndStep ==
  ASSUME IInv, BatchEnd
  PROVE  IInv'
<1> DEFINE s == Front(frames)
           f == Last(frames)
<1>1. TypeInv /\ StackOK(frames) /\ BatchInv /\ FrameInv /\ QueueInv /\ FireInv
    BY DEF IInv
<1>2. /\ frames # <<>> /\ f.kind = "batch" /\ batch_depth' = batch_depth - 1
      /\ frames' = IF batch_depth = 1 THEN Append(s, FlushFrame) ELSE s
    BY DEF BatchEnd, On
<1>3. UNCHANGED <<graph, born, over, seen, fired, reported>>
    BY DEF BatchEnd
<1>4. /\ s \in Seq(Frame) /\ f \in Frame /\ frames = Append(s, f)
      /\ In(frames) = In(s) \cup {f} /\ In(s) \subseteq Frame
      /\ frames[1] = IF s = <<>> THEN f ELSE s[1]
      /\ Batches(s) \in Nat /\ batch_depth = Batches(s) + 1
      /\ StackOK(s) /\ Fits(s, f)
    BY <1>1, <1>2, TopFrame DEF BatchInv
<1> HIDE DEF s, f
<1>5. CASE batch_depth = 1
  <2>1. FlushFrame \in Frame /\ FlushFrame.kind = "flush" /\ Fits(s, FlushFrame)
    <3>1. Batches(s) = 0
      BY <1>4, <1>5
    <3>2. Fits(s, FlushFrame)
      <4>1. s \in Seq(Frame) /\ f \in Frame /\ Fits(s, f) /\ f.kind = "batch"
        BY <1>2, <1>4
      <4>2. QED
        BY <3>1, <4>1, FitsFlush
    <3>3. QED
      BY <1>1, <3>2, NewFrames DEF FlushFrame
  <2>2. /\ frames' \in Seq(Frame) /\ frames' # <<>> /\ In(frames') = In(s) \cup {FlushFrame}
        /\ frames'[1] = IF s = <<>> THEN FlushFrame ELSE s[1]
        /\ Batches(frames') = Batches(s) + 0
        /\ StackOK(frames')
    BY <1>2, <1>4, <1>5, <2>1, Pushed DEF PushedOn
  <2>3. /\ \A e : IsRun(e)' <=> IsRun(e)
        /\ \A e : IsChecked(e)' <=> IsChecked(e)
        /\ \A m, o : Ahead(m, o)' <=> Ahead(m, o)
    BY <1>2, <1>4, <2>1, <2>2 DEF IsRun, IsChecked, Ahead
  <2>4. \A h \in In(frames') : FrameOK(h)
    BY <1>1, <1>4, <2>1, <2>2 DEF FrameInv, FrameOK
  <2>5. FireInv' /\ fired' \in [Eff -> Nat]
    BY <1>1, <1>3, <1>4, <2>1, <2>2, <2>3 DEF FireInv, TypeInv, graph
  <2>6. \E h \in In(frames') : h.kind \in {"flush", "batch", "mark"}
    BY <2>1, <2>2
  <2>7. batch_depth' \in Nat /\ batch_depth' = Batches(frames')
    BY <1>2, <1>4, <2>2
  <2>8. QED
    BY <1>3, <2>2, <2>3, <2>4, <2>5, <2>6, <2>7, StackStep
<1>6. CASE batch_depth # 1
  <2>1. /\ \A e : IsRun(e)' <=> IsRun(e)
        /\ \A e : IsChecked(e)' <=> IsChecked(e)
        /\ \A m, o : Ahead(m, o)' <=> Ahead(m, o)
    BY <1>2, <1>4, <1>6 DEF IsRun, IsChecked, Ahead
  <2>2. \A h \in In(frames') : FrameOK(h)
    BY <1>1, <1>2, <1>4, <1>6 DEF FrameInv
  <2>3. FireInv' /\ fired' \in [Eff -> Nat]
    BY <1>1, <1>2, <1>3, <1>4, <1>6, <2>1 DEF FireInv, TypeInv, graph
  <2>4. \E h \in In(frames') : h.kind \in {"flush", "batch", "mark"}
    BY <1>2, <1>4, <1>6, SomeBatch
  <2>5. batch_depth' \in Nat /\ batch_depth' = Batches(frames')
    BY <1>2, <1>4, <1>6
  <2>6. frames' \in Seq(Frame) /\ StackOK(frames')
    BY <1>2, <1>4, <1>6
  <2>7. QED
    BY <1>3, <2>1, <2>2, <2>3, <2>4, <2>5, <2>6, StackStep
<1>7. QED
    BY <1>5, <1>6

(* The queue is empty, so nobody below has to flush it.                      *)
LEMMA FlushDoneStep ==
  ASSUME IInv, FlushDone
  PROVE  IInv'
<1> DEFINE s == Front(frames)
           f == Last(frames)
<1>1. TypeInv /\ StackOK(frames) /\ BatchInv /\ FrameInv /\ FireInv
    BY DEF IInv
<1>2. frames # <<>> /\ f.kind = "flush" /\ frames' = s /\ pending = <<>>
    BY DEF FlushDone, On
<1>3. UNCHANGED <<graph, batch_depth, born, over, seen, fired, reported>>
    BY DEF FlushDone
<1>4. /\ s \in Seq(Frame) /\ In(frames) = In(s) \cup {f}
      /\ frames[1] = IF s = <<>> THEN f ELSE s[1]
      /\ Batches(s) \in Nat
      /\ Batches(frames) = Batches(s) + (IF f.kind = "batch" THEN 1 ELSE 0)
      /\ StackOK(s)
    BY <1>1, <1>2, TopFrame
<1> HIDE DEF s, f
<1>5. /\ \A e : IsRun(e)' <=> IsRun(e)
      /\ \A e : IsChecked(e)' <=> IsChecked(e)
      /\ \A m, o : Ahead(m, o)' <=> Ahead(m, o)
    BY <1>2, <1>4 DEF IsRun, IsChecked, Ahead
<1>6. \A h \in In(frames') : FrameOK(h)
    BY <1>1, <1>2, <1>4 DEF FrameInv
<1>7. FireInv' /\ fired' \in [Eff -> Nat]
    BY <1>1, <1>2, <1>3, <1>4, <1>5 DEF FireInv, TypeInv, graph
<1>8. batch_depth' \in Nat /\ batch_depth' = Batches(frames')
    BY <1>1, <1>2, <1>3, <1>4 DEF BatchInv
<1>9. QED
    BY <1>2, <1>3, <1>4, <1>5, <1>6, <1>7, <1>8, StackStep

(* A source that is clean and at the version read is done with; any          *)
(* other turns the verdict.                                                  *)
LEMMA CheckSourceStep ==
  ASSUME IInv, NEW n, CheckSource(n)
  PROVE  IInv'
<1> DEFINE s == Front(frames)
           f == Last(frames)
           g == Compared(f, n)
<1>1. TypeInv /\ StackOK(frames) /\ BatchInv /\ FrameInv /\ QueueInv /\ FireInv
    BY DEF IInv
<1>2. /\ frames # <<>> /\ f.kind = "check" /\ n \in f.todo /\ state[n] = "clean"
      /\ frames' = Append(s, g)
    BY DEF CheckSource, On
<1>3. UNCHANGED <<graph, batch_depth, born, over, seen, fired, reported>>
    BY DEF CheckSource
<1>4. /\ s \in Seq(Frame) /\ f \in Frame /\ In(frames) = In(s) \cup {f}
      /\ frames[1] = IF s = <<>> THEN f ELSE s[1]
      /\ Batches(s) \in Nat
      /\ Batches(frames) = Batches(s) + (IF f.kind = "batch" THEN 1 ELSE 0)
      /\ StackOK(s) /\ Fits(s, f)
    BY <1>1, <1>2, TopFrame
<1>5. /\ g \in Frame /\ g.kind = "check" /\ g.node = f.node /\ g.todo = f.todo \ {n}
      /\ g.verdict = IF version[n] # sources[f.node][n] THEN "dirty" ELSE f.verdict
    BY <1>2, <1>4, CheckTurn
<1> HIDE DEF s, f, g
<1>6. Fits(s, g)
    BY <1>2, <1>4, <1>5, FitsAlike
<1>7. PushedOn(frames', s, g)
    BY <1>2, <1>4, <1>5, Pushed
<1>8. /\ frames' \in Seq(Frame) /\ frames' # <<>> /\ In(frames') = In(s) \cup {g}
      /\ frames'[1] = IF s = <<>> THEN g ELSE s[1]
      /\ Batches(frames') = Batches(s) /\ StackOK(frames')
    BY <1>4, <1>5, <1>6, <1>7 DEF PushedOn
<1>9. /\ \A e : IsRun(e)' <=> IsRun(e)
      /\ \A e : IsChecked(e)' <=> IsChecked(e)
      /\ \A m, o : Ahead(m, o)' <=> Ahead(m, o)
    BY <1>2, <1>4, <1>5, <1>8 DEF IsRun, IsChecked, Ahead
<1>10. \A h \in In(frames') : FrameOK(h)
  <2>1. FrameOK(f) /\ \A h \in In(s) : FrameOK(h)
    BY <1>1, <1>4 DEF FrameInv
  <2>2. FrameOK(g)
    BY <1>2, <1>5, <2>1 DEF FrameOK, Fresh
  <2>3. QED
    BY <1>8, <2>1, <2>2
<1>11. FireInv' /\ fired' \in [Eff -> Nat]
    BY <1>1, <1>2, <1>3, <1>4, <1>5, <1>8, <1>9 DEF FireInv, TypeInv, graph
<1>12. batch_depth' \in Nat /\ batch_depth' = Batches(frames')
    BY <1>1, <1>2, <1>3, <1>4, <1>8 DEF BatchInv
<1>13. pending # <<>> => \E h \in In(frames') : h.kind \in {"flush", "batch", "mark"}
    BY <1>1, <1>2, <1>4, <1>8 DEF QueueInv
<1>14. QED
    BY <1>3, <1>8, <1>9, <1>10, <1>11, <1>12, <1>13, StackStep

(* A walk ends with nothing left to come; a write then flushes, or an        *)
(* open batch will.                                                          *)
LEMMA MarkEndsStep ==
  ASSUME IInv, MarkEnds
  PROVE  IInv'
<1> DEFINE s == Front(frames)
           f == Last(frames)
<1>1. TypeInv /\ StackOK(frames) /\ BatchInv /\ FrameInv /\ QueueInv /\ FireInv
    BY DEF IInv
<1>2. /\ frames # <<>> /\ f.kind = "mark" /\ f.todo = {}
      /\ frames' = IF f.node \in Sig /\ batch_depth = 0 THEN Append(s, FlushFrame) ELSE s
    BY DEF MarkEnds, On, AfterWrite
<1>3. UNCHANGED <<graph, batch_depth, born, over, seen, fired, reported>>
    BY DEF MarkEnds
<1>4. /\ s \in Seq(Frame) /\ f \in Frame /\ In(frames) = In(s) \cup {f}
      /\ frames[1] = IF s = <<>> THEN f ELSE s[1]
      /\ Batches(s) \in Nat
      /\ Batches(frames) = Batches(s) + (IF f.kind = "batch" THEN 1 ELSE 0)
      /\ StackOK(s) /\ Fits(s, f)
    BY <1>1, <1>2, TopFrame
<1> HIDE DEF s, f
<1>5. batch_depth = Batches(s) /\ batch_depth \in Nat
    BY <1>1, <1>2, <1>4 DEF BatchInv
<1>6. CASE f.node \in Sig /\ batch_depth = 0
  <2>1. Fits(s, FlushFrame)
    BY <1>2, <1>4, <1>5, <1>6, FitsFlush
  <2>2. FlushFrame \in Frame /\ FlushFrame.kind = "flush"
    BY <1>1, NewFrames DEF FlushFrame
  <2>3. PushedOn(frames', s, FlushFrame)
    BY <1>2, <1>4, <1>6, <2>2, Pushed
  <2>4. /\ frames' \in Seq(Frame) /\ frames' # <<>> /\ In(frames') = In(s) \cup {FlushFrame}
        /\ frames'[1] = IF s = <<>> THEN FlushFrame ELSE s[1]
        /\ Batches(frames') = Batches(s)
        /\ StackOK(frames')
    BY <1>4, <2>1, <2>2, <2>3 DEF PushedOn
  <2>5. /\ \A e : IsRun(e)' <=> IsRun(e)
        /\ \A e : IsChecked(e)' <=> IsChecked(e)
        /\ \A m, o : Ahead(m, o)' <=> Ahead(m, o)
    BY <1>2, <1>4, <2>2, <2>4 DEF IsRun, IsChecked, Ahead
  <2>6. \A h \in In(frames') : FrameOK(h)
    BY <1>1, <1>4, <2>2, <2>4 DEF FrameInv, FrameOK
  <2>7. FireInv' /\ fired' \in [Eff -> Nat]
    BY <1>1, <1>2, <1>3, <1>4, <2>2, <2>4, <2>5 DEF FireInv, TypeInv, graph
  <2>8. \E h \in In(frames') : h.kind \in {"flush", "batch", "mark"}
    BY <2>2, <2>4
  <2>9. batch_depth' \in Nat /\ batch_depth' = Batches(frames')
    BY <1>3, <1>5, <2>4
  <2>10. QED
    BY <1>3, <2>4, <2>5, <2>6, <2>7, <2>8, <2>9, StackStep
<1>7. CASE ~(f.node \in Sig /\ batch_depth = 0)
  <2>1. frames' = s
    BY <1>2, <1>7
  <2>2. /\ \A e : IsRun(e)' <=> IsRun(e)
        /\ \A e : IsChecked(e)' <=> IsChecked(e)
        /\ \A m, o : Ahead(m, o)' <=> Ahead(m, o)
    BY <1>2, <1>4, <2>1 DEF IsRun, IsChecked, Ahead
  <2>3. \A h \in In(frames') : FrameOK(h)
    BY <1>1, <1>4, <2>1 DEF FrameInv
  <2>4. FireInv' /\ fired' \in [Eff -> Nat]
    BY <1>1, <1>2, <1>3, <1>4, <2>1, <2>2 DEF FireInv, TypeInv, graph
  <2>5. \E h \in In(s) : h.kind \in {"flush", "batch", "mark"}
    <3>1. CASE f.node \in Sig
      BY <1>4, <1>5, <1>7, <3>1, SomeBatch
    <3>2. CASE f.node \notin Sig
      <4>1. s # <<>> /\ Last(s).kind = "mark"
        BY <1>2, <1>4, <3>2 DEF Fits, Calls, Bottom
      <4>2. Last(s) \in In(s)
        <5>1. Front(s) \in Seq(Frame) /\ Last(s) \in Frame /\ s = Append(Front(s), Last(s))
          BY <1>4, <4>1, FrontFacts
        <5>2. In(Append(Front(s), Last(s))) = In(Front(s)) \cup {Last(s)}
          BY <5>1, AppendFacts
        <5>3. QED
          BY <5>1, <5>2
      <4>3. QED
        BY <4>1, <4>2
    <3>3. QED
      BY <3>1, <3>2
  <2>6. batch_depth' \in Nat /\ batch_depth' = Batches(frames')
    BY <1>3, <1>5, <2>1
  <2>7. QED
    BY <1>3, <1>4, <2>1, <2>2, <2>3, <2>4, <2>5, <2>6, StackStep
<1>8. QED
    BY <1>6, <1>7

-----------------------------------------------------------------------------
(* The steps that change the graph.                                          *)

(* The parts of the invariant, and the sets the nodes fall into.             *)
LEMMA Basics ==
  ASSUME IInv
  PROVE  /\ TypeInv /\ EdgeInv /\ DisposalInv /\ StackOK(frames) /\ BatchInv /\ FrameInv
         /\ CompInv /\ EffInv /\ QueueInv /\ FireInv
         /\ In(pending) \subseteq Eff /\ Live \subseteq Eff /\ In(frames) \subseteq Frame
         /\ \A o \in Node : DOMAIN sources[o] \subseteq Readable
         /\ Node = Readable \cup Eff /\ Readable = Sig \cup Comp /\ Node = Sig \cup Comp \cup Eff
         /\ Readable \cap Eff = {} /\ Sig \cap Comp = {} /\ Sig \cap Eff = {} /\ Comp \cap Eff = {}
<1>1. /\ TypeInv /\ EdgeInv /\ DisposalInv /\ StackOK(frames) /\ BatchInv /\ FrameInv
      /\ CompInv /\ EffInv /\ QueueInv /\ FireInv
    BY DEF IInv
<1>2. In(pending) \subseteq Eff /\ Live \subseteq Eff /\ In(frames) \subseteq Frame
    BY <1>1, ElementOfSeq DEF TypeInv, In, Live
<1>3. \A o \in Node : DOMAIN sources[o] \subseteq Readable
    BY <1>1 DEF TypeInv
<1>4. /\ Node = Readable \cup Eff /\ Readable = Sig \cup Comp /\ Node = Sig \cup Comp \cup Eff
      /\ Readable \cap Eff = {} /\ Sig \cap Comp = {} /\ Sig \cap Eff = {} /\ Comp \cap Eff = {}
    BY NodesAreApart DEF Node, Readable
<1>5. QED
    BY <1>1, <1>2, <1>3, <1>4

(* The queue is dropped, and `reported` says so.                             *)
LEMMA FlushAbortStep ==
  ASSUME IInv, FlushAbort
  PROVE  IInv'
<1> DEFINE s == Front(frames)
           f == Last(frames)
<1>1. /\ TypeInv /\ EdgeInv /\ DisposalInv /\ StackOK(frames) /\ BatchInv /\ FrameInv
      /\ CompInv /\ EffInv /\ QueueInv /\ FireInv /\ Live \subseteq Eff
    BY Basics
<1>2. frames # <<>> /\ f.kind = "flush" /\ frames' = s /\ pending' = <<>> /\ reported' = TRUE
    BY DEF FlushAbort, On
<1>3. /\ state' = state /\ version' = version /\ value' = value /\ sources' = sources
      /\ observers' = observers /\ disposed' = disposed /\ batch_depth' = batch_depth
      /\ born' = born /\ over' = over /\ seen' = seen /\ fired' = fired
    BY DEF FlushAbort
<1>4. /\ s \in Seq(Frame) /\ In(frames) = In(s) \cup {f}
      /\ frames[1] = IF s = <<>> THEN f ELSE s[1]
      /\ Batches(s) \in Nat
      /\ Batches(frames) = Batches(s) + (IF f.kind = "batch" THEN 1 ELSE 0)
      /\ StackOK(s)
    BY <1>1, <1>2, TopFrame
<1> HIDE DEF s, f
<1>5. /\ \A e : IsRun(e)' <=> IsRun(e)
      /\ \A e : IsChecked(e)' <=> IsChecked(e)
      /\ \A m, o : Ahead(m, o)' <=> Ahead(m, o)
    BY <1>2, <1>4 DEF IsRun, IsChecked, Ahead
<1>6. In(pending') = {} /\ Len(pending') = 0
    BY <1>2, EmptyStack
<1>7. TypeInv'
    BY <1>1, <1>2, <1>3, <1>4 DEF TypeInv
<1>8. EdgeInv' /\ DisposalInv'
    BY <1>1, <1>3 DEF EdgeInv, DisposalInv
<1>9. FrameInv'
    BY <1>1, <1>2, <1>3, <1>4 DEF FrameInv, FrameOK, Fresh
<1>10. CompInv'
    BY <1>1, <1>3, <1>5 DEF CompInv, UpToDate, Fresh, ValueFits, Branch
<1>11. EffInv'
    BY <1>1, <1>3, <1>5 DEF EffInv, UpToDate, Fresh, Live
<1>12. QueueInv'
    BY <1>2, <1>6 DEF QueueInv
<1>13. FireInv'
    BY <1>1, <1>2, <1>3, <1>4, <1>5, <1>6 DEF FireInv
<1>14. BatchInv' /\ StackOK(frames')
    BY <1>1, <1>2, <1>3, <1>4 DEF BatchInv
<1>15. QED
    BY <1>7, <1>8, <1>9, <1>10, <1>11, <1>12, <1>13, <1>14 DEF IInv

(* A calm effect was up to date all through its run.                         *)
LEMMA ReturnStep ==
  ASSUME IInv, Return
  PROVE  IInv'
<1> DEFINE s == Front(frames)
           f == Last(frames)
<1>1. /\ TypeInv /\ EdgeInv /\ DisposalInv /\ StackOK(frames) /\ BatchInv /\ FrameInv
      /\ CompInv /\ EffInv /\ QueueInv /\ FireInv
      /\ In(pending) \subseteq Eff /\ Live \subseteq Eff
      /\ \A o \in Node : DOMAIN sources[o] \subseteq Readable
      /\ Node = Readable \cup Eff /\ Readable = Sig \cup Comp /\ Readable \cap Eff = {}
    BY Basics
<1>2. /\ frames # <<>> /\ f.kind = "run" /\ frames' = s
      /\ state' = [state EXCEPT ![f.node] = "clean"]
    BY DEF Return, On
<1>3. /\ version' = version /\ value' = value /\ sources' = sources
      /\ observers' = observers /\ disposed' = disposed /\ batch_depth' = batch_depth
      /\ born' = born /\ over' = over /\ seen' = seen /\ fired' = fired
      /\ pending' = pending /\ reported' = reported
    BY DEF Return
<1>4. /\ s \in Seq(Frame) /\ f \in Frame /\ In(frames) = In(s) \cup {f} /\ In(s) \subseteq Frame
      /\ frames[1] = IF s = <<>> THEN f ELSE s[1]
      /\ Batches(s) \in Nat
      /\ Batches(frames) = Batches(s) + (IF f.kind = "batch" THEN 1 ELSE 0)
      /\ StackOK(s) /\ Fits(s, f)
    BY <1>1, <1>2, TopFrame
<1>5. PICK d \in Eff : d = f.node
    BY <1>2, <1>4, FrameKinds
<1> HIDE DEF s, f
<1>6. \A h \in In(s) : h.kind \in {"run", "check"} => h.node # d
    BY <1>2, <1>4, <1>5 DEF Fits, Under
<1>7. /\ \A e : e # d => (IsRun(e)' <=> IsRun(e))
      /\ IsRun(d) /\ ~IsRun(d)'
      /\ \A e : IsChecked(e)' <=> IsChecked(e)
      /\ \A m, o : Ahead(m, o)' <=> Ahead(m, o)
    BY <1>2, <1>4, <1>5, <1>6 DEF IsRun, IsChecked, Ahead
<1>8. \A n \in Node : n # d => state'[n] = state[n]
    BY <1>1, <1>2, <1>5 DEF TypeInv
<1>9. state'[d] = "clean" /\ \A n \in Readable : n # d
    BY <1>1, <1>2, <1>5 DEF TypeInv
<1>10. TypeInv'
    BY <1>1, <1>2, <1>3, <1>4 DEF TypeInv, States
<1>11. EdgeInv' /\ DisposalInv'
    BY <1>1, <1>3, <1>8, <1>9 DEF EdgeInv, DisposalInv
<1>12. \A o \in Node, n \in Readable : Fresh(o, n)' <=> Fresh(o, n)
    BY <1>1, <1>3, <1>8, <1>9 DEF Fresh
<1>13. FrameInv'
  <2>1. SUFFICES ASSUME NEW h \in In(s) PROVE FrameOK(h)'
    BY <1>2 DEF FrameInv
  <2>2. FrameOK(h) /\ h \in Frame
    BY <1>1, <1>4 DEF FrameInv
  <2>3. CASE h.kind = "run"
    <3>1. h.node \in Node /\ h.node # d
      BY <1>1, <1>6, <2>2, <2>3, FrameKinds
    <3>2. QED
      BY <1>3, <1>8, <2>2, <2>3, <3>1 DEF FrameOK
  <2>4. CASE h.kind = "compute"
    <3>1. h.node \in Comp /\ h.node \in Readable /\ Prog[h.node].test \in Readable
      BY <1>1, <2>2, <2>4, FrameKinds, ProgramsLookBack DEF Deps
    <3>2. QED
      BY <1>1, <1>3, <1>8, <1>9, <1>12, <2>2, <2>4, <3>1 DEF FrameOK
  <2>5. CASE h.kind = "check"
    <3>1. h.node \in Node /\ h.node # d /\ DOMAIN sources[h.node] \subseteq Readable
      BY <1>1, <1>6, <2>2, <2>5, FrameKinds
    <3>2. QED
      BY <1>1, <1>3, <1>8, <1>12, <2>2, <2>5, <3>1 DEF FrameOK
  <2>6. CASE h.kind = "mark"
    BY <1>3, <2>2, <2>6 DEF FrameOK
  <2>7. CASE h.kind \in {"get", "flush", "batch"}
    BY <2>7 DEF FrameOK
  <2>8. QED
    BY <2>2, <2>3, <2>4, <2>5, <2>6, <2>7, FrameKinds
<1>14. \A o \in Node : UpToDate(o)' <=> UpToDate(o)
    BY <1>1, <1>3, <1>7, <1>12 DEF UpToDate
<1>15. CompInv'
    BY <1>1, <1>3, <1>8, <1>9, <1>14 DEF CompInv, ValueFits, Branch
<1>16. EffInv'
    BY <1>1, <1>3, <1>7, <1>8, <1>14 DEF EffInv, Live
<1>17. QueueInv'
  <2>1. Live' = Live
    BY <1>3 DEF Live
  <2>2. frames' = s /\ (pending # <<>> => \E h \in In(s) : h.kind \in {"flush", "batch", "mark"})
    BY <1>1, <1>2, <1>4 DEF QueueInv
  <2>3. \A e \in Live : e \in Node
    BY <1>1
  <2>4. QED
    BY <1>1, <1>3, <1>7, <1>8, <1>9, <2>1, <2>2, <2>3 DEF QueueInv
<1>18. FireInv'
    BY <1>1, <1>2, <1>3, <1>4, <1>7 DEF FireInv
<1>19. BatchInv' /\ StackOK(frames')
    BY <1>1, <1>2, <1>3, <1>4 DEF BatchInv
<1>20. QED
    BY <1>10, <1>11, <1>13, <1>15, <1>16, <1>17, <1>18, <1>19 DEF IInv

(* The edges when a node lets go of its sources.                             *)
LEMMA Unlinked ==
  ASSUME IInv, NEW d \in Node, UnlinkSources(d)
  PROVE  /\ sources' = [sources EXCEPT ![d] = NoSources]
         /\ sources'[d] = NoSources /\ DOMAIN sources'[d] = {}
         /\ \A o \in Node : o # d => sources'[o] = sources[o]
         /\ \A n, o \in Node : o # d => (o \in observers'[n] <=> o \in observers[n])
         /\ \A n \in Node : d \notin observers'[n]
         /\ observers' \in [Node -> SUBSET (Comp \cup Eff)]
         /\ DOMAIN sources' = Node
         /\ \A o \in Node : /\ DOMAIN sources'[o] \subseteq Readable
                            /\ sources'[o] \in [DOMAIN sources'[o] -> Nat]
         /\ \A n, o \in Node : o \in observers'[n] <=> n \in DOMAIN sources'[o]
<1>1. TypeInv /\ EdgeInv /\ \A o \in Node : DOMAIN sources[o] \subseteq Readable
    BY Basics
<1>2. /\ sources' = [sources EXCEPT ![d] = NoSources]
      /\ observers' = [s \in Node |-> IF s \in DOMAIN sources[d] THEN observers[s] \ {d}
                                      ELSE observers[s]]
    BY DEF UnlinkSources
<1>3. /\ sources'[d] = NoSources /\ DOMAIN sources' = Node
      /\ \A o \in Node : o # d => sources'[o] = sources[o]
    BY <1>1, <1>2 DEF TypeInv
<1>4. DOMAIN NoSources = {} /\ NoSources \in [{} -> Nat]
    BY DEF NoSources
<1>5. \A n, o \in Node : o # d => (o \in observers'[n] <=> o \in observers[n])
    BY <1>2
<1>6. \A n \in Node : d \notin observers'[n]
    BY <1>1, <1>2 DEF EdgeInv
<1>7. observers' \in [Node -> SUBSET (Comp \cup Eff)]
    BY <1>1, <1>2 DEF TypeInv
<1>8. \A o \in Node : /\ DOMAIN sources'[o] \subseteq Readable
                      /\ sources'[o] \in [DOMAIN sources'[o] -> Nat]
    BY <1>1, <1>3, <1>4 DEF TypeInv
<1>9. \A n, o \in Node : o \in observers'[n] <=> n \in DOMAIN sources'[o]
    BY <1>1, <1>3, <1>4, <1>5, <1>6 DEF EdgeInv
<1>10. QED
    BY <1>2, <1>3, <1>4, <1>5, <1>6, <1>7, <1>8, <1>9

(* A disposed effect lets go of its sources, and no claim is made of it      *)
(* any more, wherever it is queued or on the stack.                          *)
LEMMA DisposeEffectStep ==
  ASSUME IInv, NEW d \in Eff, DisposeEffect(d)
  PROVE  IInv'
<1>1. /\ TypeInv /\ EdgeInv /\ DisposalInv /\ StackOK(frames) /\ BatchInv /\ FrameInv
      /\ CompInv /\ EffInv /\ QueueInv /\ FireInv
      /\ In(pending) \subseteq Eff /\ Live \subseteq Eff
      /\ \A o \in Node : DOMAIN sources[o] \subseteq Readable
      /\ Node = Readable \cup Eff /\ Readable = Sig \cup Comp /\ Readable \cap Eff = {}
    BY Basics
<1>2. /\ UserCode /\ d \in born /\ d \notin disposed /\ disposed' = disposed \cup {d}
      /\ UnlinkSources(d) /\ state' = [state EXCEPT ![d] = "clean"]
    BY DEF DisposeEffect
<1>3. /\ version' = version /\ value' = value /\ frames' = frames /\ batch_depth' = batch_depth
      /\ born' = born /\ over' = over /\ seen' = seen /\ fired' = fired
      /\ pending' = pending /\ reported' = reported
    BY DEF DisposeEffect
<1>4. /\ DOMAIN sources'[d] = {}
      /\ \A o \in Node : o # d => sources'[o] = sources[o]
      /\ observers' \in [Node -> SUBSET (Comp \cup Eff)]
      /\ DOMAIN sources' = Node
      /\ \A o \in Node : /\ DOMAIN sources'[o] \subseteq Readable
                         /\ sources'[o] \in [DOMAIN sources'[o] -> Nat]
      /\ \A n, o \in Node : o \in observers'[n] <=> n \in DOMAIN sources'[o]
    BY <1>1, <1>2, Unlinked
<1>5. /\ \A n \in Node : n # d => state'[n] = state[n]
      /\ state'[d] = "clean" /\ \A n \in Readable : n # d /\ n \in Node
    BY <1>1, <1>2 DEF TypeInv
<1>6. /\ \A e : IsRun(e)' <=> IsRun(e)
      /\ \A e : IsChecked(e)' <=> IsChecked(e)
      /\ \A m, o : Ahead(m, o)' <=> Ahead(m, o)
    BY <1>3 DEF IsRun, IsChecked, Ahead
<1>7. TypeInv'
    BY <1>1, <1>2, <1>3, <1>4 DEF TypeInv, States
<1>8. EdgeInv'
  <2>1. \A c \in Comp : c \in Node /\ c # d
    BY <1>1, <1>5
  <2>2. \A e \in Eff : e \in Node
    BY <1>1
  <2>3. \A s \in Sig : s \in Node /\ s # d
    BY <1>1, <1>5
  <2>4. \A o \in Node : \A n \in DOMAIN sources'[o] : sources'[o][n] <= version'[n]
    BY <1>1, <1>3, <1>4 DEF EdgeInv
  <2>5. /\ \A c \in Comp : DOMAIN sources'[c] \subseteq Deps(c)
        /\ \A e \in Eff : DOMAIN sources'[e] \subseteq MayRead[e]
        /\ \A e \in Eff \ born' : DOMAIN sources'[e] = {}
        /\ \A s \in Sig : state'[s] = "clean" /\ value'[s] \in Value /\ DOMAIN sources'[s] = {}
    BY <1>1, <1>2, <1>3, <1>4, <1>5, <2>1, <2>2, <2>3 DEF EdgeInv
  <2>6. QED
    BY <1>4, <2>4, <2>5 DEF EdgeInv
<1>9. DisposalInv'
    BY <1>1, <1>2, <1>3 DEF DisposalInv
<1>10. FrameInv'
  <2>1. \A h \in In(frames) : h \in Frame /\ h.kind \in {"run", "batch", "flush"}
    BY <1>1, <1>2, UserStack
  <2>2. \A h \in In(frames) : h.kind = "run" => h.node \in Node
    BY <1>1, <2>1, FrameKinds
  <2>3. QED
    BY <1>1, <1>2, <1>3, <1>5, <2>1, <2>2 DEF FrameInv, FrameOK
<1>11. \A o \in Node : o # d => (UpToDate(o)' <=> UpToDate(o))
    BY <1>1, <1>3, <1>4, <1>5, <1>6 DEF UpToDate, Fresh
<1>12. CompInv'
  <2>1. \A c \in Comp : c \in Node /\ c # d /\ state'[c] = state[c] /\ sources'[c] = sources[c]
    BY <1>1, <1>4, <1>5
  <2>2. QED
    BY <1>1, <1>2, <1>3, <1>11, <2>1 DEF CompInv, ValueFits, Branch
<1>13. Live' = Live \ {d}
    BY <1>2, <1>3 DEF Live
<1>14. EffInv'
  <2>1. SUFFICES ASSUME NEW e \in Live, e # d
                 PROVE  /\ \A n \in Readable : seen'[e][n] # None => n \in DOMAIN sources'[e]
                        /\ \A n \in DOMAIN sources'[e] :
                              sources'[e][n] = version'[n] => seen'[e][n] = value'[n]
                        /\ e \in Calm /\ (state'[e] = "clean" \/ IsRun(e)') => UpToDate(e)'
    BY <1>13 DEF EffInv
  <2>2. e \in Node /\ sources'[e] = sources[e] /\ state'[e] = state[e]
    BY <1>1, <1>4, <1>5, <2>1
  <2>3. QED
    BY <1>1, <1>3, <1>6, <1>11, <2>1, <2>2 DEF EffInv
<1>15. QueueInv'
  <2>1. \A e \in Eff : e \in Node
    BY <1>1
  <2>2. QED
    BY <1>1, <1>2, <1>3, <1>5, <1>6, <1>13, <2>1 DEF QueueInv
<1>16. FireInv' /\ BatchInv' /\ StackOK(frames')
    BY <1>1, <1>3, <1>6 DEF FireInv, BatchInv
<1>17. QED
    BY <1>7, <1>8, <1>9, <1>10, <1>12, <1>14, <1>15, <1>16 DEF IInv

(* Every node is disposed while nothing runs.                                *)
LEMMA DisposeDomainStep ==
  ASSUME IInv, DisposeDomain
  PROVE  IInv'
<1>1. /\ TypeInv /\ EdgeInv /\ DisposalInv /\ StackOK(frames) /\ BatchInv /\ FrameInv
      /\ CompInv /\ EffInv /\ QueueInv /\ FireInv
      /\ \A o \in Node : DOMAIN sources[o] \subseteq Readable
      /\ Node = Readable \cup Eff /\ Readable = Sig \cup Comp /\ Readable \cap Eff = {}
    BY Basics
<1>2. /\ frames = <<>> /\ over' = TRUE /\ disposed' = Readable \cup born \cup disposed
      /\ state' = [n \in Node |-> IF n \in disposed' THEN "clean" ELSE state[n]]
      /\ sources' = [n \in Node |-> IF n \in disposed' THEN NoSources ELSE sources[n]]
      /\ observers' = [n \in Node |-> observers[n] \ disposed']
      /\ pending' = <<>>
    BY DEF DisposeDomain
<1>3. /\ version' = version /\ value' = value /\ frames' = frames /\ batch_depth' = batch_depth
      /\ born' = born /\ seen' = seen /\ fired' = fired /\ reported' = reported
    BY DEF DisposeDomain
<1>4. DOMAIN NoSources = {} /\ NoSources \in [{} -> Nat]
    BY DEF NoSources
<1>5. disposed' \subseteq Node
    BY <1>1, <1>2 DEF TypeInv
<1>6. /\ \A o \in Node : o \in disposed' => DOMAIN sources'[o] = {} /\ state'[o] = "clean"
      /\ \A o \in Node : o \notin disposed' => sources'[o] = sources[o] /\ state'[o] = state[o]
    BY <1>2, <1>4
<1>7. TypeInv'
  <2>1. state' \in [Node -> States] /\ observers' \in [Node -> SUBSET (Comp \cup Eff)]
    BY <1>1, <1>2 DEF TypeInv, States
  <2>2. \A o \in Node : /\ DOMAIN sources'[o] \subseteq Readable
                        /\ sources'[o] \in [DOMAIN sources'[o] -> Nat]
    BY <1>1, <1>2, <1>4 DEF TypeInv
  <2>3. DOMAIN sources' = Node /\ over' \in BOOLEAN /\ pending' \in Seq(Eff)
    BY <1>2
  <2>4. QED
    BY <1>1, <1>3, <1>5, <2>1, <2>2, <2>3 DEF TypeInv
<1>8. EdgeInv'
  <2>1. ASSUME NEW n \in Node, NEW o \in Node
        PROVE  o \in observers'[n] <=> n \in DOMAIN sources'[o]
    <3>1. o \in observers'[n] <=> o \in observers[n] /\ o \notin disposed'
      BY <1>2
    <3>2. o \in observers[n] <=> n \in DOMAIN sources[o]
      BY <1>1 DEF EdgeInv
    <3>3. QED
      BY <1>6, <3>1, <3>2
  <2>2. \A o \in Node : \A n \in DOMAIN sources'[o] : sources'[o][n] <= version'[n]
    BY <1>1, <1>3, <1>6 DEF EdgeInv
  <2>3. \A o \in Readable : o \in Node /\ DOMAIN sources'[o] = {} /\ state'[o] = "clean"
    BY <1>1, <1>2, <1>6
  <2>4. \A e \in Eff : e \in Node /\ DOMAIN sources'[e] \subseteq DOMAIN sources[e]
    BY <1>1, <1>6
  <2>5. \A y \in Sig : y \in Readable /\ value'[y] \in Value
    BY <1>1, <1>3 DEF EdgeInv
  <2>6. \A e \in Eff : DOMAIN sources'[e] \subseteq MayRead[e]
    BY <1>1, <2>4 DEF EdgeInv
  <2>7. \A e \in Eff \ born : DOMAIN sources'[e] = {}
    BY <1>1, <2>4 DEF EdgeInv
  <2>8. QED
    BY <1>1, <1>3, <2>1, <2>2, <2>3, <2>5, <2>6, <2>7 DEF EdgeInv
<1>9. DisposalInv'
    BY <1>1, <1>2, <1>3 DEF DisposalInv
<1>10. In(frames') = {} /\ In(pending') = {} /\ Len(pending') = 0
    BY <1>2, <1>3, EmptyStack
<1>11. FrameInv' /\ CompInv' /\ EffInv'
  <2>1. Live' = {} /\ (Comp \ disposed)' = {}
    BY <1>1, <1>2, <1>3 DEF Live
  <2>2. QED
    BY <1>10, <2>1 DEF FrameInv, CompInv, EffInv
<1>12. QueueInv'
  <2>1. Live' = {}
    BY <1>1, <1>2, <1>3 DEF Live
  <2>2. QED
    BY <1>2, <1>10, <2>1 DEF QueueInv
<1>13. FireInv'
    BY <1>1, <1>2, <1>3, <1>10 DEF FireInv, IsChecked
<1>14. BatchInv' /\ StackOK(frames')
    BY <1>1, <1>3 DEF BatchInv
<1>15. QED
    BY <1>7, <1>8, <1>9, <1>11, <1>12, <1>13, <1>14 DEF IInv

(* A write makes a version newer than all that was read of it, so all        *)
(* that read it is ahead of the walk that begins.                            *)
LEMMA SetStep ==
  ASSUME IInv, NEW s \in Sig, NEW v \in Value, Set(s, v)
  PROVE  IInv'
<1> DEFINE g == MarkFrame(s)
<1>1. /\ TypeInv /\ EdgeInv /\ DisposalInv /\ StackOK(frames) /\ BatchInv /\ FrameInv
      /\ CompInv /\ EffInv /\ QueueInv /\ FireInv
      /\ In(pending) \subseteq Eff /\ Live \subseteq Eff
      /\ \A o \in Node : DOMAIN sources[o] \subseteq Readable
      /\ Node = Readable \cup Eff /\ Readable = Sig \cup Comp /\ Readable \cap Eff = {}
      /\ Sig \cap Comp = {}
    BY Basics
<1>2. /\ UserCode /\ s \in May(Sig, MayWrite)
      /\ value' = [value EXCEPT ![s] = v] /\ version' = [version EXCEPT ![s] = @ + 1]
      /\ frames' = Append(frames, g) /\ fired' = Fired
    BY DEF Set
<1>3. /\ state' = state /\ sources' = sources /\ observers' = observers
      /\ disposed' = disposed /\ pending' = pending /\ batch_depth' = batch_depth
      /\ born' = born /\ over' = over /\ seen' = seen /\ reported' = reported
    BY DEF Set
<1>4. /\ g \in Frame /\ g.kind = "mark" /\ g.node = s /\ g.todo = observers[s]
    BY <1>1, NewFrames DEF MarkFrame
<1>5. Fits(frames, g)
    BY <1>1, <1>2, FitsUser
<1>6. frames \in Seq(Frame)
    BY <1>1 DEF TypeInv
<1> HIDE DEF g
<1>7. PushedOn(frames', frames, g)
    BY <1>2, <1>4, <1>6, Pushed
<1>8. /\ frames' \in Seq(Frame) /\ frames' # <<>> /\ In(frames') = In(frames) \cup {g}
      /\ frames'[1] = IF frames = <<>> THEN g ELSE frames[1]
      /\ Batches(frames') = Batches(frames) /\ StackOK(frames')
    BY <1>1, <1>4, <1>5, <1>7 DEF PushedOn
<1>9. /\ \A e : IsRun(e)' <=> IsRun(e)
      /\ \A e : IsChecked(e)' <=> IsChecked(e)
      /\ \A m, o : Ahead(m, o) => Ahead(m, o)'
      /\ \A o \in observers[s] : Ahead(s, o)'
    BY <1>4, <1>8 DEF IsRun, IsChecked, Ahead
<1>10. /\ \A n \in Readable : n # s => value'[n] = value[n]
       /\ \A n \in Node : n # s => version'[n] = version[n]
       /\ value'[s] = v /\ version'[s] = version[s] + 1 /\ version[s] \in Nat
       /\ \A n \in Node : version[n] \in Nat
    BY <1>1, <1>2 DEF TypeInv
<1>11. \A o \in Node : \A n \in DOMAIN sources[o] :
         sources[o][n] = version'[n] => n # s /\ sources[o][n] = version[n]
  <2>1. TAKE o \in Node
  <2>2. TAKE n \in DOMAIN sources[o]
  <2>3. sources[o][n] <= version[n] /\ n \in Node /\ sources[o][n] \in Nat
    BY <1>1 DEF EdgeInv, TypeInv
  <2>4. QED
    BY <1>10, <2>3
<1>12. TypeInv'
  <2>1. /\ version' \in [Node -> Nat] /\ value' \in [Readable -> Value \cup {None}]
    BY <1>1, <1>2 DEF TypeInv
  <2>2. fired' \in [Eff -> Nat]
    BY <1>1, <1>2, FiredFacts
  <2>3. QED
    BY <1>1, <1>3, <1>8, <2>1, <2>2 DEF TypeInv
<1>13. EdgeInv'
  <2>1. \A o \in Node : \A n \in DOMAIN sources[o] : sources[o][n] <= version'[n]
    <3>1. TAKE o \in Node
    <3>2. TAKE n \in DOMAIN sources[o]
    <3>3. sources[o][n] <= version[n] /\ n \in Node /\ sources[o][n] \in Nat
      BY <1>1 DEF EdgeInv, TypeInv
    <3>4. QED
      BY <1>10, <3>3
  <2>2. \A x \in Sig : value'[x] \in Value
    BY <1>1, <1>10 DEF EdgeInv
  <2>3. QED
    BY <1>1, <1>3, <2>1, <2>2 DEF EdgeInv
<1>14. DisposalInv'
    BY <1>1, <1>3 DEF DisposalInv
<1>15. FrameInv'
  <2>1. \A h \in In(frames) : h.kind \in {"run", "batch", "flush"}
    BY <1>1, <1>2, UserStack
  <2>2. QED
    BY <1>1, <1>3, <1>4, <1>8, <2>1 DEF FrameInv, FrameOK
<1>16. \A o \in Node : UpToDate(o) => UpToDate(o)'
  <2>1. SUFFICES ASSUME NEW o \in Node, UpToDate(o), NEW n \in DOMAIN sources[o]
                 PROVE  Ahead(n, o)' \/ Fresh(o, n)'
    BY <1>3 DEF UpToDate
  <2>2. n \in Node
    BY <1>1
  <2>3. CASE n = s
    <3>1. o \in observers[s]
      BY <1>1, <2>2, <2>3 DEF EdgeInv
    <3>2. QED
      BY <1>9, <2>3, <3>1
  <2>4. CASE n # s
    BY <1>3, <1>9, <1>10, <2>1, <2>2, <2>4 DEF UpToDate, Fresh
  <2>5. QED
    BY <2>3, <2>4
<1>17. CompInv'
  <2>1. SUFFICES ASSUME NEW c \in Comp \ disposed
                 PROVE  /\ state[c] = "clean" => UpToDate(c)'
                        /\ state[c] # "dirty" => ValueFits(c)'
    BY <1>3 DEF CompInv
  <2>2. c \in Node /\ c \in Readable /\ c # s
    BY <1>1
  <2>3. state[c] = "clean" => UpToDate(c)'
    BY <1>1, <1>16, <2>2 DEF CompInv
  <2>4. ASSUME state[c] # "dirty" PROVE ValueFits(c)'
    <3>1. ValueFits(c)
      BY <1>1, <2>4 DEF CompInv
    <3>2. Prog[c].test \in DOMAIN sources[c] /\ Prog[c].test \in Readable
      BY <1>1, <2>2, <3>1 DEF ValueFits
    <3>3. ASSUME sources[c][Prog[c].test] = version'[Prog[c].test]
          PROVE  /\ Branch(c)' = Branch(c) /\ Branch(c) \in DOMAIN sources[c]
                 /\ sources[c][Branch(c)] = version[Branch(c)] => value[c] = value[Branch(c)]
      <4>1. Prog[c].test # s /\ sources[c][Prog[c].test] = version[Prog[c].test]
        BY <1>11, <2>2, <3>2, <3>3
      <4>2. value'[Prog[c].test] = value[Prog[c].test]
        BY <1>10, <3>2, <4>1
      <4>3. QED
        BY <3>1, <4>1, <4>2 DEF ValueFits, Branch
    <3>4. ASSUME sources[c][Prog[c].test] = version'[Prog[c].test],
                 sources[c][Branch(c)] = version'[Branch(c)]
          PROVE  value'[c] = value'[Branch(c)]
      <4>1. Branch(c) \in DOMAIN sources[c] /\ Branch(c) \in Readable
        BY <1>1, <2>2, <3>3, <3>4
      <4>2. Branch(c) # s /\ sources[c][Branch(c)] = version[Branch(c)]
        BY <1>11, <2>2, <3>4, <4>1
      <4>3. QED
        BY <1>10, <2>2, <3>3, <3>4, <4>1, <4>2
    <3>5. QED
      BY <1>3, <3>2, <3>3, <3>4 DEF ValueFits
  <2>5. QED
    BY <2>3, <2>4
<1>18. EffInv'
  <2>1. SUFFICES ASSUME NEW e \in Live
                 PROVE  /\ \A n \in Readable : seen[e][n] # None => n \in DOMAIN sources[e]
                        /\ \A n \in DOMAIN sources[e] :
                              sources[e][n] = version'[n] => seen[e][n] = value'[n]
                        /\ e \in Calm /\ (state[e] = "clean" \/ IsRun(e)) => UpToDate(e)'
    BY <1>3, <1>9 DEF EffInv, Live
  <2>2. e \in Node
    BY <1>1
  <2>3. \A n \in DOMAIN sources[e] : sources[e][n] = version'[n] => seen[e][n] = value'[n]
    BY <1>1, <1>10, <1>11, <2>1, <2>2 DEF EffInv
  <2>4. QED
    BY <1>1, <1>16, <2>1, <2>2, <2>3 DEF EffInv
<1>19. QueueInv'
    BY <1>1, <1>3, <1>4, <1>8, <1>9 DEF QueueInv, Live
<1>20. FireInv'
    BY <1>1, <1>2, <1>3, <1>8, <1>9, FiredFacts DEF FireInv
<1>21. BatchInv' /\ StackOK(frames')
    BY <1>1, <1>3, <1>8 DEF BatchInv
<1>22. QED
    BY <1>12, <1>13, <1>14, <1>15, <1>17, <1>18, <1>19, <1>20, <1>21 DEF IInv

(* A new effect has no edges; it runs at once, above whoever created it.     *)
LEMMA NewEffectStep ==
  ASSUME IInv, NEW d \in Eff, NewEffect(d)
  PROVE  IInv'
<1> DEFINE g == RunFrame(d)
<1>1. /\ TypeInv /\ EdgeInv /\ DisposalInv /\ StackOK(frames) /\ BatchInv /\ FrameInv
      /\ CompInv /\ EffInv /\ QueueInv /\ FireInv
      /\ In(pending) \subseteq Eff /\ Live \subseteq Eff /\ In(frames) \subseteq Frame
      /\ \A o \in Node : DOMAIN sources[o] \subseteq Readable
      /\ Node = Readable \cup Eff /\ Readable = Sig \cup Comp /\ Readable \cap Eff = {}
    BY Basics
<1>2. /\ UserCode /\ d \in May(Eff, MayCreate) /\ d \notin born /\ ~over
      /\ born' = born \cup {d}
      /\ state' = [state EXCEPT ![d] = "dirty"] /\ UnlinkSources(d)
      /\ frames' = Append(frames, g) /\ fired' = Fired
      /\ seen' = [e \in Eff |-> IF e = d THEN [m \in Readable |-> None] ELSE seen[e]]
    BY DEF NewEffect, Recompute
<1>3. /\ version' = version /\ value' = value /\ disposed' = disposed /\ pending' = pending
      /\ batch_depth' = batch_depth /\ over' = over /\ reported' = reported
    BY DEF NewEffect
<1>4. /\ g \in Frame /\ g.kind = "run" /\ g.node = d
    BY <1>1, NewFrames DEF RunFrame
<1> HIDE DEF g
<1>5. ~IsRun(d) /\ ~IsChecked(d) /\ d \notin disposed /\ d \notin In(pending) /\ d \notin Live
  <2>1. ~IsRun(d)
    BY <1>1, <1>2 DEF IsRun, FrameInv, FrameOK
  <2>2. ~IsChecked(d)
    BY <1>1, <1>2 DEF IsChecked, FrameInv, FrameOK
  <2>3. QED
    BY <1>1, <1>2, <2>1, <2>2 DEF DisposalInv, QueueInv, Live
<1>6. Fits(frames, g)
    BY <1>1, <1>2, <1>5, FitsUser DEF g
<1>7. frames \in Seq(Frame)
    BY <1>1 DEF TypeInv
<1>8. PushedOn(frames', frames, g)
    BY <1>2, <1>4, <1>7, Pushed
<1>9. /\ frames' \in Seq(Frame) /\ frames' # <<>> /\ In(frames') = In(frames) \cup {g}
      /\ frames'[1] = IF frames = <<>> THEN g ELSE frames[1]
      /\ Batches(frames') = Batches(frames) /\ StackOK(frames')
    BY <1>1, <1>4, <1>6, <1>8 DEF PushedOn
<1>10. /\ \A e : IsRun(e)' <=> IsRun(e) \/ e = d
       /\ \A e : IsChecked(e)' <=> IsChecked(e)
       /\ \A m, o : Ahead(m, o)' <=> Ahead(m, o)
    BY <1>4, <1>9 DEF IsRun, IsChecked, Ahead
<1>11. /\ DOMAIN sources'[d] = {}
       /\ \A o \in Node : o # d => sources'[o] = sources[o]
       /\ observers' \in [Node -> SUBSET (Comp \cup Eff)]
       /\ DOMAIN sources' = Node
       /\ \A o \in Node : /\ DOMAIN sources'[o] \subseteq Readable
                          /\ sources'[o] \in [DOMAIN sources'[o] -> Nat]
       /\ \A n, o \in Node : o \in observers'[n] <=> n \in DOMAIN sources'[o]
    BY <1>1, <1>2, Unlinked
<1>12. /\ \A n \in Node : n # d => state'[n] = state[n]
       /\ state'[d] = "dirty" /\ \A n \in Readable : n # d /\ n \in Node
    BY <1>1, <1>2 DEF TypeInv
<1>13. /\ seen' \in [Eff -> [Readable -> Value \cup {None}]]
       /\ \A e \in Eff : e # d => seen'[e] = seen[e]
       /\ \A n \in Readable : seen'[d][n] = None
    BY <1>1, <1>2 DEF TypeInv
<1>14. TypeInv'
  <2>1. fired' \in [Eff -> Nat]
    BY <1>1, <1>2, FiredFacts
  <2>2. state' \in [Node -> States] /\ born' \subseteq Eff
    BY <1>1, <1>2 DEF TypeInv, States
  <2>3. QED
    BY <1>1, <1>3, <1>9, <1>11, <1>13, <2>1, <2>2 DEF TypeInv
<1>15. EdgeInv'
  <2>1. \A n \in Readable : n \in Node /\ n # d /\ sources'[n] = sources[n] /\ state'[n] = state[n]
    BY <1>1, <1>11, <1>12
  <2>2. \A e \in Eff : e \in Node
    BY <1>1
  <2>3. \A o \in Node : \A n \in DOMAIN sources'[o] : sources'[o][n] <= version'[n]
    BY <1>1, <1>3, <1>11 DEF EdgeInv
  <2>4. /\ \A c \in Comp : DOMAIN sources'[c] \subseteq Deps(c)
        /\ \A x \in Sig : state'[x] = "clean" /\ value'[x] \in Value /\ DOMAIN sources'[x] = {}
    BY <1>1, <1>3, <2>1 DEF EdgeInv
  <2>5. /\ \A e \in Eff : DOMAIN sources'[e] \subseteq MayRead[e]
        /\ \A e \in Eff \ born' : DOMAIN sources'[e] = {}
    BY <1>1, <1>2, <1>11, <2>2 DEF EdgeInv
  <2>6. QED
    BY <1>11, <2>3, <2>4, <2>5 DEF EdgeInv
<1>16. DisposalInv'
    BY <1>1, <1>2, <1>3 DEF DisposalInv
<1>17. FrameInv'
  <2>1. \A h \in In(frames) : h.kind \in {"run", "batch", "flush"} /\ h \in Frame
    BY <1>1, <1>2, UserStack
  <2>2. \A h \in In(frames) : h.kind = "run" => h.node \in Node /\ h.node # d
    BY <1>1, <1>5, <2>1, FrameKinds DEF IsRun
  <2>3. QED
    BY <1>1, <1>2, <1>3, <1>4, <1>9, <1>12, <2>1, <2>2 DEF FrameInv, FrameOK
<1>18. \A o \in Node : o # d => (UpToDate(o)' <=> UpToDate(o))
    BY <1>1, <1>3, <1>10, <1>11, <1>12 DEF UpToDate, Fresh
<1>19. CompInv'
  <2>1. \A c \in Comp : c \in Node /\ c # d /\ state'[c] = state[c] /\ sources'[c] = sources[c]
    BY <1>1, <1>11, <1>12
  <2>2. QED
    BY <1>1, <1>3, <1>18, <2>1 DEF CompInv, ValueFits, Branch
<1>20. Live' = Live \cup {d}
    BY <1>2, <1>3, <1>5 DEF Live
<1>21. EffInv'
  <2>1. ASSUME NEW e \in Live
        PROVE  /\ \A n \in Readable : seen'[e][n] # None => n \in DOMAIN sources'[e]
               /\ \A n \in DOMAIN sources'[e] :
                     sources'[e][n] = version'[n] => seen'[e][n] = value'[n]
               /\ e \in Calm /\ (state'[e] = "clean" \/ IsRun(e)') => UpToDate(e)'
    <3>1. /\ e \in Node /\ e \in Eff /\ e # d
          /\ sources'[e] = sources[e] /\ state'[e] = state[e] /\ seen'[e] = seen[e]
      BY <1>1, <1>5, <1>11, <1>12, <1>13, <2>1
    <3>2. QED
      BY <1>1, <1>3, <1>10, <1>18, <2>1, <3>1 DEF EffInv
  <2>2. /\ \A n \in Readable : seen'[d][n] = None
        /\ DOMAIN sources'[d] = {} /\ UpToDate(d)'
    BY <1>11, <1>13 DEF UpToDate
  <2>3. QED
    BY <1>20, <2>1, <2>2 DEF EffInv
<1>22. QueueInv'
  <2>1. \A e \in Eff : e \in Node
    BY <1>1
  <2>2. QED
    BY <1>1, <1>2, <1>3, <1>5, <1>9, <1>10, <1>12, <1>20, <2>1 DEF QueueInv
<1>23. FireInv'
    BY <1>1, <1>2, <1>3, <1>9, <1>10, FiredFacts DEF FireInv
<1>24. BatchInv' /\ StackOK(frames')
    BY <1>1, <1>3, <1>9 DEF BatchInv
<1>25. QED
    BY <1>14, <1>15, <1>16, <1>17, <1>19, <1>21, <1>22, <1>23, <1>24 DEF IInv

(* The marks that go out from a write never reach a calm effect that runs,   *)
(* nor, when an effect or a flush is behind the write, one nothing feeds.    *)
LEMMA MarksSpare ==
  ASSUME IInv, NEW s \in Seq(Frame), NEW f \in Frame, In(frames) = In(s) \cup {f},
         f.kind = "mark", Fits(s, f), NEW o \in observers[f.node], o \in Eff
  PROVE  /\ o \in born
         /\ o \in Unfed => \A h \in In(s) : h.kind \notin {"run", "flush"}
         /\ o \in Calm => ~IsRun(o)
<1>1. TypeInv /\ EdgeInv /\ Node = Readable \cup Eff
    BY Basics
<1>2. f.node \in DOMAIN sources[o]
    BY <1>1, FrameKinds DEF EdgeInv
<1>3. o \in born
    BY <1>1, <1>2 DEF EdgeInv
<1>4. f.node \in DependsOn[o]
    BY <1>1, <1>2, DependsOnFacts DEF EdgeInv
<1>5. ASSUME o \in Unfed, NEW h \in In(s) PROVE h.kind \notin {"run", "flush"}
    BY <1>4, <1>5 DEF Fits, Under
<1>6. ASSUME o \in Calm, IsRun(o) PROVE FALSE
  <2>1. PICK h \in In(frames) : h.kind = "run" /\ h.node = o
    BY <1>6 DEF IsRun
  <2>2. h \in In(s)
    BY <2>1
  <2>3. ~StartsNothing(o)
    BY <2>1, <2>2 DEF Fits, Under, Pulls
  <2>4. o \in Unfed
    BY <1>6, <2>3 DEF Calm, StartsNothing
  <2>5. QED
    BY <1>5, <2>1, <2>2, <2>4
<1>7. QED
    BY <1>3, <1>5, <1>6

(* The queue and one more effect.                                            *)
LEMMA Queued ==
  ASSUME NEW q \in Seq(Eff), NEW d \in Eff, d \notin In(q),
         \A i, j \in 1 .. Len(q) : q[i] = q[j] => i = j
  PROVE  /\ Append(q, d) \in Seq(Eff) /\ In(Append(q, d)) = In(q) \cup {d}
         /\ \A i, j \in 1 .. Len(Append(q, d)) : Append(q, d)[i] = Append(q, d)[j] => i = j
<1> DEFINE t == Append(q, d)
<1>1. /\ Len(q) \in Nat /\ Len(t) = Len(q) + 1 /\ t \in Seq(Eff)
      /\ \A i \in 1 .. Len(q) : t[i] = q[i]
      /\ t[Len(q) + 1] = d /\ In(t) = In(q) \cup {d}
    BY AppendFacts
<1> HIDE DEF t
<1>2. \A i \in 1 .. Len(q) : q[i] # d
    BY DEF In
<1>3. ASSUME NEW i \in 1 .. Len(t), NEW j \in 1 .. Len(t), t[i] = t[j] PROVE i = j
  <2>1. i \in 1 .. Len(q) \/ i = Len(q) + 1
    BY <1>1
  <2>2. j \in 1 .. Len(q) \/ j = Len(q) + 1
    BY <1>1
  <2>3. QED
    BY <1>1, <1>2, <1>3, <2>1, <2>2
<1>4. QED
    BY <1>1, <1>3 DEF t

(* The queue without its first effect.                                       *)
LEMMA Dequeued ==
  ASSUME NEW q \in Seq(Eff), q # <<>>,
         \A i, j \in 1 .. Len(q) : q[i] = q[j] => i = j
  PROVE  /\ Head(q) \in Eff /\ Tail(q) \in Seq(Eff)
         /\ In(q) = In(Tail(q)) \cup {Head(q)} /\ Head(q) \notin In(Tail(q))
         /\ \A i, j \in 1 .. Len(Tail(q)) : Tail(q)[i] = Tail(q)[j] => i = j
<1> DEFINE t == Tail(q)
<1>1. /\ Len(q) \in Nat /\ Len(q) >= 1
    BY LenProperties, EmptySeq
<1>2. /\ t \in Seq(Eff) /\ Head(q) \in Eff /\ Head(q) = q[1] /\ Len(t) = Len(q) - 1
      /\ \A i \in 1 .. Len(q) - 1 : t[i] = q[i + 1]
    BY <1>1, HeadTailProperties, ElementOfSeq
<1> HIDE DEF t
<1>3. In(q) = In(t) \cup {Head(q)}
  <2>1. ASSUME NEW i \in 1 .. Len(q) PROVE q[i] \in In(t) \cup {Head(q)}
    <3>1. CASE i = 1
      BY <1>2, <3>1
    <3>2. CASE i # 1
      <4>1. i - 1 \in 1 .. Len(t) /\ t[i - 1] = q[i]
        BY <1>1, <1>2, <3>2
      <4>2. QED
        BY <4>1 DEF In
    <3>3. QED
      BY <3>1, <3>2
  <2>2. ASSUME NEW i \in 1 .. Len(t) PROVE t[i] \in In(q)
    <3>1. i + 1 \in 1 .. Len(q) /\ t[i] = q[i + 1]
      BY <1>1, <1>2
    <3>2. QED
      BY <3>1 DEF In
  <2>3. Head(q) \in In(q)
    BY <1>1, <1>2 DEF In
  <2>4. QED
    BY <2>1, <2>2, <2>3 DEF In
<1>4. Head(q) \notin In(t)
  <2>1. SUFFICES ASSUME NEW i \in 1 .. Len(t), t[i] = Head(q) PROVE FALSE
    BY DEF In
  <2>2. i + 1 \in 1 .. Len(q) /\ 1 \in 1 .. Len(q) /\ q[i + 1] = q[1] /\ i + 1 # 1
    BY <1>1, <1>2, <2>1
  <2>3. QED
    BY <2>2
<1>5. ASSUME NEW i \in 1 .. Len(t), NEW j \in 1 .. Len(t), t[i] = t[j] PROVE i = j
  <2>1. i + 1 \in 1 .. Len(q) /\ j + 1 \in 1 .. Len(q) /\ q[i + 1] = q[j + 1]
    BY <1>1, <1>2, <1>5
  <2>2. i + 1 = j + 1
    BY <2>1
  <2>3. QED
    BY <2>2
<1>6. QED
    BY <1>2, <1>3, <1>4, <1>5 DEF t

(* The node that leaves CLEAN takes over the walk to its own observers.      *)
LEMMA MarkObserverStep ==
  ASSUME IInv, NEW o \in Node, MarkObserver(o)
  PROVE  IInv'
<1>1. /\ TypeInv /\ EdgeInv /\ DisposalInv /\ StackOK(frames) /\ BatchInv /\ FrameInv
      /\ CompInv /\ EffInv /\ QueueInv /\ FireInv
      /\ In(pending) \subseteq Eff /\ Live \subseteq Eff /\ In(frames) \subseteq Frame
      /\ \A x \in Node : DOMAIN sources[x] \subseteq Readable
      /\ Node = Readable \cup Eff /\ Readable = Sig \cup Comp /\ Readable \cap Eff = {}
      /\ Sig \cap Comp = {} /\ Sig \cap Eff = {} /\ Comp \cap Eff = {}
    BY Basics
<1>2. PICK s, f : s = Front(frames) /\ f = Last(frames)
    OBVIOUS
<1>3. PICK g : g = [f EXCEPT !.todo = @ \ {o}]
    OBVIOUS
<1>4. frames # <<>> /\ f.kind = "mark" /\ o \in f.todo
    BY <1>2 DEF MarkObserver, On
<1>5. /\ version' = version /\ value' = value /\ sources' = sources /\ observers' = observers
      /\ disposed' = disposed /\ batch_depth' = batch_depth /\ born' = born /\ over' = over
      /\ seen' = seen /\ fired' = fired /\ reported' = reported
    BY DEF MarkObserver
<1>6. /\ s \in Seq(Frame) /\ f \in Frame /\ In(frames) = In(s) \cup {f} /\ In(s) \subseteq Frame
      /\ frames[1] = IF s = <<>> THEN f ELSE s[1]
      /\ Batches(s) \in Nat
      /\ Batches(frames) = Batches(s) + (IF f.kind = "batch" THEN 1 ELSE 0)
      /\ StackOK(s) /\ Fits(s, f)
    BY <1>1, <1>2, <1>4, TopFrame
<1>7. g \in Frame /\ g.kind = "mark" /\ g.node = f.node /\ g.todo = f.todo \ {o}
  <2>1. f \in Frame /\ f.kind = "mark"
    BY <1>4, <1>6
  <2>2. QED
    BY <1>3, <2>1, MarkTurn, Zenon
<1>8. /\ f.todo \subseteq observers[f.node] /\ o \in observers[f.node] /\ f.node \in Node
      /\ o \in Comp \cup Eff /\ f.node \in DOMAIN sources[o]
  <2>1. f.todo \subseteq observers[f.node] /\ f.node \in Node
    BY <1>1, <1>4, <1>6, FrameKinds DEF FrameInv, FrameOK
  <2>2. QED
    BY <1>1, <1>4, <2>1 DEF TypeInv, EdgeInv
<1>9. PICK here : here = Append(s, g)
    OBVIOUS
<1>10. \/ /\ o \notin disposed /\ state[o] = "clean"
          /\ state' = [state EXCEPT ![o] = Mark(f.node)]
          /\ pending' = Scheduled(o, f.node)
          /\ frames' = Append(here, MarkFrame(o))
       \/ /\ o \notin disposed /\ state[o] # "clean"
          /\ state' = [state EXCEPT ![o] = IF f.node \in Sig THEN "dirty" ELSE @]
          /\ frames' = here /\ pending' = pending
       \/ /\ o \in disposed
          /\ frames' = here /\ state' = state /\ pending' = pending
    BY <1>2, <1>3, <1>9 DEF MarkObserver, Ignores
<1>11. Fits(s, g)
    BY <1>4, <1>6, <1>7, FitsAlike
<1>12. PushedOn(here, s, g)
    BY <1>6, <1>7, <1>9, Pushed
<1>13. /\ here \in Seq(Frame) /\ here # <<>> /\ In(here) = In(s) \cup {g} /\ Last(here) = g
       /\ here[1] = (IF s = <<>> THEN g ELSE s[1])
       /\ Batches(here) = Batches(s) /\ StackOK(here)
    BY <1>6, <1>7, <1>11, <1>12 DEF PushedOn
<1>14. batch_depth = Batches(s)
    BY <1>1, <1>4, <1>6 DEF BatchInv
<1>15. /\ frames' \in Seq(Frame) /\ StackOK(frames') /\ Batches(frames') = Batches(s)
       /\ frames'[1] = (IF s = <<>> THEN g ELSE s[1])
       /\ \/ In(frames') = In(s) \cup {g}
          \/ In(frames') = In(s) \cup {g, MarkFrame(o)}
       /\ o \notin disposed /\ state[o] = "clean" => In(frames') = In(s) \cup {g, MarkFrame(o)}
  <2>1. CASE frames' = here /\ ~(o \notin disposed /\ state[o] = "clean")
    BY <1>13, <2>1
  <2>2. CASE frames' = Append(here, MarkFrame(o))
    <3>1. MarkFrame(o) \in Frame /\ MarkFrame(o).kind = "mark"
      BY <1>1, NewFrames DEF MarkFrame
    <3>2. Fits(here, MarkFrame(o))
      BY <1>1, <1>4, <1>6, <1>7, <1>8, <1>13, FitsMark
    <3>3. PushedOn(frames', here, MarkFrame(o))
      BY <1>13, <2>2, <3>1, Pushed
    <3>4. QED
      BY <1>13, <3>1, <3>2, <3>3 DEF PushedOn
  <2>3. QED
    BY <1>10, <2>1, <2>2
<1>16. MarkFrame(o).kind = "mark" /\ MarkFrame(o).node = o /\ MarkFrame(o).todo = observers[o]
    BY DEF MarkFrame
<1>17. /\ \A e : IsRun(e)' <=> IsRun(e)
       /\ \A e : IsChecked(e)' <=> IsChecked(e)
    BY <1>4, <1>6, <1>7, <1>15, <1>16 DEF IsRun, IsChecked
<1>18. /\ \A n, x : Ahead(n, x) /\ x # o => Ahead(n, x)'
       /\ o \notin disposed /\ state[o] = "clean" => \A x \in observers[o] : Ahead(o, x)'
    BY <1>6, <1>7, <1>15, <1>16 DEF Ahead
<1>19. /\ \A n \in Node : n # o => state'[n] = state[n]
       /\ o \notin disposed => state'[o] # "clean"
       /\ state'[o] # "dirty" => state[o] # "dirty"
       /\ state[o] = "dirty" => state'[o] = "dirty"
       /\ state[o] # "clean" => state'[o] # "clean"
       /\ o \in disposed => state'[o] = state[o]
       /\ state' \in [Node -> States]
  <2>1. state \in [Node -> States] /\ Mark(f.node) \in {"check", "dirty"}
    BY <1>1 DEF TypeInv, Mark
  <2>2. CASE state' = [state EXCEPT ![o] = Mark(f.node)] /\ o \notin disposed /\ state[o] = "clean"
    BY <2>1, <2>2 DEF States
  <2>3. CASE /\ state' = [state EXCEPT ![o] = IF f.node \in Sig THEN "dirty" ELSE @]
             /\ o \notin disposed /\ state[o] # "clean"
    BY <2>1, <2>3 DEF States
  <2>4. CASE state' = state /\ o \in disposed
    BY <2>1, <2>4
  <2>5. QED
    BY <1>10, <2>2, <2>3, <2>4
<1>20. /\ pending' \in Seq(Eff) /\ In(pending) \subseteq In(pending')
       /\ In(pending') \subseteq In(pending) \cup {o}
       /\ o \in In(pending') /\ o \notin In(pending) =>
             o \in Eff /\ o \notin disposed /\ state[o] = "clean"
       /\ o \in Eff /\ o \notin disposed /\ state[o] = "clean" => o \in In(pending')
       /\ \A i, j \in 1 .. Len(pending') : pending'[i] = pending'[j] => i = j
  <2>1. pending \in Seq(Eff) /\ \A i, j \in 1 .. Len(pending) : pending[i] = pending[j] => i = j
    BY <1>1 DEF TypeInv, QueueInv
  <2>2. CASE o \notin disposed /\ state[o] = "clean" /\ o \in Eff
    <3>1. o \notin In(pending) /\ pending' = Append(pending, o)
      BY <1>1, <1>10, <2>2 DEF QueueInv, Scheduled
    <3>2. QED
      BY <2>1, <2>2, <3>1, Queued
  <2>3. CASE ~(o \notin disposed /\ state[o] = "clean" /\ o \in Eff)
    <3>1. pending' = pending
      BY <1>10, <2>3 DEF Scheduled
    <3>2. QED
      BY <2>1, <2>3, <3>1
  <2>4. QED
    BY <2>2, <2>3
<1>21. TypeInv'
    BY <1>1, <1>5, <1>15, <1>19, <1>20 DEF TypeInv
<1>22. EdgeInv' /\ DisposalInv'
  <2>1. \A x \in Sig : state'[x] = state[x]
    BY <1>1, <1>8, <1>19
  <2>2. QED
    BY <1>1, <1>5, <2>1 DEF EdgeInv, DisposalInv
<1>23. FrameInv'
  <2>1. ASSUME NEW h \in In(s) PROVE FrameOK(h)'
    <3>1. FrameOK(h) /\ h \in Frame /\ h.kind \notin {"check", "compute", "get"}
      BY <1>1, <1>4, <1>6 DEF FrameInv, Fits, Under, Pulls
    <3>2. CASE h.kind = "run"
      <4>1. h.node \in Node
        BY <1>1, <3>1, <3>2, FrameKinds
      <4>2. QED
        BY <1>5, <1>19, <3>1, <3>2, <4>1 DEF FrameOK
    <3>3. CASE h.kind # "run"
      BY <1>5, <3>1, <3>3 DEF FrameOK
    <3>4. QED
      BY <3>2, <3>3
  <2>2. FrameOK(g)'
    BY <1>5, <1>7, <1>8 DEF FrameOK
  <2>3. \A h : h = MarkFrame(o) => FrameOK(h)'
    BY <1>5, <1>16 DEF FrameOK
  <2>4. QED
    BY <1>15, <2>1, <2>2, <2>3 DEF FrameInv
<1>24. \A x \in Node : x # o /\ UpToDate(x) => UpToDate(x)'
  <2>1. SUFFICES ASSUME NEW x \in Node, x # o, UpToDate(x), NEW n \in DOMAIN sources[x]
                 PROVE  Ahead(n, x)' \/ Fresh(x, n)'
    BY <1>5 DEF UpToDate
  <2>2. n \in Node /\ x \in observers[n]
    BY <1>1 DEF EdgeInv
  <2>3. CASE Ahead(n, x)
    BY <1>18, <2>1, <2>3
  <2>4. CASE Fresh(x, n) /\ n # o
    BY <1>5, <1>19, <2>2, <2>4 DEF Fresh
  <2>5. CASE Fresh(x, n) /\ n = o /\ o \notin disposed
    BY <1>18, <2>2, <2>5 DEF Fresh
  <2>6. CASE Fresh(x, n) /\ n = o /\ o \in disposed
    BY <1>5, <1>19, <2>6 DEF Fresh
  <2>7. QED
    BY <2>1, <2>3, <2>4, <2>5, <2>6 DEF UpToDate
<1>25. CompInv'
  <2>1. SUFFICES ASSUME NEW c \in Comp \ disposed
                 PROVE  /\ state'[c] = "clean" => UpToDate(c)'
                        /\ state'[c] # "dirty" => ValueFits(c)'
    BY <1>5 DEF CompInv
  <2>2. c \in Node
    BY <1>1
  <2>3. state'[c] = "clean" => UpToDate(c)'
    BY <1>1, <1>19, <1>24, <2>2 DEF CompInv
  <2>4. state'[c] # "dirty" => state[c] # "dirty"
    BY <1>19, <2>2
  <2>5. state'[c] # "dirty" => ValueFits(c)'
    BY <1>1, <1>5, <2>4 DEF CompInv, ValueFits, Branch
  <2>6. QED
    BY <2>3, <2>5
<1>26. EffInv'
  <2>1. SUFFICES ASSUME NEW e \in Live
                 PROVE  /\ \A n \in Readable : seen[e][n] # None => n \in DOMAIN sources[e]
                        /\ \A n \in DOMAIN sources[e] :
                              sources[e][n] = version[n] => seen[e][n] = value[n]
                        /\ e \in Calm /\ (state'[e] = "clean" \/ IsRun(e)) => UpToDate(e)'
    BY <1>5, <1>17 DEF EffInv, Live
  <2>2. e \in Node /\ e \in Eff /\ e \notin disposed
    BY <1>1 DEF Live
  <2>3. ASSUME e \in Calm, state'[e] = "clean" \/ IsRun(e) PROVE UpToDate(e)'
    <3>1. e # o
      BY <1>4, <1>6, <1>8, <1>19, <2>2, <2>3, MarksSpare
    <3>2. UpToDate(e)
      BY <1>1, <1>19, <2>2, <2>3, <3>1 DEF EffInv
    <3>3. QED
      BY <1>24, <2>2, <3>1, <3>2
  <2>4. QED
    BY <1>1, <2>3 DEF EffInv
<1>27. QueueInv'
  <2>1. ASSUME NEW e \in In(pending')
        PROVE  e \in born /\ ~IsRun(e) /\ ~IsChecked(e) /\ (state'[e] # "clean" \/ e \in disposed)
    <3>1. CASE e \in In(pending)
      <4>1. e \in Node
        BY <1>1, <3>1
      <4>2. QED
        BY <1>1, <1>19, <3>1, <4>1 DEF QueueInv
    <3>2. CASE e \notin In(pending)
      <4>1. e = o /\ o \in Eff /\ o \notin disposed /\ state[o] = "clean"
        BY <1>20, <2>1, <3>2
      <4>2. o \in born
        BY <1>4, <1>6, <1>8, <4>1, MarksSpare
      <4>3. ~IsRun(o) /\ ~IsChecked(o)
        BY <1>1, <4>1 DEF IsRun, IsChecked, FrameInv, FrameOK
      <4>4. QED
        BY <1>19, <4>1, <4>2, <4>3
    <3>3. QED
      BY <3>1, <3>2
  <2>2. ASSUME NEW e \in Live, state'[e] # "clean"
        PROVE  e \in In(pending') \/ IsRun(e) \/ IsChecked(e) \/ reported
    <3>1. e \in Node /\ e \in Eff /\ e \notin disposed
      BY <1>1 DEF Live
    <3>2. CASE state[e] # "clean"
      BY <1>1, <1>20, <3>2 DEF QueueInv
    <3>3. CASE state[e] = "clean"
      <4>1. e = o
        BY <1>19, <2>2, <3>1, <3>3
      <4>2. QED
        BY <1>20, <3>1, <3>3, <4>1
    <3>4. QED
      BY <3>2, <3>3
  <2>3. \E h \in In(frames') : h.kind \in {"flush", "batch", "mark"}
    BY <1>7, <1>15
  <2>4. Live' = Live
    BY <1>5 DEF Live
  <2>5. QED
    BY <1>5, <1>17, <1>20, <2>1, <2>2, <2>3, <2>4 DEF QueueInv
<1>28. FireInv'
  <2>1. SUFFICES ASSUME NEW e \in Unfed, fired[e] = 1
                 PROVE  /\ e \notin In(pending') /\ ~IsChecked(e)
                        /\ frames' # <<>> => frames'[1].kind \in {"flush", "run", "get"}
    BY <1>1, <1>5, <1>17 DEF FireInv
  <2>2. /\ e \notin In(pending) /\ ~IsChecked(e)
        /\ frames[1].kind \in {"flush", "run", "get"}
    BY <1>1, <1>4, <2>1 DEF FireInv
  <2>3. s # <<>> /\ frames[1] = s[1] /\ s[1] \in In(s)
    <3>1. s # <<>>
      BY <1>4, <1>6, <2>2
    <3>2. 1 \in 1 .. Len(s)
      BY <1>6, <3>1, EmptySeq, LenProperties
    <3>3. QED
      BY <1>6, <3>1, <3>2 DEF In
  <2>4. s[1].kind \in {"flush", "run"}
    BY <1>4, <1>6, <2>2, <2>3 DEF Fits, Under, Pulls
  <2>5. e # o
    BY <1>4, <1>6, <1>8, <2>1, <2>3, <2>4, MarksSpare DEF Unfed
  <2>6. QED
    BY <1>15, <1>20, <2>2, <2>3, <2>4, <2>5
<1>29. BatchInv' /\ StackOK(frames')
    BY <1>5, <1>14, <1>15 DEF BatchInv
<1>30. QED
    BY <1>21, <1>22, <1>23, <1>25, <1>26, <1>27, <1>28, <1>29 DEF IInv

(* A frame that pulls has only frames of ever younger computeds, and no mark *)
(* and no other pull of its node, below.                                     *)
LEMMA BelowPull ==
  ASSUME NEW s \in Seq(Frame), In(s) \subseteq Frame, NEW g, Fits(s, g),
         g.kind \in Pulls, g.node \in Comp \cup Eff
  PROVE  /\ \A h \in In(s) : h.kind # "mark"
         /\ \A h \in In(s) : h.kind \in Pulls /\ h.node \in Comp => h.node # g.node
<1>1. \A h \in In(s) : h.kind # "mark"
    BY DEF Fits, Under, Pulls
<1>2. ASSUME NEW h \in In(s), h.kind \in Pulls, h.node \in Comp PROVE h.node # g.node
  <2>1. g.node \in Comp /\ Rank[g.node] < Rank[h.node]
    BY <1>2 DEF Fits, Under
  <2>2. Rank[h.node] \in Nat
    BY <1>2, ProgramsLookBack DEF Readable
  <2>3. QED
    BY <2>1, <2>2
<1>3. QED
    BY <1>1, <1>2

(* A stale node is checked or recomputed above the one that needs it; a      *)
(* recompute drops edges that only the node itself relied on.                *)
LEMMA PullStep ==
  ASSUME IInv, NEW c \in Readable, Pull(c)
  PROVE  IInv'
<1>1. /\ TypeInv /\ EdgeInv /\ DisposalInv /\ StackOK(frames) /\ BatchInv /\ FrameInv
      /\ CompInv /\ EffInv /\ QueueInv /\ FireInv
      /\ In(pending) \subseteq Eff /\ Live \subseteq Eff /\ In(frames) \subseteq Frame
      /\ \A o \in Node : DOMAIN sources[o] \subseteq Readable
      /\ Node = Readable \cup Eff /\ Readable = Sig \cup Comp /\ Readable \cap Eff = {}
      /\ Comp \cap Eff = {}
    BY Basics
<1>2. /\ frames # <<>> /\ c \in Wanted(Last(frames)) /\ Update(c, frames)
      /\ state[c] # "clean" /\ c \notin disposed
    BY DEF Pull, Update
<1>3. /\ state' = state /\ version' = version /\ value' = value /\ disposed' = disposed
      /\ pending' = pending /\ batch_depth' = batch_depth /\ born' = born /\ over' = over
      /\ reported' = reported
    BY DEF Pull
<1>4. c \in Comp /\ Fits(frames, CheckFrame(c)) /\ Fits(frames, ComputeFrame(c))
    BY <1>1, <1>2, FitsPull
<1>5. c \in Node /\ c \notin Eff /\ frames \in Seq(Frame)
    BY <1>1, <1>4 DEF TypeInv
<1>6. /\ CheckFrame(c) \in Frame /\ ComputeFrame(c) \in Frame
    BY <1>1, <1>4, NewFrames
<1>7. CASE state[c] = "check"
  <2> DEFINE g == CheckFrame(c)
  <2>1. /\ g.kind = "check" /\ g.node = c /\ g.todo = DOMAIN sources[c]
        /\ g.verdict = "clean"
    BY DEF CheckFrame
  <2>2. /\ frames' = Append(frames, g)
        /\ UNCHANGED <<sources, observers, seen, fired>>
    BY <1>2, <1>7 DEF Update
  <2> HIDE DEF g
  <2>3. PushedOn(frames', frames, g)
    BY <1>5, <1>6, <2>2, Pushed DEF g
  <2>4. /\ frames' \in Seq(Frame) /\ frames' # <<>> /\ In(frames') = In(frames) \cup {g}
        /\ frames'[1] = frames[1]
        /\ Batches(frames') = Batches(frames) /\ StackOK(frames')
    BY <1>1, <1>2, <1>4, <2>1, <2>3 DEF PushedOn, g
  <2>5. /\ \A e \in Eff : IsRun(e)' <=> IsRun(e)
        /\ \A e \in Eff : IsChecked(e)' <=> IsChecked(e)
        /\ \A m, o : Ahead(m, o)' <=> Ahead(m, o)
    BY <1>5, <2>1, <2>4 DEF IsRun, IsChecked, Ahead
  <2>6. \A h \in In(frames') : FrameOK(h)
    BY <1>1, <1>2, <1>5, <1>7, <2>1, <2>4 DEF FrameInv, FrameOK
  <2>7. FireInv' /\ fired' \in [Eff -> Nat]
    BY <1>1, <1>2, <1>3, <2>2, <2>4, <2>5 DEF FireInv, TypeInv, Unfed
  <2>8. batch_depth' \in Nat /\ batch_depth' = Batches(frames')
    BY <1>1, <1>3, <2>4 DEF BatchInv, TypeInv
  <2>9. pending # <<>> => \E h \in In(frames') : h.kind \in {"flush", "batch", "mark"}
    BY <1>1, <2>4 DEF QueueInv
  <2>10. UNCHANGED <<graph, born, over, seen, reported>>
    BY <1>3, <2>2 DEF graph
  <2>11. QED
    BY <2>4, <2>5, <2>6, <2>7, <2>8, <2>9, <2>10, StackStep
<1>8. CASE state[c] = "dirty"
  <2> DEFINE g == ComputeFrame(c)
  <2>1. g.kind = "compute" /\ g.node = c /\ g.at = "test"
    BY DEF ComputeFrame
  <2>2. /\ frames' = Append(frames, g) /\ UnlinkSources(c)
    BY <1>2, <1>5, <1>8 DEF Update, Recompute
  <2>3. seen' = seen /\ fired' = fired
    BY <1>1, <1>2, <1>5, <1>8 DEF Update, Recompute, Ran, TypeInv
  <2> HIDE DEF g
  <2>4. PushedOn(frames', frames, g)
    BY <1>5, <1>6, <2>2, Pushed DEF g
  <2>5. /\ frames' \in Seq(Frame) /\ frames' # <<>> /\ In(frames') = In(frames) \cup {g}
        /\ frames'[1] = frames[1]
        /\ Batches(frames') = Batches(frames) /\ StackOK(frames')
    BY <1>1, <1>2, <1>4, <2>1, <2>4 DEF PushedOn, g
  <2>6. /\ \A h \in In(frames) : h.kind # "mark"
        /\ \A h \in In(frames) : h.kind \in Pulls /\ h.node \in Comp => h.node # c
    BY <1>1, <1>4, <1>5, <2>1, BelowPull DEF g, Pulls
  <2>7. /\ \A e : IsRun(e)' <=> IsRun(e)
        /\ \A e : IsChecked(e)' <=> IsChecked(e)
        /\ \A m, o : Ahead(m, o)' <=> Ahead(m, o)
    BY <2>1, <2>5 DEF IsRun, IsChecked, Ahead
  <2>8. /\ DOMAIN sources'[c] = {}
        /\ \A o \in Node : o # c => sources'[o] = sources[o]
        /\ observers' \in [Node -> SUBSET (Comp \cup Eff)]
        /\ DOMAIN sources' = Node
        /\ \A o \in Node : /\ DOMAIN sources'[o] \subseteq Readable
                           /\ sources'[o] \in [DOMAIN sources'[o] -> Nat]
        /\ \A n, o \in Node : o \in observers'[n] <=> n \in DOMAIN sources'[o]
    BY <1>5, <2>2, Unlinked
  <2>9. TypeInv'
    BY <1>1, <1>3, <2>3, <2>5, <2>8 DEF TypeInv
  <2>10. EdgeInv'
    <3>1. \A x \in Comp : DOMAIN sources'[x] \subseteq Deps(x)
      BY <1>1, <2>8 DEF EdgeInv
    <3>2. \A e \in Eff : e \in Node /\ sources'[e] = sources[e]
      BY <1>1, <1>5, <2>8
    <3>3. \A x \in Sig : DOMAIN sources'[x] = {}
      BY <1>1, <2>8 DEF EdgeInv
    <3>4. \A o \in Node : \A n \in DOMAIN sources'[o] : sources'[o][n] <= version'[n]
      BY <1>1, <1>3, <2>8 DEF EdgeInv
    <3>5. QED
      BY <1>1, <1>3, <2>8, <3>1, <3>2, <3>3, <3>4 DEF EdgeInv
  <2>11. DisposalInv'
    BY <1>1, <1>3 DEF DisposalInv
  <2>12. FrameInv'
    <3>1. \A h : h = g => FrameOK(h)'
      BY <1>2, <1>3, <1>8, <2>1, <2>8 DEF FrameOK
    <3>2. ASSUME NEW h \in In(frames) PROVE FrameOK(h)'
      <4>1. FrameOK(h) /\ h \in Frame /\ h.kind # "mark"
        BY <1>1, <2>6 DEF FrameInv
      <4>2. CASE h.kind \in Pulls
        <5>1. h.node \in Node /\ h.node # c
          BY <1>1, <1>5, <2>6, <4>1, <4>2, FrameKinds DEF Pulls
        <5>2. sources'[h.node] = sources[h.node]
          BY <2>8, <5>1
        <5>3. QED
          BY <1>3, <4>1, <4>2, <5>2 DEF FrameOK, Fresh
      <4>3. CASE h.kind \notin Pulls
        BY <1>3, <4>1, <4>3 DEF FrameOK, Pulls
      <4>4. QED
        BY <4>2, <4>3
    <3>3. QED
      BY <2>5, <3>1, <3>2 DEF FrameInv
  <2>13. \A o \in Node : o # c => (UpToDate(o)' <=> UpToDate(o))
    BY <1>3, <2>7, <2>8 DEF UpToDate, Fresh
  <2>14. CompInv'
    <3>1. \A x \in Comp : x # c => x \in Node /\ sources'[x] = sources[x]
      BY <1>1, <2>8
    <3>2. QED
      BY <1>1, <1>3, <1>8, <2>13, <3>1 DEF CompInv, ValueFits, Branch
  <2>15. EffInv'
    <3>1. \A e \in Eff : e \in Node /\ e # c /\ sources'[e] = sources[e]
      BY <1>1, <1>5, <2>8
    <3>2. QED
      BY <1>1, <1>3, <2>3, <2>7, <2>13, <3>1 DEF EffInv, Live
  <2>16. QueueInv'
    BY <1>1, <1>3, <2>5, <2>7 DEF QueueInv, Live
  <2>17. FireInv'
    BY <1>1, <1>2, <1>3, <2>3, <2>5, <2>7 DEF FireInv
  <2>18. BatchInv' /\ StackOK(frames')
    BY <1>1, <1>3, <2>5 DEF BatchInv
  <2>19. QED
    BY <2>9, <2>10, <2>11, <2>12, <2>14, <2>15, <2>16, <2>17, <2>18 DEF IInv
<1>9. QED
    BY <1>2, <1>7, <1>8 DEF Update

(* A flush has only runs and flushes below.                                  *)
LEMMA BelowFlush ==
  ASSUME NEW s \in Seq(Frame), In(s) \subseteq Frame, NEW f, Fits(s, f), f.kind = "flush"
  PROVE  /\ \A h \in In(s) : h.kind \in {"run", "flush"}
         /\ s # <<>> => s[1] \in In(s)
<1>1. ASSUME NEW h \in In(s) PROVE h.kind \in {"run", "flush"}
  <2>1. Under(h, f) /\ h.kind \in {"run", "compute", "check", "mark", "get", "flush", "batch"}
    BY FrameKinds DEF Fits
  <2>2. QED
    BY <2>1 DEF Under, Pulls
<1>2. ASSUME s # <<>> PROVE s[1] \in In(s)
  <2>1. 1 \in 1 .. Len(s)
    BY <1>2, EmptySeq, LenProperties
  <2>2. QED
    BY <2>1 DEF In
<1>3. QED
    BY <1>1, <1>2

(* The first of the queue is run, checked or passed over; it leaves the      *)
(* queue only to be on the stack, clean or disposed.                         *)
LEMMA FlushNextStep ==
  ASSUME IInv, FlushNext
  PROVE  IInv'
<1>1. /\ TypeInv /\ EdgeInv /\ DisposalInv /\ StackOK(frames) /\ BatchInv /\ FrameInv
      /\ CompInv /\ EffInv /\ QueueInv /\ FireInv
      /\ In(pending) \subseteq Eff /\ Live \subseteq Eff /\ In(frames) \subseteq Frame
      /\ \A o \in Node : DOMAIN sources[o] \subseteq Readable
      /\ Node = Readable \cup Eff /\ Readable = Sig \cup Comp /\ Readable \cap Eff = {}
      /\ Comp \cap Eff = {}
    BY Basics
<1>2. PICK s, f : s = Front(frames) /\ f = Last(frames)
    OBVIOUS
<1>3. PICK g : g = [f EXCEPT !.guard = @ + 1]
    OBVIOUS
<1>4. PICK here : here = Append(s, g)
    OBVIOUS
<1>5. PICK d : d = Head(pending)
    OBVIOUS
<1>6. /\ frames # <<>> /\ f.kind = "flush" /\ pending # <<>> /\ pending' = Tail(pending)
      /\ \/ Update(d, here) /\ state' = state
         \/ /\ state[d] = "clean" \/ d \in disposed
            /\ state' = [state EXCEPT ![d] = "clean"]
            /\ frames' = here
            /\ UNCHANGED <<sources, observers, seen, fired>>
    BY <1>2, <1>3, <1>4, <1>5 DEF FlushNext, On
<1>7. /\ version' = version /\ value' = value /\ disposed' = disposed
      /\ batch_depth' = batch_depth /\ born' = born /\ over' = over /\ reported' = reported
    BY DEF FlushNext
<1>8. /\ s \in Seq(Frame) /\ f \in Frame /\ In(frames) = In(s) \cup {f} /\ In(s) \subseteq Frame
      /\ frames[1] = IF s = <<>> THEN f ELSE s[1]
      /\ Batches(s) \in Nat
      /\ Batches(frames) = Batches(s) + (IF f.kind = "batch" THEN 1 ELSE 0)
      /\ StackOK(s) /\ Fits(s, f)
    BY <1>1, <1>2, <1>6, TopFrame
<1>9. g \in Frame /\ g.kind = "flush"
  <2>1. f \in Frame /\ f.kind = "flush"
    BY <1>6, <1>8
  <2>2. QED
    BY <1>3, <2>1, FlushTurn, Zenon
<1>10. Fits(s, g)
    BY <1>6, <1>8, <1>9, FitsAlike
<1>11. PushedOn(here, s, g)
    BY <1>4, <1>8, <1>9, Pushed
<1>12. /\ here \in Seq(Frame) /\ here # <<>> /\ In(here) = In(s) \cup {g} /\ Last(here) = g
       /\ here[1] = (IF s = <<>> THEN g ELSE s[1])
       /\ Batches(here) = Batches(s) /\ StackOK(here)
    BY <1>8, <1>9, <1>10, <1>11 DEF PushedOn
<1>13. batch_depth = Batches(s)
    BY <1>1, <1>6, <1>8 DEF BatchInv
<1>14. /\ \A h \in In(s) : h.kind \in {"run", "flush"}
       /\ s # <<>> => s[1] \in In(s)
    BY <1>6, <1>8, BelowFlush
<1>15. /\ d \in Eff /\ pending' \in Seq(Eff)
       /\ In(pending) = In(pending') \cup {d} /\ d \notin In(pending')
       /\ \A i, j \in 1 .. Len(pending') : pending'[i] = pending'[j] => i = j
    BY <1>1, <1>5, <1>6, Dequeued DEF TypeInv, QueueInv
<1>16. /\ d \in Node /\ d \in born /\ ~IsRun(d) /\ ~IsChecked(d)
       /\ state[d] # "clean" \/ d \in disposed
    BY <1>1, <1>15 DEF QueueInv
<1>17. \A e \in Unfed : fired[e] \in Nat /\ fired[e] <= 1 /\ (e = d => fired[e] = 0)
  <2>1. \A e \in Unfed : fired[e] \in Nat /\ fired[e] <= 1
    BY <1>1 DEF FireInv, TypeInv, Unfed
  <2>2. d \in Unfed => fired[d] # 1
    BY <1>1, <1>15 DEF FireInv
  <2>3. QED
    BY <2>1, <2>2
<1>18. here[1].kind \in {"flush", "run", "get"}
    BY <1>9, <1>12, <1>14
<1>19. \A m, o : ~Ahead(m, o)
    BY <1>6, <1>8, <1>14 DEF Ahead
<1>20. \A h \in In(s) : h.kind = "run" => h.node \in Eff /\ h.node # d /\ FrameOK(h)
    BY <1>1, <1>8, <1>16, FrameKinds DEF IsRun, FrameInv
<1>21. CASE d \notin disposed /\ state[d] = "check" /\ Update(d, here) /\ state' = state
  <2> DEFINE k == CheckFrame(d)
  <2>1. /\ k \in Frame /\ k.kind = "check" /\ k.node = d /\ k.todo = DOMAIN sources[d]
        /\ k.verdict = "clean"
    BY <1>1, <1>15, NewFrames DEF CheckFrame
  <2>2. frames' = Append(here, k)
    BY <1>21 DEF Update
  <2>3. sources' = sources /\ observers' = observers /\ seen' = seen /\ fired' = fired
    BY <1>21 DEF Update
  <2> HIDE DEF k
  <2>4. Fits(here, k)
    <3>1. /\ s \in Seq(Frame) /\ f \in Frame /\ f.kind = "flush" /\ Fits(s, f)
          /\ d \in Eff /\ ~IsRun(d) /\ ~IsChecked(d) /\ In(s) \subseteq In(frames)
          /\ g.kind = "flush" /\ here # <<>> /\ In(here) = In(s) \cup {g} /\ Last(here) = g
          /\ k.kind \in {"run", "check"} /\ k.node = d
      BY <1>6, <1>8, <1>9, <1>12, <1>15, <1>16, <2>1
    <3>2. QED
      BY <3>1, FitsNext
  <2>5. PushedOn(frames', here, k)
    BY <1>12, <2>1, <2>2, Pushed
  <2>6. /\ frames' \in Seq(Frame) /\ frames' # <<>> /\ In(frames') = In(s) \cup {g, k}
        /\ frames'[1] = here[1]
        /\ Batches(frames') = Batches(s) /\ StackOK(frames')
    BY <1>12, <2>1, <2>4, <2>5 DEF PushedOn
  <2>7. /\ \A e : IsRun(e)' <=> IsRun(e)
        /\ \A e : IsChecked(e)' <=> IsChecked(e) \/ e = d
        /\ \A m, o : ~Ahead(m, o)'
    BY <1>6, <1>8, <1>9, <1>14, <2>1, <2>6 DEF IsRun, IsChecked, Ahead
  <2>8. TypeInv'
    BY <1>1, <1>7, <1>15, <1>21, <2>3, <2>6 DEF TypeInv
  <2>9. EdgeInv' /\ DisposalInv'
    BY <1>1, <1>7, <1>21, <2>3 DEF EdgeInv, DisposalInv
  <2>10. FrameInv'
    <3>1. \A h : h = k => FrameOK(h)'
      BY <1>7, <1>16, <1>21, <2>1, <2>3 DEF FrameOK
    <3>2. FrameOK(g)' /\ \A h \in In(s) : FrameOK(h)'
      BY <1>7, <1>9, <1>14, <1>20, <1>21 DEF FrameOK
    <3>3. QED
      BY <2>6, <3>1, <3>2 DEF FrameInv
  <2>11. \A o : UpToDate(o)' <=> UpToDate(o)
    BY <1>7, <1>19, <1>21, <2>3, <2>7 DEF UpToDate, Fresh
  <2>12. CompInv' /\ EffInv'
    BY <1>1, <1>7, <1>21, <2>3, <2>7, <2>11 DEF CompInv, ValueFits, Branch, EffInv, Live
  <2>13. QueueInv'
    <3>1. Live' = Live /\ reported' = reported /\ state' = state
      BY <1>7, <1>21 DEF Live
    <3>2. \E h \in In(frames') : h.kind \in {"flush", "batch", "mark"}
      BY <1>9, <2>6
    <3>3. QED
      BY <1>1, <1>7, <1>15, <2>7, <3>1, <3>2 DEF QueueInv
  <2>14. FireInv'
    BY <1>1, <1>15, <1>17, <1>18, <2>3, <2>6, <2>7 DEF FireInv
  <2>15. BatchInv' /\ StackOK(frames')
    BY <1>7, <1>13, <2>6 DEF BatchInv
  <2>16. QED
    BY <2>8, <2>9, <2>10, <2>12, <2>13, <2>14, <2>15 DEF IInv
<1>22. CASE d \notin disposed /\ state[d] = "dirty" /\ Update(d, here) /\ state' = state
  <2> DEFINE k == RunFrame(d)
  <2>1. k \in Frame /\ k.kind = "run" /\ k.node = d
    BY <1>1, <1>15, NewFrames DEF RunFrame
  <2>2. /\ frames' = Append(here, k) /\ UnlinkSources(d) /\ fired' = Ran(d)
        /\ seen' = [e \in Eff |-> IF e = d THEN [m \in Readable |-> None] ELSE seen[e]]
    BY <1>15, <1>22 DEF Update, Recompute
  <2> HIDE DEF k
  <2>3. Fits(here, k)
    <3>1. /\ s \in Seq(Frame) /\ f \in Frame /\ f.kind = "flush" /\ Fits(s, f)
          /\ d \in Eff /\ ~IsRun(d) /\ ~IsChecked(d) /\ In(s) \subseteq In(frames)
          /\ g.kind = "flush" /\ here # <<>> /\ In(here) = In(s) \cup {g} /\ Last(here) = g
          /\ k.kind \in {"run", "check"} /\ k.node = d
      BY <1>6, <1>8, <1>9, <1>12, <1>15, <1>16, <2>1
    <3>2. QED
      BY <3>1, FitsNext
  <2>4. PushedOn(frames', here, k)
    BY <1>12, <2>1, <2>2, Pushed
  <2>5. /\ frames' \in Seq(Frame) /\ frames' # <<>> /\ In(frames') = In(s) \cup {g, k}
        /\ frames'[1] = here[1]
        /\ Batches(frames') = Batches(s) /\ StackOK(frames')
    BY <1>12, <2>1, <2>3, <2>4 DEF PushedOn
  <2>6. /\ \A e : IsRun(e)' <=> IsRun(e) \/ e = d
        /\ \A e : IsChecked(e)' <=> IsChecked(e)
        /\ \A m, o : ~Ahead(m, o)'
    BY <1>6, <1>8, <1>9, <1>14, <2>1, <2>5 DEF IsRun, IsChecked, Ahead
  <2>7. /\ DOMAIN sources'[d] = {}
        /\ \A o \in Node : o # d => sources'[o] = sources[o]
        /\ observers' \in [Node -> SUBSET (Comp \cup Eff)]
        /\ DOMAIN sources' = Node
        /\ \A o \in Node : /\ DOMAIN sources'[o] \subseteq Readable
                           /\ sources'[o] \in [DOMAIN sources'[o] -> Nat]
        /\ \A n, o \in Node : o \in observers'[n] <=> n \in DOMAIN sources'[o]
    BY <1>16, <2>2, Unlinked
  <2>8. /\ seen' \in [Eff -> [Readable -> Value \cup {None}]]
        /\ \A e \in Eff : e # d => seen'[e] = seen[e]
        /\ \A n \in Readable : seen'[d][n] = None
    BY <1>1, <1>15, <2>2 DEF TypeInv
  <2>9. /\ fired' \in [Eff -> Nat]
        /\ \A e \in Eff : e # d => fired'[e] = fired[e]
        /\ fired'[d] = fired[d] + 1
    BY <1>1, <1>15, <2>2 DEF TypeInv, Ran
  <2>10. TypeInv'
    BY <1>1, <1>7, <1>15, <1>22, <2>5, <2>7, <2>8, <2>9 DEF TypeInv
  <2>11. EdgeInv'
    <3>1. \A n \in Readable : n \in Node /\ n # d /\ sources'[n] = sources[n]
      BY <1>1, <1>15, <2>7
    <3>2. \A e \in Eff : e \in Node
      BY <1>1
    <3>3. \A o \in Node : \A n \in DOMAIN sources'[o] : sources'[o][n] <= version'[n]
      BY <1>1, <1>7, <2>7 DEF EdgeInv
    <3>4. /\ \A c \in Comp : DOMAIN sources'[c] \subseteq Deps(c)
          /\ \A x \in Sig : state'[x] = "clean" /\ value'[x] \in Value /\ DOMAIN sources'[x] = {}
      BY <1>1, <1>7, <1>22, <3>1 DEF EdgeInv
    <3>5. /\ \A e \in Eff : DOMAIN sources'[e] \subseteq MayRead[e]
          /\ \A e \in Eff \ born' : DOMAIN sources'[e] = {}
      BY <1>1, <1>7, <2>7, <3>2 DEF EdgeInv
    <3>6. QED
      BY <2>7, <3>3, <3>4, <3>5 DEF EdgeInv
  <2>12. DisposalInv'
    BY <1>1, <1>7 DEF DisposalInv
  <2>13. FrameInv'
    <3>1. \A h : h = k => FrameOK(h)'
      BY <1>7, <1>16, <1>22, <2>1 DEF FrameOK
    <3>2. FrameOK(g)' /\ \A h \in In(s) : FrameOK(h)'
      BY <1>7, <1>9, <1>14, <1>20, <1>22 DEF FrameOK
    <3>3. QED
      BY <2>5, <3>1, <3>2 DEF FrameInv
  <2>14. \A o \in Node : o # d => (UpToDate(o)' <=> UpToDate(o))
    BY <1>7, <1>19, <1>22, <2>6, <2>7 DEF UpToDate, Fresh
  <2>15. CompInv'
    <3>1. \A c \in Comp : c \in Node /\ c # d /\ sources'[c] = sources[c]
      BY <1>1, <1>15, <2>7
    <3>2. QED
      BY <1>1, <1>7, <1>22, <2>14, <3>1 DEF CompInv, ValueFits, Branch
  <2>16. EffInv'
    <3>1. ASSUME NEW e \in Live, e # d
          PROVE  /\ \A n \in Readable : seen'[e][n] # None => n \in DOMAIN sources'[e]
                 /\ \A n \in DOMAIN sources'[e] :
                       sources'[e][n] = version'[n] => seen'[e][n] = value'[n]
                 /\ e \in Calm /\ (state'[e] = "clean" \/ IsRun(e)') => UpToDate(e)'
      <4>1. /\ e \in Node /\ e \in Eff
            /\ sources'[e] = sources[e] /\ seen'[e] = seen[e]
        BY <1>1, <2>7, <2>8, <3>1
      <4>2. QED
        BY <1>1, <1>7, <1>22, <2>6, <2>14, <3>1, <4>1 DEF EffInv
    <3>2. /\ \A n \in Readable : seen'[d][n] = None
          /\ DOMAIN sources'[d] = {} /\ UpToDate(d)'
      BY <2>7, <2>8 DEF UpToDate
    <3>3. Live' = Live
      BY <1>7 DEF Live
    <3>4. QED
      BY <3>1, <3>2, <3>3 DEF EffInv
  <2>17. QueueInv'
    <3>1. Live' = Live /\ reported' = reported /\ state' = state
      BY <1>7, <1>22 DEF Live
    <3>2. \E h \in In(frames') : h.kind \in {"flush", "batch", "mark"}
      BY <1>9, <2>5
    <3>3. QED
      BY <1>1, <1>7, <1>15, <2>6, <3>1, <3>2 DEF QueueInv
  <2>18. FireInv'
    <3>1. \A e \in Unfed : e \in Eff
      BY DEF Unfed
    <3>2. QED
      BY <1>1, <1>15, <1>16, <1>17, <1>18, <2>5, <2>6, <2>9, <3>1 DEF FireInv
  <2>19. BatchInv' /\ StackOK(frames')
    BY <1>7, <1>13, <2>5 DEF BatchInv
  <2>20. QED
    BY <2>10, <2>11, <2>12, <2>13, <2>15, <2>16, <2>17, <2>18, <2>19 DEF IInv
<1>23. CASE /\ d \in disposed /\ state' = [state EXCEPT ![d] = "clean"]
            /\ frames' = here /\ UNCHANGED <<sources, observers, seen, fired>>
  <2>1. /\ \A e : IsRun(e)' <=> IsRun(e)
        /\ \A e : IsChecked(e)' <=> IsChecked(e)
        /\ \A m, o : ~Ahead(m, o)'
    BY <1>6, <1>8, <1>9, <1>12, <1>14, <1>23 DEF IsRun, IsChecked, Ahead
  <2>2. /\ \A n \in Node : n # d => state'[n] = state[n]
        /\ \A n \in Readable : n # d /\ n \in Node
        /\ state' \in [Node -> States]
    BY <1>1, <1>15, <1>16, <1>23 DEF TypeInv, States
  <2>3. TypeInv'
    BY <1>1, <1>7, <1>12, <1>15, <1>23, <2>2 DEF TypeInv
  <2>4. EdgeInv' /\ DisposalInv'
    BY <1>1, <1>7, <1>23, <2>2 DEF EdgeInv, DisposalInv
  <2>5. FrameInv'
    <3>1. FrameOK(g)' /\ \A h \in In(s) : FrameOK(h)'
      BY <1>1, <1>7, <1>9, <1>14, <1>20, <2>2 DEF FrameOK
    <3>2. QED
      BY <1>12, <1>23, <3>1 DEF FrameInv
  <2>6. \A o \in Node : UpToDate(o)' <=> UpToDate(o)
    BY <1>1, <1>7, <1>19, <1>23, <2>1, <2>2 DEF UpToDate, Fresh
  <2>7. CompInv'
    BY <1>1, <1>7, <1>23, <2>2, <2>6 DEF CompInv, ValueFits, Branch
  <2>8. \A e \in Live : e \in Node /\ e \in Eff /\ e # d /\ state'[e] = state[e]
    BY <1>1, <1>23, <2>2 DEF Live
  <2>9. EffInv'
    BY <1>1, <1>7, <1>23, <2>1, <2>6, <2>8 DEF EffInv, Live
  <2>10. QueueInv'
    <3>1. Live' = Live /\ reported' = reported
      BY <1>7 DEF Live
    <3>2. \E h \in In(frames') : h.kind \in {"flush", "batch", "mark"}
      BY <1>9, <1>12, <1>23
    <3>3. \A e \in In(pending') : e \in Node /\ e # d /\ state'[e] = state[e]
      BY <1>1, <1>15, <2>2
    <3>4. QED
      BY <1>1, <1>7, <1>15, <2>1, <2>8, <3>1, <3>2, <3>3 DEF QueueInv
  <2>11. FireInv'
    BY <1>1, <1>15, <1>18, <1>23, <2>1 DEF FireInv
  <2>12. BatchInv' /\ StackOK(frames')
    BY <1>7, <1>12, <1>13, <1>23 DEF BatchInv
  <2>13. QED
    BY <2>3, <2>4, <2>5, <2>7, <2>9, <2>10, <2>11, <2>12 DEF IInv
<1>24. QED
    BY <1>6, <1>16, <1>21, <1>22, <1>23 DEF Update

(* If every source was at the version read, the node is clean and its        *)
(* value fits.  If one was not, it recomputes.                               *)
LEMMA CheckEndsStep ==
  ASSUME IInv, CheckEnds
  PROVE  IInv'
<1>1. /\ TypeInv /\ EdgeInv /\ DisposalInv /\ StackOK(frames) /\ BatchInv /\ FrameInv
      /\ CompInv /\ EffInv /\ QueueInv /\ FireInv
      /\ In(pending) \subseteq Eff /\ Live \subseteq Eff /\ In(frames) \subseteq Frame
      /\ \A o \in Node : DOMAIN sources[o] \subseteq Readable
      /\ Node = Readable \cup Eff /\ Readable = Sig \cup Comp /\ Readable \cap Eff = {}
      /\ Comp \cap Eff = {} /\ Sig \cap Comp = {}
    BY Basics
<1>2. PICK s, f : s = Front(frames) /\ f = Last(frames)
    OBVIOUS
<1>3. PICK d : d = f.node
    OBVIOUS
<1>4. /\ frames # <<>> /\ f.kind = "check" /\ f.todo = {}
      /\ state' = [state EXCEPT ![d] = f.verdict]
      /\ \/ /\ f.verdict = "clean" /\ frames' = s
            /\ UNCHANGED <<sources, observers, seen, fired>>
         \/ /\ f.verdict = "dirty" /\ Recompute(d, s) /\ fired' = Ran(d)
    BY <1>2, <1>3 DEF CheckEnds, On
<1>5. /\ version' = version /\ value' = value /\ disposed' = disposed /\ pending' = pending
      /\ batch_depth' = batch_depth /\ born' = born /\ over' = over /\ reported' = reported
    BY DEF CheckEnds
<1>6. /\ s \in Seq(Frame) /\ f \in Frame /\ In(frames) = In(s) \cup {f} /\ In(s) \subseteq Frame
      /\ frames[1] = IF s = <<>> THEN f ELSE s[1]
      /\ Batches(s) \in Nat
      /\ Batches(frames) = Batches(s) + (IF f.kind = "batch" THEN 1 ELSE 0)
      /\ StackOK(s) /\ Fits(s, f)
    BY <1>1, <1>2, <1>4, TopFrame
<1>7. d \in Comp \cup Eff /\ d \in Node /\ d \notin Sig
    BY <1>1, <1>3, <1>4, <1>6, FrameKinds, NodesAreApart
<1>8. /\ state[d] = "check" /\ d \notin disposed /\ (d \in Eff => d \in born)
      /\ f.verdict = "clean" => \A n \in DOMAIN sources[d] : Fresh(d, n)
    BY <1>1, <1>3, <1>4, <1>6 DEF FrameInv, FrameOK
<1>9. /\ \A h \in In(s) : h.kind # "mark"
      /\ \A h \in In(s) : h.kind \in {"run", "check"} => h.node # d
      /\ \A h \in In(s) : FrameOK(h)
  <2>1. \A h \in In(s) : FrameOK(h)
    BY <1>1, <1>6 DEF FrameInv
  <2>2. \A h \in In(s) : Under(h, f)
    BY <1>6 DEF Fits
  <2>3. QED
    BY <1>3, <1>4, <2>1, <2>2 DEF Under, Pulls
<1>10. batch_depth = Batches(s)
    BY <1>1, <1>4, <1>6 DEF BatchInv
<1>11. /\ \A n \in Node : n # d => state'[n] = state[n]
       /\ state'[d] = f.verdict /\ state' \in [Node -> States]
  <2>1. f.verdict \in States
    BY <1>4 DEF States
  <2>2. QED
    BY <1>1, <1>4, <1>7, <2>1 DEF TypeInv
<1>12. \A m, o : ~Ahead(m, o)
    BY <1>4, <1>6, <1>9 DEF Ahead
<1>13. \A h \in In(s) :
          /\ h.kind \in {"run", "compute", "check"} => h.node \in Node /\ h.node # d
          /\ h.kind = "compute" => Prog[h.node].test \in Node
  <2>1. SUFFICES ASSUME NEW h \in In(s)
                 PROVE  /\ h.kind \in {"run", "compute", "check"} => h.node \in Node /\ h.node # d
                        /\ h.kind = "compute" => Prog[h.node].test \in Node
    OBVIOUS
  <2>2. h \in Frame /\ FrameOK(h)
    BY <1>6, <1>9
  <2>3. h.kind \in {"run", "compute", "check"} => h.node \in Node
    BY <1>1, <2>2, FrameKinds
  <2>4. h.kind = "compute" => h.node # d
    BY <1>8, <2>2 DEF FrameOK
  <2>5. h.kind = "compute" => Prog[h.node].test \in Node
    BY <1>1, <2>2, FrameKinds, ProgramsLookBack DEF Deps
  <2>6. QED
    BY <1>9, <2>3, <2>4, <2>5
<1>14. IsChecked(d) /\ d \notin In(pending)
    BY <1>1, <1>3, <1>4, <1>6 DEF IsChecked, QueueInv
<1>15. CASE f.verdict = "clean" /\ frames' = s /\ UNCHANGED <<sources, observers, seen, fired>>
  <2>1. /\ \A e : IsRun(e)' <=> IsRun(e)
        /\ \A e : e # d => (IsChecked(e)' <=> IsChecked(e))
        /\ \A e : IsChecked(e)' => IsChecked(e)
        /\ \A m, o : ~Ahead(m, o)'
    BY <1>3, <1>4, <1>6, <1>9, <1>15 DEF IsRun, IsChecked, Ahead
  <2>2. \A o, n \in Node : Fresh(o, n) => Fresh(o, n)'
    BY <1>5, <1>8, <1>11, <1>15 DEF Fresh
  <2>3. \A o \in Node : UpToDate(o) => UpToDate(o)'
    BY <1>1, <1>12, <1>15, <2>2 DEF UpToDate
  <2>4. UpToDate(d)'
    BY <1>1, <1>7, <1>8, <1>15, <2>2 DEF UpToDate
  <2>5. TypeInv'
    BY <1>1, <1>5, <1>6, <1>11, <1>15 DEF TypeInv
  <2>6. EdgeInv' /\ DisposalInv'
    <3>1. \A x \in Sig : state'[x] = state[x]
      BY <1>1, <1>7, <1>11
    <3>2. QED
      BY <1>1, <1>5, <1>15, <3>1 DEF EdgeInv, DisposalInv
  <2>7. FrameInv'
    <3>1. ASSUME NEW h \in In(s) PROVE FrameOK(h)'
      <4>1. FrameOK(h) /\ h \in Frame /\ h.kind # "mark"
        BY <1>6, <1>9
      <4>2. CASE h.kind = "run"
        BY <1>5, <1>11, <1>13, <4>1, <4>2 DEF FrameOK
      <4>3. CASE h.kind = "compute"
        BY <1>5, <1>11, <1>13, <1>15, <2>2, <4>1, <4>3 DEF FrameOK
      <4>4. CASE h.kind = "check"
        <5>1. h.node \in Node /\ h.node # d /\ DOMAIN sources[h.node] \subseteq Node
          BY <1>1, <1>13, <4>4
        <5>2. QED
          BY <1>5, <1>11, <1>15, <2>2, <4>1, <4>4, <5>1 DEF FrameOK
      <4>5. CASE h.kind \notin {"run", "compute", "check"}
        BY <4>1, <4>5 DEF FrameOK
      <4>6. QED
        BY <4>2, <4>3, <4>4, <4>5
    <3>2. QED
      BY <1>15, <3>1 DEF FrameInv
  <2>8. CompInv'
    <3>1. SUFFICES ASSUME NEW c \in Comp \ disposed
                   PROVE  /\ state'[c] = "clean" => UpToDate(c)'
                          /\ state'[c] # "dirty" => ValueFits(c)'
      BY <1>5 DEF CompInv
    <3>2. c \in Node
      BY <1>1
    <3>3. state'[c] = "clean" => UpToDate(c)'
      BY <1>1, <1>11, <2>3, <2>4, <3>2 DEF CompInv
    <3>4. state'[c] # "dirty" => state[c] # "dirty"
      BY <1>8, <1>11, <3>2
    <3>5. state'[c] # "dirty" => ValueFits(c)'
      BY <1>1, <1>5, <1>15, <3>4 DEF CompInv, ValueFits, Branch
    <3>6. QED
      BY <3>3, <3>5
  <2>9. EffInv'
    <3>1. SUFFICES ASSUME NEW e \in Live
                   PROVE  /\ \A n \in Readable : seen[e][n] # None => n \in DOMAIN sources[e]
                          /\ \A n \in DOMAIN sources[e] :
                                sources[e][n] = version[n] => seen[e][n] = value[n]
                          /\ e \in Calm /\ (state'[e] = "clean" \/ IsRun(e)) => UpToDate(e)'
      BY <1>5, <1>15, <2>1 DEF EffInv, Live
    <3>2. e \in Node
      BY <1>1
    <3>3. QED
      BY <1>1, <1>11, <2>3, <2>4, <3>1, <3>2 DEF EffInv
  <2>10. QueueInv'
    <3>1. ASSUME NEW e \in In(pending)
          PROVE  e \in born /\ ~IsRun(e) /\ ~IsChecked(e)' /\ (state'[e] # "clean" \/ e \in disposed)
      <4>1. e \in Node /\ e # d
        BY <1>1, <1>14, <3>1
      <4>2. QED
        BY <1>1, <1>11, <2>1, <3>1, <4>1 DEF QueueInv
    <3>2. ASSUME NEW e \in Live, state'[e] # "clean"
          PROVE  e \in In(pending) \/ IsRun(e) \/ IsChecked(e)' \/ reported
      <4>1. e \in Node /\ e # d
        BY <1>1, <1>11, <1>15, <3>2
      <4>2. QED
        BY <1>1, <1>11, <2>1, <3>2, <4>1 DEF QueueInv
    <3>3. pending # <<>> => \E h \in In(s) : h.kind \in {"flush", "batch", "mark"}
      BY <1>1, <1>4, <1>6 DEF QueueInv
    <3>4. Live' = Live /\ pending' = pending /\ reported' = reported /\ frames' = s
      BY <1>5, <1>15 DEF Live
    <3>5. QED
      BY <1>1, <1>5, <2>1, <3>1, <3>2, <3>3, <3>4 DEF QueueInv
  <2>11. FireInv'
    BY <1>1, <1>4, <1>5, <1>6, <1>15, <2>1 DEF FireInv
  <2>12. BatchInv' /\ StackOK(frames')
    BY <1>5, <1>6, <1>10, <1>15 DEF BatchInv
  <2>13. QED
    BY <2>5, <2>6, <2>7, <2>8, <2>9, <2>10, <2>11, <2>12 DEF IInv
<1>16. CASE f.verdict = "dirty" /\ Recompute(d, s) /\ fired' = Ran(d)
  <2>1. PICK k : k = IF d \in Eff THEN RunFrame(d) ELSE ComputeFrame(d)
    OBVIOUS
  <2>2. /\ frames' = Append(s, k) /\ UnlinkSources(d)
        /\ seen' = [e \in Eff |-> IF e = d THEN [m \in Readable |-> None] ELSE seen[e]]
    BY <1>16, <2>1 DEF Recompute
  <2>3. /\ d \in Eff => k.kind = "run"
        /\ d \notin Eff => k.kind = "compute" /\ k.at = "test"
        /\ k.node = d /\ k \in Frame
    BY <1>1, <1>7, <2>1, NewFrames DEF RunFrame, ComputeFrame
  <2>4. Fits(s, k)
    BY <1>3, <1>4, <1>6, <1>7, <2>1, FitsRecompute
  <2>5. PushedOn(frames', s, k)
    BY <1>6, <2>2, <2>3, Pushed
  <2>6. /\ frames' \in Seq(Frame) /\ frames' # <<>> /\ In(frames') = In(s) \cup {k}
        /\ frames'[1] = (IF s = <<>> THEN k ELSE s[1])
        /\ Batches(frames') = Batches(s) /\ StackOK(frames')
    BY <1>6, <2>3, <2>4, <2>5 DEF PushedOn
  <2>7. /\ \A e \in Eff : IsRun(e)' <=> IsRun(e) \/ e = d
        /\ \A e : e # d => (IsChecked(e)' <=> IsChecked(e))
        /\ ~IsChecked(d)'
    <3>1. \A e \in Eff : IsRun(e)' <=> IsRun(e) \/ e = d
      BY <1>4, <1>6, <2>3, <2>6 DEF IsRun
    <3>2. ~IsChecked(d)'
      BY <1>9, <2>3, <2>6 DEF IsChecked
    <3>3. \A e : e # d => (IsChecked(e)' <=> IsChecked(e))
      BY <1>3, <1>6, <2>3, <2>6 DEF IsChecked
    <3>4. QED
      BY <3>1, <3>2, <3>3
  <2>8. \A m, o : ~Ahead(m, o)'
    BY <1>9, <2>3, <2>6 DEF Ahead
  <2>9. /\ DOMAIN sources'[d] = {}
        /\ \A o \in Node : o # d => sources'[o] = sources[o]
        /\ observers' \in [Node -> SUBSET (Comp \cup Eff)]
        /\ DOMAIN sources' = Node
        /\ \A o \in Node : /\ DOMAIN sources'[o] \subseteq Readable
                           /\ sources'[o] \in [DOMAIN sources'[o] -> Nat]
        /\ \A n, o \in Node : o \in observers'[n] <=> n \in DOMAIN sources'[o]
    BY <1>7, <2>2, Unlinked
  <2>10. /\ seen' \in [Eff -> [Readable -> Value \cup {None}]]
         /\ \A e \in Eff : e # d => seen'[e] = seen[e]
         /\ d \in Eff => \A n \in Readable : seen'[d][n] = None
    BY <1>1, <2>2 DEF TypeInv
  <2>11. /\ fired' \in [Eff -> Nat]
         /\ \A e \in Eff : e # d => fired'[e] = fired[e]
         /\ d \in Eff => fired'[d] = fired[d] + 1
    BY <1>1, <1>16 DEF TypeInv, Ran
  <2>12. TypeInv'
    BY <1>1, <1>5, <1>11, <2>6, <2>9, <2>10, <2>11 DEF TypeInv
  <2>13. EdgeInv'
    <3>1. \A c \in Comp : DOMAIN sources'[c] \subseteq Deps(c)
      BY <1>1, <2>9 DEF EdgeInv
    <3>2. \A e \in Eff : e \in Node
      BY <1>1
    <3>3. \A o \in Node : \A n \in DOMAIN sources'[o] : sources'[o][n] <= version'[n]
      BY <1>1, <1>5, <2>9 DEF EdgeInv
    <3>4. \A x \in Sig : state'[x] = "clean" /\ value'[x] \in Value /\ DOMAIN sources'[x] = {}
      BY <1>1, <1>5, <1>7, <1>11, <2>9 DEF EdgeInv
    <3>5. /\ \A e \in Eff : DOMAIN sources'[e] \subseteq MayRead[e]
          /\ \A e \in Eff \ born' : DOMAIN sources'[e] = {}
      BY <1>1, <1>5, <2>9, <3>2 DEF EdgeInv
    <3>6. QED
      BY <2>9, <3>1, <3>3, <3>4, <3>5 DEF EdgeInv
  <2>14. DisposalInv'
    BY <1>1, <1>5 DEF DisposalInv
  <2>15. FrameInv'
    <3>1. \A h : h = k => FrameOK(h)'
      BY <1>5, <1>7, <1>8, <1>11, <1>16, <2>3, <2>9 DEF FrameOK
    <3>2. ASSUME NEW h \in In(s) PROVE FrameOK(h)'
      <4>1. FrameOK(h) /\ h \in Frame /\ h.kind # "mark"
        BY <1>6, <1>9
      <4>2. CASE h.kind = "run"
        BY <1>5, <1>11, <1>13, <4>1, <4>2 DEF FrameOK
      <4>3. CASE h.kind = "compute"
        <5>1. /\ h.node \in Node /\ h.node # d /\ sources'[h.node] = sources[h.node]
              /\ state'[h.node] = state[h.node] /\ Prog[h.node].test \in Node
          BY <1>11, <1>13, <2>9, <4>3
        <5>2. h.at = "branch" => Prog[h.node].test # d
          BY <1>8, <4>1, <4>3 DEF FrameOK, Fresh
        <5>3. QED
          BY <1>5, <1>11, <4>1, <4>3, <5>1, <5>2 DEF FrameOK, Fresh
      <4>4. CASE h.kind = "check"
        <5>1. /\ h.node \in Node /\ h.node # d /\ sources'[h.node] = sources[h.node]
              /\ state'[h.node] = state[h.node] /\ DOMAIN sources[h.node] \subseteq Node
          BY <1>1, <1>11, <1>13, <2>9, <4>4
        <5>2. \A n \in DOMAIN sources[h.node] : Fresh(h.node, n) => n # d
          BY <1>8 DEF Fresh
        <5>3. \A n \in DOMAIN sources[h.node] : Fresh(h.node, n) => Fresh(h.node, n)'
          BY <1>5, <1>11, <5>1, <5>2 DEF Fresh
        <5>4. QED
          BY <1>5, <4>1, <4>4, <5>1, <5>3 DEF FrameOK
      <4>5. CASE h.kind \notin {"run", "compute", "check"}
        BY <4>1, <4>5 DEF FrameOK
      <4>6. QED
        BY <4>2, <4>3, <4>4, <4>5
    <3>3. QED
      BY <2>6, <3>1, <3>2 DEF FrameInv
  <2>16. \A o \in Node : o # d /\ UpToDate(o) => UpToDate(o)'
    BY <1>1, <1>5, <1>8, <1>11, <1>12, <2>9 DEF UpToDate, Fresh
  <2>17. CompInv'
    <3>1. \A c \in Comp : c # d => c \in Node /\ sources'[c] = sources[c] /\ state'[c] = state[c]
      BY <1>1, <1>11, <2>9
    <3>2. QED
      BY <1>1, <1>5, <1>11, <1>16, <2>16, <3>1 DEF CompInv, ValueFits, Branch
  <2>18. EffInv'
    <3>1. ASSUME NEW e \in Live, e # d
          PROVE  /\ \A n \in Readable : seen'[e][n] # None => n \in DOMAIN sources'[e]
                 /\ \A n \in DOMAIN sources'[e] :
                       sources'[e][n] = version'[n] => seen'[e][n] = value'[n]
                 /\ e \in Calm /\ (state'[e] = "clean" \/ IsRun(e)') => UpToDate(e)'
      <4>1. /\ e \in Node /\ e \in Eff /\ state'[e] = state[e]
            /\ sources'[e] = sources[e] /\ seen'[e] = seen[e]
        BY <1>1, <1>11, <2>9, <2>10, <3>1
      <4>2. QED
        BY <1>1, <1>5, <2>7, <2>16, <3>1, <4>1 DEF EffInv
    <3>2. /\ d \in Eff => \A n \in Readable : seen'[d][n] = None
          /\ DOMAIN sources'[d] = {} /\ UpToDate(d)'
      BY <2>9, <2>10 DEF UpToDate
    <3>3. Live' = Live
      BY <1>5 DEF Live
    <3>4. QED
      BY <1>1, <3>1, <3>2, <3>3 DEF EffInv
  <2>19. QueueInv'
    <3>1. ASSUME NEW e \in In(pending)
          PROVE  e \in born /\ ~IsRun(e)' /\ ~IsChecked(e)' /\ (state'[e] # "clean" \/ e \in disposed)
      <4>1. e \in Node /\ e \in Eff /\ e # d
        BY <1>1, <1>14, <3>1
      <4>2. QED
        BY <1>1, <1>11, <2>7, <3>1, <4>1 DEF QueueInv
    <3>2. ASSUME NEW e \in Live, state'[e] # "clean"
          PROVE  e \in In(pending) \/ IsRun(e)' \/ IsChecked(e)' \/ reported
      <4>1. e \in Node /\ e \in Eff
        BY <1>1
      <4>2. CASE e = d
        BY <2>7, <4>1, <4>2
      <4>3. CASE e # d
        BY <1>1, <1>11, <2>7, <3>2, <4>1, <4>3 DEF QueueInv
      <4>4. QED
        BY <4>2, <4>3
    <3>3. pending # <<>> => \E h \in In(frames') : h.kind \in {"flush", "batch", "mark"}
      BY <1>1, <1>4, <1>6, <2>6 DEF QueueInv
    <3>4. Live' = Live /\ pending' = pending /\ reported' = reported /\ born' = born
          /\ disposed' = disposed
      BY <1>5 DEF Live
    <3>5. QED
      BY <1>1, <3>1, <3>2, <3>3, <3>4 DEF QueueInv
  <2>20. FireInv'
    <3>1. SUFFICES ASSUME NEW e \in Unfed
                   PROVE  /\ fired'[e] <= 1
                          /\ fired'[e] = 1 =>
                                /\ e \notin In(pending) /\ ~IsChecked(e)'
                                /\ frames'[1].kind \in {"flush", "run", "get"}
      BY <1>5 DEF FireInv
    <3>2. e \in Eff /\ fired[e] \in Nat /\ fired[e] <= 1
      BY <1>1 DEF Unfed, FireInv, TypeInv
    <3>3. CASE e = d
      <4>1. fired[e] = 0
        <5>1. fired[e] # 1
          BY <1>1, <1>14, <3>3 DEF FireInv
        <5>2. QED
          BY <3>2, <5>1
      <4>2. fired'[e] = 1
        BY <2>11, <3>2, <3>3, <4>1
      <4>3. s # <<>> /\ Last(s).kind = "flush"
        BY <1>3, <1>4, <1>6, <3>2, <3>3 DEF Fits, Calls, Bottom
      <4>4. PICK r, l : r = Front(s) /\ l = Last(s)
        OBVIOUS
      <4>5. r \in Seq(Frame) /\ l \in Frame /\ s = Append(r, l)
        BY <1>6, <4>3, <4>4, FrontFacts
      <4>6. PushedOn(s, r, l)
        BY <4>5, Pushed
      <4>7. /\ Fits(r, l) /\ In(r) \subseteq Frame
            /\ s[1] = (IF r = <<>> THEN l ELSE r[1])
        BY <1>6, <4>6 DEF PushedOn
      <4>8. s[1].kind \in {"flush", "run"}
        BY <4>3, <4>4, <4>5, <4>7, BelowFlush
      <4>9. QED
        BY <1>14, <2>6, <2>7, <3>3, <4>2, <4>3, <4>8
    <3>4. CASE e # d
      <4>1. fired'[e] = fired[e] /\ (IsChecked(e)' <=> IsChecked(e))
        BY <2>7, <2>11, <3>2, <3>4
      <4>2. ASSUME fired[e] = 1
            PROVE  /\ e \notin In(pending) /\ ~IsChecked(e)
                   /\ frames'[1].kind \in {"flush", "run", "get"}
        <5>1. /\ e \notin In(pending) /\ ~IsChecked(e)
              /\ frames[1].kind \in {"flush", "run", "get"}
          BY <1>1, <1>4, <4>2 DEF FireInv
        <5>2. s # <<>> /\ s[1] = frames[1]
          BY <1>4, <1>6, <5>1
        <5>3. QED
          BY <2>6, <5>1, <5>2
      <4>3. QED
        BY <3>2, <4>1, <4>2
    <3>5. QED
      BY <3>3, <3>4
  <2>21. BatchInv' /\ StackOK(frames')
    BY <1>5, <1>10, <2>6 DEF BatchInv
  <2>22. QED
    BY <2>12, <2>13, <2>14, <2>15, <2>17, <2>18, <2>19, <2>20, <2>21 DEF IInv
<1>17. QED
    BY <1>4, <1>15, <1>16

(* The edges when a node gets a source.                                      *)
LEMMA Linked ==
  ASSUME IInv, NEW t \in Comp \cup Eff, NEW x \in Readable, AddSource(t, x)
  PROVE  /\ DOMAIN sources'[t] = DOMAIN sources[t] \cup {x}
         /\ \A n \in DOMAIN sources[t] : sources'[t][n] = sources[t][n]
         /\ x \notin DOMAIN sources[t] => sources'[t][x] = version[x]
         /\ \A o \in Node : o # t => sources'[o] = sources[o]
         /\ \A o \in Node : \A n \in DOMAIN sources[o] :
               n \in DOMAIN sources'[o] /\ sources'[o][n] = sources[o][n]
         /\ observers' \in [Node -> SUBSET (Comp \cup Eff)]
         /\ DOMAIN sources' = Node
         /\ \A o \in Node : /\ DOMAIN sources'[o] \subseteq Readable
                            /\ sources'[o] \in [DOMAIN sources'[o] -> Nat]
                            /\ \A n \in DOMAIN sources'[o] : sources'[o][n] <= version[n]
         /\ \A n, o \in Node : o \in observers'[n] <=> n \in DOMAIN sources'[o]
<1>1. /\ TypeInv /\ EdgeInv /\ t \in Node /\ x \in Node
      /\ Node = Sig \cup Comp \cup Eff
    BY Basics
<1>2. PICK r : r = [n \in DOMAIN sources[t] \cup {x} |->
                      IF n \in DOMAIN sources[t] THEN sources[t][n] ELSE version[n]]
    OBVIOUS
<1>3. /\ sources' = [sources EXCEPT ![t] = r]
      /\ observers' = [observers EXCEPT ![x] = @ \cup {t}]
    BY <1>2 DEF AddSource
<1>4. /\ DOMAIN r = DOMAIN sources[t] \cup {x}
      /\ \A n \in DOMAIN sources[t] : r[n] = sources[t][n]
      /\ x \notin DOMAIN sources[t] => r[x] = version[x]
    BY <1>2
<1>5. /\ sources'[t] = r /\ DOMAIN sources' = Node
      /\ \A o \in Node : o # t => sources'[o] = sources[o]
    BY <1>1, <1>3 DEF TypeInv
<1>6. /\ DOMAIN sources[t] \subseteq Readable /\ \A n \in DOMAIN sources[t] : sources[t][n] \in Nat
      /\ version[x] \in Nat /\ \A n \in DOMAIN sources[t] : sources[t][n] <= version[n]
    BY <1>1 DEF TypeInv, EdgeInv
<1>7. DOMAIN r \subseteq Readable /\ \A n \in DOMAIN r : r[n] \in Nat /\ r[n] <= version[n]
    BY <1>4, <1>6
<1>8. r \in [DOMAIN r -> Nat]
    BY <1>2, <1>7
<1>9. \A o \in Node : /\ DOMAIN sources'[o] \subseteq Readable
                      /\ sources'[o] \in [DOMAIN sources'[o] -> Nat]
                      /\ \A n \in DOMAIN sources'[o] : sources'[o][n] <= version[n]
  <2>1. TAKE o \in Node
  <2>2. CASE o = t
    BY <1>5, <1>7, <1>8, <2>2
  <2>3. CASE o # t
    BY <1>1, <1>5, <2>3 DEF TypeInv, EdgeInv
  <2>4. QED
    BY <2>2, <2>3
<1>10. observers' \in [Node -> SUBSET (Comp \cup Eff)]
    BY <1>1, <1>3 DEF TypeInv
<1>11. ASSUME NEW n \in Node, NEW o \in Node
       PROVE  o \in observers'[n] <=> n \in DOMAIN sources'[o]
  <2>1. o \in observers'[n] <=> o \in observers[n] \/ (n = x /\ o = t)
    BY <1>1, <1>3 DEF TypeInv
  <2>2. n \in DOMAIN sources'[o] <=> n \in DOMAIN sources[o] \/ (n = x /\ o = t)
    BY <1>4, <1>5
  <2>3. o \in observers[n] <=> n \in DOMAIN sources[o]
    BY <1>1 DEF EdgeInv
  <2>4. QED
    BY <2>1, <2>2, <2>3
<1>12. \A o \in Node : \A n \in DOMAIN sources[o] :
         n \in DOMAIN sources'[o] /\ sources'[o][n] = sources[o][n]
    BY <1>4, <1>5
<1>13. QED
    BY <1>4, <1>5, <1>9, <1>10, <1>11, <1>12

(* The running effect sees a clean node and its version together.            *)
LEMMA GetReturnsStep ==
  ASSUME IInv, GetReturns
  PROVE  IInv'
<1>1. /\ TypeInv /\ EdgeInv /\ DisposalInv /\ StackOK(frames) /\ BatchInv /\ FrameInv
      /\ CompInv /\ EffInv /\ QueueInv /\ FireInv
      /\ In(pending) \subseteq Eff /\ Live \subseteq Eff /\ In(frames) \subseteq Frame
      /\ \A o \in Node : DOMAIN sources[o] \subseteq Readable
      /\ Node = Readable \cup Eff /\ Readable = Sig \cup Comp /\ Readable \cap Eff = {}
      /\ Comp \cap Eff = {} /\ Sig \cap Comp = {}
    BY Basics
<1>2. PICK s, f : s = Front(frames) /\ f = Last(frames)
    OBVIOUS
<1>3. PICK x : x = f.node
    OBVIOUS
<1>4. /\ frames # <<>> /\ f.kind = "get" /\ state[x] = "clean" /\ frames' = s
      /\ IF Top = {} THEN UNCHANGED <<sources, observers>>
         ELSE AddSource(CHOOSE e \in Top : TRUE, x)
      /\ seen' = [e \in Eff |-> IF e \in Top THEN [seen[e] EXCEPT ![x] = value[x]]
                                ELSE seen[e]]
    BY <1>2, <1>3 DEF GetReturns, On
<1>5. /\ state' = state /\ version' = version /\ value' = value /\ disposed' = disposed
      /\ pending' = pending /\ batch_depth' = batch_depth /\ born' = born /\ over' = over
      /\ fired' = fired /\ reported' = reported
    BY DEF GetReturns
<1>6. /\ s \in Seq(Frame) /\ f \in Frame /\ In(frames) = In(s) \cup {f} /\ In(s) \subseteq Frame
      /\ frames[1] = IF s = <<>> THEN f ELSE s[1]
      /\ Batches(s) \in Nat
      /\ Batches(frames) = Batches(s) + (IF f.kind = "batch" THEN 1 ELSE 0)
      /\ StackOK(s) /\ Fits(s, f)
    BY <1>1, <1>2, <1>4, TopFrame
<1>7. x \in Readable /\ x \in Node
    BY <1>1, <1>3, <1>4, <1>6, FrameKinds
<1>8. /\ \A e : IsRun(e)' <=> IsRun(e)
      /\ \A e : IsChecked(e)' <=> IsChecked(e)
      /\ \A m, o : Ahead(m, o)' <=> Ahead(m, o)
    BY <1>4, <1>6 DEF IsRun, IsChecked, Ahead
<1>9. \A h \in In(s) : h.kind \in {"run", "batch", "flush"} /\ FrameOK(h)
  <2>1. SUFFICES ASSUME NEW h \in In(s) PROVE h.kind \in {"run", "batch", "flush"} /\ FrameOK(h)
    OBVIOUS
  <2>2. Under(h, f) /\ h \in Frame /\ FrameOK(h)
    BY <1>1, <1>6 DEF Fits, FrameInv
  <2>3. QED
    BY <1>4, <2>2, FrameKinds DEF Under, Pulls
<1>10. \A m, o : ~Ahead(m, o)
    BY <1>4, <1>6, <1>9 DEF Ahead
<1>11. FrameInv'
    BY <1>4, <1>5, <1>9 DEF FrameInv, FrameOK
<1>12. BatchInv' /\ StackOK(frames')
    BY <1>1, <1>4, <1>5, <1>6 DEF BatchInv
<1>13. QueueInv'
    BY <1>1, <1>4, <1>5, <1>6, <1>8 DEF QueueInv, Live
<1>14. FireInv' /\ DisposalInv'
    BY <1>1, <1>4, <1>5, <1>6, <1>8 DEF FireInv, DisposalInv
<1>15. CASE Top = {}
  <2>1. sources' = sources /\ observers' = observers
    BY <1>4, <1>15
  <2>2. seen' = seen
    BY <1>1, <1>4, <1>15 DEF TypeInv
  <2>3. TypeInv'
    BY <1>1, <1>4, <1>5, <1>6, <2>1, <2>2 DEF TypeInv
  <2>4. EdgeInv'
    BY <1>1, <1>5, <2>1 DEF EdgeInv
  <2>5. CompInv' /\ EffInv'
    BY <1>1, <1>5, <1>8, <2>1, <2>2 DEF CompInv, EffInv, UpToDate, Fresh, ValueFits, Branch, Live
  <2>6. QED
    BY <1>11, <1>12, <1>13, <1>14, <2>3, <2>4, <2>5 DEF IInv
<1>16. CASE Top # {}
  <2>1. PICK t \in Eff : Top = {t} /\ IsRun(t)
    BY <1>1, <1>16, TopEffect
  <2>2. AddSource(t, x)
    BY <1>4, <1>16, <2>1
  <2>3. x \in MayRead[t]
    <3>1. x \in MayGet(frames)
      BY <1>1, <1>3, <1>4, <1>6 DEF StackOK
    <3>2. TopOf(frames) = {t}
      BY <1>1, <2>1, TopIs
    <3>3. QED
      BY <3>1, <3>2 DEF MayGet
  <2>4. t \in Node /\ t \in born
    BY <1>1, <2>1 DEF IsRun, FrameInv, FrameOK
  <2>5. /\ DOMAIN sources'[t] = DOMAIN sources[t] \cup {x}
        /\ \A n \in DOMAIN sources[t] : sources'[t][n] = sources[t][n]
        /\ x \notin DOMAIN sources[t] => sources'[t][x] = version[x]
        /\ \A o \in Node : o # t => sources'[o] = sources[o]
        /\ observers' \in [Node -> SUBSET (Comp \cup Eff)]
        /\ DOMAIN sources' = Node
        /\ \A o \in Node : /\ DOMAIN sources'[o] \subseteq Readable
                           /\ sources'[o] \in [DOMAIN sources'[o] -> Nat]
                           /\ \A n \in DOMAIN sources'[o] : sources'[o][n] <= version[n]
        /\ \A n, o \in Node : o \in observers'[n] <=> n \in DOMAIN sources'[o]
    BY <1>7, <2>2, Linked
  <2>6. /\ seen' \in [Eff -> [Readable -> Value \cup {None}]]
        /\ \A e \in Eff : e # t => seen'[e] = seen[e]
        /\ \A n \in Readable : n # x => seen'[t][n] = seen[t][n]
        /\ seen'[t][x] = value[x]
    BY <1>1, <1>4, <1>7, <2>1 DEF TypeInv
  <2>7. TypeInv'
    BY <1>1, <1>4, <1>5, <1>6, <2>5, <2>6 DEF TypeInv
  <2>8. EdgeInv'
    <3>1. \A n \in Readable : n \in Node /\ n # t /\ sources'[n] = sources[n]
      BY <1>1, <2>1, <2>5
    <3>2. \A e \in Eff : e \in Node
      BY <1>1
    <3>3. /\ \A c \in Comp : DOMAIN sources'[c] \subseteq Deps(c)
          /\ \A y \in Sig : state'[y] = "clean" /\ value'[y] \in Value /\ DOMAIN sources'[y] = {}
      BY <1>1, <1>5, <3>1 DEF EdgeInv
    <3>4. /\ \A e \in Eff : DOMAIN sources'[e] \subseteq MayRead[e]
          /\ \A e \in Eff \ born' : DOMAIN sources'[e] = {}
      BY <1>1, <1>5, <2>3, <2>4, <2>5, <3>2 DEF EdgeInv
    <3>5. QED
      BY <1>5, <2>5, <3>3, <3>4 DEF EdgeInv
  <2>9. \A o \in Node : o # t => (UpToDate(o)' <=> UpToDate(o))
    BY <1>5, <1>8, <2>5 DEF UpToDate, Fresh
  <2>10. CompInv'
    <3>1. \A c \in Comp : c \in Node /\ c # t /\ sources'[c] = sources[c]
      BY <1>1, <2>1, <2>5
    <3>2. QED
      BY <1>1, <1>5, <2>9, <3>1 DEF CompInv, ValueFits, Branch
  <2>11. EffInv'
    <3>1. ASSUME NEW e \in Live, e # t
          PROVE  /\ \A n \in Readable : seen'[e][n] # None => n \in DOMAIN sources'[e]
                 /\ \A n \in DOMAIN sources'[e] :
                       sources'[e][n] = version'[n] => seen'[e][n] = value'[n]
                 /\ e \in Calm /\ (state'[e] = "clean" \/ IsRun(e)') => UpToDate(e)'
      <4>1. e \in Node /\ e \in Eff /\ sources'[e] = sources[e] /\ seen'[e] = seen[e]
        BY <1>1, <2>5, <2>6, <3>1
      <4>2. QED
        BY <1>1, <1>5, <1>8, <2>9, <3>1, <4>1 DEF EffInv
    <3>2. ASSUME t \in Live
          PROVE  /\ \A n \in Readable : seen'[t][n] # None => n \in DOMAIN sources'[t]
                 /\ \A n \in DOMAIN sources'[t] :
                       sources'[t][n] = version'[n] => seen'[t][n] = value'[n]
                 /\ t \in Calm => UpToDate(t)'
      <4>1. /\ \A n \in Readable : seen[t][n] # None => n \in DOMAIN sources[t]
            /\ \A n \in DOMAIN sources[t] :
                  sources[t][n] = version[n] => seen[t][n] = value[n]
            /\ t \in Calm => UpToDate(t)
        BY <1>1, <2>1, <3>2 DEF EffInv
      <4>2. \A n \in Readable : seen'[t][n] # None => n \in DOMAIN sources'[t]
        BY <2>5, <2>6, <4>1
      <4>3. ASSUME NEW n \in DOMAIN sources'[t], sources'[t][n] = version'[n]
            PROVE  seen'[t][n] = value'[n]
        <5>1. CASE n = x
          BY <1>5, <2>6, <5>1
        <5>2. CASE n # x
          <6>1. n \in DOMAIN sources[t] /\ n \in Readable
            BY <1>1, <2>4, <2>5, <4>3, <5>2
          <6>2. QED
            BY <1>5, <2>5, <2>6, <4>1, <4>3, <5>2, <6>1
        <5>3. QED
          BY <5>1, <5>2
      <4>4. ASSUME t \in Calm, NEW n \in DOMAIN sources'[t] PROVE Fresh(t, n)'
        <5>1. CASE n \in DOMAIN sources[t]
          <6>1. Fresh(t, n)
            BY <1>10, <4>1, <4>4, <5>1 DEF UpToDate
          <6>2. QED
            BY <1>5, <2>5, <5>1, <6>1 DEF Fresh
        <5>2. CASE n \notin DOMAIN sources[t]
          <6>1. n = x /\ sources'[t][x] = version[x]
            BY <2>5, <4>4, <5>2
          <6>2. QED
            BY <1>4, <1>5, <6>1 DEF Fresh
        <5>3. QED
          BY <5>1, <5>2
      <4>5. QED
        BY <4>2, <4>3, <4>4 DEF UpToDate
    <3>3. Live' = Live
      BY <1>5 DEF Live
    <3>4. QED
      BY <3>1, <3>2, <3>3 DEF EffInv
  <2>12. QED
    BY <1>11, <1>12, <1>13, <1>14, <2>7, <2>8, <2>10, <2>11 DEF IInv
<1>17. QED
    BY <1>15, <1>16

(* A computed that is being computed, and the operand it reads next.         *)
LEMMA Computing ==
  ASSUME IInv, NEW s, NEW f, s = Front(frames), f = Last(frames),
         frames # <<>>, f.kind = "compute", NEW c, c = f.node, NEW x, x = Operand(f)
  PROVE  /\ s \in Seq(Frame) /\ f \in Frame /\ In(frames) = In(s) \cup {f} /\ In(s) \subseteq Frame
         /\ frames[1] = IF s = <<>> THEN f ELSE s[1]
         /\ Batches(s) \in Nat /\ batch_depth = Batches(s)
         /\ StackOK(s) /\ Fits(s, f)
         /\ c \in Comp /\ c \in Node /\ c \notin disposed /\ state[c] = "dirty"
         /\ x \in Deps(c) /\ x \in Readable /\ x # c
         /\ Prog[c].test \in Readable /\ Prog[c].test # c
         /\ f.at \in {"test", "branch"}
         /\ f.at = "test" => DOMAIN sources[c] = {} /\ x = Prog[c].test
         /\ f.at = "branch" =>
               DOMAIN sources[c] = {Prog[c].test} /\ Fresh(c, Prog[c].test) /\ x = Branch(c)
         /\ \A m, o : ~Ahead(m, o)
         /\ \A h \in In(s) :
               /\ FrameOK(h) /\ h.kind # "mark"
               /\ h.kind \in {"run", "compute", "check"} => h.node \in Node /\ h.node # c
               /\ h.kind = "compute" => Prog[h.node].test \in Node
<1>1. /\ TypeInv /\ StackOK(frames) /\ BatchInv /\ FrameInv
      /\ Node = Readable \cup Eff /\ Readable = Sig \cup Comp /\ Readable \cap Eff = {}
      /\ Comp \cap Eff = {}
    BY Basics
<1>2. /\ s \in Seq(Frame) /\ f \in Frame /\ In(frames) = In(s) \cup {f} /\ In(s) \subseteq Frame
      /\ frames[1] = IF s = <<>> THEN f ELSE s[1]
      /\ Batches(s) \in Nat
      /\ Batches(frames) = Batches(s) + (IF f.kind = "batch" THEN 1 ELSE 0)
      /\ StackOK(s) /\ Fits(s, f)
    BY <1>1, TopFrame
<1>3. batch_depth = Batches(s)
    BY <1>1, <1>2 DEF BatchInv
<1>4. c \in Comp /\ c \in Node /\ f.at \in {"test", "branch"}
    BY <1>1, <1>2, FrameKinds
<1>5. x \in Deps(c)
    BY DEF Operand, Deps
<1>6. \A y \in Deps(c) : y \in Readable /\ y # c
  <2>1. TAKE y \in Deps(c)
  <2>2. y \in Readable /\ Rank[y] < Rank[c] /\ Rank[c] \in Nat
    BY <1>1, <1>4, ProgramsLookBack
  <2>3. QED
    BY <2>2
<1>7. Prog[c].test \in Deps(c)
    BY DEF Deps
<1>8. FrameOK(f)
    BY <1>1, <1>2 DEF FrameInv
<1>9. /\ c \notin disposed /\ state[c] = "dirty"
      /\ f.at = "test" => DOMAIN sources[c] = {} /\ x = Prog[c].test
      /\ f.at = "branch" =>
            DOMAIN sources[c] = {Prog[c].test} /\ Fresh(c, Prog[c].test) /\ x = Branch(c)
    BY <1>8 DEF FrameOK, Operand, Branch
<1>10. /\ \A h \in In(s) : h.kind # "mark"
       /\ \A h \in In(s) : h.kind \in Pulls /\ h.node \in Comp => h.node # c
    BY <1>2, <1>4, BelowPull DEF Pulls
<1>11. \A m, o : ~Ahead(m, o)
    BY <1>2, <1>10 DEF Ahead
<1>12. ASSUME NEW h \in In(s)
       PROVE  /\ FrameOK(h) /\ h.kind # "mark"
              /\ h.kind \in {"run", "compute", "check"} => h.node \in Node /\ h.node # c
              /\ h.kind = "compute" => Prog[h.node].test \in Node
  <2>1. FrameOK(h) /\ h \in Frame
    BY <1>1, <1>2 DEF FrameInv
  <2>2. h.kind \in {"run", "compute", "check"} => h.node \in Node /\ h.node # c
    BY <1>1, <1>4, <1>10, <2>1, FrameKinds DEF Pulls
  <2>3. h.kind = "compute" => Prog[h.node].test \in Node
    BY <1>1, <2>1, FrameKinds, ProgramsLookBack DEF Deps
  <2>4. QED
    BY <1>10, <2>1, <2>2, <2>3
<1>13. QED
    BY <1>2, <1>3, <1>4, <1>5, <1>6, <1>7, <1>9, <1>11, <1>12

(* The test is clean, and stays the only edge until the branch is read.      *)
LEMMA ComputeBranchesStep ==
  ASSUME IInv, ComputeBranches
  PROVE  IInv'
<1>1. /\ TypeInv /\ EdgeInv /\ DisposalInv /\ StackOK(frames) /\ BatchInv /\ FrameInv
      /\ CompInv /\ EffInv /\ QueueInv /\ FireInv
      /\ In(pending) \subseteq Eff /\ Live \subseteq Eff
      /\ \A o \in Node : DOMAIN sources[o] \subseteq Readable
      /\ Node = Readable \cup Eff /\ Readable = Sig \cup Comp /\ Readable \cap Eff = {}
      /\ Comp \cap Eff = {} /\ Sig \cap Comp = {}
    BY Basics
<1>2. PICK s, f : s = Front(frames) /\ f = Last(frames)
    OBVIOUS
<1>3. PICK c, x, g : c = f.node /\ x = Operand(f) /\ g = [f EXCEPT !.at = "branch"]
    OBVIOUS
<1>4. /\ frames # <<>> /\ f.kind = "compute" /\ f.at = "test" /\ state[x] = "clean"
      /\ AddSource(c, x) /\ frames' = Append(s, g)
    BY <1>2, <1>3 DEF ComputeBranches, On
<1>5. /\ state' = state /\ version' = version /\ value' = value /\ disposed' = disposed
      /\ pending' = pending /\ batch_depth' = batch_depth /\ born' = born /\ over' = over
      /\ seen' = seen /\ fired' = fired /\ reported' = reported
    BY DEF ComputeBranches
<1>6. /\ s \in Seq(Frame) /\ f \in Frame /\ In(frames) = In(s) \cup {f} /\ In(s) \subseteq Frame
      /\ frames[1] = (IF s = <<>> THEN f ELSE s[1])
      /\ batch_depth = Batches(s) /\ StackOK(s) /\ Fits(s, f)
      /\ c \in Comp /\ c \in Node /\ c \notin disposed /\ state[c] = "dirty"
      /\ x \in Deps(c) /\ x \in Readable /\ x # c
      /\ DOMAIN sources[c] = {} /\ x = Prog[c].test
      /\ \A m, o : ~Ahead(m, o)
      /\ \A h \in In(s) :
            /\ FrameOK(h) /\ h.kind # "mark"
            /\ h.kind \in {"run", "compute", "check"} => h.node \in Node /\ h.node # c
            /\ h.kind = "compute" => Prog[h.node].test \in Node
    BY <1>2, <1>3, <1>4, Computing
<1>7. g \in Frame /\ g.kind = "compute" /\ g.node = c /\ g.at = "branch"
  <2>1. f \in Frame /\ f.kind = "compute"
    BY <1>4, <1>6
  <2>2. QED
    BY <1>3, <2>1, ComputeTurn, Zenon
<1>8. Fits(s, g)
    BY <1>3, <1>4, <1>6, <1>7, FitsAlike
<1>9. PushedOn(frames', s, g)
    BY <1>4, <1>6, <1>7, Pushed
<1>10. /\ frames' \in Seq(Frame) /\ frames' # <<>> /\ In(frames') = In(s) \cup {g}
       /\ frames'[1] = (IF s = <<>> THEN g ELSE s[1])
       /\ Batches(frames') = Batches(s) /\ StackOK(frames')
    BY <1>6, <1>7, <1>8, <1>9 DEF PushedOn
<1>11. /\ \A e : IsRun(e)' <=> IsRun(e)
       /\ \A e : IsChecked(e)' <=> IsChecked(e)
       /\ \A m, o : ~Ahead(m, o)'
    BY <1>4, <1>6, <1>7, <1>10 DEF IsRun, IsChecked, Ahead
<1>12. /\ DOMAIN sources'[c] = {x} /\ sources'[c][x] = version[x]
       /\ \A o \in Node : o # c => sources'[o] = sources[o]
       /\ observers' \in [Node -> SUBSET (Comp \cup Eff)]
       /\ DOMAIN sources' = Node
       /\ \A o \in Node : /\ DOMAIN sources'[o] \subseteq Readable
                          /\ sources'[o] \in [DOMAIN sources'[o] -> Nat]
                          /\ \A n \in DOMAIN sources'[o] : sources'[o][n] <= version[n]
       /\ \A n, o \in Node : o \in observers'[n] <=> n \in DOMAIN sources'[o]
    BY <1>4, <1>6, Linked
<1>13. TypeInv'
    BY <1>1, <1>5, <1>10, <1>12 DEF TypeInv
<1>14. EdgeInv'
  <2>1. \A y \in Comp : DOMAIN sources'[y] \subseteq Deps(y)
    BY <1>1, <1>6, <1>12 DEF EdgeInv
  <2>2. \A n \in Node : n \notin Comp => sources'[n] = sources[n]
    BY <1>6, <1>12
  <2>3. \A e \in Eff : e \in Node /\ e \notin Comp
    BY <1>1
  <2>4. \A y \in Sig : y \in Node /\ y \notin Comp
    BY <1>1
  <2>5. QED
    BY <1>1, <1>5, <1>12, <2>1, <2>2, <2>3, <2>4 DEF EdgeInv
<1>15. FrameInv'
  <2>1. FrameOK(g)'
    BY <1>4, <1>5, <1>6, <1>7, <1>12 DEF FrameOK, Fresh
  <2>2. ASSUME NEW h \in In(s) PROVE FrameOK(h)'
    <3>1. CASE h.kind \in {"run", "compute", "check"}
      <4>1. FrameOK(h) /\ h.node \in Node /\ h.node # c /\ sources'[h.node] = sources[h.node]
        BY <1>6, <1>12, <3>1
      <4>2. QED
        BY <1>5, <3>1, <4>1 DEF FrameOK, Fresh
    <3>2. CASE h.kind \notin {"run", "compute", "check"}
      BY <1>6, <3>2 DEF FrameOK
    <3>3. QED
      BY <3>1, <3>2
  <2>3. QED
    BY <1>10, <2>1, <2>2 DEF FrameInv
<1>16. \A o \in Node : o # c => (UpToDate(o)' <=> UpToDate(o))
    BY <1>5, <1>6, <1>11, <1>12 DEF UpToDate, Fresh
<1>17. CompInv'
  <2>1. \A y \in Comp : y # c => y \in Node /\ sources'[y] = sources[y]
    BY <1>1, <1>12
  <2>2. QED
    BY <1>1, <1>5, <1>6, <1>16, <2>1 DEF CompInv, ValueFits, Branch
<1>18. EffInv'
  <2>1. \A e \in Eff : e \in Node /\ e # c /\ sources'[e] = sources[e]
    BY <1>1, <1>6, <1>12
  <2>2. QED
    BY <1>1, <1>5, <1>11, <1>16, <2>1 DEF EffInv, Live
<1>19. QueueInv'
    BY <1>1, <1>4, <1>5, <1>6, <1>10, <1>11 DEF QueueInv, Live
<1>20. FireInv' /\ DisposalInv'
    BY <1>1, <1>4, <1>5, <1>6, <1>7, <1>10, <1>11 DEF FireInv, DisposalInv
<1>21. BatchInv' /\ StackOK(frames')
    BY <1>5, <1>6, <1>10 DEF BatchInv
<1>22. QED
    BY <1>13, <1>14, <1>15, <1>17, <1>18, <1>19, <1>20, <1>21 DEF IInv

(* The version moves when the value does, so whoever still has the           *)
(* version has the value.                                                    *)
LEMMA ComputeEndsStep ==
  ASSUME IInv, ComputeEnds
  PROVE  IInv'
<1>1. /\ TypeInv /\ EdgeInv /\ DisposalInv /\ StackOK(frames) /\ BatchInv /\ FrameInv
      /\ CompInv /\ EffInv /\ QueueInv /\ FireInv
      /\ In(pending) \subseteq Eff /\ Live \subseteq Eff
      /\ \A o \in Node : DOMAIN sources[o] \subseteq Readable
      /\ Node = Readable \cup Eff /\ Readable = Sig \cup Comp /\ Readable \cap Eff = {}
      /\ Comp \cap Eff = {} /\ Sig \cap Comp = {}
    BY Basics
<1>2. PICK s, f : s = Front(frames) /\ f = Last(frames)
    OBVIOUS
<1>3. PICK c, x, v : c = f.node /\ x = Operand(f) /\ v = value[x]
    OBVIOUS
<1>4. /\ frames # <<>> /\ f.kind = "compute" /\ f.at = "branch" /\ state[x] = "clean"
      /\ AddSource(c, x) /\ frames' = s
      /\ value' = [value EXCEPT ![c] = v]
      /\ version' = [version EXCEPT ![c] = IF value[c] # v THEN @ + 1 ELSE @]
      /\ state' = [state EXCEPT ![c] = "clean"]
    BY <1>2, <1>3 DEF ComputeEnds, On
<1>5. /\ disposed' = disposed /\ pending' = pending /\ batch_depth' = batch_depth
      /\ born' = born /\ over' = over /\ seen' = seen /\ fired' = fired /\ reported' = reported
    BY DEF ComputeEnds
<1>6. /\ s \in Seq(Frame) /\ f \in Frame /\ In(frames) = In(s) \cup {f} /\ In(s) \subseteq Frame
      /\ frames[1] = (IF s = <<>> THEN f ELSE s[1])
      /\ batch_depth = Batches(s) /\ StackOK(s) /\ Fits(s, f)
      /\ c \in Comp /\ c \in Node /\ c \notin disposed /\ state[c] = "dirty"
      /\ x \in Deps(c) /\ x \in Readable /\ x # c
      /\ Prog[c].test \in Readable /\ Prog[c].test # c
      /\ DOMAIN sources[c] = {Prog[c].test} /\ Fresh(c, Prog[c].test) /\ x = Branch(c)
      /\ \A m, o : ~Ahead(m, o)
      /\ \A h \in In(s) :
            /\ FrameOK(h) /\ h.kind # "mark"
            /\ h.kind \in {"run", "compute", "check"} => h.node \in Node /\ h.node # c
            /\ h.kind = "compute" => Prog[h.node].test \in Node
    BY <1>2, <1>3, <1>4, Computing
<1>7. /\ \A e : IsRun(e)' <=> IsRun(e)
      /\ \A e : IsChecked(e)' <=> IsChecked(e)
      /\ \A m, o : ~Ahead(m, o)'
    BY <1>4, <1>6 DEF IsRun, IsChecked, Ahead
<1>8. /\ DOMAIN sources'[c] = {Prog[c].test, x}
      /\ sources'[c][Prog[c].test] = sources[c][Prog[c].test]
      /\ x # Prog[c].test => sources'[c][x] = version[x]
      /\ \A o \in Node : o # c => sources'[o] = sources[o]
      /\ observers' \in [Node -> SUBSET (Comp \cup Eff)]
      /\ DOMAIN sources' = Node
      /\ \A o \in Node : /\ DOMAIN sources'[o] \subseteq Readable
                         /\ sources'[o] \in [DOMAIN sources'[o] -> Nat]
                         /\ \A n \in DOMAIN sources'[o] : sources'[o][n] <= version[n]
      /\ \A n, o \in Node : o \in observers'[n] <=> n \in DOMAIN sources'[o]
  <2>1. /\ DOMAIN sources'[c] = DOMAIN sources[c] \cup {x}
        /\ \A n \in DOMAIN sources[c] : sources'[c][n] = sources[c][n]
        /\ x \notin DOMAIN sources[c] => sources'[c][x] = version[x]
        /\ \A o \in Node : o # c => sources'[o] = sources[o]
        /\ observers' \in [Node -> SUBSET (Comp \cup Eff)]
        /\ DOMAIN sources' = Node
        /\ \A o \in Node : /\ DOMAIN sources'[o] \subseteq Readable
                           /\ sources'[o] \in [DOMAIN sources'[o] -> Nat]
                           /\ \A n \in DOMAIN sources'[o] : sources'[o][n] <= version[n]
        /\ \A n, o \in Node : o \in observers'[n] <=> n \in DOMAIN sources'[o]
    BY <1>4, <1>6, Linked
  <2>2. QED
    BY <1>6, <2>1
<1>9. /\ \A n \in Node : n # c => state'[n] = state[n] /\ version'[n] = version[n]
      /\ \A n \in Readable : n # c => value'[n] = value[n]
      /\ state'[c] = "clean" /\ value'[c] = v
      /\ version[c] \in Nat
      /\ (version'[c] = version[c] /\ v = value[c]) \/ version'[c] = version[c] + 1
      /\ \A n \in Readable : n \in Node
    BY <1>1, <1>4, <1>6 DEF TypeInv
<1>10. TypeInv'
  <2>1. v \in Value \cup {None}
    BY <1>1, <1>3, <1>6 DEF TypeInv
  <2>2. /\ state \in [Node -> States] /\ version \in [Node -> Nat]
        /\ value \in [Readable -> Value \cup {None}]
    BY <1>1 DEF TypeInv
  <2>3. state' \in [Node -> States]
    BY <1>4, <1>6, <2>2 DEF States
  <2>4. value' \in [Readable -> Value \cup {None}]
    BY <1>4, <2>1, <2>2
  <2>5. version' \in [Node -> Nat]
    <3>1. (IF value[c] # v THEN version[c] + 1 ELSE version[c]) \in Nat
      BY <1>9
    <3>2. QED
      BY <1>4, <2>2, <3>1
  <2>6. QED
    BY <1>1, <1>4, <1>5, <1>6, <1>8, <2>3, <2>4, <2>5 DEF TypeInv
<1>11. EdgeInv'
  <2>1. \A y \in Comp : DOMAIN sources'[y] \subseteq Deps(y)
    BY <1>1, <1>6, <1>8 DEF EdgeInv, Deps
  <2>2. \A n \in Node : n \notin Comp => sources'[n] = sources[n]
    BY <1>6, <1>8
  <2>3. \A e \in Eff : e \in Node /\ e \notin Comp
    BY <1>1
  <2>4. \A y \in Sig : y \in Node /\ y \in Readable /\ y \notin Comp /\ y # c
    BY <1>1, <1>6
  <2>5. \A o \in Node : \A n \in DOMAIN sources'[o] : sources'[o][n] <= version'[n]
    <3>1. TAKE o \in Node
    <3>2. TAKE n \in DOMAIN sources'[o]
    <3>3. n \in Node /\ sources'[o][n] \in Nat /\ sources'[o][n] <= version[n]
      BY <1>8, <1>9
    <3>4. QED
      BY <1>9, <3>3
  <2>6. \A y \in Sig : state'[y] = "clean" /\ value'[y] \in Value /\ DOMAIN sources'[y] = {}
    BY <1>1, <1>9, <2>2, <2>4 DEF EdgeInv
  <2>7. QED
    BY <1>1, <1>5, <1>8, <2>1, <2>2, <2>3, <2>5, <2>6 DEF EdgeInv
<1>12. ASSUME NEW o \in Node, o # c, NEW n \in Node, Fresh(o, n) PROVE Fresh(o, n)'
  <2>1. n # c
    BY <1>6, <1>12 DEF Fresh
  <2>2. QED
    BY <1>8, <1>9, <1>12, <2>1 DEF Fresh
<1>13. FrameInv'
  <2>1. ASSUME NEW h \in In(s) PROVE FrameOK(h)'
    <3>1. CASE h.kind \in {"run", "compute", "check"}
      <4>1. /\ FrameOK(h) /\ h.node \in Node /\ h.node # c /\ sources'[h.node] = sources[h.node]
            /\ state'[h.node] = state[h.node]
            /\ h.kind = "compute" => Prog[h.node].test \in Node
        BY <1>6, <1>8, <1>9, <3>1
      <4>2. \A n \in DOMAIN sources[h.node] : n \in Node
        BY <1>1, <4>1
      <4>3. CASE h.kind = "run"
        BY <1>5, <4>1, <4>3 DEF FrameOK
      <4>4. CASE h.kind = "compute"
        BY <1>5, <1>12, <4>1, <4>4 DEF FrameOK
      <4>5. CASE h.kind = "check"
        BY <1>5, <1>12, <4>1, <4>2, <4>5 DEF FrameOK
      <4>6. QED
        BY <3>1, <4>3, <4>4, <4>5
    <3>2. CASE h.kind \notin {"run", "compute", "check"}
      BY <1>6, <3>2 DEF FrameOK
    <3>3. QED
      BY <3>1, <3>2
  <2>2. QED
    BY <1>4, <2>1 DEF FrameInv
<1>14. \A o \in Node : o # c /\ UpToDate(o) => UpToDate(o)'
  <2>1. SUFFICES ASSUME NEW o \in Node, o # c, UpToDate(o), NEW n \in DOMAIN sources[o]
                 PROVE  Fresh(o, n)'
    BY <1>8 DEF UpToDate
  <2>2. n \in Node /\ Fresh(o, n)
    BY <1>1, <1>6, <2>1 DEF UpToDate
  <2>3. QED
    BY <1>12, <2>1, <2>2
\* A version that is still the one read stands for a value that is the same.
<1>15. ASSUME NEW o \in Node, o # c, NEW n \in DOMAIN sources[o], sources[o][n] = version'[n]
       PROVE  sources[o][n] = version[n] /\ value'[n] = value[n]
  <2>1. n \in Node /\ n \in Readable /\ sources[o][n] \in Nat /\ sources[o][n] <= version[n]
    BY <1>1, <1>9 DEF TypeInv, EdgeInv
  <2>2. CASE n = c
    BY <1>9, <1>15, <2>1, <2>2
  <2>3. CASE n # c
    BY <1>9, <1>15, <2>1, <2>3
  <2>4. QED
    BY <2>2, <2>3
<1>16. CompInv'
  <2>1. ASSUME NEW y \in Comp \ disposed, y # c
        PROVE  /\ state'[y] = "clean" => UpToDate(y)'
               /\ state'[y] # "dirty" => ValueFits(y)'
    <3>1. /\ y \in Node /\ y \in Readable /\ sources'[y] = sources[y] /\ state'[y] = state[y]
          /\ value'[y] = value[y]
      BY <1>1, <1>8, <1>9, <2>1
    <3>2. state'[y] = "clean" => UpToDate(y)'
      BY <1>1, <1>14, <2>1, <3>1 DEF CompInv
    <3>3. ASSUME state'[y] # "dirty" PROVE ValueFits(y)'
      <4>1. ValueFits(y)
        BY <1>1, <2>1, <3>1, <3>3 DEF CompInv
      <4>2. Prog[y].test \in DOMAIN sources[y]
        BY <4>1 DEF ValueFits
      <4>3. ASSUME sources[y][Prog[y].test] = version'[Prog[y].test]
            PROVE  /\ Branch(y)' = Branch(y) /\ Branch(y) \in DOMAIN sources[y]
                   /\ sources[y][Branch(y)] = version[Branch(y)] => value[y] = value[Branch(y)]
        <5>1. /\ sources[y][Prog[y].test] = version[Prog[y].test]
              /\ value'[Prog[y].test] = value[Prog[y].test]
          BY <1>15, <2>1, <3>1, <4>2, <4>3
        <5>2. QED
          BY <4>1, <5>1 DEF ValueFits, Branch
      <4>4. ASSUME sources[y][Prog[y].test] = version'[Prog[y].test],
                   sources[y][Branch(y)] = version'[Branch(y)]
            PROVE  value'[y] = value'[Branch(y)]
        <5>1. Branch(y) \in DOMAIN sources[y]
          BY <4>3, <4>4
        <5>2. sources[y][Branch(y)] = version[Branch(y)] /\ value'[Branch(y)] = value[Branch(y)]
          BY <1>15, <2>1, <3>1, <4>4, <5>1
        <5>3. QED
          BY <3>1, <4>3, <4>4, <5>2
      <4>5. QED
        BY <3>1, <4>2, <4>3, <4>4 DEF ValueFits
    <3>4. QED
      BY <3>2, <3>3
  <2>2. Branch(c)' = x
    BY <1>6, <1>9 DEF Branch
  <2>3. UpToDate(c)'
    <3>1. Fresh(c, Prog[c].test)'
      BY <1>6, <1>8, <1>9 DEF Fresh
    <3>2. x # Prog[c].test => Fresh(c, x)'
      BY <1>4, <1>6, <1>8, <1>9 DEF Fresh
    <3>3. QED
      BY <1>8, <3>1, <3>2 DEF UpToDate
  <2>4. ValueFits(c)'
    <3>1. Prog[c].test \in DOMAIN sources'[c] /\ Branch(c)' \in DOMAIN sources'[c]
      BY <1>8, <2>2
    <3>2. value'[c] = value'[Branch(c)']
      BY <1>3, <1>6, <1>9, <2>2
    <3>3. QED
      BY <3>1, <3>2 DEF ValueFits
  <2>5. QED
    BY <1>5, <2>1, <2>3, <2>4 DEF CompInv
<1>17. EffInv'
  <2>1. SUFFICES ASSUME NEW e \in Live
                 PROVE  /\ \A n \in Readable : seen[e][n] # None => n \in DOMAIN sources'[e]
                        /\ \A n \in DOMAIN sources'[e] :
                              sources'[e][n] = version'[n] => seen[e][n] = value'[n]
                        /\ e \in Calm /\ (state'[e] = "clean" \/ IsRun(e)) => UpToDate(e)'
    BY <1>5, <1>7 DEF EffInv, Live
  <2>2. e \in Node /\ e # c /\ sources'[e] = sources[e] /\ state'[e] = state[e]
    BY <1>1, <1>6, <1>8, <1>9
  <2>3. \A n \in DOMAIN sources'[e] :
           sources'[e][n] = version'[n] => seen[e][n] = value'[n]
    BY <1>1, <1>15, <2>1, <2>2 DEF EffInv
  <2>4. QED
    BY <1>1, <1>14, <2>1, <2>2, <2>3 DEF EffInv
<1>18. QueueInv'
  <2>1. \A e \in Eff : state'[e] = state[e]
    BY <1>1, <1>6, <1>9
  <2>2. QED
    BY <1>1, <1>4, <1>5, <1>6, <1>7, <2>1 DEF QueueInv, Live
<1>19. FireInv' /\ DisposalInv'
    BY <1>1, <1>4, <1>5, <1>6, <1>7 DEF FireInv, DisposalInv
<1>20. BatchInv' /\ StackOK(frames')
    BY <1>4, <1>5, <1>6 DEF BatchInv
<1>21. QED
    BY <1>10, <1>11, <1>13, <1>16, <1>17, <1>18, <1>19, <1>20 DEF IInv

-----------------------------------------------------------------------------
(* The invariant.                                                            *)

(* At first there are no edges, and every computed is dirty.                 *)
LEMMA InitInv == Init => IInv
<1> SUFFICES ASSUME Init PROVE IInv
    OBVIOUS
<1>1. /\ state = [n \in Node |-> IF n \in Comp THEN "dirty" ELSE "clean"]
      /\ version = [n \in Node |-> 0]
      /\ value = [n \in Readable |-> IF n \in Sig THEN 0 ELSE None]
      /\ sources = [n \in Node |-> NoSources]
      /\ observers = [n \in Node |-> {}]
      /\ disposed = {} /\ pending = <<>>
      /\ frames = <<>> /\ batch_depth = 0
      /\ born = {} /\ over = FALSE
      /\ seen = [e \in Eff |-> [n \in Readable |-> None]]
      /\ fired = [e \in Eff |-> 0]
      /\ reported = FALSE
    BY DEF Init
<1>2. /\ DOMAIN NoSources = {} /\ NoSources \in [{} -> Nat]
      /\ Node = Readable \cup Eff /\ Readable = Sig \cup Comp
      /\ Sig \cap Comp = {} /\ Sig \cap Eff = {} /\ Comp \cap Eff = {}
    BY NodesAreApart DEF NoSources, Node, Readable
<1>3. In(<<>>) = {} /\ Batches(<<>>) = 0 /\ StackOK(<<>>)
    BY EmptyStack
<1>4. <<>> \in Seq(Eff) /\ <<>> \in Seq(Frame) /\ Len(<<>>) = 0
    BY EmptySeq
<1>5. TypeInv
  <2>1. /\ state \in [Node -> States] /\ version \in [Node -> Nat]
        /\ observers \in [Node -> SUBSET (Comp \cup Eff)]
        /\ DOMAIN sources = Node
        /\ fired \in [Eff -> Nat]
    BY <1>1 DEF States
  <2>2. value \in [Readable -> Value \cup {None}]
    BY <1>1 DEF Value
  <2>3. seen \in [Eff -> [Readable -> Value \cup {None}]]
    BY <1>1
  <2>4. \A o \in Node : /\ DOMAIN sources[o] \subseteq Readable
                         /\ sources[o] \in [DOMAIN sources[o] -> Nat]
    BY <1>1, <1>2
  <2>5. QED
    BY <1>1, <1>4, <2>1, <2>2, <2>3, <2>4 DEF TypeInv
<1>6. EdgeInv
  <2>1. \A o \in Node : DOMAIN sources[o] = {}
    BY <1>1, <1>2
  <2>2. \A s \in Sig : s \in Node /\ s \in Readable /\ s \notin Comp
    BY <1>2
  <2>3. \A s \in Sig : state[s] = "clean" /\ value[s] \in Value
    BY <1>1, <2>2 DEF Value
  <2>4. \A o : o \in Comp \cup Eff => o \in Node
    BY <1>2
  <2>5. \A n, o \in Node : o \notin observers[n]
    BY <1>1
  <2>6. QED
    BY <2>1, <2>2, <2>3, <2>4, <2>5 DEF EdgeInv
<1>7. DisposalInv /\ FrameInv /\ StackOK(frames) /\ BatchInv
    BY <1>1, <1>3 DEF DisposalInv, FrameInv, BatchInv
<1>8. CompInv
    BY <1>1, <1>2 DEF CompInv
<1>9. EffInv /\ FireInv
  <2>1. EffInv
    BY <1>1 DEF EffInv, Live
  <2>2. \A e \in Unfed : e \in Eff /\ fired[e] = 0
    BY <1>1 DEF Unfed
  <2>3. QED
    BY <2>1, <2>2 DEF FireInv
<1>10. QueueInv
  <2>1. In(pending) = {} /\ 1 .. Len(pending) = {} /\ Live = {} /\ pending = <<>>
    BY <1>1, <1>3, <1>4 DEF Live
  <2>2. QED
    BY <2>1 DEF QueueInv
<1>11. QED
    BY <1>5, <1>6, <1>7, <1>8, <1>9, <1>10 DEF IInv

(* A step that changes no variable keeps the invariant.                      *)
LEMMA Stuttering == ASSUME IInv, UNCHANGED vars PROVE IInv'
<1>1. /\ state' = state /\ version' = version /\ value' = value /\ sources' = sources
      /\ observers' = observers /\ disposed' = disposed /\ pending' = pending
      /\ frames' = frames /\ batch_depth' = batch_depth /\ born' = born /\ over' = over
      /\ seen' = seen /\ fired' = fired /\ reported' = reported
    BY DEF vars, graph
<1>2. TypeInv' /\ EdgeInv' /\ DisposalInv' /\ StackOK(frames')
    BY <1>1, Basics DEF TypeInv, EdgeInv, DisposalInv
<1>3. BatchInv' /\ FrameInv'
    BY <1>1, Basics DEF BatchInv, FrameInv, FrameOK, Fresh
<1>4. /\ \A e : IsRun(e)' <=> IsRun(e)
      /\ \A e : IsChecked(e)' <=> IsChecked(e)
      /\ \A o : UpToDate(o)' <=> UpToDate(o)
      /\ Live' = Live
    BY <1>1 DEF IsRun, IsChecked, UpToDate, Ahead, Fresh, Live
<1>5. CompInv' /\ EffInv'
    BY <1>1, <1>4, Basics DEF CompInv, ValueFits, Branch, EffInv
<1>6. QueueInv' /\ FireInv'
    BY <1>1, <1>4, Basics DEF QueueInv, FireInv
<1>7. QED
    BY <1>2, <1>3, <1>5, <1>6 DEF IInv

(* The invariant holds in every state: each step of the code preserves it.   *)
LEMMA Invariance == Spec => []IInv
<1>1. ASSUME IInv, Next PROVE IInv'
  <2>1. \A n \in Readable : Get(n) \/ Pull(n) \/ CheckSource(n) => IInv'
    BY <1>1, GetStep, PullStep, CheckSourceStep
  <2>2. GetReturns \/ ComputeBranches \/ ComputeEnds \/ CheckEnds => IInv'
    BY <1>1, GetReturnsStep, ComputeBranchesStep, ComputeEndsStep, CheckEndsStep
  <2>3. \A s \in Sig, v \in Value : Set(s, v) => IInv'
    BY <1>1, SetStep
  <2>4. \A o \in Node : MarkObserver(o) => IInv'
    BY <1>1, MarkObserverStep
  <2>5. MarkEnds \/ BatchBegin \/ BatchEnd \/ Return \/ DisposeDomain => IInv'
    BY <1>1, MarkEndsStep, BatchBeginStep, BatchEndStep, ReturnStep, DisposeDomainStep
  <2>6. \A e \in Eff : NewEffect(e) \/ DisposeEffect(e) => IInv'
    BY <1>1, NewEffectStep, DisposeEffectStep
  <2>7. FlushNext \/ FlushAbort \/ FlushDone => IInv'
    BY <1>1, FlushNextStep, FlushAbortStep, FlushDoneStep
  <2>8. QED
    BY <1>1, <2>1, <2>2, <2>3, <2>4, <2>5, <2>6, <2>7 DEF Next
<1>2. ASSUME IInv, [Next]_vars PROVE IInv'
    BY <1>1, <1>2, Stuttering
<1>3. QED
    BY InitInv, <1>2, PTL DEF Spec

(* Every variable keeps its type, and batch_depth counts the calls of batch()*)
(* that are open (Reactive.batch, reactive.vt).                              *)
THEOREM TypesHold == Spec => []TypeOK
<1>1. IInv => TypeOK
  <2>1. SUFFICES ASSUME IInv PROVE TypeOK
    OBVIOUS
  <2>2. TypeInv /\ BatchInv
    BY <2>1 DEF IInv
  <2>3. DOMAIN frames = 1 .. Len(frames)
    BY <2>2, LenProperties DEF TypeInv
  <2>4. batch_depth = Cardinality({i \in DOMAIN frames : frames[i].kind = "batch"})
    BY <2>2, <2>3 DEF BatchInv, Batches
  <2>5. QED
    BY <2>2, <2>4 DEF TypeOK, TypeInv, States
<1>2. QED
    BY Invariance, <1>1, PTL

(* An effect whose sources no effect writes fires at most once per write, or *)
(* per batch: schedule() queues it when it leaves CLEAN, and until it has    *)
(* run nothing marks it again.                                               *)
THEOREM EffectsFireOnce == Spec => []FiresOnce
<1>1. IInv => FiresOnce
    BY DEF IInv, FireInv, FiresOnce
<1>2. QED
    BY Invariance, <1>1, PTL

-----------------------------------------------------------------------------
(* Disposal.                                                                 *)

(* An element of a queue, in the words of Contains.                          *)
LEMMA ContainsIn ==
  ASSUME NEW S, NEW q \in Seq(S), NEW x
  PROVE  Contains(q, x) <=> x \in In(q)
<1>1. DOMAIN q = 1 .. Len(q)
    BY LenProperties
<1>2. QED
    BY <1>1 DEF Contains, In

\* A stack that runs no more than the one there is.
Quiet(t) == t \in Seq(Frame) /\ \A h \in In(t) : h.kind = "run" => IsRun(h.node)

(* Taking a frame off, or pushing one that is no run, runs nothing.          *)
LEMMA QuietStacks ==
  ASSUME TypeInv, StackOK(frames)
  PROVE  /\ Quiet(frames)
         /\ frames # <<>> => Quiet(Front(frames)) /\ Last(frames) \in Frame
         /\ \A t, g : Quiet(t) /\ g \in Frame /\ g.kind # "run" => Quiet(Append(t, g))
<1>1. Quiet(frames)
    BY DEF Quiet, TypeInv, IsRun
<1>2. ASSUME frames # <<>> PROVE Quiet(Front(frames)) /\ Last(frames) \in Frame
  <2>1. /\ Front(frames) \in Seq(Frame) /\ Last(frames) \in Frame
        /\ In(frames) = In(Front(frames)) \cup {Last(frames)}
    BY <1>2, TopFrame
  <2>2. QED
    BY <1>1, <2>1 DEF Quiet
<1>3. ASSUME NEW t, NEW g, Quiet(t), g \in Frame, g.kind # "run" PROVE Quiet(Append(t, g))
  <2>1. Append(t, g) \in Seq(Frame) /\ In(Append(t, g)) = In(t) \cup {g}
    BY <1>3, AppendFacts DEF Quiet
  <2>2. QED
    BY <1>3, <2>1 DEF Quiet
<1>4. QED
    BY <1>1, <1>2, <1>3

(* A node that is not disposed recomputes, or is created.                    *)
LEMMA QuietRecompute ==
  ASSUME TypeInv, NEW t, Quiet(t), NEW n \in Comp \cup Eff, Recompute(n, t), NEW e, e # n
  PROVE  IsRun(e)' => IsRun(e)
<1>1. PICK g : g = IF n \in Eff THEN RunFrame(n) ELSE ComputeFrame(n)
    OBVIOUS
<1>2. g \in Frame /\ (g.kind = "run" => g.node = n)
  <2>1. CASE n \in Eff
    BY <1>1, <2>1, NewFrames DEF RunFrame
  <2>2. CASE n \notin Eff
    BY <1>1, <2>2, NewFrames DEF ComputeFrame
  <2>3. QED
    BY <2>1, <2>2
<1>3. frames' = Append(t, g) /\ t \in Seq(Frame)
    BY <1>1 DEF Recompute, Quiet
<1>4. In(frames') = In(t) \cup {g}
    BY <1>2, <1>3, AppendFacts
<1>5. QED
    BY <1>2, <1>4 DEF Quiet, IsRun

(* update() returns at once for a disposed node.                             *)
LEMMA QuietUpdate ==
  ASSUME TypeInv, StackOK(frames), NEW t, Quiet(t), NEW n \in Comp \cup Eff, Update(n, t),
         NEW e \in disposed
  PROVE  IsRun(e)' => IsRun(e)
<1>1. CASE Recompute(n, t)
    BY <1>1, QuietRecompute DEF Update
<1>2. CASE frames' = Append(t, CheckFrame(n))
  <2>1. CheckFrame(n) \in Frame /\ CheckFrame(n).kind # "run"
    BY NewFrames DEF CheckFrame
  <2>2. Quiet(frames')
    BY <1>2, <2>1, QuietStacks
  <2>3. QED
    BY <2>2 DEF Quiet, IsRun
<1>3. QED
    BY <1>1, <1>2 DEF Update

(* Calls and returns that push no run.                                       *)
LEMMA QuietCalls ==
  ASSUME IInv, NEW e,
         \/ \E n \in Readable : Get(n) \/ CheckSource(n)
         \/ GetReturns \/ ComputeBranches \/ ComputeEnds
         \/ \E s \in Sig, v \in Value : Set(s, v)
         \/ \E o \in Node : MarkObserver(o)
         \/ MarkEnds \/ BatchBegin \/ BatchEnd
         \/ \E d \in Eff : DisposeEffect(d)
         \/ Return \/ DisposeDomain \/ FlushAbort \/ FlushDone
  PROVE  IsRun(e)' => IsRun(e)
<1>1. TypeInv /\ StackOK(frames)
    BY Basics
<1>2. PICK s, f : s = Front(frames) /\ f = Last(frames)
    OBVIOUS
<1>3. /\ Quiet(frames)
      /\ frames # <<>> => Quiet(s) /\ f \in Frame
      /\ \A t, g : Quiet(t) /\ g \in Frame /\ g.kind # "run" => Quiet(Append(t, g))
    BY <1>1, <1>2, QuietStacks, Zenon
<1>4. /\ \A n \in Readable : GetFrame(n) \in Frame /\ GetFrame(n).kind # "run"
      /\ \A n \in Node : MarkFrame(n) \in Frame /\ MarkFrame(n).kind # "run"
      /\ FlushFrame \in Frame /\ FlushFrame.kind # "run"
      /\ BatchFrame \in Frame /\ BatchFrame.kind # "run"
    BY <1>1, NewFrames DEF GetFrame, MarkFrame, FlushFrame, BatchFrame
<1>5. /\ \A n \in Readable : Quiet(Append(frames, GetFrame(n)))
      /\ \A n \in Node : Quiet(Append(frames, MarkFrame(n)))
      /\ Quiet(Append(frames, BatchFrame))
      /\ frames # <<>> => Quiet(Append(s, FlushFrame))
    BY <1>3, <1>4
<1>6. Quiet(frames')
  <2>1. CASE \E n \in Readable : Get(n)
    BY <1>5, <2>1 DEF Get
  <2>2. CASE \E n \in Readable : CheckSource(n)
    <3>1. PICK n \in Readable : CheckSource(n)
      BY <2>2
    <3>2. frames # <<>> /\ f.kind = "check" /\ frames' = Append(s, Compared(f, n)) /\ n \in f.todo
      BY <1>2, <3>1 DEF CheckSource, On
    <3>3. Compared(f, n) \in Frame /\ Compared(f, n).kind = "check"
      BY <1>3, <3>2, CheckTurn
    <3>4. QED
      BY <1>3, <3>2, <3>3
  <2>3. CASE GetReturns \/ ComputeEnds \/ Return \/ FlushAbort \/ FlushDone
    BY <1>2, <1>3, <2>3 DEF GetReturns, ComputeEnds, Return, FlushAbort, FlushDone, On
  <2>4. CASE ComputeBranches
    <3>1. PICK g : g = [f EXCEPT !.at = "branch"]
      OBVIOUS
    <3>2. frames # <<>> /\ f.kind = "compute" /\ frames' = Append(s, g)
      BY <1>2, <2>4, <3>1 DEF ComputeBranches, On
    <3>3. f \in Frame
      BY <1>3, <3>2
    <3>4. g \in Frame /\ g.kind = "compute"
      BY <3>1, <3>2, <3>3, ComputeTurn, Zenon
    <3>5. QED
      BY <1>3, <3>2, <3>4
  <2>5. CASE \E y \in Sig, v \in Value : Set(y, v)
    BY <1>5, <2>5 DEF Set, Node, Readable
  <2>6. CASE \E o \in Node : MarkObserver(o)
    <3>1. PICK o \in Node : MarkObserver(o)
      BY <2>6
    <3>2. PICK g : g = [f EXCEPT !.todo = @ \ {o}]
      OBVIOUS
    <3>3. /\ frames # <<>> /\ f.kind = "mark"
          /\ frames' = Append(s, g) \/ frames' = Append(Append(s, g), MarkFrame(o))
      BY <1>2, <3>1, <3>2 DEF MarkObserver, On
    <3>4. f \in Frame
      BY <1>3, <3>3
    <3>5. g \in Frame /\ g.kind = "mark"
      BY <3>2, <3>3, <3>4, MarkTurn, Zenon
    <3>6. Quiet(Append(s, g))
      BY <1>3, <3>3, <3>5
    <3>7. QED
      BY <1>3, <1>4, <3>3, <3>6
  <2>7. CASE MarkEnds
    BY <1>2, <1>3, <1>5, <2>7 DEF MarkEnds, AfterWrite, On
  <2>8. CASE BatchBegin
    BY <1>5, <2>8 DEF BatchBegin
  <2>9. CASE BatchEnd
    BY <1>2, <1>3, <1>5, <2>9 DEF BatchEnd, On
  <2>10. CASE (\E d \in Eff : DisposeEffect(d)) \/ DisposeDomain
    BY <1>3, <2>10 DEF DisposeEffect, DisposeDomain
  <2>11. QED
    BY <2>1, <2>2, <2>3, <2>4, <2>5, <2>6, <2>7, <2>8, <2>9, <2>10
<1>7. QED
    BY <1>6 DEF Quiet, IsRun

(* Everything else that may run something.                                   *)
LEMMA QuietRuns ==
  ASSUME IInv, NEW e \in disposed \cap Eff,
         \/ \E n \in Readable : Pull(n)
         \/ \E d \in Eff : NewEffect(d)
         \/ CheckEnds \/ FlushNext
  PROVE  IsRun(e)' => IsRun(e)
<1>1. /\ TypeInv /\ StackOK(frames) /\ FrameInv /\ QueueInv /\ DisposalInv
      /\ Readable = Sig \cup Comp /\ EdgeInv
    BY Basics
<1>2. PICK s, f : s = Front(frames) /\ f = Last(frames)
    OBVIOUS
<1>3. /\ Quiet(frames)
      /\ frames # <<>> => Quiet(s) /\ f \in Frame /\ In(frames) = In(s) \cup {f}
      /\ \A t, g : Quiet(t) /\ g \in Frame /\ g.kind # "run" => Quiet(Append(t, g))
  <2>1. frames # <<>> => In(frames) = In(s) \cup {f}
    BY <1>1, <1>2, TopFrame
  <2>2. QED
    BY <1>1, <1>2, <2>1, QuietStacks, Zenon
<1>4. CASE \E n \in Readable : Pull(n)
  <2>1. PICK n \in Readable : Update(n, frames)
    BY <1>4 DEF Pull
  <2>2. n \in Comp
    BY <1>1, <2>1 DEF Update, EdgeInv
  <2>3. QED
    BY <1>1, <1>3, <2>1, <2>2, QuietUpdate
<1>5. CASE \E d \in Eff : NewEffect(d)
  <2>1. PICK d \in Eff : Recompute(d, frames) /\ d \notin born
    BY <1>5 DEF NewEffect
  <2>2. e # d
    BY <1>1, <2>1 DEF DisposalInv
  <2>3. QED
    BY <1>1, <1>3, <2>1, <2>2, QuietRecompute
<1>6. CASE CheckEnds
  <2>1. frames # <<>> /\ f.kind = "check" /\ (frames' = s \/ Recompute(f.node, s))
    BY <1>2, <1>6 DEF CheckEnds, On
  <2>2. f.node \in Comp \cup Eff /\ f.node \notin disposed
    BY <1>1, <1>3, <2>1, FrameKinds DEF FrameInv, FrameOK
  <2>3. CASE frames' = s
    BY <1>3, <2>1, <2>3 DEF Quiet, IsRun
  <2>4. CASE Recompute(f.node, s)
    BY <1>1, <1>3, <2>1, <2>2, <2>4, QuietRecompute
  <2>5. QED
    BY <2>1, <2>3, <2>4
<1>7. CASE FlushNext
  <2>1. PICK g : g = [f EXCEPT !.guard = @ + 1]
    OBVIOUS
  <2>2. PICK d : d = Head(pending)
    OBVIOUS
  <2>3. /\ frames # <<>> /\ f.kind = "flush" /\ pending # <<>>
        /\ Update(d, Append(s, g)) \/ frames' = Append(s, g)
    BY <1>2, <1>7, <2>1, <2>2 DEF FlushNext, On
  <2>4. d \in Eff
    BY <1>1, <2>2, <2>3, Dequeued DEF TypeInv, QueueInv
  <2>5. f \in Frame
    BY <1>3, <2>3
  <2>6. g \in Frame /\ g.kind = "flush"
    BY <2>1, <2>3, <2>5, FlushTurn, Zenon
  <2>7. Quiet(Append(s, g))
    BY <1>3, <2>3, <2>6
  <2>8. CASE frames' = Append(s, g)
    BY <2>7, <2>8 DEF Quiet, IsRun
  <2>9. CASE Update(d, Append(s, g))
    BY <1>1, <2>4, <2>7, <2>9, QuietUpdate
  <2>10. QED
    BY <2>3, <2>8, <2>9
<1>8. QED
    BY <1>4, <1>5, <1>6, <1>7

(* Reactive.schedule is called for nodes that mark() does not return early   *)
(* for; the queue only shrinks otherwise.                                    *)
LEMMA QuietQueue ==
  ASSUME IInv, Next, NEW e \in disposed \cap Eff, e \in In(pending')
  PROVE  e \in In(pending)
<1>1. TypeInv /\ QueueInv
    BY Basics
<1>2. CASE pending' = pending
    BY <1>2
<1>3. CASE pending' = <<>>
    BY <1>3, EmptyStack
<1>4. CASE FlushNext
  <2>1. pending # <<>> /\ pending' = Tail(pending)
    BY <1>4 DEF FlushNext
  <2>2. In(pending) = In(Tail(pending)) \cup {Head(pending)}
    BY <1>1, <2>1, Dequeued DEF TypeInv, QueueInv
  <2>3. QED
    BY <2>1, <2>2
<1>5. CASE \E o \in Node : MarkObserver(o)
  <2>1. PICK o \in Node : \/ pending' = pending
                          \/ o \notin disposed /\ pending' = Append(pending, o) /\ o \in Eff
    BY <1>5 DEF MarkObserver, Scheduled, Ignores
  <2>2. CASE o \notin disposed /\ pending' = Append(pending, o) /\ o \in Eff
    <3>1. In(pending') = In(pending) \cup {o}
      BY <1>1, <2>2, AppendFacts DEF TypeInv
    <3>2. QED
      BY <2>2, <3>1
  <2>3. QED
    BY <1>2, <2>1, <2>2
<1>6. QED
  <2>1. CASE \/ \E n \in Readable : Get(n) \/ Pull(n) \/ CheckSource(n)
             \/ GetReturns \/ ComputeBranches \/ ComputeEnds \/ CheckEnds
    BY <1>2, <2>1 DEF Get, Pull, CheckSource, GetReturns, ComputeBranches, ComputeEnds,
                      CheckEnds, graph
  <2>2. CASE \/ \E s \in Sig, v \in Value : Set(s, v)
             \/ MarkEnds \/ BatchBegin \/ BatchEnd \/ FlushDone \/ Return
             \/ \E d \in Eff : NewEffect(d) \/ DisposeEffect(d)
    BY <1>2, <2>2 DEF Set, MarkEnds, BatchBegin, BatchEnd, FlushDone, Return, NewEffect,
                      DisposeEffect, graph
  <2>3. CASE DisposeDomain \/ FlushAbort
    BY <1>3, <2>3 DEF DisposeDomain, FlushAbort
  <2>4. QED
    BY <1>4, <1>5, <2>1, <2>2, <2>3 DEF Next

(* An effect that was disposed, queued or running as it may be, is never     *)
(* queued and never run again: mark() and update() return early for it       *)
(* (ReactiveNode.mark, ReactiveNode.update, reactive.vt).                    *)
THEOREM DisposedIsQuiet == Spec => DisposedStaysQuiet
<1> DEFINE A == \A e \in disposed \cap Eff :
                   /\ Contains(pending', e) => Contains(pending, e)
                   /\ e \in Running' => e \in Running
<1>1. ASSUME IInv, IInv', Next PROVE A
  <2>1. SUFFICES ASSUME NEW e \in disposed \cap Eff
                 PROVE  /\ Contains(pending', e) => Contains(pending, e)
                        /\ e \in Running' => e \in Running
    OBVIOUS
  <2>2. TypeInv /\ TypeInv'
    BY <1>1 DEF IInv
  <2>3. /\ Contains(pending', e) <=> e \in In(pending')
        /\ Contains(pending, e) <=> e \in In(pending)
    BY <2>2, ContainsIn DEF TypeInv
  <2>4. (e \in Running <=> IsRun(e)) /\ (e \in Running' <=> IsRun(e)')
    <3>1. e \in Running <=> IsRun(e)
      BY <2>2, TopEffect
    <3>2. DOMAIN frames' = 1 .. Len(frames')
      BY <2>2, LenProperties DEF TypeInv
    <3>3. e \in Running' <=> IsRun(e)'
      BY <3>2 DEF Running, Runs, IsRun, In
    <3>4. QED
      BY <3>1, <3>3
  <2>5. IsRun(e)' => IsRun(e)
    BY <1>1, QuietCalls, QuietRuns DEF Next
  <2>6. QED
    BY <1>1, <2>3, <2>4, <2>5, QuietQueue
<1>2. ASSUME UNCHANGED vars PROVE UNCHANGED vars
    BY <1>2
<1>3. IInv /\ IInv' /\ [Next]_vars => [A]_vars
    BY <1>1
<1>4. QED
    BY Invariance, <1>3, PTL DEF Spec, DisposedStaysQuiet

-----------------------------------------------------------------------------
(* The values the signals give.                                              *)

\* v gives the node c what its function gives for the values v gives its
\* sources.
Computes(v, c) == v[c] = v[IF v[Prog[c].test] = 1 THEN Prog[c].yes ELSE Prog[c].no]

\* v is right below a rank.
RightBelow(v, k) ==
    /\ v \in [Readable -> Value]
    /\ \A s \in Sig : v[s] = value[s]
    /\ \A c \in Comp : Rank[c] < k => Computes(v, c)

(* The ranks of a node and of what it reads.                                 *)
LEMMA RanksGrow ==
  ASSUME NEW c \in Comp
  PROVE  /\ c \in Readable /\ Rank[c] \in Nat /\ Rank[c] < Cardinality(Comp) + 1
         /\ \A n \in Deps(c) : n \in Readable /\ Rank[n] \in Nat /\ Rank[n] < Rank[c]
         /\ Prog[c].test \in Deps(c) /\ Prog[c].yes \in Deps(c) /\ Prog[c].no \in Deps(c)
<1>1. Cardinality(Comp) \in Nat
    BY NodesAreApart, FS_CardinalityType
<1>2. QED
    BY <1>1, ProgramsLookBack DEF Readable, Deps

(* From one rank to the next: its nodes are given what their functions give. *)
LEMMA OneRankUp ==
  ASSUME NEW k \in Nat, NEW v, RightBelow(v, k)
  PROVE  \E w : RightBelow(w, k + 1)
<1> DEFINE B(c) == IF v[Prog[c].test] = 1 THEN Prog[c].yes ELSE Prog[c].no
           w == [n \in Readable |-> IF n \in Comp /\ Rank[n] = k THEN v[B(n)] ELSE v[n]]
<1>1. \A c \in Comp : B(c) \in Deps(c) /\ B(c) \in Readable
    BY RanksGrow
<1>2. w \in [Readable -> Value]
    BY <1>1 DEF RightBelow
<1>3. \A s \in Sig : w[s] = value[s]
    BY NodesAreApart DEF RightBelow, Readable
<1>4. ASSUME NEW c \in Comp, Rank[c] < k + 1 PROVE Computes(w, c)
  <2>1. /\ c \in Readable /\ Rank[c] \in Nat
        /\ \A n \in Deps(c) : n \in Readable /\ Rank[n] \in Nat /\ Rank[n] < Rank[c]
        /\ Prog[c].test \in Deps(c) /\ Prog[c].yes \in Deps(c) /\ Prog[c].no \in Deps(c)
    BY RanksGrow
  <2>2. \A n \in Deps(c) : w[n] = v[n]
    BY <1>4, <2>1
  <2>3. w[c] = v[B(c)]
    <3>1. CASE Rank[c] = k
      BY <2>1, <3>1
    <3>2. CASE Rank[c] # k
      <4>1. Computes(v, c)
        BY <1>4, <2>1, <3>2 DEF RightBelow
      <4>2. w[c] = v[c]
        BY <2>1, <3>2
      <4>3. QED
        BY <4>1, <4>2 DEF Computes
    <3>3. QED
      BY <3>1, <3>2
  <2>4. w[Prog[c].test] = v[Prog[c].test] /\ w[B(c)] = v[B(c)]
    BY <1>1, <2>1, <2>2
  <2> HIDE DEF w
  <2>5. QED
    BY <2>3, <2>4 DEF Computes
<1>5. RightBelow(w, k + 1)
  <2> HIDE DEF w
  <2>1. QED
    BY <1>2, <1>3, <1>4 DEF RightBelow
<1>6. QED
    BY <1>5

(* The computeds are a function of the signals: Current is one of the        *)
(* Readings.                                                                 *)
LEMMA CurrentReads ==
  ASSUME EdgeInv
  PROVE  /\ Current \in [Readable -> Value]
         /\ \A s \in Sig : Current[s] = value[s]
         /\ \A c \in Comp : Computes(Current, c)
<1> DEFINE K == {k \in Nat : ~\E v : RightBelow(v, k)}
<1>1. K = {}
  <2>1. SUFFICES ASSUME K # {} PROVE FALSE
    OBVIOUS
  <2>2. PICK k \in K : \A j \in K : k <= j
    BY <2>1, LeastOne
  <2>3. CASE k = 0
    <3> DEFINE v == [n \in Readable |-> IF n \in Sig THEN value[n] ELSE 0]
    <3>1. v \in [Readable -> Value]
      BY DEF EdgeInv, Value
    <3>2. \A s \in Sig : v[s] = value[s]
      BY DEF Readable
    <3>3. \A c \in Comp : ~(Rank[c] < 0)
      BY RanksGrow
    <3> HIDE DEF v
    <3>4. RightBelow(v, 0)
      BY <3>1, <3>2, <3>3 DEF RightBelow
    <3>5. QED
      BY <2>3, <3>4
  <2>4. CASE k # 0
    <3>1. k - 1 \in Nat /\ k - 1 \notin K /\ k - 1 + 1 = k
      BY <2>2, <2>4
    <3>2. PICK v : RightBelow(v, k - 1)
      BY <3>1
    <3>3. \E w : RightBelow(w, k - 1 + 1)
      BY <3>1, <3>2, OneRankUp
    <3>4. QED
      BY <3>1, <3>3
  <2>5. QED
    BY <2>3, <2>4
<1>2. Cardinality(Comp) + 1 \in Nat
    BY NodesAreApart, FS_CardinalityType
<1>3. PICK v : RightBelow(v, Cardinality(Comp) + 1)
    BY <1>1, <1>2
<1>4. v \in Readings
  <2>1. \A c \in Comp : Computes(v, c)
    BY <1>3, RanksGrow DEF RightBelow
  <2>2. QED
    BY <1>3, <2>1 DEF Readings, RightBelow, Computes
<1>5. Current \in Readings
    BY <1>4 DEF Current
<1>6. QED
    BY <1>5 DEF Readings, Computes

(* Nothing is still to be marked unless a mark is what runs.                 *)
LEMMA NothingAhead ==
  ASSUME TypeInv, StackOK(frames), ~On("mark")
  PROVE  \A n, o : ~Ahead(n, o)
<1>1. CASE frames = <<>>
    BY <1>1, EmptyStack DEF Ahead
<1>2. CASE frames # <<>>
  <2>1. PICK s, f : s = Front(frames) /\ f = Last(frames)
    OBVIOUS
  <2>2. In(frames) = In(s) \cup {f} /\ Fits(s, f)
    BY <1>2, <2>1, TopFrame
  <2>3. f.kind # "mark"
    BY <1>2, <2>1 DEF On
  <2>4. \A h \in In(s) : h.kind # "mark"
    BY <2>2, <2>3 DEF Fits, Under
  <2>5. QED
    BY <2>2, <2>3, <2>4 DEF Ahead
<1>3. QED
    BY <1>1, <1>2

(* A clean node of a domain in use holds what the signals give.              *)
LEMMA CleanIsCurrent ==
  ASSUME IInv, ~over, \A n, o : ~Ahead(n, o)
  PROVE  \A n \in Readable : state[n] = "clean" => value[n] = Current[n]
<1>1. /\ TypeInv /\ EdgeInv /\ DisposalInv /\ CompInv
      /\ Readable = Sig \cup Comp /\ Comp \cap Eff = {} /\ Sig \cap Comp = {}
    BY Basics
<1>2. /\ Current \in [Readable -> Value]
      /\ \A s \in Sig : Current[s] = value[s]
      /\ \A c \in Comp : Computes(Current, c)
    BY <1>1, CurrentReads
<1> DEFINE Bad == {c \in Comp : state[c] = "clean" /\ value[c] # Current[c]}
           K == {Rank[c] : c \in Bad}
<1>3. Bad = {}
  <2>1. SUFFICES ASSUME Bad # {} PROVE FALSE
    OBVIOUS
  <2>2. K \in SUBSET Nat /\ K # {}
    BY <2>1, RanksGrow
  <2>3. PICK k \in K : \A j \in K : k <= j
    BY <2>2, LeastOne
  <2>4. PICK c \in Bad : \A b \in Bad : Rank[c] <= Rank[b]
    BY <2>3
  <2>5. c \in Comp /\ c \notin disposed /\ state[c] = "clean"
    BY <1>1, <2>4 DEF DisposalInv
  <2>6. /\ \A n \in DOMAIN sources[c] : state[n] = "clean" /\ sources[c][n] = version[n]
        /\ ValueFits(c) /\ DOMAIN sources[c] \subseteq Deps(c)
    BY <1>1, <2>5 DEF CompInv, UpToDate, Fresh, EdgeInv
  <2>7. ASSUME NEW n \in DOMAIN sources[c] PROVE value[n] = Current[n]
    <3>1. /\ n \in Readable /\ Rank[n] \in Nat /\ Rank[c] \in Nat /\ Rank[n] < Rank[c]
          /\ state[n] = "clean"
      BY <2>5, <2>6, RanksGrow
    <3>2. n \notin Bad
      BY <2>4, <3>1
    <3>3. QED
      BY <1>1, <1>2, <3>1, <3>2
  <2>8. /\ Prog[c].test \in DOMAIN sources[c] /\ Branch(c) \in DOMAIN sources[c]
        /\ value[c] = value[Branch(c)]
    BY <2>6 DEF ValueFits
  <2>9. Current[c] = Current[Branch(c)]
    BY <1>2, <2>5, <2>7, <2>8 DEF Computes, Branch
  <2>10. value[c] # Current[c]
    BY <2>4
  <2>11. QED
    BY <2>7, <2>8, <2>9, <2>10
<1>4. QED
    BY <1>1, <1>2, <1>3

(* Glitch-freedom.  Whatever was written, cut off, re-read or disposed       *)
(* before: once the walk of mark() is over, a computed that is CLEAN, and so *)
(* one whose cached value Computed.get returns, holds exactly what its       *)
(* function gives for the signals as they are now (ReactiveNode.update,      *)
(* Computed.recompute_self, reactive.vt).                                    *)
THEOREM NoGlitch == Spec => []ComputedsCurrent
<1>1. IInv => ComputedsCurrent
  <2>1. SUFFICES ASSUME IInv, ~On("mark"), NEW c \in Comp \ disposed, state[c] = "clean"
                 PROVE  value[c] = Current[c]
    BY DEF ComputedsCurrent
  <2>2. TypeInv /\ StackOK(frames) /\ DisposalInv /\ Readable = Sig \cup Comp
    BY <2>1, Basics
  <2>3. ~over
    BY <2>1, <2>2 DEF DisposalInv
  <2>4. \A n, o : ~Ahead(n, o)
    BY <2>1, <2>2, NothingAhead
  <2>5. QED
    BY <2>1, <2>2, <2>3, <2>4, CleanIsCurrent
<1>2. QED
    BY Invariance, <1>1, PTL

(* No effect is left behind: when the outermost set() or batch() has         *)
(* returned, and the runaway guard of flush() has not given up, an effect    *)
(* that starts nothing its own reads depend on has seen the value that       *)
(* everything it read has now.                                               *)
THEOREM EffectsSettle == Spec => []Settled
<1>1. IInv => Settled
  <2>1. SUFFICES ASSUME IInv, frames = <<>>, ~reported, NEW e \in Live \cap Calm,
                        NEW n \in Readable, seen[e][n] # None
                 PROVE  seen[e][n] = Current[n]
    BY DEF Settled
  <2>2. /\ TypeInv /\ StackOK(frames) /\ DisposalInv /\ EffInv /\ QueueInv
        /\ Readable = Sig \cup Comp
    BY <2>1, Basics
  <2>3. ~over
    BY <2>1, <2>2 DEF DisposalInv, Live
  <2>4. In(frames) = {}
    BY <2>1, EmptyStack
  <2>5. In(pending) = {}
    BY <2>2, <2>4, EmptyStack DEF QueueInv
  <2>6. \A m, o : ~Ahead(m, o)
    BY <2>4 DEF Ahead
  <2>7. state[e] = "clean"
    BY <2>1, <2>2, <2>4, <2>5 DEF QueueInv, IsRun, IsChecked
  <2>8. n \in DOMAIN sources[e] /\ UpToDate(e)
    BY <2>1, <2>2, <2>7 DEF EffInv
  <2>9. state[n] = "clean" /\ seen[e][n] = value[n]
    BY <2>1, <2>2, <2>6, <2>8 DEF EffInv, UpToDate, Fresh
  <2>10. value[n] = Current[n]
    BY <2>1, <2>3, <2>6, <2>9, CleanIsCurrent
  <2>11. QED
    BY <2>9, <2>10
<1>2. QED
    BY Invariance, <1>1, PTL
=============================================================================
