----------------------------- MODULE HeapProofs -----------------------------
(***************************************************************************)
(* For any finite memory and any number of variables, up to the first of   *)
(* the four mishaps of Heap: at every point of every cascade the counts    *)
(* are exact, nothing refers to free memory, and the weak registry is      *)
(* exactly the set of weak fields in use, none of which leads to an object *)
(* that is being destroyed; and only cycles leak.                          *)
(***************************************************************************)
EXTENDS Heap, FiniteSetTheorems, SequenceTheorems, WellFoundedInduction, NaturalsInduction,
        TLAPS

Ops == {"user", "release", "fields", "drop", "var", "fld"}
FrameSet == [op : Ops, p : Ref \cup Var, v : Ref]

\* The value that the store or the teardown g is about to overwrite.
Old(g, vr, fl) == IF g.op = "var" THEN vr[g.p] ELSE fl[g.p]

\* Frame f was called from frame g: a release, and the destructor it became,
\* is about the old value of the slot below; a deinit's body belongs to the
\* destructor below; only main stores to variables.
Sits(f, g, vr, fl) ==
    /\ f.op \in {"release", "fields", "drop"} =>
          g.op \in {"drop", "var", "fld"} /\ f.p = Old(g, vr, fl)
    /\ f.op = "user" => g.op = "fields" /\ f.p = g.p
    /\ f.op = "var" => g = Main /\ f.p \in Var
    /\ f.op = "fld" => g.op = "user" /\ f.p \in Addr

Dying == {"fields", "drop"}

Nested ==
    /\ Len(stack) >= 1 /\ stack[1] = Main
    /\ \A i \in 2 .. Len(stack) : Sits(stack[i], stack[i - 1], var, fld)
    /\ \A i \in 1 .. Len(stack) - 1 : stack[i].op # "release"

\* An object whose destructor is on the stack has no count left, and is
\* destroyed only once.
DyingOnce ==
    /\ \A i \in 1 .. Len(stack) : stack[i].op \in Dying =>
          stack[i].p \in Addr /\ kind[stack[i].p] = "heap" /\ rc[stack[i].p] = 0
    /\ \A i, j \in 1 .. Len(stack) :
          stack[i].op \in Dying /\ stack[j].op \in Dying /\ stack[i].p = stack[j].p => i = j

\* While the store to a field is pending no other frame writes that field, and
\* its object is not destroyed; it may be one whose deinit began before.
OwnerKept ==
    \A i, j \in 1 .. Len(stack) : stack[i].op = "fld" /\ stack[j].p = stack[i].p =>
        /\ stack[j].op = "fld" => i = j
        /\ stack[j].op # "drop"
        /\ stack[j].op \in Dying => j < i

\* Arena objects have negative counts, and hold and are held by their like.
ArenaApart ==
    /\ \A a \in Addr : kind[a] = "arena" => rc[a] < 0
    /\ \A a, b \in Addr : a \in FieldRefs(b) => (kind[a] = "arena") = (kind[b] = "arena")
    /\ \A i \in 1 .. Len(stack) : stack[i].op = "fld" =>
          kind[stack[i].p] # "free" /\ StoreAllowed(stack[i].p, stack[i].v)
    /\ \A a \in Addr : kind[a] # "free" /\ weak[a] # Null =>
          (kind[a] = "arena") = (kind[weak[a]] = "arena")

IInv ==
    /\ mishap = "none"
    /\ TypeOK /\ Nested /\ DyingOnce /\ OwnerKept /\ ArenaApart
    /\ RefsExact /\ WeakExact
-----------------------------------------------------------------------------
(* The stack.                                                              *)

Matches(f, op, p) == f.op = op /\ f.p = p
In(s, op, p) == \E i \in DOMAIN s : Matches(s[i], op, p)
Holds(f, c) == \/ f.op = "release" /\ f.p = c
               \/ f.op \in {"var", "fld"} /\ f.v = c
Holders(s, c) == {i \in DOMAIN s : Holds(s[i], c)}
If(cond, i) == IF cond THEN {i} ELSE {}

\* t is s with two frames pushed; s without its last frame; s with its last
\* frame replaced by two.
Pushed(s, t, f, g) ==
    /\ t \in Seq(FrameSet) /\ Len(t) = Len(s) + 2
    /\ \A i \in 1 .. Len(s) : t[i] = s[i]
    /\ t[Len(s) + 1] = f /\ t[Len(s) + 2] = g
Popped(s, t) ==
    /\ t \in Seq(FrameSet) /\ Len(t) = Len(s) - 1
    /\ \A i \in 1 .. Len(s) - 1 : t[i] = s[i]
Called(s, t, f, g) ==
    /\ t \in Seq(FrameSet) /\ Len(t) = Len(s) + 1
    /\ \A i \in 1 .. Len(s) - 1 : t[i] = s[i]
    /\ t[Len(s)] = f /\ t[Len(s) + 1] = g

(* Pushing two frames.                                                     *)
LEMMA PushTwo ==
  ASSUME NEW s \in Seq(FrameSet), NEW f \in FrameSet, NEW g \in FrameSet, NEW t,
         t = s \o <<f, g>>
  PROVE  Pushed(s, t, f, g)
<1>1. PICK e : e = <<f, g>>
    OBVIOUS
<1>2. e \in Seq(FrameSet) /\ Len(e) = 2 /\ e[1] = f /\ e[2] = g
    BY <1>1
<1>3. t = s \o e
    BY <1>1
<1>4. Len(s) \in Nat
    OBVIOUS
<1>5. t \in Seq(FrameSet) /\ Len(t) = Len(s) + 2
    BY <1>2, <1>3, ConcatProperties
<1>6. \A i \in 1 .. Len(s) + 2 : t[i] = IF i <= Len(s) THEN s[i] ELSE e[i - Len(s)]
    BY <1>2, <1>3, ConcatProperties
<1>7. QED
    BY <1>2, <1>4, <1>5, <1>6 DEF Pushed

(* Removing the last frame.                                                *)
LEMMA PopOne ==
  ASSUME NEW s \in Seq(FrameSet), Len(s) >= 1, NEW t, t = SubSeq(s, 1, Len(s) - 1)
  PROVE  Popped(s, t)
<1>1. PICK n \in Nat : n = Len(s) /\ n >= 1
    BY LenProperties
<1>2. t = SubSeq(s, 1, n - 1)
    BY <1>1
<1>3. \A i \in 1 .. n - 1 : s[i] \in FrameSet
    BY <1>1, ElementOfSeq
<1>4. Len(t) = n - 1 /\ \A i \in 1 .. n - 1 : t[i] = s[i]
    BY <1>1, <1>2
<1>5. t \in Seq(FrameSet)
    BY <1>1, <1>2, <1>3, SubSeqProperties
<1>6. QED
    BY <1>1, <1>4, <1>5 DEF Popped

(* Replacing the last frame by two.                                        *)
LEMMA CallTwo ==
  ASSUME NEW s \in Seq(FrameSet), Len(s) >= 1, NEW f \in FrameSet, NEW g \in FrameSet,
         NEW t, t = SubSeq(s, 1, Len(s) - 1) \o <<f, g>>
  PROVE  Called(s, t, f, g)
<1>1. PICK u : u = SubSeq(s, 1, Len(s) - 1)
    OBVIOUS
<1>2. Popped(s, u)
    BY <1>1, PopOne
<1>3. u \in Seq(FrameSet) /\ Len(u) = Len(s) - 1
    BY <1>2 DEF Popped
<1>4. Pushed(u, t, f, g)
    BY <1>1, <1>3, PushTwo
<1>5. PICK n \in Nat : n = Len(s) /\ n >= 1
    BY LenProperties
<1>6. Len(u) = n - 1 /\ (n - 1) + 1 = n /\ (n - 1) + 2 = n + 1
    BY <1>3, <1>5
<1>7. t \in Seq(FrameSet) /\ Len(t) = n + 1 /\ t[n] = f /\ t[n + 1] = g
    BY <1>4, <1>6 DEF Pushed
<1>8. \A i \in 1 .. n - 1 : t[i] = s[i]
    BY <1>2, <1>4, <1>5, <1>6 DEF Pushed, Popped
<1>9. QED
    BY <1>5, <1>7, <1>8 DEF Called

(* What is on the stack, and what it holds, after a push.                  *)
LEMMA PushedFacts ==
  ASSUME NEW s \in Seq(FrameSet), NEW f, NEW g, NEW t, Pushed(s, t, f, g)
  PROVE  /\ \A op, p : In(t, op, p) <=> In(s, op, p) \/ Matches(f, op, p) \/ Matches(g, op, p)
         /\ \A c : Holders(t, c) = Holders(s, c) \cup If(Holds(f, c), Len(s) + 1)
                                                 \cup If(Holds(g, c), Len(s) + 2)
<1>1. Len(s) \in Nat /\ DOMAIN s = 1 .. Len(s) /\ DOMAIN t = 1 .. Len(s) + 2
    BY LenProperties DEF Pushed
<1>2. \A i : i \in 1 .. Len(s) + 2 <=> i \in 1 .. Len(s) \/ i = Len(s) + 1 \/ i = Len(s) + 2
    BY <1>1
<1>3. \A i \in 1 .. Len(s) : t[i] = s[i]
    BY DEF Pushed
<1>4. t[Len(s) + 1] = f /\ t[Len(s) + 2] = g
    BY DEF Pushed
<1>5. ASSUME NEW op, NEW p
      PROVE  In(t, op, p) <=> In(s, op, p) \/ Matches(f, op, p) \/ Matches(g, op, p)
    BY <1>1, <1>2, <1>3, <1>4, Zenon DEF In
<1>6. ASSUME NEW c
      PROVE  Holders(t, c) = Holders(s, c) \cup If(Holds(f, c), Len(s) + 1)
                                           \cup If(Holds(g, c), Len(s) + 2)
  <2>1. ASSUME NEW i
        PROVE  i \in Holders(t, c) <=> \/ i \in Holders(s, c)
                                       \/ i = Len(s) + 1 /\ Holds(f, c)
                                       \/ i = Len(s) + 2 /\ Holds(g, c)
      BY <1>1, <1>2, <1>3, <1>4, Zenon DEF Holders
  <2>2. QED
      BY <2>1 DEF If
<1>7. QED
    BY <1>5, <1>6

(* The same after a return.                                                *)
LEMMA PoppedFacts ==
  ASSUME NEW s \in Seq(FrameSet), Len(s) >= 1, NEW t, Popped(s, t)
  PROVE  /\ \A op, p : In(s, op, p) <=> In(t, op, p) \/ Matches(s[Len(s)], op, p)
         /\ \A c : Holders(t, c) = Holders(s, c) \ {Len(s)}
<1>1. Len(s) \in Nat /\ DOMAIN s = 1 .. Len(s) /\ DOMAIN t = 1 .. Len(s) - 1
    BY LenProperties DEF Popped
<1>2. \A i : i \in 1 .. Len(s) <=> i \in 1 .. Len(s) - 1 \/ i = Len(s)
    BY <1>1
<1>3. \A i \in 1 .. Len(s) - 1 : t[i] = s[i] /\ i # Len(s)
    BY <1>1 DEF Popped
<1>5. ASSUME NEW op, NEW p
      PROVE  In(s, op, p) <=> In(t, op, p) \/ Matches(s[Len(s)], op, p)
    BY <1>1, <1>2, <1>3, Zenon DEF In
<1>6. ASSUME NEW c
      PROVE  Holders(t, c) = Holders(s, c) \ {Len(s)}
  <2>1. ASSUME NEW i
        PROVE  i \in Holders(t, c) <=> i \in Holders(s, c) /\ i # Len(s)
      BY <1>1, <1>2, <1>3, Zenon DEF Holders
  <2>2. QED
      BY <2>1
<1>7. QED
    BY <1>5, <1>6

(* The same when the last frame calls.                                     *)
LEMMA CalledFacts ==
  ASSUME NEW s \in Seq(FrameSet), Len(s) >= 1, NEW f, NEW g, NEW t, Called(s, t, f, g)
  PROVE  /\ \A op, p : ~Matches(s[Len(s)], op, p) =>
               (In(t, op, p) <=> In(s, op, p) \/ Matches(f, op, p) \/ Matches(g, op, p))
         /\ \A c : Holders(t, c) = (Holders(s, c) \ {Len(s)}) \cup If(Holds(f, c), Len(s))
                                                 \cup If(Holds(g, c), Len(s) + 1)
<1>1. Len(s) \in Nat /\ DOMAIN s = 1 .. Len(s) /\ DOMAIN t = 1 .. Len(s) + 1
    BY LenProperties DEF Called
<1>2. \A i : i \in 1 .. Len(s) + 1 <=> i \in 1 .. Len(s) - 1 \/ i = Len(s) \/ i = Len(s) + 1
    BY <1>1
<1>31. \A i \in 1 .. Len(s) - 1 : t[i] = s[i]
    BY DEF Called
<1>32. \A i \in 1 .. Len(s) - 1 : i # Len(s)
  <2>1. PICK n \in Nat : n = Len(s)
      BY <1>1
  <2>2. \A i \in 1 .. n - 1 : i # n
      OBVIOUS
  <2>3. QED
      BY <2>1, <2>2
<1>3. \A i \in 1 .. Len(s) - 1 : t[i] = s[i] /\ i # Len(s)
    BY <1>31, <1>32
<1>4. t[Len(s)] = f /\ t[Len(s) + 1] = g
    BY DEF Called
<1>5. \A i : i \in 1 .. Len(s) <=> i \in 1 .. Len(s) - 1 \/ i = Len(s)
    BY <1>1
<1>6. ASSUME NEW op, NEW p, ~Matches(s[Len(s)], op, p)
      PROVE  In(t, op, p) <=> In(s, op, p) \/ Matches(f, op, p) \/ Matches(g, op, p)
    BY <1>1, <1>2, <1>3, <1>4, <1>5, <1>6, Zenon DEF In
<1>7. ASSUME NEW c
      PROVE  Holders(t, c) = (Holders(s, c) \ {Len(s)}) \cup If(Holds(f, c), Len(s))
                                                 \cup If(Holds(g, c), Len(s) + 1)
  <2>1. ASSUME NEW i
        PROVE  i \in Holders(t, c) <=> \/ i \in Holders(s, c) /\ i # Len(s)
                                       \/ i = Len(s) /\ Holds(f, c)
                                       \/ i = Len(s) + 1 /\ Holds(g, c)
      BY <1>1, <1>2, <1>3, <1>4, <1>5, Zenon DEF Holders
  <2>2. QED
      BY <2>1 DEF If
<1>8. QED
    BY <1>6, <1>7
-----------------------------------------------------------------------------
(* Counting references.                                                    *)

(* The stack is a sequence of frames, the last one is Top.                 *)
LEMMA StackFacts ==
  ASSUME IInv
  PROVE  /\ stack \in Seq(FrameSet) /\ Len(stack) \in Nat /\ Len(stack) >= 1
         /\ DOMAIN stack = 1 .. Len(stack)
         /\ \A i \in 1 .. Len(stack) : stack[i] \in FrameSet
         /\ Len(stack) \in 1 .. Len(stack)
         /\ stack[1] = Main
<1>1. stack \in Seq(FrameSet) /\ Len(stack) >= 1 /\ stack[1] = Main
    BY DEF IInv, TypeOK, Nested, FrameSet, Ops
<1>2. Len(stack) \in Nat /\ DOMAIN stack = 1 .. Len(stack)
    BY <1>1, LenProperties
<1>3. \A i \in 1 .. Len(stack) : stack[i] \in FrameSet
    BY <1>1, ElementOfSeq
<1>4. QED
    BY <1>1, <1>2, <1>3

(* The reference sets of an address are finite.                            *)
LEMMA FiniteRefs ==
  ASSUME IInv, NEW c
  PROVE  /\ IsFiniteSet(VarRefs(c)) /\ IsFiniteSet(FieldRefs(c)) /\ IsFiniteSet(FrameRefs(c))
         /\ Cardinality(VarRefs(c)) \in Nat /\ Cardinality(FieldRefs(c)) \in Nat
         /\ Cardinality(FrameRefs(c)) \in Nat
<1>1. VarRefs(c) \subseteq Var /\ FieldRefs(c) \subseteq Addr
    BY DEF VarRefs, FieldRefs
<1>2. FrameRefs(c) \subseteq 1 .. Len(stack)
    BY StackFacts DEF FrameRefs
<1>3. IsFiniteSet(1 .. Len(stack))
    BY StackFacts, FS_Interval
<1>4. IsFiniteSet(VarRefs(c)) /\ IsFiniteSet(FieldRefs(c)) /\ IsFiniteSet(FrameRefs(c))
    BY <1>1, <1>2, <1>3, FiniteMemory, FS_Subset
<1>5. QED
    BY <1>4, FS_CardinalityType

(* A reference keeps its object: not free, not being destroyed.            *)
LEMMA Referenced ==
  ASSUME IInv, NEW c \in Addr,
         VarRefs(c) # {} \/ FieldRefs(c) # {} \/ FrameRefs(c) # {}
  PROVE  /\ kind[c] # "free" /\ rc[c] # 0
         /\ kind[c] = "heap" => rc[c] \in Nat /\ rc[c] >= 1
         /\ \A i \in 1 .. Len(stack) : stack[i].op \in Dying => stack[i].p # c
<1>1. Cardinality(VarRefs(c)) # 0 \/ Cardinality(FieldRefs(c)) # 0 \/ Cardinality(FrameRefs(c)) # 0
    BY FiniteRefs, FS_EmptySet
<1>2. Refs(c) \in Nat /\ Refs(c) >= 1
    BY <1>1, FiniteRefs DEF Refs
<1>3. kind[c] # "free"
    BY <1>2 DEF IInv, RefsExact
<1>4. kind[c] = "heap" => rc[c] = Refs(c)
    BY DEF IInv, RefsExact
<1>5. kind[c] = "arena" => rc[c] < 0
    BY DEF IInv, ArenaApart
<1>6. rc[c] \in Int /\ kind[c] \in {"free", "heap", "arena"}
    BY DEF IInv, TypeOK
<1>7. rc[c] # 0
    BY <1>2, <1>3, <1>4, <1>5, <1>6
<1>8. \A i \in 1 .. Len(stack) : stack[i].op \in Dying => rc[stack[i].p] = 0
    BY DEF IInv, DyingOnce
<1>9. QED
    BY <1>2, <1>3, <1>4, <1>7, <1>8

(* Nothing refers to what is free or being destroyed.                      *)
LEMMA Unreferenced ==
  ASSUME IInv, NEW c \in Addr, kind[c] = "free" \/ rc[c] = 0
  PROVE  VarRefs(c) = {} /\ FieldRefs(c) = {} /\ FrameRefs(c) = {}
    BY Referenced

(* Where the frames of each kind stand.                                    *)
LEMMA Places ==
  ASSUME IInv, NEW i \in 2 .. Len(stack)
  PROVE  /\ stack[i].op = "user" => /\ stack[i].p \in Addr
                                    /\ stack[i - 1].op = "fields" /\ stack[i - 1].p = stack[i].p
         /\ stack[i].op = "var" => i = 2 /\ stack[i].p \in Var
         /\ stack[i].op = "fld" => stack[i].p \in Addr
         /\ stack[i].op \in {"release", "fields", "drop"} =>
               /\ stack[i - 1].op \in {"drop", "var", "fld"}
               /\ stack[i].p = Old(stack[i - 1], var, fld)
<1>1. Len(stack) \in Nat /\ i \in Nat /\ i - 1 \in 1 .. Len(stack)
    BY StackFacts
<1>2. Sits(stack[i], stack[i - 1], var, fld)
    BY DEF IInv, Nested
<1>3. \A j \in 1 .. Len(stack) : stack[j].op \in Dying => stack[j].p \in Addr
    BY DEF IInv, DyingOnce
<1>4. stack[i].op = "user" => /\ stack[i].p \in Addr
                              /\ stack[i - 1].op = "fields" /\ stack[i - 1].p = stack[i].p
    BY <1>1, <1>2, <1>3 DEF Sits, Dying
<1>5. ASSUME NEW j \in 2 .. Len(stack), stack[j] = Main
      PROVE  FALSE
  <2>1. stack[j].op = "user" /\ stack[j].p = Null
      BY <1>5 DEF Main, Frame
  <2>2. Sits(stack[j], stack[j - 1], var, fld)
      BY DEF IInv, Nested
  <2>3. j - 1 \in 1 .. Len(stack)
      BY <1>1
  <2>4. stack[j - 1].op = "fields" /\ stack[j - 1].p = Null
      BY <2>1, <2>2 DEF Sits
  <2>5. QED
      BY <1>3, <2>3, <2>4, NullIsNoAddress DEF Dying
<1>6. stack[i - 1] = Main => i = 2
  <2>1. i # 2 => i - 1 \in 2 .. Len(stack)
      BY <1>1
  <2>2. QED
      BY <1>5, <2>1
<1>7. stack[i].op = "var" => i = 2 /\ stack[i].p \in Var
    BY <1>2, <1>6 DEF Sits
<1>8. stack[i].op = "fld" => stack[i].p \in Addr
    BY <1>2 DEF Sits
<1>9. QED
    BY <1>2, <1>4, <1>7, <1>8 DEF Sits

(* A field is being written, or torn down, by at most one frame.           *)
LEMMA OneWriter ==
  ASSUME IInv, NEW i \in 1 .. Len(stack), stack[i].op = "fld",
         NEW j \in 1 .. Len(stack), stack[j].p = stack[i].p
  PROVE  /\ stack[j].op = "fld" => i = j
         /\ stack[j].op # "drop"
    BY DEF IInv, OwnerKept

-----------------------------------------------------------------------------
(* What the running code reaches.                                          *)

(* Only main runs on a stack of its own.                                   *)
LEMMA MainRuns ==
  ASSUME IInv, InUser
  PROVE  /\ InMain <=> Len(stack) = 1
         /\ InMain <=> Top.p = Null
         /\ ~InMain => /\ Len(stack) - 1 \in 1 .. Len(stack)
                       /\ Top.p \in Addr /\ stack[Len(stack) - 1].op = "fields"
                       /\ stack[Len(stack) - 1].p = Top.p
<1>1. stack \in Seq(FrameSet) /\ Len(stack) \in Nat /\ Len(stack) >= 1 /\ stack[1] = Main
    BY StackFacts
<1>2. InMain => Len(stack) = 1
    BY DEF InMain
<1>3. Len(stack) = 1 => InMain
    BY <1>1 DEF InMain
<1>4. Len(stack) = 1 => Top.p = Null
    BY <1>1 DEF Top, Main, Frame
<1>5. ASSUME Len(stack) # 1
      PROVE  /\ Len(stack) - 1 \in 1 .. Len(stack)
             /\ Top.p \in Addr /\ stack[Len(stack) - 1].op = "fields"
             /\ stack[Len(stack) - 1].p = Top.p
  <2>1. Len(stack) \in 2 .. Len(stack) /\ Len(stack) - 1 \in 1 .. Len(stack)
    <3>1. PICK n \in Nat : n = Len(stack) /\ n >= 1 /\ n # 1
        BY <1>1, <1>5
    <3>2. n \in 2 .. n /\ n - 1 \in 1 .. n
        BY <3>1
    <3>3. QED
        BY <3>1, <3>2
  <2>2. QED
      BY <2>1, Places DEF Top, InUser
<1>6. QED
    BY <1>2, <1>3, <1>4, <1>5, NullIsNoAddress

(* Under main's own frame nothing is pending.                              *)
LEMMA MainAlone ==
  ASSUME IInv, InMain
  PROVE  /\ Len(stack) = 1
         /\ \A op, p : op # "user" => ~InStack(op, p)
         /\ \A c : FrameRefs(c) = {}
<1>1. Len(stack) = 1 /\ DOMAIN stack = {1} /\ stack[1].op = "user"
    BY DEF InMain, Main, Frame
<1>2. \A op, p : op # "user" => ~InStack(op, p)
    BY <1>1 DEF InStack
<1>3. \A c : FrameRefs(c) = {}
    BY <1>1 DEF FrameRefs
<1>4. QED
    BY <1>1, <1>2, <1>3

(* What main's variables hold is alive.                                    *)
LEMMA VarAlive ==
  ASSUME IInv, InMain, NEW x \in Var, var[x] # Null
  PROVE  var[x] \in Addr /\ kind[var[x]] # "free" /\ rc[var[x]] # 0
<1>1. var[x] \in Addr
    BY DEF IInv, TypeOK, Ref
<1>2. ~InStack("var", x)
    BY MainAlone
<1>3. VarRefs(var[x]) # {}
    BY <1>2 DEF VarRefs
<1>4. QED
    BY <1>1, <1>3, Referenced

(* What the running code holds is alive, and its field is not being        *)
(* written.                                                                *)
LEMMA HeldAlive ==
  ASSUME IInv, InUser, NEW h \in Held
  PROVE  h \in Addr /\ kind[h] # "free" /\ ~InStack("fld", h) /\ ~InStack("drop", h)
<1>1. CASE InMain
  <2>1. Top.p = Null
      BY <1>1, MainRuns
  <2>2. PICK x \in Var : h = var[x] /\ var[x] # Null
      BY <2>1 DEF Held
  <2>3. QED
      BY <1>1, <2>2, VarAlive, MainAlone
<1>2. CASE ~InMain
  <2>1. PICK m \in 1 .. Len(stack) : m = Len(stack) - 1 /\ stack[m].op = "fields" /\ stack[m].p = Top.p
      BY <1>2, MainRuns
  <2>2. Top.p # Null /\ Top.p \in Addr
      BY <1>2, MainRuns
  <2>3. h = Top.p
      BY <2>2 DEF Held
  <2>4. kind[h] = "heap"
      BY <2>1, <2>3 DEF IInv, DyingOnce, Dying
  <2>5. \A i \in 1 .. Len(stack) : stack[i].op \in Dying /\ stack[i].p = h => i = m
      BY <2>1, <2>3 DEF IInv, DyingOnce, Dying
  <2>6. DOMAIN stack = 1 .. Len(stack) /\ Len(stack) \in Nat /\ stack[1].op = "user"
      BY StackFacts DEF Main, Frame
  <2>7. ~InStack("drop", h)
    <3>1. SUFFICES ASSUME NEW i \in 1 .. Len(stack), stack[i].op = "drop", stack[i].p = h
                   PROVE  FALSE
        BY <2>6 DEF InStack
    <3>2. i = m
        BY <2>5, <3>1 DEF Dying
    <3>3. QED
        BY <2>1, <3>1, <3>2
  <2>8. ~InStack("fld", h)
    <3>1. SUFFICES ASSUME NEW i \in 1 .. Len(stack), stack[i].op = "fld", stack[i].p = h
                   PROVE  FALSE
        BY <2>6 DEF InStack
    <3>2. m < i
        BY <2>1, <2>3, <3>1 DEF IInv, OwnerKept, Dying
    <3>3. i = Len(stack)
        BY <2>1, <2>6, <3>1, <3>2
    <3>4. QED
        BY <3>1, <3>3 DEF InUser, Top
  <2>9. QED
      BY <2>2, <2>3, <2>4, <2>7, <2>8
<1>3. QED
    BY <1>1, <1>2

(* A weak field leads to what is alive.                                    *)
LEMMA WeakAlive ==
  ASSUME IInv, NEW a \in Addr, kind[a] # "free", weak[a] # Null
  PROVE  weak[a] \in Addr /\ kind[weak[a]] # "free" /\ rc[weak[a]] # 0
<1>1. weak[a] \in Addr
    BY DEF IInv, TypeOK, Ref
<1>2. <<a, weak[a]>> \in tab
    BY DEF IInv, WeakExact
<1>3. kind[<<a, weak[a]>>[2]] # "free" /\ rc[<<a, weak[a]>>[2]] # 0
    BY <1>2 DEF IInv, WeakExact
<1>4. QED
    BY <1>1, <1>3

(* While user code runs, the old value of a slot that is being overwritten *)
(* is being destroyed; so a field leads to what is alive or dying.         *)
LEMMA FieldAlive ==
  ASSUME IInv, InUser, NEW a \in Addr, kind[a] # "free", fld[a] # Null, rc[fld[a]] # 0
  PROVE  fld[a] \in Addr /\ kind[fld[a]] # "free"
<1>1. fld[a] \in Addr
    BY DEF IInv, TypeOK, Ref
<1>2. CASE ~InStack("fld", a) /\ ~InStack("drop", a)
  <2>1. FieldRefs(fld[a]) # {}
      BY <1>2 DEF FieldRefs
  <2>2. QED
      BY <1>1, <2>1, Referenced
<1>3. ASSUME NEW i \in 1 .. Len(stack), stack[i].op \in {"fld", "drop"}, stack[i].p = a
      PROVE  FALSE
  <2>1. Len(stack) \in Nat /\ \A j \in 1 .. Len(stack) : stack[j] \in FrameSet
      BY StackFacts
  <2>2. PICK j : j = i + 1
      OBVIOUS
  <2>3. stack[Len(stack)].op = "user"
      BY DEF InUser, Top
  <2>4. j \in 2 .. Len(stack) /\ j - 1 = i
      BY <1>3, <2>1, <2>2, <2>3
  <2>5. Sits(stack[j], stack[i], var, fld)
      BY <2>4 DEF IInv, Nested
  <2>6. stack[j].op \in Ops
      BY <2>1, <2>4 DEF FrameSet
  <2>7. stack[i] # Main
      BY <1>3 DEF Main, Frame
  <2>8. stack[j].op \in {"release", "fields", "drop"}
      BY <1>3, <2>5, <2>6, <2>7 DEF Sits, Ops
  <2>9. stack[j].op # "release"
    <3>1. j = Len(stack) \/ j \in 1 .. Len(stack) - 1
        BY <2>1, <2>4
    <3>2. QED
        BY <3>1, <2>3 DEF IInv, Nested
  <2>10. stack[j].p = fld[a]
      BY <1>3, <2>5, <2>8 DEF Sits, Old
  <2>11. j \in 1 .. Len(stack) /\ stack[j].op \in Dying
      BY <2>1, <2>4, <2>8, <2>9 DEF Dying
  <2>12. rc[fld[a]] = 0
      BY <2>10, <2>11 DEF IInv, DyingOnce
  <2>13. QED
      BY <2>12
<1>4. QED
  <2>1. DOMAIN stack = 1 .. Len(stack)
      BY StackFacts
  <2>2. QED
      BY <1>2, <1>3, <2>1 DEF InStack

(* What the running code reads of what it holds is not free, and its       *)
(* field is not being torn down.                                           *)
LEMMA ReadAlive ==
  ASSUME IInv, InUser, NEW a \in Read(Held) \ {Null}
  PROVE  a \in Addr /\ kind[a] # "free" /\ ~InStack("drop", a)
<1>0. \A c \in Addr : rc[c] # 0 => ~InStack("drop", c)
    BY StackFacts DEF IInv, DyingOnce, InStack, Dying
<1>1. CASE a \in Held
    BY <1>1, HeldAlive
<1>2. ASSUME NEW h \in Held, a = fld[h]
      PROVE  a \in Addr /\ kind[a] # "free" /\ rc[a] # 0
  <2>1. h \in Addr /\ kind[h] # "free" /\ ~InStack("fld", h) /\ ~InStack("drop", h)
      BY HeldAlive
  <2>2. a \in Addr
      BY <1>2, <2>1 DEF IInv, TypeOK, Ref
  <2>3. FieldRefs(a) # {}
      BY <1>2, <2>1 DEF FieldRefs
  <2>4. QED
      BY <2>2, <2>3, Referenced
<1>3. ASSUME NEW h \in Held, a = weak[h]
      PROVE  a \in Addr /\ kind[a] # "free" /\ rc[a] # 0
  <2>1. h \in Addr /\ kind[h] # "free"
      BY HeldAlive
  <2>2. QED
      BY <1>3, <2>1, WeakAlive
<1>4. QED
    BY <1>0, <1>1, <1>2, <1>3 DEF Read

(* What the running code may store without a mishap is alive.              *)
LEMMA StorableAlive ==
  ASSUME IInv, InUser, NEW v \in Storable, v # Null, ~Doomed(v)
  PROVE  /\ v \in Addr /\ kind[v] # "free" /\ rc[v] # 0
         /\ kind[v] = "heap" => rc[v] \in Nat /\ rc[v] >= 1
<1>1. v \in Read(Read(Held)) \ {Null} /\ rc[v] # 0
    BY DEF Storable, Doomed
<1>2. ASSUME v \in Read(Held)
      PROVE  v \in Addr /\ kind[v] # "free"
    BY <1>1, <1>2, ReadAlive
<1>3. ASSUME NEW a \in Read(Held) \ {Null}, v = fld[a]
      PROVE  v \in Addr /\ kind[v] # "free"
    BY <1>1, <1>3, ReadAlive, FieldAlive
<1>4. ASSUME NEW a \in Read(Held) \ {Null}, v = weak[a]
      PROVE  v \in Addr /\ kind[v] # "free"
    BY <1>1, <1>4, ReadAlive, WeakAlive
<1>5. v \in Addr /\ kind[v] # "free"
  <2>1. \/ v \in Read(Held)
        \/ \E a \in Read(Held) \ {Null} : v = fld[a]
        \/ \E a \in Read(Held) \ {Null} : v = weak[a]
    <3>1. PICK R : R = Read(Held)
        OBVIOUS
    <3>2. v \in Read(R)
        BY <1>1, <3>1
    <3>3. QED
        BY <3>1, <3>2 DEF Read
  <2>2. QED
      BY <1>1, <1>2, <1>3, <1>4, <2>1, ReadAlive
<1>6. kind[v] = "heap" => rc[v] = Refs(v)
    BY <1>5 DEF IInv, RefsExact
<1>7. Refs(v) \in Nat
    BY FiniteRefs DEF Refs
<1>8. kind[v] = "heap" => rc[v] \in Nat /\ rc[v] >= 1
  <2>1. PICK n \in Nat : n = Refs(v)
      BY <1>7
  <2>2. n # 0 => n >= 1
      OBVIOUS
  <2>3. QED
      BY <1>1, <1>6, <2>1, <2>2
<1>9. rc[v] # 0
    BY <1>1
<1>10. QED
    BY <1>5, <1>8, <1>9
(* main reads nothing that is being destroyed.                             *)
LEMMA MainReads ==
  ASSUME IInv, InMain, NEW v \in Storable
  PROVE  ~Doomed(v)
<1>1. ASSUME NEW a \in Addr, kind[a] # "free", NEW b \in {fld[a], weak[a]}, b # Null
      PROVE  b \in Addr /\ kind[b] # "free" /\ rc[b] # 0
  <2>1. b \in Addr
      BY <1>1 DEF IInv, TypeOK, Ref
  <2>2. CASE b = weak[a]
      BY <1>1, <2>2, WeakAlive
  <2>3. CASE b = fld[a]
    <3>1. FieldRefs(b) # {}
        BY <1>1, <2>3, MainAlone DEF FieldRefs
    <3>2. QED
        BY <2>1, <3>1, Referenced
  <2>4. QED
      BY <1>1, <2>2, <2>3
<1>2. ASSUME NEW S, \A a \in S \ {Null} : a \in Addr /\ kind[a] # "free" /\ rc[a] # 0
      PROVE  \A a \in Read(S) \ {Null} : a \in Addr /\ kind[a] # "free" /\ rc[a] # 0
    BY <1>1, <1>2 DEF Read
<1>3. \A a \in Held \ {Null} : a \in Addr /\ kind[a] # "free" /\ rc[a] # 0
  <2>1. Top.p = Null
      BY MainRuns DEF InUser, InMain, Top, Main, Frame
  <2>2. QED
      BY <2>1, VarAlive DEF Held
<1>4. \A a \in Read(Held) \ {Null} : a \in Addr /\ kind[a] # "free" /\ rc[a] # 0
    BY <1>2, <1>3
<1>5. \A a \in Read(Read(Held)) \ {Null} : a \in Addr /\ kind[a] # "free" /\ rc[a] # 0
    BY <1>2, <1>4
<1>6. QED
    BY <1>5 DEF Storable, Doomed
-----------------------------------------------------------------------------
(* Steps.                                                                  *)

One(cond) == IF cond THEN 1 ELSE 0

(* An element more, or one less.                                           *)
LEMMA AddIf ==
  ASSUME NEW S, IsFiniteSet(S), NEW i, i \notin S, NEW cond \in BOOLEAN
  PROVE  /\ IsFiniteSet(S \cup If(cond, i))
         /\ Cardinality(S \cup If(cond, i)) = Cardinality(S) + One(cond)
<1>0. Cardinality(S) \in Nat
    BY FS_CardinalityType
<1>1. CASE cond
  <2>1. S \cup If(cond, i) = S \cup {i} /\ One(cond) = 1
      BY <1>1 DEF If, One
  <2>2. IsFiniteSet(S \cup {i}) /\ Cardinality(S \cup {i}) = Cardinality(S) + 1
      BY FS_AddElement
  <2>3. QED
      BY <2>1, <2>2
<1>2. CASE ~cond
  <2>1. S \cup If(cond, i) = S
      BY <1>2 DEF If
  <2>2. Cardinality(S) + One(cond) = Cardinality(S)
      BY <1>0, <1>2 DEF One
  <2>3. QED
      BY <2>1, <2>2, Zenon
<1>3. QED
    BY <1>1, <1>2

LEMMA DropIf ==
  ASSUME NEW S, IsFiniteSet(S), NEW i
  PROVE  /\ IsFiniteSet(S \ {i})
         /\ Cardinality(S \ {i}) = Cardinality(S) - One(i \in S)
<1>0. Cardinality(S) \in Nat
    BY FS_CardinalityType
<1>1. CASE i \in S
  <2>1. IsFiniteSet(S \ {i}) /\ Cardinality(S \ {i}) = Cardinality(S) - 1
      BY <1>1, FS_RemoveElement
  <2>2. QED
      BY <1>1, <2>1 DEF One
<1>2. CASE i \notin S
  <2>1. S \ {i} = S
      BY <1>2
  <2>2. Cardinality(S) - One(i \in S) = Cardinality(S)
      BY <1>0, <1>2 DEF One
  <2>3. QED
      BY <2>1, <2>2, Zenon
<1>3. QED
    BY <1>1, <1>2

(* The reference sets in terms of the stack.                               *)
LEMMA StackTerms ==
  /\ \A op, p : InStack(op, p) <=> In(stack, op, p)
  /\ \A op, p : InStack(op, p)' <=> In(stack', op, p)
  /\ \A c : FrameRefs(c) = Holders(stack, c)
  /\ \A c : FrameRefs(c)' = Holders(stack', c)
    BY Zenon DEF InStack, In, Matches, FrameRefs, Holders, Holds

(* A variable's store is pushed, with the release of its old value: the    *)
(* new value has one reference more.                                       *)
LEMMA VarPushCounts ==
  ASSUME IInv, InMain, NEW x \in Var, NEW v \in Ref, NEW c \in Addr,
         Pushed(stack, stack', Frame("var", x, v), Frame("release", var[x], Null)),
         var' = var, \A o \in Addr : o \in FieldRefs(c)' <=> o \in FieldRefs(c)
  PROVE  Refs(c)' = Refs(c) + One(v = c)
<1>1. stack \in Seq(FrameSet) /\ Len(stack) \in Nat
    BY StackFacts
<1>2. PICK b \in Ref : b = var[x]
    BY DEF IInv, TypeOK
<1>3. PICK f : f = Frame("var", x, v)
    OBVIOUS
<1>4. PICK g : g = Frame("release", var[x], Null)
    OBVIOUS
<1>5. Pushed(stack, stack', f, g)
    BY <1>3, <1>4
<1>6. Holders(stack', c) = Holders(stack, c) \cup If(Holds(f, c), Len(stack) + 1)
                                             \cup If(Holds(g, c), Len(stack) + 2)
    BY <1>1, <1>5, PushedFacts
<1>7. (Holds(f, c) <=> v = c) /\ (Holds(g, c) <=> b = c)
    BY <1>2, <1>3, <1>4 DEF Holds, Frame
<1>8. \A y : In(stack', "var", y) <=> In(stack, "var", y) \/ y = x
  <2>1. \A y : (Matches(f, "var", y) <=> y = x) /\ ~Matches(g, "var", y)
      BY <1>3, <1>4 DEF Matches, Frame
  <2>2. QED
      BY <1>1, <1>5, <2>1, PushedFacts
<1>9. VarRefs(c)' = VarRefs(c) \ {x}
    BY <1>8, StackTerms DEF VarRefs
<1>10. x \in VarRefs(c) <=> b = c
  <2>1. ~InStack("var", x)
      BY MainAlone
  <2>2. QED
      BY <1>2, <2>1 DEF VarRefs
<1>11. FieldRefs(c)' = FieldRefs(c)
    BY DEF FieldRefs
<1>12. Holders(stack, c) = {}
    BY MainAlone, StackTerms
<1>13. IsFiniteSet(VarRefs(c)) /\ Cardinality(VarRefs(c)) \in Nat /\ Cardinality(FieldRefs(c)) \in Nat
    BY FiniteRefs
<1>14. Cardinality(VarRefs(c)') = Cardinality(VarRefs(c)) - One(b = c)
    BY <1>9, <1>10, <1>13, DropIf
<1>15. Cardinality(Holders(stack, c)) = 0 /\ IsFiniteSet(Holders(stack, c))
    BY <1>12, FS_EmptySet
<1>16. Cardinality(Holders(stack', c)) = One(v = c) + One(b = c)
  <2>1. PICK A : A = Holders(stack, c) \cup If(v = c, Len(stack) + 1)
      OBVIOUS
  <2>2. IsFiniteSet(A) /\ Cardinality(A) = 0 + One(v = c)
      BY <1>12, <1>15, <2>1, AddIf
  <2>3. Len(stack) + 2 \notin A
      BY <1>1, <1>12, <2>1 DEF If
  <2>4. Holders(stack', c) = A \cup If(b = c, Len(stack) + 2)
      BY <1>6, <1>7, <2>1 DEF If
  <2>5. Cardinality(A \cup If(b = c, Len(stack) + 2)) = Cardinality(A) + One(b = c)
      BY <2>2, <2>3, AddIf
  <2>6. Cardinality(Holders(stack', c)) = Cardinality(A) + One(b = c)
      BY <2>4, <2>5, Zenon
  <2>7. QED
      BY <2>2, <2>6 DEF One
<1>17. FrameRefs(c)' = Holders(stack', c) /\ FrameRefs(c) = Holders(stack, c)
    BY StackTerms
<1>18. QED
    BY <1>11, <1>13, <1>14, <1>15, <1>16, <1>17 DEF Refs, One

(* Frames are frames.                                                      *)
LEMMA FrameTyped ==
  ASSUME NEW op \in Ops, NEW p \in Ref \cup Var, NEW v \in Ref
  PROVE  /\ Frame(op, p, v) \in FrameSet
         /\ Frame(op, p, v).op = op /\ Frame(op, p, v).p = p /\ Frame(op, p, v).v = v
    BY DEF Frame, FrameSet

(* vt_retain of a value that is alive.                                     *)
LEMMA RetainedRc ==
  ASSUME IInv, NEW v \in Ref, v # Null => kind[v] # "free" /\ rc[v] # 0
  PROVE  /\ Retained(v) \in [Addr -> Int]
         /\ \A c \in Addr : kind[c] = "heap" => Retained(v)[c] = rc[c] + One(v = c)
         /\ \A c \in Addr : rc[c] < 0 => Retained(v)[c] < 0
         /\ \A c \in Addr : rc[c] # 0 => Retained(v)[c] # 0
         /\ \A c \in Addr : rc[c] = 0 => Retained(v)[c] = 0
<1>1. rc \in [Addr -> Int]
    BY DEF IInv, TypeOK
<1>2. \A c \in Addr : Retained(v)[c] = IF c = v /\ rc[c] >= 0 THEN rc[c] + 1 ELSE rc[c]
    BY DEF Retained
<1>3. Retained(v) \in [Addr -> Int]
    BY <1>1 DEF Retained
<1>4. ASSUME NEW c \in Addr, kind[c] = "heap"
      PROVE  Retained(v)[c] = rc[c] + One(v = c)
  <2>1. rc[c] = Refs(c)
      BY <1>4 DEF IInv, RefsExact
  <2>2. Refs(c) \in Nat
      BY FiniteRefs DEF Refs
  <2>3. PICK n \in Nat : n = rc[c]
      BY <2>1, <2>2
  <2>4. QED
      BY <1>2, <2>3 DEF One
<1>5. ASSUME NEW c \in Addr, rc[c] = 0
      PROVE  Retained(v)[c] = 0
  <2>1. c # v
      BY <1>5, NullIsNoAddress
  <2>2. QED
      BY <1>2, <1>5, <2>1
<1>6. \A c \in Addr : (rc[c] < 0 => Retained(v)[c] < 0) /\ (rc[c] # 0 => Retained(v)[c] # 0)
    BY <1>1, <1>2
<1>7. QED
    BY <1>3, <1>4, <1>5, <1>6

(* The registry is untouched, and so is every field it lists.              *)
LEMMA WeakKept ==
  ASSUME IInv, tab' = tab, live' = live,
         \A a \in Addr : kind'[a] # "free" /\ weak'[a] # Null
                            <=> kind[a] # "free" /\ weak[a] # Null,
         \A a \in Addr : kind[a] # "free" /\ weak[a] # Null => weak'[a] = weak[a],
         \A e \in tab : kind[e[2]] # "free" /\ rc[e[2]] # 0
                            => kind'[e[2]] # "free" /\ rc'[e[2]] # 0
  PROVE  WeakExact'
<1>1. tab' = {<<s, weak'[s]>> : s \in {s \in Addr : kind'[s] # "free" /\ weak'[s] # Null}}
  <2>1. tab = {<<s, weak[s]>> : s \in {s \in Addr : kind[s] # "free" /\ weak[s] # Null}}
      BY DEF IInv, WeakExact
  <2>2. QED
      BY <2>1
<1>2. live' = Cardinality(tab')
    BY DEF IInv, WeakExact
<1>3. \A e \in tab' : kind'[e[2]] # "free" /\ rc'[e[2]] # 0
    BY DEF IInv, WeakExact
<1>4. QED
    BY <1>1, <1>2, <1>3 DEF WeakExact

(* main stores to a variable: the stack below it is main's frame.          *)
LEMMA VarPushStack ==
  ASSUME IInv, InMain, NEW x \in Var, NEW v \in Ref,
         stack' = stack \o <<Frame("var", x, v), Frame("release", var[x], Null)>>,
         var' = var
  PROVE  /\ Pushed(stack, stack', Frame("var", x, v), Frame("release", var[x], Null))
         /\ stack' \in Seq([op : {"user", "release", "fields", "drop", "var", "fld"},
                            p : Ref \cup Var, v : Ref])
         /\ Nested' /\ DyingOnce' /\ OwnerKept'
         /\ \A op, p : op \in {"fld", "drop"} => ~InStack(op, p) /\ ~InStack(op, p)'
         /\ \A i \in 1 .. Len(stack') : stack'[i].op # "fld"
<1>1. stack \in Seq(FrameSet) /\ Len(stack) = 1 /\ stack[1] = Main
    BY StackFacts, MainAlone
<1>2. var[x] \in Ref /\ Null \in Ref
    BY DEF IInv, TypeOK, Ref
<1>3. PICK f : f = Frame("var", x, v)
    OBVIOUS
<1>4. PICK g : g = Frame("release", var[x], Null)
    OBVIOUS
<1>5. f \in FrameSet /\ f.op = "var" /\ f.p = x /\ f.v = v
    BY <1>3, FrameTyped DEF Ops
<1>6. g \in FrameSet /\ g.op = "release" /\ g.p = var[x]
    BY <1>2, <1>4, FrameTyped DEF Ops
<1>7. Pushed(stack, stack', f, g)
    BY <1>1, <1>3, <1>4, <1>5, <1>6, PushTwo
<1>8. Len(stack') = 3 /\ stack'[1] = Main /\ stack'[2] = f /\ stack'[3] = g
    BY <1>1, <1>7 DEF Pushed
<1>9. stack' \in Seq(FrameSet) /\ DOMAIN stack' = 1 .. 3
    BY <1>7, <1>8, LenProperties DEF Pushed
<1>10. Main.op = "user"
    BY DEF Main, Frame
<1>11. \A i \in 1 .. 3 : i = 1 \/ i = 2 \/ i = 3
    OBVIOUS
<1>12. \A i \in 1 .. 3 : stack'[i].op \in {"user", "var", "release"}
    BY <1>5, <1>6, <1>8, <1>10, <1>11
<1>13. Nested'
  <2>1. \A i \in 2 .. 3 : Sits(stack'[i], stack'[i - 1], var', fld')
    <3>1. Sits(f, Main, var', fld')
        BY <1>5 DEF Sits
    <3>2. Sits(g, f, var', fld')
        BY <1>5, <1>6 DEF Sits, Old
    <3>3. \A i \in 2 .. 3 : (i = 2 \/ i = 3) /\ 2 - 1 = 1 /\ 3 - 1 = 2
        OBVIOUS
    <3>4. QED
        BY <1>8, <3>1, <3>2, <3>3
  <2>2. \A i \in 1 .. 3 - 1 : stack'[i].op # "release"
      BY <1>5, <1>8, <1>10
  <2>3. QED
      BY <1>8, <2>1, <2>2 DEF Nested
<1>14. DyingOnce'
    BY <1>8, <1>12 DEF DyingOnce, Dying
<1>15. OwnerKept'
    BY <1>8, <1>12 DEF OwnerKept
<1>16. \A op, p : op \in {"fld", "drop"} => ~InStack(op, p) /\ ~InStack(op, p)'
  <2>1. \A op, p : op \in {"fld", "drop"} => ~InStack(op, p)
      BY MainAlone
  <2>2. \A op, p : op \in {"fld", "drop"} => ~InStack(op, p)'
      BY <1>9, <1>12 DEF InStack
  <2>3. QED
      BY <2>1, <2>2
<1>17. \A i \in 1 .. Len(stack') : stack'[i].op # "fld"
    BY <1>8, <1>12
<1>18. QED
    BY <1>3, <1>4, <1>7, <1>9, <1>13, <1>14, <1>15, <1>16, <1>17 DEF FrameSet, Ops

(* The counts after main has begun to store to a variable.                 *)
LEMMA VarPushStep ==
  ASSUME IInv, mishap' = "none", InMain, NEW x \in Var, NEW v \in Ref, TypeOK', WeakExact',
         stack' = stack \o <<Frame("var", x, v), Frame("release", var[x], Null)>>,
         var' = var,
         \A o \in Addr : kind[o] # "free" => kind'[o] = kind[o] /\ fld'[o] = fld[o],
         \A o \in Addr : kind[o] = "free" => kind'[o] = "free" \/ fld'[o] = Null,
         \A c \in Addr : kind'[c] = "heap" => rc'[c] = Refs(c) + One(v = c),
         \A c \in Addr : kind'[c] = "free" => Refs(c) = 0 /\ v # c,
         \A c \in Addr : kind'[c] = "arena" => rc'[c] < 0,
         \A c \in Addr : kind'[c] # "free" /\ weak'[c] # Null =>
             (kind'[c] = "arena") = (kind'[weak'[c]] = "arena")
  PROVE  IInv'
<1>1. /\ Pushed(stack, stack', Frame("var", x, v), Frame("release", var[x], Null))
      /\ Nested' /\ DyingOnce' /\ OwnerKept'
      /\ \A op, p : op \in {"fld", "drop"} => ~InStack(op, p) /\ ~InStack(op, p)'
      /\ \A i \in 1 .. Len(stack') : stack'[i].op # "fld"
    BY VarPushStack
<1>2. ASSUME NEW c \in Addr
      PROVE  FieldRefs(c)' = FieldRefs(c)
  <2>1. c # Null
      BY NullIsNoAddress
  <2>2. ASSUME NEW o \in Addr
        PROVE  kind'[o] # "free" /\ fld'[o] = c <=> kind[o] # "free" /\ fld[o] = c
      BY <2>1
  <2>3. QED
      BY <1>1, <2>2 DEF FieldRefs
<1>3. ASSUME NEW c \in Addr
      PROVE  Refs(c)' = Refs(c) + One(v = c)
  <2>1. \A o \in Addr : o \in FieldRefs(c)' <=> o \in FieldRefs(c)
      BY <1>2
  <2>2. QED
      BY <1>1, <2>1, VarPushCounts
<1>4. RefsExact'
  <2>1. \A c \in Addr : v # c => One(v = c) = 0
      BY DEF One
  <2>2. \A c \in Addr : kind'[c] = "free" => Refs(c)' = 0
      BY <1>3, <2>1
  <2>3. \A c \in Addr : kind'[c] = "heap" => rc'[c] = Refs(c)'
      BY <1>3
  <2>4. QED
      BY <2>2, <2>3 DEF RefsExact
<1>5. ArenaApart'
  <2>1. ASSUME NEW a \in Addr, NEW b \in Addr, a \in FieldRefs(b)'
        PROVE  (kind'[a] = "arena") = (kind'[b] = "arena")
    <3>1. a \in FieldRefs(b)
        BY <1>2, <2>1
    <3>2. kind[b] # "free"
        BY <3>1, Referenced
    <3>3. kind[a] # "free"
        BY <3>1 DEF FieldRefs
    <3>4. (kind[a] = "arena") = (kind[b] = "arena")
        BY <3>1 DEF IInv, ArenaApart
    <3>5. QED
        BY <3>2, <3>3, <3>4
  <2>2. QED
      BY <1>1, <2>1 DEF ArenaApart
<1>6. QED
    BY <1>1, <1>4, <1>5 DEF IInv

(* x = v.                                                                  *)
LEMMA AssignStep ==
  ASSUME IInv, mishap' = "none", NEW x \in Var, NEW v \in Ref, Assign(x, v)
  PROVE  IInv'
<1>1. InMain /\ v \in Storable /\ rc' = Retained(v)
    BY DEF Assign
<1>2. InUser
    BY <1>1 DEF InUser, InMain, Top, Main, Frame
<1>3. v # Null => v \in Addr /\ kind[v] # "free" /\ rc[v] # 0
    BY <1>1, <1>2, MainReads, StorableAlive
<1>4. stack' = stack \o <<Frame("var", x, v), Frame("release", var[x], Null)>>
    BY DEF Assign
<1>5. UNCHANGED <<kind, fld, weak, tab, live, var, arena>>
    BY DEF Assign, registry
<1>6. /\ rc' \in [Addr -> Int]
      /\ \A c \in Addr : kind[c] = "heap" => rc'[c] = rc[c] + One(v = c)
      /\ \A c \in Addr : rc[c] < 0 => rc'[c] < 0
      /\ \A c \in Addr : rc[c] # 0 => rc'[c] # 0
    BY <1>1, <1>3, RetainedRc
<1>7. TypeOK'
    BY <1>1, <1>4, <1>5, <1>6, VarPushStack DEF IInv, TypeOK
<1>8. WeakExact'
  <2>1. \A e \in tab : e[2] \in Addr
      BY DEF IInv, TypeOK
  <2>2. QED
      BY <1>5, <1>6, <2>1, WeakKept
<1>9. \A c \in Addr : kind'[c] = "heap" => rc'[c] = Refs(c) + One(v = c)
    BY <1>5, <1>6 DEF IInv, RefsExact
<1>10. \A c \in Addr : kind'[c] = "free" => Refs(c) = 0 /\ v # c
    BY <1>3, <1>5, NullIsNoAddress DEF IInv, RefsExact
<1>11. \A c \in Addr : kind'[c] = "arena" => rc'[c] < 0
    BY <1>5, <1>6 DEF IInv, ArenaApart
<1>12. \A c \in Addr : kind'[c] # "free" /\ weak'[c] # Null =>
             (kind'[c] = "arena") = (kind'[weak'[c]] = "arena")
    BY <1>5 DEF IInv, ArenaApart
<1>13. QED
    BY <1>1, <1>4, <1>5, <1>7, <1>8, <1>9, <1>10, <1>11, <1>12, VarPushStep

(* x = new C(), on the heap or in an arena.                                *)
LEMMA AllocStep ==
  ASSUME IInv, mishap' = "none", NEW x \in Var, NEW a \in Addr, New(x, a) \/ NewInArena(x, a)
  PROVE  IInv'
<1>1. PICK k, n : /\ Alloc(a, k, n)
                  /\ (k = "heap" /\ n = 1) \/ (k = "arena" /\ n = -2)
    BY DEF New, NewInArena
<1>2. /\ InMain /\ UNCHANGED <<tab, live, var, arena>>
      /\ stack' = stack \o <<Frame("var", x, a), Frame("release", var[x], Null)>>
    BY DEF New, NewInArena, registry
<1>3. a \in Ref /\ a # Null
    BY NullIsNoAddress DEF Ref
<1>4. /\ kind \in [Addr -> {"free", "heap", "arena"}] /\ rc \in [Addr -> Int]
      /\ fld \in [Addr -> Ref] /\ weak \in [Addr -> Ref] /\ tab \subseteq Addr \X Addr
    BY DEF IInv, TypeOK
<1>5. kind[a] = "free" /\ k # "free" /\ n \in Int
    BY <1>1 DEF Alloc
<1>6. /\ kind'[a] = k /\ rc'[a] = n /\ fld'[a] = Null /\ weak'[a] = Null
      /\ \A c \in Addr : c # a => /\ kind'[c] = kind[c] /\ rc'[c] = rc[c]
                                  /\ fld'[c] = fld[c] /\ weak'[c] = weak[c]
    BY <1>1, <1>4 DEF Alloc
<1>7. TypeOK'
  <2>1. /\ kind' \in [Addr -> {"free", "heap", "arena"}] /\ rc' \in [Addr -> Int]
        /\ fld' \in [Addr -> Ref] /\ weak' \in [Addr -> Ref]
      BY <1>1, <1>4, <1>5 DEF Alloc, Ref
  <2>2. QED
      BY <1>2, <1>3, <2>1, VarPushStack DEF IInv, TypeOK
<1>8. WeakExact'
  <2>1. \A e \in tab : e[2] \in Addr
      BY <1>4
  <2>2. \A e \in tab : kind[e[2]] # "free" /\ rc[e[2]] # 0
                            => kind'[e[2]] # "free" /\ rc'[e[2]] # 0
      BY <1>5, <1>6, <2>1
  <2>3. QED
      BY <1>2, <1>5, <1>6, <2>2, WeakKept
<1>9. ASSUME NEW c \in Addr
      PROVE  /\ kind'[c] = "heap" => rc'[c] = Refs(c) + One(a = c)
             /\ kind'[c] = "free" => Refs(c) = 0 /\ a # c
             /\ kind'[c] = "arena" => rc'[c] < 0
  <2>1. Refs(c) \in Nat
      BY FiniteRefs DEF Refs
  <2>2. PICK r \in Nat : r = Refs(c)
      BY <2>1
  <2>3. kind[c] = "heap" => rc[c] = r
      BY <2>2 DEF IInv, RefsExact
  <2>4. kind[c] = "free" => r = 0
      BY <2>2 DEF IInv, RefsExact
  <2>5. kind[c] = "arena" => rc[c] < 0
      BY DEF IInv, ArenaApart
  <2>6. CASE a = c
      BY <1>1, <1>5, <1>6, <2>2, <2>4, <2>6 DEF One
  <2>7. CASE a # c
    <3>1. One(a = c) = 0 /\ r + 0 = r
        BY <2>7 DEF One
    <3>2. QED
        BY <1>6, <2>2, <2>3, <2>4, <2>5, <2>7, <3>1
  <2>8. QED
      BY <2>6, <2>7
<1>10. \A c \in Addr : kind'[c] # "free" /\ weak'[c] # Null =>
             (kind'[c] = "arena") = (kind'[weak'[c]] = "arena")
  <2>1. ASSUME NEW c \in Addr, kind'[c] # "free", weak'[c] # Null
        PROVE  (kind'[c] = "arena") = (kind'[weak'[c]] = "arena")
    <3>1. c # a /\ kind[c] # "free" /\ weak[c] # Null /\ weak'[c] = weak[c]
        BY <1>6, <2>1
    <3>2. (kind[c] = "arena") = (kind[weak[c]] = "arena")
        BY <3>1 DEF IInv, ArenaApart
    <3>3. weak[c] \in Addr /\ kind[weak[c]] # "free"
        BY <3>1, WeakAlive
    <3>4. QED
        BY <1>5, <1>6, <3>1, <3>2, <3>3
  <2>2. QED
      BY <2>1
<1>11. /\ \A o \in Addr : kind[o] # "free" => kind'[o] = kind[o] /\ fld'[o] = fld[o]
       /\ \A o \in Addr : kind[o] = "free" => kind'[o] = "free" \/ fld'[o] = Null
    BY <1>5, <1>6
<1>12. QED
    BY <1>2, <1>3, <1>7, <1>8, <1>9, <1>10, <1>11, VarPushStep, SMTT(30)

(* o.f = v.                                                                *)
LEMMA SetFieldStep ==
  ASSUME IInv, mishap' = "none", NEW o \in Addr, NEW v \in Ref, SetField(o, v)
  PROVE  IInv'
<1>1. InUser /\ StoreAllowed(o, v) /\ v \in Storable /\ rc' = Retained(v)
    BY DEF SetField
<1>2. o \in Read(Held) \ {Null} /\ ~Doomed(v) /\ ~InStack("fld", o)
    BY DEF SetField
<1>3. UNCHANGED <<kind, fld, weak, tab, live, var, arena>>
    BY DEF SetField, registry
<1>4. v # Null => v \in Addr /\ kind[v] # "free" /\ rc[v] # 0
    BY <1>1, <1>2, StorableAlive
<1>5. /\ rc' \in [Addr -> Int]
      /\ \A c \in Addr : kind[c] = "heap" => rc'[c] = rc[c] + One(v = c)
      /\ \A c \in Addr : rc[c] < 0 => rc'[c] < 0
      /\ \A c \in Addr : rc[c] # 0 => rc'[c] # 0
      /\ \A c \in Addr : rc[c] = 0 => rc'[c] = 0
    BY <1>1, <1>4, RetainedRc
<1>6. kind[o] # "free" /\ ~InStack("fld", o) /\ ~InStack("drop", o)
    BY <1>1, <1>2, ReadAlive
<1>7. PICK n \in Nat : n = Len(stack) /\ n >= 1
    BY StackFacts
<1>8. PICK b \in Ref : b = fld[o]
    BY DEF IInv, TypeOK
<1>9. Null \in Ref
    BY DEF Ref
<1>10. PICK f : f = Frame("fld", o, v)
    OBVIOUS
<1>11. PICK g : g = Frame("release", fld[o], Null)
    OBVIOUS
<1>12. f \in FrameSet /\ f.op = "fld" /\ f.p = o /\ f.v = v
    BY <1>10, FrameTyped DEF Ops, Ref
<1>13. g \in FrameSet /\ g.op = "release" /\ g.p = b
    BY <1>8, <1>9, <1>11, FrameTyped DEF Ops
<1>14. stack' = stack \o <<f, g>>
    BY <1>10, <1>11 DEF SetField
<1>15. Pushed(stack, stack', f, g)
    BY <1>12, <1>13, <1>14, StackFacts, PushTwo
<1>16. /\ Len(stack') = n + 2 /\ stack' \in Seq(FrameSet)
       /\ \A i \in 1 .. n : stack'[i] = stack[i]
       /\ stack'[n + 1] = f /\ stack'[n + 2] = g
    BY <1>7, <1>15 DEF Pushed
<1>17. \A i \in 1 .. n + 2 : i \in 1 .. n \/ i = n + 1 \/ i = n + 2
    OBVIOUS
<1>18. stack[n].op = "user"
    BY <1>1, <1>7 DEF InUser, Top
<1>19. TypeOK'
    BY <1>3, <1>5, <1>16 DEF IInv, TypeOK, FrameSet, Ops
<1>20. Nested'
  <2>1. \A i \in 2 .. n : Sits(stack[i], stack[i - 1], var, fld)
      BY <1>7 DEF IInv, Nested
  <2>2. Sits(f, stack[n], var, fld)
      BY <1>12, <1>18 DEF Sits
  <2>3. Sits(g, f, var, fld)
      BY <1>8, <1>12, <1>13 DEF Sits, Old
  <2>4. ASSUME NEW i \in 2 .. n + 2
        PROVE  Sits(stack'[i], stack'[i - 1], var', fld')
    <3>1. CASE i \in 2 .. n
      <4>1. i \in 1 .. n /\ i - 1 \in 1 .. n
          BY <3>1
      <4>2. stack'[i] = stack[i] /\ stack'[i - 1] = stack[i - 1]
          BY <1>16, <4>1
      <4>3. QED
          BY <1>3, <2>1, <3>1, <4>2
    <3>2. CASE i = n + 1
      <4>1. i - 1 = n /\ n \in 1 .. n
          BY <1>7, <3>2
      <4>2. QED
          BY <1>3, <1>16, <2>2, <3>2, <4>1
    <3>3. CASE i = n + 2
      <4>1. i - 1 = n + 1
          BY <3>3
      <4>2. QED
          BY <1>3, <1>16, <2>3, <3>3, <4>1
    <3>4. QED
        BY <3>1, <3>2, <3>3
  <2>5. ASSUME NEW i \in 1 .. n + 1
        PROVE  stack'[i].op # "release"
    <3>1. CASE i \in 1 .. n - 1
      <4>1. stack[i].op # "release"
          BY <1>7, <3>1 DEF IInv, Nested
      <4>2. QED
          BY <1>16, <3>1, <4>1
    <3>2. CASE i = n
        BY <1>16, <1>18, <3>2
    <3>3. CASE i = n + 1
        BY <1>12, <1>16, <3>3
    <3>4. QED
        BY <3>1, <3>2, <3>3
  <2>6. stack'[1] = Main
      BY <1>7, <1>16, StackFacts
  <2>7. Len(stack') >= 1 /\ Len(stack') - 1 = n + 1
      BY <1>16
  <2>8. QED
      BY <1>16, <2>4, <2>5, <2>6, <2>7 DEF Nested
<1>21. \A i \in 1 .. n + 2 : stack'[i].op \in Dying => i \in 1 .. n /\ stack'[i] = stack[i]
    BY <1>12, <1>13, <1>16, <1>17 DEF Dying
<1>22. DyingOnce'
  <2>1. \A i \in 1 .. n + 2 : stack'[i].op \in Dying =>
            stack'[i].p \in Addr /\ kind'[stack'[i].p] = "heap" /\ rc'[stack'[i].p] = 0
      BY <1>3, <1>5, <1>7, <1>21 DEF IInv, DyingOnce
  <2>2. \A i, j \in 1 .. n + 2 :
            stack'[i].op \in Dying /\ stack'[j].op \in Dying /\ stack'[i].p = stack'[j].p => i = j
      BY <1>7, <1>21 DEF IInv, DyingOnce
  <2>3. QED
      BY <1>16, <2>1, <2>2 DEF DyingOnce
<1>23. OwnerKept'
  <2>1. \A i \in 1 .. n : stack[i].p = o => stack[i].op \notin {"fld", "drop"}
      BY <1>6, <1>7, StackFacts DEF InStack
  <2>2. ASSUME NEW i \in 1 .. n + 2, NEW j \in 1 .. n + 2,
               stack'[i].op = "fld", stack'[j].p = stack'[i].p
        PROVE  /\ stack'[j].op = "fld" => i = j
               /\ stack'[j].op # "drop"
               /\ stack'[j].op \in Dying => j < i
    <3>1. i # n + 2
        BY <1>13, <1>16, <2>2
    <3>2. CASE j = n + 2
        BY <1>13, <1>16, <3>2 DEF Dying
    <3>3. CASE j = n + 1
      <4>1. CASE i \in 1 .. n
          BY <1>12, <1>16, <2>1, <2>2, <3>3, <4>1
      <4>2. CASE i = n + 1
          BY <1>12, <1>16, <3>3, <4>2 DEF Dying
      <4>3. QED
          BY <1>17, <3>1, <4>1, <4>2
    <3>4. CASE j \in 1 .. n
      <4>1. CASE i \in 1 .. n
          BY <1>7, <1>16, <2>2, <3>4, <4>1 DEF IInv, OwnerKept
      <4>2. CASE i = n + 1
        <5>1. stack'[j] = stack[j] /\ stack[j].p = o /\ j < i
            BY <1>12, <1>16, <2>2, <3>4, <4>2
        <5>2. QED
            BY <2>1, <3>4, <5>1
      <4>3. QED
          BY <1>17, <3>1, <4>1, <4>2
    <3>5. QED
        BY <1>17, <3>2, <3>3, <3>4
  <2>3. QED
      BY <1>16, <2>2 DEF OwnerKept
<1>24. \A p : (In(stack', "fld", p) <=> In(stack, "fld", p) \/ p = o)
           /\ (In(stack', "drop", p) <=> In(stack, "drop", p))
           /\ (In(stack', "var", p) <=> In(stack, "var", p))
  <2>1. \A p : /\ Matches(f, "fld", p) <=> p = o
               /\ ~Matches(g, "fld", p)
               /\ ~Matches(f, "drop", p) /\ ~Matches(g, "drop", p)
               /\ ~Matches(f, "var", p) /\ ~Matches(g, "var", p)
      BY <1>12, <1>13 DEF Matches
  <2>2. QED
      BY <1>15, <2>1, StackFacts, PushedFacts
<1>25. ASSUME NEW c \in Addr
       PROVE  /\ VarRefs(c)' = VarRefs(c) /\ FieldRefs(c)' = FieldRefs(c) \ {o}
              /\ o \in FieldRefs(c) <=> b = c
  <2>1. VarRefs(c)' = VarRefs(c)
      BY <1>3, <1>24, StackTerms DEF VarRefs
  <2>2. FieldRefs(c)' = FieldRefs(c) \ {o}
      BY <1>3, <1>24, StackTerms DEF FieldRefs
  <2>3. o \in FieldRefs(c) <=> b = c
      BY <1>6, <1>8 DEF FieldRefs
  <2>4. QED
      BY <2>1, <2>2, <2>3
<1>26. ASSUME NEW c \in Addr
       PROVE  Refs(c)' = Refs(c) + One(v = c)
  <2>1. (Holds(f, c) <=> v = c) /\ (Holds(g, c) <=> b = c)
      BY <1>12, <1>13 DEF Holds
  <2>2. Holders(stack', c) = Holders(stack, c) \cup If(Holds(f, c), n + 1) \cup If(Holds(g, c), n + 2)
      BY <1>7, <1>15, StackFacts, PushedFacts
  <2>3. PICK S : S = Holders(stack, c)
      OBVIOUS
  <2>4. PICK A : A = S \cup If(v = c, n + 1)
      OBVIOUS
  <2>5. S \subseteq 1 .. n
      BY <1>7, <2>3, StackFacts DEF Holders
  <2>6. IsFiniteSet(S) /\ Cardinality(S) \in Nat
      BY <2>3, FiniteRefs, StackTerms
  <2>7. n + 1 \notin S /\ n + 2 \notin A
      BY <2>4, <2>5 DEF If
  <2>8. IsFiniteSet(A) /\ Cardinality(A) = Cardinality(S) + One(v = c)
      BY <2>4, <2>6, <2>7, AddIf
  <2>9. Cardinality(A \cup If(b = c, n + 2)) = Cardinality(A) + One(b = c)
      BY <2>7, <2>8, AddIf
  <2>10. Holders(stack', c) = A \cup If(b = c, n + 2)
      BY <2>1, <2>2, <2>3, <2>4 DEF If
  <2>11. Cardinality(FrameRefs(c)') = Cardinality(A) + One(b = c)
      BY <2>9, <2>10, StackTerms, Zenon
  <2>12. Cardinality(FieldRefs(c)') = Cardinality(FieldRefs(c)) - One(b = c)
    <3>1. Cardinality(FieldRefs(c) \ {o}) = Cardinality(FieldRefs(c)) - One(o \in FieldRefs(c))
        BY FiniteRefs, DropIf
    <3>2. One(o \in FieldRefs(c)) = One(b = c)
        BY <1>25 DEF One
    <3>3. FieldRefs(c)' = FieldRefs(c) \ {o}
        BY <1>25
    <3>4. QED
        BY <3>1, <3>2, <3>3, Zenon
  <2>13. Cardinality(VarRefs(c)') = Cardinality(VarRefs(c))
      BY <1>25, Zenon
  <2>14. Cardinality(FrameRefs(c)) = Cardinality(S)
      BY <2>3, StackTerms, Zenon
  <2>15. Cardinality(VarRefs(c)) \in Nat /\ Cardinality(FieldRefs(c)) \in Nat
      BY FiniteRefs
  <2>16. QED
      BY <2>6, <2>8, <2>11, <2>12, <2>13, <2>14, <2>15 DEF Refs, One
<1>27. RefsExact'
  <2>1. \A c \in Addr : kind[c] = "free" => One(v = c) = 0
      BY <1>4, NullIsNoAddress DEF One
  <2>2. \A c \in Addr : kind'[c] = "free" => Refs(c)' = 0
      BY <1>3, <1>26, <2>1 DEF IInv, RefsExact
  <2>3. \A c \in Addr : kind'[c] = "heap" => rc'[c] = Refs(c)'
      BY <1>3, <1>5, <1>26 DEF IInv, RefsExact
  <2>4. QED
      BY <2>2, <2>3 DEF RefsExact
<1>28. ArenaApart'
  <2>1. \A c \in Addr : kind'[c] = "arena" => rc'[c] < 0
      BY <1>3, <1>5 DEF IInv, ArenaApart
  <2>2. \A a, c \in Addr : a \in FieldRefs(c)' => (kind'[a] = "arena") = (kind'[c] = "arena")
      BY <1>3, <1>25 DEF IInv, ArenaApart
  <2>3. \A i \in 1 .. n + 2 : stack'[i].op = "fld" =>
            kind[stack'[i].p] # "free" /\ StoreAllowed(stack'[i].p, stack'[i].v)
      BY <1>1, <1>6, <1>7, <1>12, <1>13, <1>16, <1>17 DEF IInv, ArenaApart
  <2>4. \A i \in 1 .. n + 2 : stack'[i].op = "fld" =>
            kind'[stack'[i].p] # "free" /\ StoreAllowed(stack[i].p, stack[i].v)'
      BY <1>3, <2>3 DEF StoreAllowed
  <2>5. \A a \in Addr : kind'[a] # "free" /\ weak'[a] # Null =>
            (kind'[a] = "arena") = (kind'[weak'[a]] = "arena")
      BY <1>3 DEF IInv, ArenaApart
  <2>6. QED
      BY <1>16, <2>1, <2>2, <2>4, <2>5 DEF ArenaApart
<1>29. WeakExact'
  <2>1. \A e \in tab : e[2] \in Addr
      BY DEF IInv, TypeOK
  <2>2. QED
      BY <1>3, <1>5, <2>1, WeakKept
<1>30. QED
    BY <1>19, <1>20, <1>22, <1>23, <1>27, <1>28, <1>29 DEF IInv

(* A frame other than main's returns.                                      *)
LEMMA PopStack ==
  ASSUME IInv, stack' = Below, Top # Main
  PROVE  /\ Popped(stack, stack') /\ Len(stack) \in Nat /\ Len(stack) >= 2
         /\ Len(stack') = Len(stack) - 1 /\ Len(stack') >= 1
         /\ Top = stack[Len(stack)] /\ Len(stack) \in 2 .. Len(stack)
         /\ \A i \in 1 .. Len(stack) - 1 : i \in 1 .. Len(stack) /\ stack'[i] = stack[i]
         /\ stack' \in Seq([op : {"user", "release", "fields", "drop", "var", "fld"},
                            p : Ref \cup Var, v : Ref])
         /\ \A op, p : InStack(op, p) <=> InStack(op, p)' \/ Matches(Top, op, p)
         /\ \A c : /\ IsFiniteSet(FrameRefs(c)')
                   /\ Cardinality(FrameRefs(c)') = Cardinality(FrameRefs(c)) - One(Holds(Top, c))
<1>1. PICK n \in Nat : n = Len(stack) /\ n >= 1
    BY StackFacts
<1>2. n # 1
    BY <1>1, StackFacts DEF Top
<1>3. Popped(stack, stack')
    BY StackFacts, PopOne DEF Below
<1>4. \A i \in 1 .. n - 1 : i \in 1 .. n /\ stack'[i] = stack[i]
    BY <1>1, <1>3 DEF Popped
<1>5. Len(stack') = n - 1 /\ stack' \in Seq(FrameSet)
    BY <1>1, <1>3 DEF Popped
<1>6. \A op, p : InStack(op, p) <=> InStack(op, p)' \/ Matches(Top, op, p)
    BY <1>3, StackFacts, PoppedFacts, StackTerms DEF Top
<1>7. ASSUME NEW c
      PROVE  /\ IsFiniteSet(FrameRefs(c)')
             /\ Cardinality(FrameRefs(c)') = Cardinality(FrameRefs(c)) - One(Holds(Top, c))
  <2>1. FrameRefs(c)' = FrameRefs(c) \ {n}
      BY <1>1, <1>3, StackFacts, PoppedFacts, StackTerms, Zenon
  <2>2. n \in FrameRefs(c) <=> Holds(Top, c)
      BY <1>1, StackFacts, StackTerms DEF Holders, Top
  <2>3. One(n \in FrameRefs(c)) = One(Holds(Top, c))
      BY <2>2 DEF One
  <2>4. /\ IsFiniteSet(FrameRefs(c) \ {n})
        /\ Cardinality(FrameRefs(c) \ {n}) = Cardinality(FrameRefs(c)) - One(n \in FrameRefs(c))
      BY FiniteRefs, DropIf
  <2>5. QED
      BY <2>1, <2>3, <2>4, Zenon
<1>8. n >= 2 /\ n - 1 >= 1 /\ n \in 2 .. n
    BY <1>1, <1>2
<1>9. QED
    BY <1>1, <1>3, <1>4, <1>5, <1>6, <1>7, <1>8 DEF FrameSet, Ops, Top

(* The frames below one that returns keep their order.                     *)
LEMMA PopNested ==
  ASSUME IInv, stack' = Below, Top # Main,
         \A i \in 2 .. Len(stack) - 1 : Sits(stack[i], stack[i - 1], var', fld')
  PROVE  Nested'
<1>1. PICK n \in Nat : n = Len(stack) /\ n >= 2
    BY PopStack
<1>2. Len(stack') = n - 1 /\ \A i \in 1 .. n - 1 : stack'[i] = stack[i]
    BY <1>1, PopStack
<1>3. stack'[1] = Main
    BY <1>1, <1>2, StackFacts
<1>4. ASSUME NEW i \in 2 .. n - 1
      PROVE  Sits(stack'[i], stack'[i - 1], var', fld')
  <2>1. i \in 1 .. n - 1 /\ i - 1 \in 1 .. n - 1
      OBVIOUS
  <2>2. stack'[i] = stack[i] /\ stack'[i - 1] = stack[i - 1]
      BY <1>2, <2>1
  <2>3. QED
      BY <1>1, <2>2
<1>5. ASSUME NEW i \in 1 .. (n - 1) - 1
      PROVE  stack'[i].op # "release"
  <2>1. i \in 1 .. n - 1
      OBVIOUS
  <2>2. QED
      BY <1>1, <1>2, <2>1 DEF IInv, Nested
<1>6. n - 1 >= 1
    BY <1>1
<1>7. QED
    BY <1>2, <1>3, <1>4, <1>5, <1>6 DEF Nested

(* So do the destructors.                                                  *)
LEMMA PopDying ==
  ASSUME IInv, stack' = Below, Top # Main,
         \A i \in 1 .. Len(stack) - 1 : stack[i].op \in Dying =>
             kind'[stack[i].p] = "heap" /\ rc'[stack[i].p] = 0
  PROVE  DyingOnce'
<1>1. /\ Len(stack') = Len(stack) - 1
      /\ \A i \in 1 .. Len(stack) - 1 : i \in 1 .. Len(stack) /\ stack'[i] = stack[i]
    BY PopStack
<1>2. QED
    BY <1>1 DEF IInv, DyingOnce

(* And the pending stores.                                                 *)
LEMMA PopOwner ==
  ASSUME IInv, stack' = Below, Top # Main
  PROVE  OwnerKept'
<1>1. /\ Len(stack') = Len(stack) - 1
      /\ \A i \in 1 .. Len(stack) - 1 : i \in 1 .. Len(stack) /\ stack'[i] = stack[i]
    BY PopStack
<1>2. QED
    BY <1>1 DEF IInv, OwnerKept

(* The stores that are left may still be made.                             *)
LEMMA PopStores ==
  ASSUME IInv, stack' = Below, Top # Main, kind' = kind
  PROVE  \A i \in 1 .. Len(stack') : stack'[i].op = "fld" =>
             kind'[stack'[i].p] # "free" /\ StoreAllowed(stack[i].p, stack[i].v)'
<1>1. /\ Len(stack') = Len(stack) - 1
      /\ \A i \in 1 .. Len(stack) - 1 : i \in 1 .. Len(stack) /\ stack'[i] = stack[i]
    BY PopStack
<1>2. QED
    BY <1>1 DEF IInv, ArenaApart, StoreAllowed

(* A return that changes nothing else.                                     *)
LEMMA ReturnStep ==
  ASSUME IInv, mishap' = "none", Return
  PROVE  IInv'
<1>1. InUser /\ ~InMain /\ stack' = Below
    BY DEF Return
<1>2. UNCHANGED <<kind, rc, fld, weak, tab, live, var, arena>>
    BY DEF Return, object, registry
<1>3. Top # Main
    BY <1>1, MainRuns DEF Main, Frame
<1>4. TypeOK'
    BY <1>1, <1>2, <1>3, PopStack DEF IInv, TypeOK
<1>5. Nested'
  <2>1. \A i \in 2 .. Len(stack) - 1 : i \in 2 .. Len(stack)
      BY StackFacts
  <2>2. QED
      BY <1>1, <1>2, <1>3, <2>1, PopNested DEF IInv, Nested
<1>6. DyingOnce'
  <2>1. \A i \in 1 .. Len(stack) - 1 : i \in 1 .. Len(stack)
      BY StackFacts
  <2>2. QED
      BY <1>1, <1>2, <1>3, <2>1, PopDying DEF IInv, DyingOnce
<1>7. OwnerKept'
    BY <1>1, <1>2, <1>3, PopOwner
<1>8. Top.op = "user"
    BY <1>1 DEF InUser
<1>9. ASSUME NEW c \in Addr
      PROVE  Refs(c)' = Refs(c) /\ FieldRefs(c)' = FieldRefs(c)
  <2>1. \A p, op : op # "user" => (InStack(op, p)' <=> InStack(op, p))
      BY <1>1, <1>3, <1>8, PopStack DEF Matches
  <2>2. VarRefs(c)' = VarRefs(c) /\ FieldRefs(c)' = FieldRefs(c)
      BY <1>2, <2>1 DEF VarRefs, FieldRefs
  <2>3. Cardinality(FrameRefs(c)') = Cardinality(FrameRefs(c)) - One(Holds(Top, c))
      BY <1>1, <1>3, PopStack
  <2>4. One(Holds(Top, c)) = 0
      BY <1>8 DEF Holds, One
  <2>5. Cardinality(FrameRefs(c)') = Cardinality(FrameRefs(c))
      BY <2>3, <2>4, FiniteRefs
  <2>6. QED
      BY <2>2, <2>5, Zenon DEF Refs
<1>10. RefsExact'
    BY <1>2, <1>9 DEF IInv, RefsExact
<1>11. ArenaApart'
  <2>1. \A i \in 1 .. Len(stack') : stack'[i].op = "fld" =>
             kind'[stack'[i].p] # "free" /\ StoreAllowed(stack[i].p, stack[i].v)'
      BY <1>1, <1>2, <1>3, PopStores
  <2>2. \A a, b \in Addr : a \in FieldRefs(b)' => (kind'[a] = "arena") = (kind'[b] = "arena")
      BY <1>2, <1>9 DEF IInv, ArenaApart
  <2>3. QED
      BY <1>2, <2>1, <2>2 DEF IInv, ArenaApart
<1>12. WeakExact'
    BY <1>2, WeakKept
<1>13. QED
    BY <1>4, <1>5, <1>6, <1>7, <1>10, <1>11, <1>12 DEF IInv

(* vt_release of null, of an arena object, or of one that others hold.     *)
LEMMA ReleaseSharedStep ==
  ASSUME IInv, mishap' = "none", ReleaseShared
  PROVE  IInv'
<1>1. Top.op = "release" /\ stack' = Below
    BY DEF ReleaseShared
<1>2. UNCHANGED <<kind, fld, weak, tab, live, var, arena>>
    BY DEF ReleaseShared, registry
<1>3. Top # Main
    BY <1>1 DEF Main, Frame
<1>4. PICK p : p = Top.p
    OBVIOUS
<1>5. rc \in [Addr -> Int]
    BY DEF IInv, TypeOK
<1>6. rc' = [a \in Addr |-> IF a = p /\ rc[a] >= 0 THEN rc[a] - 1 ELSE rc[a]]
    BY <1>4 DEF ReleaseShared
<1>7. p \in Addr => /\ rc[p] # 1 /\ rc[p] # 0 /\ kind[p] # "free"
                    /\ kind[p] = "heap" => rc[p] \in Nat
  <2>1. SUFFICES ASSUME p \in Addr
                 PROVE  /\ rc[p] # 1 /\ rc[p] # 0 /\ kind[p] # "free"
                        /\ kind[p] = "heap" => rc[p] \in Nat
      OBVIOUS
  <2>2. rc[p] # 1
      BY <1>4, <2>1, NullIsNoAddress DEF ReleaseShared
  <2>3. Len(stack) \in FrameRefs(p)
      BY <1>1, <1>4, StackFacts DEF FrameRefs, Top
  <2>4. QED
      BY <2>1, <2>2, <2>3, Referenced
<1>8. /\ rc' \in [Addr -> Int]
      /\ \A c \in Addr : kind[c] = "heap" => rc'[c] = rc[c] - One(p = c)
      /\ \A c \in Addr : rc[c] < 0 => rc'[c] < 0
      /\ \A c \in Addr : rc[c] # 0 => rc'[c] # 0
      /\ \A c \in Addr : rc[c] = 0 => rc'[c] = 0
  <2>1. rc' \in [Addr -> Int]
      BY <1>5, <1>6
  <2>2. ASSUME NEW c \in Addr
        PROVE  /\ kind[c] = "heap" => rc'[c] = rc[c] - One(p = c)
               /\ rc[c] < 0 => rc'[c] < 0
               /\ rc[c] # 0 => rc'[c] # 0
               /\ rc[c] = 0 => rc'[c] = 0
    <3>1. PICK r \in Int : r = rc[c]
        BY <1>5
    <3>2. rc'[c] = IF c = p /\ r >= 0 THEN r - 1 ELSE r
        BY <1>6, <3>1
    <3>3. c = p => r # 1 /\ r # 0 /\ (kind[c] = "heap" => r \in Nat)
        BY <1>7, <3>1
    <3>4. QED
        BY <3>1, <3>2, <3>3 DEF One
  <2>3. QED
      BY <2>1, <2>2
<1>9. TypeOK'
    BY <1>1, <1>2, <1>3, <1>8, PopStack DEF IInv, TypeOK
<1>10. Nested'
  <2>1. \A i \in 2 .. Len(stack) - 1 : i \in 2 .. Len(stack)
      BY StackFacts
  <2>2. QED
      BY <1>1, <1>2, <1>3, <2>1, PopNested DEF IInv, Nested
<1>11. DyingOnce'
  <2>1. \A i \in 1 .. Len(stack) - 1 : i \in 1 .. Len(stack)
      BY StackFacts
  <2>2. \A i \in 1 .. Len(stack) - 1 : stack[i].op \in Dying =>
            kind'[stack[i].p] = "heap" /\ rc'[stack[i].p] = 0
      BY <1>2, <1>8, <2>1 DEF IInv, DyingOnce
  <2>3. QED
      BY <1>1, <1>3, <2>2, PopDying
<1>12. OwnerKept'
    BY <1>1, <1>2, <1>3, PopOwner
<1>13. ASSUME NEW c \in Addr
       PROVE  Refs(c)' = Refs(c) - One(p = c) /\ FieldRefs(c)' = FieldRefs(c)
  <2>1. \A q, op : op # "release" => (InStack(op, q)' <=> InStack(op, q))
      BY <1>1, <1>3, PopStack DEF Matches
  <2>2. VarRefs(c)' = VarRefs(c) /\ FieldRefs(c)' = FieldRefs(c)
      BY <1>2, <2>1 DEF VarRefs, FieldRefs
  <2>3. Cardinality(FrameRefs(c)') = Cardinality(FrameRefs(c)) - One(Holds(Top, c))
      BY <1>1, <1>3, PopStack
  <2>4. One(Holds(Top, c)) = One(p = c)
      BY <1>1, <1>4 DEF Holds, One
  <2>5. Cardinality(VarRefs(c)') = Cardinality(VarRefs(c))
        /\ Cardinality(FieldRefs(c)') = Cardinality(FieldRefs(c))
      BY <2>2, Zenon
  <2>6. QED
      BY <2>2, <2>3, <2>4, <2>5, FiniteRefs DEF Refs, One
<1>14. RefsExact'
  <2>1. \A c \in Addr : kind[c] = "free" => One(p = c) = 0
      BY <1>7 DEF One
  <2>2. \A c \in Addr : kind'[c] = "free" => Refs(c)' = 0
      BY <1>2, <1>13, <2>1 DEF IInv, RefsExact
  <2>3. \A c \in Addr : kind'[c] = "heap" => rc'[c] = Refs(c)'
      BY <1>2, <1>8, <1>13 DEF IInv, RefsExact
  <2>4. QED
      BY <2>2, <2>3 DEF RefsExact
<1>15. ArenaApart'
  <2>1. \A i \in 1 .. Len(stack') : stack'[i].op = "fld" =>
             kind'[stack'[i].p] # "free" /\ StoreAllowed(stack[i].p, stack[i].v)'
      BY <1>1, <1>2, <1>3, PopStores
  <2>2. \A a, b \in Addr : a \in FieldRefs(b)' => (kind'[a] = "arena") = (kind'[b] = "arena")
      BY <1>2, <1>13 DEF IInv, ArenaApart
  <2>3. \A a \in Addr : kind'[a] = "arena" => rc'[a] < 0
      BY <1>2, <1>8 DEF IInv, ArenaApart
  <2>4. QED
      BY <1>2, <2>1, <2>2, <2>3 DEF IInv, ArenaApart
<1>16. WeakExact'
  <2>1. \A e \in tab : e[2] \in Addr
      BY DEF IInv, TypeOK
  <2>2. QED
      BY <1>2, <1>8, <2>1, WeakKept
<1>17. QED
    BY <1>9, <1>10, <1>11, <1>12, <1>14, <1>15, <1>16 DEF IInv

(* The store that ends an assignment to a variable.                        *)
LEMMA StoreVarStep ==
  ASSUME IInv, mishap' = "none", StoreVar
  PROVE  IInv'
<1>1. Top.op = "var" /\ stack' = Below
    BY DEF StoreVar
<1>2. UNCHANGED <<kind, rc, fld, weak, tab, live, arena>>
    BY DEF StoreVar, object, registry
<1>3. Top # Main
    BY <1>1 DEF Main, Frame
<1>4. Len(stack) = 2 /\ Top.p \in Var /\ Len(stack) \in 2 .. Len(stack) /\ Top = stack[Len(stack)]
    BY <1>1, <1>3, PopStack, Places
<1>5. PICK x \in Var : x = Top.p
    BY <1>4
<1>6. PICK v \in Ref : v = Top.v
    BY <1>4, StackFacts DEF FrameSet
<1>7. /\ var' \in [Var -> Ref] /\ var'[x] = v
      /\ \A y \in Var : y # x => var'[y] = var[y]
  <2>1. var \in [Var -> Ref]
      BY DEF IInv, TypeOK
  <2>2. var' = [var EXCEPT ![x] = v]
      BY <1>5, <1>6 DEF StoreVar
  <2>3. QED
      BY <2>1, <2>2
<1>8. Len(stack') = 1 /\ stack'[1] = Main /\ stack' \in Seq(FrameSet)
    BY <1>1, <1>3, <1>4, PopStack, StackFacts DEF FrameSet, Ops
<1>9. DOMAIN stack' = {1} /\ Main.op = "user" /\ \A i \in 1 .. 1 : i = 1
    BY <1>8, LenProperties DEF Main, Frame
<1>10. TypeOK'
    BY <1>2, <1>7, <1>8 DEF IInv, TypeOK, FrameSet, Ops
<1>11. Nested'
    BY <1>8 DEF Nested
<1>12. DyingOnce'
    BY <1>8, <1>9 DEF DyingOnce, Dying
<1>13. OwnerKept'
    BY <1>8, <1>9 DEF OwnerKept
<1>14. \A op, p : op # "user" => ~InStack(op, p)'
    BY <1>8, <1>9 DEF InStack
<1>15. \A op, p : op # "user" /\ op # "var" => ~InStack(op, p)
    BY <1>1, <1>3, <1>14, PopStack DEF Matches
<1>16. \A y : InStack("var", y) <=> y = x
    BY <1>1, <1>3, <1>5, <1>14, PopStack DEF Matches
<1>17. ASSUME NEW c \in Addr
       PROVE  Refs(c)' = Refs(c) /\ FieldRefs(c)' = FieldRefs(c)
  <2>1. FieldRefs(c)' = FieldRefs(c)
      BY <1>2, <1>14, <1>15 DEF FieldRefs
  <2>2. VarRefs(c)' = VarRefs(c) \cup If(v = c, x)
      BY <1>7, <1>14, <1>16 DEF VarRefs, If
  <2>3. x \notin VarRefs(c)
      BY <1>16 DEF VarRefs
  <2>4. Cardinality(VarRefs(c) \cup If(v = c, x)) = Cardinality(VarRefs(c)) + One(v = c)
      BY <2>3, FiniteRefs, AddIf
  <2>5. Cardinality(VarRefs(c)') = Cardinality(VarRefs(c)) + One(v = c)
      BY <2>2, <2>4, Zenon
  <2>6. Cardinality(FrameRefs(c)') = Cardinality(FrameRefs(c)) - One(Holds(Top, c))
      BY <1>1, <1>3, PopStack
  <2>7. One(Holds(Top, c)) = One(v = c)
      BY <1>1, <1>6 DEF Holds, One
  <2>8. Cardinality(FieldRefs(c)') = Cardinality(FieldRefs(c))
      BY <2>1, Zenon
  <2>9. QED
      BY <2>1, <2>5, <2>6, <2>7, <2>8, FiniteRefs DEF Refs, One
<1>18. RefsExact'
    BY <1>2, <1>17 DEF IInv, RefsExact
<1>19. ArenaApart'
  <2>1. \A a, b \in Addr : a \in FieldRefs(b)' => (kind'[a] = "arena") = (kind'[b] = "arena")
      BY <1>2, <1>17 DEF IInv, ArenaApart
  <2>2. \A i \in 1 .. Len(stack') : stack'[i].op # "fld"
      BY <1>8, <1>9
  <2>3. QED
      BY <1>2, <2>1, <2>2 DEF IInv, ArenaApart
<1>20. WeakExact'
    BY <1>2, WeakKept
<1>21. QED
    BY <1>10, <1>11, <1>12, <1>13, <1>18, <1>19, <1>20 DEF IInv

(* The store that ends an assignment to a field.                           *)
LEMMA StoreFieldStep ==
  ASSUME IInv, mishap' = "none", StoreField
  PROVE  IInv'
<1>1. Top.op = "fld" /\ stack' = Below
    BY DEF StoreField
<1>2. UNCHANGED <<kind, rc, weak, tab, live, var, arena>>
    BY DEF StoreField, registry
<1>3. Top # Main
    BY <1>1 DEF Main, Frame
<1>4. PICK n \in Nat : n = Len(stack) /\ n >= 2 /\ n \in 2 .. Len(stack) /\ Top = stack[n]
    BY <1>1, <1>3, PopStack
<1>5. PICK o \in Addr : o = Top.p
    BY <1>1, <1>4, Places
<1>6. PICK v \in Ref : v = Top.v
    BY <1>4, StackFacts DEF FrameSet
<1>7. /\ fld' \in [Addr -> Ref] /\ fld'[o] = v
      /\ \A a \in Addr : a # o => fld'[a] = fld[a]
  <2>1. fld \in [Addr -> Ref]
      BY DEF IInv, TypeOK
  <2>2. fld' = [fld EXCEPT ![o] = v]
      BY <1>5, <1>6 DEF StoreField
  <2>3. QED
      BY <2>1, <2>2
<1>8. n \in 1 .. Len(stack) /\ \A j \in 1 .. n - 1 : j \in 1 .. Len(stack) /\ j # n
    BY <1>4
<1>9. \A j \in 1 .. n - 1 : stack[j].p = o => stack[j].op \notin {"fld", "drop"}
    BY <1>1, <1>4, <1>5, <1>8, OneWriter
<1>10. kind[o] # "free" /\ StoreAllowed(o, v)
    BY <1>1, <1>4, <1>5, <1>6, <1>8 DEF IInv, ArenaApart
<1>11. TypeOK'
    BY <1>1, <1>2, <1>3, <1>7, PopStack DEF IInv, TypeOK
<1>12. Nested'
  <2>1. ASSUME NEW i \in 2 .. n - 1
        PROVE  Sits(stack[i], stack[i - 1], var', fld')
    <3>1. i \in 2 .. Len(stack) /\ i - 1 \in 1 .. n - 1 /\ i - 1 \in 1 .. Len(stack) /\ i - 1 # n
        BY <1>4
    <3>2. Sits(stack[i], stack[i - 1], var, fld)
        BY <3>1 DEF IInv, Nested
    <3>3. stack[i - 1].op \in {"drop", "fld"} => stack[i - 1].p # o /\ stack[i - 1].p \in Addr
      <4>1. stack[i - 1].op = "drop" => stack[i - 1].p \in Addr
          BY <3>1 DEF IInv, DyingOnce, Dying
      <4>2. stack[i - 1].op = "fld" => i - 1 \in 2 .. Len(stack)
        <5>1. stack[1].op = "user"
            BY StackFacts DEF Main, Frame
        <5>2. stack[i - 1].op = "fld" => i - 1 # 1
            BY <5>1
        <5>3. QED
            BY <3>1, <5>2
      <4>3. stack[i - 1].op = "fld" => stack[i - 1].p \in Addr
          BY <4>2, Places
      <4>4. QED
          BY <1>9, <3>1, <4>1, <4>3
    <3>4. stack[i - 1].op \in {"drop", "var", "fld"} =>
              Old(stack[i - 1], var', fld') = Old(stack[i - 1], var, fld)
        BY <1>2, <1>7, <3>3 DEF Old
    <3>5. QED
        BY <3>2, <3>4 DEF Sits
  <2>2. QED
      BY <1>1, <1>3, <1>4, <2>1, PopNested
<1>13. DyingOnce'
    BY <1>1, <1>2, <1>3, <1>4, <1>8, PopDying DEF IInv, DyingOnce
<1>14. OwnerKept'
    BY <1>1, <1>3, PopOwner
<1>15. \A op, p : ~(op = "fld" /\ p = o) => (InStack(op, p)' <=> InStack(op, p))
    BY <1>1, <1>3, <1>5, PopStack DEF Matches
<1>16. InStack("fld", o) /\ ~InStack("fld", o)' /\ ~InStack("drop", o)'
  <2>1. InStack("fld", o)
      BY <1>1, <1>4, <1>5, StackFacts DEF InStack
  <2>2. DOMAIN stack' = 1 .. n - 1 /\ \A i \in 1 .. n - 1 : stack'[i] = stack[i]
      BY <1>1, <1>3, <1>4, PopStack, LenProperties
  <2>3. QED
      BY <1>9, <2>1, <2>2 DEF InStack
<1>17. ASSUME NEW c \in Addr
       PROVE  Refs(c)' = Refs(c) /\ FieldRefs(c)' = FieldRefs(c) \cup If(v = c, o)
  <2>1. VarRefs(c)' = VarRefs(c)
      BY <1>2, <1>15 DEF VarRefs
  <2>2. FieldRefs(c)' = FieldRefs(c) \cup If(v = c, o)
    <3>1. ASSUME NEW a \in Addr
          PROVE  a \in FieldRefs(c)' <=> a \in FieldRefs(c) \/ (a = o /\ v = c)
      <4>1. CASE a = o
          BY <1>2, <1>7, <1>10, <1>16, <4>1 DEF FieldRefs
      <4>2. CASE a # o
          BY <1>2, <1>7, <1>15, <4>2 DEF FieldRefs
      <4>3. QED
          BY <4>1, <4>2
    <3>2. FieldRefs(c)' \subseteq Addr /\ FieldRefs(c) \subseteq Addr
        BY DEF FieldRefs
    <3>3. QED
        BY <3>1, <3>2 DEF If
  <2>3. o \notin FieldRefs(c)
      BY <1>16 DEF FieldRefs
  <2>4. Cardinality(FieldRefs(c) \cup If(v = c, o)) = Cardinality(FieldRefs(c)) + One(v = c)
      BY <2>3, FiniteRefs, AddIf
  <2>5. Cardinality(FieldRefs(c)') = Cardinality(FieldRefs(c)) + One(v = c)
      BY <2>2, <2>4, Zenon
  <2>6. Cardinality(FrameRefs(c)') = Cardinality(FrameRefs(c)) - One(Holds(Top, c))
      BY <1>1, <1>3, PopStack
  <2>7. One(Holds(Top, c)) = One(v = c)
      BY <1>1, <1>6 DEF Holds, One
  <2>8. Cardinality(VarRefs(c)') = Cardinality(VarRefs(c))
      BY <2>1, Zenon
  <2>9. QED
      BY <2>2, <2>5, <2>6, <2>7, <2>8, FiniteRefs DEF Refs, One
<1>18. RefsExact'
    BY <1>2, <1>17 DEF IInv, RefsExact
<1>19. ArenaApart'
  <2>1. ASSUME NEW a \in Addr, NEW b \in Addr, a \in FieldRefs(b)'
        PROVE  (kind'[a] = "arena") = (kind'[b] = "arena")
    <3>1. CASE a \in FieldRefs(b)
        BY <1>2, <3>1 DEF IInv, ArenaApart
    <3>2. CASE a = o /\ v = b
        BY <1>2, <1>10, <3>2, NullIsNoAddress DEF StoreAllowed
    <3>3. QED
        BY <1>17, <2>1, <3>1, <3>2 DEF If
  <2>2. \A i \in 1 .. Len(stack') : stack'[i].op = "fld" =>
             kind'[stack'[i].p] # "free" /\ StoreAllowed(stack[i].p, stack[i].v)'
      BY <1>1, <1>2, <1>3, PopStores
  <2>3. QED
      BY <1>2, <2>1, <2>2 DEF IInv, ArenaApart
<1>20. WeakExact'
    BY <1>2, WeakKept
<1>21. QED
    BY <1>11, <1>12, <1>13, <1>14, <1>18, <1>19, <1>20 DEF IInv
-----------------------------------------------------------------------------
(* The weak registry.                                                      *)

(* The registry is finite and lists at most one target for a slot.         *)
LEMMA TabFacts ==
  ASSUME IInv
  PROVE  /\ IsFiniteSet(tab) /\ Cardinality(tab) \in Nat /\ live = Cardinality(tab)
         /\ \A e \in tab : /\ e[1] \in Addr /\ e[2] \in Addr /\ e = <<e[1], e[2]>>
                           /\ kind[e[1]] # "free" /\ e[2] = weak[e[1]]
                           /\ kind[e[2]] # "free" /\ rc[e[2]] # 0
         /\ \A s \in Addr : kind[s] # "free" /\ weak[s] # Null => <<s, weak[s]>> \in tab
<1>1. tab \subseteq Addr \X Addr
    BY DEF IInv, TypeOK
<1>2. IsFiniteSet(Addr \X Addr)
    BY FiniteMemory, FS_Product
<1>3. IsFiniteSet(tab) /\ Cardinality(tab) \in Nat
    BY <1>1, <1>2, FS_Subset, FS_CardinalityType
<1>4. /\ tab = {<<s, weak[s]>> : s \in {s \in Addr : kind[s] # "free" /\ weak[s] # Null}}
      /\ live = Cardinality(tab)
      /\ \A e \in tab : kind[e[2]] # "free" /\ rc[e[2]] # 0
    BY DEF IInv, WeakExact
<1>5. \A e \in tab : /\ e[1] \in Addr /\ e[2] \in Addr /\ e = <<e[1], e[2]>>
                     /\ kind[e[1]] # "free" /\ e[2] = weak[e[1]]
    BY <1>1, <1>4
<1>6. \A s \in Addr : kind[s] # "free" /\ weak[s] # Null => <<s, weak[s]>> \in tab
    BY <1>4
<1>7. QED
    BY <1>3, <1>4, <1>5, <1>6

(* vt_weak_set keeps the registry in step with the slots.                  *)
LEMMA WeakSetTab ==
  ASSUME IInv, NEW s \in Addr, NEW t \in Ref, kind[s] # "free", WeakSet(s, t)
  PROVE  /\ weak' \in [Addr -> Ref] /\ weak'[s] = t
         /\ \A a \in Addr : a # s => weak'[a] = weak[a]
         /\ tab' = {e \in tab : e[1] # s} \cup If(t # Null, <<s, t>>)
         /\ tab' \subseteq Addr \X Addr
         /\ live' = Cardinality(tab') /\ live' \in Int
<1>1. /\ IsFiniteSet(tab) /\ Cardinality(tab) \in Nat /\ live = Cardinality(tab)
      /\ \A e \in tab : e = <<e[1], e[2]>> /\ e[2] = weak[e[1]] /\ e[2] \in Addr
      /\ weak[s] # Null => <<s, weak[s]>> \in tab
    BY TabFacts
<1>2. weak \in [Addr -> Ref] /\ tab \subseteq Addr \X Addr
    BY DEF IInv, TypeOK
<1>3. weak' = [weak EXCEPT ![s] = t]
    BY DEF WeakSet
<1>4. weak' \in [Addr -> Ref] /\ weak'[s] = t /\ \A a \in Addr : a # s => weak'[a] = weak[a]
    BY <1>2, <1>3
<1>5. PICK w \in Ref : w = weak[s]
    BY <1>2
<1>6. \A e \in tab : e[1] = s => e = <<s, w>>
    BY <1>1, <1>5
<1>7. <<s, w>> \in tab <=> w # Null
  <2>1. w # Null => <<s, w>> \in tab
      BY <1>1, <1>5
  <2>2. <<s, w>> \in tab => w \in Addr
      BY <1>2
  <2>3. QED
      BY <2>1, <2>2, NullIsNoAddress
<1>8. <<s, w>>[1] = s
    OBVIOUS
<1>9. CASE t = w
  <2>1. tab' = tab /\ live' = live
      BY <1>5, <1>9 DEF WeakSet
  <2>2. tab = {e \in tab : e[1] # s} \cup If(t # Null, <<s, t>>)
      BY <1>6, <1>7, <1>9 DEF If
  <2>3. tab' = {e \in tab : e[1] # s} \cup If(t # Null, <<s, t>>)
      BY <2>1, <2>2
  <2>4. live' = Cardinality(tab') /\ live' \in Int
      BY <1>1, <2>1
  <2>5. QED
      BY <1>2, <1>4, <2>1, <2>3, <2>4
<1>10. CASE t # w
  <2>1. PICK D : D = tab \ {<<s, w>>}
      OBVIOUS
  <2>2. Detached(s) = D
      BY <1>5, <2>1 DEF Detached
  <2>3. D = {e \in tab : e[1] # s}
      BY <1>6, <1>8, <2>1
  <2>4. tab' = D \cup (IF t = Null THEN {} ELSE {<<s, t>>})
      BY <1>5, <1>10, <2>2 DEF WeakSet
  <2>5. (IF t = Null THEN {} ELSE {<<s, t>>}) = If(t # Null, <<s, t>>)
      BY DEF If
  <2>6. tab' = D \cup If(t # Null, <<s, t>>)
      BY <2>4, <2>5
  <2>7. IsFiniteSet(D) /\ Cardinality(D) = Cardinality(tab) - One(<<s, w>> \in tab)
      BY <1>1, <2>1, DropIf
  <2>8. <<s, t>> \notin D
    <3>1. <<s, t>>[1] = s
        OBVIOUS
    <3>2. QED
        BY <2>3, <3>1
  <2>9. /\ IsFiniteSet(D \cup If(t # Null, <<s, t>>))
        /\ Cardinality(D \cup If(t # Null, <<s, t>>)) = Cardinality(D) + One(t # Null)
      BY <2>7, <2>8, AddIf
  <2>10. Cardinality(tab') = Cardinality(D) + One(t # Null)
      BY <2>6, <2>9, Zenon
  <2>11. Cardinality(tab \ D) = One(<<s, w>> \in tab)
    <3>1. CASE <<s, w>> \in tab
      <4>1. tab \ D = {<<s, w>>}
          BY <2>1, <3>1
      <4>2. Cardinality({<<s, w>>}) = 1
          BY FS_Singleton
      <4>3. One(<<s, w>> \in tab) = 1
          BY <3>1 DEF One
      <4>4. QED
          BY <4>1, <4>2, <4>3, Zenon
    <3>2. CASE <<s, w>> \notin tab
      <4>1. tab \ D = {}
          BY <2>1, <3>2
      <4>2. Cardinality({}) = 0
          BY FS_EmptySet
      <4>3. One(<<s, w>> \in tab) = 0
          BY <3>2 DEF One
      <4>4. QED
          BY <4>1, <4>2, <4>3, Zenon
    <3>3. QED
        BY <3>1, <3>2
  <2>12. live' = live - Cardinality(tab \ D) + (IF t = Null THEN 0 ELSE 1)
      BY <1>5, <1>10, <2>2 DEF WeakSet
  <2>13. live' = Cardinality(tab') /\ live' \in Int
      BY <1>1, <2>7, <2>10, <2>11, <2>12 DEF One
  <2>14. tab' \subseteq Addr \X Addr
      BY <1>2, <2>1, <2>4 DEF Ref
  <2>15. tab' = {e \in tab : e[1] # s} \cup If(t # Null, <<s, t>>)
      BY <2>3, <2>6
  <2>16. QED
      BY <1>4, <2>13, <2>14, <2>15
<1>11. QED
    BY <1>9, <1>10

(* What is left of the invariant when only the registry moves.             *)
LEMMA RegistryOnly ==
  ASSUME IInv, UNCHANGED <<kind, rc, fld, var, stack>>
  PROVE  /\ Nested' /\ DyingOnce' /\ OwnerKept' /\ RefsExact'
         /\ \A a, b \in Addr : a \in FieldRefs(b)' => (kind'[a] = "arena") = (kind'[b] = "arena")
         /\ \A i \in 1 .. Len(stack') : stack'[i].op = "fld" =>
               kind'[stack'[i].p] # "free" /\ StoreAllowed(stack[i].p, stack[i].v)'
<1>1. Nested' /\ DyingOnce' /\ OwnerKept'
    BY DEF IInv, Nested, DyingOnce, OwnerKept
<1>2. \A c : VarRefs(c)' = VarRefs(c) /\ FieldRefs(c)' = FieldRefs(c) /\ FrameRefs(c)' = FrameRefs(c)
    BY Zenon DEF VarRefs, FieldRefs, FrameRefs, InStack
<1>3. \A c : Refs(c)' = Refs(c)
    BY <1>2, Zenon DEF Refs
<1>4. RefsExact'
    BY <1>3 DEF IInv, RefsExact
<1>5. \A a, b \in Addr : a \in FieldRefs(b)' => (kind'[a] = "arena") = (kind'[b] = "arena")
    BY <1>2 DEF IInv, ArenaApart
<1>6. \A i \in 1 .. Len(stack') : stack'[i].op = "fld" =>
          kind'[stack'[i].p] # "free" /\ StoreAllowed(stack[i].p, stack[i].v)'
    BY DEF IInv, ArenaApart, StoreAllowed
<1>7. QED
    BY <1>1, <1>4, <1>5, <1>6

(* o.w = v.                                                                *)
LEMMA SetWeakStep ==
  ASSUME IInv, mishap' = "none", NEW o \in Addr, NEW v \in Ref, SetWeak(o, v)
  PROVE  IInv'
<1>1. /\ InUser /\ StoreAllowed(o, v) /\ o \in Read(Held) \ {Null} /\ v \in Storable
      /\ ~Doomed(v) /\ WeakSet(o, v)
    BY DEF SetWeak
<1>2. UNCHANGED <<kind, rc, fld, var, arena, stack>>
    BY DEF SetWeak
<1>3. kind[o] # "free"
    BY <1>1, ReadAlive
<1>4. v # Null => (kind[o] = "arena") = (kind[v] = "arena")
    BY <1>1 DEF StoreAllowed
<1>5. v # Null => v \in Addr /\ kind[v] # "free" /\ rc[v] # 0
    BY <1>1, StorableAlive
<1>6. /\ weak' \in [Addr -> Ref] /\ weak'[o] = v
      /\ \A a \in Addr : a # o => weak'[a] = weak[a]
      /\ tab' = {e \in tab : e[1] # o} \cup If(v # Null, <<o, v>>)
      /\ tab' \subseteq Addr \X Addr
      /\ live' = Cardinality(tab') /\ live' \in Int
    BY <1>1, <1>3, WeakSetTab
<1>7. TypeOK'
    BY <1>2, <1>6 DEF IInv, TypeOK
<1>8. ArenaApart'
  <2>1. \A a \in Addr : kind'[a] # "free" /\ weak'[a] # Null =>
            (kind'[a] = "arena") = (kind'[weak'[a]] = "arena")
      BY <1>2, <1>4, <1>5, <1>6 DEF IInv, ArenaApart
  <2>2. QED
      BY <1>2, <2>1, RegistryOnly DEF IInv, ArenaApart
<1>9. WeakExact'
  <2>1. ASSUME NEW e \in tab'
        PROVE  /\ \E s \in Addr : kind'[s] # "free" /\ weak'[s] # Null /\ e = <<s, weak'[s]>>
               /\ kind'[e[2]] # "free" /\ rc'[e[2]] # 0
    <3>1. CASE e \in tab /\ e[1] # o
      <4>1. /\ e[1] \in Addr /\ e[2] \in Addr /\ e = <<e[1], e[2]>>
            /\ kind[e[1]] # "free" /\ e[2] = weak[e[1]]
            /\ kind[e[2]] # "free" /\ rc[e[2]] # 0
          BY <3>1, TabFacts
      <4>2. weak'[e[1]] = weak[e[1]] /\ e[2] # Null
          BY <1>6, <3>1, <4>1, NullIsNoAddress
      <4>3. QED
          BY <1>2, <4>1, <4>2
    <3>2. CASE e = <<o, v>> /\ v # Null
      <4>1. e[2] = v
          BY <3>2
      <4>2. QED
          BY <1>2, <1>3, <1>5, <1>6, <3>2, <4>1
    <3>3. QED
        BY <1>6, <2>1, <3>1, <3>2 DEF If
  <2>2. ASSUME NEW s \in Addr, kind'[s] # "free", weak'[s] # Null
        PROVE  <<s, weak'[s]>> \in tab'
    <3>1. CASE s = o
        BY <1>6, <2>2, <3>1 DEF If
    <3>2. CASE s # o
      <4>1. <<s, weak[s]>> \in tab /\ weak'[s] = weak[s]
          BY <1>2, <1>6, <2>2, <3>2, TabFacts
      <4>2. <<s, weak[s]>>[1] = s
          OBVIOUS
      <4>3. QED
          BY <1>6, <3>2, <4>1, <4>2
    <3>3. QED
        BY <3>1, <3>2
  <2>3. tab' = {<<s, weak'[s]>> : s \in {s \in Addr : kind'[s] # "free" /\ weak'[s] # Null}}
      BY <2>1, <2>2
  <2>4. QED
      BY <1>6, <2>1, <2>3 DEF WeakExact
<1>10. QED
    BY <1>2, <1>7, <1>8, <1>9, RegistryOnly DEF IInv

(* The end of a destructor: the weak field is dropped, the memory is free. *)
LEMMA DropStep ==
  ASSUME IInv, mishap' = "none", Drop
  PROVE  IInv'
<1>1. Top.op = "drop" /\ stack' = Below /\ WeakSet(Top.p, Null)
    BY DEF Drop
<1>2. UNCHANGED <<rc, fld, var, arena>>
    BY DEF Drop
<1>3. Top # Main
    BY <1>1 DEF Main, Frame
<1>4. PICK n \in Nat : n = Len(stack) /\ n >= 2 /\ n \in 2 .. Len(stack) /\ Top = stack[n]
    BY <1>1, <1>3, PopStack
<1>5. n \in 1 .. Len(stack) /\ \A j \in 1 .. n - 1 : j \in 1 .. Len(stack) /\ j # n
    BY <1>4
<1>6. PICK p \in Addr : p = Top.p /\ kind[p] = "heap" /\ rc[p] = 0
    BY <1>1, <1>4, <1>5 DEF IInv, DyingOnce, Dying
<1>7. VarRefs(p) = {} /\ FieldRefs(p) = {} /\ FrameRefs(p) = {}
    BY <1>6, Unreferenced
<1>8. /\ kind' \in [Addr -> {"free", "heap", "arena"}] /\ kind'[p] = "free"
      /\ \A a \in Addr : a # p => kind'[a] = kind[a]
  <2>1. kind \in [Addr -> {"free", "heap", "arena"}]
      BY DEF IInv, TypeOK
  <2>2. kind' = [kind EXCEPT ![p] = "free"]
      BY <1>6 DEF Drop
  <2>3. QED
      BY <2>1, <2>2
<1>9. Null \in Ref
    BY DEF Ref
<1>10. /\ weak' \in [Addr -> Ref]
       /\ \A a \in Addr : a # p => weak'[a] = weak[a]
       /\ tab' = {e \in tab : e[1] # p} \cup If(Null # Null, <<p, Null>>)
       /\ tab' \subseteq Addr \X Addr
       /\ live' = Cardinality(tab') /\ live' \in Int
  <2>1. WeakSet(p, Null) /\ kind[p] # "free"
      BY <1>1, <1>6
  <2>2. QED
      BY <2>1, <1>9, WeakSetTab
<1>11. tab' = {e \in tab : e[1] # p}
    BY <1>10 DEF If
<1>12. TypeOK'
    BY <1>1, <1>2, <1>3, <1>8, <1>10, PopStack DEF IInv, TypeOK
<1>13. Nested'
  <2>1. \A i \in 2 .. Len(stack) - 1 : i \in 2 .. Len(stack)
      BY StackFacts
  <2>2. QED
      BY <1>1, <1>2, <1>3, <2>1, PopNested DEF IInv, Nested
<1>14. DyingOnce'
  <2>1. ASSUME NEW i \in 1 .. n - 1, stack[i].op \in Dying
        PROVE  kind'[stack[i].p] = "heap" /\ rc'[stack[i].p] = 0
    <3>1. stack[i].p \in Addr /\ kind[stack[i].p] = "heap" /\ rc[stack[i].p] = 0
        BY <1>5, <2>1 DEF IInv, DyingOnce
    <3>2. stack[i].p # p
        BY <1>1, <1>4, <1>5, <1>6, <2>1 DEF IInv, DyingOnce, Dying
    <3>3. QED
        BY <1>2, <1>8, <3>1, <3>2
  <2>2. QED
      BY <1>1, <1>3, <1>4, <2>1, PopDying
<1>15. OwnerKept'
    BY <1>1, <1>2, <1>3, PopOwner
<1>16. \A op, q : ~(op = "drop" /\ q = p) => (InStack(op, q)' <=> InStack(op, q))
    BY <1>1, <1>3, <1>6, PopStack DEF Matches
<1>17. InStack("drop", p)
    BY <1>1, <1>4, <1>6, StackFacts DEF InStack
<1>18. ASSUME NEW c \in Addr
       PROVE  Refs(c)' = Refs(c) /\ FieldRefs(c)' = FieldRefs(c)
  <2>1. VarRefs(c)' = VarRefs(c)
      BY <1>2, <1>16 DEF VarRefs
  <2>2. FieldRefs(c)' = FieldRefs(c)
    <3>1. ASSUME NEW a \in Addr
          PROVE  a \in FieldRefs(c)' <=> a \in FieldRefs(c)
      <4>1. CASE a = p
          BY <1>8, <1>17, <4>1 DEF FieldRefs
      <4>2. CASE a # p
          BY <1>2, <1>8, <1>16, <4>2 DEF FieldRefs
      <4>3. QED
          BY <4>1, <4>2
    <3>2. FieldRefs(c)' \subseteq Addr /\ FieldRefs(c) \subseteq Addr
        BY DEF FieldRefs
    <3>3. QED
        BY <3>1, <3>2
  <2>3. Cardinality(FrameRefs(c)') = Cardinality(FrameRefs(c)) - One(Holds(Top, c))
      BY <1>1, <1>3, PopStack
  <2>4. One(Holds(Top, c)) = 0
      BY <1>1 DEF Holds, One
  <2>5. Cardinality(FrameRefs(c)') = Cardinality(FrameRefs(c))
      BY <2>3, <2>4, FiniteRefs
  <2>6. QED
      BY <2>1, <2>2, <2>5, Zenon DEF Refs
<1>19. RefsExact'
  <2>1. Refs(p) = 0
      BY <1>6 DEF IInv, RefsExact
  <2>2. \A c \in Addr : kind'[c] = "free" => Refs(c)' = 0
      BY <1>8, <1>18, <2>1 DEF IInv, RefsExact
  <2>3. \A c \in Addr : kind'[c] = "heap" => rc'[c] = Refs(c)'
      BY <1>2, <1>8, <1>18 DEF IInv, RefsExact
  <2>4. QED
      BY <2>2, <2>3 DEF RefsExact
<1>20. ArenaApart'
  <2>1. \A a \in Addr : kind'[a] = "arena" => rc'[a] < 0
      BY <1>2, <1>8 DEF IInv, ArenaApart
  <2>2. ASSUME NEW a \in Addr, NEW b \in Addr, a \in FieldRefs(b)'
        PROVE  (kind'[a] = "arena") = (kind'[b] = "arena")
    <3>1. a \in FieldRefs(b)
        BY <1>18, <2>2
    <3>2. a # p
        BY <1>17, <3>1 DEF FieldRefs
    <3>3. b # p
        BY <1>7, <3>1
    <3>4. (kind[a] = "arena") = (kind[b] = "arena")
        BY <3>1 DEF IInv, ArenaApart
    <3>5. QED
        BY <1>8, <3>2, <3>3, <3>4
  <2>3. ASSUME NEW i \in 1 .. n - 1, stack[i].op = "fld"
        PROVE  /\ kind'[stack[i].p] # "free"
               /\ stack[i].v # Null =>
                     (kind'[stack[i].p] = "arena") = (kind'[stack[i].v] = "arena")
    <3>1. /\ kind[stack[i].p] # "free"
          /\ stack[i].v # Null => (kind[stack[i].p] = "arena") = (kind[stack[i].v] = "arena")
        BY <1>5, <2>3 DEF IInv, ArenaApart, StoreAllowed
    <3>2. stack[i].p # p
        BY <1>1, <1>4, <1>5, <1>6, <2>3, OneWriter, SMTT(30)
    <3>3. stack[i].p \in Addr
      <4>1. i # 1
          BY <2>3, StackFacts DEF Main, Frame
      <4>2. i \in 2 .. Len(stack)
          BY <1>4, <4>1
      <4>3. QED
          BY <2>3, <4>2, Places
    <3>4. stack[i].v # p /\ stack[i].v \in Ref
      <4>1. stack[i].v = p => i \in FrameRefs(p)
          BY <1>5, <2>3, StackFacts DEF FrameRefs
      <4>2. stack[i] \in FrameSet
          BY <1>5, StackFacts
      <4>3. QED
          BY <1>7, <4>1, <4>2 DEF FrameSet
    <3>5. QED
        BY <1>8, <3>1, <3>2, <3>3, <3>4 DEF Ref
  <2>4. \A i \in 1 .. Len(stack') : stack'[i].op = "fld" =>
             kind'[stack'[i].p] # "free" /\ StoreAllowed(stack[i].p, stack[i].v)'
    <3>1. Len(stack') = n - 1 /\ \A i \in 1 .. n - 1 : stack'[i] = stack[i]
        BY <1>1, <1>3, <1>4, PopStack
    <3>2. QED
        BY <2>3, <3>1 DEF StoreAllowed
  <2>5. ASSUME NEW a \in Addr, kind'[a] # "free", weak'[a] # Null
        PROVE  (kind'[a] = "arena") = (kind'[weak'[a]] = "arena")
    <3>1. a # p /\ kind[a] # "free" /\ weak'[a] = weak[a]
        BY <1>8, <1>10, <2>5
    <3>2. (kind[a] = "arena") = (kind[weak[a]] = "arena")
        BY <2>5, <3>1 DEF IInv, ArenaApart
    <3>3. weak[a] \in Addr /\ weak[a] # p
        BY <1>6, <2>5, <3>1, WeakAlive
    <3>4. QED
        BY <1>8, <3>1, <3>2, <3>3
  <2>6. QED
      BY <2>1, <2>2, <2>4, <2>5 DEF ArenaApart
<1>21. WeakExact'
  <2>1. ASSUME NEW e \in tab'
        PROVE  /\ \E s \in Addr : kind'[s] # "free" /\ weak'[s] # Null /\ e = <<s, weak'[s]>>
               /\ kind'[e[2]] # "free" /\ rc'[e[2]] # 0
    <3>1. e \in tab /\ e[1] # p
        BY <1>11
    <3>2. /\ e[1] \in Addr /\ e[2] \in Addr /\ e = <<e[1], e[2]>>
          /\ kind[e[1]] # "free" /\ e[2] = weak[e[1]]
          /\ kind[e[2]] # "free" /\ rc[e[2]] # 0
        BY <3>1, TabFacts
    <3>3. e[2] # p /\ e[2] # Null
        BY <1>6, <3>2, NullIsNoAddress
    <3>4. weak'[e[1]] = weak[e[1]] /\ kind'[e[1]] # "free"
        BY <1>8, <1>10, <3>1, <3>2
    <3>5. kind'[e[2]] # "free" /\ rc'[e[2]] # 0
        BY <1>2, <1>8, <3>2, <3>3
    <3>6. QED
        BY <3>2, <3>3, <3>4, <3>5
  <2>2. ASSUME NEW s \in Addr, kind'[s] # "free", weak'[s] # Null
        PROVE  <<s, weak'[s]>> \in tab'
    <3>1. s # p /\ kind[s] # "free" /\ weak'[s] = weak[s]
        BY <1>8, <1>10, <2>2
    <3>2. <<s, weak[s]>> \in tab
        BY <2>2, <3>1, TabFacts
    <3>3. <<s, weak[s]>>[1] = s
        OBVIOUS
    <3>4. QED
        BY <1>11, <3>1, <3>2, <3>3
  <2>3. tab' = {<<s, weak'[s]>> : s \in {s \in Addr : kind'[s] # "free" /\ weak'[s] # Null}}
      BY <2>1, <2>2
  <2>4. QED
      BY <1>10, <2>1, <2>3 DEF WeakExact
<1>22. QED
    BY <1>12, <1>13, <1>14, <1>15, <1>19, <1>20, <1>21 DEF IInv
-----------------------------------------------------------------------------
(* Destruction.                                                            *)

(* The last frame, a release or a destructor, is replaced by two frames of *)
(* the object it is about.                                                 *)
LEMMA CallStack ==
  ASSUME IInv, NEW f \in FrameSet, NEW g \in FrameSet, stack' = Below \o <<f, g>>,
         Top.op \in {"release", "fields"}, f.op \in Dying, f.p = Top.p,
         Sits(g, f, var, fld), g.op \in {"user", "release"}, ~InStack("fld", Top.p),
         UNCHANGED <<var, fld>>
  PROVE  /\ Called(stack, stack', f, g) /\ Len(stack) \in Nat /\ Len(stack) >= 3
         /\ Len(stack') = Len(stack) + 1 /\ Top = stack[Len(stack)]
         /\ stack'[Len(stack)] = f /\ stack'[Len(stack) + 1] = g
         /\ \A i \in 1 .. Len(stack) - 1 : i \in 1 .. Len(stack) /\ stack'[i] = stack[i]
         /\ stack' \in Seq(FrameSet)
         /\ Top.p \in Ref
         /\ Nested' /\ OwnerKept'
<1>1. PICK n \in Nat : n = Len(stack) /\ n >= 1 /\ n \in 1 .. Len(stack)
    BY StackFacts
<1>2. Top = stack[n] /\ stack[1].op = "user" /\ stack[1] = Main
    BY <1>1, StackFacts DEF Top, Main, Frame
<1>3. n \in 2 .. Len(stack) /\ n - 1 \in 1 .. Len(stack)
  <2>1. n # 1
      BY <1>2
  <2>2. QED
      BY <1>1, <2>1
<1>4. stack[n - 1].op \in {"drop", "var", "fld"} /\ Top.p = Old(stack[n - 1], var, fld)
    BY <1>2, <1>3, Places
<1>5. n - 1 # 1
    BY <1>2, <1>4
<1>6. n >= 3 /\ n - 1 \in 2 .. Len(stack) /\ 2 \in 1 .. n - 1
    BY <1>1, <1>3, <1>5
<1>7. Called(stack, stack', f, g)
    BY StackFacts, CallTwo DEF Below
<1>8. /\ Len(stack') = n + 1 /\ stack' \in Seq(FrameSet)
      /\ \A i \in 1 .. n - 1 : stack'[i] = stack[i]
      /\ stack'[n] = f /\ stack'[n + 1] = g
    BY <1>1, <1>7 DEF Called
<1>9. \A i \in 1 .. n - 1 : i \in 1 .. n
    OBVIOUS
<1>10. Top.p \in Ref
  <2>1. stack[n - 1].op = "drop" => stack[n - 1].p \in Addr
      BY <1>3 DEF IInv, DyingOnce, Dying
  <2>2. stack[n - 1].op = "fld" => stack[n - 1].p \in Addr
      BY <1>6, Places
  <2>3. stack[n - 1].op = "var" => stack[n - 1].p \in Var
      BY <1>6, Places
  <2>4. QED
      BY <1>4, <2>1, <2>2, <2>3 DEF Old, IInv, TypeOK
<1>11. Nested'
  <2>0. /\ \A i \in 2 .. n + 1 : i \in 2 .. n - 1 \/ i = n \/ i = n + 1
        /\ \A i \in 1 .. n : i \in 1 .. n - 1 \/ i = n
      OBVIOUS
  <2>1. Sits(f, stack[n - 1], var, fld)
      BY <1>4 DEF Sits, Dying
  <2>2. ASSUME NEW i \in 2 .. n + 1
        PROVE  Sits(stack'[i], stack'[i - 1], var', fld')
    <3>1. CASE i \in 2 .. n - 1
      <4>1. i \in 1 .. n - 1 /\ i - 1 \in 1 .. n - 1 /\ i \in 2 .. n
          BY <3>1
      <4>2. stack'[i] = stack[i] /\ stack'[i - 1] = stack[i - 1]
          BY <1>8, <4>1
      <4>3. Sits(stack[i], stack[i - 1], var, fld)
          BY <1>1, <4>1 DEF IInv, Nested
      <4>4. QED
          BY <4>2, <4>3
    <3>2. CASE i = n
      <4>1. n - 1 \in 1 .. n - 1
          BY <1>6
      <4>2. QED
          BY <1>8, <2>1, <3>2, <4>1
    <3>3. CASE i = n + 1
      <4>1. i - 1 = n
          BY <3>3
      <4>2. QED
          BY <1>8, <3>3, <4>1
    <3>4. i \in 2 .. n - 1 \/ i = n \/ i = n + 1
        BY <2>0
    <3>5. QED
        BY <3>1, <3>2, <3>3, <3>4
  <2>3. ASSUME NEW i \in 1 .. n
        PROVE  stack'[i].op # "release"
    <3>1. CASE i \in 1 .. n - 1
        BY <1>1, <1>8, <3>1 DEF IInv, Nested
    <3>2. CASE i = n
        BY <1>8, <3>2 DEF Dying
    <3>3. i \in 1 .. n - 1 \/ i = n
        BY <2>0
    <3>4. QED
        BY <3>1, <3>2, <3>3
  <2>4. stack'[1] = Main
    <3>1. 1 \in 1 .. n - 1
        BY <1>6
    <3>2. QED
        BY <1>2, <1>8, <3>1
  <2>5. Len(stack') >= 1 /\ Len(stack') - 1 = n
      BY <1>8
  <2>6. QED
      BY <1>8, <2>2, <2>3, <2>4, <2>5 DEF Nested
<1>12. OwnerKept'
  <2>0. \A i \in 1 .. n + 1 : i \in 1 .. n - 1 \/ i = n \/ i = n + 1
      OBVIOUS
  <2>1. \A i \in 1 .. n - 1 : stack[i].op = "fld" => stack[i].p # Top.p
      BY <1>1, <1>9, StackFacts DEF InStack
  <2>2. ASSUME NEW i \in 1 .. n + 1, NEW j \in 1 .. n + 1,
               stack'[i].op = "fld", stack'[j].p = stack'[i].p
        PROVE  /\ stack'[j].op = "fld" => i = j
               /\ stack'[j].op # "drop"
               /\ stack'[j].op \in Dying => j < i
    <3>1. i \in 1 .. n - 1
        BY <1>8, <2>0, <2>2 DEF Dying
    <3>2. CASE j = n + 1
        BY <1>8, <3>2 DEF Dying
    <3>3. CASE j = n
        BY <1>8, <2>1, <2>2, <3>1, <3>3
    <3>4. CASE j \in 1 .. n - 1
        BY <1>1, <1>8, <1>9, <2>2, <3>1, <3>4 DEF IInv, OwnerKept
    <3>5. QED
        BY <2>0, <3>2, <3>3, <3>4
  <2>3. QED
      BY <1>8, <2>2 DEF OwnerKept
<1>13. QED
    BY <1>1, <1>2, <1>6, <1>7, <1>8, <1>9, <1>10, <1>11, <1>12

(* vt_release of the last reference.                                       *)
LEMMA ReleaseLastStep ==
  ASSUME IInv, mishap' = "none", ReleaseLast
  PROVE  IInv'
<1>1. Top.op = "release" /\ Top.p # Null /\ rc[Top.p] = 1 /\ WeakOnFree(Top.p)
    BY DEF ReleaseLast
<1>2. UNCHANGED <<kind, fld, var, arena>>
    BY DEF ReleaseLast
<1>3. Top = stack[Len(stack)] /\ Top \in FrameSet
    BY StackFacts DEF Top
<1>4. PICK p \in Ref \cup Var : p = Top.p
    BY <1>3 DEF FrameSet
<1>5. Null \in Ref
    BY DEF Ref
<1>6. PICK f : f = Frame("fields", p, Null)
    OBVIOUS
<1>7. PICK g : g = Frame("user", p, Null)
    OBVIOUS
<1>8. f \in FrameSet /\ f.op = "fields" /\ f.p = p
    BY <1>5, <1>6, FrameTyped DEF Ops
<1>9. g \in FrameSet /\ g.op = "user" /\ g.p = p
    BY <1>5, <1>7, FrameTyped DEF Ops
<1>10. stack' = Below \o <<f, g>>
    BY <1>4, <1>6, <1>7 DEF ReleaseLast
<1>11. Sits(g, f, var, fld) /\ f.op \in Dying /\ ~InStack("fld", Top.p)
    BY <1>8, <1>9 DEF Sits, Dying, ReleaseLast
<1>12. /\ Called(stack, stack', f, g) /\ Len(stack) \in Nat /\ Len(stack) >= 3
       /\ Len(stack') = Len(stack) + 1 /\ Top = stack[Len(stack)]
       /\ stack'[Len(stack)] = f /\ stack'[Len(stack) + 1] = g
       /\ \A i \in 1 .. Len(stack) - 1 : i \in 1 .. Len(stack) /\ stack'[i] = stack[i]
       /\ stack' \in Seq(FrameSet) /\ Top.p \in Ref /\ Nested' /\ OwnerKept'
    BY <1>1, <1>2, <1>4, <1>8, <1>9, <1>10, <1>11, CallStack
<1>13. PICK n \in Nat : n = Len(stack) /\ n >= 3 /\ n \in 1 .. Len(stack)
    BY <1>12
<1>14. p \in Addr
    BY <1>1, <1>4, <1>12 DEF Ref
<1>15. n \in FrameRefs(p)
    BY <1>1, <1>3, <1>4, <1>13, StackFacts DEF FrameRefs
<1>16. /\ kind[p] = "heap" /\ rc[p] = 1
       /\ \A i \in 1 .. Len(stack) : stack[i].op \in Dying => stack[i].p # p
  <2>1. rc[p] = 1
      BY <1>1, <1>4
  <2>2. /\ kind[p] # "free"
        /\ \A i \in 1 .. Len(stack) : stack[i].op \in Dying => stack[i].p # p
      BY <1>14, <1>15, Referenced
  <2>3. kind[p] = "arena" => rc[p] < 0
      BY <1>14 DEF IInv, ArenaApart
  <2>4. kind[p] \in {"free", "heap", "arena"}
      BY <1>14 DEF IInv, TypeOK
  <2>5. QED
      BY <2>1, <2>2, <2>3, <2>4
<1>17. rc' \in [Addr -> Int] /\ rc'[p] = 0 /\ \A c \in Addr : c # p => rc'[c] = rc[c]
  <2>1. rc \in [Addr -> Int]
      BY DEF IInv, TypeOK
  <2>2. rc' = [rc EXCEPT ![p] = 0]
      BY <1>4 DEF ReleaseLast
  <2>3. QED
      BY <1>14, <2>1, <2>2
<1>18. /\ tab' = {e \in tab : e[2] # p}
       /\ live' = Cardinality(tab') /\ live' \in Int
       /\ weak' \in [Addr -> Ref]
       /\ \A s \in Addr : <<s, p>> \in tab => weak'[s] = Null
       /\ \A s \in Addr : <<s, p>> \notin tab => weak'[s] = weak[s]
  <2>1. IsFiniteSet(tab) /\ Cardinality(tab) \in Nat /\ live = Cardinality(tab)
      BY TabFacts
  <2>2. PICK R : R = {e \in tab : e[2] = p}
      OBVIOUS
  <2>3. Registered(p) = R
    <3>1. CASE live # 0
        BY <2>2, <3>1 DEF Registered
    <3>2. CASE live = 0
      <4>1. tab = {}
          BY <2>1, <3>2, FS_EmptySet
      <4>2. QED
          BY <2>2, <4>1 DEF Registered
    <3>3. QED
        BY <3>1, <3>2
  <2>4. /\ weak' = [s \in Addr |-> IF <<s, p>> \in R THEN Null ELSE weak[s]]
        /\ tab' = tab \ R
        /\ live' = live - Cardinality(R)
      BY <1>1, <1>4, <2>3 DEF WeakOnFree
  <2>5. tab \cap R = R
      BY <2>2
  <2>6. IsFiniteSet(tab \ R) /\ Cardinality(tab \ R) = Cardinality(tab) - Cardinality(tab \cap R)
      BY <2>1, FS_Difference
  <2>7. Cardinality(tab \ R) \in Nat
      BY <2>6, FS_CardinalityType
  <2>8. live' = Cardinality(tab \ R)
      BY <2>1, <2>4, <2>5, <2>6, Zenon
  <2>9. live' = Cardinality(tab') /\ live' \in Int
      BY <2>4, <2>7, <2>8
  <2>10. \A s \in Addr : <<s, p>> \in R <=> <<s, p>> \in tab
    <3>1. \A s \in Addr : <<s, p>>[2] = p
        OBVIOUS
    <3>2. QED
        BY <2>2, <3>1
  <2>11. weak' \in [Addr -> Ref]
      BY <1>5, <2>4 DEF IInv, TypeOK
  <2>12. tab' = {e \in tab : e[2] # p}
      BY <2>2, <2>4
  <2>13. QED
      BY <2>4, <2>9, <2>10, <2>11, <2>12
<1>19. TypeOK'
    BY <1>2, <1>12, <1>17, <1>18 DEF IInv, TypeOK, FrameSet, Ops
<1>20. \A i \in 1 .. n + 1 : i \in 1 .. n - 1 \/ i = n \/ i = n + 1
    OBVIOUS
<1>21. \A i \in 1 .. n + 1 : stack'[i].op \in Dying =>
           (i \in 1 .. n - 1 /\ i \in 1 .. Len(stack) /\ stack'[i] = stack[i]) \/ (i = n /\ stack'[i].p = p)
    BY <1>8, <1>9, <1>12, <1>13, <1>20 DEF Dying
<1>22. DyingOnce'
  <2>1. ASSUME NEW i \in 1 .. n + 1, stack'[i].op \in Dying
        PROVE  stack'[i].p \in Addr /\ kind'[stack'[i].p] = "heap" /\ rc'[stack'[i].p] = 0
    <3>1. CASE i \in 1 .. Len(stack) /\ stack'[i] = stack[i]
        BY <1>2, <1>16, <1>17, <2>1, <3>1 DEF IInv, DyingOnce
    <3>2. CASE i = n /\ stack'[i].p = p
        BY <1>2, <1>14, <1>16, <1>17, <3>2
    <3>3. QED
        BY <1>21, <2>1, <3>1, <3>2
  <2>2. \A i, j \in 1 .. n + 1 :
            stack'[i].op \in Dying /\ stack'[j].op \in Dying /\ stack'[i].p = stack'[j].p => i = j
      BY <1>16, <1>21 DEF IInv, DyingOnce
  <2>3. QED
      BY <1>12, <1>13, <2>1, <2>2 DEF DyingOnce
<1>23. \A op, q : op \in {"var", "fld", "drop"} => (InStack(op, q)' <=> InStack(op, q))
  <2>1. \A op, q : op \in {"var", "fld", "drop"} =>
            ~Matches(stack[Len(stack)], op, q) /\ ~Matches(f, op, q) /\ ~Matches(g, op, q)
      BY <1>1, <1>3, <1>8, <1>9 DEF Matches
  <2>2. QED
      BY <1>12, <2>1, StackFacts, StackTerms, CalledFacts
<1>24. ASSUME NEW c \in Addr
       PROVE  Refs(c)' = Refs(c) - One(p = c) /\ FieldRefs(c)' = FieldRefs(c)
  <2>1. VarRefs(c)' = VarRefs(c) /\ FieldRefs(c)' = FieldRefs(c)
      BY <1>2, <1>23 DEF VarRefs, FieldRefs
  <2>2. ~Holds(f, c) /\ ~Holds(g, c)
      BY <1>8, <1>9 DEF Holds
  <2>3. FrameRefs(c)' = FrameRefs(c) \ {n}
    <3>1. Holders(stack', c) = (Holders(stack, c) \ {Len(stack)}) \cup If(Holds(f, c), Len(stack))
                                                 \cup If(Holds(g, c), Len(stack) + 1)
        BY <1>12, StackFacts, CalledFacts
    <3>2. Holders(stack', c) = Holders(stack, c) \ {n}
        BY <1>13, <2>2, <3>1 DEF If
    <3>3. QED
        BY <3>2, StackTerms
  <2>4. n \in FrameRefs(c) <=> p = c
      BY <1>1, <1>3, <1>4, <1>13, StackFacts DEF FrameRefs
  <2>5. One(n \in FrameRefs(c)) = One(p = c)
      BY <2>4 DEF One
  <2>6. Cardinality(FrameRefs(c) \ {n}) = Cardinality(FrameRefs(c)) - One(n \in FrameRefs(c))
      BY FiniteRefs, DropIf
  <2>7. Cardinality(FrameRefs(c)') = Cardinality(FrameRefs(c)) - One(p = c)
      BY <2>3, <2>5, <2>6, Zenon
  <2>8. /\ Cardinality(VarRefs(c)') = Cardinality(VarRefs(c))
        /\ Cardinality(FieldRefs(c)') = Cardinality(FieldRefs(c))
      BY <2>1, Zenon
  <2>9. QED
      BY <2>1, <2>7, <2>8, FiniteRefs DEF Refs, One
<1>25. RefsExact'
  <2>1. Refs(p)' = 0
    <3>1. Refs(p) = 1
        BY <1>14, <1>16 DEF IInv, RefsExact
    <3>2. One(p = p) = 1
        BY DEF One
    <3>3. QED
        BY <1>14, <1>24, <3>1, <3>2
  <2>2. ASSUME NEW c \in Addr, c # p
        PROVE  Refs(c)' = Refs(c)
    <3>1. One(p = c) = 0
        BY <2>2 DEF One
    <3>2. Refs(c) \in Nat
        BY FiniteRefs DEF Refs
    <3>3. QED
        BY <1>24, <3>1, <3>2
  <2>3. QED
      BY <1>2, <1>16, <1>17, <2>1, <2>2 DEF IInv, RefsExact
<1>26. ArenaApart'
  <2>1. \A a \in Addr : kind'[a] = "arena" => rc'[a] < 0
      BY <1>2, <1>16, <1>17 DEF IInv, ArenaApart
  <2>2. \A a, b \in Addr : a \in FieldRefs(b)' => (kind'[a] = "arena") = (kind'[b] = "arena")
      BY <1>2, <1>24 DEF IInv, ArenaApart
  <2>3. \A i \in 1 .. n + 1 : stack'[i].op = "fld" =>
            i \in 1 .. Len(stack) /\ stack'[i] = stack[i]
      BY <1>8, <1>9, <1>12, <1>13, <1>20
  <2>4. \A i \in 1 .. Len(stack') : stack'[i].op = "fld" =>
             kind'[stack'[i].p] # "free" /\ StoreAllowed(stack[i].p, stack[i].v)'
      BY <1>2, <1>12, <1>13, <2>3 DEF IInv, ArenaApart, StoreAllowed
  <2>5. \A a \in Addr : weak'[a] # Null => weak'[a] = weak[a]
      BY <1>18
  <2>6. QED
      BY <1>2, <2>1, <2>2, <2>4, <2>5 DEF IInv, ArenaApart
<1>27. WeakExact'
  <2>1. ASSUME NEW e \in tab'
        PROVE  /\ \E s \in Addr : kind'[s] # "free" /\ weak'[s] # Null /\ e = <<s, weak'[s]>>
               /\ kind'[e[2]] # "free" /\ rc'[e[2]] # 0
    <3>1. e \in tab /\ e[2] # p
        BY <1>18
    <3>2. /\ e[1] \in Addr /\ e[2] \in Addr /\ e = <<e[1], e[2]>>
          /\ kind[e[1]] # "free" /\ e[2] = weak[e[1]]
          /\ kind[e[2]] # "free" /\ rc[e[2]] # 0
        BY <3>1, TabFacts
    <3>3. <<e[1], p>> \notin tab
      <4>1. <<e[1], p>> \in tab => <<e[1], p>>[2] = weak[<<e[1], p>>[1]]
          BY TabFacts
      <4>2. QED
          BY <3>1, <3>2, <4>1
    <3>4. weak'[e[1]] = e[2] /\ e[2] # Null
        BY <1>18, <3>2, <3>3, NullIsNoAddress
    <3>5. kind'[e[2]] # "free" /\ rc'[e[2]] # 0
        BY <1>2, <1>17, <3>1, <3>2
    <3>6. QED
        BY <1>2, <3>2, <3>4, <3>5
  <2>2. ASSUME NEW s \in Addr, kind'[s] # "free", weak'[s] # Null
        PROVE  <<s, weak'[s]>> \in tab'
    <3>1. <<s, p>> \notin tab /\ weak'[s] = weak[s] /\ kind[s] # "free"
        BY <1>2, <1>18, <2>2
    <3>2. <<s, weak[s]>> \in tab
        BY <2>2, <3>1, TabFacts
    <3>3. weak[s] # p
        BY <3>1, <3>2
    <3>4. <<s, weak[s]>>[2] = weak[s]
        OBVIOUS
    <3>5. QED
        BY <1>18, <3>1, <3>2, <3>3, <3>4
  <2>3. tab' = {<<s, weak'[s]>> : s \in {s \in Addr : kind'[s] # "free" /\ weak'[s] # Null}}
      BY <2>1, <2>2
  <2>4. QED
      BY <1>18, <2>1, <2>3 DEF WeakExact
<1>28. QED
    BY <1>12, <1>19, <1>22, <1>25, <1>26, <1>27 DEF IInv

(* The generated destructor releases the strong field.                     *)
LEMMA FieldsStep ==
  ASSUME IInv, mishap' = "none", Fields
  PROVE  IInv'
<1>1. Top.op = "fields"
    BY DEF Fields
<1>2. UNCHANGED <<kind, rc, fld, weak, tab, live, var, arena>>
    BY DEF Fields, object, registry
<1>3. PICK n \in Nat : n = Len(stack) /\ n \in 1 .. Len(stack) /\ Top = stack[n]
    BY StackFacts DEF Top
<1>4. PICK p \in Addr : p = Top.p /\ kind[p] = "heap" /\ rc[p] = 0
    BY <1>1, <1>3 DEF IInv, DyingOnce, Dying
<1>5. PICK b \in Ref : b = fld[p]
    BY DEF IInv, TypeOK
<1>6. Null \in Ref /\ p \in Ref
    BY DEF Ref
<1>7. PICK f : f = Frame("drop", p, Null)
    OBVIOUS
<1>8. PICK g : g = Frame("release", b, Null)
    OBVIOUS
<1>9. f \in FrameSet /\ f.op = "drop" /\ f.p = p
    BY <1>6, <1>7, FrameTyped DEF Ops
<1>10. g \in FrameSet /\ g.op = "release" /\ g.p = b
    BY <1>6, <1>8, FrameTyped DEF Ops
<1>11. stack' = Below \o <<f, g>>
    BY <1>4, <1>5, <1>7, <1>8 DEF Fields
<1>12. Sits(g, f, var, fld) /\ f.op \in Dying
    BY <1>5, <1>9, <1>10 DEF Sits, Old, Dying
<1>13. ~InStack("fld", p)
  <2>1. SUFFICES ASSUME NEW i \in 1 .. Len(stack), stack[i].op = "fld", stack[i].p = p
                 PROVE  FALSE
      BY StackFacts DEF InStack
  <2>2. n < i
      BY <1>1, <1>3, <1>4, <2>1 DEF IInv, OwnerKept, Dying
  <2>3. QED
      BY <1>3, <2>1, <2>2, StackFacts
<1>14. /\ Called(stack, stack', f, g) /\ Len(stack') = n + 1
       /\ stack'[n] = f /\ stack'[n + 1] = g
       /\ \A i \in 1 .. n - 1 : i \in 1 .. Len(stack) /\ stack'[i] = stack[i]
       /\ stack' \in Seq(FrameSet) /\ Nested' /\ OwnerKept'
    BY <1>1, <1>2, <1>3, <1>4, <1>9, <1>10, <1>11, <1>12, <1>13, CallStack
<1>15. TypeOK'
    BY <1>2, <1>14 DEF IInv, TypeOK, FrameSet, Ops
<1>16. \A i \in 1 .. n + 1 : i \in 1 .. n - 1 \/ i = n \/ i = n + 1
    OBVIOUS
<1>17. \A i \in 1 .. n + 1 : stack'[i].op \in Dying =>
           i \in 1 .. Len(stack) /\ stack[i].op \in Dying /\ stack'[i].p = stack[i].p
    BY <1>1, <1>3, <1>4, <1>9, <1>10, <1>14, <1>16 DEF Dying
<1>18. DyingOnce'
    BY <1>2, <1>14, <1>17 DEF IInv, DyingOnce
<1>19. \A i \in 1 .. Len(stack) : stack[i].op \in Dying /\ stack[i].p = p => i = n
    BY <1>1, <1>3, <1>4 DEF IInv, DyingOnce, Dying
<1>20. ~InStack("drop", p)
  <2>1. SUFFICES ASSUME NEW i \in 1 .. Len(stack), stack[i].op = "drop", stack[i].p = p
                 PROVE  FALSE
      BY StackFacts DEF InStack
  <2>2. i = n
      BY <1>19, <2>1 DEF Dying
  <2>3. QED
      BY <1>1, <1>3, <2>1, <2>2
<1>21. \A op, q : op \in {"var", "fld", "drop"} =>
           (InStack(op, q)' <=> InStack(op, q) \/ (op = "drop" /\ q = p))
  <2>1. \A op, q : op \in {"var", "fld", "drop"} =>
            /\ ~Matches(stack[Len(stack)], op, q) /\ ~Matches(g, op, q)
            /\ Matches(f, op, q) <=> op = "drop" /\ q = p
      BY <1>1, <1>3, <1>9, <1>10 DEF Matches
  <2>2. QED
      BY <1>14, <2>1, StackFacts, StackTerms, CalledFacts
<1>22. ASSUME NEW c \in Addr
       PROVE  Refs(c)' = Refs(c) /\ FieldRefs(c)' = FieldRefs(c) \ {p}
  <2>1. VarRefs(c)' = VarRefs(c)
      BY <1>2, <1>21 DEF VarRefs
  <2>2. FieldRefs(c)' = FieldRefs(c) \ {p}
      BY <1>2, <1>21 DEF FieldRefs
  <2>3. p \in FieldRefs(c) <=> b = c
      BY <1>4, <1>5, <1>20, <1>13 DEF FieldRefs
  <2>4. One(p \in FieldRefs(c)) = One(b = c)
      BY <2>3 DEF One
  <2>5. Cardinality(FieldRefs(c) \ {p}) = Cardinality(FieldRefs(c)) - One(p \in FieldRefs(c))
      BY FiniteRefs, DropIf
  <2>6. Cardinality(FieldRefs(c)') = Cardinality(FieldRefs(c)) - One(b = c)
      BY <2>2, <2>4, <2>5, Zenon
  <2>7. ~Holds(f, c) /\ (Holds(g, c) <=> b = c)
      BY <1>9, <1>10 DEF Holds
  <2>8. PICK S : S = FrameRefs(c)
      OBVIOUS
  <2>9. IsFiniteSet(S) /\ Cardinality(S) \in Nat
      BY <2>8, FiniteRefs
  <2>10. S \subseteq 1 .. n /\ n \notin S
      BY <1>1, <1>3, <2>8, StackFacts DEF FrameRefs
  <2>11. FrameRefs(c)' = S \cup If(b = c, n + 1)
    <3>1. Holders(stack', c) = (Holders(stack, c) \ {Len(stack)}) \cup If(Holds(f, c), Len(stack))
                                                 \cup If(Holds(g, c), Len(stack) + 1)
        BY <1>14, StackFacts, CalledFacts
    <3>2. Holders(stack, c) = S /\ Holders(stack', c) = FrameRefs(c)'
        BY <2>8, StackTerms
    <3>3. QED
        BY <1>3, <2>7, <2>10, <3>1, <3>2 DEF If
  <2>12. n + 1 \notin S
      BY <2>10
  <2>13. Cardinality(S \cup If(b = c, n + 1)) = Cardinality(S) + One(b = c)
      BY <2>9, <2>12, AddIf
  <2>14. Cardinality(FrameRefs(c)') = Cardinality(FrameRefs(c)) + One(b = c)
      BY <2>8, <2>11, <2>13, Zenon
  <2>15. Cardinality(VarRefs(c)') = Cardinality(VarRefs(c))
      BY <2>1, Zenon
  <2>16. QED
      BY <2>2, <2>6, <2>14, <2>15, FiniteRefs DEF Refs, One
<1>23. RefsExact'
    BY <1>2, <1>22 DEF IInv, RefsExact
<1>24. ArenaApart'
  <2>1. \A a, c \in Addr : a \in FieldRefs(c)' => (kind'[a] = "arena") = (kind'[c] = "arena")
      BY <1>2, <1>22 DEF IInv, ArenaApart
  <2>2. \A i \in 1 .. n + 1 : stack'[i].op = "fld" =>
            i \in 1 .. Len(stack) /\ stack'[i] = stack[i]
      BY <1>9, <1>10, <1>14, <1>16
  <2>3. \A i \in 1 .. Len(stack') : stack'[i].op = "fld" =>
             kind'[stack'[i].p] # "free" /\ StoreAllowed(stack[i].p, stack[i].v)'
      BY <1>2, <1>14, <2>2 DEF IInv, ArenaApart, StoreAllowed
  <2>4. QED
      BY <1>2, <2>1, <2>3 DEF IInv, ArenaApart
<1>25. WeakExact'
    BY <1>2, WeakKept
<1>26. QED
    BY <1>14, <1>15, <1>18, <1>23, <1>24, <1>25 DEF IInv
-----------------------------------------------------------------------------
(* Arenas.                                                                 *)

(* arena {                                                                 *)
LEMMA OpenArenaStep ==
  ASSUME IInv, mishap' = "none", OpenArena
  PROVE  IInv'
<1>1. UNCHANGED <<kind, rc, fld, weak, tab, live, var, stack>> /\ arena' = TRUE
    BY DEF OpenArena, object, registry
<1>2. TypeOK'
    BY <1>1 DEF IInv, TypeOK
<1>3. WeakExact'
    BY <1>1, WeakKept
<1>4. QED
    BY <1>1, <1>2, <1>3, RegistryOnly DEF IInv, ArenaApart

(* The end of the block: what the arena holds is free, and nothing that    *)
(* stays refers to it.                                                     *)
LEMMA CloseArenaStep ==
  ASSUME IInv, mishap' = "none", CloseArena
  PROVE  IInv'
<1>1. /\ InMain /\ UNCHANGED <<rc, fld, weak, tab, live, stack>> /\ arena' = FALSE
      /\ \A e \in tab : kind[e[1]] # "arena"
    BY DEF CloseArena, registry
<1>2. /\ kind \in [Addr -> {"free", "heap", "arena"}] /\ var \in [Var -> Ref]
      /\ fld \in [Addr -> Ref] /\ weak \in [Addr -> Ref]
    BY DEF IInv, TypeOK
<1>3. /\ kind' \in [Addr -> {"free", "heap", "arena"}]
      /\ \A a \in Addr : kind'[a] = IF kind[a] = "arena" THEN "free" ELSE kind[a]
    BY <1>2 DEF CloseArena
<1>4. /\ var' \in [Var -> Ref]
      /\ \A x \in Var : var'[x] = IF var[x] # Null /\ kind[var[x]] = "arena" THEN Null ELSE var[x]
    BY <1>2 DEF CloseArena, Ref
<1>5. TypeOK'
    BY <1>1, <1>3, <1>4 DEF IInv, TypeOK
<1>6. Len(stack) = 1 /\ stack[1] = Main /\ Main.op = "user" /\ stack' = stack
    BY <1>1, MainAlone, StackFacts DEF Main, Frame
<1>7. \A op, p : op # "user" => ~InStack(op, p) /\ ~InStack(op, p)'
    BY <1>1, MainAlone DEF InStack
<1>8. \A i \in 1 .. 1 : i = 1
    OBVIOUS
<1>9. Nested' /\ DyingOnce' /\ OwnerKept'
  <2>1. Len(stack') = 1 /\ stack'[1] = Main
      BY <1>6
  <2>2. Nested'
      BY <2>1 DEF Nested
  <2>3. DyingOnce'
      BY <1>6, <1>8, <2>1 DEF DyingOnce, Dying
  <2>4. OwnerKept'
      BY <1>6, <1>8, <2>1 DEF OwnerKept
  <2>5. QED
      BY <2>2, <2>3, <2>4
<1>10. ASSUME NEW c \in Addr, kind[c] # "arena"
       PROVE  Refs(c)' = Refs(c) /\ FieldRefs(c)' = FieldRefs(c)
  <2>1. c # Null
      BY NullIsNoAddress
  <2>2. VarRefs(c)' = VarRefs(c)
      BY <1>4, <1>7, <1>10, <2>1 DEF VarRefs
  <2>3. FieldRefs(c)' = FieldRefs(c)
    <3>1. ASSUME NEW a \in Addr
          PROVE  a \in FieldRefs(c)' <=> a \in FieldRefs(c)
      <4>1. a \in FieldRefs(c) => kind[a] # "arena"
          BY <1>10 DEF IInv, ArenaApart
      <4>2. QED
          BY <1>1, <1>3, <1>7, <4>1 DEF FieldRefs
    <3>2. FieldRefs(c)' \subseteq Addr /\ FieldRefs(c) \subseteq Addr
        BY DEF FieldRefs
    <3>3. QED
        BY <3>1, <3>2
  <2>4. FrameRefs(c)' = FrameRefs(c)
      BY <1>1 DEF FrameRefs
  <2>5. QED
      BY <2>2, <2>3, <2>4, Zenon DEF Refs
<1>11. ASSUME NEW c \in Addr, kind[c] = "arena"
       PROVE  Refs(c)' = 0 /\ FieldRefs(c)' = {}
  <2>1. c # Null
      BY NullIsNoAddress
  <2>2. VarRefs(c)' = {}
      BY <1>4, <1>11, <2>1 DEF VarRefs
  <2>3. FieldRefs(c)' = {}
    <3>1. ASSUME NEW a \in Addr, a \in FieldRefs(c)'
          PROVE  FALSE
      <4>1. kind'[a] # "free" /\ fld[a] = c
          BY <1>1, <3>1 DEF FieldRefs
      <4>2. kind[a] # "free" /\ kind[a] # "arena"
          BY <1>3, <4>1
      <4>3. a \in FieldRefs(c)
          BY <1>7, <4>1, <4>2 DEF FieldRefs
      <4>4. QED
          BY <1>11, <4>2, <4>3 DEF IInv, ArenaApart
    <3>2. FieldRefs(c)' \subseteq Addr
        BY DEF FieldRefs
    <3>3. QED
        BY <3>1, <3>2
  <2>4. FrameRefs(c)' = {}
    <3>1. FrameRefs(c)' = FrameRefs(c)
        BY <1>1 DEF FrameRefs
    <3>2. QED
        BY <1>1, <3>1, MainAlone
  <2>5. Cardinality({}) = 0
      BY FS_EmptySet
  <2>6. /\ Cardinality(VarRefs(c)') = 0 /\ Cardinality(FieldRefs(c)') = 0
        /\ Cardinality(FrameRefs(c)') = 0
      BY <2>2, <2>3, <2>4, <2>5, Zenon
  <2>7. QED
      BY <2>3, <2>6 DEF Refs
<1>12. RefsExact'
  <2>1. \A c \in Addr : kind'[c] = "heap" => rc'[c] = Refs(c)'
      BY <1>1, <1>3, <1>10 DEF IInv, RefsExact
  <2>2. \A c \in Addr : kind'[c] = "free" => Refs(c)' = 0
      BY <1>3, <1>10, <1>11 DEF IInv, RefsExact
  <2>3. QED
      BY <2>1, <2>2 DEF RefsExact
<1>13. ArenaApart'
  <2>1. \A a \in Addr : kind'[a] # "arena"
      BY <1>2, <1>3
  <2>2. \A i \in 1 .. Len(stack') : stack'[i].op # "fld"
      BY <1>6, <1>8
  <2>3. \A a \in Addr : kind'[a] # "free" /\ weak'[a] # Null =>
            (kind'[a] = "arena") = (kind'[weak'[a]] = "arena")
    <3>1. \A a \in Addr : kind'[a] # "free" /\ weak'[a] # Null => weak'[a] \in Addr
        BY <1>1, <1>2 DEF Ref
    <3>2. QED
        BY <2>1, <3>1
  <2>4. QED
      BY <2>1, <2>2, <2>3 DEF ArenaApart
<1>14. WeakExact'
  <2>1. ASSUME NEW a \in Addr, kind[a] = "arena"
        PROVE  weak[a] = Null
    <3>1. weak[a] # Null => <<a, weak[a]>> \in tab
        BY <2>1, TabFacts
    <3>2. <<a, weak[a]>>[1] = a
        OBVIOUS
    <3>3. QED
        BY <1>1, <2>1, <3>1, <3>2
  <2>2. \A a \in Addr : kind'[a] # "free" /\ weak'[a] # Null <=> kind[a] # "free" /\ weak[a] # Null
      BY <1>1, <1>3, <2>1
  <2>3. \A e \in tab : kind'[e[2]] # "free" /\ rc'[e[2]] # 0
    <3>1. ASSUME NEW e \in tab
          PROVE  kind'[e[2]] # "free" /\ rc'[e[2]] # 0
      <4>1. /\ e[1] \in Addr /\ e[2] \in Addr /\ kind[e[1]] # "free" /\ e[2] = weak[e[1]]
            /\ rc[e[2]] # 0
          BY TabFacts
      <4>2. kind[e[2]] # "arena" /\ kind[e[2]] # "free"
          BY <1>1, <3>1, <4>1, NullIsNoAddress, TabFacts DEF IInv, ArenaApart
      <4>3. QED
          BY <1>1, <1>3, <4>1, <4>2
    <3>2. QED
        BY <3>1
  <2>4. QED
      BY <1>1, <2>2, <2>3, WeakKept
<1>15. QED
    BY <1>5, <1>9, <1>12, <1>13, <1>14 DEF IInv
-----------------------------------------------------------------------------
(* The results.                                                            *)

(* At the start there is no object.                                        *)
LEMMA InitIInv == Init => IInv
<1>1. SUFFICES ASSUME Init
               PROVE  IInv
    OBVIOUS
<1>2. stack = <<Main>> /\ Len(stack) = 1 /\ stack[1] = Main /\ DOMAIN stack = {1}
    BY <1>1 DEF Init
<1>3. Main.op = "user" /\ Null \in Ref /\ Main \in FrameSet
    BY DEF Main, Frame, Ref, FrameSet, Ops
<1>4. stack \in Seq(FrameSet)
    BY <1>2, <1>3
<1>5. TypeOK
  <2>1. stack \in Seq([op : {"user", "release", "fields", "drop", "var", "fld"},
                       p : Ref \cup Var, v : Ref])
      BY <1>4 DEF FrameSet, Ops
  <2>2. /\ kind \in [Addr -> {"free", "heap", "arena"}] /\ rc \in [Addr -> Int]
        /\ fld \in [Addr -> Ref] /\ weak \in [Addr -> Ref] /\ var \in [Var -> Ref]
      BY <1>1, <1>3 DEF Init
  <2>3. tab \subseteq Addr \X Addr /\ live \in Int /\ arena \in BOOLEAN
    <3>1. tab = {} /\ live = 0
        BY <1>1, Zenon DEF Init
    <3>2. arena \in BOOLEAN
        BY <1>1, Zenon DEF Init
    <3>3. QED
        BY <3>1, <3>2
  <2>4. mishap \in {"none", "dying", "twice", "owner", "arena"}
      BY <1>1 DEF Init
  <2>5. QED
      BY <2>1, <2>2, <2>3, <2>4 DEF TypeOK
<1>6. \A i \in 1 .. 1 : i = 1
    OBVIOUS
<1>7. Nested /\ DyingOnce /\ OwnerKept
    BY <1>2, <1>3, <1>6 DEF Nested, DyingOnce, OwnerKept, Dying
<1>8. \A c \in Addr : VarRefs(c) = {} /\ FieldRefs(c) = {} /\ FrameRefs(c) = {}
    BY <1>1, <1>2, <1>3, NullIsNoAddress DEF Init, VarRefs, FieldRefs, FrameRefs
<1>9. RefsExact
  <2>1. Cardinality({}) = 0
      BY FS_EmptySet
  <2>2. ASSUME NEW c \in Addr
        PROVE  Refs(c) = 0
    <3>1. Cardinality(VarRefs(c)) = 0 /\ Cardinality(FieldRefs(c)) = 0 /\ Cardinality(FrameRefs(c)) = 0
        BY <1>8, <2>1, Zenon
    <3>2. QED
        BY <3>1 DEF Refs
  <2>3. QED
      BY <1>1, <2>2 DEF Init, RefsExact
<1>10. ArenaApart
    BY <1>1, <1>2, <1>3, <1>6 DEF Init, ArenaApart, FieldRefs
<1>11. WeakExact
    BY <1>1, FS_EmptySet DEF Init, WeakExact
<1>12. mishap = "none"
    BY <1>1 DEF Init
<1>13. QED
    BY <1>5, <1>7, <1>9, <1>10, <1>11, <1>12 DEF IInv

(* Every step of the runtime and of the emitted code that is no mishap     *)
(* keeps the invariant.                                                    *)
LEMMA StepsIInv ==
  ASSUME IInv, Steps, mishap' = "none"
  PROVE  IInv'
<1>1. CASE ReleaseShared
    BY <1>1, ReleaseSharedStep
<1>2. CASE ReleaseLast
    BY <1>2, ReleaseLastStep
<1>3. CASE Fields
    BY <1>3, FieldsStep
<1>4. CASE Drop
    BY <1>4, DropStep
<1>5. CASE StoreVar
    BY <1>5, StoreVarStep
<1>6. CASE StoreField
    BY <1>6, StoreFieldStep
<1>7. CASE Return
    BY <1>7, ReturnStep
<1>8. CASE OpenArena
    BY <1>8, OpenArenaStep
<1>9. CASE CloseArena
    BY <1>9, CloseArenaStep
<1>10. CASE \E x \in Var, a \in Addr : New(x, a) \/ NewInArena(x, a)
    BY <1>10, AllocStep
<1>11. CASE \E x \in Var, v \in Ref : Assign(x, v)
    BY <1>11, AssignStep
<1>12. ASSUME NEW o \in Addr, NEW v \in Ref, SetField(o, v) \/ SetWeak(o, v)
       PROVE  IInv'
    BY <1>12, SetFieldStep, SetWeakStep
<1>13. QED
    BY <1>1, <1>2, <1>3, <1>4, <1>5, <1>6, <1>7, <1>8, <1>9, <1>10, <1>11, <1>12 DEF Steps

(* Up to the first mishap.                                                 *)
Unharmed == mishap = "none" => IInv

LEMMA NextUnharmed == Unharmed /\ [Next]_vars => Unharmed'
<1>1. SUFFICES ASSUME Unharmed, [Next]_vars, mishap' = "none"
               PROVE  IInv'
    BY DEF Unharmed
<1>2. CASE UNCHANGED vars
  <2>1. UNCHANGED <<kind, rc, fld, weak, tab, live, var, arena, stack, mishap>>
      BY <1>2 DEF vars
  <2>2. IInv
      BY <1>1, <2>1 DEF Unharmed
  <2>3. TypeOK'
      BY <2>1, <2>2 DEF IInv, TypeOK
  <2>4. WeakExact'
      BY <2>1, <2>2, WeakKept
  <2>5. QED
      BY <1>1, <2>1, <2>2, <2>3, <2>4, RegistryOnly DEF IInv, ArenaApart
<1>3. CASE mishap = "none" /\ Steps
    BY <1>1, <1>3, StepsIInv DEF Unharmed
<1>4. QED
    BY <1>1, <1>2, <1>3 DEF Next

(* For any memory and any number of variables, up to the first mishap an   *)
(* object's count is at every point of every cascade the number of         *)
(* references to it, whatever fields destructors write in the middle of an *)
(* assignment, and nothing refers to memory that has been freed.  A mishap *)
(* is a deinit that stores what is being destroyed, an assignment to o.f   *)
(* or the end of o under another assignment to o.f, or the end of an arena *)
(* whose objects have weak fields set.                                     *)
THEOREM HeapRefsExact == Spec => []RefsExact
<1>1. Init => Unharmed
    BY InitIInv DEF Unharmed
<1>2. Unharmed /\ [Next]_vars => Unharmed'
    BY NextUnharmed
<1>3. Unharmed => RefsExact
    BY DEF Unharmed, IInv, RefsExact
<1>4. QED
    BY <1>1, <1>2, <1>3, PTL DEF Spec

(* Up to the first mishap the weak registry lists exactly the weak fields  *)
(* in use and counts them, and none of them leads to memory that is free   *)
(* or to an object whose destructor runs, although the registry is changed *)
(* by destructors in the middle of a cascade and addresses are used again. *)
THEOREM HeapWeakExact == Spec => []WeakExact
<1>1. Init => Unharmed
    BY InitIInv DEF Unharmed
<1>2. Unharmed /\ [Next]_vars => Unharmed'
    BY NextUnharmed
<1>3. Unharmed => WeakExact
    BY DEF Unharmed, IInv, WeakExact
<1>4. QED
    BY <1>1, <1>2, <1>3, PTL DEF Spec

(* Up to the first mishap a destructor runs at most once at a time for an  *)
(* object, on an object with no count left, and every frame of the cascade *)
(* is well typed.                                                          *)
THEOREM HeapDestroysOnce == Spec => [](mishap = "none" => TypeOK /\ DyingOnce)
<1>1. Init => Unharmed
    BY InitIInv DEF Unharmed
<1>2. Unharmed /\ [Next]_vars => Unharmed'
    BY NextUnharmed
<1>3. Unharmed => (mishap = "none" => TypeOK /\ DyingOnce)
    BY DEF Unharmed, IInv
<1>4. QED
    BY <1>1, <1>2, <1>3, PTL DEF Spec

-----------------------------------------------------------------------------
(* Nothing is left behind.  A count is 0 only while the destructor of its  *)
(* object is on the stack, so when main runs every object has a reference, *)
(* and that is one of a variable or of a field.  Following the references  *)
(* backwards in a finite memory leads to a variable or round in a circle.  *)

ZeroDying ==
    \A a \in Addr : kind[a] = "heap" /\ rc[a] = 0 => InStack("fields", a) \/ InStack("drop", a)

(* Two frames are pushed.                                                  *)
LEMMA PushZero ==
  ASSUME IInv, ZeroDying, NEW f \in FrameSet, NEW g \in FrameSet, stack' = stack \o <<f, g>>,
         \A a \in Addr : kind'[a] = "heap" /\ rc'[a] = 0 => kind[a] = "heap" /\ rc[a] = 0
  PROVE  ZeroDying'
<1>1. stack \in Seq(FrameSet)
    BY StackFacts
<1>2. Pushed(stack, stack', f, g)
    BY <1>1, PushTwo
<1>3. \A op, p : InStack(op, p) => InStack(op, p)'
    BY <1>1, <1>2, PushedFacts, StackTerms
<1>4. SUFFICES ASSUME NEW a \in Addr, kind'[a] = "heap", rc'[a] = 0
               PROVE  InStack("fields", a)' \/ InStack("drop", a)'
    BY DEF ZeroDying
<1>5. InStack("fields", a) \/ InStack("drop", a)
    BY <1>4 DEF ZeroDying
<1>6. QED
    BY <1>3, <1>5

(* A frame returns that is not a destructor, or whose object is then gone. *)
LEMMA PopZero ==
  ASSUME IInv, ZeroDying, stack' = Below, Top # Main,
         \A a \in Addr : kind'[a] = "heap" /\ rc'[a] = 0 =>
             kind[a] = "heap" /\ rc[a] = 0 /\ ~(Top.op \in Dying /\ Top.p = a)
  PROVE  ZeroDying'
<1>1. \A op, p : InStack(op, p) => InStack(op, p)' \/ Matches(Top, op, p)
    BY PopStack
<1>2. SUFFICES ASSUME NEW a \in Addr, kind'[a] = "heap", rc'[a] = 0
               PROVE  InStack("fields", a)' \/ InStack("drop", a)'
    BY DEF ZeroDying
<1>3. InStack("fields", a) \/ InStack("drop", a)
    BY <1>2 DEF ZeroDying
<1>4. ~Matches(Top, "fields", a) /\ ~Matches(Top, "drop", a)
    BY <1>2 DEF Matches, Dying
<1>5. QED
    BY <1>1, <1>3, <1>4

(* A release or a destructor goes on to the next part of a destructor.     *)
LEMMA CallZero ==
  ASSUME IInv, ZeroDying, NEW f \in FrameSet, NEW g \in FrameSet, stack' = Below \o <<f, g>>,
         f.op \in Dying, f.p = Top.p,
         \A a \in Addr : kind'[a] = "heap" /\ rc'[a] = 0 =>
             a = Top.p \/ (kind[a] = "heap" /\ rc[a] = 0)
  PROVE  ZeroDying'
<1>1. stack \in Seq(FrameSet) /\ Len(stack) >= 1 /\ Top = stack[Len(stack)]
    BY StackFacts DEF Top
<1>2. Called(stack, stack', f, g)
    BY <1>1, CallTwo DEF Below
<1>3. \A op, p : ~Matches(Top, op, p) =>
          (InStack(op, p)' <=> InStack(op, p) \/ Matches(f, op, p) \/ Matches(g, op, p))
  <2>1. \A op, p : ~Matches(stack[Len(stack)], op, p) =>
            (In(stack', op, p) <=> In(stack, op, p) \/ Matches(f, op, p) \/ Matches(g, op, p))
      BY <1>1, <1>2, CalledFacts
  <2>2. QED
      BY <1>1, <2>1, StackTerms, Zenon
<1>4. SUFFICES ASSUME NEW a \in Addr, kind'[a] = "heap", rc'[a] = 0
               PROVE  InStack("fields", a)' \/ InStack("drop", a)'
    BY DEF ZeroDying
<1>5. CASE a = Top.p
  <2>1. InStack(f.op, f.p)'
    <3>1. PICK n \in Nat : n = Len(stack)
        BY StackFacts
    <3>2. Len(stack') = n + 1 /\ stack'[n] = f /\ stack' \in Seq(FrameSet)
        BY <1>2, <3>1 DEF Called
    <3>3. n \in DOMAIN stack'
        BY <1>1, <3>1, <3>2, LenProperties
    <3>4. QED
        BY <3>2, <3>3 DEF InStack
  <2>2. QED
      BY <1>5, <2>1 DEF Dying
<1>6. CASE a # Top.p
  <2>1. InStack("fields", a) \/ InStack("drop", a)
      BY <1>4, <1>6 DEF ZeroDying
  <2>2. ~Matches(Top, "fields", a) /\ ~Matches(Top, "drop", a)
      BY <1>6 DEF Matches
  <2>3. QED
      BY <1>3, <2>1, <2>2
<1>7. QED
    BY <1>5, <1>6

LEMMA InitZero == Init => ZeroDying
    BY DEF Init, ZeroDying

LEMMA StepsZero == IInv /\ ZeroDying /\ Steps => ZeroDying'
<1>1. SUFFICES ASSUME IInv, ZeroDying, Steps
               PROVE  ZeroDying'
    OBVIOUS
<1>t. /\ rc \in [Addr -> Int] /\ kind \in [Addr -> {"free", "heap", "arena"}]
      /\ fld \in [Addr -> Ref] /\ var \in [Var -> Ref] /\ Null \in Ref
    BY <1>1 DEF IInv, TypeOK, Ref
<1>m. Main.op = "user"
    BY DEF Main, Frame
<1>2. CASE ReleaseShared
  <2>1. Top.op = "release" /\ Top # Main /\ stack' = Below /\ kind' = kind
      BY <1>2, <1>m DEF ReleaseShared
  <2>2. ASSUME NEW a \in Addr, kind'[a] = "heap", rc'[a] = 0
        PROVE  kind[a] = "heap" /\ rc[a] = 0 /\ ~(Top.op \in Dying /\ Top.p = a)
    <3>1. Top.op \notin Dying
        BY <2>1 DEF Dying
    <3>2. CASE a = Top.p
      <4>1. Len(stack) \in FrameRefs(a)
          BY <1>1, <2>1, <3>2, StackFacts DEF FrameRefs, Top
      <4>2. rc[a] \in Nat /\ rc[a] >= 1
          BY <1>1, <2>1, <2>2, <4>1, Referenced
      <4>3. rc[a] # 1
          BY <1>2, <3>2, NullIsNoAddress DEF ReleaseShared
      <4>4. rc'[a] = rc[a] - 1
          BY <1>2, <3>2, <4>2 DEF ReleaseShared
      <4>5. QED
          BY <2>2, <4>2, <4>3, <4>4
    <3>3. CASE a # Top.p
        BY <1>2, <2>1, <2>2, <3>1, <3>3 DEF ReleaseShared
    <3>4. QED
        BY <3>2, <3>3
  <2>3. QED
      BY <1>1, <2>1, <2>2, PopZero
<1>3. CASE ReleaseLast
  <2>1. PICK p \in Ref \cup Var : p = Top.p
      BY <1>1, StackFacts DEF Top, FrameSet
  <2>2. PICK f : f = Frame("fields", p, Null)
      OBVIOUS
  <2>3. PICK g : g = Frame("user", p, Null)
      OBVIOUS
  <2>4. f \in FrameSet /\ g \in FrameSet /\ f.op \in Dying /\ f.p = Top.p
    <3>1. f \in FrameSet /\ f.op = "fields" /\ f.p = p
        BY <1>t, <2>2, FrameTyped DEF Ops
    <3>2. g \in FrameSet
        BY <1>t, <2>3, FrameTyped DEF Ops
    <3>3. QED
        BY <2>1, <3>1, <3>2 DEF Dying
  <2>5. stack' = Below \o <<f, g>>
      BY <1>3, <2>1, <2>2, <2>3 DEF ReleaseLast
  <2>6. \A a \in Addr : kind'[a] = "heap" /\ rc'[a] = 0 =>
             a = Top.p \/ (kind[a] = "heap" /\ rc[a] = 0)
      BY <1>3, <1>t DEF ReleaseLast
  <2>7. QED
      BY <1>1, <2>4, <2>5, <2>6, CallZero
<1>4. CASE Fields
  <2>0. Top.op \in Dying /\ Top.p \in Addr
    <3>1. Top.op \in Dying
        BY <1>4 DEF Fields, Dying
    <3>2. QED
        BY <1>1, <3>1, StackFacts DEF Top, IInv, DyingOnce
  <2>1. PICK p \in Addr : p = Top.p
      BY <2>0
  <2>2. PICK b \in Ref : b = fld[p]
      BY <1>t
  <2>3. PICK f : f = Frame("drop", p, Null)
      OBVIOUS
  <2>4. PICK g : g = Frame("release", b, Null)
      OBVIOUS
  <2>5. f \in FrameSet /\ g \in FrameSet /\ f.op \in Dying /\ f.p = Top.p
    <3>1. p \in Ref
        BY DEF Ref
    <3>2. f \in FrameSet /\ f.op = "drop" /\ f.p = p
        BY <1>t, <2>3, <3>1, FrameTyped DEF Ops
    <3>3. g \in FrameSet
        BY <1>t, <2>4, FrameTyped DEF Ops
    <3>4. QED
        BY <2>1, <3>2, <3>3 DEF Dying
  <2>6. stack' = Below \o <<f, g>>
      BY <1>4, <2>1, <2>2, <2>3, <2>4 DEF Fields
  <2>7. kind' = kind /\ rc' = rc
      BY <1>4 DEF Fields, object
  <2>8. QED
      BY <1>1, <2>5, <2>6, <2>7, CallZero
<1>5. CASE Drop
  <2>1. Top.op = "drop" /\ Top # Main /\ stack' = Below /\ rc' = rc
      BY <1>5, <1>m DEF Drop
  <2>2. \A a \in Addr : kind'[a] = "heap" => kind[a] = "heap" /\ a # Top.p
      BY <1>5, <1>t DEF Drop
  <2>3. QED
      BY <1>1, <2>1, <2>2, PopZero
<1>6. CASE StoreVar \/ StoreField
  <2>1. Top.op \in {"var", "fld"} /\ Top # Main /\ stack' = Below /\ rc' = rc /\ kind' = kind
      BY <1>6, <1>m DEF StoreVar, StoreField, object
  <2>2. Top.op \notin Dying
      BY <2>1 DEF Dying
  <2>3. QED
      BY <1>1, <2>1, <2>2, PopZero
<1>7. CASE Return
  <2>1. InUser /\ ~InMain /\ stack' = Below /\ rc' = rc /\ kind' = kind
      BY <1>7 DEF Return, object
  <2>2. Top # Main
      BY <1>1, <2>1, MainRuns DEF Main, Frame
  <2>3. Top.op \notin Dying
      BY <2>1 DEF InUser, Dying
  <2>4. QED
      BY <1>1, <2>1, <2>2, <2>3, PopZero
<1>8. CASE OpenArena \/ CloseArena
  <2>1. stack' = stack /\ rc' = rc /\ \A a \in Addr : kind'[a] = "heap" => kind[a] = "heap"
      BY <1>8, <1>t DEF OpenArena, CloseArena, object
  <2>2. QED
      BY <1>1, <2>1 DEF ZeroDying, InStack
<1>9. ASSUME NEW x \in Var, NEW a \in Addr, New(x, a) \/ NewInArena(x, a)
       PROVE  ZeroDying'
  <2>1. PICK f : f = Frame("var", x, a)
      OBVIOUS
  <2>2. PICK g : g = Frame("release", var[x], Null)
      OBVIOUS
  <2>3. f \in FrameSet /\ g \in FrameSet
      BY <1>t, <2>1, <2>2, FrameTyped DEF Ops, Ref
  <2>4. stack' = stack \o <<f, g>>
      BY <1>9, <2>1, <2>2 DEF New, NewInArena
  <2>5. \A c \in Addr : kind'[c] = "heap" /\ rc'[c] = 0 => kind[c] = "heap" /\ rc[c] = 0
    <3>1. PICK k, n : Alloc(a, k, n) /\ n # 0
        BY <1>9 DEF New, NewInArena
    <3>2. rc'[a] # 0 /\ \A c \in Addr : c # a => kind'[c] = kind[c] /\ rc'[c] = rc[c]
        BY <1>t, <3>1 DEF Alloc
    <3>3. QED
        BY <3>2
  <2>6. QED
      BY <1>1, <2>3, <2>4, <2>5, PushZero
<1>10. ASSUME NEW x \in Var, NEW v \in Ref, Assign(x, v)
       PROVE  ZeroDying'
  <2>1. PICK f : f = Frame("var", x, v)
      OBVIOUS
  <2>2. PICK g : g = Frame("release", var[x], Null)
      OBVIOUS
  <2>3. f \in FrameSet /\ g \in FrameSet
      BY <1>t, <2>1, <2>2, FrameTyped DEF Ops
  <2>4. stack' = stack \o <<f, g>> /\ kind' = kind /\ rc' = Retained(v)
      BY <1>10, <2>1, <2>2 DEF Assign
  <2>5. \A c \in Addr : rc'[c] = 0 => rc[c] = 0
      BY <1>t, <2>4 DEF Retained
  <2>6. QED
      BY <1>1, <2>3, <2>4, <2>5, PushZero
<1>11. ASSUME NEW o \in Addr, NEW v \in Ref, SetField(o, v)
       PROVE  ZeroDying'
  <2>1. PICK f : f = Frame("fld", o, v)
      OBVIOUS
  <2>2. PICK g : g = Frame("release", fld[o], Null)
      OBVIOUS
  <2>3. f \in FrameSet /\ g \in FrameSet
      BY <1>t, <2>1, <2>2, FrameTyped DEF Ops, Ref
  <2>4. stack' = stack \o <<f, g>> /\ kind' = kind /\ rc' = Retained(v)
      BY <1>11, <2>1, <2>2 DEF SetField
  <2>5. \A c \in Addr : rc'[c] = 0 => rc[c] = 0
      BY <1>t, <2>4 DEF Retained
  <2>6. QED
      BY <1>1, <2>3, <2>4, <2>5, PushZero
<1>12. ASSUME NEW o \in Addr, NEW v \in Ref, SetWeak(o, v)
       PROVE  ZeroDying'
    BY <1>1, <1>12 DEF SetWeak, ZeroDying, InStack
<1>13. QED
    BY <1>1, <1>2, <1>3, <1>4, <1>5, <1>6, <1>7, <1>8, <1>9, <1>10, <1>11, <1>12
    DEF Steps

(* Both, up to the first mishap.                                           *)
LEMMA NextBoth ==
  ASSUME Unharmed, mishap = "none" => ZeroDying, [Next]_vars
  PROVE  mishap' = "none" => ZeroDying'
<1>1. CASE UNCHANGED vars
    BY <1>1 DEF vars, ZeroDying, InStack
<1>2. CASE mishap = "none" /\ Steps
    BY <1>2, StepsZero DEF Unharmed
<1>3. QED
    BY <1>1, <1>2 DEF Next

(* Reaching is transitive and contains a single step.                      *)
LEMMA LeadsReaches ==
  ASSUME NEW a \in Addr, NEW b \in Addr, Leads(a, b)
  PROVE  Reaches(a, b)
    BY Zenon DEF Reaches

LEMMA ReachesOn ==
  ASSUME NEW a \in Addr, NEW b \in Addr, NEW c \in Addr, Reaches(a, b), Reaches(b, c)
  PROVE  Reaches(a, c)
<1>1. SUFFICES ASSUME NEW S \in SUBSET Addr,
                      \A x, y \in Addr : (x = a \/ x \in S) /\ Leads(x, y) => y \in S
               PROVE  c \in S
    BY DEF Reaches
<1>2. b \in S
    BY <1>1, Zenon DEF Reaches
<1>3. \A x, y \in Addr : (x = b \/ x \in S) /\ Leads(x, y) => y \in S
    BY <1>1, <1>2
<1>4. QED
    BY <1>1, <1>3, Zenon DEF Reaches

(* When main runs, an object is held by a variable or by another object.   *)
LEMMA NoOrphans ==
  ASSUME IInv, ZeroDying, InMain, NEW a \in Addr, kind[a] = "heap"
  PROVE  \/ \E x \in Var : var[x] = a
         \/ \E o \in Addr : Leads(o, a)
<1>1. stack = <<Main>> /\ Main.op = "user"
    BY DEF InMain, Main, Frame
<1>2. \A i \in DOMAIN stack : stack[i].op = "user"
    BY <1>1
<1>3. rc[a] # 0
    BY <1>2 DEF ZeroDying, InStack
<1>4. FrameRefs(a) = {}
    BY <1>2 DEF FrameRefs
<1>5. VarRefs(a) # {} \/ FieldRefs(a) # {}
  <2>1. SUFFICES ASSUME VarRefs(a) = {}, FieldRefs(a) = {}
                 PROVE  FALSE
      OBVIOUS
  <2>2. Cardinality(VarRefs(a)) = 0 /\ Cardinality(FieldRefs(a)) = 0 /\ Cardinality(FrameRefs(a)) = 0
      BY <1>4, <2>1, FS_EmptySet
  <2>3. Refs(a) = 0
      BY <2>2 DEF Refs
  <2>4. QED
      BY <1>3, <2>3 DEF IInv, RefsExact
<1>6. CASE VarRefs(a) # {}
    BY <1>6 DEF VarRefs
<1>7. CASE FieldRefs(a) # {}
  <2>1. PICK o \in Addr : o \in FieldRefs(a)
      BY <1>7 DEF FieldRefs
  <2>2. kind[o] # "free" /\ fld[o] = a /\ kind[o] \in {"free", "heap", "arena"}
      BY <2>1 DEF FieldRefs, IInv, TypeOK
  <2>3. kind[o] # "arena"
      BY <2>1 DEF IInv, ArenaApart
  <2>4. QED
      BY <2>2, <2>3 DEF Leads
<1>8. QED
    BY <1>5, <1>6, <1>7

(* A non-empty set of numbers has a least member.                          *)
LEMMA LeastOf ==
  ASSUME NEW T \in SUBSET Nat, T # {}
  PROVE  \E n \in T : \A m \in T : n <= m
<1>1. PICK n \in T : \A m \in T : <<m, n>> \notin OpToRel(<, Nat)
    BY NatLessThanWellFounded, WFMin
<1>2. \A m \in T : ~(m < n)
    BY <1>1, Zenon DEF OpToRel
<1>3. QED
    BY <1>2

(* In a finite memory, going back from a without end means going round.    *)
LEMMA BackToCycle ==
  ASSUME NEW P \in SUBSET Addr, P # {},
         \A x \in P : \E y \in P : Leads(y, x)
  PROVE  \E c \in P : Reaches(c, c)
<1>1. SUFFICES ASSUME \A c \in P : ~Reaches(c, c)
               PROVE  FALSE
    OBVIOUS
<1> DEFINE Back(x) == {y \in P : Reaches(y, x)}
<1>2. \A x \in P : IsFiniteSet(Back(x)) /\ Cardinality(Back(x)) \in Nat
  <2>1. TAKE x \in P
  <2>2. Back(x) \in SUBSET Addr
      OBVIOUS
  <2>3. QED
      BY <2>2, FiniteMemory, FS_Subset, FS_CardinalityType
<1>3. PICK x \in P : \A y \in P : Cardinality(Back(x)) <= Cardinality(Back(y))
  <2> DEFINE T == {Cardinality(Back(y)) : y \in P}
  <2>1. T \in SUBSET Nat /\ T # {}
      BY <1>2
  <2>2. PICK n \in T : \A m \in T : n <= m
      BY <2>1, LeastOf
  <2>3. QED
      BY <2>2
<1>4. PICK y \in P : Leads(y, x)
    OBVIOUS
<1>5. y \in Back(x) /\ y \notin Back(y)
    BY <1>1, <1>4, LeadsReaches
<1>6. Back(y) \subseteq Back(x)
  <2>1. ASSUME NEW z \in P, Reaches(z, y)
        PROVE  Reaches(z, x)
      BY <1>4, <2>1, LeadsReaches, ReachesOn
  <2>2. QED
      BY <2>1
<1>7. Cardinality(Back(y)) < Cardinality(Back(x))
  <2>1. PICK A : A = Back(x)
      OBVIOUS
  <2>2. PICK B \in SUBSET A : B = Back(y)
      BY <1>6, <2>1
  <2>3. /\ IsFiniteSet(A) /\ B # A
        /\ Cardinality(A) \in Nat /\ Cardinality(B) \in Nat
      BY <1>2, <1>5, <2>1, <2>2
  <2>4. Cardinality(B) <= Cardinality(A) /\ (Cardinality(B) = Cardinality(A) => B = A)
      BY <2>3, FS_Subset
  <2>5. Cardinality(B) < Cardinality(A)
      BY <2>3, <2>4
  <2>6. QED
      BY <2>1, <2>2, <2>5
<1>8. Cardinality(Back(x)) <= Cardinality(Back(y))
    BY <1>3
<1>9. QED
  <2>1. PICK m \in Nat : m = Cardinality(Back(x))
      BY <1>2
  <2>2. PICK n \in Nat : n = Cardinality(Back(y))
      BY <1>2
  <2>3. n < m /\ m <= n
      BY <1>7, <1>8, <2>1, <2>2
  <2>4. QED
      BY <2>3

(* Only cycles leak: as long as there was no mishap, when main runs an     *)
(* object that no variable leads to is on a cycle of strong fields or held *)
(* by one.  vt_release forgets nothing, whatever destructors do meanwhile. *)
THEOREM HeapOnlyCyclesLeak == Spec => []OnlyCyclesLeak
<1> DEFINE Both == Unharmed /\ (mishap = "none" => ZeroDying)
<1>1. Init => Both
    BY InitIInv, InitZero DEF Unharmed
<1>2. Both /\ [Next]_vars => Both'
    BY NextUnharmed, NextBoth
<1>3. Both => OnlyCyclesLeak
  <2>1. SUFFICES ASSUME IInv, ZeroDying, InMain, NEW a \in Addr, kind[a] = "heap"
                 PROVE  \/ \E x \in Var : var[x] = a \/ (var[x] # Null /\ Reaches(var[x], a))
                        \/ \E c \in Addr : /\ kind[c] = "heap" /\ Reaches(c, c)
                                           /\ c = a \/ Reaches(c, a)
      BY DEF OnlyCyclesLeak, Unharmed
  <2> DEFINE P == {x \in Addr : kind[x] = "heap" /\ (x = a \/ Reaches(x, a))}
  <2>2. a \in P /\ P \in SUBSET Addr
      BY <2>1
  <2>3. CASE \E x \in Var : var[x] \in P
    <3>1. PICK x \in Var : var[x] \in P
        BY <2>3
    <3>2. var[x] # Null
        BY <3>1, NullIsNoAddress
    <3>3. QED
        BY <3>1, <3>2
  <2>4. CASE \A x \in Var : var[x] \notin P
    <3>1. ASSUME NEW x \in P
          PROVE  \E y \in P : Leads(y, x)
      <4>1. PICK y \in Addr : Leads(y, x)
          BY <2>1, <2>4, <3>1, NoOrphans
      <4>2. Reaches(y, a)
          BY <3>1, <4>1, <2>1, LeadsReaches, ReachesOn
      <4>3. y \in P
          BY <4>1, <4>2 DEF Leads
      <4>4. QED
          BY <4>1, <4>3
    <3>2. PICK c \in P : Reaches(c, c)
      <4> HIDE DEF P
      <4>1. QED
          BY <2>2, <3>1, BackToCycle
    <3>3. QED
        BY <3>2
  <2>5. QED
      BY <2>3, <2>4
<1>4. QED
    BY <1>1, <1>2, <1>3, PTL DEF Spec
=============================================================================
