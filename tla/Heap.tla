-------------------------------- MODULE Heap --------------------------------
(***************************************************************************)
(* Reference counting, src/runtime/vyto_rt.c, under the code the compiler  *)
(* emits for assignments and destructors: counts, the cascade of a last    *)
(* release, destructors that run user code in the middle of it, the        *)
(* registry of weak slots, arenas, and addresses that are used again.      *)
(*                                                                         *)
(* Every object has one strong field and one weak field.  A slot is named  *)
(* by its owner.  The C stack is a sequence of frames [op, p, v]; the last *)
(* one is running:                                                         *)
(*     user     the program's own code: main when p = Null, else the body  *)
(*              of p's deinit                                              *)
(*     release  vt_release(p)                                              *)
(*     fields   p's generated destructor, after the body                   *)
(*     drop     the rest of it, and vt_host_free(p)                        *)
(*     var fld  the store that ends an assignment: v into variable p, or   *)
(*              into the field of p                                        *)
(*                                                                         *)
(* The language has no global variables: a deinit reaches only what its    *)
(* object's fields lead to.  In this model neither main nor a deinit names *)
(* more than two fields in a row, and a deinit has no variables of its own *)
(* and creates no object.                                                  *)
(*                                                                         *)
(* The compiler lets a program do four things the runtime is not written   *)
(* for.  The step that does one sets mishap, and the model ends there,     *)
(* since counts or the registry are wrong from then on:                    *)
(*     dying    a deinit stores an object that is being destroyed, `this`  *)
(*              or the value of a field that is being replaced             *)
(*     twice    a destructor that runs under o.f = v assigns o.f           *)
(*     owner    o is destroyed under o.f = v, which does not retain o      *)
(*     arena    an arena is closed while weak fields of its objects are    *)
(*              registered                                                 *)
(***************************************************************************)
EXTENDS Integers, Sequences, FiniteSets

CONSTANTS
    Addr,       \* addresses
    Var,        \* local variables of main
    Null

ASSUME NullIsNoAddress == Null \notin Addr /\ Null \notin Var
ASSUME FiniteMemory == IsFiniteSet(Addr) /\ IsFiniteSet(Var)

VARIABLES
    kind,       \* kind[a]: free, heap or arena
    rc, fld, weak,      \* the count and the fields of the object at a
    tab,        \* vt_weak_tab: pairs of a slot's owner and a target
    live,       \* vt_weak_live
    var,        \* var[x]: what a variable holds
    arena,      \* is main inside an arena block?
    stack,
    mishap      \* history: what the runtime was not written for

vars == <<kind, rc, fld, weak, tab, live, var, arena, stack, mishap>>
object == <<kind, rc, fld, weak>>
registry == <<tab, live>>

Ref == Addr \cup {Null}
Frame(op, p, v) == [op |-> op, p |-> p, v |-> v]
Main == Frame("user", Null, Null)

TypeOK ==
    /\ kind \in [Addr -> {"free", "heap", "arena"}] /\ rc \in [Addr -> Int]
    /\ fld \in [Addr -> Ref] /\ weak \in [Addr -> Ref]
    /\ tab \subseteq Addr \X Addr /\ live \in Int
    /\ var \in [Var -> Ref] /\ arena \in BOOLEAN
    /\ stack \in Seq([op : {"user", "release", "fields", "drop", "var", "fld"},
                      p : Ref \cup Var, v : Ref])
    /\ mishap \in {"none", "dying", "twice", "owner", "arena"}

Init ==
    /\ kind = [a \in Addr |-> "free"] /\ rc = [a \in Addr |-> 0]
    /\ fld = [a \in Addr |-> Null] /\ weak = [a \in Addr |-> Null]
    /\ tab = {} /\ live = 0
    /\ var = [x \in Var |-> Null] /\ arena = FALSE
    /\ stack = <<Main>> /\ mishap = "none"

Top == stack[Len(stack)]
Below == SubSeq(stack, 1, Len(stack) - 1)
InUser == Top.op = "user"
InMain == stack = <<Main>>
InStack(op, p) == \E i \in DOMAIN stack : stack[i].op = op /\ stack[i].p = p

-----------------------------------------------------------------------------
(* The runtime.                                                            *)

\* vt_retain: immortal and arena objects have negative counts.
Retained(p) == [a \in Addr |-> IF a = p /\ rc[a] >= 0 THEN rc[a] + 1 ELSE rc[a]]

\* The registry after weak_detach of slot s.
Detached(s) == tab \ {<<s, weak[s]>>}

\* vt_weak_set.
WeakSet(s, t) ==
    /\ weak' = [weak EXCEPT ![s] = t]
    /\ tab' = IF t = weak[s] THEN tab
              ELSE Detached(s) \cup (IF t = Null THEN {} ELSE {<<s, t>>})
    /\ live' = IF t = weak[s] THEN live
               ELSE live - Cardinality(tab \ Detached(s)) + (IF t = Null THEN 0 ELSE 1)

\* vt_weak_on_free, called only when live is not 0.
Registered(t) == {e \in tab : e[2] = t /\ live # 0}
WeakOnFree(t) ==
    /\ weak' = [s \in Addr |-> IF <<s, t>> \in Registered(t) THEN Null ELSE weak[s]]
    /\ tab' = tab \ Registered(t)
    /\ live' = live - Cardinality(Registered(t))

\* vt_release of null, of an arena object, and of one that others hold.
ReleaseShared ==
    /\ Top.op = "release"
    /\ Top.p # Null => rc[Top.p] # 1
    /\ rc' = [a \in Addr |-> IF a = Top.p /\ rc[a] >= 0 THEN rc[a] - 1 ELSE rc[a]]
    /\ stack' = Below
    /\ UNCHANGED <<kind, fld, weak, registry, var, arena, mishap>>

\* Wrong on purpose: the weak slots are not nulled.
X_ReleaseLast ==
    /\ Top.op = "release" /\ Top.p # Null /\ rc[Top.p] = 1
    /\ rc' = [rc EXCEPT ![Top.p] = 0]
    /\ stack' = Below \o <<Frame("fields", Top.p, Null), Frame("user", Top.p, Null)>>
    /\ mishap' = IF InStack("fld", Top.p) THEN "owner" ELSE mishap
    /\ UNCHANGED <<kind, fld, weak, registry, var, arena>>

\* vt_release of the last reference: weak slots are nulled, then deinit runs.
ReleaseLast ==
    /\ Top.op = "release" /\ Top.p # Null /\ rc[Top.p] = 1
    /\ rc' = [rc EXCEPT ![Top.p] = 0]
    /\ WeakOnFree(Top.p)
    /\ stack' = Below \o <<Frame("fields", Top.p, Null), Frame("user", Top.p, Null)>>
    /\ mishap' = IF InStack("fld", Top.p) THEN "owner" ELSE mishap
    /\ UNCHANGED <<kind, fld, var, arena>>

\* Wrong on purpose: the field is not released.
X_Fields ==
    /\ Top.op = "fields"
    /\ stack' = Append(Below, Frame("drop", Top.p, Null))
    /\ UNCHANGED <<object, registry, var, arena, mishap>>

\* The generated destructor after the body: vt_release of the strong field.
Fields ==
    /\ Top.op = "fields"
    /\ stack' = Below \o <<Frame("drop", Top.p, Null), Frame("release", fld[Top.p], Null)>>
    /\ UNCHANGED <<object, registry, var, arena, mishap>>

\* vt_weak_drop of the weak field, and the object's memory is free.
Drop ==
    /\ Top.op = "drop"
    /\ WeakSet(Top.p, Null)
    /\ kind' = [kind EXCEPT ![Top.p] = "free"]
    /\ stack' = Below
    /\ UNCHANGED <<rc, fld, var, arena, mishap>>

-----------------------------------------------------------------------------
(* The emitted code.                                                       *)

\* vt_alloc or vt_ralloc at a free address, zeroed.
Alloc(a, k, count) ==
    /\ kind[a] = "free"
    /\ kind' = [kind EXCEPT ![a] = k]
    /\ rc' = [rc EXCEPT ![a] = count]
    /\ fld' = [fld EXCEPT ![a] = Null] /\ weak' = [weak EXCEPT ![a] = Null]

\* x = new C(): the old value is released before the store.
New(x, a) ==
    /\ InMain
    /\ Alloc(a, "heap", 1)
    /\ stack' = stack \o <<Frame("var", x, a), Frame("release", var[x], Null)>>
    /\ UNCHANGED <<registry, var, arena, mishap>>

NewInArena(x, a) ==
    /\ InMain /\ arena
    /\ Alloc(a, "arena", -2)
    /\ stack' = stack \o <<Frame("var", x, a), Frame("release", var[x], Null)>>
    /\ UNCHANGED <<registry, var, arena, mishap>>

\* What the running code holds, and what it reads from there.
Held == IF Top.p = Null THEN {var[x] : x \in Var} \ {Null} ELSE {Top.p}
Read(S) == S \cup {fld[a] : a \in S \ {Null}} \cup {weak[a] : a \in S \ {Null}}
\* The values it may store, and those that are being destroyed.
Storable == {Null} \cup Read(Read(Held))
Doomed(v) == v # Null /\ rc[v] = 0

\* Wrong on purpose: the new value is not retained.
X_Assign(x, v) ==
    /\ InMain /\ v \in Storable
    /\ stack' = stack \o <<Frame("var", x, v), Frame("release", var[x], Null)>>
    /\ UNCHANGED <<object, registry, var, arena, mishap>>

\* x = v, and with v = Null the end of x's scope.
Assign(x, v) ==
    /\ InMain /\ v \in Storable
    /\ rc' = Retained(v)
    /\ stack' = stack \o <<Frame("var", x, v), Frame("release", var[x], Null)>>
    /\ UNCHANGED <<kind, fld, weak, registry, var, arena, mishap>>

\* region_check_store and region_check_object_store: an arena object holds
\* arena objects only, and is held by no other object.
StoreAllowed(o, v) == v # Null => (kind[o] = "arena") = (kind[v] = "arena")

\* o.f = v; o itself is not retained.
SetField(o, v) ==
    /\ InUser /\ StoreAllowed(o, v)
    /\ o \in Read(Held) \ {Null} /\ v \in Storable
    /\ rc' = Retained(v)
    /\ stack' = stack \o <<Frame("fld", o, v), Frame("release", fld[o], Null)>>
    /\ mishap' = IF Doomed(v) THEN "dying" ELSE IF InStack("fld", o) THEN "twice" ELSE mishap
    /\ UNCHANGED <<kind, fld, weak, registry, var, arena>>

StoreVar ==
    /\ Top.op = "var"
    /\ var' = [var EXCEPT ![Top.p] = Top.v]
    /\ stack' = Below
    /\ UNCHANGED <<object, registry, arena, mishap>>

StoreField ==
    /\ Top.op = "fld"
    /\ fld' = [fld EXCEPT ![Top.p] = Top.v]
    /\ stack' = Below
    /\ UNCHANGED <<kind, rc, weak, registry, var, arena, mishap>>

\* o.w = v.
SetWeak(o, v) ==
    /\ InUser /\ StoreAllowed(o, v)
    /\ o \in Read(Held) \ {Null} /\ v \in Storable
    /\ WeakSet(o, v)
    /\ mishap' = IF Doomed(v) THEN "dying" ELSE mishap
    /\ UNCHANGED <<kind, rc, fld, var, arena, stack>>

\* A deinit body returns.
Return ==
    /\ InUser /\ ~InMain
    /\ stack' = Below
    /\ UNCHANGED <<object, registry, var, arena, mishap>>

\* arena { and its }: vt_region_open and vt_region_close; variables that hold
\* arena objects end with the block.
OpenArena ==
    /\ InMain /\ ~arena
    /\ arena' = TRUE
    /\ UNCHANGED <<object, registry, var, stack, mishap>>

CloseArena ==
    /\ InMain /\ arena
    /\ arena' = FALSE
    /\ kind' = [a \in Addr |-> IF kind[a] = "arena" THEN "free" ELSE kind[a]]
    /\ var' = [x \in Var |-> IF var[x] # Null /\ kind[var[x]] = "arena" THEN Null ELSE var[x]]
    /\ mishap' = IF \E e \in tab : kind[e[1]] = "arena" THEN "arena" ELSE mishap
    /\ UNCHANGED <<rc, fld, weak, registry, stack>>

Steps ==
    \/ ReleaseShared \/ ReleaseLast \/ Fields \/ Drop \/ StoreVar \/ StoreField
    \/ Return \/ OpenArena \/ CloseArena
    \/ \E x \in Var, a \in Addr : New(x, a) \/ NewInArena(x, a)
    \/ \E x \in Var, v \in Ref : Assign(x, v)
    \/ \E o \in Addr, v \in Ref : SetField(o, v) \/ SetWeak(o, v)

Next ==
    \/ mishap = "none" /\ Steps
    \/ mishap # "none" /\ UNCHANGED vars     \* no longer defined

Spec == Init /\ [][Next]_vars

-----------------------------------------------------------------------------
(* Correctness.                                                            *)

\* The references to a: variables and fields that are not being overwritten or
\* torn down, and what pending releases and stores hold.
VarRefs(a) == {x \in Var : var[x] = a /\ ~InStack("var", x)}
FieldRefs(a) ==
    {o \in Addr : kind[o] # "free" /\ fld[o] = a /\ ~InStack("fld", o) /\ ~InStack("drop", o)}
FrameRefs(a) ==
    {i \in DOMAIN stack : \/ stack[i].op = "release" /\ stack[i].p = a
                          \/ stack[i].op \in {"var", "fld"} /\ stack[i].v = a}
Refs(a) == Cardinality(VarRefs(a)) + Cardinality(FieldRefs(a)) + Cardinality(FrameRefs(a))

\* At every point of every cascade an object's count is the number of its
\* references, and nothing refers to memory that is free: destructors may write
\* any field they reach, up to the first mishap.
RefsExact ==
    mishap = "none" => \A a \in Addr :
        /\ kind[a] = "heap" => rc[a] = Refs(a)
        /\ kind[a] = "free" => Refs(a) = 0

\* The registry lists exactly the weak slots that are set, live counts them,
\* and what a weak slot leads to is not being destroyed: up to the first mishap
\* nothing reaches an object through a weak field while its deinit runs, and a
\* slot in memory that was freed and used again is never written.
WeakExact ==
    mishap = "none" =>
    /\ tab = {<<s, weak[s]>> : s \in {s \in Addr : kind[s] # "free" /\ weak[s] # Null}}
    /\ live = Cardinality(tab)
    /\ \A e \in tab : kind[e[2]] # "free" /\ rc[e[2]] # 0

\* b is reached from a through one or more strong fields: it is in every set
\* that has what a's field holds, and with a member what that one's field holds.
Leads(a, b) == kind[a] = "heap" /\ fld[a] = b
Reaches(a, b) ==
    \A S \in SUBSET Addr :
        (\A c, d \in Addr : (c = a \/ c \in S) /\ Leads(c, d) => d \in S) => b \in S

\* "When the count hits zero the object's memory (and every strong reference
\* it holds) is freed immediately": when main runs, an object no variable
\* leads to is kept by a cycle, if there was no mishap.
OnlyCyclesLeak ==
    mishap = "none" /\ InMain => \A a \in Addr : kind[a] = "heap" =>
        \/ \E x \in Var : var[x] = a \/ (var[x] # Null /\ Reaches(var[x], a))
        \/ \E c \in Addr : kind[c] = "heap" /\ Reaches(c, c) /\ (c = a \/ Reaches(c, a))
=============================================================================
