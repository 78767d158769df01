------------------------------- MODULE Build -------------------------------
(***************************************************************************)
(* The incremental build of the compiler driver, src/main.c: the object    *)
(* cache that all programs share, keyed by content; each program's own     *)
(* cache of generated C, objects and executable, kept by modification      *)
(* times; and builds of several programs at once, any of which may be      *)
(* killed at any point.                                                    *)
(*                                                                         *)
(* The runtime stands for every object of the shared cache (native         *)
(* packages go the same way).  A file is [d |-> data, t |-> mtime], with   *)
(* t = -1 when it does not exist, as file_mtime says.  The clock has the   *)
(* grain of st_mtime and moves at every start of a build and every edit:   *)
(* neither happens in the second of an earlier one.                        *)
(***************************************************************************)
EXTENDS Integers, Sequences, FiniteSets

CONSTANTS
    Builder,        \* processes that run vytoc
    Program,        \* entry files, each built for one target
    Profile,        \* what changes a compile command: release, compiler, ...
    Mode,           \* Mode[f]: what emit_module is told of f: checks, kind of entry
    Suffix,         \* Suffix[f]: osuf, which leaves the compiler out
    Module,         \* modules of a program, each its .h and its .c
    Order,          \* the order of g_modules
    RtVersion,      \* contents of the runtime's directory
    RtHeader,       \* RtHeader[v]: vyto_rt.h, which every module includes
    Text,           \* Text[m]: what m's source may yield, a C and a header by mode
    Text0, Rt0,     \* the contents at first
    Command,        \* how builds are started: [prog, prof, clean, share]
    None, Torn,     \* no object; a file that was not written to its end
    MaxBuilds, MaxEdits, MaxKills   \* bounds; a failure counts as a kill

ASSUME OrderListsModules == Order \in Seq(Module) /\ \A m \in Module : \E i \in DOMAIN Order : Order[i] = m
ASSUME FirstContents == (\A m \in Module : Text0[m] \in Text[m]) /\ Rt0 \in RtVersion
ASSUME CommandsTyped ==
    Command \subseteq [prog : Program, prof : Profile, clean : BOOLEAN, share : BOOLEAN]
ASSUME MarksAreNoData ==
    /\ Torn \notin RtVersion \X Profile
    /\ None \notin RtVersion \X Profile /\ None # Torn

VARIABLES
    rt, rtTime,     \* the runtime's content and newest mtime
    rtHTime,        \* the mtime of vyto_rt.h
    src,            \* src[p][m]: what m's source yields
    shared,         \* shared[<<content, profile>>]: the shared object
    hfile, cfile,   \* [p][m]: generated header and C
    ofile,          \* [p][s][m]: objects of the profiles with suffix s
    rtfile,         \* [p][f]: the runtime's object when nothing is shared
    exe,            \* [p]: the executable, one for all profiles
    job,            \* job[b]: the locals of the build that b runs
    tmp,            \* tmp[b]: the temporary of cached_object
    now, builds, edits, kills

files == <<hfile, cfile, ofile, rtfile, exe>>
sources == <<rt, rtTime, rtHTime, src>>
bounds == <<builds, edits, kills>>
vars == <<sources, shared, files, job, tmp, now, bounds>>

File(d, t) == [d |-> d, t |-> t]
NoFile == File(Torn, -1)
Exists(f) == f.t # -1

Idle == [pc |-> "idle"]
Active(b) == job[b].pc # "idle"
At(b, pc) == job[b].pc = pc

Key == RtVersion \X Profile
Suffixes == {Suffix[f] : f \in Profile}
\* What a compiler reads of module m of program p: its C and all headers.
Inputs(p, m) == <<cfile[p][m].d, [k \in Module |-> hfile[p][k].d], RtHeader[rt]>>
\* What compiling it with profile f gives now.
Compiled(p, m, f) == <<Inputs(p, m), f>>
\* The runtime's object that build b links.
RtObject(b) ==
    IF job[b].share THEN shared[<<job[b].dig, job[b].prof>>]
    ELSE rtfile[job[b].prog][job[b].prof].d

Init ==
    /\ rt = Rt0 /\ rtTime = 0 /\ rtHTime = 0
    /\ src = [p \in Program |-> [m \in Module |-> Text0[m]]]
    /\ shared = [k \in Key |-> None]
    /\ hfile = [p \in Program |-> [m \in Module |-> NoFile]]
    /\ cfile = [p \in Program |-> [m \in Module |-> NoFile]]
    /\ ofile = [p \in Program |-> [s \in Suffixes |-> [m \in Module |-> NoFile]]]
    /\ rtfile = [p \in Program |-> [f \in Profile |-> NoFile]]
    /\ exe = [p \in Program |-> NoFile]
    /\ job = [b \in Builder |-> Idle]
    /\ tmp = [b \in Builder |-> None]
    /\ now = 0 /\ builds = 0 /\ edits = 0 /\ kills = 0

-----------------------------------------------------------------------------
(* A build.                                                                *)

Clear(p) ==
    /\ hfile' = [hfile EXCEPT ![p] = [m \in Module |-> NoFile]]
    /\ cfile' = [cfile EXCEPT ![p] = [m \in Module |-> NoFile]]
    /\ ofile' = [ofile EXCEPT ![p] = [s \in Suffixes |-> [m \in Module |-> NoFile]]]
    /\ rtfile' = [rtfile EXCEPT ![p] = [f \in Profile |-> NoFile]]
    /\ exe' = [exe EXCEPT ![p] = NoFile]

\* main() up to the caches; --clean empties the program's own.  One build of
\* a program at a time.  share: find_obj_cache_dir found a directory.
Start(b, x) ==
    /\ At(b, "idle") /\ builds < MaxBuilds
    /\ \A a \in Builder : Active(a) => job[a].prog # x.prog
    /\ job' = [job EXCEPT ![b] =
                  [pc |-> "runtime", prog |-> x.prog, prof |-> x.prof, clean |-> x.clean,
                   share |-> x.share, dig |-> rt, relink |-> FALSE, dirty |-> FALSE,
                   todo |-> Order]]
    /\ IF x.clean THEN Clear(x.prog) ELSE UNCHANGED files
    /\ now' = now + 1
    /\ builds' = builds + 1
    /\ UNCHANGED <<sources, shared, tmp, edits, kills>>

\* Wrong on purpose: the digest does not depend on the content.
X_dir_digest == Rt0

\* The digest of the runtime's directory: every file, by content.
dir_digest == rt

\* Wrong on purpose: the compiler writes to the shared object itself.
X_SharedLookup(b) ==
    /\ At(b, "runtime") /\ job[b].share
    /\ LET k == <<dir_digest, job[b].prof>>
       IN /\ job' = [job EXCEPT ![b].dig = dir_digest,
                                ![b].pc = IF shared[k] # None THEN "emit" ELSE "shared_cc"]
          /\ shared' = [shared EXCEPT ![k] = IF @ # None THEN @ ELSE Torn]
    /\ UNCHANGED <<sources, files, tmp, now, bounds>>

\* cached_object, from the digest to the start of the compiler: a hit ends it.
SharedLookup(b) ==
    /\ At(b, "runtime") /\ job[b].share
    /\ LET hit == shared[<<dir_digest, job[b].prof>>] # None
       IN /\ job' = [job EXCEPT ![b].dig = dir_digest,
                                ![b].pc = IF hit THEN "emit" ELSE "shared_cc"]
          /\ tmp' = [tmp EXCEPT ![b] = IF hit THEN @ ELSE Torn]
    /\ UNCHANGED <<sources, shared, files, now, bounds>>

\* The compiler has read the sources and written the temporary.
SharedCompiled(b) ==
    /\ At(b, "shared_cc")
    /\ tmp' = [tmp EXCEPT ![b] = <<rt, job[b].prof>>]
    /\ job' = [job EXCEPT ![b].pc = "publish"]
    /\ UNCHANGED <<sources, shared, files, now, bounds>>

\* rename(tmp, obj); the object counts as compiled by this build.
Publish(b) ==
    /\ At(b, "publish")
    /\ shared' = [shared EXCEPT ![<<job[b].dig, job[b].prof>>] = tmp[b]]
    /\ tmp' = [tmp EXCEPT ![b] = None]
    /\ job' = [job EXCEPT ![b].pc = "emit", ![b].relink = TRUE]
    /\ UNCHANGED <<sources, files, now, bounds>>

\* Without a shared cache: a local object, by modification times.
LocalRuntime(b) ==
    /\ At(b, "runtime") /\ ~job[b].share
    /\ LET p == job[b].prog  f == job[b].prof
           stale == ~Exists(rtfile[p][f]) \/ rtTime > rtfile[p][f].t
       IN /\ rtfile' = IF stale THEN [rtfile EXCEPT ![p][f] = File(Torn, now)] ELSE rtfile
          /\ job' = [job EXCEPT ![b].pc = IF stale THEN "local_cc" ELSE "emit"]
    /\ UNCHANGED <<sources, shared, hfile, cfile, ofile, exe, tmp, now, bounds>>

LocalCompiled(b) ==
    /\ At(b, "local_cc")
    /\ rtfile' = [rtfile EXCEPT ![job[b].prog][job[b].prof] =
                      File(<<rt, job[b].prof>>, now)]
    /\ job' = [job EXCEPT ![b].pc = "emit", ![b].relink = TRUE]
    /\ UNCHANGED <<sources, shared, hfile, cfile, ofile, exe, tmp, now, bounds>>

\* write_if_changed: a file that has the content already keeps its mtime.
Written(f, d) == IF Exists(f) /\ f.d = d THEN f ELSE File(d, now)

\* emit_module, for the mode of the profile, and the two writes of one module:
\* the files have one path for all profiles.
Emit(b) ==
    /\ At(b, "emit") /\ job[b].todo # <<>>
    /\ LET p == job[b].prog  m == Head(job[b].todo)  e == Mode[job[b].prof]
           h == Written(hfile[p][m], src[p][m].h[e])
           c == Written(cfile[p][m], src[p][m].c[e])
           changed == h # hfile[p][m] \/ c # cfile[p][m]
       IN /\ hfile' = [hfile EXCEPT ![p][m] = h]
          /\ cfile' = [cfile EXCEPT ![p][m] = c]
          /\ job' = [job EXCEPT ![b].todo = Tail(@), ![b].dirty = @ \/ changed]
    /\ UNCHANGED <<sources, shared, ofile, rtfile, exe, tmp, now, bounds>>

EmitDone(b) ==
    /\ At(b, "emit") /\ job[b].todo = <<>>
    /\ job' = [job EXCEPT ![b].pc = "modules", ![b].todo = Order]
    /\ UNCHANGED <<sources, shared, files, tmp, now, bounds>>

\* The objects that b reuses, compiles and links.
Objects(b) == ofile[job[b].prog][Suffix[job[b].prof]]

\* Wrong on purpose: the headers are not looked at.
X_NeedsCompile(b, m) ==
    LET o == Objects(b)[m]
    IN job[b].dirty \/ ~Exists(o) \/ cfile[job[b].prog][m].t > o.t

\* The test before each module's compile.
NeedsCompile(b, m) ==
    LET p == job[b].prog  o == Objects(b)[m]
    IN \/ job[b].dirty
       \/ ~Exists(o)
       \/ cfile[p][m].t > o.t
       \/ rtHTime > o.t
       \/ \E k \in Module : hfile[p][k].t > o.t

ModuleStep(b) ==
    /\ At(b, "modules") /\ job[b].todo # <<>>
    /\ LET p == job[b].prog  s == Suffix[job[b].prof]  m == Head(job[b].todo)
       IN IF NeedsCompile(b, m)
          THEN /\ ofile' = [ofile EXCEPT ![p][s][m] = File(Torn, now)]
               /\ job' = [job EXCEPT ![b].pc = "module_cc"]
          ELSE /\ job' = [job EXCEPT ![b].todo = Tail(@)]
               /\ UNCHANGED ofile
    /\ UNCHANGED <<sources, shared, hfile, cfile, rtfile, exe, tmp, now, bounds>>

ModuleCompiled(b) ==
    /\ At(b, "module_cc")
    /\ LET p == job[b].prog  f == job[b].prof  m == Head(job[b].todo)
       IN ofile' = [ofile EXCEPT ![p][Suffix[f]][m] = File(Compiled(p, m, f), now)]
    /\ job' = [job EXCEPT ![b].pc = "modules", ![b].relink = TRUE, ![b].todo = Tail(@)]
    /\ UNCHANGED <<sources, shared, hfile, cfile, rtfile, exe, tmp, now, bounds>>

\* relink || !file_exists(exe): the linker starts; otherwise the build ends.
NeedsLink(b) == job[b].relink \/ ~Exists(exe[job[b].prog])

LinkStep(b) ==
    /\ At(b, "modules") /\ job[b].todo = <<>>
    /\ exe' = IF NeedsLink(b) THEN [exe EXCEPT ![job[b].prog] = File(Torn, now)] ELSE exe
    /\ job' = [job EXCEPT ![b].pc = IF NeedsLink(b) THEN "link" ELSE "done"]
    /\ UNCHANGED <<sources, shared, hfile, cfile, ofile, rtfile, tmp, now, bounds>>

\* The linker refuses an object that is torn.
Linkable(b) == RtObject(b) # Torn /\ \A m \in Module : Objects(b)[m].d # Torn

Linked(b) ==
    /\ At(b, "link") /\ Linkable(b)
    /\ exe' = [exe EXCEPT ![job[b].prog] =
                   File(<<RtObject(b), [m \in Module |-> Objects(b)[m].d]>>, now)]
    /\ job' = [job EXCEPT ![b].pc = "done"]
    /\ UNCHANGED <<sources, shared, hfile, cfile, ofile, rtfile, tmp, now, bounds>>

\* fatal("link failed"): the linker leaves no output.
LinkFails(b) ==
    /\ At(b, "link") /\ ~Linkable(b)
    /\ exe' = [exe EXCEPT ![job[b].prog] = NoFile]
    /\ job' = [job EXCEPT ![b] = Idle]
    /\ UNCHANGED <<sources, shared, hfile, cfile, ofile, rtfile, tmp, now, bounds>>

\* The path of the executable is printed, or it is run.
Finish(b) ==
    /\ At(b, "done")
    /\ job' = [job EXCEPT ![b] = Idle]
    /\ UNCHANGED <<sources, shared, files, tmp, now, bounds>>

\* The build is killed: what it was writing stays as it is, its temporary too.
Kill(b) ==
    /\ Active(b) /\ kills < MaxKills
    /\ job' = [job EXCEPT ![b] = Idle]
    /\ kills' = kills + 1
    /\ UNCHANGED <<sources, shared, files, tmp, now, builds, edits>>

\* fatal(): a compiler fails and leaves no output, or rename() fails; the
\* temporary is unlinked.
Fails(b) ==
    /\ job[b].pc \in {"shared_cc", "publish", "local_cc", "module_cc"}
    /\ kills < MaxKills
    /\ kills' = kills + 1
    /\ LET p == job[b].prog  f == job[b].prof
       IN /\ rtfile' = IF At(b, "local_cc") THEN [rtfile EXCEPT ![p][f] = NoFile] ELSE rtfile
          /\ ofile' = IF At(b, "module_cc")
                      THEN [ofile EXCEPT ![p][Suffix[f]][Head(job[b].todo)] = NoFile] ELSE ofile
    /\ tmp' = [tmp EXCEPT ![b] = IF job[b].pc \in {"shared_cc", "publish"} THEN None ELSE @]
    /\ job' = [job EXCEPT ![b] = Idle]
    /\ UNCHANGED <<sources, shared, hfile, cfile, exe, now, builds, edits>>

-----------------------------------------------------------------------------
(* The user, between builds.                                               *)

EditRuntime(v) ==
    /\ v # rt /\ edits < MaxEdits
    /\ \A b \in Builder : ~Active(b)
    /\ rt' = v /\ now' = now + 1 /\ rtTime' = now'
    /\ rtHTime' = IF RtHeader[v] # RtHeader[rt] THEN now' ELSE rtHTime
    /\ edits' = edits + 1
    /\ UNCHANGED <<src, shared, files, job, tmp, builds, kills>>

EditModule(p, m, x) ==
    /\ x \in Text[m] \ {src[p][m]} /\ edits < MaxEdits
    /\ \A b \in Builder : ~Active(b)
    /\ src' = [src EXCEPT ![p][m] = x]
    /\ now' = now + 1
    /\ edits' = edits + 1
    /\ UNCHANGED <<rt, rtTime, rtHTime, shared, files, job, tmp, builds, kills>>

Step(b) ==
    \/ SharedLookup(b) \/ SharedCompiled(b) \/ Publish(b)
    \/ LocalRuntime(b) \/ LocalCompiled(b)
    \/ Emit(b) \/ EmitDone(b) \/ ModuleStep(b) \/ ModuleCompiled(b)
    \/ LinkStep(b) \/ Linked(b) \/ LinkFails(b) \/ Finish(b)

Next ==
    \/ \E b \in Builder :
          \/ Step(b) \/ Kill(b) \/ Fails(b)
          \/ \E x \in Command : Start(b, x)
    \/ \E v \in RtVersion : EditRuntime(v)
    \/ \E p \in Program, m \in Module : \E x \in Text[m] : EditModule(p, m, x)

Spec == Init /\ [][Next]_vars

-----------------------------------------------------------------------------
(* Correctness.                                                            *)

\* What a build from nothing would give.
FreshInputs(p, m, e) == <<src[p][m].c[e], [k \in Module |-> src[p][k].h[e]], RtHeader[rt]>>
Fresh(p, f) ==
    <<<<rt, f>>, [m \in Module |-> <<FreshInputs(p, m, Mode[f]), f>>]>>

\* An object of the shared cache is whole and was compiled from exactly the
\* content and for the profile its key says, whatever builds race for the key
\* and whichever of them are killed (cached_object: temporary and rename).
CacheHonest == \A k \in Key : shared[k] \in {None, k}

\* When a build reaches the link, every module's object is that of the C and
\* the headers now on disk, vyto_rt.h included, or visibly torn, although
\* earlier builds were killed between writing the C and compiling it, or wrote
\* the C of another profile.  The profile it was compiled for has the suffix
\* of this one (src/main.c:914-918).
ObjectsCurrent ==
    \A b \in Builder :
        (At(b, "link") \/ (At(b, "modules") /\ job[b].todo = <<>>)) =>
            \A m \in Module :
                \/ Objects(b)[m].d = Torn
                \/ \E f \in Profile : /\ Suffix[f] = Suffix[job[b].prof]
                                      /\ Objects(b)[m].d = Compiled(job[b].prog, m, f)

\* --clean is the way out of a stale cache: a build with it that ends has made
\* the executable of the sources, whatever happened before.
CleanBuildCurrent ==
    \A b \in Builder :
        At(b, "done") /\ job[b].clean =>
            exe[job[b].prog].d = Fresh(job[b].prog, job[b].prof)

\* "Switching branches or touching a file cannot serve a stale object, and
\* reverting a change makes the previous objects valid again instantly": a
\* build that ends has made the executable of the sources and of its profile.
ExeCurrent ==
    \A b \in Builder :
        At(b, "done") => exe[job[b].prog].d = Fresh(job[b].prog, job[b].prof)
=============================================================================
