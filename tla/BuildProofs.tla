---------------------------- MODULE BuildProofs ----------------------------
(***************************************************************************)
(* The build, for any number of builders, programs, profiles and modules,  *)
(* any edits between builds and any kills: a shared object is what its key *)
(* says, no stale object of a module is linked, and --clean gives the      *)
(* program of the sources.                                                 *)
(*                                                                         *)
(* The argument for objects: whatever object is not that of the C and the  *)
(* headers on disk is torn or older than one of them (StaleShows).  A      *)
(* build starts in a later second than every object of its program, so     *)
(* what it writes is newer (OlderWhileEmitting); a module it passes over   *)
(* shows no newer file, so its object is current (PassedOver).             *)
(***************************************************************************)
EXTENDS Build, TLAPS

CData == {Torn} \cup {x.c[Mode[f]] : x \in UNION {Text[m] : m \in Module}, f \in Profile}
HData == {Torn} \cup {x.h[Mode[f]] : x \in UNION {Text[m] : m \in Module}, f \in Profile}
RtHData == {RtHeader[v] : v \in RtVersion}
OData == ((CData \X [Module -> HData] \X RtHData) \X Profile) \cup {Torn}
RtData == Key \cup {None, Torn}
EData == (RtData \X [Module -> OData]) \cup {Torn}
Files(D) == [d : D, t : Nat \cup {-1}]

Busy == {"runtime", "shared_cc", "publish", "local_cc", "emit", "modules",
         "module_cc", "link", "done"}
Job == [pc : Busy, prog : Program, prof : Profile, clean : BOOLEAN, share : BOOLEAN,
        dig : RtVersion, relink : BOOLEAN, dirty : BOOLEAN, todo : Seq(Module)]

Types ==
    /\ rt \in RtVersion
    /\ src \in [Program -> [Module -> UNION {Text[m] : m \in Module}]]
    /\ \A p \in Program, m \in Module : src[p][m] \in Text[m]
    /\ shared \in [Key -> RtData]
    /\ hfile \in [Program -> [Module -> Files(HData)]]
    /\ cfile \in [Program -> [Module -> Files(CData)]]
    /\ ofile \in [Program -> [Suffixes -> [Module -> Files(OData)]]]
    /\ rtfile \in [Program -> [Profile -> Files(RtData)]]
    /\ exe \in [Program -> Files(EData)]
    /\ job \in [Builder -> Job \cup {Idle}]
    /\ tmp \in [Builder -> RtData]
    /\ rtHTime \in Nat /\ now \in Nat

OneBuildEach ==
    \A a, b \in Builder :
        Active(a) /\ Active(b) /\ job[a].prog = job[b].prog => a = b

\* The digest is that of the sources, and what waits to be published is whole.
Publishing ==
    \A b \in Builder :
        /\ job[b].pc \in Busy => job[b].dig = rt
        /\ At(b, "publish") => tmp[b] = <<job[b].dig, job[b].prof>>

Behind ==
    /\ rtHTime <= now
    /\ \A p \in Program, s \in Suffixes, m \in Module : ofile[p][s][m].t <= now
    /\ \A p \in Program, m \in Module : hfile[p][m].t <= now /\ cfile[p][m].t <= now

Early == {"runtime", "shared_cc", "publish", "local_cc", "emit"}
Late == {"modules", "module_cc", "link"}

OlderWhileEmitting ==
    \A b \in Builder :
        job[b].pc \in Early =>
            \A s \in Suffixes, m \in Module : ofile[job[b].prog][s][m].t < now

Current(p, s, m) ==
    \/ ofile[p][s][m].d = Torn
    \/ \E f \in Profile : Suffix[f] = s /\ ofile[p][s][m].d = Compiled(p, m, f)
Newer(p, s, m) ==
    \/ cfile[p][m].t > ofile[p][s][m].t
    \/ rtHTime > ofile[p][s][m].t
    \/ \E k \in Module : hfile[p][k].t > ofile[p][s][m].t

StaleShows ==
    \A p \in Program, s \in Suffixes, m \in Module : Current(p, s, m) \/ Newer(p, s, m)

ToDo(b, m) == \E i \in DOMAIN job[b].todo : job[b].todo[i] = m

PassedOver ==
    \A b \in Builder :
        job[b].pc \in Late =>
            \A m \in Module : ToDo(b, m) \/ Current(job[b].prog, Suffix[job[b].prof], m)

LinkComesLast ==
    \A b \in Builder :
        /\ At(b, "link") => job[b].todo = <<>>
        /\ At(b, "module_cc") => job[b].todo # <<>>

Inv ==
    /\ Types /\ OneBuildEach /\ Publishing /\ CacheHonest
    /\ Behind /\ OlderWhileEmitting /\ StaleShows /\ PassedOver /\ LinkComesLast

-----------------------------------------------------------------------------
(* The files of the generated code and the marks.                            *)

(* What a source yields is among the data of the generated files.            *)
LEMMA TextData ==
  ASSUME NEW m \in Module, NEW x \in Text[m], NEW f \in Profile
  PROVE  x.c[Mode[f]] \in CData /\ x.h[Mode[f]] \in HData
    BY DEF CData, HData

(* The suffix of a profile is one of the suffixes.                           *)
LEMMA SuffixTyped ==
  ASSUME NEW f \in Profile
  PROVE  Suffix[f] \in Suffixes
    BY DEF Suffixes

(* What is current stays so while nothing it is read from changes.           *)
LEMMA SameFiles ==
  ASSUME UNCHANGED <<hfile, cfile, rt, rtHTime, ofile>>
  PROVE  \A p, s, m : Current(p, s, m)' = Current(p, s, m) /\ Newer(p, s, m)' = Newer(p, s, m)
<1> SUFFICES ASSUME NEW p, NEW s, NEW m
             PROVE  Current(p, s, m)' = Current(p, s, m) /\ Newer(p, s, m)' = Newer(p, s, m)
    OBVIOUS
<1>1. \A f : Compiled(p, m, f)' = Compiled(p, m, f)
    BY DEF Compiled, Inputs
<1>2. QED
    BY <1>1 DEF Current, Newer

(* write_if_changed keeps the file or gives it the content and this time.    *)
LEMMA WrittenFact ==
  ASSUME NEW D, NEW f \in Files(D), NEW d \in D, now \in Nat, f.t <= now
  PROVE  /\ Written(f, d) \in Files(D)
         /\ Written(f, d) = f \/ Written(f, d).t = now
         /\ Written(f, d).d = d
         /\ Written(f, d).t <= now /\ Written(f, d).t >= f.t
    BY DEF Written, Files, File, Exists

(* An object that is left alone, with the files it is made from, is as       *)
(* current and as old as before.                                             *)
LEMMA SamePlace ==
  ASSUME NEW p, NEW s, NEW m, ofile'[p][s][m] = ofile[p][s][m],
         \A k \in Module \cup {m} : hfile'[p][k] = hfile[p][k] /\ cfile'[p][k] = cfile[p][k],
         rt' = rt, rtHTime' = rtHTime
  PROVE  Current(p, s, m)' = Current(p, s, m) /\ Newer(p, s, m)' = Newer(p, s, m)
<1>1. \A f : Compiled(p, m, f)' = Compiled(p, m, f)
    BY DEF Compiled, Inputs
<1>2. Current(p, s, m)' = Current(p, s, m)
    BY <1>1 DEF Current
<1>3. Newer(p, s, m)' = Newer(p, s, m)
    BY DEF Newer
<1>4. QED
    BY <1>2, <1>3

(* Dropping the head of a list leaves all the others in it.                  *)
LEMMA TailKeeps ==
  ASSUME NEW s \in Seq(Module), s # <<>>, NEW i \in DOMAIN s
  PROVE  /\ Head(s) \in Module /\ Tail(s) \in Seq(Module)
         /\ s[i] = Head(s) \/ \E j \in DOMAIN Tail(s) : Tail(s)[j] = s[i]
<1>1. Head(s) = s[1] /\ Head(s) \in Module /\ Tail(s) \in Seq(Module) /\ Len(s) \in Nat /\ DOMAIN s = 1 .. Len(s)
    OBVIOUS
<1>2. CASE i = 1
    BY <1>1, <1>2
<1>3. CASE i # 1
  <2>1. i - 1 \in DOMAIN Tail(s) /\ Tail(s)[i - 1] = s[i]
    BY <1>1, <1>3
  <2>2. QED
    BY <1>1, <2>1
<1>4. QED
    BY <1>2, <1>3

(* A generated file that exists nowhere is typed for every kind of data.     *)
LEMMA NoFileTyped ==
  ASSUME NEW D, Torn \in D
  PROVE  NoFile \in Files(D) /\ NoFile.d = Torn /\ NoFile.t = -1
    BY DEF NoFile, File, Files

(* A file written now is typed.                                              *)
LEMMA FileTyped ==
  ASSUME NEW D, NEW d \in D, NEW t \in Nat
  PROVE  File(d, t) \in Files(D) /\ File(d, t).d = d /\ File(d, t).t = t
    BY DEF File, Files

(* Changing a function at one place.                                         *)
LEMMA ExceptTyped ==
  ASSUME NEW S, NEW D, NEW g \in [S -> D], NEW s, NEW d \in D
  PROVE  [g EXCEPT ![s] = d] \in [S -> D]
    OBVIOUS

(* The marks are among the data.                                             *)
LEMMA TornTyped == Torn \in HData /\ Torn \in CData /\ Torn \in OData /\ Torn \in RtData /\ Torn \in EData
    BY DEF HData, CData, OData, RtData, EData

(* An idle record is no job.                                                 *)
LEMMA IdleFact == Idle.pc = "idle" /\ Idle.pc \notin Busy
    BY DEF Idle, Busy

(* The first state satisfies the invariant.                                  *)
LEMMA InitInv == Init => Inv
<1> SUFFICES ASSUME Init PROVE Inv
    OBVIOUS
<1>1. \A b \in Builder : job[b] = Idle /\ ~Active(b) /\ job[b].pc = "idle" /\ job[b].pc \notin Busy
    BY IdleFact DEF Init, Active
<1>2. Types
  <2>1. src \in [Program -> [Module -> UNION {Text[m] : m \in Module}]]
        /\ \A p \in Program, m \in Module : src[p][m] \in Text[m]
    BY FirstContents DEF Init
  <2>2. hfile \in [Program -> [Module -> Files(HData)]] /\ cfile \in [Program -> [Module -> Files(CData)]]
    BY NoFileTyped, TornTyped DEF Init
  <2>3. /\ ofile \in [Program -> [Suffixes -> [Module -> Files(OData)]]]
        /\ rtfile \in [Program -> [Profile -> Files(RtData)]]
        /\ exe \in [Program -> Files(EData)]
    BY NoFileTyped, TornTyped DEF Init
  <2>4. QED
    BY <2>1, <2>2, <2>3, FirstContents DEF Init, Types, RtData
<1>3. \A p \in Program, s \in Suffixes, m \in Module :
          ofile[p][s][m] = NoFile /\ hfile[p][m] = NoFile /\ cfile[p][m] = NoFile
    BY DEF Init
<1>4. NoFile.d = Torn /\ NoFile.t = -1 /\ now = 0 /\ rtHTime = 0
    BY DEF NoFile, File, Init
<1>5. Behind
    BY <1>3, <1>4 DEF Behind, Init
<1>6. StaleShows
    BY <1>3, <1>4 DEF StaleShows, Current
<1>7. OneBuildEach /\ Publishing /\ OlderWhileEmitting /\ PassedOver /\ LinkComesLast
    BY <1>1 DEF OneBuildEach, Publishing, OlderWhileEmitting, PassedOver, LinkComesLast, At, Early, Late
<1>8. CacheHonest
    BY DEF CacheHonest, Init
<1>9. QED
    BY <1>2, <1>5, <1>6, <1>7, <1>8 DEF Inv

-----------------------------------------------------------------------------
(* Steps of a build.                                                         *)

(* A builder that is active runs a job.                                      *)
LEMMA JobTyped ==
  ASSUME Types, NEW b \in Builder, job[b].pc # "idle"
  PROVE  job[b] \in Job /\ job[b].pc \in Busy /\ Active(b)
    BY IdleFact DEF Types, Job, Active

(* A step of b that touches neither generated files nor objects keeps the    *)
(* invariant if b's own phase keeps its promises.                            *)
LEMMA Quiet ==
  ASSUME Inv, NEW b \in Builder, Active(b),
         UNCHANGED <<hfile, cfile, ofile, now, rt, rtHTime>>,
         \A a \in Builder \ {b} : job'[a] = job[a] /\ tmp'[a] = tmp[a],
         \/ job'[b] = Idle
         \/ /\ job'[b].prog = job[b].prog /\ job'[b].dig = rt
            /\ job'[b].pc = "publish" => tmp'[b] = <<job'[b].dig, job'[b].prof>>
            /\ job'[b].pc \in Early => job[b].pc \in Early
            /\ job'[b].pc \in Late =>
                   \A m \in Module : ToDo(b, m)' \/ Current(job'[b].prog, Suffix[job'[b].prof], m)
            /\ job'[b].pc = "link" => job'[b].todo = <<>>
            /\ job'[b].pc # "module_cc"
  PROVE  /\ OneBuildEach' /\ Publishing'
         /\ Behind' /\ OlderWhileEmitting' /\ StaleShows' /\ PassedOver' /\ LinkComesLast'
<1>1. \A p, s, m : Current(p, s, m)' = Current(p, s, m) /\ Newer(p, s, m)' = Newer(p, s, m)
    BY SameFiles
<1>2. Idle.pc = "idle" /\ "idle" \notin Busy /\ "idle" \notin Early /\ "idle" \notin Late
    BY DEF Idle, Busy, Early, Late
<1>3. \A a \in Builder \ {b} : \A m : ToDo(a, m)' = ToDo(a, m)
    BY DEF ToDo
<1>4. OneBuildEach'
    BY <1>2 DEF Inv, OneBuildEach, Active
<1>5. Publishing'
    BY <1>2 DEF Inv, Publishing, At
<1>6. Behind' /\ StaleShows'
    BY <1>1 DEF Inv, Behind, StaleShows
<1>7. OlderWhileEmitting'
    BY <1>2 DEF Inv, OlderWhileEmitting
<1>8. PassedOver'
  <2> SUFFICES ASSUME NEW a \in Builder, job'[a].pc \in Late, NEW m \in Module
               PROVE  ToDo(a, m)' \/ Current(job'[a].prog, Suffix[job'[a].prof], m)
    BY <1>1 DEF PassedOver
  <2>1. CASE a = b
    BY <1>2, <2>1
  <2>2. CASE a # b
    BY <1>3, <2>2 DEF Inv, PassedOver
  <2>3. QED
    BY <2>1, <2>2
<1>9. LinkComesLast'
    BY <1>2 DEF Inv, LinkComesLast, At
<1>10. QED
    BY <1>4, <1>5, <1>6, <1>7, <1>8, <1>9

(* The lookup in the shared cache.                                           *)
LEMMA SharedLookupKeeps ==
  ASSUME Inv, NEW b \in Builder, SharedLookup(b)
  PROVE  Inv'
<1>1. Types /\ CacheHonest /\ job[b].pc = "runtime" /\ Publishing
    BY DEF Inv, SharedLookup, At
<1>2. job[b] \in Job /\ Active(b) /\ job[b].pc \in Busy
    BY <1>1, JobTyped
<1>3. PICK hit \in BOOLEAN :
        /\ job' = [job EXCEPT ![b].dig = rt, ![b].pc = IF hit THEN "emit" ELSE "shared_cc"]
        /\ tmp' = [tmp EXCEPT ![b] = IF hit THEN @ ELSE Torn]
    BY DEF SharedLookup, dir_digest
<1>4. UNCHANGED <<sources, shared, files, now>>
    BY DEF SharedLookup
<1>5. /\ job' \in [Builder -> Job \cup {Idle}] /\ tmp' \in [Builder -> RtData]
      /\ \A a \in Builder \ {b} : job'[a] = job[a] /\ tmp'[a] = tmp[a]
      /\ job'[b].prog = job[b].prog /\ job'[b].dig = rt /\ job'[b].pc \in {"emit", "shared_cc"}
    BY <1>1, <1>2, <1>3, TornTyped DEF Types, Job, Busy
<1>6. Types' /\ CacheHonest'
    BY <1>1, <1>4, <1>5 DEF Types, CacheHonest, sources, files
<1>7. QED
    BY <1>1, <1>2, <1>4, <1>5, <1>6, Quiet DEF Inv, sources, files, Early, Late

(* The compile of the shared object.                                         *)
LEMMA SharedCompiledKeeps ==
  ASSUME Inv, NEW b \in Builder, SharedCompiled(b)
  PROVE  Inv'
<1>1. Types /\ CacheHonest /\ job[b].pc = "shared_cc" /\ Publishing
    BY DEF Inv, SharedCompiled, At
<1>2. job[b] \in Job /\ Active(b) /\ job[b].pc \in Busy /\ job[b].dig = rt
    BY <1>1, JobTyped DEF Publishing
<1>3. /\ job' = [job EXCEPT ![b].pc = "publish"] /\ tmp' = [tmp EXCEPT ![b] = <<rt, job[b].prof>>]
      /\ UNCHANGED <<sources, shared, files, now>>
    BY DEF SharedCompiled
<1>4. <<rt, job[b].prof>> \in RtData
    BY <1>1, <1>2 DEF RtData, Key, Types, Job
<1>5. /\ job' \in [Builder -> Job \cup {Idle}] /\ tmp' \in [Builder -> RtData]
      /\ \A a \in Builder \ {b} : job'[a] = job[a] /\ tmp'[a] = tmp[a]
      /\ job'[b].prog = job[b].prog /\ job'[b].dig = rt /\ job'[b].pc = "publish"
      /\ tmp'[b] = <<job'[b].dig, job'[b].prof>>
    BY <1>1, <1>2, <1>3, <1>4 DEF Types, Job, Busy
<1>6. Types' /\ CacheHonest'
    BY <1>1, <1>3, <1>5 DEF Types, CacheHonest, sources, files
<1>7. QED
    BY <1>1, <1>2, <1>3, <1>5, <1>6, Quiet DEF Inv, sources, files, Early, Late

(* The rename into the shared cache.                                         *)
LEMMA PublishKeeps ==
  ASSUME Inv, NEW b \in Builder, Publish(b)
  PROVE  Inv'
<1>1. Types /\ CacheHonest /\ job[b].pc = "publish" /\ Publishing
    BY DEF Inv, Publish, At
<1>2. /\ job[b] \in Job /\ Active(b) /\ job[b].pc \in Busy /\ job[b].dig = rt
      /\ tmp[b] = <<job[b].dig, job[b].prof>>
    BY <1>1, JobTyped DEF Publishing, At
<1>3. /\ job' = [job EXCEPT ![b].pc = "emit", ![b].relink = TRUE] /\ tmp' = [tmp EXCEPT ![b] = None]
      /\ shared' = [shared EXCEPT ![<<job[b].dig, job[b].prof>>] = tmp[b]]
      /\ UNCHANGED <<sources, files, now>>
    BY DEF Publish
<1>4. <<job[b].dig, job[b].prof>> \in Key /\ Key \subseteq RtData /\ None \in RtData
    BY <1>2 DEF RtData, Key, Job
<1>5. /\ job' \in [Builder -> Job \cup {Idle}] /\ tmp' \in [Builder -> RtData]
      /\ \A a \in Builder \ {b} : job'[a] = job[a] /\ tmp'[a] = tmp[a]
      /\ job'[b].prog = job[b].prog /\ job'[b].dig = rt /\ job'[b].pc = "emit"
    BY <1>1, <1>2, <1>3, <1>4 DEF Types, Job, Busy
<1>6. shared' \in [Key -> RtData] /\ CacheHonest'
    BY <1>1, <1>2, <1>3, <1>4 DEF Types, CacheHonest
<1>7. Types'
    BY <1>1, <1>3, <1>5, <1>6 DEF Types, sources, files
<1>8. QED
    BY <1>1, <1>2, <1>3, <1>5, <1>6, <1>7, Quiet DEF Inv, sources, files, Early, Late

(* The local runtime: its object is looked at.                               *)
LEMMA LocalRuntimeKeeps ==
  ASSUME Inv, NEW b \in Builder, LocalRuntime(b)
  PROVE  Inv'
<1>1. Types /\ CacheHonest /\ job[b].pc = "runtime" /\ Publishing
    BY DEF Inv, LocalRuntime, At
<1>2. job[b] \in Job /\ Active(b) /\ job[b].pc \in Busy /\ job[b].dig = rt
    BY <1>1, JobTyped DEF Publishing
<1>3. PICK stale \in BOOLEAN :
        /\ rtfile' = IF stale THEN [rtfile EXCEPT ![job[b].prog][job[b].prof] = File(Torn, now)] ELSE rtfile
        /\ job' = [job EXCEPT ![b].pc = IF stale THEN "local_cc" ELSE "emit"]
    BY DEF LocalRuntime
<1>4. UNCHANGED <<sources, shared, hfile, cfile, ofile, exe, tmp, now>>
    BY DEF LocalRuntime
<1>5. /\ job' \in [Builder -> Job \cup {Idle}]
      /\ \A a \in Builder \ {b} : job'[a] = job[a] /\ tmp'[a] = tmp[a]
      /\ job'[b].prog = job[b].prog /\ job'[b].dig = rt /\ job'[b].pc \in {"local_cc", "emit"}
    BY <1>1, <1>2, <1>3, <1>4 DEF Types, Job, Busy
<1>6. File(Torn, now) \in Files(RtData)
    BY <1>1, FileTyped, TornTyped DEF Types
<1>7. rtfile' \in [Program -> [Profile -> Files(RtData)]]
    BY <1>1, <1>2, <1>3, <1>6 DEF Types, Job
<1>8. Types' /\ CacheHonest'
    BY <1>1, <1>4, <1>5, <1>7 DEF Types, CacheHonest, sources
<1>9. QED
    BY <1>1, <1>2, <1>4, <1>5, <1>8, Quiet DEF Inv, sources, Early, Late

(* The local runtime: its compiler ends.                                     *)
LEMMA LocalCompiledKeeps ==
  ASSUME Inv, NEW b \in Builder, LocalCompiled(b)
  PROVE  Inv'
<1>1. Types /\ CacheHonest /\ job[b].pc = "local_cc" /\ Publishing
    BY DEF Inv, LocalCompiled, At
<1>2. job[b] \in Job /\ Active(b) /\ job[b].pc \in Busy /\ job[b].dig = rt
    BY <1>1, JobTyped DEF Publishing
<1>3. /\ rtfile' = [rtfile EXCEPT ![job[b].prog][job[b].prof] = File(<<rt, job[b].prof>>, now)]
      /\ job' = [job EXCEPT ![b].pc = "emit", ![b].relink = TRUE]
      /\ UNCHANGED <<sources, shared, hfile, cfile, ofile, exe, tmp, now>>
    BY DEF LocalCompiled
<1>5. /\ job' \in [Builder -> Job \cup {Idle}]
      /\ \A a \in Builder \ {b} : job'[a] = job[a] /\ tmp'[a] = tmp[a]
      /\ job'[b].prog = job[b].prog /\ job'[b].dig = rt /\ job'[b].pc = "emit"
    BY <1>1, <1>2, <1>3 DEF Types, Job, Busy
<1>4. <<rt, job[b].prof>> \in RtData
    BY <1>1, <1>2 DEF RtData, Key, Types, Job
<1>6. File(<<rt, job[b].prof>>, now) \in Files(RtData)
    BY <1>1, <1>4, FileTyped DEF Types
<1>7. rtfile' \in [Program -> [Profile -> Files(RtData)]]
    BY <1>1, <1>2, <1>3, <1>6 DEF Types, Job
<1>8. Types' /\ CacheHonest'
    BY <1>1, <1>3, <1>5, <1>7 DEF Types, CacheHonest, sources
<1>9. QED
    BY <1>1, <1>2, <1>3, <1>5, <1>8, Quiet DEF Inv, sources, Early, Late

(* A build that ends, is killed or fails while it compiles no module.        *)
LEMMA StopKeeps ==
  ASSUME Inv, NEW b \in Builder, Active(b), Types',
         job' = [job EXCEPT ![b] = Idle],
         \A a \in Builder \ {b} : tmp'[a] = tmp[a],
         UNCHANGED <<hfile, cfile, ofile, now, rt, rtHTime, shared>>
  PROVE  Inv'
<1>1. job'[b] = Idle /\ \A a \in Builder \ {b} : job'[a] = job[a]
    BY DEF Inv, Types
<1>2. CacheHonest'
    BY DEF Inv, CacheHonest
<1>3. QED
    BY <1>1, <1>2, Quiet DEF Inv

(* All modules have been emitted.                                            *)
LEMMA EmitDoneKeeps ==
  ASSUME Inv, NEW b \in Builder, EmitDone(b)
  PROVE  Inv'
<1>1. Types /\ CacheHonest /\ job[b].pc = "emit" /\ Publishing
    BY DEF Inv, EmitDone, At
<1>2. job[b] \in Job /\ Active(b) /\ job[b].pc \in Busy /\ job[b].dig = rt
    BY <1>1, JobTyped DEF Publishing
<1>3. /\ job' = [job EXCEPT ![b].pc = "modules", ![b].todo = Order]
      /\ UNCHANGED <<sources, shared, files, tmp, now>>
    BY DEF EmitDone
<1>4. /\ job' \in [Builder -> Job \cup {Idle}]
      /\ \A a \in Builder \ {b} : job'[a] = job[a] /\ tmp'[a] = tmp[a]
      /\ job'[b].prog = job[b].prog /\ job'[b].dig = rt /\ job'[b].pc = "modules"
      /\ job'[b].todo = Order
    BY <1>1, <1>2, <1>3, OrderListsModules DEF Types, Job, Busy
<1>5. \A m \in Module : ToDo(b, m)'
    BY <1>4, OrderListsModules DEF ToDo
<1>6. Types' /\ CacheHonest'
    BY <1>1, <1>3, <1>4 DEF Types, CacheHonest, sources, files
<1>7. QED
    BY <1>1, <1>2, <1>3, <1>4, <1>5, <1>6, Quiet DEF Inv, sources, files, Early, Late

(* The linker starts, or the build ends without it.                          *)
LEMMA LinkStepKeeps ==
  ASSUME Inv, NEW b \in Builder, LinkStep(b)
  PROVE  Inv'
<1>1. Types /\ CacheHonest /\ job[b].pc = "modules" /\ job[b].todo = <<>> /\ Publishing /\ PassedOver
    BY DEF Inv, LinkStep, At
<1>2. job[b] \in Job /\ Active(b) /\ job[b].pc \in Busy /\ job[b].dig = rt
    BY <1>1, JobTyped DEF Publishing
<1>3. PICK need \in BOOLEAN :
        /\ exe' = IF need THEN [exe EXCEPT ![job[b].prog] = File(Torn, now)] ELSE exe
        /\ job' = [job EXCEPT ![b].pc = IF need THEN "link" ELSE "done"]
    BY DEF LinkStep, NeedsLink
<1>4. UNCHANGED <<sources, shared, hfile, cfile, ofile, rtfile, tmp, now>>
    BY DEF LinkStep
<1>5. /\ job' \in [Builder -> Job \cup {Idle}]
      /\ \A a \in Builder \ {b} : job'[a] = job[a] /\ tmp'[a] = tmp[a]
      /\ job'[b].prog = job[b].prog /\ job'[b].prof = job[b].prof /\ job'[b].dig = rt
      /\ job'[b].pc \in {"link", "done"} /\ job'[b].todo = <<>>
    BY <1>1, <1>2, <1>3, <1>4 DEF Types, Job, Busy
<1>6. \A m \in Module : Current(job'[b].prog, Suffix[job'[b].prof], m)
    BY <1>1, <1>5 DEF PassedOver, ToDo, Late
<1>7. File(Torn, now) \in Files(EData)
    BY <1>1, FileTyped, TornTyped DEF Types
<1>8. exe' \in [Program -> Files(EData)]
    BY <1>1, <1>2, <1>3, <1>7 DEF Types, Job
<1>9. Types' /\ CacheHonest'
    BY <1>1, <1>4, <1>5, <1>8 DEF Types, CacheHonest, sources
<1>10. QED
    BY <1>1, <1>2, <1>4, <1>5, <1>6, <1>9, Quiet DEF Inv, sources, Early, Late

(* The linker ends.                                                          *)
LEMMA LinkedKeeps ==
  ASSUME Inv, NEW b \in Builder, Linked(b)
  PROVE  Inv'
<1>1. Types /\ CacheHonest /\ job[b].pc = "link" /\ Publishing
    BY DEF Inv, Linked, At
<1>2. job[b] \in Job /\ Active(b) /\ job[b].pc \in Busy /\ job[b].dig = rt
    BY <1>1, JobTyped DEF Publishing
<1>3. /\ exe' = [exe EXCEPT ![job[b].prog] =
                     File(<<RtObject(b), [m \in Module |-> Objects(b)[m].d]>>, now)]
      /\ job' = [job EXCEPT ![b].pc = "done"]
      /\ UNCHANGED <<sources, shared, hfile, cfile, ofile, rtfile, tmp, now>>
    BY DEF Linked
<1>4. /\ job' \in [Builder -> Job \cup {Idle}]
      /\ \A a \in Builder \ {b} : job'[a] = job[a] /\ tmp'[a] = tmp[a]
      /\ job'[b].prog = job[b].prog /\ job'[b].dig = rt /\ job'[b].pc = "done"
    BY <1>1, <1>2, <1>3 DEF Types, Job, Busy
<1>5. RtObject(b) \in RtData
    BY <1>1, <1>2 DEF RtObject, Types, Job, Key, Files
<1>6. [m \in Module |-> Objects(b)[m].d] \in [Module -> OData]
  <2>1. Suffix[job[b].prof] \in Suffixes /\ job[b].prog \in Program
    BY <1>2, SuffixTyped DEF Job
  <2>2. QED
    BY <1>1, <2>1 DEF Objects, Types, Files
<1>7. File(<<RtObject(b), [m \in Module |-> Objects(b)[m].d]>>, now) \in Files(EData)
    BY <1>1, <1>5, <1>6, FileTyped DEF Types, EData
<1>8. exe' \in [Program -> Files(EData)]
    BY <1>1, <1>2, <1>3, <1>7 DEF Types, Job
<1>9. Types' /\ CacheHonest'
    BY <1>1, <1>3, <1>4, <1>8 DEF Types, CacheHonest, sources
<1>10. QED
    BY <1>1, <1>2, <1>3, <1>4, <1>9, Quiet DEF Inv, sources, Early, Late

(* The link fails, the build ends, or it is killed.                          *)
LEMMA EndKeeps ==
  ASSUME Inv, NEW b \in Builder, LinkFails(b) \/ Finish(b) \/ Kill(b)
  PROVE  Inv'
<1>1. Types /\ job[b].pc # "idle"
    BY DEF Inv, LinkFails, Finish, Kill, At, Active
<1>2. job[b] \in Job /\ Active(b)
    BY <1>1, JobTyped
<1>3. /\ job' = [job EXCEPT ![b] = Idle]
      /\ UNCHANGED <<sources, shared, hfile, cfile, ofile, rtfile, tmp, now>>
      /\ exe' = exe \/ exe' = [exe EXCEPT ![job[b].prog] = NoFile]
    BY DEF LinkFails, Finish, Kill, files
<1>4. NoFile \in Files(EData)
    BY NoFileTyped, TornTyped
<1>5. exe' \in [Program -> Files(EData)]
  <2>1. exe \in [Program -> Files(EData)] /\ job[b].prog \in Program
    BY <1>1, <1>2 DEF Types, Job
  <2>2. QED
    BY <1>3, <1>4, <2>1
<1>a. job' \in [Builder -> Job \cup {Idle}]
    BY <1>1, <1>3 DEF Types
<1>6. Types'
    BY <1>1, <1>3, <1>5, <1>a DEF Types, sources
<1>7. QED
    BY <1>2, <1>3, <1>6, StopKeeps DEF sources

(* A step of b that changes one object of its program, to a torn one or to   *)
(* the one of the files on disk.                                             *)
LEMMA ObjectStep ==
  ASSUME Inv, NEW b \in Builder, job[b].pc \in {"modules", "module_cc"},
         NEW m \in Module, NEW o \in Files(OData),
         o.t <= now, o.d \in {Torn, Compiled(job[b].prog, m, job[b].prof)},
         ofile' = [ofile EXCEPT ![job[b].prog][Suffix[job[b].prof]][m] = o],
         UNCHANGED <<hfile, cfile, now, rt, rtHTime, tmp, src, shared, rtfile, exe>>,
         job' \in [Builder -> Job \cup {Idle}],
         \A a \in Builder \ {b} : job'[a] = job[a],
         \/ job'[b] = Idle
         \/ /\ job'[b].prog = job[b].prog /\ job'[b].prof = job[b].prof /\ job'[b].dig = rt
            /\ job'[b].pc \in {"modules", "module_cc"}
            /\ job'[b].pc = "module_cc" => job'[b].todo # <<>>
            /\ \A k \in Module \ {m} : ToDo(b, k) => ToDo(b, k)'
  PROVE  Inv'
<1>0. PICK p, s : p = job[b].prog /\ s = Suffix[job[b].prof]
    OBVIOUS
<1>1. Types /\ job[b] \in Job /\ Active(b) /\ p \in Program /\ s \in Suffixes /\ job[b].prof \in Profile
    BY <1>0, JobTyped, SuffixTyped DEF Inv, Job
<1>2. /\ ofile' \in [Program -> [Suffixes -> [Module -> Files(OData)]]]
      /\ ofile'[p][s][m] = o
      /\ \A q \in Program, g \in Suffixes, k \in Module :
             <<q, g, k>> # <<p, s, m>> => ofile'[q][g][k] = ofile[q][g][k]
    BY <1>0, <1>1 DEF Types
<1>3. Types'
    BY <1>1, <1>2 DEF Types
<1>4. \A q, k, g : Compiled(q, k, g)' = Compiled(q, k, g)
    BY DEF Compiled, Inputs
<1>5. /\ Current(p, s, m)'
      /\ \A q \in Program, g \in Suffixes, k \in Module : Current(q, g, k) => Current(q, g, k)'
  <2>1. Current(p, s, m)'
    <3>1. o.d = Torn \/ o.d = Compiled(p, m, job[b].prof)
      BY <1>0
    <3>2. PICK f \in Profile : f = job[b].prof /\ Suffix[f] = s
      BY <1>0, <1>1
    <3>3. ofile'[p][s][m].d = Torn \/ ofile'[p][s][m].d = Compiled(p, m, f)'
      BY <1>2, <1>4, <3>1, <3>2
    <3>4. QED
      BY <3>2, <3>3 DEF Current
  <2>2. ASSUME NEW q \in Program, NEW g \in Suffixes, NEW k \in Module, Current(q, g, k)
        PROVE  Current(q, g, k)'
    <3>1. CASE <<q, g, k>> = <<p, s, m>>
      BY <2>1, <3>1
    <3>2. CASE <<q, g, k>> # <<p, s, m>>
      <4>1. ofile'[q][g][k] = ofile[q][g][k]
        BY <1>2, <3>2
      <4>2. QED
        BY <2>2, <4>1, SamePlace
    <3>3. QED
      BY <3>1, <3>2
  <2>3. QED
    BY <2>1, <2>2
<1>6. StaleShows'
  <2> SUFFICES ASSUME NEW q \in Program, NEW g \in Suffixes, NEW k \in Module, ~Current(q, g, k)'
               PROVE  Newer(q, g, k)'
    BY DEF StaleShows
  <2>1. <<q, g, k>> # <<p, s, m>> /\ ~Current(q, g, k)
    BY <1>5
  <2>2. Newer(q, g, k) /\ ofile'[q][g][k] = ofile[q][g][k]
    BY <1>2, <2>1 DEF Inv, StaleShows
  <2>3. QED
    BY <2>2 DEF Newer
<1>7. Idle.pc = "idle" /\ "idle" \notin Busy /\ "idle" \notin Early /\ "idle" \notin Late
    BY DEF Idle, Busy, Early, Late
<1>8. Behind'
  <2> SUFFICES ASSUME NEW q \in Program, NEW g \in Suffixes, NEW k \in Module
               PROVE  ofile'[q][g][k].t <= now
    BY DEF Inv, Behind
  <2>1. CASE q = p /\ g = s /\ k = m
    BY <1>2, <2>1
  <2>2. CASE ~(q = p /\ g = s /\ k = m)
    <3>1. <<q, g, k>> # <<p, s, m>>
      BY <2>2
    <3>2. ofile'[q][g][k] = ofile[q][g][k]
      BY <1>2, <3>1
    <3>3. QED
      BY <3>2 DEF Inv, Behind
  <2>3. QED
    BY <2>1, <2>2
<1>9. \A a \in Builder : job'[a].pc \in Busy => job'[a].prog = job[a].prog /\ job'[a].prof = job[a].prof /\ Active(a)
    BY <1>1, <1>7, JobTyped DEF Busy, Active
<1>10. OneBuildEach'
  <2> SUFFICES ASSUME NEW a \in Builder, NEW c \in Builder, Active(a)', Active(c)',
                      job'[a].prog = job'[c].prog
               PROVE  a = c
    BY DEF OneBuildEach
  <2>1. job'[a].pc \in Busy /\ job'[c].pc \in Busy
    BY <1>7 DEF Active, Job
  <2>2. QED
    BY <1>9, <2>1 DEF Inv, OneBuildEach
<1>11. OlderWhileEmitting'
  <2> SUFFICES ASSUME NEW a \in Builder, job'[a].pc \in Early, NEW g \in Suffixes, NEW k \in Module
               PROVE  ofile'[job'[a].prog][g][k].t < now
    BY DEF OlderWhileEmitting
  <2>1. a # b
    BY <1>7 DEF Early
  <2>2. Active(a) /\ job'[a] = job[a] /\ job[a].prog # p
    BY <1>0, <1>1, <1>7, <2>1 DEF Inv, OneBuildEach, Active
  <2>3. job[a].prog \in Program
    BY <1>1, <2>2, JobTyped DEF Job, Active
  <2>4. ofile'[job[a].prog][g][k] = ofile[job[a].prog][g][k]
    BY <1>2, <2>2, <2>3
  <2>5. ofile[job[a].prog][g][k].t < now
    BY <2>2 DEF Inv, OlderWhileEmitting
  <2>6. QED
    BY <2>2, <2>4, <2>5
<1>12. PassedOver'
  <2> SUFFICES ASSUME NEW a \in Builder, job'[a].pc \in Late, NEW k \in Module
               PROVE  ToDo(a, k)' \/ Current(job[a].prog, Suffix[job[a].prof], k)'
    BY DEF PassedOver
  <2>0. PICK q, g : q = job[a].prog /\ g = Suffix[job[a].prof]
    OBVIOUS
  <2>1. job'[a].prog = q /\ Suffix[job'[a].prof] = g /\ Active(a)
    BY <1>9, <2>0 DEF Late, Busy
  <2>2. q \in Program /\ g \in Suffixes
    BY <1>1, <2>0, <2>1, JobTyped, SuffixTyped DEF Job, Active
  <2>3. job[a].pc \in Late
    BY <1>7 DEF Late
  <2>4. ToDo(a, k) \/ Current(q, g, k)
    BY <2>0, <2>3 DEF Inv, PassedOver
  <2>5. ToDo(a, k)' \/ Current(q, g, k)'
    <3>1. CASE a # b
      BY <1>5, <2>2, <2>4, <3>1 DEF ToDo
    <3>2. CASE a = b
      BY <1>0, <1>5, <1>7, <2>0, <2>2, <2>4, <3>2
    <3>3. QED
      BY <3>1, <3>2
  <2>6. QED
    BY <2>0, <2>1, <2>5 DEF Current, Compiled, Inputs
<1>13. Publishing' /\ LinkComesLast'
    BY <1>7 DEF Inv, Publishing, LinkComesLast, At
<1>14. CacheHonest'
    BY DEF Inv, CacheHonest
<1>15. QED
    BY <1>3, <1>6, <1>8, <1>10, <1>11, <1>12, <1>13, <1>14 DEF Inv

(* A module is passed over, or its compiler starts.                          *)
LEMMA ModuleStepKeeps ==
  ASSUME Inv, NEW b \in Builder, ModuleStep(b)
  PROVE  Inv'
<1>0. PICK p, s, m : p = job[b].prog /\ s = Suffix[job[b].prof] /\ m = Head(job[b].todo)
    OBVIOUS
<1>1. Types /\ CacheHonest /\ job[b].pc = "modules" /\ job[b].todo # <<>> /\ Publishing
    BY DEF Inv, ModuleStep, At
<1>2. /\ job[b] \in Job /\ Active(b) /\ job[b].pc \in Busy /\ job[b].dig = rt
      /\ p \in Program /\ s \in Suffixes /\ job[b].todo \in Seq(Module) /\ m \in Module
    BY <1>0, <1>1, JobTyped, SuffixTyped DEF Publishing, Job
<1>3. UNCHANGED <<sources, shared, hfile, cfile, rtfile, exe, tmp, now>>
    BY DEF ModuleStep
<1>4. CASE NeedsCompile(b, m)
  <2>1. ofile' = [ofile EXCEPT ![p][s][m] = File(Torn, now)] /\ job' = [job EXCEPT ![b].pc = "module_cc"]
    BY <1>0, <1>4 DEF ModuleStep
  <2>2. /\ job' \in [Builder -> Job \cup {Idle}]
        /\ \A a \in Builder \ {b} : job'[a] = job[a]
        /\ job'[b].prog = p /\ job'[b].prof = job[b].prof /\ job'[b].dig = rt /\ job'[b].pc = "module_cc"
        /\ job'[b].todo = job[b].todo
    BY <1>0, <1>1, <1>2, <2>1 DEF Types, Job, Busy
  <2>3. \A k \in Module : ToDo(b, k)' = ToDo(b, k)
    BY <2>2 DEF ToDo
  <2>4. File(Torn, now) \in Files(OData) /\ File(Torn, now).d = Torn /\ File(Torn, now).t = now /\ now \in Nat
    BY <1>1, FileTyped, TornTyped DEF Types
  <2>5. PICK o \in Files(OData) : o = File(Torn, now)
    BY <2>4
  <2>6. /\ o.t <= now /\ o.d \in {Torn, Compiled(job[b].prog, m, job[b].prof)}
        /\ ofile' = [ofile EXCEPT ![job[b].prog][Suffix[job[b].prof]][m] = o]
    BY <1>0, <2>1, <2>4, <2>5
  <2>7. UNCHANGED <<hfile, cfile, now, rt, rtHTime, tmp, src, shared, rtfile, exe>>
    BY <1>3 DEF sources
  <2>8. /\ job'[b].prog = job[b].prog /\ job'[b].prof = job[b].prof /\ job'[b].dig = rt
        /\ job'[b].pc \in {"modules", "module_cc"} /\ job'[b].todo # <<>>
        /\ \A k \in Module \ {m} : ToDo(b, k) => ToDo(b, k)'
    BY <1>0, <1>1, <2>2, <2>3
  <2>9. QED
    BY <1>1, <1>2, <2>2, <2>6, <2>7, <2>8, ObjectStep
<1>5. CASE ~NeedsCompile(b, m)
  <2>1. UNCHANGED ofile /\ job' = [job EXCEPT ![b].todo = Tail(@)]
    BY <1>0, <1>5 DEF ModuleStep
  <2>2. Tail(job[b].todo) \in Seq(Module)
    BY <1>1, <1>2
  <2>3. /\ job' \in [Builder -> Job \cup {Idle}]
        /\ \A a \in Builder \ {b} : job'[a] = job[a] /\ tmp'[a] = tmp[a]
        /\ job'[b].prog = p /\ job'[b].prof = job[b].prof /\ job'[b].dig = rt /\ job'[b].pc = "modules"
        /\ job'[b].todo = Tail(job[b].todo)
    BY <1>0, <1>1, <1>2, <1>3, <2>1, <2>2 DEF Types, Job, Busy
  <2>4. ~Newer(p, s, m)
    BY <1>0, <1>5 DEF NeedsCompile, Newer, Objects
  <2>5. Current(p, s, m)
    BY <1>2, <2>4 DEF Inv, StaleShows
  <2>6. \A k \in Module : ToDo(b, k) => k = m \/ ToDo(b, k)'
    <3> SUFFICES ASSUME NEW k \in Module, ToDo(b, k), k # m PROVE ToDo(b, k)'
      OBVIOUS
    <3>1. PICK i \in DOMAIN job[b].todo : job[b].todo[i] = k
      BY DEF ToDo
    <3>2. \E j \in DOMAIN Tail(job[b].todo) : Tail(job[b].todo)[j] = k
      BY <1>0, <1>1, <1>2, <3>1, TailKeeps
    <3>3. QED
      BY <2>3, <3>2 DEF ToDo
  <2>7. \A k \in Module : ToDo(b, k)' \/ Current(p, s, k)
    BY <1>0, <1>1, <2>5, <2>6 DEF Inv, PassedOver, Late
  <2>8. Types' /\ CacheHonest'
    BY <1>1, <1>3, <2>1, <2>3 DEF Types, CacheHonest, sources
  <2>9. QED
    BY <1>0, <1>1, <1>2, <1>3, <2>1, <2>3, <2>7, <2>8, Quiet DEF Inv, sources, Early, Late
<1>6. QED
    BY <1>0, <1>4, <1>5

(* The compiler of a module ends.                                            *)
LEMMA ModuleCompiledKeeps ==
  ASSUME Inv, NEW b \in Builder, ModuleCompiled(b)
  PROVE  Inv'
<1>0. PICK p, f, m, o : /\ p = job[b].prog /\ f = job[b].prof /\ m = Head(job[b].todo)
                        /\ o = File(Compiled(p, m, f), now)
    OBVIOUS
<1>1. Types /\ job[b].pc = "module_cc" /\ job[b].todo # <<>> /\ Publishing
    BY DEF Inv, ModuleCompiled, LinkComesLast, At
<1>2. /\ job[b] \in Job /\ Active(b) /\ job[b].pc \in Busy /\ job[b].dig = rt
      /\ p \in Program /\ f \in Profile /\ job[b].todo \in Seq(Module) /\ m \in Module
      /\ Tail(job[b].todo) \in Seq(Module)
    BY <1>0, <1>1, JobTyped DEF Publishing, Job
<1>3. /\ ofile' = [ofile EXCEPT ![p][Suffix[f]][m] = o]
      /\ job' = [job EXCEPT ![b].pc = "modules", ![b].relink = TRUE, ![b].todo = Tail(@)]
      /\ UNCHANGED <<sources, shared, hfile, cfile, rtfile, exe, tmp, now>>
    BY <1>0 DEF ModuleCompiled
<1>4. Compiled(p, m, f) \in OData
  <2>0. RtHeader[rt] \in RtHData
    BY <1>1 DEF Types, RtHData
  <2>1. cfile[p][m].d \in CData /\ [k \in Module |-> hfile[p][k].d] \in [Module -> HData]
    BY <1>1, <1>2 DEF Types, Files
  <2>2. QED
    BY <1>2, <2>0, <2>1 DEF Compiled, Inputs, OData
<1>5. o \in Files(OData) /\ o.d = Compiled(p, m, f) /\ o.t = now /\ now \in Nat
    BY <1>0, <1>1, <1>4, FileTyped DEF Types
<1>6. /\ job' \in [Builder -> Job \cup {Idle}]
      /\ \A a \in Builder \ {b} : job'[a] = job[a]
      /\ job'[b].prog = p /\ job'[b].prof = f /\ job'[b].dig = rt /\ job'[b].pc = "modules"
      /\ job'[b].todo = Tail(job[b].todo)
    BY <1>0, <1>1, <1>2, <1>3 DEF Types, Job, Busy
<1>7. \A k \in Module \ {m} : ToDo(b, k) => ToDo(b, k)'
  <2> SUFFICES ASSUME NEW k \in Module, ToDo(b, k), k # m PROVE ToDo(b, k)'
    OBVIOUS
  <2>1. PICK i \in DOMAIN job[b].todo : job[b].todo[i] = k
    BY DEF ToDo
  <2>2. \E j \in DOMAIN Tail(job[b].todo) : Tail(job[b].todo)[j] = k
    BY <1>0, <1>2, <2>1, TailKeeps
  <2>3. QED
    BY <1>6, <2>2 DEF ToDo
<1>8. /\ o.t <= now /\ o.d \in {Torn, Compiled(job[b].prog, m, job[b].prof)}
      /\ ofile' = [ofile EXCEPT ![job[b].prog][Suffix[job[b].prof]][m] = o]
    BY <1>0, <1>3, <1>5
<1>9. UNCHANGED <<hfile, cfile, now, rt, rtHTime, tmp, src, shared, rtfile, exe>>
    BY <1>3 DEF sources
<1>10. /\ job'[b].prog = job[b].prog /\ job'[b].prof = job[b].prof /\ job'[b].dig = rt
       /\ job'[b].pc = "modules"
    BY <1>0, <1>6
<1>11. QED
    BY <1>1, <1>2, <1>5, <1>6, <1>7, <1>8, <1>9, <1>10, ObjectStep

(* A compiler fails, or the rename does.                                     *)
LEMMA FailsKeeps ==
  ASSUME Inv, NEW b \in Builder, Fails(b)
  PROVE  Inv'
<1>1. Types /\ job[b].pc # "idle" /\ (job[b].pc = "module_cc" => job[b].todo # <<>>)
    BY DEF Inv, Fails, LinkComesLast, At
<1>2. job[b] \in Job /\ Active(b) /\ job[b].prog \in Program /\ job[b].prof \in Profile
    BY <1>1, JobTyped DEF Job
<1>3. /\ job' = [job EXCEPT ![b] = Idle]
      /\ UNCHANGED <<sources, shared, hfile, cfile, exe, now>>
      /\ tmp' \in [Builder -> RtData] /\ \A a \in Builder \ {b} : tmp'[a] = tmp[a]
    BY <1>1 DEF Fails, Types, RtData
<1>4. job' \in [Builder -> Job \cup {Idle}] /\ job'[b] = Idle /\ \A a \in Builder \ {b} : job'[a] = job[a]
    BY <1>1, <1>3 DEF Types
<1>5. CASE job[b].pc = "module_cc"
  <2>1. PICK m, o : m = Head(job[b].todo) /\ o = NoFile
    OBVIOUS
  <2>2. m \in Module /\ o \in Files(OData) /\ o.d = Torn /\ o.t = -1 /\ now \in Nat
    BY <1>1, <1>2, <1>5, <2>1, NoFileTyped, TornTyped DEF Job, Types
  <2>3. ofile' = [ofile EXCEPT ![job[b].prog][Suffix[job[b].prof]][m] = o] /\ rtfile' = rtfile /\ tmp' = tmp
    BY <1>1, <1>5, <2>1 DEF Fails, At, Types
  <2>4. UNCHANGED <<hfile, cfile, now, rt, rtHTime, tmp, src, shared, rtfile, exe>>
    BY <1>3, <2>3 DEF sources
  <2>5. o.t <= now /\ o.d \in {Torn, Compiled(job[b].prog, m, job[b].prof)}
    BY <2>2
  <2>6. QED
    BY <1>4, <1>5, <2>2, <2>3, <2>4, <2>5, ObjectStep
<1>6. CASE job[b].pc # "module_cc"
  <2>1. ofile' = ofile
    BY <1>6 DEF Fails, At
  <2>2. NoFile \in Files(RtData)
    BY NoFileTyped, TornTyped
  <2>3. rtfile' = rtfile \/ rtfile' = [rtfile EXCEPT ![job[b].prog][job[b].prof] = NoFile]
    BY DEF Fails
  <2>4. rtfile' \in [Program -> [Profile -> Files(RtData)]]
    <3>1. rtfile \in [Program -> [Profile -> Files(RtData)]]
      BY <1>1 DEF Types
    <3>2. QED
      BY <1>2, <2>2, <2>3, <3>1
  <2>5. Types'
    BY <1>1, <1>3, <1>4, <2>1, <2>4 DEF Types, sources
  <2>6. QED
    BY <1>2, <1>3, <2>1, <2>5, StopKeeps DEF sources
<1>7. QED
    BY <1>5, <1>6

(* The generated files of one module are written.                            *)
LEMMA EmitKeeps ==
  ASSUME Inv, NEW b \in Builder, Emit(b)
  PROVE  Inv'
<1>0. PICK p, m, mo : p = job[b].prog /\ m = Head(job[b].todo) /\ mo = Mode[job[b].prof]
    OBVIOUS
<1>1. Types /\ CacheHonest /\ job[b].pc = "emit" /\ job[b].todo # <<>> /\ Publishing
    BY DEF Inv, Emit, At
<1>2. /\ job[b] \in Job /\ Active(b) /\ job[b].pc \in Busy /\ job[b].dig = rt
      /\ p \in Program /\ job[b].todo \in Seq(Module) /\ m \in Module
      /\ Tail(job[b].todo) \in Seq(Module)
    BY <1>0, <1>1, JobTyped DEF Publishing, Job
<1>3. PICK h, c : h = Written(hfile[p][m], src[p][m].h[mo]) /\ c = Written(cfile[p][m], src[p][m].c[mo])
    OBVIOUS
<1>4. PICK changed \in BOOLEAN :
      /\ hfile' = [hfile EXCEPT ![p][m] = h] /\ cfile' = [cfile EXCEPT ![p][m] = c]
      /\ job' = [job EXCEPT ![b].todo = Tail(@), ![b].dirty = @ \/ changed]
    BY <1>0, <1>3 DEF Emit
<1>5. UNCHANGED <<sources, shared, ofile, rtfile, exe, tmp, now>>
    BY DEF Emit
<1>6. /\ job' \in [Builder -> Job \cup {Idle}]
      /\ \A a \in Builder \ {b} : job'[a] = job[a]
      /\ job'[b].prog = job[b].prog /\ job'[b].dig = rt /\ job'[b].pc = "emit"
    BY <1>1, <1>2, <1>4 DEF Types, Job
<1>7. /\ now \in Nat /\ src[p][m].h[mo] \in HData /\ src[p][m].c[mo] \in CData
      /\ hfile[p][m] \in Files(HData) /\ cfile[p][m] \in Files(CData)
      /\ hfile[p][m].t <= now /\ cfile[p][m].t <= now
    BY <1>0, <1>1, <1>2, TextData DEF Types, Inv, Behind, Job
<1>8. /\ h \in Files(HData) /\ (h = hfile[p][m] \/ h.t = now) /\ h.t <= now /\ h.t >= hfile[p][m].t
      /\ c \in Files(CData) /\ (c = cfile[p][m] \/ c.t = now) /\ c.t <= now /\ c.t >= cfile[p][m].t
    BY <1>3, <1>7, WrittenFact
<1>9. /\ hfile' \in [Program -> [Module -> Files(HData)]] /\ cfile' \in [Program -> [Module -> Files(CData)]]
      /\ hfile'[p][m] = h /\ cfile'[p][m] = c
      /\ \A q \in Program, k \in Module :
             q # p \/ k # m => hfile'[q][k] = hfile[q][k] /\ cfile'[q][k] = cfile[q][k]
    BY <1>1, <1>2, <1>4, <1>8 DEF Types
<1>10. Types' /\ CacheHonest'
    BY <1>1, <1>5, <1>6, <1>9 DEF Types, CacheHonest, sources
<1>11. Behind'
  <2>1. rtHTime' = rtHTime /\ ofile' = ofile /\ now' = now
    BY <1>5 DEF sources
  <2>2. ASSUME NEW q \in Program, NEW k \in Module
        PROVE  hfile'[q][k].t <= now /\ cfile'[q][k].t <= now
    BY <1>8, <1>9 DEF Inv, Behind
  <2>3. QED
    BY <2>1, <2>2 DEF Inv, Behind
<1>12. OneBuildEach'
    BY <1>2, <1>6 DEF Inv, OneBuildEach, Active
<1>13. Publishing' /\ LinkComesLast'
    BY <1>5, <1>6 DEF Inv, Publishing, LinkComesLast, At, sources
<1>14. OlderWhileEmitting'
    BY <1>1, <1>5, <1>6 DEF Inv, OlderWhileEmitting, Early
<1>15. \A q \in Program \ {p}, s \in Suffixes, k \in Module :
           Current(q, s, k)' = Current(q, s, k) /\ Newer(q, s, k)' = Newer(q, s, k)
  <2> SUFFICES ASSUME NEW q \in Program \ {p}, NEW s \in Suffixes, NEW k \in Module
               PROVE  Current(q, s, k)' = Current(q, s, k) /\ Newer(q, s, k)' = Newer(q, s, k)
    OBVIOUS
  <2>1. /\ \A j \in Module : hfile'[q][j] = hfile[q][j] /\ cfile'[q][j] = cfile[q][j]
        /\ ofile' = ofile /\ rt' = rt /\ rtHTime' = rtHTime
    BY <1>2, <1>5, <1>9 DEF sources
  <2>2. \A f : Compiled(q, k, f)' = Compiled(q, k, f)
    BY <2>1 DEF Compiled, Inputs
  <2>3. Current(q, s, k)' = Current(q, s, k)
    BY <2>1, <2>2 DEF Current
  <2>4. Newer(q, s, k)' = Newer(q, s, k)
    BY <2>1 DEF Newer
  <2>5. QED
    BY <2>3, <2>4
<1>16. \A f \in Suffixes, k \in Module : Current(p, f, k)' \/ Newer(p, f, k)'
  <2> SUFFICES ASSUME NEW f \in Suffixes, NEW k \in Module, ~Newer(p, f, k)'
               PROVE  Current(p, f, k)'
    OBVIOUS
  <2>1. /\ ofile'[p][f][k] = ofile[p][f][k] /\ ofile[p][f][k].t < now
        /\ ofile[p][f][k].t \in Int
    <3>1. ofile[p][f][k] \in Files(OData)
      BY <1>1, <1>2 DEF Types
    <3>2. ofile[p][f][k].t < now
      BY <1>0, <1>1 DEF Inv, OlderWhileEmitting, Early
    <3>3. QED
      BY <1>5, <3>1, <3>2 DEF Files
  <2>2. hfile'[p][m].t <= ofile[p][f][k].t
    BY <1>2, <1>8, <1>9, <1>7, <2>1 DEF Newer, Files
  <2>3. h = hfile[p][m]
    BY <1>7, <1>8, <1>9, <2>1, <2>2
  <2>4. \A j \in Module : hfile'[p][j] = hfile[p][j]
    BY <1>2, <1>9, <2>3
  <2>5. ~Newer(p, f, k)
    <3>1. cfile[p][k].t <= cfile'[p][k].t /\ cfile[p][k].t \in Int /\ cfile'[p][k].t \in Int
      <4>1. cfile[p][k] \in Files(CData) /\ cfile'[p][k] \in Files(CData)
        BY <1>1, <1>2, <1>9 DEF Types
      <4>2. cfile[p][k].t \in Int /\ cfile'[p][k].t \in Int
        BY <4>1 DEF Files
      <4>3. CASE k = m
        BY <1>8, <1>9, <4>2, <4>3
      <4>4. CASE k # m
        BY <1>2, <1>9, <4>2, <4>4
      <4>5. QED
        BY <4>2, <4>3, <4>4
    <3>2. QED
      BY <1>5, <2>1, <2>4, <3>1 DEF Newer, sources
  <2>6. cfile'[p][k] = cfile[p][k]
    <3>1. CASE k = m
      <4>1. c.t <= ofile[p][f][k].t
        BY <1>8, <1>9, <1>7, <2>1, <3>1 DEF Newer, Files
      <4>2. QED
        BY <1>7, <1>8, <1>9, <2>1, <3>1, <4>1
    <3>2. CASE k # m
      BY <1>2, <1>9, <3>2
    <3>3. QED
      BY <3>1, <3>2
  <2>7. Current(p, f, k)
    BY <1>2, <2>5 DEF Inv, StaleShows
  <2>8. \A g : Compiled(p, k, g)' = Compiled(p, k, g)
    BY <1>5, <2>4, <2>6 DEF Compiled, Inputs, sources
  <2>9. QED
    BY <2>1, <2>7, <2>8 DEF Current
<1>17. StaleShows'
    BY <1>15, <1>16 DEF Inv, StaleShows
<1>18. PassedOver'
  <2> SUFFICES ASSUME NEW a \in Builder, job'[a].pc \in Late, NEW k \in Module
               PROVE  ToDo(a, k)' \/ Current(job[a].prog, Suffix[job[a].prof], k)'
    BY DEF PassedOver
  <2>1. a # b /\ job'[a] = job[a]
    BY <1>6 DEF Late
  <2>2. Active(a) /\ job[a].pc # "idle"
    BY <2>1 DEF Late, Active
  <2>3. PICK q, g : q = job[a].prog /\ g = Suffix[job[a].prof]
    OBVIOUS
  <2>4. q \in Program \ {p} /\ g \in Suffixes
    BY <1>0, <1>1, <1>2, <2>1, <2>2, <2>3, JobTyped, SuffixTyped DEF Inv, OneBuildEach, Job
  <2>5. ToDo(a, k) \/ Current(q, g, k)
    BY <2>1, <2>3 DEF Inv, PassedOver
  <2>6. ToDo(a, k)' \/ Current(q, g, k)'
    BY <1>15, <2>1, <2>4, <2>5 DEF ToDo
  <2>7. QED
    BY <2>1, <2>3, <2>6 DEF Current, Compiled, Inputs
<1>19. QED
    BY <1>10, <1>11, <1>12, <1>13, <1>14, <1>17, <1>18 DEF Inv

-----------------------------------------------------------------------------
(* The user: builds are started and sources edited.                          *)

(* A build starts, with an empty cache if it is asked for one.               *)
LEMMA StartKeeps ==
  ASSUME Inv, NEW b \in Builder, NEW x \in Command, Start(b, x)
  PROVE  Inv'
<1>1. /\ Types /\ CacheHonest /\ job[b].pc = "idle" /\ now' = now + 1 /\ now \in Nat
      /\ x.prog \in Program /\ x.prof \in Profile /\ x.clean \in BOOLEAN /\ x.share \in BOOLEAN
      /\ \A a \in Builder : Active(a) => job[a].prog # x.prog
    BY CommandsTyped DEF Inv, Start, At, Types
<1>2. PICK j : j = [pc |-> "runtime", prog |-> x.prog, prof |-> x.prof, clean |-> x.clean,
                   share |-> x.share, dig |-> rt, relink |-> FALSE, dirty |-> FALSE,
                   todo |-> Order]
    OBVIOUS
<1>3. j \in Job
    BY <1>1, <1>2, OrderListsModules DEF Job, Busy, Types
<1>4. job' = [job EXCEPT ![b] = j] /\ UNCHANGED <<sources, shared, tmp>>
    BY <1>2 DEF Start
<1>5. /\ job' \in [Builder -> Job \cup {Idle}] /\ job'[b] = j
      /\ \A a \in Builder \ {b} : job'[a] = job[a]
    BY <1>1, <1>3, <1>4 DEF Types
<1>6. /\ NoFile \in Files(HData) /\ NoFile \in Files(CData) /\ NoFile \in Files(OData)
      /\ NoFile \in Files(RtData) /\ NoFile \in Files(EData) /\ NoFile.t = -1 /\ NoFile.d = Torn
    BY NoFileTyped, TornTyped
<1>7. /\ hfile' \in [Program -> [Module -> Files(HData)]] /\ cfile' \in [Program -> [Module -> Files(CData)]]
      /\ ofile' \in [Program -> [Suffixes -> [Module -> Files(OData)]]]
      /\ rtfile' \in [Program -> [Profile -> Files(RtData)]]
      /\ exe' \in [Program -> Files(EData)]
  <2>1. CASE x.clean
    <3>1. Clear(x.prog)
      BY <2>1 DEF Start
    <3>2. /\ [m \in Module |-> NoFile] \in [Module -> Files(HData)]
          /\ [m \in Module |-> NoFile] \in [Module -> Files(CData)]
          /\ [s \in Suffixes |-> [m \in Module |-> NoFile]] \in [Suffixes -> [Module -> Files(OData)]]
          /\ [f \in Profile |-> NoFile] \in [Profile -> Files(RtData)]
      BY <1>6
    <3>3. /\ hfile \in [Program -> [Module -> Files(HData)]] /\ cfile \in [Program -> [Module -> Files(CData)]]
          /\ ofile \in [Program -> [Suffixes -> [Module -> Files(OData)]]]
          /\ rtfile \in [Program -> [Profile -> Files(RtData)]]
          /\ exe \in [Program -> Files(EData)]
      BY <1>1 DEF Types
    <3>4. QED
      BY <1>6, <3>1, <3>2, <3>3, ExceptTyped DEF Clear
  <2>2. CASE ~x.clean
    BY <1>1, <2>2 DEF Start, files, Types
  <2>3. QED
    BY <2>1, <2>2
<1>8. Types' /\ CacheHonest'
    BY <1>1, <1>4, <1>5, <1>7 DEF Types, CacheHonest, sources
<1>9. \/ UNCHANGED <<hfile, cfile, ofile>>
      \/ /\ \A s \in Suffixes, m \in Module : ofile'[x.prog][s][m] = NoFile
         /\ \A m \in Module : hfile'[x.prog][m] = NoFile /\ cfile'[x.prog][m] = NoFile
         /\ \A q \in Program \ {x.prog} :
                ofile'[q] = ofile[q] /\ hfile'[q] = hfile[q] /\ cfile'[q] = cfile[q]
    BY <1>1 DEF Start, Clear, files, Types
<1>10. \A q \in Program \ {x.prog}, s \in Suffixes, m \in Module :
           Current(q, s, m)' = Current(q, s, m) /\ Newer(q, s, m)' = Newer(q, s, m)
  <2> SUFFICES ASSUME NEW q \in Program \ {x.prog}, NEW s \in Suffixes, NEW m \in Module
               PROVE  Current(q, s, m)' = Current(q, s, m) /\ Newer(q, s, m)' = Newer(q, s, m)
    OBVIOUS
  <2>1. /\ ofile'[q] = ofile[q] /\ hfile'[q] = hfile[q] /\ cfile'[q] = cfile[q]
        /\ rt' = rt /\ rtHTime' = rtHTime
    BY <1>4, <1>9 DEF sources
  <2>2. \A f : Compiled(q, m, f)' = Compiled(q, m, f)
    BY <2>1 DEF Compiled, Inputs
  <2>3. QED
    BY <2>1, <2>2 DEF Current, Newer
<1>11. \A s \in Suffixes, m \in Module :
           Current(x.prog, s, m)' \/ (Current(x.prog, s, m)' = Current(x.prog, s, m)
                                      /\ Newer(x.prog, s, m)' = Newer(x.prog, s, m))
  <2>1. CASE UNCHANGED <<hfile, cfile, ofile>>
    <3>1. UNCHANGED <<hfile, cfile, rt>> /\ rtHTime' = rtHTime /\ ofile' = ofile
      BY <1>4, <2>1 DEF sources
    <3>2. QED
      BY <3>1, SameFiles DEF Current, Newer
  <2>2. CASE \A s \in Suffixes, m \in Module : ofile'[x.prog][s][m] = NoFile
    BY <1>6, <2>2 DEF Current
  <2>3. QED
    BY <1>9, <2>1, <2>2
<1>12. StaleShows'
    BY <1>10, <1>11 DEF Inv, StaleShows
<1>13. /\ \A p \in Program, s \in Suffixes, m \in Module : ofile'[p][s][m].t <= now /\ ofile'[p][s][m].t \in Int
       /\ rtHTime' <= now /\ rtHTime' \in Int
       /\ \A p \in Program, m \in Module :
              /\ hfile'[p][m].t <= now /\ cfile'[p][m].t <= now
              /\ hfile'[p][m].t \in Int /\ cfile'[p][m].t \in Int
  <2>1. \A p \in Program, s \in Suffixes, m \in Module : ofile'[p][s][m].t \in Int
    BY <1>7 DEF Files
  <2>2. \A p \in Program, m \in Module : hfile'[p][m].t \in Int /\ cfile'[p][m].t \in Int
    BY <1>7 DEF Files
  <2>3. rtHTime' = rtHTime /\ rtHTime \in Nat /\ Behind
    BY <1>1, <1>4 DEF Inv, sources, Types
  <2>4. \A p \in Program, s \in Suffixes, m \in Module : ofile'[p][s][m].t <= now
    BY <1>1, <1>6, <1>9, <2>3 DEF Behind
  <2>5. \A p \in Program, m \in Module : hfile'[p][m].t <= now /\ cfile'[p][m].t <= now
    BY <1>1, <1>6, <1>9, <2>3 DEF Behind
  <2>6. QED
    BY <2>1, <2>2, <2>3, <2>4, <2>5 DEF Behind
<1>14. Behind'
    BY <1>1, <1>13 DEF Behind
<1>15. OlderWhileEmitting'
  <2> SUFFICES ASSUME NEW a \in Builder, job'[a].pc \in Early, NEW g \in Suffixes, NEW k \in Module
               PROVE  ofile'[job'[a].prog][g][k].t < now'
    BY DEF OlderWhileEmitting
  <2>1. job'[a] \in Job
    BY <1>5, IdleFact DEF Early, Busy
  <2>2. QED
    BY <1>1, <1>13, <2>1 DEF Job
<1>16. OneBuildEach'
    BY <1>1, <1>2, <1>5 DEF Inv, OneBuildEach, Active
<1>17. Publishing' /\ LinkComesLast'
    BY <1>2, <1>4, <1>5 DEF Inv, Publishing, LinkComesLast, At, sources
<1>18. PassedOver'
  <2> SUFFICES ASSUME NEW a \in Builder, job'[a].pc \in Late, NEW k \in Module
               PROVE  ToDo(a, k)' \/ Current(job[a].prog, Suffix[job[a].prof], k)'
    BY DEF PassedOver
  <2>1. a # b /\ job'[a] = job[a]
    BY <1>2, <1>5 DEF Late
  <2>2. Active(a) /\ job[a].pc # "idle"
    BY <2>1 DEF Late, Active
  <2>3. PICK q, g : q = job[a].prog /\ g = Suffix[job[a].prof]
    OBVIOUS
  <2>4. q \in Program \ {x.prog} /\ g \in Suffixes
    BY <1>1, <2>1, <2>2, <2>3, JobTyped, SuffixTyped DEF Job
  <2>5. ToDo(a, k) \/ Current(q, g, k)
    BY <2>1, <2>3 DEF Inv, PassedOver
  <2>6. ToDo(a, k)' \/ Current(q, g, k)'
    BY <1>10, <2>1, <2>4, <2>5 DEF ToDo
  <2>7. QED
    BY <2>1, <2>3, <2>6 DEF Current, Compiled, Inputs
<1>19. QED
    BY <1>8, <1>12, <1>14, <1>15, <1>16, <1>17, <1>18 DEF Inv

(* The sources are edited: no build is running.                              *)
LEMMA EditKeeps ==
  ASSUME Inv, \A b \in Builder : ~Active(b), Types', now' = now + 1,
         UNCHANGED <<shared, hfile, cfile, ofile, job, tmp>>,
         \/ rtHTime' = now'
         \/ RtHeader[rt'] = RtHeader[rt] /\ rtHTime' = rtHTime
  PROVE  Inv'
<1>1. \A b \in Builder : job[b].pc = "idle"
    BY DEF Active
<1>2. OneBuildEach' /\ Publishing' /\ OlderWhileEmitting' /\ PassedOver' /\ LinkComesLast'
    BY <1>1 DEF OneBuildEach, Publishing, OlderWhileEmitting, PassedOver, LinkComesLast,
                At, Active, Busy, Early, Late
<1>3. ASSUME RtHeader[rt'] = RtHeader[rt] /\ rtHTime' = rtHTime PROVE StaleShows'
  <2>1. \A p, m, f : Compiled(p, m, f)' = Compiled(p, m, f)
    BY <1>3 DEF Compiled, Inputs
  <2>2. \A p, s, m : Current(p, s, m)' = Current(p, s, m) /\ Newer(p, s, m)' = Newer(p, s, m)
    BY <1>3, <2>1 DEF Current, Newer
  <2>3. StaleShows'
    BY <2>2 DEF Inv, StaleShows
  <2>4. QED
    BY <2>3
<1>5. \A p \in Program, s \in Suffixes, m \in Module : ofile[p][s][m].t \in Int
    BY DEF Inv, Types, Files
<1>9. ASSUME rtHTime' = now' PROVE StaleShows'
  <2>0. now \in Nat /\ \A p \in Program, s \in Suffixes, m \in Module : ofile[p][s][m].t <= now
    BY DEF Inv, Behind, Types
  <2>1. \A p \in Program, s \in Suffixes, m \in Module : ofile'[p][s][m].t < now'
    BY <1>5, <2>0
  <2>2. QED
    BY <1>9, <2>1 DEF StaleShows, Newer
<1>4. StaleShows' /\ CacheHonest'
    BY <1>3, <1>9 DEF Inv, CacheHonest
<1>6. \A p \in Program, m \in Module : hfile[p][m].t \in Int /\ cfile[p][m].t \in Int
  <2>1. \A p \in Program, m \in Module : hfile[p][m] \in Files(HData) /\ cfile[p][m] \in Files(CData)
    BY DEF Inv, Types
  <2>2. QED
    BY <2>1 DEF Files
<1>7. Behind'
  <2>1. now \in Nat /\ Behind /\ rtHTime \in Nat
    BY DEF Inv, Types
  <2>2. rtHTime' <= now'
    BY <2>1 DEF Behind
  <2>3. \A p \in Program, s \in Suffixes, m \in Module : ofile'[p][s][m].t <= now'
    BY <1>5, <2>1 DEF Behind
  <2>4. \A p \in Program, m \in Module : hfile'[p][m].t <= now' /\ cfile'[p][m].t <= now'
    BY <1>6, <2>1 DEF Behind
  <2>5. QED
    BY <2>2, <2>3, <2>4 DEF Behind
<1>8. QED
    BY <1>2, <1>4, <1>7 DEF Inv

(* Every step keeps the invariant.                                           *)
LEMMA NextInv == Inv /\ [Next]_vars => Inv'
<1> SUFFICES ASSUME Inv, [Next]_vars PROVE Inv'
    OBVIOUS
<1>1. CASE \E b \in Builder : Step(b)
    BY <1>1, SharedLookupKeeps, SharedCompiledKeeps, PublishKeeps, LocalRuntimeKeeps,
       LocalCompiledKeeps, EmitKeeps, EmitDoneKeeps, ModuleStepKeeps, ModuleCompiledKeeps,
       LinkStepKeeps, LinkedKeeps, EndKeeps DEF Step
<1>2. CASE \E b \in Builder : Kill(b) \/ Fails(b)
    BY <1>2, EndKeeps, FailsKeeps
<1>3. CASE \E b \in Builder : \E x \in Command : Start(b, x)
    BY <1>3, StartKeeps
<1>4. CASE \E v \in RtVersion : EditRuntime(v)
  <2>1. PICK v \in RtVersion : EditRuntime(v)
    BY <1>4
  <2>2. Types'
    BY <2>1 DEF EditRuntime, Inv, Types, files
  <2>3. QED
    BY <2>1, <2>2, EditKeeps DEF EditRuntime, files
<1>5. CASE \E p \in Program, m \in Module : \E x \in Text[m] : EditModule(p, m, x)
  <2>0. PICK p \in Program, m \in Module : \E x \in Text[m] : EditModule(p, m, x)
    BY <1>5
  <2>1. PICK x \in Text[m] : EditModule(p, m, x)
    BY <2>0
  <2>2. Types'
    BY <2>1 DEF EditModule, Inv, Types, files
  <2>3. QED
    BY <2>1, <2>2, EditKeeps DEF EditModule, files
<1>6. CASE UNCHANGED vars
  <2>1. UNCHANGED <<rt, rtHTime, src, shared, hfile, cfile, ofile, rtfile, exe, job, tmp, now>>
    BY <1>6 DEF vars, sources, files
  <2>2. Types' /\ OneBuildEach' /\ Publishing' /\ CacheHonest'
    BY <2>1 DEF Inv, Types, OneBuildEach, Publishing, CacheHonest, At, Active
  <2>3. Behind' /\ OlderWhileEmitting' /\ LinkComesLast'
    BY <2>1 DEF Inv, Behind, OlderWhileEmitting, LinkComesLast, At
  <2>4. \A p, s, m : Current(p, s, m)' = Current(p, s, m) /\ Newer(p, s, m)' = Newer(p, s, m)
    BY <2>1, SameFiles
  <2>5. StaleShows'
    BY <2>4 DEF Inv, StaleShows
  <2>6. PassedOver'
    BY <2>1 DEF Inv, PassedOver, Current, Compiled, Inputs, ToDo
  <2>7. QED
    BY <2>2, <2>3, <2>5, <2>6 DEF Inv
<1>7. QED
    BY <1>1, <1>2, <1>3, <1>4, <1>5, <1>6 DEF Next

-----------------------------------------------------------------------------
(* For any builders, programs, profiles, edits and kills: an object of the   *)
(* shared cache is whole and is the one its key names (cached_object).       *)
THEOREM SharedObjectsHonest == Spec => []CacheHonest
<1>1. Inv => CacheHonest
    BY DEF Inv
<1>2. QED
    BY InitInv, NextInv, <1>1, PTL DEF Spec

(* No object that is not that of the generated C and headers on disk reaches *)
(* the link unnoticed: write_if_changed and the modification times are       *)
(* enough, whatever was killed before and whichever profile was built.       *)
THEOREM NoStaleObjectLinked == Spec => []ObjectsCurrent
<1>1. Inv => ObjectsCurrent
  <2> SUFFICES ASSUME Inv, NEW b \in Builder,
                      At(b, "link") \/ (At(b, "modules") /\ job[b].todo = <<>>), NEW m \in Module
               PROVE  \/ Objects(b)[m].d = Torn
                      \/ \E f \in Profile : /\ Suffix[f] = Suffix[job[b].prof]
                                            /\ Objects(b)[m].d = Compiled(job[b].prog, m, f)
    BY DEF ObjectsCurrent
  <2>1. job[b].todo = <<>> /\ job[b].pc \in Late
    BY DEF Inv, LinkComesLast, At, Late
  <2>2. QED
    BY <2>1 DEF Inv, PassedOver, ToDo, Current, Objects
<1>2. QED
    BY InitInv, NextInv, <1>1, PTL DEF Spec

-----------------------------------------------------------------------------
(* --clean gives the program of the sources, whatever ran or was killed      *)
(* before. The invariant follows one build: what it has emitted is what the  *)
(* sources yield, the runtime's object is in place from emission on, and a   *)
(* build with --clean finds no executable and so cannot skip its link. With  *)
(* NoStaleObjectLinked the link line is then current, object by object.      *)
(* Other builds work on other programs, and the cache they share only grows. *)

Generated(p, m, e) == hfile[p][m].d = src[p][m].h[e] /\ cfile[p][m].d = src[p][m].c[e]
Emitting == {"emit"} \cup Late
Unlinked == Early \cup {"modules", "module_cc"}

\* The runtime's object that b will link is that of the sources.
RuntimeReady(b) ==
    /\ job[b].pc \in {"shared_cc", "publish"} => job[b].share
    /\ job[b].pc = "local_cc" => ~job[b].share
    /\ job[b].pc \in Emitting /\ job[b].share => shared[<<rt, job[b].prof>>] # None
    /\ job[b].pc = "runtime" /\ job[b].clean => rtfile[job[b].prog][job[b].prof] = NoFile
    /\ job[b].pc \in Emitting /\ job[b].clean /\ ~job[b].share =>
           rtfile[job[b].prog][job[b].prof].d = <<rt, job[b].prof>>

\* What b has emitted is what the sources yield.
EmittedSources(b) ==
    /\ job[b].pc \in Early \ {"emit"} => job[b].todo = Order
    /\ job[b].pc = "emit" => \A m \in Module : ToDo(b, m) \/ Generated(job[b].prog, m, Mode[job[b].prof])
    /\ job[b].pc \in Late => \A m \in Module : Generated(job[b].prog, m, Mode[job[b].prof])

\* A build with --clean has no executable until it links the right one.
LinksAfresh(b) ==
    /\ job[b].pc \in Unlinked /\ job[b].clean => exe[job[b].prog] = NoFile
    /\ job[b].pc = "done" /\ job[b].clean =>
           exe[job[b].prog].d = Fresh(job[b].prog, job[b].prof)

\* A step leaves the files of the program that a builds alone.
Kept(a) ==
    job[a].pc \in Busy =>
        /\ hfile'[job[a].prog] = hfile[job[a].prog] /\ cfile'[job[a].prog] = cfile[job[a].prog]
        /\ rtfile'[job[a].prog] = rtfile[job[a].prog] /\ exe'[job[a].prog] = exe[job[a].prog]

OnCourse(b) == RuntimeReady(b) /\ EmittedSources(b) /\ LinksAfresh(b)
CleanInv == \A b \in Builder : OnCourse(b)

(* The first state: nobody builds.                                           *)
LEMMA InitClean == Init => CleanInv
<1> SUFFICES ASSUME Init, NEW b \in Builder PROVE OnCourse(b)
    BY DEF CleanInv
<1>1. job[b].pc = "idle"
    BY IdleFact DEF Init
<1>2. QED
    BY <1>1 DEF OnCourse, RuntimeReady, EmittedSources, LinksAfresh, Emitting, Unlinked, Early, Late

(* A build whose files and record are left alone stays on course, when the   *)
(* sources do not change and the shared cache only grows.                    *)
LEMMA LeftAlone ==
  ASSUME Inv, NEW a \in Builder, OnCourse(a), job'[a] = job[a],
         rt' = rt, src' = src, Kept(a),
         \A k \in Key : shared[k] # None => shared'[k] # None
  PROVE  OnCourse(a)'
<1>1. CASE job[a].pc \notin Busy
    BY <1>1 DEF OnCourse, RuntimeReady, EmittedSources, LinksAfresh, Emitting, Unlinked, Early, Late, Busy
<1>2. CASE job[a].pc \in Busy
  <2>1. job[a] \in Job /\ rt \in RtVersion
    BY <1>2, JobTyped, IdleFact DEF Inv, Types
  <2>2. <<rt, job[a].prof>> \in Key
    BY <2>1 DEF Key, Job
  <2>3. /\ hfile'[job[a].prog] = hfile[job[a].prog] /\ cfile'[job[a].prog] = cfile[job[a].prog]
        /\ rtfile'[job[a].prog] = rtfile[job[a].prog] /\ exe'[job[a].prog] = exe[job[a].prog]
    BY <1>2 DEF Kept
  <2>4. RuntimeReady(a)'
    BY <2>2, <2>3 DEF OnCourse, RuntimeReady
  <2>5. EmittedSources(a)'
    BY <2>3 DEF OnCourse, EmittedSources, ToDo, Generated
  <2>6. LinksAfresh(a)'
    BY <2>3 DEF OnCourse, LinksAfresh, Fresh, FreshInputs
  <2>7. QED
    BY <2>4, <2>5, <2>6 DEF OnCourse
<1>3. QED
    BY <1>1, <1>2

(* A builder that stops is on course for nothing.                            *)
LEMMA IdleOnCourse ==
  ASSUME NEW b, job'[b] = Idle
  PROVE  OnCourse(b)'
<1>1. job'[b].pc = "idle"
    BY IdleFact
<1>2. QED
    BY <1>1 DEF OnCourse, RuntimeReady, EmittedSources, LinksAfresh, Emitting, Unlinked, Early, Late

(* A step of one build that changes the files of its own program only leaves *)
(* the others alone.                                                         *)
LEMMA OthersOnCourse ==
  ASSUME Inv, CleanInv, NEW b \in Builder, job[b].pc \in Busy,
         \A a \in Builder \ {b} : job'[a] = job[a],
         rt' = rt, src' = src,
         \A p \in Program \ {job[b].prog} :
             /\ hfile'[p] = hfile[p] /\ cfile'[p] = cfile[p]
             /\ rtfile'[p] = rtfile[p] /\ exe'[p] = exe[p],
         \A k \in Key : shared[k] # None => shared'[k] # None
  PROVE  \A a \in Builder \ {b} : OnCourse(a)'
<1> SUFFICES ASSUME NEW a \in Builder \ {b} PROVE OnCourse(a)'
    OBVIOUS
<1>1. Kept(a)
  <2> SUFFICES ASSUME job[a].pc \in Busy
               PROVE  /\ hfile'[job[a].prog] = hfile[job[a].prog] /\ cfile'[job[a].prog] = cfile[job[a].prog]
                      /\ rtfile'[job[a].prog] = rtfile[job[a].prog] /\ exe'[job[a].prog] = exe[job[a].prog]
    BY DEF Kept
  <2>1. job[a] \in Job /\ Active(a) /\ Active(b)
    BY JobTyped, IdleFact DEF Inv, Busy
  <2>2. job[a].prog \in Program \ {job[b].prog}
    BY <2>1 DEF Inv, OneBuildEach, Job
  <2>3. QED
    BY <2>2
<1>2. QED
    BY <1>1, LeftAlone DEF CleanInv

-----------------------------------------------------------------------------
(* The steps of a build.                                                     *)

(* A build whose record is b's, but for the place, the digest and the list.  *)
SameBuild(b) ==
    /\ job'[b].prog = job[b].prog /\ job'[b].prof = job[b].prof
    /\ job'[b].clean = job[b].clean /\ job'[b].share = job[b].share
OthersSame(b) == \A a \in Builder \ {b} : job'[a] = job[a]

(* Entering the emission: the list is whole, so nothing need be emitted yet. *)
LEMMA WholeList ==
  ASSUME NEW b, job'[b].todo = Order
  PROVE  \A m \in Module : ToDo(b, m)'
    BY OrderListsModules DEF ToDo

-----------------------------------------------------------------------------
(* Two profiles may share the names of their objects. The objects of a build *)
(* with --clean are all the same its own: torn, or compiled for its profile. *)

Building == Unlinked \cup {"link"}
Own(o, f) == o.d = Torn \/ \E i : o.d = <<i, f>>
OwnObjects(b) ==
    job[b].pc \in Building /\ job[b].clean =>
        \A m \in Module : Own(Objects(b)[m], job[b].prof)
OwnInv == \A b \in Builder : OwnObjects(b)

(* Nobody builds at first.                                                   *)
LEMMA InitOwn == Init => OwnInv
    BY IdleFact DEF Init, OwnInv, OwnObjects, Building, Unlinked, Early

(* A builder whose record and program are left alone keeps its objects.      *)
LEMMA OwnAlone ==
  ASSUME OwnInv, NEW a \in Builder, job'[a] = job[a],
         job[a].pc \in Building => ofile'[job[a].prog] = ofile[job[a].prog]
  PROVE  OwnObjects(a)'
<1>1. CASE job[a].pc \notin Building
    BY <1>1 DEF OwnObjects
<1>2. CASE job[a].pc \in Building
  <2>1. \A m : Objects(a)[m]' = Objects(a)[m]
    BY <1>2 DEF Objects
  <2>2. QED
    BY <2>1 DEF OwnInv, OwnObjects, Own
<1>3. QED
    BY <1>1, <1>2

(* A step of one build leaves the objects of the others alone.               *)
LEMMA OwnStep ==
  ASSUME Inv, OwnInv, NEW b \in Builder, job[b].pc \in Busy, OthersSame(b),
         \A q \in Program \ {job[b].prog} : ofile'[q] = ofile[q],
         \/ job'[b] = Idle
         \/ /\ SameBuild(b)
            /\ job'[b].pc \in Building => job[b].pc \in Building
            /\ \A m \in Module :
                  LET o == ofile'[job[b].prog][Suffix[job[b].prof]][m]
                  IN o = Objects(b)[m] \/ Own(o, job[b].prof)
  PROVE  OwnInv'
<1> SUFFICES ASSUME NEW a \in Builder PROVE OwnObjects(a)'
    BY DEF OwnInv
<1>1. CASE a # b
  <2>1. job'[a] = job[a]
    BY <1>1 DEF OthersSame
  <2>2. job[a].pc \in Building => ofile'[job[a].prog] = ofile[job[a].prog]
    <3> SUFFICES ASSUME job[a].pc \in Building PROVE ofile'[job[a].prog] = ofile[job[a].prog]
      OBVIOUS
    <3>1. job[a] \in Job /\ Active(a) /\ Active(b)
      BY JobTyped, IdleFact DEF Inv, Busy, Building, Unlinked, Early
    <3>2. job[a].prog \in Program \ {job[b].prog}
      BY <1>1, <3>1 DEF Inv, OneBuildEach, Job
    <3>3. QED
      BY <3>2
  <2>3. QED
    BY <2>1, <2>2, OwnAlone
<1>2. CASE a = b /\ job'[b] = Idle
    BY <1>2, IdleFact DEF OwnObjects, Building, Unlinked, Early
<1>3. CASE a = b /\ job'[b] # Idle
  <2> SUFFICES ASSUME job'[b].pc \in Building, job'[b].clean, NEW m \in Module
               PROVE  Own(ofile'[job'[b].prog][Suffix[job'[b].prof]][m], job'[b].prof)
    BY <1>3 DEF OwnObjects, Objects, Own
  <2>1. job[b].pc \in Building /\ job[b].clean
    BY <1>3 DEF SameBuild
  <2>2. Own(Objects(b)[m], job[b].prof)
    BY <2>1 DEF OwnInv, OwnObjects
  <2>3. Own(ofile'[job[b].prog][Suffix[job[b].prof]][m], job[b].prof)
    BY <1>3, <2>2
  <2>4. QED
    BY <1>3, <2>3 DEF SameBuild
<1>4. QED
    BY <1>1, <1>2, <1>3

(* A step that touches no object.                                            *)
LEMMA OwnQuiet ==
  ASSUME Inv, OwnInv, NEW b \in Builder, ofile' = ofile,
         \/ SharedLookup(b) \/ SharedCompiled(b) \/ Publish(b)
         \/ LocalRuntime(b) \/ LocalCompiled(b) \/ Emit(b) \/ EmitDone(b)
         \/ LinkStep(b) \/ Linked(b)
  PROVE  OwnInv'
<1>1. Types /\ job[b].pc # "idle" /\ job[b].pc \in Building
    BY DEF Inv, SharedLookup, SharedCompiled, Publish, LocalRuntime, LocalCompiled, Emit, EmitDone,
           LinkStep, Linked, At, Building, Unlinked, Early
<1>2. job[b] \in Job /\ job[b].pc \in Busy
    BY <1>1, JobTyped
<1>3. \/ \E pc, dig : job' = [job EXCEPT ![b].dig = dig, ![b].pc = pc]
      \/ \E pc : job' = [job EXCEPT ![b].pc = pc]
      \/ \E pc : job' = [job EXCEPT ![b].pc = pc, ![b].relink = TRUE]
      \/ \E t, d : job' = [job EXCEPT ![b].todo = t, ![b].dirty = d]
      \/ \E pc, t : job' = [job EXCEPT ![b].pc = pc, ![b].todo = t]
    BY DEF SharedLookup, SharedCompiled, Publish, LocalRuntime, LocalCompiled, Emit, EmitDone,
           LinkStep, Linked
<1>4. SameBuild(b) /\ OthersSame(b)
  <2>0. job \in [Builder -> Job \cup {Idle}]
    BY <1>1 DEF Types
  <2>1. CASE \E pc, dig : job' = [job EXCEPT ![b].dig = dig, ![b].pc = pc]
    BY <1>2, <2>0, <2>1 DEF Job, SameBuild, OthersSame
  <2>2. CASE \E pc : job' = [job EXCEPT ![b].pc = pc]
    BY <1>2, <2>0, <2>2 DEF Job, SameBuild, OthersSame
  <2>3. CASE \E pc : job' = [job EXCEPT ![b].pc = pc, ![b].relink = TRUE]
    BY <1>2, <2>0, <2>3 DEF Job, SameBuild, OthersSame
  <2>4. CASE \E t, d : job' = [job EXCEPT ![b].todo = t, ![b].dirty = d]
    BY <1>2, <2>0, <2>4 DEF Job, SameBuild, OthersSame
  <2>5. CASE \E pc, t : job' = [job EXCEPT ![b].pc = pc, ![b].todo = t]
    BY <1>2, <2>0, <2>5 DEF Job, SameBuild, OthersSame
  <2>6. QED
    BY <1>3, <2>1, <2>2, <2>3, <2>4, <2>5
<1>5. \A m : ofile'[job[b].prog][Suffix[job[b].prof]][m] = Objects(b)[m]
    BY DEF Objects
<1>6. QED
    BY <1>1, <1>2, <1>4, <1>5, OwnStep

(* A build ends.                                                             *)
LEMMA OwnEnd ==
  ASSUME Inv, OwnInv, NEW b \in Builder,
         LinkFails(b) \/ Finish(b) \/ Kill(b) \/ Fails(b)
  PROVE  OwnInv'
<1>1. Types /\ job[b].pc # "idle"
    BY DEF Inv, LinkFails, Finish, Kill, Fails, At, Active
<1>2. job[b] \in Job /\ job[b].pc \in Busy
    BY <1>1, JobTyped
<1>3. job' = [job EXCEPT ![b] = Idle]
    BY DEF LinkFails, Finish, Kill, Fails
<1>4. OthersSame(b) /\ job'[b] = Idle
    BY <1>1, <1>3 DEF Types, OthersSame
<1>5. \A q \in Program \ {job[b].prog} : ofile'[q] = ofile[q]
    BY <1>1 DEF LinkFails, Finish, Kill, Fails, files, Types
<1>6. QED
    BY <1>2, <1>4, <1>5, OwnStep

(* The compiles: what is written is torn or for the profile of the build.    *)
LEMMA OwnModules ==
  ASSUME Inv, OwnInv, NEW b \in Builder, ModuleStep(b) \/ ModuleCompiled(b)
  PROVE  OwnInv'
<1>1. Types /\ job[b].pc \in {"modules", "module_cc"}
    BY DEF Inv, ModuleStep, ModuleCompiled, At
<1>2. job[b] \in Job /\ job[b].pc \in Busy /\ job[b].pc \in Building
    BY <1>1, JobTyped DEF Building, Unlinked
<1>3. PICK p, s, f : p = job[b].prog /\ f = job[b].prof /\ s = Suffix[f]
    OBVIOUS
<1>4. p \in Program /\ s \in Suffixes
    BY <1>2, <1>3, SuffixTyped DEF Job
<1>5. \/ ofile' = ofile
      \/ \E m, o : Own(o, f) /\ ofile' = [ofile EXCEPT ![p][s][m] = o]
  <2>1. CASE ModuleStep(b)
    <3>1. Own(File(Torn, now), f)
      BY DEF Own, File
    <3>2. QED
      BY <1>3, <2>1, <3>1 DEF ModuleStep
  <2>2. CASE ModuleCompiled(b)
    <3>1. \A m : Own(File(Compiled(p, m, f), now), f)
      BY DEF Own, File, Compiled
    <3>2. QED
      BY <1>3, <2>2, <3>1 DEF ModuleCompiled
  <2>3. QED
    BY <2>1, <2>2
<1>6. \/ job' = [job EXCEPT ![b].pc = "module_cc"]
      \/ job' = [job EXCEPT ![b].todo = Tail(@)]
      \/ job' = [job EXCEPT ![b].pc = "modules", ![b].relink = TRUE, ![b].todo = Tail(@)]
    BY DEF ModuleStep, ModuleCompiled
<1>7. SameBuild(b) /\ OthersSame(b)
    BY <1>1, <1>2, <1>6 DEF Types, Job, SameBuild, OthersSame
<1>8. \A q \in Program \ {p} : ofile'[q] = ofile[q]
    BY <1>1, <1>5 DEF Types
<1>9. \A m \in Module : ofile'[p][s][m] = ofile[p][s][m] \/ Own(ofile'[p][s][m], f)
  <2>1. CASE ofile' = ofile
    BY <2>1
  <2>2. CASE \E m, o : Own(o, f) /\ ofile' = [ofile EXCEPT ![p][s][m] = o]
    <3>1. PICK m, o : Own(o, f) /\ ofile' = [ofile EXCEPT ![p][s][m] = o]
      BY <2>2
    <3>2. \A k \in Module : ofile'[p][s][k] = IF k = m THEN o ELSE ofile[p][s][k]
      BY <1>1, <1>4, <3>1 DEF Types
    <3>3. QED
      BY <3>1, <3>2
  <2>3. QED
    BY <1>5, <2>1, <2>2
<1>10. QED
    BY <1>2, <1>3, <1>7, <1>8, <1>9, OwnStep DEF Objects

(* A build that starts with --clean finds no object.                         *)
LEMMA OwnStart ==
  ASSUME Inv, OwnInv, NEW b \in Builder, NEW x \in Command, Start(b, x)
  PROVE  OwnInv'
<1>1. Types /\ job[b].pc = "idle" /\ \A a \in Builder : Active(a) => job[a].prog # x.prog
    BY DEF Inv, Start, At
<1>2. x.prog \in Program /\ x.prof \in Profile
    BY CommandsTyped
<1>3. /\ OthersSame(b) /\ job'[b].prog = x.prog /\ job'[b].prof = x.prof
      /\ job'[b].clean = x.clean
    BY <1>1 DEF Start, Types, OthersSame
<1>4. \A q \in Program \ {x.prog} : ofile'[q] = ofile[q]
    BY <1>1, <1>2 DEF Start, Types, Clear, files
<1>5. OwnObjects(b)'
  <2> SUFFICES ASSUME x.clean, NEW m \in Module
               PROVE  ofile'[x.prog][Suffix[x.prof]][m].d = Torn
    BY <1>3 DEF OwnObjects, Own, Objects
  <2>1. ofile' = [ofile EXCEPT ![x.prog] = [s \in Suffixes |-> [k \in Module |-> NoFile]]]
    BY DEF Start, Clear
  <2>2. ofile'[x.prog] = [s \in Suffixes |-> [k \in Module |-> NoFile]]
    BY <1>1, <1>2, <2>1 DEF Types
  <2>3. Suffix[x.prof] \in Suffixes
    BY <1>2, SuffixTyped
  <2>4. QED
    BY <2>2, <2>3 DEF NoFile, File
<1>6. ASSUME NEW a \in Builder \ {b} PROVE OwnObjects(a)'
  <2>1. job'[a] = job[a]
    BY <1>3 DEF OthersSame
  <2>2. ASSUME job[a].pc \in Building PROVE ofile'[job[a].prog] = ofile[job[a].prog]
    <3>1. job[a] \in Job /\ Active(a)
      BY <1>1, <2>2, JobTyped, IdleFact DEF Busy, Building, Unlinked, Early
    <3>2. job[a].prog \in Program \ {x.prog}
      BY <1>1, <3>1 DEF Job
    <3>3. QED
      BY <1>4, <3>2
  <2>3. QED
    BY <2>1, <2>2, OwnAlone
<1>7. QED
    BY <1>5, <1>6 DEF OwnInv

(* Every step keeps the objects of a build with --clean its own.             *)
LEMMA NextOwn == Inv /\ OwnInv /\ [Next]_vars => OwnInv'
<1> SUFFICES ASSUME Inv, OwnInv, [Next]_vars PROVE OwnInv'
    OBVIOUS
<1>1. ASSUME NEW b \in Builder, Step(b) PROVE OwnInv'
  <2>1. CASE \/ SharedLookup(b) \/ SharedCompiled(b) \/ Publish(b)
             \/ LocalRuntime(b) \/ LocalCompiled(b) \/ Emit(b) \/ EmitDone(b)
             \/ LinkStep(b) \/ Linked(b)
    <3>1. ofile' = ofile
      BY <2>1 DEF SharedLookup, SharedCompiled, Publish, LocalRuntime, LocalCompiled, Emit, EmitDone,
                  LinkStep, Linked, files
    <3>2. QED
      BY <2>1, <3>1, OwnQuiet
  <2>2. CASE ModuleStep(b) \/ ModuleCompiled(b)
    BY <2>2, OwnModules
  <2>3. CASE LinkFails(b) \/ Finish(b)
    BY <2>3, OwnEnd
  <2>4. QED
    BY <1>1, <2>1, <2>2, <2>3 DEF Step
<1>2. CASE \E b \in Builder : Kill(b) \/ Fails(b)
    BY <1>2, OwnEnd
<1>3. CASE \E b \in Builder : \E x \in Command : Start(b, x)
    BY <1>3, OwnStart
<1>4. CASE job' = job /\ ofile' = ofile
    BY <1>4, OwnAlone DEF OwnInv
<1>5. QED
    BY <1>1, <1>2, <1>3, <1>4 DEF Next, vars, files, EditRuntime, EditModule

-----------------------------------------------------------------------------

(* The lookup in the shared cache.                                           *)
LEMMA SharedLookupClean ==
  ASSUME Inv, CleanInv, NEW b \in Builder, SharedLookup(b)
  PROVE  CleanInv'
<1> DEFINE hit == shared[<<rt, job[b].prof>>] # None
<1>1. Types /\ job[b].pc = "runtime" /\ job[b].share /\ OnCourse(b)
    BY DEF Inv, SharedLookup, At, CleanInv
<1>2. job[b] \in Job /\ job[b].pc \in Busy
    BY <1>1, JobTyped
<1>3. /\ job' = [job EXCEPT ![b].dig = rt, ![b].pc = IF hit THEN "emit" ELSE "shared_cc"]
      /\ UNCHANGED <<rt, src, shared, hfile, cfile, rtfile, exe>>
    BY DEF SharedLookup, dir_digest, sources, files
<1>4. /\ SameBuild(b) /\ OthersSame(b) /\ job'[b].todo = job[b].todo
      /\ job'[b].pc = IF hit THEN "emit" ELSE "shared_cc"
    BY <1>1, <1>2, <1>3 DEF Types, Job, SameBuild, OthersSame
<1>5. job'[b].todo = Order
    BY <1>1, <1>4 DEF OnCourse, EmittedSources, Early
<1>6. RuntimeReady(b)'
  <2>1. job'[b].share /\ job'[b].pc \notin Late \cup {"runtime", "local_cc"}
    BY <1>1, <1>4 DEF SameBuild, Late
  <2>2. job'[b].pc \in Emitting => shared'[<<rt', job'[b].prof>>] # None
    BY <1>3, <1>4 DEF SameBuild, Emitting, Late
  <2>3. QED
    BY <2>1, <2>2 DEF RuntimeReady
<1>7. EmittedSources(b)'
    BY <1>4, <1>5, WholeList DEF EmittedSources, Early, Late
<1>8. LinksAfresh(b)'
    BY <1>1, <1>3, <1>4 DEF OnCourse, LinksAfresh, SameBuild, Unlinked, Early
<1>9. \A a \in Builder \ {b} : OnCourse(a)'
    BY <1>2, <1>3, <1>4, OthersOnCourse DEF OthersSame
<1>10. QED
    BY <1>6, <1>7, <1>8, <1>9 DEF CleanInv, OnCourse

(* The compile of the shared object.                                         *)
LEMMA SharedCompiledClean ==
  ASSUME Inv, CleanInv, NEW b \in Builder, SharedCompiled(b)
  PROVE  CleanInv'
<1>1. Types /\ job[b].pc = "shared_cc" /\ OnCourse(b)
    BY DEF Inv, SharedCompiled, At, CleanInv
<1>2. job[b] \in Job /\ job[b].pc \in Busy
    BY <1>1, JobTyped
<1>3. job' = [job EXCEPT ![b].pc = "publish"] /\ UNCHANGED <<rt, src, shared, hfile, cfile, rtfile, exe>>
    BY DEF SharedCompiled, sources, files
<1>4. SameBuild(b) /\ OthersSame(b) /\ job'[b].todo = job[b].todo /\ job'[b].pc = "publish"
    BY <1>1, <1>2, <1>3 DEF Types, Job, SameBuild, OthersSame
<1>5. OnCourse(b)'
    BY <1>1, <1>3, <1>4 DEF OnCourse, RuntimeReady, EmittedSources, LinksAfresh, SameBuild,
                            Emitting, Unlinked, Early, Late
<1>6. \A a \in Builder \ {b} : OnCourse(a)'
    BY <1>2, <1>3, <1>4, OthersOnCourse DEF OthersSame
<1>7. QED
    BY <1>5, <1>6 DEF CleanInv

(* The rename into the shared cache.                                         *)
LEMMA PublishClean ==
  ASSUME Inv, CleanInv, NEW b \in Builder, Publish(b)
  PROVE  CleanInv'
<1>1. Types /\ job[b].pc = "publish" /\ OnCourse(b) /\ Publishing
    BY DEF Inv, Publish, At, CleanInv
<1>2. job[b] \in Job /\ job[b].pc \in Busy /\ rt \in RtVersion
    BY <1>1, JobTyped DEF Types
<1>3. job[b].dig = rt /\ tmp[b] = <<rt, job[b].prof>>
    BY <1>1, <1>2 DEF Publishing, At
<1>4. <<rt, job[b].prof>> \in Key /\ tmp[b] # None
    BY <1>2, <1>3, MarksAreNoData DEF Key, Job
<1>5. /\ job' = [job EXCEPT ![b].pc = "emit", ![b].relink = TRUE]
      /\ shared' = [shared EXCEPT ![<<rt, job[b].prof>>] = tmp[b]]
      /\ UNCHANGED <<rt, src, hfile, cfile, rtfile, exe>>
    BY <1>3 DEF Publish, sources, files
<1>6. SameBuild(b) /\ OthersSame(b) /\ job'[b].todo = job[b].todo /\ job'[b].pc = "emit"
    BY <1>1, <1>2, <1>5 DEF Types, Job, SameBuild, OthersSame
<1>7. shared'[<<rt, job[b].prof>>] # None /\ \A k \in Key : shared[k] # None => shared'[k] # None
    BY <1>1, <1>4, <1>5 DEF Types
<1>8. job'[b].todo = Order /\ job[b].share
    BY <1>1, <1>6 DEF OnCourse, EmittedSources, RuntimeReady, Early
<1>9. RuntimeReady(b)'
    BY <1>5, <1>6, <1>7, <1>8 DEF RuntimeReady, SameBuild
<1>10. EmittedSources(b)'
    BY <1>6, <1>8, WholeList DEF EmittedSources, Early, Late
<1>11. LinksAfresh(b)'
    BY <1>1, <1>5, <1>6 DEF OnCourse, LinksAfresh, SameBuild, Unlinked, Early
<1>12. \A a \in Builder \ {b} : OnCourse(a)'
    BY <1>2, <1>5, <1>6, <1>7, OthersOnCourse DEF OthersSame
<1>13. QED
    BY <1>9, <1>10, <1>11, <1>12 DEF CleanInv, OnCourse

(* The local runtime: after --clean there is none, so it is compiled.        *)
LEMMA LocalRuntimeClean ==
  ASSUME Inv, CleanInv, NEW b \in Builder, LocalRuntime(b)
  PROVE  CleanInv'
<1> DEFINE p == job[b].prog
           f == job[b].prof
           stale == ~Exists(rtfile[p][f]) \/ rtTime > rtfile[p][f].t
<1>1. Types /\ job[b].pc = "runtime" /\ ~job[b].share /\ OnCourse(b)
    BY DEF Inv, LocalRuntime, At, CleanInv
<1>2. job[b] \in Job /\ job[b].pc \in Busy
    BY <1>1, JobTyped
<1>3. /\ job' = [job EXCEPT ![b].pc = IF stale THEN "local_cc" ELSE "emit"]
      /\ rtfile' = IF stale THEN [rtfile EXCEPT ![p][f] = File(Torn, now)] ELSE rtfile
      /\ UNCHANGED <<rt, src, shared, hfile, cfile, exe>>
    BY DEF LocalRuntime, sources
<1> HIDE DEF stale
<1>4. /\ SameBuild(b) /\ OthersSame(b) /\ job'[b].todo = job[b].todo
      /\ job'[b].pc = IF stale THEN "local_cc" ELSE "emit"
    BY <1>1, <1>2, <1>3 DEF Types, Job, SameBuild, OthersSame
<1>5. job[b].clean => stale
    BY <1>1 DEF OnCourse, RuntimeReady, stale, Exists, NoFile, File
<1>6. job'[b].todo = Order
    BY <1>1, <1>4 DEF OnCourse, EmittedSources, Early
<1>7. RuntimeReady(b)'
    BY <1>1, <1>4, <1>5 DEF RuntimeReady, SameBuild, Emitting, Late
<1>8. EmittedSources(b)'
    BY <1>4, <1>6, WholeList DEF EmittedSources, Early, Late
<1>9. LinksAfresh(b)'
    BY <1>1, <1>3, <1>4 DEF OnCourse, LinksAfresh, SameBuild, Unlinked, Early
<1>10. \A q \in Program \ {job[b].prog} : rtfile'[q] = rtfile[q]
    BY <1>1, <1>2, <1>3 DEF Types, Job
<1>11. \A a \in Builder \ {b} : OnCourse(a)'
    BY <1>2, <1>3, <1>4, <1>10, OthersOnCourse DEF OthersSame
<1>12. QED
    BY <1>7, <1>8, <1>9, <1>11 DEF CleanInv, OnCourse

(* The local runtime is compiled.                                            *)
LEMMA LocalCompiledClean ==
  ASSUME Inv, CleanInv, NEW b \in Builder, LocalCompiled(b)
  PROVE  CleanInv'
<1> DEFINE p == job[b].prog
           f == job[b].prof
<1>1. Types /\ job[b].pc = "local_cc" /\ OnCourse(b)
    BY DEF Inv, LocalCompiled, At, CleanInv
<1>2. job[b] \in Job /\ job[b].pc \in Busy
    BY <1>1, JobTyped
<1>3. /\ job' = [job EXCEPT ![b].pc = "emit", ![b].relink = TRUE]
      /\ rtfile' = [rtfile EXCEPT ![p][f] = File(<<rt, f>>, now)]
      /\ UNCHANGED <<rt, src, shared, hfile, cfile, exe>>
    BY DEF LocalCompiled, sources
<1>4. SameBuild(b) /\ OthersSame(b) /\ job'[b].todo = job[b].todo /\ job'[b].pc = "emit"
    BY <1>1, <1>2, <1>3 DEF Types, Job, SameBuild, OthersSame
<1>5. job'[b].todo = Order /\ ~job[b].share
    BY <1>1, <1>4 DEF OnCourse, EmittedSources, RuntimeReady, Early
<1>6. rtfile'[p][f].d = <<rt, f>> /\ \A q \in Program \ {job[b].prog} : rtfile'[q] = rtfile[q]
    BY <1>1, <1>2, <1>3 DEF Types, Job, File
<1>7. RuntimeReady(b)'
    BY <1>3, <1>4, <1>5, <1>6 DEF RuntimeReady, SameBuild
<1>8. EmittedSources(b)'
    BY <1>4, <1>5, WholeList DEF EmittedSources, Early, Late
<1>9. LinksAfresh(b)'
    BY <1>1, <1>3, <1>4 DEF OnCourse, LinksAfresh, SameBuild, Unlinked, Early
<1>10. \A a \in Builder \ {b} : OnCourse(a)'
    BY <1>2, <1>3, <1>4, <1>6, OthersOnCourse DEF OthersSame
<1>11. QED
    BY <1>7, <1>8, <1>9, <1>10 DEF CleanInv, OnCourse

(* One module is emitted.                                                    *)
LEMMA EmitClean ==
  ASSUME Inv, CleanInv, NEW b \in Builder, Emit(b)
  PROVE  CleanInv'
<1>0. PICK p, m, mo : p = job[b].prog /\ m = Head(job[b].todo) /\ mo = Mode[job[b].prof]
    OBVIOUS
<1>00. PICK h, c : h = Written(hfile[p][m], src[p][m].h[mo]) /\ c = Written(cfile[p][m], src[p][m].c[mo])
    OBVIOUS
<1>1. Types /\ Behind /\ job[b].pc = "emit" /\ OnCourse(b) /\ job[b].todo # <<>>
    BY DEF Inv, Emit, At, CleanInv
<1>2. job[b] \in Job /\ job[b].pc \in Busy /\ p \in Program /\ job[b].todo \in Seq(Module) /\ m \in Module
    BY <1>0, <1>1, JobTyped DEF Job
<1>3. /\ hfile' = [hfile EXCEPT ![p][m] = h] /\ cfile' = [cfile EXCEPT ![p][m] = c]
      /\ UNCHANGED <<rt, src, shared, rtfile, exe>>
    BY <1>0, <1>00 DEF Emit, sources
<1>4. PICK d \in BOOLEAN : job' = [job EXCEPT ![b].todo = Tail(job[b].todo), ![b].dirty = d]
  <2>1. job[b].dirty \in BOOLEAN
    BY <1>2 DEF Job
  <2>2. QED
    BY <2>1 DEF Emit
<1>5. SameBuild(b) /\ OthersSame(b) /\ job'[b].todo = Tail(job[b].todo) /\ job'[b].pc = "emit"
    BY <1>1, <1>2, <1>4 DEF Types, Job, SameBuild, OthersSame
<1>6. h.d = src[p][m].h[mo] /\ c.d = src[p][m].c[mo]
  <2>1. \A g, v : Written(g, v).d = v
    BY DEF Written, File
  <2>2. QED
    BY <1>00, <2>1
<1>7. /\ \A q \in Program \ {p} : hfile'[q] = hfile[q] /\ cfile'[q] = cfile[q]
      /\ \A k \in Module \ {m} : hfile'[p][k] = hfile[p][k] /\ cfile'[p][k] = cfile[p][k]
      /\ hfile'[p][m] = h /\ cfile'[p][m] = c
    BY <1>1, <1>2, <1>3 DEF Types
<1>8. \A k \in Module : ToDo(b, k)' \/ Generated(p, k, mo)'
  <2> SUFFICES ASSUME NEW k \in Module PROVE ToDo(b, k)' \/ Generated(p, k, mo)'
    OBVIOUS
  <2>1. CASE k = m
    BY <1>3, <1>6, <1>7, <2>1 DEF Generated
  <2>2. CASE k # m /\ Generated(p, k, mo)
    BY <1>3, <1>7, <2>2 DEF Generated
  <2>3. CASE k # m /\ ToDo(b, k)
    <3>1. PICK i \in DOMAIN job[b].todo : job[b].todo[i] = k
      BY <2>3 DEF ToDo
    <3>2. \E j \in DOMAIN Tail(job[b].todo) : Tail(job[b].todo)[j] = k
      BY <1>0, <1>1, <1>2, <2>3, <3>1, TailKeeps
    <3>3. QED
      BY <1>5, <3>2 DEF ToDo
  <2>4. ToDo(b, k) \/ Generated(p, k, mo)
    BY <1>0, <1>1 DEF OnCourse, EmittedSources
  <2>5. QED
    BY <2>1, <2>2, <2>3, <2>4
<1>9. EmittedSources(b)'
    BY <1>0, <1>5, <1>8 DEF EmittedSources, SameBuild, Early, Late, Generated
<1>10. RuntimeReady(b)' /\ LinksAfresh(b)'
    BY <1>1, <1>3, <1>5 DEF OnCourse, RuntimeReady, LinksAfresh, SameBuild, Emitting, Unlinked, Early, Late
<1>11. \A a \in Builder \ {b} : OnCourse(a)'
    BY <1>0, <1>2, <1>3, <1>5, <1>7, OthersOnCourse DEF OthersSame
<1>12. QED
    BY <1>9, <1>10, <1>11 DEF CleanInv, OnCourse

(* Everything is emitted.                                                    *)
LEMMA EmitDoneClean ==
  ASSUME Inv, CleanInv, NEW b \in Builder, EmitDone(b)
  PROVE  CleanInv'
<1>1. Types /\ job[b].pc = "emit" /\ OnCourse(b) /\ job[b].todo = <<>>
    BY DEF Inv, EmitDone, At, CleanInv
<1>2. job[b] \in Job /\ job[b].pc \in Busy
    BY <1>1, JobTyped
<1>3. /\ job' = [job EXCEPT ![b].pc = "modules", ![b].todo = Order]
      /\ UNCHANGED <<rt, src, shared, hfile, cfile, rtfile, exe>>
    BY DEF EmitDone, sources, files
<1>4. SameBuild(b) /\ OthersSame(b) /\ job'[b].pc = "modules"
    BY <1>1, <1>2, <1>3 DEF Types, Job, SameBuild, OthersSame
<1>5. \A m \in Module : Generated(job[b].prog, m, Mode[job[b].prof])
    BY <1>1 DEF OnCourse, EmittedSources, ToDo
<1>6. EmittedSources(b)'
    BY <1>3, <1>4, <1>5 DEF EmittedSources, SameBuild, Early, Late, Generated
<1>7. RuntimeReady(b)' /\ LinksAfresh(b)'
    BY <1>1, <1>3, <1>4 DEF OnCourse, RuntimeReady, LinksAfresh, SameBuild, Emitting, Unlinked, Early, Late
<1>8. \A a \in Builder \ {b} : OnCourse(a)'
    BY <1>2, <1>3, <1>4, OthersOnCourse DEF OthersSame
<1>9. QED
    BY <1>6, <1>7, <1>8 DEF CleanInv, OnCourse

(* The compiles: neither generated files, runtime nor executable change.     *)
LEMMA ModulesClean ==
  ASSUME Inv, CleanInv, NEW b \in Builder, ModuleStep(b) \/ ModuleCompiled(b)
  PROVE  CleanInv'
<1>1. Types /\ job[b].pc \in {"modules", "module_cc"} /\ OnCourse(b)
    BY DEF Inv, ModuleStep, ModuleCompiled, At, CleanInv
<1>2. job[b] \in Job /\ job[b].pc \in Busy
    BY <1>1, JobTyped
<1>3. UNCHANGED <<rt, src, shared, hfile, cfile, rtfile, exe>>
    BY DEF ModuleStep, ModuleCompiled, sources
<1>4. \/ job' = [job EXCEPT ![b].pc = "module_cc"]
      \/ job' = [job EXCEPT ![b].todo = Tail(@)]
      \/ job' = [job EXCEPT ![b].pc = "modules", ![b].relink = TRUE, ![b].todo = Tail(@)]
    BY DEF ModuleStep, ModuleCompiled
<1>5. SameBuild(b) /\ OthersSame(b) /\ job'[b].pc \in {"modules", "module_cc"}
    BY <1>1, <1>2, <1>4 DEF Types, Job, SameBuild, OthersSame
<1>6. EmittedSources(b)'
    BY <1>1, <1>3, <1>5 DEF OnCourse, EmittedSources, SameBuild, Early, Late, Generated
<1>7. RuntimeReady(b)' /\ LinksAfresh(b)'
    BY <1>1, <1>3, <1>5 DEF OnCourse, RuntimeReady, LinksAfresh, SameBuild, Emitting, Unlinked, Early, Late
<1>8. \A a \in Builder \ {b} : OnCourse(a)'
    BY <1>2, <1>3, <1>5, OthersOnCourse DEF OthersSame
<1>9. QED
    BY <1>6, <1>7, <1>8 DEF CleanInv, OnCourse

(* After --clean there is no executable, so the link is not skipped.         *)
LEMMA LinkStepClean ==
  ASSUME Inv, CleanInv, NEW b \in Builder, LinkStep(b)
  PROVE  CleanInv'
<1>1. Types /\ job[b].pc = "modules" /\ OnCourse(b)
    BY DEF Inv, LinkStep, At, CleanInv
<1>2. job[b] \in Job /\ job[b].pc \in Busy
    BY <1>1, JobTyped
<1>3. PICK n \in BOOLEAN :
        /\ n = NeedsLink(b)
        /\ exe' = IF n THEN [exe EXCEPT ![job[b].prog] = File(Torn, now)] ELSE exe
        /\ job' = [job EXCEPT ![b].pc = IF n THEN "link" ELSE "done"]
  <2>1. job[b].relink \in BOOLEAN
    BY <1>2 DEF Job
  <2>2. NeedsLink(b) \in BOOLEAN
    BY <2>1 DEF NeedsLink
  <2>3. QED
    BY <2>2 DEF LinkStep
<1>4. UNCHANGED <<rt, src, shared, hfile, cfile, rtfile>>
    BY DEF LinkStep, sources
<1>5. SameBuild(b) /\ OthersSame(b) /\ job'[b].pc = IF n THEN "link" ELSE "done"
    BY <1>1, <1>2, <1>3 DEF Types, Job, SameBuild, OthersSame
<1>6. job[b].clean => n
  <2>1. job[b].clean => exe[job[b].prog] = NoFile
    BY <1>1 DEF OnCourse, LinksAfresh, Unlinked
  <2>2. job[b].clean => ~Exists(exe[job[b].prog])
    BY <2>1 DEF Exists, NoFile, File
  <2>3. QED
    BY <1>3, <2>2 DEF NeedsLink
<1>7. EmittedSources(b)'
    BY <1>1, <1>4, <1>5 DEF OnCourse, EmittedSources, SameBuild, Early, Late, Generated
<1>8. RuntimeReady(b)'
    BY <1>1, <1>4, <1>5 DEF OnCourse, RuntimeReady, SameBuild, Emitting, Late
<1>9. LinksAfresh(b)'
    BY <1>5, <1>6 DEF LinksAfresh, SameBuild, Unlinked, Early
<1>10. \A q \in Program \ {job[b].prog} : exe'[q] = exe[q]
    BY <1>1, <1>2, <1>3 DEF Types, Job
<1>11. \A a \in Builder \ {b} : OnCourse(a)'
    BY <1>2, <1>4, <1>5, <1>10, OthersOnCourse DEF OthersSame
<1>12. QED
    BY <1>7, <1>8, <1>9, <1>11 DEF CleanInv, OnCourse

(* The link of current objects is the program of the sources.                *)
LEMMA LinkedClean ==
  ASSUME Inv, CleanInv, OwnInv, NEW b \in Builder, Linked(b)
  PROVE  CleanInv'
<1> DEFINE p == job[b].prog
           f == job[b].prof
           out == <<RtObject(b), [m \in Module |-> Objects(b)[m].d]>>
<1>1. Types /\ job[b].pc = "link" /\ OnCourse(b) /\ Linkable(b)
    BY DEF Inv, Linked, At, CleanInv
<1>2. job[b] \in Job /\ job[b].pc \in Busy /\ p \in Program /\ f \in Profile
    BY <1>1, JobTyped DEF Job
<1>3. job[b].dig = rt /\ rt \in RtVersion /\ <<rt, f>> \in Key
    BY <1>1, <1>2 DEF Inv, Publishing, Types, Key
<1>4. job[b].clean => RtObject(b) = <<rt, f>>
  <2>1. CASE job[b].share
    <3>1. shared[<<rt, f>>] # None
      BY <1>1, <2>1 DEF OnCourse, RuntimeReady, Emitting, Late
    <3>2. shared[<<rt, f>>] = <<rt, f>>
      BY <1>3, <3>1 DEF Inv, CacheHonest
    <3>3. QED
      BY <1>3, <2>1, <3>2 DEF RtObject
  <2>2. CASE ~job[b].share
    BY <1>1, <2>2 DEF OnCourse, RuntimeReady, Emitting, Late, RtObject
  <2>3. QED
    BY <2>1, <2>2
<1>5. ASSUME job[b].clean, NEW m \in Module
      PROVE  Objects(b)[m].d = <<FreshInputs(p, m, Mode[f]), f>>
  <2>1. job[b].todo = <<>> /\ job[b].pc \in Late
    BY <1>1 DEF Inv, LinkComesLast, At, Late
  <2>2. Current(p, Suffix[f], m)
    BY <2>1 DEF Inv, PassedOver, ToDo
  <2>3. PICK g \in Profile : Objects(b)[m].d = Compiled(p, m, g)
    BY <1>1, <2>2 DEF Linkable, Current, Objects
  <2>4. \E i : Objects(b)[m].d = <<i, f>>
    BY <1>1, <1>5 DEF OwnInv, OwnObjects, Own, Building, Linkable
  <2>5. g = f
    BY <2>3, <2>4 DEF Compiled
  <2>6. \A k \in Module : /\ hfile[p][k].d = src[p][k].h[Mode[f]]
                          /\ cfile[p][k].d = src[p][k].c[Mode[f]]
    BY <1>1, <2>1 DEF OnCourse, EmittedSources, Generated
  <2>7. QED
    BY <2>3, <2>5, <2>6 DEF Compiled, Inputs, FreshInputs
<1>6. job[b].clean => out = Fresh(p, f)
    BY <1>4, <1>5 DEF Fresh
<1>7. /\ exe' = [exe EXCEPT ![p] = File(out, now)]
      /\ job' = [job EXCEPT ![b].pc = "done"]
      /\ UNCHANGED <<rt, src, shared, hfile, cfile, rtfile>>
    BY DEF Linked, sources
<1> HIDE DEF out
<1>8. SameBuild(b) /\ OthersSame(b) /\ job'[b].pc = "done"
    BY <1>1, <1>2, <1>7 DEF Types, Job, SameBuild, OthersSame
<1>9. exe'[p].d = out /\ \A q \in Program \ {job[b].prog} : exe'[q] = exe[q]
    BY <1>1, <1>2, <1>7 DEF Types, File
<1>10. LinksAfresh(b)'
  <2>1. Fresh(p, f)' = Fresh(p, f)
    BY <1>7 DEF Fresh, FreshInputs
  <2>2. job'[b].clean => exe'[p].d = Fresh(p, f)'
    BY <1>6, <1>8, <1>9, <2>1 DEF SameBuild
  <2>3. QED
    BY <1>8, <2>2 DEF LinksAfresh, SameBuild, Unlinked, Early, Fresh, FreshInputs
<1>11. RuntimeReady(b)' /\ EmittedSources(b)'
    BY <1>8 DEF RuntimeReady, EmittedSources, Emitting, Early, Late
<1>12. \A a \in Builder \ {b} : OnCourse(a)'
    BY <1>2, <1>7, <1>8, <1>9, OthersOnCourse DEF OthersSame
<1>13. QED
    BY <1>10, <1>11, <1>12 DEF CleanInv, OnCourse

(* A build that ends, for whatever reason, leaves the other programs alone.  *)
LEMMA EndClean ==
  ASSUME Inv, CleanInv, NEW b \in Builder,
         LinkFails(b) \/ Finish(b) \/ Kill(b) \/ Fails(b)
  PROVE  CleanInv'
<1>1. Types /\ job[b].pc # "idle"
    BY DEF Inv, LinkFails, Finish, Kill, Fails, At, Active
<1>2. job[b] \in Job /\ job[b].pc \in Busy
    BY <1>1, JobTyped
<1>3. /\ job' = [job EXCEPT ![b] = Idle] /\ UNCHANGED <<rt, src, shared, hfile, cfile>>
      /\ exe' = exe \/ exe' = [exe EXCEPT ![job[b].prog] = NoFile]
      /\ rtfile' = rtfile \/ rtfile' = [rtfile EXCEPT ![job[b].prog][job[b].prof] = NoFile]
    BY DEF LinkFails, Finish, Kill, Fails, sources, files
<1>4. OthersSame(b) /\ job'[b] = Idle
    BY <1>1, <1>3 DEF Types, OthersSame
<1>5. \A q \in Program \ {job[b].prog} : exe'[q] = exe[q] /\ rtfile'[q] = rtfile[q]
    BY <1>1, <1>2, <1>3 DEF Types, Job
<1>6. \A a \in Builder \ {b} : OnCourse(a)'
    BY <1>2, <1>3, <1>4, <1>5, OthersOnCourse DEF OthersSame
<1>7. QED
    BY <1>4, <1>6, IdleOnCourse DEF CleanInv

(* A build starts: with --clean its program has no files, and nobody else    *)
(* builds that program.                                                      *)
LEMMA StartClean ==
  ASSUME Inv, CleanInv, NEW b \in Builder, NEW x \in Command, Start(b, x)
  PROVE  CleanInv'
<1>1. Types /\ job[b].pc = "idle" /\ \A a \in Builder : Active(a) => job[a].prog # x.prog
    BY DEF Inv, Start, At
<1>2. x.prog \in Program /\ x.prof \in Profile
    BY CommandsTyped
<1>3. UNCHANGED <<rt, src, shared>>
    BY DEF Start, sources
<1>4. /\ OthersSame(b) /\ job'[b].pc = "runtime" /\ job'[b].prog = x.prog /\ job'[b].prof = x.prof
      /\ job'[b].clean = x.clean /\ job'[b].todo = Order
    BY <1>1 DEF Start, Types, OthersSame
<1>5. \A q \in Program \ {x.prog} : /\ hfile'[q] = hfile[q] /\ cfile'[q] = cfile[q]
                                    /\ rtfile'[q] = rtfile[q] /\ exe'[q] = exe[q]
    BY <1>1, <1>2 DEF Start, Types, Clear, files
<1>6. x.clean => exe'[x.prog] = NoFile /\ rtfile'[x.prog][x.prof] = NoFile
    BY <1>1, <1>2 DEF Start, Types, Clear
<1>7. OnCourse(b)'
  <2>1. RuntimeReady(b)'
    BY <1>4, <1>6 DEF RuntimeReady, Emitting, Late
  <2>2. EmittedSources(b)'
    BY <1>4 DEF EmittedSources, Late
  <2>3. LinksAfresh(b)'
    BY <1>4, <1>6 DEF LinksAfresh
  <2>4. QED
    BY <2>1, <2>2, <2>3 DEF OnCourse
<1>8. ASSUME NEW a \in Builder \ {b} PROVE OnCourse(a)'
  <2>1. Kept(a)
    <3>1. CASE job[a].pc \in Busy
      <4>1. job[a] \in Job /\ Active(a)
        BY <1>1, <3>1, JobTyped, IdleFact DEF Busy
      <4>2. job[a].prog \in Program \ {x.prog}
        BY <1>1, <4>1 DEF Job
      <4>3. QED
        BY <1>5, <4>2 DEF Kept
    <3>2. CASE job[a].pc \notin Busy
      BY <3>2 DEF Kept
    <3>3. QED
      BY <3>1, <3>2
  <2>2. QED
    BY <1>3, <1>4, <2>1, LeftAlone DEF CleanInv, OthersSame
<1>9. QED
    BY <1>7, <1>8 DEF CleanInv

(* Edits happen while nobody builds.                                         *)
LEMMA EditClean ==
  ASSUME Inv, \A b \in Builder : ~Active(b), job' = job
  PROVE  CleanInv'
<1> SUFFICES ASSUME NEW b \in Builder PROVE OnCourse(b)'
    BY DEF CleanInv
<1>1. job'[b].pc = "idle"
    BY DEF Active
<1>2. QED
    BY <1>1 DEF OnCourse, RuntimeReady, EmittedSources, LinksAfresh, Emitting, Unlinked, Early, Late

(* Every step keeps the builds on course.                                    *)
LEMMA NextClean == Inv /\ CleanInv /\ OwnInv /\ [Next]_vars => CleanInv'
<1> SUFFICES ASSUME Inv, CleanInv, OwnInv, [Next]_vars PROVE CleanInv'
    OBVIOUS
<1>1. CASE \E b \in Builder : Step(b)
    BY <1>1, SharedLookupClean, SharedCompiledClean, PublishClean, LocalRuntimeClean,
       LocalCompiledClean, EmitClean, EmitDoneClean, ModulesClean, LinkStepClean,
       LinkedClean, EndClean DEF Step
<1>2. CASE \E b \in Builder : Kill(b) \/ Fails(b)
    BY <1>2, EndClean
<1>3. CASE \E b \in Builder : \E x \in Command : Start(b, x)
    BY <1>3, StartClean
<1>4. CASE \E v \in RtVersion : EditRuntime(v)
    BY <1>4, EditClean DEF EditRuntime
<1>5. CASE \E p \in Program, m \in Module : \E x \in Text[m] : EditModule(p, m, x)
    BY <1>5, EditClean DEF EditModule
<1>6. CASE UNCHANGED vars
  <2>1. \A a \in Builder : Kept(a)
    BY <1>6 DEF vars, files, Kept
  <2>2. QED
    BY <1>6, <2>1, LeftAlone DEF vars, sources, CleanInv
<1>7. QED
    BY <1>1, <1>2, <1>3, <1>4, <1>5, <1>6 DEF Next

-----------------------------------------------------------------------------
(* A build with --clean that ends has made the executable of the sources,    *)
(* for any builders, programs, profiles and modules, whatever was built,     *)
(* edited, killed or left torn before.                                       *)
THEOREM CleanBuildMakesProgram == Spec => []CleanBuildCurrent
<1>1. Spec => []Inv
    BY InitInv, NextInv, PTL DEF Spec
<1>2. Spec => []OwnInv
    BY InitOwn, NextOwn, <1>1, PTL DEF Spec
<1>3. Inv /\ CleanInv => CleanBuildCurrent
    BY DEF CleanInv, OnCourse, LinksAfresh, CleanBuildCurrent, At
<1>4. QED
    BY InitClean, NextClean, <1>1, <1>2, <1>3, PTL DEF Spec

=============================================================================
