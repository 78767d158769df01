------------------------------ MODULE MCBuild ------------------------------
(* Two modules; an edit changes the C of modB and its header, which modA     *)
(* includes; modA's C has arithmetic, which debug builds check.  clang       *)
(* is release by another compiler: its C and its object names are the same.  *)
EXTENDS Build, TLC

CONSTANTS modA, modB, app, tool, debug, release, clang
MCOrder == <<modA, modB>>
MCMode == debug :> "checked" @@ release :> "plain" @@ clang :> "plain"
MCSuffix == debug :> "_dbg" @@ release :> "_rel" @@ clang :> "_rel"

\* Version 1 changes the runtime's C, version 2 its header too.
MCRtHeader == 0 :> 0 @@ 1 :> 0 @@ 2 :> 1

Same(d) == [e \in {"checked", "plain"} |-> d]
MCText0 == modA :> [c |-> [e \in {"checked", "plain"} |-> e], h |-> Same(0)]
           @@ modB :> [c |-> Same(0), h |-> Same(0)]
MCText == modA :> {MCText0[modA]}
          @@ modB :> {MCText0[modB], [c |-> Same(1), h |-> Same(1)]}

\* app is built in several ways, tool beside it.
Run(g, f, clean, share) == [prog |-> g, prof |-> f, clean |-> clean, share |-> share]
MCCommand == {Run(app, debug, FALSE, TRUE), Run(app, debug, FALSE, FALSE),
              Run(app, clang, FALSE, TRUE), Run(app, release, TRUE, TRUE),
              Run(tool, debug, FALSE, TRUE)}

\* Two programs, one profile.
MCSiblings == {Run(app, debug, FALSE, TRUE), Run(tool, debug, FALSE, TRUE)}

Symmetry == Permutations(Builder)
=============================================================================
