----------------------------- MODULE MCReactive -----------------------------
(* Two signals, two computeds, three effects.  c1 has the value of s2 but    *)
(* reads s1 too, so a write of s1 is cut off there; c2 is c1 or s1 and drops *)
(* the edge to s1 when c1 holds.  e1 reads s1 and may write s2, on which the *)
(* others depend.                                                            *)
EXTENDS Reactive

CONSTANTS s1, s2, c1, c2, e1, e2, e3

MCProg == c1 :> [test |-> s1, yes |-> s2, no |-> s2]
       @@ c2 :> [test |-> c1, yes |-> c1, no |-> s1]
MCRank == s1 :> 0 @@ s2 :> 0 @@ c1 :> 1 @@ c2 :> 2
MCMayRead == e1 :> {s1} @@ e2 :> {c2} @@ e3 :> {c1}
MCMayWrite == e1 :> {s2} @@ e2 :> {} @@ e3 :> {}
MCMayCreate == e1 :> {e2} @@ e2 :> {} @@ e3 :> {}
=============================================================================
