----------------------------- MODULE MCPlanning -----------------------------
(***************************************************************************)
(* Two run commands of one user, one of them with two stages at a time.    *)
(***************************************************************************)
EXTENDS Planning, TLC

CONSTANTS u, r1, r2, t1, t2, t3

MCOwner == r1 :> u @@ r2 :> u
MCRunOf == t1 :> r1 @@ t2 :> r1 @@ t3 :> r2
MCMain == r1 :> t1 @@ r2 :> t3
MCBudget == u :> 3
MCSeeds == <<"architecture", "testing">>

=============================================================================
