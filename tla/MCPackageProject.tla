-------------------------- MODULE MCPackageProject --------------------------
(* Package A, whose later trees need package B: A1 does not, A2 has the     *)
(* same version and does, A3 is a new version that does.                    *)
EXTENDS PackageProject, TLC

CONSTANTS A, B, A1, A2, A3, AT, B1, BT

MCTrees == {A1, A2, A3, AT, B1, BT}
MCTreesOf == A :> {A1, A2, A3} @@ B :> {B1}
MCVersionOf == A1 :> 1 @@ A2 :> 1 @@ A3 :> 2 @@ AT :> 0 @@ B1 :> 1 @@ BT :> 0
MCNeedsOf == A1 :> {} @@ A2 :> {B} @@ A3 :> {B} @@ AT :> {} @@ B1 :> {} @@ BT :> {}
MCTorn == A :> AT @@ B :> BT

(* The bound of the run: any two mishaps, two edits or two stops among them. *)
TwoMishaps == spent.edits + spent.tampers + spent.stops <= 2
=============================================================================
