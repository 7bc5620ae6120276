---------------------------- MODULE VersionStore ----------------------------
(***************************************************************************)
(* What a registry promises about one name@version: a cell that is written *)
(* at most once, and in which a publisher is told "published" about some   *)
(* bytes only when those very bytes are what the cell holds.               *)
(***************************************************************************)
CONSTANTS Trees          \* the artifacts that could be published

VARIABLES target,        \* {} before the first publication, then {tree}
          reported       \* the artifacts some publisher was told are there

vars == <<target, reported>>

Init == target = {} /\ reported = {}

Store(tree) ==
  /\ target = {}
  /\ target' = {tree}
  /\ UNCHANGED reported

Report(tree) ==
  /\ target = {tree}
  /\ reported' = reported \union {tree}
  /\ UNCHANGED target

Next == \E tree \in Trees : Store(tree) \/ Report(tree)

Spec == Init /\ [][Next]_vars
=============================================================================
