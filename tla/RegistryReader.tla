--------------------------- MODULE RegistryReader ---------------------------
(***************************************************************************)
(* materializeRegistrySource: choosing the version directory of a package   *)
(* in a registry.  directory_iterator gives the directories in an order     *)
(* nothing fixes; the reader keeps the highest version seen that is in the  *)
(* range, and throws at a directory in the range whose vpp.json is missing  *)
(* or states another name or version.                                       *)
(***************************************************************************)
EXTENDS SemanticVersions

CONSTANTS Directories,   \* sets of [version, sound] the registry may hold
          Ranges         \* ranges that may be asked for

VARIABLES listing,    \* the version directories of the package
          range,      \* the range asked for
          remaining,  \* directories the iterator has not given yet
          selected,   \* {} or the best directory so far
          verdict     \* "reading", "found", "missing" or "broken"

vars == <<listing, range, remaining, selected, verdict>>

Init ==
  /\ listing \in Directories
  /\ range \in Ranges
  /\ remaining = listing
  /\ selected = {}
  /\ verdict = "reading"

Above(version, best) == Compare(version, best.version) > 0

(* Mutant: a directory whose vpp.json is broken is passed over.             *)
SkipBroken ==
  /\ verdict = "reading"
  /\ \E directory \in remaining :
       /\ remaining' = remaining \ {directory}
       /\ selected' = IF /\ Matches(range, directory.version) /\ directory.sound
                        /\ \A best \in selected : Above(directory.version, best)
                     THEN {directory} ELSE selected
  /\ UNCHANGED <<listing, range, verdict>>

Visit ==
  /\ verdict = "reading"
  /\ \E directory \in remaining :
       /\ remaining' = remaining \ {directory}
       /\ LET wanted == Matches(range, directory.version)
          IN  /\ verdict' = IF wanted /\ ~directory.sound THEN "broken" ELSE verdict
              /\ selected' = IF wanted /\ directory.sound
                                /\ \A best \in selected : Above(directory.version, best)
                             THEN {directory} ELSE selected
  /\ UNCHANGED <<listing, range>>

Answer ==
  /\ verdict = "reading" /\ remaining = {}
  /\ verdict' = IF selected = {} THEN "missing" ELSE "found"
  /\ UNCHANGED <<listing, range, remaining, selected>>

Next == Visit \/ Answer

-----------------------------------------------------------------------------

InRange(directories) == {directory \in directories : Matches(range, directory.version)}

Seen == listing \ remaining

(***************************************************************************)
(* "chọn bản SemVer cao nhất phù hợp": in whatever order the directories    *)
(* come, the search has stopped exactly when a directory it saw in the range *)
(* is broken; until then it holds the highest it saw in the range, one when  *)
(* there is one.  It answers only when it saw all, and "missing" only when   *)
(* none is in the range.                                                    *)
(***************************************************************************)
HighestInRange ==
  /\ verdict = "broken" <=> \E directory \in InRange(Seen) : ~directory.sound
  /\ verdict # "broken" =>
       /\ selected \subseteq InRange(Seen)
       /\ selected = {} <=> InRange(Seen) = {}
       /\ \A best \in selected, directory \in InRange(Seen) :
            Compare(directory.version, best.version) <= 0
  /\ verdict \in {"found", "missing"} => Seen = listing /\ (verdict = "found" <=> selected # {})
=============================================================================
