----------------------- MODULE PackageRegistryProofs -----------------------
(***************************************************************************)
(* Theorems about PackageRegistry for every set of files and of revisions. *)
(* TypeOK and PublishedStaysPut hold for every set of publishers; the      *)
(* other results are about publishers that take turns, that is, about one  *)
(* publisher that may crash and be started again any number of times.      *)
(***************************************************************************)
EXTENDS PackageRegistry, TLAPS

Bytes == Revisions \union {Torn}

-----------------------------------------------------------------------------
(* Trees and directories.                                                  *)

LEMMA TreeFacts ==
  ASSUME NEW tree
  PROVE  tree \in Trees <=> \E present \in SUBSET Files : tree \in [present -> Bytes]
BY DEF Trees, Bytes

LEMMA DirFacts ==
  ASSUME NEW dir \in Dirs
  PROVE  /\ dir = {} \/ \E tree \in Trees : dir = {tree}
         /\ dir \subseteq Trees
BY DEF Dirs

LEMMA MadeDir ==
  /\ {} \in Dirs
  /\ \A tree \in Trees : {tree} \in Dirs
BY DEF Dirs

(* Removing a directory, wholly or in part, leaves a directory.            *)
LEMMA RestsTyped ==
  ASSUME NEW dir \in Dirs
  PROVE  Rests(dir) \subseteq Dirs
<1>1. ASSUME NEW tree \in Trees, NEW kept \in SUBSET DOMAIN tree
      PROVE  {[file \in kept |-> tree[file]]} \in Dirs
  <2>1. PICK present \in SUBSET Files : tree \in [present -> Bytes]
    BY TreeFacts
  <2>2. [file \in kept |-> tree[file]] \in [kept -> Bytes]
    BY <2>1
  <2> QED
    BY <2>1, <2>2, TreeFacts, MadeDir
<1>2. \A rest \in Rests(dir) :
        \/ rest = {}
        \/ \E tree \in dir : \E kept \in SUBSET DOMAIN tree :
             rest = {[file \in kept |-> tree[file]]}
  BY DEF Rests
<1>3. dir \subseteq Trees
  BY DirFacts
<1>4. ASSUME NEW rest \in Rests(dir), rest # {}
      PROVE  rest \in Dirs
  <2>1. PICK tree \in dir : \E kept \in SUBSET DOMAIN tree :
               rest = {[file \in kept |-> tree[file]]}
    BY <1>2, <1>4
  <2>2. PICK kept \in SUBSET DOMAIN tree : rest = {[file \in kept |-> tree[file]]}
    BY <2>1
  <2> QED
    BY <2>2, <1>3, <1>1
<1> QED
  BY <1>4, MadeDir

LEMMA CreatedTyped ==
  ASSUME NEW dir \in Dirs
  PROVE  Created(dir) \in Dirs /\ Created(dir) # {}
<1>1. NoFiles \in [{} -> Bytes]
  BY DEF NoFiles
<1> QED
  BY <1>1, TreeFacts, MadeDir DEF Created

(* Copying a file into a directory makes a directory that has it.          *)
LEMMA WithFileTyped ==
  ASSUME NEW dir \in Dirs, NEW file \in Files, NEW bytes \in Bytes
  PROVE  /\ WithFile(dir, file, bytes) \in Dirs
         /\ WithFile(dir, file, bytes) # {}
<1>1. PICK tree \in Trees : Created(dir) = {tree}
  BY CreatedTyped, DirFacts
<1> DEFINE more == [f \in DOMAIN tree \union {file} |-> IF f = file THEN bytes ELSE tree[f]]
<1>2. WithFile(dir, file, bytes) = {more}
  BY <1>1 DEF WithFile
<1>3. PICK present \in SUBSET Files : tree \in [present -> Bytes]
  BY TreeFacts
<1>4. more \in [present \union {file} -> Bytes]
  BY <1>3
<1>5. more \in Trees
  BY <1>3, <1>4, TreeFacts
<1> QED
  BY <1>2, <1>5, MadeDir

-----------------------------------------------------------------------------
(* Type correctness, for every set of publishers.                          *)

PCs == Unguarded \union InMaterialize \union InPublish
         \union {"discard", "return", "dropInner", "dropOuter"}

LEMMA PCFacts ==
  /\ "idle" \in PCs /\ "clearOuter" \in PCs /\ "clearInner" \in PCs
  /\ "create" \in PCs /\ "copy" \in PCs /\ "replace" \in PCs /\ "move" \in PCs
  /\ "decide" \in PCs /\ "store" \in PCs /\ "discard" \in PCs /\ "return" \in PCs
  /\ "dropInner" \in PCs /\ "dropOuter" \in PCs
  /\ \A here : CatchOf(here) \in PCs
BY DEF PCs, Unguarded, InMaterialize, InPublish, CatchOf

LEMMA GotoTyped ==
  ASSUME pc \in [Publishers -> PCs], NEW p \in Publishers, NEW here, NEW there \in PCs,
         Goto(p, here, there)
  PROVE  pc' \in [Publishers -> PCs]
BY DEF Goto

LEMMA ThrowTyped ==
  ASSUME error \in [Publishers -> Errors], NEW p \in Publishers, NEW what \in Errors,
         Throw(p, what)
  PROVE  error' \in [Publishers -> Errors]
BY DEF Throw

(* What a step that did not finish leaves is a directory.                  *)
LEMMA CutShortTyped ==
  ASSUME TypeOK, NEW p \in Publishers, CutShort(p)
  PROVE  outer' \in Dirs /\ inner' \in Dirs
<1>1. Rests(inner) \subseteq Dirs /\ Rests(outer) \subseteq Dirs
  BY RestsTyped DEF TypeOK
<1>2. ASSUME NEW file \in remaining[p]
      PROVE  WithFile(inner, file, Torn) \in Dirs
  BY WithFileTyped DEF TypeOK, Bytes
<1> QED
  BY <1>1, <1>2 DEF CutShort, TypeOK

LEMMA TypeInit == Init => TypeOK
BY MadeDir DEF Init, TypeOK, Unguarded, Errors

LEMMA TypeStep == TypeOK /\ [Next]_vars => TypeOK'
<1> SUFFICES ASSUME TypeOK, [Next]_vars
             PROVE  TypeOK'
  OBVIOUS
<1> USE DEF PCs
<1>0. pc \in [Publishers -> PCs] /\ error \in [Publishers -> Errors]
  BY DEF TypeOK
<1>n. Errors = {"none", "io", "immutable", "conflict"}
  BY DEF Errors
<1>r. Rests(inner) \subseteq Dirs /\ Rests(outer) \subseteq Dirs
  BY RestsTyped DEF TypeOK
<1>1. CASE UNCHANGED vars
  BY <1>1 DEF TypeOK, vars, dirs, runs
<1>2. ASSUME NEW p \in Publishers, Step(p)
      PROVE  TypeOK'
  <2>1. CASE Begin(p)
    BY <2>1, <1>0, <1>n, PCFacts, GotoTyped, ThrowTyped, MadeDir DEF Begin, TypeOK, dirs
  <2>2. CASE ClearOuter(p)
    BY <2>2, <1>0, <1>r, PCFacts, GotoTyped DEF ClearOuter, TypeOK, runs, Swallows
  <2>3. CASE ClearInner(p)
    BY <2>3, <1>0, <1>r, PCFacts, GotoTyped DEF ClearInner, TypeOK, runs, Swallows
  <2>4. CASE CreateInner(p)
    <3>1. remaining' \in [Publishers -> SUBSET Files]
      BY <2>4, FilesAssumption DEF CreateInner, TypeOK
    <3> QED
      BY <2>4, <3>1, <1>0, PCFacts, GotoTyped, CreatedTyped DEF CreateInner, TypeOK
  <2>5. CASE CopyFile(p)
    <3>1. PICK file \in remaining[p] :
            /\ inner' = WithFile(inner, file, building[p])
            /\ remaining' = [remaining EXCEPT ![p] = @ \ {file}]
      BY <2>5 DEF CopyFile
    <3>2. inner' \in Dirs
      BY <3>1, WithFileTyped DEF TypeOK, Bytes
    <3> QED
      BY <2>5, <3>1, <3>2 DEF CopyFile, TypeOK
  <2>6. CASE Fingerprint(p)
    BY <2>6, <1>0, PCFacts, GotoTyped DEF Fingerprint, TypeOK, dirs
  <2>7. CASE Replace(p)
    BY <2>7, <1>0, PCFacts, GotoTyped, MadeDir DEF Replace, Replaced, TypeOK, runs
  <2>8. CASE Move(p)
    BY <2>8, <1>0, PCFacts, GotoTyped, MadeDir DEF Move, TypeOK, runs
  <2>9. CASE AlreadyThere(p)
    BY <2>9, <1>0, PCFacts, GotoTyped DEF AlreadyThere, TypeOK, dirs, runs
  <2>10. CASE Immutable(p)
    BY <2>10, <1>0, <1>n, PCFacts, GotoTyped, ThrowTyped DEF Immutable, TypeOK, dirs, runs
  <2>11. CASE FreeVersion(p)
    BY <2>11, <1>0, PCFacts, GotoTyped DEF FreeVersion, TypeOK, dirs, runs
  <2>12. CASE Store(p)
    BY <2>12, <1>0, PCFacts, GotoTyped, MadeDir DEF Store, TypeOK, runs
  <2>13. CASE Discard(p)
    BY <2>13, <1>0, <1>r, PCFacts, GotoTyped DEF Discard, TypeOK, runs, Swallows
  <2>14. CASE Return(p)
    BY <2>14, <1>0, PCFacts, GotoTyped, DirFacts DEF Return, TypeOK, dirs, runs
  <2>15. CASE IoError(p)
    <3>1. outer' \in Dirs /\ inner' \in Dirs
      BY <2>15, CutShortTyped DEF IoError, TypeOK
    <3> QED
      BY <2>15, <3>1, <1>0, <1>n, PCFacts, GotoTyped, ThrowTyped DEF IoError, TypeOK, runs
  <2>16. CASE Conflict(p)
    BY <2>16, <1>0, <1>n, PCFacts, GotoTyped, ThrowTyped DEF Conflict, TypeOK, dirs, runs
  <2>17. CASE CatchInMaterialize(p)
    BY <2>17, <1>0, <1>r, PCFacts, GotoTyped DEF CatchInMaterialize, TypeOK, runs, Swallows
  <2>18. CASE CatchInPublish(p)
    BY <2>18, <1>0, <1>r, PCFacts, GotoTyped DEF CatchInPublish, TypeOK, runs, Swallows
  <2>19. CASE Crash(p)
    <3>1. outer' \in Dirs /\ inner' \in Dirs
      BY <2>19, CutShortTyped DEF Crash
    <3> QED
      BY <2>19, <3>1, <1>0, <1>n, PCFacts, GotoTyped, ThrowTyped DEF Crash, TypeOK, runs
  <2> QED
    BY <1>2, <2>1, <2>2, <2>3, <2>4, <2>5, <2>6, <2>7, <2>8, <2>9, <2>10, <2>11, <2>12,
       <2>13, <2>14, <2>15, <2>16, <2>17, <2>18, <2>19 DEF Step
<1> QED
  BY <1>1, <1>2 DEF Next

(* The three directories, and every publisher's run, always have the shape *)
(* the module declares, for any number of publishers.                      *)
THEOREM TypeCorrect == Spec => []TypeOK
BY TypeInit, TypeStep, PTL DEF Spec

-----------------------------------------------------------------------------
(* Any number of publishers: the last rename is what protects a version.   *)

(* No step of any run touches a version directory that holds a file: the   *)
(* check for a free version may be stale by the time of the rename, but    *)
(* the rename itself replaces nothing but an empty directory.              *)
THEOREM PublishedStaysPutAlways == Spec => PublishedStaysPut
<1>1. ASSUME [Next]_vars, NEW tree \in target, DOMAIN tree # {}
      PROVE  target' = target
  <2>1. CASE UNCHANGED vars
    BY <2>1 DEF vars, dirs
  <2>2. ASSUME NEW p \in Publishers, Step(p)
        PROVE  target' = target
    <3>1. CASE Store(p)
      BY <3>1, <1>1 DEF Store, CanRename
    <3> QED
      BY <2>2, <3>1 DEF Step, dirs, Begin, ClearOuter, ClearInner, CreateInner, CopyFile,
         Fingerprint, Replace, Move, AlreadyThere, Immutable, FreeVersion, Discard, Return,
         IoError, Conflict, CatchInMaterialize, CatchInPublish, Crash
  <2> QED
    BY <1>1, <2>1, <2>2 DEF Next
<1>2. [Next]_vars => [(\E tree \in target : DOMAIN tree # {}) => target' = target]_vars
  BY <1>1
<1> QED
  BY <1>2, PTL DEF Spec, PublishedStaysPut

-----------------------------------------------------------------------------
(* One publisher at a time.                                                *)

OnePublisher == \A p, q \in Publishers : p = q

(* While copying, the staging directory has exactly the files already      *)
(* copied; afterwards it is the artifact, first as `inner`, then as        *)
(* `outer`.  Without `~swallowed` a rest of an earlier run may be in it.   *)
Copied(p) ==
  [file \in FilesOf[building[p]] \ remaining[p] |-> building[p]]

StagedExactly ==
  ~swallowed =>
    /\ target \subseteq Artifacts
    /\ \A p \in Publishers :
         /\ pc[p] = "create" => inner = {}
         /\ pc[p] = "copy" => inner = {Copied(p)} /\ remaining[p] \subseteq FilesOf[building[p]]
         /\ pc[p] \in {"replace", "move", "decide", "store"} =>
              candidate[p] = {Artifact(building[p])}

(* Where the bytes of the candidate fingerprint are at each step.          *)
CandidateIsThere ==
  \A p \in Publishers :
    /\ pc[p] = "copy" => inner # {}
    /\ pc[p] \in {"replace", "move"} => inner = candidate[p] /\ candidate[p] # {}
    /\ pc[p] = "move" => outer = {}
    /\ pc[p] \in {"decide", "store"} => outer = candidate[p] /\ candidate[p] # {}
    /\ pc[p] = "store" => target = {}
    /\ pc[p] \in {"discard", "return"} => target = candidate[p] /\ candidate[p] # {}

(* An exception is on its way out, or the last run threw it.               *)
ErrorsExplained ==
  \A p \in Publishers :
    /\ pc[p] \notin {"idle", "dropInner", "dropOuter"} => error[p] = "none"
    /\ error[p] # "conflict"
    /\ error[p] = "immutable" => target # {} /\ target # candidate[p]

ReportedIsThere == \A tree \in reported : target = {tree}

IInv ==
  /\ TypeOK
  /\ StagedExactly
  /\ CandidateIsThere
  /\ ErrorsExplained
  /\ ReportedIsThere

LEMMA InitIInv == Init => IInv
BY TypeInit DEF Init, IInv, StagedExactly, CandidateIsThere, ErrorsExplained, ReportedIsThere

(* What one publisher's step does to its own place.                        *)
LEMMA GotoFacts ==
  ASSUME pc \in [Publishers -> PCs], NEW p \in Publishers, NEW here, NEW there,
         Goto(p, here, there)
  PROVE  pc[p] = here /\ pc'[p] = there
BY DEF Goto

LEMMA CatchFacts ==
  ASSUME NEW here
  PROVE  CatchOf(here) \in {"idle", "dropInner", "dropOuter"}
BY DEF CatchOf

(* With a single publisher, a fact about its place is one about them all.  *)
LEMMA ForAllPublishers ==
  ASSUME OnePublisher, NEW p \in Publishers
  PROVE  \A q \in Publishers : q = p
BY DEF OnePublisher


(* Without a swallowed error the staging directory has nothing but copies  *)
(* of the revision being published.                                        *)
LEMMA StagedExactlyStep ==
  ASSUME OnePublisher, IInv, TypeOK', NEW p \in Publishers, Step(p)
  PROVE  StagedExactly'
<1> USE DEF PCs, dirs, runs
<1>0. /\ pc \in [Publishers -> PCs] /\ error \in [Publishers -> Errors]
      /\ candidate \in [Publishers -> Dirs] /\ remaining \in [Publishers -> SUBSET Files]
      /\ building \in [Publishers -> Revisions]
  BY DEF IInv, TypeOK
<1>q. \A q \in Publishers : q = p
  BY ForAllPublishers
<1>1. CASE Begin(p)
  BY <1>1, <1>0, <1>q, GotoFacts DEF Begin, IInv, StagedExactly, Throw
<1>2. CASE ClearOuter(p)
  <2>1. /\ pc'[p] = "clearInner"
        /\ target' = target /\ (~swallowed' => ~swallowed)
    BY <1>2, <1>0, GotoFacts DEF ClearOuter, Swallows
  <2> QED
    BY <2>1, <1>q DEF IInv, StagedExactly
<1>3. CASE ClearInner(p)
  <2>1. /\ pc'[p] = "create" /\ (~swallowed' => inner' = {})
        /\ target' = target /\ (~swallowed' => ~swallowed)
    BY <1>3, <1>0, GotoFacts DEF ClearInner, Swallows
  <2> QED
    BY <2>1, <1>q DEF IInv, StagedExactly
<1>4. CASE CreateInner(p)
  <2>1. ASSUME ~swallowed'
        PROVE  inner' = {Copied(p)}'
    <3>1. inner' = {NoFiles} /\ remaining'[p] = FilesOf[building[p]] /\ building' = building
      BY <1>4, <1>0, <2>1, GotoFacts DEF CreateInner, Created, IInv, StagedExactly
    <3> QED
      BY <3>1 DEF Copied, NoFiles
  <2> QED
    BY <1>4, <1>0, <1>q, <2>1, GotoFacts DEF CreateInner, IInv, StagedExactly
<1>5. CASE CopyFile(p)
  <2>1. ASSUME ~swallowed'
        PROVE  inner' = {Copied(p)}' /\ remaining'[p] \subseteq FilesOf[building[p]]
    <3>1. PICK file \in remaining[p] :
            /\ inner' = WithFile(inner, file, building[p])
            /\ remaining' = [remaining EXCEPT ![p] = @ \ {file}]
      BY <1>5 DEF CopyFile
    <3>2. inner = {Copied(p)} /\ remaining[p] \subseteq FilesOf[building[p]] /\ building' = building
      BY <1>5, <2>1 DEF CopyFile, IInv, StagedExactly
    <3>3. inner' = {[f \in DOMAIN Copied(p) \union {file} |->
                       IF f = file THEN building[p] ELSE Copied(p)[f]]}
      BY <3>1, <3>2 DEF WithFile, Created
    <3>4. DOMAIN Copied(p) \union {file} = FilesOf[building[p]] \ remaining'[p]
      BY <3>1, <3>2, <1>0 DEF Copied
    <3> QED
      BY <3>1, <3>2, <3>3, <3>4, <1>0 DEF Copied
  <2> QED
    BY <1>5, <1>0, <1>q, <2>1 DEF CopyFile, IInv, StagedExactly
<1>6. CASE Fingerprint(p)
  <2>1. ASSUME ~swallowed
        PROVE  inner = {Artifact(building[p])}
    <3>1. pc[p] = "copy" /\ remaining[p] = {}
      BY <1>6 DEF Fingerprint, Goto
    <3>2. inner = {Copied(p)}
      BY <2>1, <3>1 DEF IInv, StagedExactly
    <3>3. FilesOf[building[p]] \ {} = FilesOf[building[p]]
      OBVIOUS
    <3>4. Copied(p) = Artifact(building[p])
      BY <3>1, <3>3, Zenon DEF Copied, Artifact
    <3> QED
      BY <3>2, <3>4
  <2> QED
    BY <1>6, <1>0, <1>q, <2>1, GotoFacts DEF Fingerprint, IInv, StagedExactly
<1>7. CASE Replace(p)
  BY <1>7, <1>0, <1>q, GotoFacts DEF Replace, IInv, StagedExactly, Replaced
<1>8. CASE Move(p)
  BY <1>8, <1>0, <1>q, GotoFacts DEF Move, IInv, StagedExactly
<1>9. CASE AlreadyThere(p)
  BY <1>9, <1>0, <1>q, GotoFacts DEF AlreadyThere, IInv, StagedExactly, SameBytes
<1>10. CASE Immutable(p)
  BY <1>10, <1>0, <1>q, GotoFacts DEF Immutable, IInv, StagedExactly, SameBytes, Throw
<1>11. CASE FreeVersion(p)
  BY <1>11, <1>0, <1>q, GotoFacts DEF FreeVersion, IInv, StagedExactly
<1>12. CASE Store(p)
  <2>1. ASSUME ~swallowed
        PROVE  outer \subseteq Artifacts
    BY <1>12, <1>0, <2>1, GotoFacts DEF Store, IInv, StagedExactly, CandidateIsThere, Artifacts
  <2> QED
    BY <1>12, <1>0, <1>q, <2>1, GotoFacts DEF Store, IInv, StagedExactly
<1>13. CASE Discard(p)
  <2>1. /\ pc'[p] = "return"
        /\ target' = target /\ (~swallowed' => ~swallowed)
    BY <1>13, <1>0, GotoFacts DEF Discard, Swallows
  <2> QED
    BY <2>1, <1>q DEF IInv, StagedExactly
<1>14. CASE Return(p)
  BY <1>14, <1>0, <1>q, GotoFacts DEF Return, IInv, StagedExactly
<1>15. CASE IoError(p)
  BY <1>15, <1>0, <1>q, GotoFacts, CatchFacts DEF IoError, IInv, StagedExactly, Throw,
     Unguarded, InMaterialize, InPublish
<1>16. CASE Conflict(p)
  BY <1>16, <1>0, <1>q, GotoFacts, CatchFacts DEF Conflict, IInv, StagedExactly, Throw
<1>17. CASE CatchInMaterialize(p)
  <2>1. /\ pc'[p] = "idle"
        /\ target' = target /\ (~swallowed' => ~swallowed)
    BY <1>17, <1>0, GotoFacts DEF CatchInMaterialize, Swallows
  <2> QED
    BY <2>1, <1>q DEF IInv, StagedExactly
<1>18. CASE CatchInPublish(p)
  <2>1. /\ pc'[p] = "idle"
        /\ target' = target /\ (~swallowed' => ~swallowed)
    BY <1>18, <1>0, GotoFacts DEF CatchInPublish, Swallows
  <2> QED
    BY <2>1, <1>q DEF IInv, StagedExactly
<1>19. CASE Crash(p)
  BY <1>19, <1>0, <1>q, GotoFacts DEF Crash, IInv, StagedExactly, Throw
<1> QED
  BY <1>1, <1>2, <1>3, <1>4, <1>5, <1>6, <1>7, <1>8, <1>9, <1>10,
     <1>11, <1>12, <1>13, <1>14, <1>15, <1>16, <1>17, <1>18, <1>19 DEF Step

(* The candidate stays where the next step expects it.                     *)
LEMMA CandidateIsThereStep ==
  ASSUME OnePublisher, IInv, TypeOK', NEW p \in Publishers, Step(p)
  PROVE  CandidateIsThere'
<1> USE DEF PCs, dirs, runs
<1>0. /\ pc \in [Publishers -> PCs] /\ error \in [Publishers -> Errors]
      /\ candidate \in [Publishers -> Dirs] /\ remaining \in [Publishers -> SUBSET Files]
      /\ building \in [Publishers -> Revisions]
  BY DEF IInv, TypeOK
<1>q. \A q \in Publishers : q = p
  BY ForAllPublishers
<1>1. CASE Begin(p)
  BY <1>1, <1>0, <1>q, GotoFacts DEF Begin, IInv, CandidateIsThere, Throw
<1>2. CASE ClearOuter(p)
  BY <1>2, <1>0, <1>q, GotoFacts DEF ClearOuter, IInv, CandidateIsThere, Swallows
<1>3. CASE ClearInner(p)
  BY <1>3, <1>0, <1>q, GotoFacts DEF ClearInner, IInv, CandidateIsThere, Swallows
<1>4. CASE CreateInner(p)
  <2>1. inner' # {}
    BY <1>4, CreatedTyped DEF CreateInner, IInv, TypeOK
  <2> QED
    BY <1>4, <1>0, <1>q, <2>1, GotoFacts DEF CreateInner, IInv, CandidateIsThere
<1>5. CASE CopyFile(p)
  <2>1. inner' # {}
    BY <1>5, <1>0, WithFileTyped DEF CopyFile, IInv, TypeOK, Bytes
  <2> QED
    BY <1>5, <1>0, <1>q, <2>1 DEF CopyFile, IInv, CandidateIsThere
<1>6. CASE Fingerprint(p)
  BY <1>6, <1>0, <1>q, GotoFacts DEF Fingerprint, IInv, CandidateIsThere
<1>7. CASE Replace(p)
  BY <1>7, <1>0, <1>q, GotoFacts DEF Replace, IInv, CandidateIsThere, Replaced
<1>8. CASE Move(p)
  BY <1>8, <1>0, <1>q, GotoFacts DEF Move, IInv, CandidateIsThere
<1>9. CASE AlreadyThere(p)
  BY <1>9, <1>0, <1>q, GotoFacts DEF AlreadyThere, IInv, CandidateIsThere, SameBytes
<1>10. CASE Immutable(p)
  BY <1>10, <1>0, <1>q, GotoFacts DEF Immutable, IInv, CandidateIsThere, SameBytes, Throw
<1>11. CASE FreeVersion(p)
  BY <1>11, <1>0, <1>q, GotoFacts DEF FreeVersion, IInv, CandidateIsThere
<1>12. CASE Store(p)
  BY <1>12, <1>0, <1>q, GotoFacts DEF Store, IInv, CandidateIsThere
<1>13. CASE Discard(p)
  BY <1>13, <1>0, <1>q, GotoFacts DEF Discard, IInv, CandidateIsThere, Swallows
<1>14. CASE Return(p)
  BY <1>14, <1>0, <1>q, GotoFacts DEF Return, IInv, CandidateIsThere
<1>15. CASE IoError(p)
  BY <1>15, <1>0, <1>q, GotoFacts, CatchFacts DEF IoError, IInv, CandidateIsThere, Throw,
     Unguarded, InMaterialize, InPublish
<1>16. CASE Conflict(p)
  BY <1>16, <1>0, <1>q, GotoFacts, CatchFacts DEF Conflict, IInv, CandidateIsThere, Throw
<1>17. CASE CatchInMaterialize(p)
  BY <1>17, <1>0, <1>q, GotoFacts DEF CatchInMaterialize, IInv, CandidateIsThere, Swallows
<1>18. CASE CatchInPublish(p)
  BY <1>18, <1>0, <1>q, GotoFacts DEF CatchInPublish, IInv, CandidateIsThere, Swallows
<1>19. CASE Crash(p)
  BY <1>19, <1>0, <1>q, GotoFacts DEF Crash, IInv, CandidateIsThere, Throw
<1> QED
  BY <1>1, <1>2, <1>3, <1>4, <1>5, <1>6, <1>7, <1>8, <1>9, <1>10,
     <1>11, <1>12, <1>13, <1>14, <1>15, <1>16, <1>17, <1>18, <1>19 DEF Step

(* No step of a lone publisher meets a directory it did not expect.        *)
LEMMA ErrorsExplainedStep ==
  ASSUME OnePublisher, IInv, TypeOK', NEW p \in Publishers, Step(p)
  PROVE  ErrorsExplained'
<1> USE DEF PCs, dirs, runs
<1>0. /\ pc \in [Publishers -> PCs] /\ error \in [Publishers -> Errors]
      /\ candidate \in [Publishers -> Dirs] /\ remaining \in [Publishers -> SUBSET Files]
      /\ building \in [Publishers -> Revisions]
  BY DEF IInv, TypeOK
<1>q. \A q \in Publishers : q = p
  BY ForAllPublishers
<1>1. CASE Begin(p)
  BY <1>1, <1>0, <1>q, GotoFacts DEF Begin, IInv, ErrorsExplained, Throw
<1>2. CASE ClearOuter(p)
  BY <1>2, <1>0, <1>q, GotoFacts DEF ClearOuter, IInv, ErrorsExplained, Swallows
<1>3. CASE ClearInner(p)
  BY <1>3, <1>0, <1>q, GotoFacts DEF ClearInner, IInv, ErrorsExplained, Swallows
<1>4. CASE CreateInner(p)
  BY <1>4, <1>0, <1>q, GotoFacts DEF CreateInner, IInv, ErrorsExplained
<1>5. CASE CopyFile(p)
  BY <1>5, <1>0, <1>q, GotoFacts DEF CopyFile, IInv, ErrorsExplained
<1>6. CASE Fingerprint(p)
  BY <1>6, <1>0, <1>q, GotoFacts DEF Fingerprint, IInv, ErrorsExplained
<1>7. CASE Replace(p)
  BY <1>7, <1>0, <1>q, GotoFacts DEF Replace, IInv, ErrorsExplained, Replaced
<1>8. CASE Move(p)
  BY <1>8, <1>0, <1>q, GotoFacts DEF Move, IInv, ErrorsExplained
<1>9. CASE AlreadyThere(p)
  BY <1>9, <1>0, <1>q, GotoFacts DEF AlreadyThere, IInv, ErrorsExplained, SameBytes
<1>10. CASE Immutable(p)
  BY <1>10, <1>0, <1>q, GotoFacts DEF Immutable, IInv, ErrorsExplained, SameBytes, Throw
<1>11. CASE FreeVersion(p)
  BY <1>11, <1>0, <1>q, GotoFacts DEF FreeVersion, IInv, ErrorsExplained
<1>12. CASE Store(p)
  BY <1>12, <1>0, <1>q, GotoFacts DEF Store, IInv, ErrorsExplained
<1>13. CASE Discard(p)
  BY <1>13, <1>0, <1>q, GotoFacts DEF Discard, IInv, ErrorsExplained, Swallows
<1>14. CASE Return(p)
  BY <1>14, <1>0, <1>q, GotoFacts DEF Return, IInv, ErrorsExplained
<1>15. CASE IoError(p)
  BY <1>15, <1>0, <1>q, GotoFacts, CatchFacts DEF IoError, IInv, ErrorsExplained, Throw,
     Unguarded, InMaterialize, InPublish
<1>16. CASE Conflict(p)
  <2>1. FALSE
    BY <1>16 DEF Conflict, CanRename, IInv, CandidateIsThere
  <2> QED
    BY <2>1
<1>17. CASE CatchInMaterialize(p)
  BY <1>17, <1>0, <1>q, GotoFacts DEF CatchInMaterialize, IInv, ErrorsExplained, Swallows
<1>18. CASE CatchInPublish(p)
  BY <1>18, <1>0, <1>q, GotoFacts DEF CatchInPublish, IInv, ErrorsExplained, Swallows
<1>19. CASE Crash(p)
  BY <1>19, <1>0, <1>q, GotoFacts DEF Crash, IInv, ErrorsExplained, Throw
<1> QED
  BY <1>1, <1>2, <1>3, <1>4, <1>5, <1>6, <1>7, <1>8, <1>9, <1>10,
     <1>11, <1>12, <1>13, <1>14, <1>15, <1>16, <1>17, <1>18, <1>19 DEF Step

(* What was reported stays in the version directory.                       *)
LEMMA ReportedIsThereStep ==
  ASSUME OnePublisher, IInv, TypeOK', NEW p \in Publishers, Step(p)
  PROVE  ReportedIsThere'
<1> USE DEF PCs, dirs, runs
<1>0. /\ pc \in [Publishers -> PCs] /\ error \in [Publishers -> Errors]
      /\ candidate \in [Publishers -> Dirs] /\ remaining \in [Publishers -> SUBSET Files]
      /\ building \in [Publishers -> Revisions]
  BY DEF IInv, TypeOK
<1>q. \A q \in Publishers : q = p
  BY ForAllPublishers
<1>1. CASE Begin(p)
  BY <1>1 DEF Begin, IInv, ReportedIsThere
<1>2. CASE ClearOuter(p)
  BY <1>2 DEF ClearOuter, IInv, ReportedIsThere
<1>3. CASE ClearInner(p)
  BY <1>3 DEF ClearInner, IInv, ReportedIsThere
<1>4. CASE CreateInner(p)
  BY <1>4 DEF CreateInner, IInv, ReportedIsThere
<1>5. CASE CopyFile(p)
  BY <1>5 DEF CopyFile, IInv, ReportedIsThere
<1>6. CASE Fingerprint(p)
  BY <1>6 DEF Fingerprint, IInv, ReportedIsThere
<1>7. CASE Replace(p)
  BY <1>7 DEF Replace, IInv, ReportedIsThere
<1>8. CASE Move(p)
  BY <1>8 DEF Move, IInv, ReportedIsThere
<1>9. CASE AlreadyThere(p)
  BY <1>9 DEF AlreadyThere, IInv, ReportedIsThere
<1>10. CASE Immutable(p)
  BY <1>10 DEF Immutable, IInv, ReportedIsThere
<1>11. CASE FreeVersion(p)
  BY <1>11 DEF FreeVersion, IInv, ReportedIsThere
<1>12. CASE Store(p)
  <2>1. target = {} /\ reported' = reported
    BY <1>12 DEF Store, Goto, IInv, CandidateIsThere
  <2> QED
    BY <2>1 DEF IInv, ReportedIsThere
<1>13. CASE Discard(p)
  BY <1>13 DEF Discard, IInv, ReportedIsThere
<1>14. CASE Return(p)
  <2>1. reported' = reported \union target /\ target' = target /\ target \in Dirs
    BY <1>14, <1>0, GotoFacts DEF Return, IInv, CandidateIsThere, TypeOK
  <2>2. \A tree \in target : target = {tree}
    BY <2>1, DirFacts
  <2> QED
    BY <2>1, <2>2 DEF IInv, ReportedIsThere
<1>15. CASE IoError(p)
  BY <1>15 DEF IoError, IInv, ReportedIsThere
<1>16. CASE Conflict(p)
  BY <1>16 DEF Conflict, IInv, ReportedIsThere
<1>17. CASE CatchInMaterialize(p)
  BY <1>17 DEF CatchInMaterialize, IInv, ReportedIsThere
<1>18. CASE CatchInPublish(p)
  BY <1>18 DEF CatchInPublish, IInv, ReportedIsThere
<1>19. CASE Crash(p)
  BY <1>19 DEF Crash, IInv, ReportedIsThere
<1> QED
  BY <1>1, <1>2, <1>3, <1>4, <1>5, <1>6, <1>7, <1>8, <1>9, <1>10,
     <1>11, <1>12, <1>13, <1>14, <1>15, <1>16, <1>17, <1>18, <1>19 DEF Step

LEMMA StutterIInv == IInv /\ UNCHANGED vars => IInv'
<1> SUFFICES ASSUME IInv, UNCHANGED vars
             PROVE  IInv'
  OBVIOUS
<1> USE DEF vars, dirs, runs
<1>1. TypeOK'
  BY TypeStep DEF IInv
<1>2. StagedExactly'
  BY DEF IInv, StagedExactly, Copied
<1>3. CandidateIsThere' /\ ErrorsExplained' /\ ReportedIsThere'
  BY DEF IInv, CandidateIsThere, ErrorsExplained, ReportedIsThere
<1> QED
  BY <1>1, <1>2, <1>3 DEF IInv

LEMMA StepIInv ==
  ASSUME OnePublisher, IInv, [Next]_vars
  PROVE  IInv'
<1>1. TypeOK'
  BY TypeStep DEF IInv
<1>2. ASSUME NEW p \in Publishers, Step(p)
      PROVE  IInv'
  BY <1>1, <1>2, StagedExactlyStep, CandidateIsThereStep, ErrorsExplainedStep,
     ReportedIsThereStep DEF IInv
<1> QED
  BY <1>2, StutterIInv DEF Next

THEOREM IInvAlways ==
  ASSUME OnePublisher
  PROVE  Spec => []IInv
<1>1. IInv /\ [Next]_vars => IInv'
  BY StepIInv
<1> QED
  BY InitIInv, <1>1, PTL DEF Spec

(* Publishers that take turns never publish a partial copy or a mixture of *)
(* two revisions, wherever a run crashed or failed before.                 *)
THEOREM VersionIsArtifactAlways ==
  ASSUME OnePublisher
  PROVE  Spec => []VersionIsArtifact
<1>1. IInv => VersionIsArtifact
  BY DEF IInv, StagedExactly, VersionIsArtifact
<1> QED
  BY IInvAlways, <1>1, PTL

(* What an earlier run left behind never makes a later run fail.           *)
THEOREM FailuresExplainedAlways ==
  ASSUME OnePublisher
  PROVE  Spec => []FailuresExplained
<1>1. IInv => FailuresExplained
  BY DEF IInv, ErrorsExplained, FailuresExplained
<1> QED
  BY IInvAlways, <1>1, PTL

(* The registry implements the write-once cell: the rename into the        *)
(* version directory is the write, the report is the read.                 *)
THEOREM VersionWrittenOnceHolds ==
  ASSUME OnePublisher
  PROVE  Spec => VersionWrittenOnce
<1>1. Init => Promise!Init
  BY DEF Init, Promise!Init
<1>2. ASSUME IInv, [Next]_vars
      PROVE  [Promise!Next]_(Promise!vars)
  <2>1. CASE UNCHANGED vars
    BY <2>1 DEF vars, dirs, Promise!vars
  <2>2. ASSUME NEW p \in Publishers, Step(p)
        PROVE  [Promise!Next]_(Promise!vars)
    <3>1. CASE Store(p)
      <4>1. target = {} /\ target' = outer /\ outer # {} /\ outer \in Dirs /\ reported' = reported
        BY <1>2, <3>1 DEF Store, CanRename, Goto, IInv, CandidateIsThere, TypeOK
      <4>2. PICK tree \in Trees : outer = {tree}
        BY <4>1, DirFacts
      <4> QED
        BY <4>1, <4>2 DEF Promise!Next, Promise!Store
    <3>2. CASE Return(p)
      <4>1. /\ target \in Dirs /\ target # {} /\ target' = target
            /\ reported' = reported \union target
        BY <1>2, <3>2 DEF Return, Goto, dirs, IInv, CandidateIsThere, TypeOK
      <4>2. PICK tree \in Trees : target = {tree}
        BY <4>1, DirFacts
      <4> QED
        BY <4>1, <4>2 DEF Promise!Next, Promise!Report
    <3> QED
      BY <2>2, <3>1, <3>2 DEF Step, dirs, Begin, ClearOuter, ClearInner, CreateInner, CopyFile,
         Fingerprint, Replace, Move, AlreadyThere, Immutable, FreeVersion, Discard,
         IoError, Conflict, CatchInMaterialize, CatchInPublish, Crash, Promise!vars
  <2> QED
    BY <1>2, <2>1, <2>2 DEF Next
<1> QED
  BY IInvAlways, <1>1, <1>2, PTL DEF Spec, VersionWrittenOnce, Promise!Spec

(* What a stopped run leaves spoils neither the version nor a later run.   *)
THEOREM ArtifactsSoundAlways ==
  ASSUME OnePublisher
  PROVE  Spec => []ArtifactsSound
BY VersionIsArtifactAlways, FailuresExplainedAlways, PTL DEF ArtifactsSound
=============================================================================
