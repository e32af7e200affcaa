------------------------ MODULE EvidenceBundleProofs -----------------------
(***************************************************************************)
(* Proofs about publication, for any number of runs, any artifacts and     *)
(* bounds, and both protocols.                                             *)
(***************************************************************************)
EXTENDS EvidenceBundle, SequenceTheorems, FiniteSetTheorems, TLAPS

Staged == Others \cup ToSet(Primary)
Results == {None, "Ok", "DestinationExists", "Refused", "Io", "Dropped"}

OnWriters(f) == f = [w \in Writers |-> f[w]]

(* Where a run is in the part of finalize that follows the manifest.       *)
Prepared == {"manifest", "writing", "publish", "locked", "renaming"}
Owning == {"unlocking", "syncing", "reopening", "done", "crashed"}

Shapes ==
  /\ protocol \in Protocols /\ {published, lock} \subseteq Writers \cup {None}
  /\ step \in [Writers -> Steps]
  /\ result \in [Writers -> Results]
  /\ disk \in [Writers -> {"absent", "partial", "whole"}]
  /\ OnWriters(files) /\ OnWriters(manifest)

(* A run that may still publish has a tree that its manifest describes;    *)
(* the run that has published is past every step that could change it.     *)
Publishable(w) ==
  /\ ManifestValid(manifest[w])
  /\ TreeMatches(files[w], manifest[w].artifacts)

TreeInv ==
  /\ \A w \in Writers : step[w] \in Prepared => Publishable(w)
  /\ \A w \in Writers : step[w] \in {"publish", "locked", "renaming"} => disk[w] = "whole"
  /\ published # None => step[published] \in Owning /\ ReaderAccepts(published)

(* What a run was told, and what it is about to be told.                   *)
ResultInv ==
  /\ \A w \in Writers : (result[w] # None) <=> step[w] = "done"
  /\ \A w \in Writers : step[w] \in {"syncing", "reopening"} => published = w
  /\ \A w \in Writers : step[w] \in {"locked", "renaming", "unlocking"} => protocol = "lock"

BundleInv == Shapes /\ TreeInv /\ ResultInv /\ ResultsTruthful

(* Goto and Finish move one run. *)
LEMMA OneMoves ==
  ASSUME Shapes, NEW w \in Writers, NEW there \in Steps, Goto(w, there)
  PROVE  /\ step' \in [Writers -> Steps] /\ step'[w] = there
         /\ \A v \in Writers : v # w => step'[v] = step[v]
         /\ result' = result
BY DEF Shapes, Goto

LEMMA OneFinishes ==
  ASSUME Shapes, NEW w \in Writers, NEW with \in Results, Finish(w, with)
  PROVE  /\ step' \in [Writers -> Steps] /\ step'[w] = "done"
         /\ \A v \in Writers : v # w => step'[v] = step[v]
         /\ result' \in [Writers -> Results] /\ result'[w] = with
         /\ \A v \in Writers : v # w => result'[v] = result[v]
BY DEF Shapes, Finish, Steps

LEMMA InitBundle == Init => BundleInv
<1> SUFFICES ASSUME Init PROVE BundleInv
  OBVIOUS
<1>1. Shapes
  BY DEF Init, Shapes, Steps, Results, OnWriters
<1>2. \A w \in Writers : step[w] = "idle" /\ result[w] = None
  BY DEF Init
<1>3. TreeInv
  BY <1>2 DEF Init, TreeInv, Prepared
<1>4. ResultInv /\ ResultsTruthful
  BY <1>2 DEF Init, ResultInv, ResultsTruthful, None
<1> QED
  BY <1>1, <1>3, <1>4 DEF BundleInv

(***************************************************************************)
(* Every action leaves the trees of the other runs alone, and the          *)
(* destination is written by the two renames only.                         *)
(***************************************************************************)
Unpublished(w) == published' = published /\ published # w

(* A step of w before publication: it changes at most its own tree.        *)
LEMMA OwnTreeOnly ==
  ASSUME BundleInv, NEW w \in Writers, step[w] \notin Owning,
         UNCHANGED <<protocol, published>>, lock' \in Writers \cup {None},
         step' \in [Writers -> Steps],
         \A v \in Writers : v # w => step'[v] = step[v],
         \A v \in Writers : v # w => files'[v] = files[v] /\ manifest'[v] = manifest[v] /\ disk'[v] = disk[v],
         step'[w] \in Prepared => ManifestValid(manifest'[w]) /\ TreeMatches(files'[w], manifest'[w].artifacts),
         step'[w] \in {"publish", "locked", "renaming"} => disk'[w] = "whole"
  PROVE  TreeInv'
<1>1. published # w
  BY BundleAssumption DEF BundleInv, TreeInv
<1>2. ASSUME NEW v \in Writers, step'[v] \in Prepared PROVE Publishable(v)'
  BY <1>2 DEF BundleInv, TreeInv, Publishable, ManifestValid, TreeMatches
<1>3. ASSUME NEW v \in Writers, step'[v] \in {"publish", "locked", "renaming"} PROVE disk'[v] = "whole"
  BY <1>3 DEF BundleInv, TreeInv
<1>4. ASSUME published' # None PROVE step'[published'] \in Owning /\ ReaderAccepts(published)'
  <2>1. published \in Writers /\ published # w
    BY <1>1, <1>4 DEF BundleInv, Shapes
  <2> QED
    BY <2>1, <1>4 DEF BundleInv, TreeInv, ReaderAccepts
<1> QED
  BY <1>2, <1>3, <1>4 DEF TreeInv

(* Types are kept by every action. *)
LEMMA ShapesKept ==
  ASSUME Shapes, [Next]_vars PROVE Shapes'
<1> USE DEF Shapes, OnWriters
<1>1. CASE UNCHANGED vars
  BY <1>1 DEF vars, place, tree
<1>2. ASSUME NEW w \in Writers, NEW there \in Steps, Goto(w, there)
      PROVE step' \in [Writers -> Steps] /\ result' \in [Writers -> Results]
  BY <1>2, OneMoves
<1>3. ASSUME NEW w \in Writers, NEW with \in Results, Finish(w, with)
      PROVE step' \in [Writers -> Steps] /\ result' \in [Writers -> Results]
  BY <1>3, OneFinishes
<1>4. /\ Finalizing \cup {"open", "copying", "crashed"} \subseteq Steps
      /\ {"Ok", "DestinationExists", "Refused", "Io", "Dropped"} \subseteq Results
  BY DEF Steps, Finalizing, Results
<1> DEFINE Moved == step' \in [Writers -> Steps] /\ result' \in [Writers -> Results]
<1>5. ASSUME NEW w \in Writers, Create(w) \/ AddBegin(w) \/ AddRefused(w) \/ CopyDone(w) \/ CopyFails(w) \/ Drop(w)
      PROVE  Shapes'
  <2>1. Moved
    BY <1>2, <1>3, <1>4, <1>5 DEF Create, AddBegin, AddRefused, CopyDone, CopyFails, Drop, Finalizing
  <2>2. UNCHANGED <<protocol, published, lock, disk, manifest>>
    BY <1>5 DEF Create, AddBegin, AddRefused, CopyDone, CopyFails, Drop, place, tree
  <2>3. OnWriters(files')
    BY <1>5 DEF Create, AddBegin, AddRefused, CopyDone, CopyFails, Drop, tree
  <2> QED
    BY <2>1, <2>2, <2>3
<1>6. ASSUME NEW w \in Writers, Finalize(w) \/ ManifestBegun(w) \/ ManifestWritten(w) \/ Crash(w)
      PROVE  Shapes'
  <2>1. Moved
    BY <1>2, <1>3, <1>4, <1>6 DEF Finalize, ManifestBegun, ManifestWritten, Crash, Finalizing
  <2>2. UNCHANGED <<protocol, published, lock>>
    BY <1>6 DEF Finalize, ManifestBegun, ManifestWritten, Crash, place
  <2>3. disk' \in [Writers -> {"absent", "partial", "whole"}]
    BY <1>6 DEF Finalize, ManifestBegun, ManifestWritten, Crash
  <2>4. OnWriters(files') /\ OnWriters(manifest')
    BY <1>6 DEF Finalize, ManifestBegun, ManifestWritten, Crash
  <2> QED
    BY <2>1, <2>2, <2>3, <2>4
<1>7. ASSUME NEW w \in Writers,
             RenameNoReplace(w) \/ TakeLock(w) \/ CheckDestination(w) \/ RenameLocked(w)
               \/ Unlock(w) \/ SyncParent(w) \/ Reopen(w)
      PROVE  Shapes'
  <2>1. Moved
    BY <1>2, <1>3, <1>4, <1>7
    DEF RenameNoReplace, TakeLock, CheckDestination, RenameLocked, Unlock, SyncParent, Reopen, Finalizing
  <2>2. protocol' = protocol /\ {published', lock'} \subseteq Writers \cup {None}
    BY <1>7 DEF RenameNoReplace, TakeLock, CheckDestination, RenameLocked, Unlock, SyncParent, Reopen, place
  <2>3. UNCHANGED <<files, manifest, disk>>
    BY <1>7 DEF RenameNoReplace, TakeLock, CheckDestination, RenameLocked, Unlock, SyncParent, Reopen, tree
  <2> QED
    BY <2>1, <2>2, <2>3
<1> QED
  BY <1>1, <1>5, <1>6, <1>7 DEF Next, FinalizeStep

(***************************************************************************)
(* The trees.                                                              *)
(***************************************************************************)
LEMMA TreeKept ==
  ASSUME BundleInv, [Next]_vars PROVE TreeInv'
<1> USE BundleAssumption
<1>1. CASE UNCHANGED vars
  BY <1>1 DEF vars, place, tree, BundleInv, TreeInv, Publishable, ReaderAccepts
<1>2. Shapes /\ Shapes'
  BY ShapesKept DEF BundleInv
<1>3. step' \in [Writers -> Steps]
  BY <1>2 DEF Shapes
<1>4. ASSUME NEW w \in Writers, Create(w) \/ AddBegin(w) \/ AddRefused(w) \/ CopyDone(w) \/ CopyFails(w) \/ Drop(w)
      PROVE  TreeInv'
  <2>1. step[w] \in {"idle", "open", "copying"} /\ step'[w] \in {"open", "copying", "done"}
    BY <1>2, <1>4 DEF Create, AddBegin, AddRefused, CopyDone, CopyFails, Drop, Shapes, Goto, Finish
  <2>2. \A v \in Writers : v # w => step'[v] = step[v]
    BY <1>2, <1>4 DEF Create, AddBegin, AddRefused, CopyDone, CopyFails, Drop, Shapes, Goto, Finish
  <2>3. \A v \in Writers : v # w => files'[v] = files[v] /\ manifest'[v] = manifest[v] /\ disk'[v] = disk[v]
    BY <1>2, <1>4 DEF Create, AddBegin, AddRefused, CopyDone, CopyFails, Drop, Shapes, OnWriters, tree
  <2>4. UNCHANGED <<protocol, published>> /\ lock' \in Writers \cup {None}
    BY <1>2, <1>4 DEF Create, AddBegin, AddRefused, CopyDone, CopyFails, Drop, Shapes, place
  <2> QED
    BY <1>3, <2>1, <2>2, <2>3, <2>4, OwnTreeOnly DEF Owning, Prepared
<1>5. ASSUME NEW w \in Writers, Finalize(w) \/ ManifestBegun(w) \/ ManifestWritten(w)
      PROVE  TreeInv'
  <2>1. /\ step[w] \in {"open", "manifest", "writing"}
        /\ step'[w] \in {"manifest", "writing", "publish", "done"}
        /\ \A v \in Writers : v # w => step'[v] = step[v]
    BY <1>2, <1>5 DEF Finalize, ManifestBegun, ManifestWritten, Shapes, Goto, Finish
  <2>2. \A v \in Writers : v # w => files'[v] = files[v] /\ manifest'[v] = manifest[v] /\ disk'[v] = disk[v]
    BY <1>2, <1>5 DEF Finalize, ManifestBegun, ManifestWritten, Shapes, OnWriters
  <2>3. ASSUME step'[w] \in Prepared PROVE ManifestValid(manifest'[w]) /\ TreeMatches(files'[w], manifest'[w].artifacts)
    <3>1. CASE Finalize(w)
      <4>1. PICK trials \in TrialLists :
              LET m == [limits |-> limits[w], artifacts |-> records[w], trials |-> trials]
              IN  ManifestValid(m) /\ TreeMatches(files[w], records[w]) /\ manifest' = [manifest EXCEPT ![w] = m]
        BY <1>2, <2>3, <3>1 DEF Finalize, Finish, Shapes, Prepared
      <4>2. manifest'[w] = [limits |-> limits[w], artifacts |-> records[w], trials |-> trials] /\ files' = files
        BY <1>2, <3>1, <4>1 DEF Finalize, Shapes, OnWriters
      <4> QED
        BY <4>1, <4>2
    <3>2. CASE ManifestBegun(w) \/ ManifestWritten(w)
      <4>1. step[w] \in Prepared /\ UNCHANGED <<files, manifest>>
        BY <3>2 DEF ManifestBegun, ManifestWritten, Prepared
      <4> QED
        BY <4>1 DEF BundleInv, TreeInv, Publishable
    <3> QED
      BY <1>5, <3>1, <3>2
  <2>4. ASSUME step'[w] = "publish" PROVE disk'[w] = "whole"
    BY <1>2, <1>5, <2>4 DEF Finalize, ManifestBegun, ManifestWritten, Shapes, Goto, Finish
  <2>5. UNCHANGED <<protocol, published>> /\ lock' \in Writers \cup {None}
    BY <1>2, <1>5 DEF Finalize, ManifestBegun, ManifestWritten, Shapes, place
  <2> QED
    BY <1>3, <2>1, <2>2, <2>3, <2>4, <2>5, OwnTreeOnly DEF Owning
<1>6. ASSUME NEW w \in Writers, Crash(w) PROVE TreeInv'
  <2>1. /\ step'[w] = "crashed" /\ \A v \in Writers : v # w => step'[v] = step[v]
        /\ step[w] # "done" /\ UNCHANGED <<protocol, published, lock, manifest>>
    BY <1>2, <1>6 DEF Crash, Shapes, Goto, place
  <2>2. \A v \in Writers : v # w \/ step[w] \in Owning => files'[v] = files[v] /\ disk'[v] = disk[v]
    BY <1>2, <1>6 DEF Crash, Shapes, OnWriters, Owning
  <2>3. CASE step[w] \in Owning
    <3>1. files' = files /\ disk' = disk
      BY <1>6, <2>3 DEF Crash, Owning
    <3> QED
      BY <1>2, <2>1, <3>1, <2>3 DEF BundleInv, TreeInv, Publishable, ReaderAccepts, Prepared, Owning, Shapes
  <2>4. CASE step[w] \notin Owning
    <3>1. \A v \in Writers : v # w => files'[v] = files[v] /\ manifest'[v] = manifest[v] /\ disk'[v] = disk[v]
      BY <2>1, <2>2
    <3> QED
      BY <1>2, <1>3, <2>1, <2>4, <3>1, OwnTreeOnly DEF Prepared, Shapes
  <2> QED
    BY <2>3, <2>4
<1>7. ASSUME NEW w \in Writers, TakeLock(w) \/ CheckDestination(w) PROVE TreeInv'
  <2>1. /\ step[w] \in {"publish", "locked"} /\ step'[w] \in {"locked", "renaming", "done"}
        /\ \A v \in Writers : v # w => step'[v] = step[v]
    BY <1>2, <1>7 DEF TakeLock, CheckDestination, Shapes, Goto, Finish
  <2>2. UNCHANGED <<protocol, published, files, manifest, disk>>
    BY <1>7 DEF TakeLock, CheckDestination, tree
  <2>3. Publishable(w) /\ disk[w] = "whole"
    BY <2>1 DEF BundleInv, TreeInv, Prepared
  <2> QED
    BY <1>2, <1>3, <2>1, <2>2, <2>3, OwnTreeOnly DEF Owning, Publishable, Shapes
<1>8. ASSUME NEW w \in Writers, RenameNoReplace(w) \/ RenameLocked(w) PROVE TreeInv'
  <2>1. /\ step[w] \in {"publish", "renaming"} /\ step'[w] \in {"syncing", "unlocking", "done"}
        /\ \A v \in Writers : v # w => step'[v] = step[v]
    BY <1>2, <1>8 DEF RenameNoReplace, RenameLocked, Shapes, Goto, Finish
  <2>2. UNCHANGED <<files, manifest, disk>> /\ published' \in {published, w}
    BY <1>8 DEF RenameNoReplace, RenameLocked, tree
  <2>3. ReaderAccepts(w)
    BY <2>1 DEF BundleInv, TreeInv, Prepared, Publishable, ReaderAccepts
  <2>4. published # w
    BY <2>1 DEF BundleInv, TreeInv, Owning
  <2> QED
    BY <1>2, <2>1, <2>2, <2>3, <2>4 DEF BundleInv, TreeInv, Publishable, ReaderAccepts, Prepared, Owning, Shapes
<1>9. ASSUME NEW w \in Writers, Unlock(w) \/ SyncParent(w) \/ Reopen(w) PROVE TreeInv'
  <2>1. /\ step'[w] \in {"syncing", "reopening", "done"} /\ \A v \in Writers : v # w => step'[v] = step[v]
        /\ UNCHANGED <<published, files, manifest, disk>>
    BY <1>2, <1>9 DEF Unlock, SyncParent, Reopen, Shapes, Goto, Finish, place, tree
  <2> QED
    BY <1>2, <2>1 DEF BundleInv, TreeInv, Publishable, ReaderAccepts, Prepared, Owning, Shapes
<1> QED
  BY <1>1, <1>4, <1>5, <1>6, <1>7, <1>8, <1>9 DEF Next, FinalizeStep

(***************************************************************************)
(* The results.                                                            *)
(***************************************************************************)
(* A run that has not published does not own the destination.              *)
LEMMA NotYetOwner ==
  ASSUME BundleInv, NEW w \in Writers, step[w] \notin Owning
  PROVE  published # w
BY BundleAssumption DEF BundleInv, TreeInv

LEMMA ResultKept ==
  ASSUME BundleInv, [Next]_vars PROVE ResultInv' /\ ResultsTruthful'
<1> USE BundleAssumption
<1>1. CASE UNCHANGED vars
  BY <1>1 DEF vars, place, BundleInv, ResultInv, ResultsTruthful
<1>2. Shapes /\ Shapes'
  BY ShapesKept DEF BundleInv
<1> DEFINE OthersStay(w) == \A v \in Writers : v # w => step'[v] = step[v] /\ result'[v] = result[v]
<1>3. ASSUME NEW w \in Writers,
             Create(w) \/ AddBegin(w) \/ AddRefused(w) \/ CopyDone(w) \/ CopyFails(w) \/ Drop(w)
               \/ Finalize(w) \/ ManifestBegun(w) \/ ManifestWritten(w)
      PROVE  ResultInv' /\ ResultsTruthful'
  <2>1. OthersStay(w)
    BY <1>2, <1>3 DEF Create, AddBegin, AddRefused, CopyDone, CopyFails, Drop, Finalize,
                      ManifestBegun, ManifestWritten, Shapes, Goto, Finish
  <2>2. step'[w] \in {"open", "copying", "manifest", "writing", "publish", "done"}
    BY <1>2, <1>3 DEF Create, AddBegin, AddRefused, CopyDone, CopyFails, Drop, Finalize,
                      ManifestBegun, ManifestWritten, Shapes, Goto, Finish
  <2>3. \/ step'[w] # "done" /\ result'[w] = result[w]
        \/ step'[w] = "done" /\ result'[w] \in {"Refused", "Io", "Dropped", "DestinationExists"}
    BY <1>2, <1>3 DEF Create, AddBegin, AddRefused, CopyDone, CopyFails, Drop, Finalize,
                      ManifestBegun, ManifestWritten, Shapes, Goto, Finish
  <2>4. step[w] \notin Owning
    BY <1>3 DEF Create, AddBegin, AddRefused, CopyDone, CopyFails, Drop, Finalize,
                      ManifestBegun, ManifestWritten, Owning
  <2>5. UNCHANGED <<protocol, published>>
    BY <1>3 DEF Create, AddBegin, AddRefused, CopyDone, CopyFails, Drop, Finalize,
                      ManifestBegun, ManifestWritten, place
  <2>6. result'[w] = "DestinationExists" => published # None
    BY <1>2, <1>3, <2>4 DEF Create, AddBegin, AddRefused, CopyDone, CopyFails, Drop, Finalize,
                      ManifestBegun, ManifestWritten, Shapes, Goto, Finish, BundleInv, ResultInv, Owning, None
  <2>7. published # w
    BY <2>4, NotYetOwner
  <2>8. ResultInv'
    BY <2>1, <2>2, <2>3, <2>4, <2>5 DEF BundleInv, ResultInv, Owning, None
  <2>9. ResultsTruthful'
    BY <2>1, <2>3, <2>4, <2>5, <2>6, <2>7 DEF BundleInv, ResultInv, ResultsTruthful, Owning, None
  <2> QED
    BY <2>8, <2>9
<1>4. ASSUME NEW w \in Writers, TakeLock(w) \/ CheckDestination(w) \/ RenameNoReplace(w) \/ RenameLocked(w)
      PROVE  ResultInv' /\ ResultsTruthful'
  <2>1. OthersStay(w) /\ protocol' = protocol
    BY <1>2, <1>4 DEF TakeLock, CheckDestination, RenameNoReplace, RenameLocked, Shapes, Goto, Finish
  <2>2. step[w] \in {"publish", "locked", "renaming"} /\ step[w] \notin Owning /\ published # w
    BY <1>4, NotYetOwner DEF TakeLock, CheckDestination, RenameNoReplace, RenameLocked, Owning
  <2>3. published' = published \/ (published = None /\ published' = w)
    BY <1>4 DEF TakeLock, CheckDestination, RenameNoReplace, RenameLocked
  <2>4. \/ step'[w] \in {"locked", "renaming", "unlocking"} /\ result'[w] = result[w] /\ protocol = "lock"
        \/ step'[w] = "syncing" /\ result'[w] = result[w] /\ published' = w
        \/ /\ step'[w] = "done" /\ published' = published
           /\ \/ result'[w] \in {"Refused", "Io"}
              \/ result'[w] = "DestinationExists" /\ (published # None \/ protocol = "lock")
    BY <1>2, <1>4 DEF TakeLock, CheckDestination, RenameNoReplace, RenameLocked, Shapes, Goto, Finish,
                      BundleInv, ResultInv
  <2>5. result[w] = None
    BY <2>2 DEF BundleInv, ResultInv
  <2>6. \A v \in Writers : published = v => published' = v
    BY <2>3
  <2>7. ResultInv'
    BY <2>1, <2>2, <2>4, <2>5, <2>6 DEF BundleInv, ResultInv, None
  <2>8. ResultsTruthful'
    BY <2>1, <2>2, <2>3, <2>4, <2>5, <2>6 DEF BundleInv, ResultInv, ResultsTruthful, None
  <2> QED
    BY <2>7, <2>8
<1>5. ASSUME NEW w \in Writers, Unlock(w) \/ SyncParent(w) \/ Reopen(w) \/ Crash(w)
      PROVE  ResultInv' /\ ResultsTruthful'
  <2>1. OthersStay(w) /\ UNCHANGED <<protocol, published>>
    BY <1>2, <1>5 DEF Unlock, SyncParent, Reopen, Crash, Shapes, Goto, Finish, place
  <2>2. step[w] # "done" /\ result[w] = None
    BY <1>5 DEF Unlock, SyncParent, Reopen, Crash, BundleInv, ResultInv
  <2>3. \/ step'[w] \in {"syncing", "reopening"} /\ result'[w] = result[w] /\ published = w
        \/ step'[w] = "crashed" /\ result'[w] = result[w]
        \/ step'[w] = "done" /\ result'[w] \in {"Refused", "Io"}
        \/ step'[w] = "done" /\ result'[w] = "Ok" /\ published = w
    BY <1>2, <1>5 DEF Unlock, SyncParent, Reopen, Crash, Shapes, Goto, Finish, BundleInv, ResultInv
  <2>4. ResultInv'
    BY <2>1, <2>2, <2>3 DEF BundleInv, ResultInv, None
  <2>5. ResultsTruthful'
    BY <2>1, <2>2, <2>3 DEF BundleInv, ResultInv, ResultsTruthful, None
  <2> QED
    BY <2>4, <2>5
<1> QED
  BY <1>1, <1>3, <1>4, <1>5 DEF Next, FinalizeStep

(* A step fills an empty destination or leaves it, with all it holds.      *)
LEMMA DestinationKept ==
  ASSUME BundleInv, [Next]_vars
  PROVE  \/ published = None /\ published' # None
         \/ /\ published' = published
            /\ published # None => UNCHANGED <<files[published], manifest[published], disk[published]>>
<1> USE BundleAssumption
<1>1. CASE UNCHANGED vars
  BY <1>1 DEF vars, place, tree
<1>2. Shapes
  BY DEF BundleInv
<1>3. ASSUME NEW w \in Writers,
             Create(w) \/ AddBegin(w) \/ AddRefused(w) \/ CopyDone(w) \/ CopyFails(w) \/ Drop(w)
               \/ Finalize(w) \/ ManifestBegun(w) \/ ManifestWritten(w)
      PROVE  /\ published' = published
             /\ published # None => UNCHANGED <<files[published], manifest[published], disk[published]>>
  <2>1. step[w] \notin Owning
    BY <1>3 DEF Create, AddBegin, AddRefused, CopyDone, CopyFails, Drop, Finalize,
                ManifestBegun, ManifestWritten, Owning
  <2>2. \A v \in Writers : v # w => UNCHANGED <<files[v], manifest[v], disk[v]>>
    BY <1>2, <1>3 DEF Create, AddBegin, AddRefused, CopyDone, CopyFails, Drop, Finalize,
                      ManifestBegun, ManifestWritten, Shapes, OnWriters, tree
  <2>3. published' = published
    BY <1>3 DEF Create, AddBegin, AddRefused, CopyDone, CopyFails, Drop, Finalize,
                ManifestBegun, ManifestWritten, place
  <2> QED
    BY <1>2, <2>1, <2>2, <2>3, NotYetOwner DEF Shapes
<1>4. ASSUME NEW w \in Writers, TakeLock(w) \/ CheckDestination(w) \/ RenameNoReplace(w) \/ RenameLocked(w)
      PROVE  /\ published' = published \/ (published = None /\ published' # None)
             /\ UNCHANGED <<files, manifest, disk>>
  BY <1>4 DEF TakeLock, CheckDestination, RenameNoReplace, RenameLocked, tree
<1>5. ASSUME NEW w \in Writers, Unlock(w) \/ SyncParent(w) \/ Reopen(w)
      PROVE  UNCHANGED <<published, files, manifest, disk>>
  BY <1>5 DEF Unlock, SyncParent, Reopen, place, tree
<1>6. ASSUME NEW w \in Writers, Crash(w)
      PROVE  /\ published' = published
             /\ published # None => UNCHANGED <<files[published], manifest[published], disk[published]>>
  <2>1. published' = published /\ manifest' = manifest
    BY <1>6 DEF Crash, place
  <2>2. \A v \in Writers : v # w \/ step[w] \in Owning => UNCHANGED <<files[v], disk[v]>>
    BY <1>2, <1>6 DEF Crash, Shapes, OnWriters, Owning
  <2> QED
    BY <1>2, <2>1, <2>2, NotYetOwner DEF Shapes
<1> QED
  BY <1>1, <1>3, <1>4, <1>5, <1>6 DEF Next, FinalizeStep

(* The inductive invariant holds, for any number of runs and any plan.     *)
THEOREM BundleInvariant == Spec => []BundleInv
<1>1. BundleInv /\ [Next]_vars => BundleInv'
  BY ShapesKept, TreeKept, ResultKept DEF BundleInv
<1> QED
  BY InitBundle, <1>1, PTL DEF Spec

(* What is at the destination passes open and verify, at every instant and *)
(* whatever fails or crashes.                                              *)
THEOREM PublishedAlwaysVerifies == Spec => []PublishedVerifies
<1>1. BundleInv => PublishedVerifies
  BY DEF BundleInv, TreeInv, PublishedVerifies
<1> QED
  BY BundleInvariant, <1>1, PTL

(* Ok, DestinationExists and a dropped writer say who owns the destination. *)
THEOREM ResultsAreTruthful == Spec => []ResultsTruthful
<1>1. BundleInv => ResultsTruthful
  BY DEF BundleInv
<1> QED
  BY BundleInvariant, <1>1, PTL

(* Publication fills an empty slot, once, and nothing changes it after.    *)
THEOREM FillsTheSlotOnce == Spec => ImplementsSlot
<1>1. Init => Slot!Init
  BY DEF Init, Slot!Init, Bundle
<1>2. BundleInv /\ [Next]_vars => [Slot!Fill]_Bundle
  <2> SUFFICES ASSUME BundleInv, [Next]_vars PROVE Bundle' = Bundle \/ Slot!Fill
    OBVIOUS
  <2>1. CASE published' = published /\ (published # None => UNCHANGED <<files[published], manifest[published], disk[published]>>)
    BY <2>1 DEF Bundle
  <2>2. CASE published = None /\ published' # None
    BY <2>2 DEF Bundle, Vacant, Slot!Fill
  <2> QED
    BY <2>1, <2>2, DestinationKept
<1> QED
  BY BundleInvariant, <1>1, <1>2, PTL DEF Spec, ImplementsSlot, Slot!Spec

(***************************************************************************)
(* Types, and preparation in order: what is left of Primary is a suffix of *)
(* it, and everything before that suffix is registered.  While an artifact *)
(* of preparation is copied, it is the head of the suffix.                 *)
(***************************************************************************)
Suffix(q, k) == q = SubSeq(Primary, k + 1, Len(Primary))

Staging(w) ==
  /\ records[w] \subseteq Staged
  /\ step[w] = "copying" => current[w] \in Staged
  /\ step[w] = "copying" /\ queue[w] # <<>> => current[w] = Head(queue[w])
  /\ \E k \in 0 .. Len(Primary) :
       Suffix(queue[w], k) /\ \A i \in 1 .. k : Primary[i] \in records[w]

StagingInv ==
  /\ OnWriters(records) /\ OnWriters(current) /\ OnWriters(queue)
  /\ \A w \in Writers : Staging(w)

LEMMA StagedSources == Staged \subseteq Source
<1>1. ASSUME NEW s \in ToSet(Primary) PROVE s \in Source
  BY <1>1, BundleAssumption, ElementOfSeq DEF ToSet
<1> QED
  BY <1>1, BundleAssumption DEF Staged

LEMMA SuffixHead ==
  ASSUME NEW q, NEW k \in 0 .. Len(Primary), Suffix(q, k), q # <<>>
  PROVE  k + 1 \in 1 .. Len(Primary) /\ Head(q) = Primary[k + 1] /\ Suffix(Tail(q), k + 1)
<1>1. Primary \in Seq(Source) /\ Len(Primary) \in Nat
  BY BundleAssumption, LenProperties
<1>2. k + 1 \in 1 .. Len(Primary)
  BY <1>1, SubSeqEmpty DEF Suffix
<1>3. Head(q) = Primary[k + 1] /\ Tail(q) = SubSeq(Primary, k + 2, Len(Primary))
  BY <1>1, <1>2, HeadTailOfSubSeq DEF Suffix
<1> QED
  BY <1>1, <1>2, <1>3 DEF Suffix

LEMMA InitStaging == Init => StagingInv
<1>1. Primary \in Seq(Source)
  BY BundleAssumption
<1>2. Suffix(Primary, 0) /\ 0 \in 0 .. Len(Primary)
  BY <1>1, SubSeqFull, LenProperties DEF Suffix
<1> QED
  BY <1>2 DEF Init, StagingInv, Staging, OnWriters

LEMMA StagingKept ==
  ASSUME BundleInv, StagingInv, [Next]_vars PROVE StagingInv'
<1>1. CASE UNCHANGED vars
  BY <1>1 DEF vars, writer, StagingInv, Staging, OnWriters, Suffix
<1>2. Shapes /\ OnWriters(records) /\ OnWriters(current) /\ OnWriters(queue)
  BY DEF BundleInv, StagingInv
<1>3. ASSUME NEW w \in Writers, AddBegin(w) PROVE StagingInv'
  <2>1. UNCHANGED <<records, queue>> /\ OnWriters(current') /\ OnWriters(records') /\ OnWriters(queue')
    BY <1>2, <1>3 DEF AddBegin, OnWriters
  <2>2. \A v \in Writers : v # w => step'[v] = step[v] /\ current'[v] = current[v]
    BY <1>2, <1>3 DEF AddBegin, OnWriters, Goto, Shapes
  <2>3. current'[w] \in Staged /\ (queue[w] # <<>> => current'[w] = Head(queue[w]))
    BY <1>2, <1>3 DEF AddBegin, OnWriters, Expected, Staged
  <2> QED
    BY <2>1, <2>2, <2>3 DEF StagingInv, Staging, Suffix
<1>4. ASSUME NEW w \in Writers, CopyDone(w) PROVE StagingInv'
  <2>1. /\ OnWriters(records') /\ OnWriters(current') /\ OnWriters(queue')
        /\ records'[w] = records[w] \cup {current[w]}
        /\ queue'[w] = IF queue[w] = <<>> THEN queue[w] ELSE Tail(queue[w])
        /\ step[w] = "copying" /\ step'[w] = "open"
        /\ \A v \in Writers : v # w => /\ step'[v] = step[v] /\ current'[v] = current[v]
                                       /\ records'[v] = records[v] /\ queue'[v] = queue[v]
    BY <1>2, <1>4 DEF CopyDone, Advance, OnWriters, Goto, Shapes
  <2>2. PICK k \in 0 .. Len(Primary) :
          Suffix(queue[w], k) /\ \A i \in 1 .. k : Primary[i] \in records[w]
    BY DEF StagingInv, Staging
  <2>3. Len(Primary) \in Nat
    BY BundleAssumption, LenProperties
  <2>4. \E n \in 0 .. Len(Primary) : Suffix(queue'[w], n) /\ \A i \in 1 .. n : Primary[i] \in records'[w]
    <3>1. CASE queue[w] = <<>>
      BY <2>1, <2>2, <3>1
    <3>2. CASE queue[w] # <<>>
      <4>1. /\ k + 1 \in 1 .. Len(Primary) /\ current[w] = Primary[k + 1]
            /\ Suffix(Tail(queue[w]), k + 1)
        BY <2>1, <2>2, <3>2, SuffixHead DEF StagingInv, Staging
      <4>2. \A i \in 1 .. k + 1 : Primary[i] \in records'[w]
        BY <2>1, <2>2, <4>1
      <4> QED
        BY <2>1, <2>3, <3>2, <4>1, <4>2
    <3> QED
      BY <3>1, <3>2
  <2>5. records'[w] \subseteq Staged
    BY <2>1 DEF StagingInv, Staging
  <2> QED
    BY <2>1, <2>4, <2>5 DEF StagingInv, Staging, Suffix
<1>5. ASSUME NEW w \in Writers, CopyFails(w) PROVE StagingInv'
  <2>1. UNCHANGED <<records, queue>> /\ OnWriters(current') /\ OnWriters(records') /\ OnWriters(queue')
    BY <1>2, <1>5 DEF CopyFails, OnWriters
  <2>2. /\ step'[w] # "copying"
        /\ \A v \in Writers : v # w => step'[v] = step[v] /\ current'[v] = current[v]
    BY <1>2, <1>5 DEF CopyFails, OnWriters, Goto, Finish, Shapes
  <2> QED
    BY <2>1, <2>2 DEF StagingInv, Staging, Suffix
<1>6. ASSUME NEW w \in Writers,
             Create(w) \/ AddRefused(w) \/ Drop(w) \/ Finalize(w) \/ FinalizeStep(w) \/ Crash(w)
      PROVE  StagingInv'
  <2>1. UNCHANGED <<records, queue, current>>
    BY <1>6 DEF Create, AddRefused, Drop, Finalize, FinalizeStep, ManifestBegun, ManifestWritten, RenameNoReplace,
                TakeLock, CheckDestination, RenameLocked, Unlock, SyncParent, Reopen, Crash, writer
  <2>2. /\ step'[w] # "copying"
        /\ \A v \in Writers : v # w => step'[v] = step[v]
    BY <1>2, <1>6 DEF Create, AddRefused, Drop, Finalize, FinalizeStep, ManifestBegun, ManifestWritten, RenameNoReplace,
                TakeLock, CheckDestination, RenameLocked, Unlock, SyncParent, Reopen, Crash, Goto, Finish, Shapes
  <2> QED
    BY <1>2, <2>1, <2>2 DEF StagingInv, Staging, Suffix, OnWriters
<1> QED
  BY <1>1, <1>3, <1>4, <1>5, <1>6 DEF Next

(* Every variable has its type, and preparation leaves nothing out.        *)
THEOREM TypeCorrect == Spec => []TypeOK
<1>1. BundleInv /\ StagingInv => TypeOK
  <2> SUFFICES ASSUME BundleInv, StagingInv PROVE TypeOK
    OBVIOUS
  <2>1. Staged \subseteq Source
    BY StagedSources
  <2>2. ASSUME NEW w \in Writers
        PROVE  /\ step[w] \in Steps
               /\ \E k \in 0 .. Len(Primary) :
                    /\ queue[w] = SubSeq(Primary, k + 1, Len(Primary))
                    /\ \A i \in 1 .. k : Primary[i] \in records[w]
               /\ step[w] = "copying" => current[w] \in Source
               /\ records[w] \subseteq Others \cup ToSet(Primary)
               /\ disk[w] \in {"absent", "partial", "whole"}
               /\ result[w] \in {None, "Ok", "DestinationExists", "Refused", "Io", "Dropped"}
               /\ (result[w] # None) = (step[w] = "done")
    BY <2>1 DEF BundleInv, Shapes, ResultInv, StagingInv, Staging, Suffix, Staged, Results
  <2> QED
    BY <2>2 DEF BundleInv, Shapes, TypeOK
<1>2. BundleInv /\ StagingInv /\ [Next]_vars => StagingInv'
  BY StagingKept
<1> QED
  BY BundleInvariant, InitStaging, <1>1, <1>2, PTL DEF Spec

(***************************************************************************)
(* The budget of a writer.                                                 *)
(***************************************************************************)
(* A registered artifact adds its size to the sum, once.                   *)
LEMMA SizeSumAdds ==
  ASSUME NEW set, IsFiniteSet(set), \A r \in set : r.size \in Nat, NEW s, s.size \in Nat, s \notin set,
         IsFiniteSet(BytesOf(set))
  PROVE  /\ IsFiniteSet(BytesOf(set \cup {s}))
         /\ SizeSum(set \cup {s}) = SizeSum(set) + s.size
<1> DEFINE Own == {s} \X (1 .. s.size)
<1>1. IsFiniteSet({s}) /\ Cardinality({s}) = 1
  BY FS_Singleton
<1>2. IsFiniteSet(1 .. s.size) /\ Cardinality(1 .. s.size) = s.size
  <2>1. \A n \in Nat : IsFiniteSet(1 .. n) /\ Cardinality(1 .. n) = n
    BY FS_Interval
  <2> QED
    BY <2>1
<1>3. IsFiniteSet(Own) /\ Cardinality(Own) = s.size
  <2>1. IsFiniteSet(Own) /\ Cardinality(Own) = 1 * s.size
    BY <1>1, <1>2, FS_Product
  <2> QED
    BY <2>1
<1>4. BytesOf(set \cup {s}) = BytesOf(set) \cup Own
  BY DEF BytesOf
<1>5. BytesOf(set) \cap Own = {}
  BY DEF BytesOf
<1>6. Cardinality(BytesOf(set)) \in Nat /\ Cardinality({}) = 0
  BY FS_CardinalityType, FS_EmptySet
<1> HIDE DEF Own
<1>7. /\ IsFiniteSet(BytesOf(set) \cup Own)
      /\ Cardinality(BytesOf(set) \cup Own) = Cardinality(BytesOf(set)) + Cardinality(Own) - Cardinality(BytesOf(set) \cap Own)
  BY <1>3, FS_Union
<1>8. Cardinality(BytesOf(set) \cap Own) = 0
  BY <1>5, <1>6
<1>9. Cardinality(BytesOf(set) \cup Own) = Cardinality(BytesOf(set)) + s.size
  BY <1>3, <1>6, <1>7, <1>8
<1> QED
  BY <1>4, <1>7, <1>9 DEF SizeSum

At(w, path) == {f \in files[w] : f.path = path}

(* What a writer has charged, and what is on disk of it; the file of the   *)
(* artifact that is being copied is the only one of its path.              *)
Charging(w) ==
  /\ limits[w] \in Bounds
  /\ IsFiniteSet(records[w]) /\ IsFiniteSet(BytesOf(records[w]))
  /\ charged[w] = SizeSum(records[w])
  /\ charged[w] <= limits[w].total
  /\ Cardinality(records[w]) <= limits[w].count
  /\ \A s \in records[w] : At(w, s.path) = {File(s.path, s.size)}
  /\ step[w] = "idle" => records[w] = {} /\ charged[w] = 0
  /\ step[w] = "copying" =>
       /\ Cardinality(records[w]) < limits[w].count
       /\ current[w].path \notin Paths(records[w])
       /\ At(w, current[w].path) = {File(current[w].path, 0)}

ChargeInv ==
  /\ OnWriters(limits) /\ OnWriters(charged)
  /\ \A w \in Writers : Charging(w)

LEMMA InitCharge == Init => ChargeInv
<1> SUFFICES ASSUME Init PROVE ChargeInv
  OBVIOUS
<1>1. BytesOf({}) = {} /\ IsFiniteSet({}) /\ Cardinality({}) = 0
  BY FS_EmptySet DEF BytesOf
<1>2. HardCaps \in Bounds /\ 0 <= HardCaps.total /\ 0 <= HardCaps.count
  BY BundleAssumption DEF Bounds
<1>3. ASSUME NEW w \in Writers PROVE Charging(w)
  BY <1>1, <1>2 DEF Init, Charging, SizeSum
<1> QED
  BY <1>3 DEF Init, ChargeInv, OnWriters

(* The writers a step does not belong to keep their budget.                *)
LEMMA ChargeStays ==
  ASSUME NEW w \in Writers, Charging(w),
         UNCHANGED <<limits[w], records[w], charged[w], files[w]>>,
         step'[w] = "idle" => step[w] = "idle",
         step'[w] = "copying" => step[w] = "copying" /\ current'[w] = current[w]
  PROVE  Charging(w)'
BY DEF Charging, At

LEMMA ChargeKept ==
  ASSUME BundleInv, StagingInv, ChargeInv, [Next]_vars PROVE ChargeInv'
<1>1. CASE UNCHANGED vars
  BY <1>1, ChargeStays DEF vars, writer, tree, ChargeInv, OnWriters
<1>2. /\ Shapes /\ OnWriters(limits) /\ OnWriters(charged) /\ OnWriters(records) /\ OnWriters(current)
      /\ OnWriters(files) /\ step \in [Writers -> Steps]
      /\ \A w \in Writers : Charging(w) /\ Staging(w)
  BY DEF BundleInv, Shapes, StagingInv, ChargeInv
<1>3. Staged \subseteq Source
  BY StagedSources
<1>4. ASSUME NEW w \in Writers, Create(w) PROVE ChargeInv'
  <2>1. /\ OnWriters(limits') /\ OnWriters(charged') /\ UNCHANGED <<records, charged, files, current>>
        /\ \A v \in Writers : v # w => step'[v] = step[v] /\ limits'[v] = limits[v]
        /\ step[w] = "idle" /\ step'[w] \in {"open", "done"}
    BY <1>2, <1>4 DEF Create, OnWriters, Goto, Finish, tree
  <2>2. \A v \in Writers : v # w => Charging(v)'
    BY <1>2, <2>1, ChargeStays
  <2>3. limits'[w] \in Bounds
    BY <1>2, <1>4, BundleAssumption DEF Create, OnWriters, Charging
  <2>4. records[w] = {} /\ charged[w] = 0 /\ Cardinality(records[w]) = 0
    BY <1>2, <2>1, FS_EmptySet DEF Charging
  <2>5. 0 <= limits'[w].total /\ 0 <= limits'[w].count
    BY <2>3 DEF Bounds
  <2>6. Charging(w)'
    BY <1>2, <2>1, <2>3, <2>4, <2>5 DEF Charging
  <2> QED
    BY <2>1, <2>2, <2>6 DEF ChargeInv
<1>5. ASSUME NEW w \in Writers, AddBegin(w) PROVE ChargeInv'
  <2>1. PICK s \in Staged :
          /\ Addable(w, s)
          /\ current' = [current EXCEPT ![w] = s]
          /\ files' = [files EXCEPT ![w] = @ \cup {File(s.path, 0)}]
    BY <1>5 DEF AddBegin, Staged
  <2>2. /\ UNCHANGED <<limits, records, charged>> /\ OnWriters(limits') /\ OnWriters(charged')
        /\ \A v \in Writers : v # w => step'[v] = step[v] /\ files'[v] = files[v] /\ current'[v] = current[v]
        /\ step'[w] = "copying" /\ current'[w] = s /\ files'[w] = files[w] \cup {File(s.path, 0)}
    BY <1>2, <1>5, <2>1 DEF AddBegin, OnWriters, Goto
  <2>3. \A v \in Writers : v # w => Charging(v)'
    BY <1>2, <2>2, ChargeStays
  <2>4. /\ s.path \notin Paths(records[w]) /\ Cardinality(records[w]) < limits[w].count
        /\ s.path \notin Paths(files[w])
    BY <2>1 DEF Addable
  <2>5. At(w, s.path)' = {File(s.path, 0)}
    BY <2>2, <2>4 DEF At, File, Paths
  <2>6. ASSUME NEW r \in records[w] PROVE At(w, r.path)' = {File(r.path, r.size)}
    <3>1. r.path # s.path
      BY <2>4 DEF Paths
    <3>2. At(w, r.path)' = At(w, r.path)
      BY <2>2, <3>1 DEF At, File
    <3> QED
      BY <1>2, <3>2 DEF Charging
  <2>7. Charging(w)'
    BY <1>2, <2>2, <2>4, <2>5, <2>6 DEF Charging
  <2> QED
    BY <2>2, <2>3, <2>7 DEF ChargeInv
<1>6. ASSUME NEW w \in Writers, CopyDone(w) PROVE ChargeInv'
  <2>0. PICK s : s = current[w]
    OBVIOUS
  <2>1. /\ step[w] = "copying" /\ step'[w] = "open" /\ Fits(w, s)
        /\ limits' = limits /\ OnWriters(limits') /\ OnWriters(charged')
        /\ \A v \in Writers : v # w => /\ step'[v] = step[v] /\ files'[v] = files[v] /\ current'[v] = current[v]
                                       /\ records'[v] = records[v] /\ charged'[v] = charged[v]
        /\ files'[w] = (files[w] \ {File(s.path, 0)}) \cup {File(s.path, s.size)}
        /\ records'[w] = records[w] \cup {s} /\ charged'[w] = charged[w] + s.size
    BY <1>2, <1>6, <2>0 DEF CopyDone, OnWriters, Goto
  <2>2. \A v \in Writers : v # w => Charging(v)'
    BY <1>2, <2>1, ChargeStays
  <2>3. s \in Source /\ s.size \in Nat /\ \A r \in records[w] : r.size \in Nat
    BY <1>2, <1>3, <2>0, <2>1 DEF Staging, Source
  <2>4. /\ Cardinality(records[w]) < limits[w].count /\ s.path \notin Paths(records[w])
        /\ At(w, s.path) = {File(s.path, 0)} /\ IsFiniteSet(records[w]) /\ IsFiniteSet(BytesOf(records[w]))
        /\ charged[w] = SizeSum(records[w]) /\ limits[w] \in Bounds
        /\ \A r \in records[w] : At(w, r.path) = {File(r.path, r.size)}
    BY <1>2, <2>0, <2>1 DEF Charging
  <2>5. s \notin records[w]
    BY <2>4 DEF Paths
  <2>6. IsFiniteSet(BytesOf(records[w] \cup {s})) /\ SizeSum(records[w] \cup {s}) = SizeSum(records[w]) + s.size
    BY <2>3, <2>4, <2>5, SizeSumAdds
  <2>7. IsFiniteSet(records[w] \cup {s}) /\ Cardinality(records[w] \cup {s}) = Cardinality(records[w]) + 1
    BY <2>4, <2>5, FS_AddElement
  <2>8. Cardinality(records[w]) + 1 <= limits[w].count
    <3>1. Cardinality(records[w]) \in Nat /\ limits[w].count \in Nat
      BY <2>4, FS_CardinalityType DEF Bounds
    <3> QED
      BY <2>4, <3>1
  <2>9. At(w, s.path)' = {File(s.path, s.size)}
    <3>1. At(w, s.path)' = (At(w, s.path) \ {File(s.path, 0)}) \cup {File(s.path, s.size)}
      <4>1. File(s.path, s.size).path = s.path
        BY DEF File
      <4>2. File(s.path, 0).path = s.path
        BY DEF File
      <4>3. files'[w] = (files[w] \ {File(s.path, 0)}) \cup {File(s.path, s.size)}
        BY <2>1
      <4> QED
        BY <4>1, <4>2, <4>3 DEF At
    <3> QED
      BY <2>4, <3>1
  <2>10. ASSUME NEW r \in records[w] PROVE At(w, r.path)' = {File(r.path, r.size)}
    <3>1. r.path # s.path
      BY <2>4 DEF Paths
    <3>2. At(w, r.path)' = At(w, r.path)
      BY <2>1, <3>1 DEF At, File
    <3> QED
      BY <2>4, <3>2
  <2>11. limits'[w] = limits[w] /\ charged'[w] <= limits'[w].total /\ charged'[w] = SizeSum(records'[w])
    BY <2>1, <2>4, <2>6 DEF Fits
  <2>12. \A r \in records'[w] : At(w, r.path)' = {File(r.path, r.size)}
    BY <2>1, <2>9, <2>10
  <2>13. Charging(w)'
    BY <2>1, <2>4, <2>6, <2>7, <2>8, <2>11, <2>12 DEF Charging
  <2> QED
    BY <2>1, <2>2, <2>13 DEF ChargeInv
<1>7. ASSUME NEW w \in Writers, CopyFails(w) \/ (Crash(w) /\ step[w] = "copying") PROVE ChargeInv'
  <2> DEFINE s == current[w]
  <2>1. step[w] = "copying" /\ step'[w] \in {"open", "done", "crashed"} /\ UNCHANGED <<limits, records, charged>>
    BY <1>2, <1>7 DEF CopyFails, Crash, Goto, Finish, writer
  <2>2. \A v \in Writers : v # w => step'[v] = step[v] /\ files'[v] = files[v] /\ current'[v] = current[v]
    BY <1>2, <1>7 DEF CopyFails, Crash, OnWriters, Goto, Finish, writer
  <2>3. \A v \in Writers : v # w => Charging(v)'
    BY <1>2, <2>1, <2>2, ChargeStays
  <2>4. ASSUME NEW path, path # s.path PROVE At(w, path)' = At(w, path)
    <3>1. \/ files'[w] = files[w] \ {File(s.path, 0)}
          \/ \E n \in Lengths(w, s) : files'[w] = (files[w] \ {File(s.path, 0)}) \cup {File(s.path, n)}
      BY <1>2, <1>7 DEF CopyFails, Crash, OnWriters
    <3> QED
      BY <2>4, <3>1 DEF At, File
  <2>5. ASSUME NEW r \in records[w] PROVE At(w, r.path)' = {File(r.path, r.size)}
    <3>1. r.path # s.path
      BY <1>2, <2>1 DEF Charging, Paths
    <3> QED
      BY <1>2, <2>4, <3>1 DEF Charging
  <2>6. Charging(w)'
    BY <1>2, <2>1, <2>5 DEF Charging
  <2> QED
    BY <1>2, <2>1, <2>3, <2>6 DEF ChargeInv, OnWriters
<1>8. ASSUME NEW w \in Writers,
             AddRefused(w) \/ Drop(w) \/ Finalize(w) \/ FinalizeStep(w) \/ (Crash(w) /\ step[w] # "copying")
      PROVE  ChargeInv'
  <2>1. UNCHANGED <<limits, records, charged, files, current>>
    BY <1>8 DEF AddRefused, Drop, Finalize, FinalizeStep, ManifestBegun, ManifestWritten, RenameNoReplace,
                TakeLock, CheckDestination, RenameLocked, Unlock, SyncParent, Reopen, Crash, writer, tree
  <2>2. /\ step'[w] \notin {"idle", "copying"}
        /\ \A v \in Writers : v # w => step'[v] = step[v]
    BY <1>2, <1>8 DEF AddRefused, Drop, Finalize, FinalizeStep, ManifestBegun, ManifestWritten, RenameNoReplace,
                TakeLock, CheckDestination, RenameLocked, Unlock, SyncParent, Reopen, Crash, Goto, Finish
  <2>3. \A v \in Writers : Charging(v)'
    BY <1>2, <2>1, <2>2, ChargeStays
  <2> QED
    BY <1>2, <2>1, <2>3 DEF ChargeInv, OnWriters
<1> QED
  BY <1>1, <1>4, <1>5, <1>6, <1>7, <1>8 DEF Next

(* Whatever additions failed, whatever bounds were asked: a writer has     *)
(* charged what its registered artifacts take, within the bounds, and each *)
(* of them is on disk in full (add_artifact, total_bytes).                 *)
THEOREM ChargesExactly == Spec => []ChargedExactly
<1>1. ChargeInv => ChargedExactly
  BY DEF ChargeInv, Charging, ChargedExactly, At
<1>2. BundleInv /\ StagingInv /\ [Next]_vars => StagingInv'
  BY StagingKept
<1>3. BundleInv /\ StagingInv /\ ChargeInv /\ [Next]_vars => ChargeInv'
  BY ChargeKept
<1> QED
  BY BundleInvariant, InitStaging, InitCharge, <1>1, <1>2, <1>3, PTL DEF Spec
=============================================================================
