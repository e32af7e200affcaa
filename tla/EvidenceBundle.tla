-------------------------- MODULE EvidenceBundle ---------------------------
(***************************************************************************)
(* Evidence bundles: prepare_bundle (crates/eggbench-runner/src/prepare.rs)*)
(* and BundleWriter and BundleReader (crates/eggbench-core/src/evidence.rs)*)
(*                                                                         *)
(* Several runs aim at one destination.  Each writer stages into its own   *)
(* sibling directory and publishes it by a rename, on Linux with           *)
(* RENAME_NOREPLACE, elsewhere under a lock file.  A run may crash between *)
(* any two file operations, and every file operation may fail.             *)
(*                                                                         *)
(* Abstracted: a file's content is its length (the bytes of one artifact   *)
(* come from one source, so equal length is equal digest); directories     *)
(* inside the tree; the error of a failed check ("Refused") or of a failed *)
(* operation of the system ("Io").  Left out: comparisons and verdicts,    *)
(* which the coordinator never passes; other programs; loss of power (what *)
(* of the tree is on the disk is then the file system's).                  *)
(***************************************************************************)
EXTENDS Integers, Sequences, FiniteSets, SequencesExt

CONSTANTS
  Writers,     \* runs with this destination
  Primary,     \* what prepare_bundle stages, in its order
  Others,      \* what the coordinator may stage besides
  TrialLists,  \* trial descriptors finalize may be given, each as a set
  BoundsAsked, \* ArtifactBounds of the plans
  HardCaps,    \* MAX_ARTIFACT_COUNT, MAX_ARTIFACT_BYTES, MAX_TOTAL_ARTIFACT_BYTES
  Protocols    \* ways to publish: "noreplace" (Linux), "lock" (elsewhere)

None == "None"

Source == [path : STRING, role : STRING, size : Nat]
Bounds == [count : Nat \ {0}, bytes : Nat, total : Nat]

ASSUME BundleAssumption ==
  /\ None \notin Writers
  /\ Primary \in Seq(Source) /\ Primary # <<>>
  /\ Others \subseteq Source
  /\ BoundsAsked \subseteq Bounds /\ HardCaps \in Bounds
  /\ Protocols \subseteq {"noreplace", "lock"}

File(path, size) == [path |-> path, size |-> size]

Finalizing == {"manifest", "writing", "publish", "locked", "renaming", "unlocking", "syncing", "reopening"}
Steps == {"idle", "open", "copying", "done", "crashed"} \cup Finalizing

VARIABLES
  protocol,   \* publish_staging of this build
  published,  \* the writer whose tree is at the destination
  lock,       \* the writer that created the lock file
  step,       \* where each writer is
  queue,      \* what prepare_bundle has yet to stage
  current,    \* the artifact being copied
  limits,     \* BundleWriter.bounds
  records,    \* BundleWriter.artifacts
  charged,    \* BundleWriter.total_bytes
  files,      \* files of the staging tree, later of the bundle
  manifest,   \* the manifest finalize has built
  disk,       \* manifest.json: absent, partial or whole
  result      \* what the run got in the end

place == <<protocol, published, lock>>
writer == <<queue, current, limits, records, charged>>
tree == <<files, manifest, disk>>
vars == <<place, step, writer, tree, result>>

Init ==
  /\ protocol \in Protocols /\ published = None /\ lock = None
  /\ step = [w \in Writers |-> "idle"]
  /\ queue = [w \in Writers |-> Primary]
  /\ current = [w \in Writers |-> None]
  /\ limits = [w \in Writers |-> HardCaps]
  /\ records = [w \in Writers |-> {}]
  /\ charged = [w \in Writers |-> 0]
  /\ files = [w \in Writers |-> {}]
  /\ manifest = [w \in Writers |-> None]
  /\ disk = [w \in Writers |-> "absent"]
  /\ result = [w \in Writers |-> None]

Goto(w, there) == step' = [step EXCEPT ![w] = there] /\ UNCHANGED result

Finish(w, with) ==
  /\ step' = [step EXCEPT ![w] = "done"]
  /\ result' = [result EXCEPT ![w] = with]

Paths(set) == {x.path : x \in set}

(* Lengths a file may have when writing s stops early. *)
Lengths(w, s) == {n \in 0 .. s.size : n <= limits[w].bytes /\ charged[w] + n <= limits[w].total}

----------------------------------------------------------------------------
(* The staging directory. *)

(* validate_bounds *)
BoundsValid(b) ==
  /\ b.bytes # 0 /\ b.total >= b.bytes
  /\ b.count <= HardCaps.count /\ b.bytes <= HardCaps.bytes /\ b.total <= HardCaps.total

(* The plan, the environment or the bounds may be refused first. *)
Create(w) ==
  /\ step[w] = "idle"
  /\ \/ published # None /\ Finish(w, "DestinationExists") /\ UNCHANGED limits
     \/ \E error \in {"Refused", "Io"} : Finish(w, error) /\ UNCHANGED limits
     \/ /\ published = None
        /\ \E asked \in BoundsAsked :
             BoundsValid(asked) /\ Goto(w, "open") /\ limits' = [limits EXCEPT ![w] = asked]
  /\ UNCHANGED <<place, queue, current, records, charged, tree>>

(* What prepare_bundle stages comes first and in order. *)
Expected(w, s) == IF queue[w] # <<>> THEN s = Head(queue[w]) ELSE s \in Others

(* add_artifact up to the first byte: the path is new, the count is not    *)
(* reached, and create_new finds nothing there.                            *)
Addable(w, s) ==
  /\ s.path \notin Paths(records[w])
  /\ Cardinality(records[w]) < limits[w].count
  /\ s.path \notin Paths(files[w])

Fits(w, s) == s.size <= limits[w].bytes /\ charged[w] + s.size <= limits[w].total

AddBegin(w) ==
  /\ step[w] = "open"
  /\ \E s \in Others \cup ToSet(Primary) :
       /\ Expected(w, s) /\ Addable(w, s)
       /\ current' = [current EXCEPT ![w] = s]
       /\ files' = [files EXCEPT ![w] = @ \cup {File(s.path, 0)}]
  /\ Goto(w, "copying")
  /\ UNCHANGED <<place, queue, limits, records, charged, manifest, disk>>

(* An artifact that cannot be begun costs a run in preparation its writer; *)
(* a later one changes nothing.                                            *)
AddRefused(w) ==
  /\ step[w] = "open" /\ queue[w] # <<>>
  /\ Finish(w, "Io") \/ (~Addable(w, Head(queue[w])) /\ Finish(w, "Refused"))
  /\ UNCHANGED <<place, writer, tree>>

Advance(w) == queue' = [queue EXCEPT ![w] = IF @ = <<>> THEN @ ELSE Tail(@)]

(* Mutant of CopyDone: the byte total is checked without what was charged. *)
CopyDoneUncharged(w) ==
  LET s == current[w] IN
  /\ step[w] = "copying" /\ s.size <= limits[w].bytes /\ s.size <= limits[w].total
  /\ files' = [files EXCEPT ![w] = (@ \ {File(s.path, 0)}) \cup {File(s.path, s.size)}]
  /\ records' = [records EXCEPT ![w] = @ \cup {s}]
  /\ charged' = [charged EXCEPT ![w] = @ + s.size]
  /\ current' = [current EXCEPT ![w] = None]
  /\ Advance(w) /\ Goto(w, "open")
  /\ UNCHANGED <<place, limits, manifest, disk>>

CopyDone(w) ==
  LET s == current[w] IN
  /\ step[w] = "copying" /\ Fits(w, s)
  /\ files' = [files EXCEPT ![w] = (@ \ {File(s.path, 0)}) \cup {File(s.path, s.size)}]
  /\ records' = [records EXCEPT ![w] = @ \cup {s}]
  /\ charged' = [charged EXCEPT ![w] = @ + s.size]
  /\ current' = [current EXCEPT ![w] = None]
  /\ Advance(w) /\ Goto(w, "open")
  /\ UNCHANGED <<place, limits, manifest, disk>>

(* Mutant of CopyFails: preparation goes on without the artifact. *)
CopyFailsQuietly(w) ==
  /\ step[w] = "copying"
  /\ files' = [files EXCEPT ![w] = @ \ {File(current[w].path, 0)}]
  /\ current' = [current EXCEPT ![w] = None]
  /\ Advance(w) /\ Goto(w, "open")
  /\ UNCHANGED <<place, limits, records, charged, manifest, disk>>

(* A bound is met or the disk fails.  The partial file is removed, if that *)
(* succeeds; nothing is charged.                                           *)
CopyFails(w) ==
  LET s == current[w] IN
  /\ step[w] = "copying"
  /\ \/ files' = [files EXCEPT ![w] = @ \ {File(s.path, 0)}]
     \/ \E n \in Lengths(w, s) :
          files' = [files EXCEPT ![w] = (@ \ {File(s.path, 0)}) \cup {File(s.path, n)}]
  /\ current' = [current EXCEPT ![w] = None]
  /\ IF queue[w] = <<>> THEN Goto(w, "open")
     ELSE Finish(w, "Io") \/ (~Fits(w, s) /\ Finish(w, "Refused"))
  /\ UNCHANGED <<place, queue, limits, records, charged, manifest, disk>>

(* The coordinator gives up on the evidence; the directory stays. *)
Drop(w) ==
  /\ step[w] = "open" /\ queue[w] = <<>>
  /\ Finish(w, "Dropped")
  /\ UNCHANGED <<place, writer, tree>>

----------------------------------------------------------------------------
(* The manifest. *)

(* The bytes of artifacts, one by one, and how many they are. *)
BytesOf(set) == UNION {{r} \X (1 .. r.size) : r \in set}
SizeSum(set) == Cardinality(BytesOf(set))
OfRole(set, role) == {r \in set : r.role = role}

(* BundleManifest::validate *)
ManifestValid(m) ==
  /\ BoundsValid(m.limits)
  /\ Cardinality(m.artifacts) <= m.limits.count
  /\ \A a, b \in m.artifacts : a.path = b.path => a = b
  /\ \A a \in m.artifacts : a.size <= m.limits.bytes
  /\ SizeSum(m.artifacts) <= m.limits.total
  /\ \A role \in {"ExperimentPlan", "ResolvedPlan", "EnvironmentFingerprint"} : Cardinality(OfRole(m.artifacts, role)) = 1
  /\ \A t, u \in m.trials : t.id = u.id => t = u
  /\ \A t \in m.trials :
       /\ \E a \in m.artifacts : a.path = t.result /\ a.role = "TrialResult"
       /\ t.artifacts \subseteq Paths(m.artifacts)

(* verify_artifact_tree: exactly the listed files, each as it was listed. *)
TreeMatches(present, listed) ==
  /\ Paths(present) = Paths(listed)
  /\ \A a \in listed : \A f \in present : f.path = a.path => f.size = a.size

(* Mutant of Finalize: the staged tree is not compared with the manifest. *)
FinalizeUnverified(w) ==
  /\ step[w] = "open" /\ queue[w] = <<>>
  /\ \E trials \in TrialLists :
       LET m == [limits |-> limits[w], artifacts |-> records[w], trials |-> trials]
       IN  /\ ManifestValid(m)
           /\ Goto(w, "manifest") /\ manifest' = [manifest EXCEPT ![w] = m]
  /\ UNCHANGED <<place, writer, files, disk>>

(* finalize up to the manifest file.  A valid manifest may still be too    *)
(* large, or its times be reversed by the clock.                           *)
Finalize(w) ==
  /\ step[w] = "open" /\ queue[w] = <<>>
  /\ \E trials \in TrialLists :
       LET m == [limits |-> limits[w], artifacts |-> records[w], trials |-> trials]
       IN  \/ /\ ManifestValid(m) /\ TreeMatches(files[w], records[w])
              /\ Goto(w, "manifest") /\ manifest' = [manifest EXCEPT ![w] = m]
           \/ /\ \E error \in {"Refused", "Io"} : Finish(w, error)
              /\ UNCHANGED manifest
  /\ UNCHANGED <<place, writer, files, disk>>

(* create_new of manifest.json, its bytes, sync of file and directory. *)
ManifestBegun(w) ==
  /\ step[w] = "manifest"
  /\ \/ Finish(w, "Io") /\ UNCHANGED disk
     \/ Goto(w, "writing") /\ disk' = [disk EXCEPT ![w] = "partial"]
  /\ UNCHANGED <<place, writer, files, manifest>>

ManifestWritten(w) ==
  /\ step[w] = "writing"
  /\ \/ \E state \in {"partial", "whole"} : Finish(w, "Io") /\ disk' = [disk EXCEPT ![w] = state]
     \/ Goto(w, "publish") /\ disk' = [disk EXCEPT ![w] = "whole"]
  /\ UNCHANGED <<place, writer, files, manifest>>

----------------------------------------------------------------------------
(* publish_staging *)

(* Mutant of RenameNoReplace: the flag is missing. *)
RenameReplaces(w) ==
  /\ protocol = "noreplace" /\ step[w] = "publish"
  /\ published' = w /\ Goto(w, "syncing")
  /\ UNCHANGED <<protocol, lock, writer, tree>>

(* Linux: renameat2 with RENAME_NOREPLACE. *)
RenameNoReplace(w) ==
  /\ protocol = "noreplace" /\ step[w] = "publish"
  /\ \/ published = None /\ published' = w /\ Goto(w, "syncing")
     \/ published # None /\ Finish(w, "DestinationExists") /\ UNCHANGED published
     \/ \E error \in {"Refused", "Io"} : Finish(w, error) /\ UNCHANGED published
  /\ UNCHANGED <<protocol, lock, writer, tree>>

(* Mutant of TakeLock: a lock that is there is waited for. *)
TakeLockWaits(w) ==
  /\ protocol = "lock" /\ step[w] = "publish" /\ lock = None
  /\ lock' = w /\ Goto(w, "locked")
  /\ UNCHANGED <<protocol, published, writer, tree>>

(* Elsewhere: create_new of the lock file, *)
TakeLock(w) ==
  /\ protocol = "lock" /\ step[w] = "publish"
  /\ \/ lock = None /\ lock' = w /\ Goto(w, "locked")
     \/ lock # None /\ Finish(w, "DestinationExists") /\ UNCHANGED lock
     \/ Finish(w, "Io") /\ UNCHANGED lock
  /\ UNCHANGED <<protocol, published, writer, tree>>

(* a second look at the destination, *)
CheckDestination(w) ==
  /\ step[w] = "locked"
  /\ \/ published = None /\ Goto(w, "renaming") /\ UNCHANGED lock
     \/ published # None /\ Finish(w, "DestinationExists") /\ lock' \in {None, lock}
  /\ UNCHANGED <<protocol, published, writer, tree>>

(* the rename, which does not replace a directory that is not empty, *)
RenameLocked(w) ==
  /\ step[w] = "renaming"
  /\ \/ published = None /\ published' = w /\ Goto(w, "unlocking")
     \/ UNCHANGED published /\ Goto(w, "unlocking")
  /\ UNCHANGED <<protocol, lock, writer, tree>>

(* and the removal of the lock file, whose failure is ignored. *)
Unlock(w) ==
  /\ step[w] = "unlocking"
  /\ lock' \in {None, lock}
  /\ \/ published = w /\ Goto(w, "syncing")
     \/ /\ published # w
        /\ \E error \in {"Refused", "Io"} : Finish(w, error)
  /\ UNCHANGED <<protocol, published, writer, tree>>

(* The bundle is published; its parent is synced and it is read back. *)
SyncParent(w) ==
  /\ step[w] = "syncing"
  /\ Goto(w, "reopening") \/ Finish(w, "Io")
  /\ UNCHANGED <<place, writer, tree>>

(* BundleReader::open and verify of the tree of writer w, at its final     *)
(* path; a staging path is refused by its name.                            *)
ReaderAccepts(w) ==
  /\ disk[w] = "whole"
  /\ ManifestValid(manifest[w])
  /\ TreeMatches(files[w], manifest[w].artifacts)

Reopen(w) ==
  /\ step[w] = "reopening"
  /\ \/ ReaderAccepts(w) /\ Finish(w, "Ok")
     \/ ~ReaderAccepts(w) /\ Finish(w, "Refused")
     \/ Finish(w, "Io")
  /\ UNCHANGED <<place, writer, tree>>

(* The process of the run dies; a file being written keeps some length.    *)
Crash(w) ==
  /\ step[w] \notin {"idle", "done", "crashed"}
  /\ Goto(w, "crashed")
  /\ IF step[w] = "copying"
     THEN \E n \in Lengths(w, current[w]) :
            files' = [files EXCEPT ![w] = (@ \ {File(current[w].path, 0)}) \cup {File(current[w].path, n)}]
     ELSE UNCHANGED files
  /\ IF step[w] = "writing" THEN disk' \in {[disk EXCEPT ![w] = state] : state \in {"partial", "whole"}}
     ELSE UNCHANGED disk
  /\ UNCHANGED <<place, writer, manifest>>

FinalizeStep(w) ==
  \/ ManifestBegun(w) \/ ManifestWritten(w) \/ RenameNoReplace(w) \/ TakeLock(w)
  \/ CheckDestination(w) \/ RenameLocked(w) \/ Unlock(w) \/ SyncParent(w) \/ Reopen(w)

Next ==
  \E w \in Writers :
    \/ Create(w) \/ AddBegin(w) \/ AddRefused(w) \/ CopyDone(w) \/ CopyFails(w) \/ Drop(w)
    \/ Finalize(w) \/ FinalizeStep(w) \/ Crash(w)

(* finalize is synchronous: once begun it runs to its end or the process   *)
(* dies.                                                                   *)
Spec == Init /\ [][Next]_vars /\ \A w \in Writers : WF_vars(FinalizeStep(w))

----------------------------------------------------------------------------
(* Properties. *)

(* Types; and preparation leaves nothing out on its way (prepare_bundle).  *)
TypeOK ==
  /\ protocol \in Protocols /\ {published, lock} \subseteq Writers \cup {None}
  /\ \A w \in Writers :
       /\ step[w] \in Steps
       /\ \E k \in 0 .. Len(Primary) :
            /\ queue[w] = SubSeq(Primary, k + 1, Len(Primary))
            /\ \A i \in 1 .. k : Primary[i] \in records[w]
       /\ step[w] = "copying" => current[w] \in Source
       /\ records[w] \subseteq Others \cup ToSet(Primary)
       /\ disk[w] \in {"absent", "partial", "whole"}
       /\ result[w] \in {None, "Ok", "DestinationExists", "Refused", "Io", "Dropped"}
       /\ (result[w] # None) = (step[w] = "done")

(* The writer's budget is what its registered artifacts take, whatever     *)
(* additions failed before (total_bytes and the partial-file cleanup of    *)
(* add_artifact): it is within the bounds, and each registered artifact is *)
(* on disk in full.                                                        *)
ChargedExactly ==
  \A w \in Writers :
    /\ charged[w] = SizeSum(records[w])
    /\ charged[w] <= limits[w].total
    /\ Cardinality(records[w]) <= limits[w].count
    /\ \A s \in records[w] : {f \in files[w] : f.path = s.path} = {File(s.path, s.size)}

(* A reader that finds the destination accepts and verifies it at every    *)
(* instant, also while its writer is not done, has failed or has crashed   *)
(* (finalize, verify_artifact_tree, BundleReader::open).                   *)
PublishedVerifies == published # None => ReaderAccepts(published)

(* What finalize reports is so: a run that is told Ok owns the             *)
(* destination, one that is told DestinationExists by renameat2 lost to    *)
(* another one, and one that gave up did not publish.                      *)
ResultsTruthful ==
  \A w \in Writers :
    /\ result[w] = "Ok" => published = w
    /\ result[w] \in {"DestinationExists", "Dropped"} => published # w
    /\ result[w] = "DestinationExists" /\ protocol = "noreplace" => published # None

(* OrchestrationError::Evidence: "the final bundle path was not published" *)
(* (orchestration.rs:654).  A run whose finalize failed left no bundle.    *)
FailedMeansUnpublished ==
  \A w \in Writers : result[w] \notin {None, "Ok"} => published # w

(* Publication fills the destination once, in one step, and nothing        *)
(* changes it afterwards (publish_staging, both variants).                 *)
Vacant == [by |-> None]

Bundle ==
  IF published = None THEN Vacant
  ELSE [by |-> published, files |-> files[published],
        manifest |-> manifest[published], disk |-> disk[published]]

Slot == INSTANCE BundleSlot WITH Nothing <- Vacant, slot <- Bundle

ImplementsSlot == Slot!Spec

(* finalize returns, also when another run crashed with the lock file in   *)
(* place: nothing in it waits for another run.                             *)
FinalizeReturns ==
  \A w \in Writers : step[w] \in Finalizing ~> step[w] \in {"done", "crashed"}
=============================================================================
