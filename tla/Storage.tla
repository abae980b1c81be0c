-------------------------------- MODULE Storage --------------------------------
(***************************************************************************)
(* The Storage Analyzer: deep scans and their cache, one-tap cleanups and  *)
(* guarded deletes over a small tree of files.                             *)
(*                                                                         *)
(* A path is a node; Above maps each node to its directory.  Scans, cleans *)
(* and deletes of several connections interleave with one another and with *)
(* the programs that use the disk.                                         *)
(***************************************************************************)
EXTENDS Naturals, FiniteSets, FiniteSetsExt

CONSTANTS
  Nodes,
  Root,           \* "/"
  Above,          \* [Nodes -> Nodes], Root to itself
  Directories,
  Size,           \* [Nodes -> Nat]; 0 for a directory
  Blocklist,      \* Manager.protected
  CacheDirs,      \* cacheSpec.dirs of the user's caches
  TmpRoot,
  TmuxDirs,       \* directories named tmux-*
  Excluded,       \* deepScanExcludes
  Unremovable,    \* files of another user: os.Remove alone fails
  LargeSize,      \* MinSizeBytes
  Users,
  MaxCreations    \* bound: files that appear or are written again

VARIABLES
  disk,        \* the nodes that exist
  aged,        \* files older than tmpMaxAge
  lastScan,    \* lastDeepScan, while deepScanCacheTTL lasts
  use,         \* each user's call
  report,      \* the last deep scan that was answered
  cleaned,     \* history: what a cleanup of old files has removed that was not old
  creations

storageVars == <<disk, aged, lastScan, use, report, cleaned, creations>>

NoScan == [some |-> FALSE, files |-> {}, total |-> 0]
NoUse == [at |-> "idle", path |-> Root, scan |-> NoScan, renewed |-> {}]

Files == Nodes \ Directories
SizeOf(s) == MapThenSumSet(LAMBDA n : Size[n], s)

\* The directories over a node, and everything at or below a directory.
AboveAll[n \in Nodes] == IF n = Root THEN {Root} ELSE {n} \cup AboveAll[Above[n]]
Under(d) == {n \in Nodes : d \in AboveAll[n]}
Walk(d, skipped) == {n \in disk \cap Under(d) : \A s \in skipped : s \notin AboveAll[n] \/ s = d}

\* protectedPathReason: the path itself is in the blocklist.
Protected(p) == p = Root \/ p \in Blocklist

\* scanLargeFiles and the categories of Scan.
LargeFiles == {f \in Files \cap Walk(Root, Excluded) : Size[f] >= LargeSize}
CacheFiles == UNION {Walk(d, {}) : d \in CacheDirs} \cap Files

\* Mutant: the age of a file is not looked at.
TmpFilesOfAnyAge == Files \cap Walk(TmpRoot, TmuxDirs)

\* Mutant: tmux directories are walked like any other.
TmpOldFilesAll == {f \in Files \cap Walk(TmpRoot, {}) : f \in aged}

\* tmpOldFiles: whatever is not a directory, is old, and is in no tmux-* one.
TmpOldFiles == {f \in Files \cap Walk(TmpRoot, TmuxDirs) : f \in aged}
Categories == SizeOf(CacheFiles) + SizeOf(TmpOldFiles)

Ends(u) == use' = [use EXCEPT ![u] = NoUse]

(* DeepScan *)

DeepScanCached(u) ==
  /\ use[u].at = "idle" /\ lastScan.some
  /\ report' = lastScan
  /\ UNCHANGED <<disk, aged, lastScan, use, cleaned, creations>>

\* No cached result, or a forced scan.
DeepScanWalks(u) ==
  /\ use[u].at = "idle"
  /\ use' = [use EXCEPT ![u] = [NoUse EXCEPT !.at = "walked", !.scan.files = LargeFiles]]
  /\ UNCHANGED <<disk, aged, lastScan, report, cleaned, creations>>

DeepScanStores(u) ==
  LET files == use[u].scan.files
      scan == [some |-> TRUE, files |-> files, total |-> SizeOf(files) + Categories]
  IN
  /\ use[u].at = "walked"
  /\ lastScan' = scan /\ report' = scan
  /\ Ends(u)
  /\ UNCHANGED <<disk, aged, cleaned, creations>>

(* Clean *)

\* clearDir, for each cache: its contents go, the directory is made again.
\* RemoveAll leaves what it may not remove, and the directories over that.
CleanCaches(u) ==
  /\ use[u].at = "idle"
  /\ disk' = disk \ UNION {{n \in Under(d) \ {d} : Under(n) \cap Unremovable \cap disk = {}} : d \in CacheDirs}
  /\ UNCHANGED <<aged, lastScan, use, report, cleaned, creations>>

\* The old files are listed, and removed afterwards one by one.
CleanTmpLists(u) ==
  /\ use[u].at = "idle"
  /\ use' = [use EXCEPT ![u] = [NoUse EXCEPT !.at = "cleaning", !.scan.files = TmpOldFiles]]
  /\ UNCHANGED <<disk, aged, lastScan, report, cleaned, creations>>

\* How a file that a cleanup takes is none of the old temporary files: "stray" when
\* it could not have been on the list, "renewed" when it was written since.
Faults(u, f) ==
  IF f \notin Under(TmpRoot) \/ AboveAll[f] \cap TmuxDirs # {} THEN {"stray"}
  ELSE IF f \in aged THEN {}
  ELSE IF f \in use[u].renewed THEN {"renewed"} ELSE {"stray"}

CleanTmpRemoves(u, f) ==
  /\ use[u].at = "cleaning" /\ f \in use[u].scan.files
  /\ disk' = IF f \in Unremovable THEN disk ELSE disk \ {f}
  /\ use' = [use EXCEPT ![u].scan.files = @ \ {f}, ![u].renewed = @ \ {f}]
  /\ cleaned' = cleaned \cup UNION {Faults(u, n) : n \in disk \ disk'}
  /\ UNCHANGED <<aged, lastScan, report, creations>>

CleanTmpEnds(u) ==
  /\ use[u].at = "cleaning" /\ use[u].scan.files = {}
  /\ Ends(u)
  /\ UNCHANGED <<disk, aged, lastScan, report, cleaned, creations>>

(* DeletePath *)

\* Mutant: a directory is not looked up, as it is to be removed recursively.
DeleteGuardFilesOnly(u, p) ==
  /\ use[u].at = "idle" /\ p \in disk
  /\ p \in Directories \/ ~Protected(p)
  /\ use' = [use EXCEPT ![u] = [NoUse EXCEPT !.at = "deleting", !.path = p]]
  /\ UNCHANGED <<disk, aged, lastScan, report, cleaned, creations>>

\* The guard and the size, before anything is removed.
DeleteGuard(u, p) ==
  /\ use[u].at = "idle" /\ p \in disk
  /\ ~Protected(p)
  /\ use' = [use EXCEPT ![u] = [NoUse EXCEPT !.at = "deleting", !.path = p]]
  /\ UNCHANGED <<disk, aged, lastScan, report, cleaned, creations>>

\* Remove or RemoveAll, as the user or escalated: all of it goes.
DeleteRemoves(u) ==
  /\ use[u].at = "deleting"
  /\ disk' = disk \ Under(use[u].path)
  /\ Ends(u)
  /\ UNCHANGED <<aged, lastScan, report, cleaned, creations>>

\* RemoveAll stops at what it may not remove, and the escalation fails.
DeleteFails(u) ==
  /\ use[u].at = "deleting"
  /\ \E gone \in {{}, (Under(use[u].path) \cap Files) \ Unremovable} : disk' = disk \ gone
  /\ Ends(u)
  /\ UNCHANGED <<aged, lastScan, report, cleaned, creations>>

(* The disk's other users, and time *)

\* A file written now, which a cleanup may have on its list from before.
Renews(f) ==
  /\ aged' = aged \ {f}
  /\ use' = [u \in Users |-> IF use[u].at = "cleaning"
                          THEN [use[u] EXCEPT !.renewed = @ \cup ({f} \cap use[u].scan.files)]
                          ELSE use[u]]

Creates(f) ==
  /\ f \in Files \ disk /\ Above[f] \in disk
  /\ creations < MaxCreations
  /\ creations' = creations + 1
  /\ disk' = disk \cup {f}
  /\ Renews(f)
  /\ UNCHANGED <<lastScan, report, cleaned>>

\* A program uses a temporary file again.
Writes(f) ==
  /\ f \in disk \cap aged
  /\ creations < MaxCreations
  /\ creations' = creations + 1
  /\ Renews(f)
  /\ UNCHANGED <<disk, lastScan, report, cleaned>>

\* Nobody asks for the age of a file elsewhere.
AgesFile(f) ==
  /\ f \in (Files \cap disk \cap Under(TmpRoot)) \ aged
  /\ aged' = aged \cup {f}
  /\ UNCHANGED <<disk, lastScan, use, report, cleaned, creations>>

ScanExpires ==
  /\ lastScan.some
  /\ lastScan' = NoScan
  /\ UNCHANGED <<disk, aged, use, report, cleaned, creations>>

StorageInit ==
  /\ disk = Nodes
  /\ aged = {} /\ cleaned = {}
  /\ lastScan = NoScan /\ report = NoScan
  /\ use = [u \in Users |-> NoUse]
  /\ creations = 0

StorageNext ==
  \/ \E u \in Users :
       \/ DeepScanCached(u) \/ DeepScanWalks(u) \/ DeepScanStores(u)
       \/ CleanCaches(u) \/ CleanTmpLists(u) \/ CleanTmpEnds(u)
       \/ DeleteRemoves(u) \/ DeleteFails(u)
       \/ \E n \in Nodes : CleanTmpRemoves(u, n) \/ DeleteGuard(u, n)
  \/ \E f \in Files : Creates(f) \/ Writes(f) \/ AgesFile(f)
  \/ ScanExpires

StorageSpec == StorageInit /\ [][StorageNext]_storageVars

-----------------------------------------------------------------------------
StorageTypeOK ==
  /\ disk \subseteq Nodes /\ aged \subseteq Files
  /\ use \in [Users -> [at : {"idle", "walked", "cleaning", "deleting"}, path : Nodes,
                        scan : [some : BOOLEAN, files : SUBSET Files, total : Nat],
                        renewed : SUBSET Files]]
  /\ cleaned \subseteq {"stray", "renewed"}
  /\ creations \in 0..MaxCreations

\* A cleanup of old temporary files takes files of the temporary directory only,
\* none of a live terminal session, and none that is fresh, however cleanups,
\* deletes and the programs that write the files interleave (tmpOldFiles, Clean).
\* Left out is a file that was old when it was listed and was written since.
CleanTakesOnlyJunk == "stray" \notin cleaned

\* "/tmp cleanup only touches regular files older than the age threshold".
\* Not so: the age is looked at when the files are listed.
CleanTakesOnlyOld == cleaned = {}

\* A protected path goes only with a directory over it that is not protected,
\* and that somebody asked to delete.
TakesFromAbove ==
  \A p \in Blocklist :
    p \in disk /\ p \notin disk'
      => \E u \in Users : /\ use[u].at = "deleting" /\ p \in Under(use[u].path)
                          /\ use[u].path \notin Blocklist \cup {Root}
GoesOnlyFromAbove == [][TakesFromAbove]_storageVars

\* Why: a delete that waits has passed the guard, and a cleanup has on its list
\* what it found in the temporary directory outside the tmux-* ones, each file
\* old still or written since.
StorageInv ==
  /\ StorageTypeOK /\ CleanTakesOnlyJunk
  /\ \A u \in Users :
       /\ use[u].at = "deleting" => use[u].path \notin Blocklist \cup {Root}
       /\ use[u].at = "cleaning" => \A f \in use[u].scan.files :
            f \in Under(TmpRoot) /\ AboveAll[f] \cap TmuxDirs = {} /\ f \in aged \cup use[u].renewed

\* "this package only owns the guard that refuses to ever delete a protected
\* path".  Not so: a directory over one may be deleted with all it holds.
ProtectedSurvive == Blocklist \subseteq disk

\* What a deep scan says can be reclaimed fits on the disk.  Not so: a large
\* file in a cache, or an old one in the temporary directory, is counted twice.
ReclaimableIsReal == report.total <= SizeOf(Nodes)
=============================================================================
