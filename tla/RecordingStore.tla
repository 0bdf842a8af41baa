--------------------------- MODULE RecordingStore ---------------------------
(***************************************************************************)
(* The recording directory as its three users share it: the writer that    *)
(* opens and closes segments (src/src/recording/writer.rs), the retention  *)
(* sweep that deletes them (retention.rs) and the RecordInfo lookup that   *)
(* reads index.jsonl (main.rs).  Nothing is shared but the files and the   *)
(* footprint counter; there is no lock.                                    *)
(*                                                                         *)
(* Segments are numbered in the order they are opened, which is the order  *)
(* of their start times.  The process may exit or crash at any step and be *)
(* restarted: files stay, memory goes.                                     *)
(***************************************************************************)
EXTENDS Naturals, Sequences, Functions

CONSTANTS
  Sizes,        \* sizes a segment may have when it is closed
  MaxTotal,     \* max_storage_mb: 0, or less than one segment, are legal
  MaxSegments,  \* bound: segments opened
  MaxCrashes,   \* bound: exits and restarts of the process
  MaxFaults     \* bound: file operations that fail

\* A segment is opened with the key unit in hand that goes in first.
ASSUME SizesAssumption == Sizes \subseteq Nat \ {0}
ASSUME MaxTotalAssumption == MaxTotal \in Nat
ASSUME MaxSegmentsAssumption == MaxSegments \in Nat
ASSUME MaxCrashesAssumption == MaxCrashes \in Nat
ASSUME MaxFaultsAssumption == MaxFaults \in Nat

VARIABLES
  \* files
  disk,      \* segments whose .h264 file exists
  size,      \* how large each is, 0 before it is closed
  index,     \* lines of index.jsonl
  \* memory of the writer
  wpc,       \* "idle" | "open" | "synced" | "indexed" | "failed"
  current,   \* segment last opened
  \* memory of the sweep
  spc,       \* "idle" | "age" | "cap" | "count" | "truncate" | "rewrite"
  aged,      \* loaded entries older than retention_days still to delete
  remaining, \* loaded entries the loop at hand has still to look at
  total,     \* size the sweep believes is in use
  deleted,   \* size of the files it has deleted
  pos,       \* write position of its index file handle, in lines
  \* shared memory
  bytes,     \* RECORDED_BYTES
  \* history
  indexed,   \* segments whose index line has been appended
  expired,   \* segments some sweep found past retention_days
  removed,   \* segments the sweep deleted
  saturated, \* more was subtracted from the footprint than was in it
  crashes, faults

storeFiles == <<disk, size, index>>
segWriter == <<wpc, current>>
sweep == <<spc, aged, remaining, total, deleted, pos>>
bounds == <<crashes, faults>>
history == <<indexed, expired, removed, saturated, bounds>>
storeVars == <<storeFiles, segWriter, sweep, bytes, history>>

Segments == 1..MaxSegments

\* u64::saturating_sub
Minus(a, b) == IF b > a THEN 0 ELSE a - b

SumOf(sizes, S) == FoldFunctionOnSet(LAMBDA a, b : a + b, 0, sizes, S)

\* What a set of segments takes on the disk.
SizeOf(S) == SumOf(size, S)

(* Type invariant: no counter exceeds what all the segments take.          *)
StoreTypeOK ==
  /\ disk \subseteq Segments /\ index \in Seq(Segments)
  /\ size \in [Segments -> Sizes \cup {0}]
  /\ wpc \in {"idle", "open", "synced", "indexed", "failed"}
  /\ current \in 0..MaxSegments
  /\ spc \in {"idle", "age", "cap", "count", "truncate", "rewrite"}
  /\ aged \in Seq(Segments) /\ remaining \in Seq(Segments)
  /\ pos \in 0..MaxSegments
  /\ {total, deleted, bytes} \subseteq 0..SizeOf(Segments)
  /\ indexed \subseteq Segments /\ expired \subseteq Segments
  /\ removed \subseteq Segments /\ saturated \in BOOLEAN
  /\ crashes \in 0..MaxCrashes /\ faults \in 0..MaxFaults

StoreInit ==
  /\ disk = {} /\ size = [s \in Segments |-> 0] /\ index = <<>>
  /\ wpc = "idle" /\ current = 0
  /\ spc = "idle" /\ aged = <<>> /\ remaining = <<>>
  /\ total = 0 /\ deleted = 0 /\ pos = 0
  /\ bytes = 0
  /\ indexed = {} /\ expired = {} /\ removed = {} /\ saturated = FALSE
  /\ crashes = 0 /\ faults = 0

-----------------------------------------------------------------------------
(* The writer.                                                             *)

\* Mutant: the segment is indexed when it is opened.
OpenSegment_Indexes ==
  /\ wpc = "idle" /\ current < MaxSegments
  /\ current' = current + 1 /\ disk' = disk \cup {current + 1}
  /\ index' = Append(index, current + 1)
  /\ wpc' = "open"
  /\ UNCHANGED <<size, sweep, bytes, history>>

\* Segment::open
OpenSegment ==
  /\ wpc = "idle" /\ current < MaxSegments
  /\ current' = current + 1 /\ disk' = disk \cup {current + 1}
  /\ wpc' = "open"
  /\ UNCHANGED <<size, index, sweep, bytes, history>>

\* Segment::close: fsync of the data, as large as append_au made it, and of
\* the sidecar ...
SyncSegment ==
  /\ wpc = "open" /\ wpc' = "synced"
  /\ \E n \in Sizes : size' = [size EXCEPT ![current] = n]
  /\ UNCHANGED <<disk, index, current, sweep, bytes, history>>

\* ... then RecordingIndex::append (O_APPEND: at the end as it is now) ...
AppendIndex ==
  /\ wpc = "synced" /\ wpc' = "indexed"
  /\ index' = Append(index, current)
  /\ indexed' = indexed \cup {current}
  /\ UNCHANGED <<disk, size, current, sweep, bytes, expired, removed, saturated,
                 bounds>>

\* ... and add_recorded_bytes, back in run_inner.
AddBytes ==
  /\ wpc = "indexed" /\ wpc' = "idle"
  /\ bytes' = bytes + size[current]
  /\ UNCHANGED <<storeFiles, current, sweep, history>>

\* Opening the file, writing it, the fsync, the sidecar or the append failed:
\* run_inner returns.
WriterFails ==
  /\ wpc \in {"idle", "open", "synced"} /\ wpc' = "failed"
  /\ faults < MaxFaults /\ faults' = faults + 1
  /\ UNCHANGED <<storeFiles, current, sweep, bytes, indexed, expired, removed,
                 saturated, crashes>>

-----------------------------------------------------------------------------
(* The sweep.                                                              *)

\* Mutant: newest first.
Load_Descending(cut) ==
  /\ spc = "idle" /\ index # <<>> /\ cut = 0
  /\ aged' = <<>>
  /\ remaining' = [k \in 1..Len(index) |-> index[Len(index) + 1 - k]]
  /\ total' = SizeOf(Range(remaining'))
  /\ deleted' = 0 /\ pos' = 0 /\ spc' = "age"
  /\ UNCHANGED <<storeFiles, segWriter, bytes, history>>

\* Mutant: aged entries are deleted and kept all the same.
Load_KeepsAged(cut) ==
  /\ spc = "idle" /\ index # <<>> /\ cut \in 0..Len(index)
  /\ aged' = SubSeq(index, 1, cut) /\ remaining' = index
  /\ expired' = expired \cup Range(aged')
  /\ total' = SizeOf(Range(index)) - SizeOf(Range(aged'))
  /\ deleted' = 0 /\ pos' = 0 /\ spc' = "age"
  /\ UNCHANGED <<storeFiles, segWriter, bytes, indexed, removed, saturated, bounds>>

\* RecordingIndex::load.  Entries 1..cut are past retention_days, which may be
\* 0: then every entry is, the one the writer has just appended included.
Load(cut) ==
  /\ spc = "idle" /\ index # <<>> /\ cut \in 0..Len(index)
  /\ aged' = SubSeq(index, 1, cut)
  /\ expired' = expired \cup Range(aged')
  /\ remaining' = SubSeq(index, cut + 1, Len(index))
  /\ total' = SizeOf(Range(remaining'))
  /\ deleted' = 0 /\ pos' = 0 /\ spc' = "age"
  /\ UNCHANGED <<storeFiles, segWriter, bytes, indexed, removed, saturated, bounds>>

\* delete_segment: false when the file is not there any more
Delete(s) ==
  /\ disk' = disk \ {s}
  /\ removed' = removed \cup ({s} \cap disk)
  /\ deleted' = IF s \in disk THEN deleted + size[s] ELSE deleted

\* Mutant: aged files are deleted without being counted.
DeleteAged_Uncounted ==
  /\ spc = "age" /\ aged # <<>>
  /\ disk' = disk \ {Head(aged)} /\ removed' = removed \cup {Head(aged)}
  /\ aged' = Tail(aged)
  /\ UNCHANGED <<size, index, segWriter, spc, remaining, total, deleted, pos,
                 bytes, indexed, expired, saturated, bounds>>

DeleteAged ==
  /\ spc = "age" /\ aged # <<>>
  /\ Delete(Head(aged)) /\ aged' = Tail(aged)
  /\ UNCHANGED <<size, index, segWriter, spc, remaining, total, pos, bytes,
                 indexed, expired, saturated, bounds>>

AgeDone ==
  /\ spc = "age" /\ aged = <<>> /\ spc' = "cap"
  /\ UNCHANGED <<storeFiles, segWriter, aged, remaining, total, deleted, pos,
                 bytes, history>>

\* remove_file failed otherwise: the file stays, its entry is dropped all the
\* same (aged, or over the cap).
DeleteFails ==
  /\ faults < MaxFaults /\ faults' = faults + 1
  /\ \/ /\ spc = "age" /\ aged # <<>> /\ Head(aged) \in disk
        /\ aged' = Tail(aged) /\ UNCHANGED remaining
     \/ /\ spc = "cap" /\ total > MaxTotal /\ remaining # <<>>
        /\ Head(remaining) \in disk
        /\ remaining' = Tail(remaining) /\ UNCHANGED aged
  /\ UNCHANGED <<storeFiles, segWriter, spc, total, deleted, pos, bytes,
                 indexed, expired, removed, saturated, crashes>>

\* Mutant: total is not updated.
DeleteOldest_SameTotal ==
  /\ spc = "cap" /\ total > MaxTotal /\ remaining # <<>>
  /\ Delete(Head(remaining)) /\ remaining' = Tail(remaining)
  /\ UNCHANGED <<size, index, segWriter, spc, aged, total, pos, bytes, indexed,
                 expired, saturated, bounds>>

\* total only shrinks when a file was really removed.
DeleteOldest ==
  /\ spc = "cap" /\ total > MaxTotal /\ remaining # <<>>
  /\ Delete(Head(remaining)) /\ remaining' = Tail(remaining)
  /\ total' = IF Head(remaining) \in disk
                THEN Minus(total, size[Head(remaining)]) ELSE total
  /\ UNCHANGED <<size, index, segWriter, spc, aged, pos, bytes, indexed, expired,
                 saturated, bounds>>

\* Mutant: one segment too many is kept.
CapDone_OffByOne ==
  /\ spc = "cap" /\ (total <= MaxTotal + 1 \/ remaining = <<>>)
  /\ spc' = IF deleted > 0 THEN "count" ELSE "idle"
  /\ UNCHANGED <<storeFiles, segWriter, aged, remaining, total, deleted, pos,
                 bytes, history>>

\* The rest is kept; the index is rewritten only if something was deleted.
CapDone ==
  /\ spc = "cap" /\ (total <= MaxTotal \/ remaining = <<>>)
  /\ spc' = IF deleted > 0 THEN "count" ELSE "idle"
  /\ UNCHANGED <<storeFiles, segWriter, aged, remaining, total, deleted, pos,
                 bytes, history>>

\* sub_recorded_bytes saturates at zero.
SubBytes ==
  /\ spc = "count" /\ spc' = "truncate"
  /\ bytes' = Minus(bytes, deleted)
  /\ saturated' = (saturated \/ deleted > bytes)
  /\ UNCHANGED <<storeFiles, segWriter, aged, remaining, total, deleted, pos,
                 indexed, expired, removed, bounds>>

\* File::create
Truncate ==
  /\ spc = "truncate" /\ spc' = "rewrite"
  /\ index' = <<>>
  /\ UNCHANGED <<disk, size, segWriter, aged, remaining, total, deleted, pos,
                 bytes, history>>

\* ... which may fail, after the bytes were subtracted.
TruncateFails ==
  /\ spc = "truncate" /\ spc' = "idle"
  /\ faults < MaxFaults /\ faults' = faults + 1
  /\ UNCHANGED <<storeFiles, segWriter, aged, remaining, total, deleted, pos,
                 bytes, indexed, expired, removed, saturated, crashes>>

\* writeln! at the handle's own position, over whatever is there by now
RewriteLine ==
  /\ spc = "rewrite" /\ remaining # <<>>
  /\ index' = IF pos < Len(index)
                THEN [index EXCEPT ![pos + 1] = Head(remaining)]
                ELSE Append(index, Head(remaining))
  /\ pos' = pos + 1 /\ remaining' = Tail(remaining)
  /\ UNCHANGED <<disk, size, segWriter, spc, aged, total, deleted, bytes, history>>

\* A write or the final sync failed: what is written so far is the index.
RewriteFails ==
  /\ spc = "rewrite" /\ spc' = "idle"
  /\ faults < MaxFaults /\ faults' = faults + 1
  /\ UNCHANGED <<storeFiles, segWriter, aged, remaining, total, deleted, pos,
                 bytes, indexed, expired, removed, saturated, crashes>>

RewriteDone ==
  /\ spc = "rewrite" /\ remaining = <<>> /\ spc' = "idle"
  /\ UNCHANGED <<storeFiles, segWriter, aged, remaining, total, deleted, pos,
                 bytes, history>>

-----------------------------------------------------------------------------
(* The process ends (every exit of the program leaves the open segment as  *)
(* it is) and starts again: run_inner seeds the footprint from the index.  *)
Restart ==
  /\ crashes < MaxCrashes /\ crashes' = crashes + 1
  /\ wpc' = "idle"
  /\ spc' = "idle" /\ aged' = <<>> /\ remaining' = <<>>
  /\ total' = 0 /\ deleted' = 0 /\ pos' = 0
  /\ bytes' = SizeOf(Range(index))
  /\ UNCHANGED <<storeFiles, current, indexed, expired, removed, saturated, faults>>

-----------------------------------------------------------------------------
StoreWriterStep ==
  OpenSegment \/ SyncSegment \/ AppendIndex \/ AddBytes \/ WriterFails

SweepStep ==
  \/ \E cut \in 0..MaxSegments : Load(cut)
  \/ DeleteAged \/ AgeDone \/ DeleteOldest \/ DeleteFails \/ CapDone
  \/ SubBytes \/ Truncate \/ TruncateFails \/ RewriteLine
  \/ RewriteFails \/ RewriteDone

StoreNext == StoreWriterStep \/ SweepStep \/ Restart

StoreSpec == StoreInit /\ [][StoreNext]_storeVars

-----------------------------------------------------------------------------
(* Properties                                                              *)

Indexed(s) == s \in Range(index)

\* The process has not been restarted and no file operation has failed.
Undisturbed == crashes = 0 /\ faults = 0

(* Deletion is oldest first across ages, caps and repeated sweeps that can *)
(* delete what they want to: no segment that is still listed and still on  *)
(* disk is older than one that was deleted.  A sweep gives up no more than *)
(* it must, as long as the index names no file that is gone: what was not  *)
(* past its age was deleted because it and the later ones exceeded the cap *)
(* (a cap below one segment, or no days of retention, takes the newest     *)
(* too).  The file being written is never deleted under the writer.        *)
OldestFirst ==
  /\ faults = 0 => \A r \in removed : \A s \in disk : Indexed(s) => r < s
  /\ Undisturbed => \A r \in removed \ expired :
                     SizeOf({s \in indexed : r <= s}) > MaxTotal
  /\ wpc \in {"open", "synced"} => current \in disk

(* The footprint counter is the size of the closed segments on disk, up to *)
(* the addition the writer and the subtraction the sweep still owe,        *)
(* although the two run concurrently, until a subtraction saturates.  One  *)
(* does only when the sweep has deleted the segment the writer has listed  *)
(* and not yet counted; from then on the counter may be too large and is   *)
(* never too small.                                                        *)
FootprintExact ==
  LET counted == bytes + (IF wpc = "indexed" THEN size[current] ELSE 0)
      used    == SizeOf(indexed \cap disk)
                   + (IF spc \in {"age", "cap", "count"} THEN deleted ELSE 0)
  IN  Undisturbed =>
        /\ counted >= used /\ (~saturated => counted = used)
        /\ spc = "count" /\ deleted > bytes =>
             wpc = "indexed" /\ current \in removed

(* "Reloads index.jsonl on every lookup so queries see freshly-written     *)
(* segments" (main.rs, DiskRecordingSource).  Refuted: an append that      *)
(* falls between the load and the rewrite of a sweep is wiped out, and     *)
(* nobody ever lists the segment again.                                    *)
IndexedStayListed ==
  spc = "idle" => \A s \in indexed \cap disk : Indexed(s)

(* Between sweeps the index names no file that is gone, whatever segments  *)
(* were closed while a sweep was deleting.  (With an exit between the      *)
(* deletions and the one rewrite at their end it does.)  And a sweep that  *)
(* deleted something leaves at most the cap of what it saw; a segment that *)
(* was open when a process ended is in no index and outside every cap.     *)
IndexNamesFiles ==
  /\ (Undisturbed /\ spc = "idle") => Range(index) \subseteq disk
  /\ spc \in {"count", "truncate"} =>
       SizeOf(Range(remaining) \cap disk) <= MaxTotal
=============================================================================
