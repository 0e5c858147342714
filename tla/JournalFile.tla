---------------------------- MODULE JournalFile ----------------------------
(***************************************************************************)
(* The journal ring store of F2FS-J (j_journal_file.c): one memory-mapped *)
(* small file of fixed-size log entry slots packed into blocks.           *)
(*                                                                         *)
(*  - writer threads reserve a slot under j_file_memap_lock               *)
(*    (j_alloc_log_entry) and then write the log into the mapped page;    *)
(*  - the commit thread, once per committed epoch, writes the in-use     *)
(*    block range of the mapping to disk (write_current_mmap_j_file); on  *)
(*    its first tick it zero-fills the journal                           *)
(*    (clear_journal_file_after_recovery);                               *)
(*  - the checkpoint thread zeroes the on-disk used-space accounting      *)
(*    (reset_on_disk_journal_space_info).                                 *)
(*                                                                         *)
(* A log is a number; slot content 0 is a zeroed entry. Blocks are        *)
(* addressed as in the code: absolute LBAs from FileStart for the         *)
(* watermark and the range, 0-based indices into j_pages for the pages.   *)
(***************************************************************************)
EXTENDS Integers, FiniteSets

CONSTANTS
  Writers,          \* threads issuing logged file operations
  EntriesPerBlock,  \* J_LOG_ENTRY_PER_BLOCK
  BlocksPerFile,    \* JOURNAL_BLK_PER_SMALL_FILE
  FileStart,        \* j_cur_file_start_blk (JORNAL_FILE_0_START_BLK)
  BioPages,         \* pages per bio in write_current_mmap_j_file (256)
  MaxAllocs,        \* bound: log entries allocated
  MaxCommits,       \* bound: calls of write_current_mmap_j_file
  AddrWrap,         \* modulus of the uint32_t block arithmetic
  FreeThreshold     \* (0.05) * JOURNAL_FILE_SIZE, in pages

ASSUME EntriesPerBlock >= 1 /\ BlocksPerFile >= 1 /\ BioPages >= 1
ASSUME FileStart \in Nat /\ MaxAllocs \in Nat /\ MaxCommits \in Nat
\* The code wraps at 2^32, beyond TLC's integers; any power of two far above
\* the file's block count behaves the same, as every wrapped difference then
\* exceeds each loop index and page count the file can produce.
ASSUME AddrWrap > 4 * (FileStart + BlocksPerFile)
ASSUME FreeThreshold \in 0 .. BlocksPerFile

EntriesPerFile == EntriesPerBlock * BlocksPerFile   \* J_LOG_ENTRY_PER_FILE
Slots  == 0 .. EntriesPerFile - 1
Pages  == 0 .. BlocksPerFile - 1
LogIds == 1 .. MaxAllocs
Zero   == 0

\* J_LOG_ENTRY_TO_BLK: the block of the file holding a slot.
BlockOf(k) == k \div EntriesPerBlock

\* uint32_t arithmetic of the block counters.
Sub32(a, b) == (a - b) % AddrWrap
\* used_file_size is uint32_t bytes and grows by pages * PAGE_SIZE (4096),
\* so counted in pages it wraps at 2^32 / 4096.
UsedWrap == 1048576

\* g_on_disk_j_file.total_file_size: JOURNAL_FILE_SIZE bytes, which is
\* JOURNAL_BLK_PER_SMALL_FILE pages.
TotalPages == BlocksPerFile

FState == {"IDLE", "INUSE", "WHOLE_WAIT", "PARTIAL_WAIT"}   \* j_file_state_e

VARIABLES
  file_state,    \* j_file_mmap[0].j_file_state
  cur_idx,       \* j_file_mmap[0].j_cur_log_entry_idx: next slot to hand out
  first_inused,  \* j_file_mmap[0].j_cur_file_first_inused_blk
  used_pages,    \* g_on_disk_j_file.used_file_size / PAGE_SIZE
  mem,           \* content of each slot in the mapped pages
  disk,          \* content of each slot in the on-disk journal
  wpc, w_slot, w_log,   \* writer threads: pc, reserved slot, its log
  next_log,      \* logs issued so far
  jpc,           \* commit thread: "idle" or "write" after the snapshot
  snap_idx,      \* cur_log_entry_idx read under the lock by the commit
  commits,       \* writes done so far
  cleared,       \* is_clean_jfile
  overwritten,   \* history: logs whose slot was reused before reaching disk
  zeroed,        \* history: logs zero-filled before reaching disk
  overrun,       \* history: a page past j_pages[] was added to a bio
  cp_tick,       \* checkpoint thread: cp_thread_cnt % 3
  cp_pending,    \* g_checkpoint_list is not empty
  written        \* history: pages submitted to disk since the last reset

vars == <<file_state, cur_idx, first_inused, used_pages, mem, disk, wpc,
          w_slot, w_log, next_log, jpc, snap_idx, commits, cleared,
          overwritten, zeroed, overrun, cp_tick, cp_pending, written>>
cpVars == <<cp_tick, cp_pending, written>>

(* mmap_journal_file and init_journal_file_info: file IDLE, index 0,      *)
(* watermark at the file start, no space used.                            *)
Init ==
  /\ file_state = "IDLE"
  /\ cur_idx = 0
  /\ first_inused = FileStart
  /\ used_pages = 0
  /\ mem = [k \in Slots |-> Zero]
  /\ disk = [k \in Slots |-> Zero]
  /\ wpc = [w \in Writers |-> "idle"]
  /\ w_slot = [w \in Writers |-> 0]
  /\ w_log = [w \in Writers |-> Zero]
  /\ next_log = 0
  /\ jpc = "idle"
  /\ snap_idx = 0
  /\ commits = 0
  /\ cleared = FALSE
  /\ overwritten = {}
  /\ zeroed = {}
  /\ overrun = FALSE
  /\ cp_tick = 0
  /\ cp_pending = FALSE
  /\ written = 0

\* A log still only in memory: the slot holds it and the disk does not.
Unsaved(k) == mem[k] # Zero /\ disk[k] # mem[k]

-----------------------------------------------------------------------------
(* j_alloc_log_entry, under j_file_memap_lock: hand out slot cur_idx and  *)
(* advance. At J_LOG_ENTRY_PER_FILE the file is marked WHOLE_WAIT and, in *)
(* the same critical section, reused at once: index 0, INUSE, watermark   *)
(* back to the file start. The WHOLE_WAIT early return is thus never met. *)
(* Mutant: the file is only reused one slot too late.                     *)
WrapsAtLate(k) == k + 1 > EntriesPerFile

WrapsAt(k) == k + 1 = EntriesPerFile

Alloc(w) ==
  LET k == cur_idx IN
  /\ wpc[w] = "idle"
  /\ next_log < MaxAllocs
  /\ file_state # "WHOLE_WAIT"
  /\ next_log' = next_log + 1
  /\ wpc' = [wpc EXCEPT ![w] = "fill"]
  /\ w_slot' = [w_slot EXCEPT ![w] = k]
  /\ w_log' = [w_log EXCEPT ![w] = next_log + 1]
  /\ IF WrapsAt(k)
       THEN /\ cur_idx' = 0
            /\ file_state' = "INUSE"
            /\ first_inused' = FileStart
       ELSE /\ cur_idx' = k + 1
            /\ file_state' = "PARTIAL_WAIT"
            /\ UNCHANGED first_inused
  /\ UNCHANGED <<used_pages, mem, disk, jpc, snap_idx, commits, cleared,
                 overwritten, zeroed, overrun, cpVars>>

(* The caller writes its log through log_entry_addr into the mapped page, *)
(* replacing whatever the slot held.                                      *)
Fill(w) ==
  LET k == w_slot[w] IN
  /\ wpc[w] = "fill"
  /\ mem' = [mem EXCEPT ![k] = w_log[w]]
  /\ overwritten' = overwritten \cup (IF Unsaved(k) THEN {mem[k]} ELSE {})
  /\ wpc' = [wpc EXCEPT ![w] = "idle"]
  /\ w_log' = [w_log EXCEPT ![w] = Zero]
  /\ UNCHANGED <<file_state, cur_idx, first_inused, used_pages, disk,
                 w_slot, next_log, jpc, snap_idx, commits, cleared, zeroed,
                 overrun, cpVars>>

-----------------------------------------------------------------------------
(* write_current_mmap_j_file, first part: cur_log_entry_idx is read under *)
(* the lock; everything after runs without it. epoch_commit has linked    *)
(* the epoch's batch onto g_checkpoint_list before it persists.           *)
CommitSnap ==
  /\ jpc = "idle"
  /\ cleared
  /\ commits < MaxCommits
  /\ snap_idx' = cur_idx
  /\ jpc' = "write"
  /\ cp_pending' = TRUE
  /\ UNCHANGED <<file_state, cur_idx, first_inused, used_pages, mem, disk,
                 wpc, w_slot, w_log, next_log, commits, cleared, overwritten,
                 zeroed, overrun, cp_tick, written>>

(* The page loop of write_current_mmap_j_file. Its bound end_blk -        *)
(* start_blk is re-evaluated (in uint32) while start_blk advances; page j *)
(* is j_pages[j] counted from 0; a full bio is submitted before the next  *)
(* page is added; the open bio is only submitted when nr_page reaches     *)
(* total_pages at the top of an iteration. A page index past j_pages[]    *)
(* stops the walk as an overrun. Result: the pages submitted, the final   *)
(* start_blk and whether the walk overran.                                *)
RECURSIVE PageLoop(_, _, _, _, _, _, _)
PageLoop(j, nr, sb, e, total, bio, sent) ==
  IF ~(j <= Sub32(e, sb))
    THEN [sent |-> sent, sb |-> sb, overrun |-> FALSE]
  ELSE IF nr = total
    THEN [sent |-> sent \cup bio, sb |-> sb, overrun |-> FALSE]
  ELSE
    LET full  == nr % BioPages = 0 /\ nr # 0
        sent1 == IF full THEN sent \cup bio ELSE sent
        bio1  == IF full THEN {} ELSE bio
    IN  IF j \notin Pages
          THEN [sent |-> sent1, sb |-> sb, overrun |-> TRUE]
          ELSE PageLoop(j + 1, nr + 1, (sb + 1) % AddrWrap, e, total,
                        bio1 \cup {j}, sent1)

\* The range the commit writes: from the watermark to the block of the
\* snapshot index (end_blk), and its page count (total_pages, uint32).
EndBlk == BlockOf(snap_idx) + FileStart
WriteLoop == PageLoop(0, 0, first_inused, EndBlk,
                      Sub32(EndBlk + 1, first_inused), {}, {})

(* write_current_mmap_j_file, second part: a file in a WAIT_COMMIT state  *)
(* has its pages written; each submitted page carries the mapping's       *)
(* current content to disk. The watermark becomes end_blk and the used    *)
(* space grows by end_blk - start_blk + 1 pages, with start_blk as the    *)
(* loop left it.                                                          *)
CommitWrite ==
  /\ jpc = "write"
  /\ IF file_state \in {"WHOLE_WAIT", "PARTIAL_WAIT"}
       THEN LET r == WriteLoop IN
            /\ disk' = [k \in Slots |->
                          IF BlockOf(k) \in r.sent THEN mem[k] ELSE disk[k]]
            /\ first_inused' = EndBlk
            /\ used_pages' = (used_pages + Sub32(EndBlk + 1, r.sb))
                               % UsedWrap
            /\ overrun' = (overrun \/ r.overrun)
            /\ written' = written + Cardinality(r.sent)
       ELSE UNCHANGED <<disk, first_inused, used_pages, overrun, written>>
  /\ jpc' = "idle"
  /\ commits' = commits + 1
  /\ UNCHANGED <<file_state, cur_idx, mem, wpc, w_slot, w_log, next_log,
                 snap_idx, cleared, overwritten, zeroed, cp_tick,
                 cp_pending>>

(* First tick of j_ep_commit_kthread: clear_journal_file_after_recovery   *)
(* zero-fills every mapped page and writes them all, synchronously for    *)
(* the last bio. The allocation index and the watermark are left as is.   *)
ClearJournal ==
  /\ jpc = "idle"
  /\ ~cleared
  /\ mem' = [k \in Slots |-> Zero]
  /\ disk' = [k \in Slots |-> Zero]
  /\ zeroed' = zeroed \cup {mem[k] : k \in {s \in Slots : Unsaved(s)}}
  /\ cleared' = TRUE
  /\ UNCHANGED <<file_state, cur_idx, first_inused, used_pages, wpc, w_slot,
                 w_log, next_log, jpc, snap_idx, commits, overwritten,
                 overrun, cpVars>>

(* get_on_disk_free_journal_space: total minus used, or -1 when used     *)
(* exceeds total (counted here in pages; any negative value acts alike).  *)
FreeSpace ==
  IF TotalPages >= used_pages THEN TotalPages - used_pages ELSE -1

(* One wake-up of j_checkpoint_kthread. Both triggers sit inside          *)
(* if (free): free space at or below 5% of the file, or every third tick; *)
(* each runs epoch_checkpoint only on a non-empty g_checkpoint_list. The  *)
(* checkpoint frees every batch and ends with                             *)
(* reset_on_disk_journal_space_info, so a second trigger in the same tick *)
(* finds the list empty.                                                  *)
CheckpointDue(free, tick) ==
  /\ free # 0
  /\ cp_pending
  /\ free <= FreeThreshold \/ tick % 3 = 0

CheckpointTick ==
  LET tick == (cp_tick + 1) % 3 IN
  /\ cp_tick' = tick
  /\ IF CheckpointDue(FreeSpace, tick)
       THEN /\ used_pages' = 0
            /\ cp_pending' = FALSE
            /\ written' = 0
       ELSE UNCHANGED <<used_pages, cp_pending, written>>
  /\ UNCHANGED <<file_state, cur_idx, first_inused, mem, disk, wpc, w_slot,
                 w_log, next_log, jpc, snap_idx, commits, cleared,
                 overwritten, zeroed, overrun>>

Next ==
  \/ \E w \in Writers : Alloc(w) \/ Fill(w)
  \/ CommitSnap \/ CommitWrite \/ ClearJournal \/ CheckpointTick

Spec == Init /\ [][Next]_vars

(* The checkpoint kthread wakes every second, whatever the other threads  *)
(* do, so its tick is weakly fair; writers and commits get no fairness.   *)
FairSpec == Spec /\ WF_vars(CheckpointTick)

-----------------------------------------------------------------------------
TypeOK ==
  /\ file_state \in FState
  /\ cur_idx \in Slots
  /\ first_inused \in Nat
  /\ used_pages \in 0 .. UsedWrap - 1
  /\ mem \in [Slots -> {Zero} \cup LogIds]
  /\ disk \in [Slots -> {Zero} \cup LogIds]
  /\ wpc \in [Writers -> {"idle", "fill"}]
  /\ w_slot \in [Writers -> Slots]
  /\ jpc \in {"idle", "write"}
  /\ snap_idx \in Slots
  /\ commits \in 0 .. MaxCommits
  /\ cp_tick \in 0 .. 2
  /\ cp_pending \in BOOLEAN

(* A commit makes durable every entry it covers: after                    *)
(* write_current_mmap_j_file, each slot allocated before the snapshot in  *)
(* the blocks from the watermark to end_blk holds on disk what the        *)
(* mapping holds (spec 4.3, persist).                                     *)
CommitDurable ==
  [][jpc = "write" /\ file_state \in {"WHOLE_WAIT", "PARTIAL_WAIT"}
     => \A k \in Slots :
          /\ k < snap_idx
          /\ BlockOf(k) + FileStart >= first_inused
          => disk'[k] = mem[k]]_vars

(* Wraparound never reuses a slot whose log has not reached disk (spec 8, *)
(* ring wraparound safety: no slot index is lost).                        *)
NoUncommittedOverwrite == overwritten = {}

(* The commit never adds a page past the mapping to a bio: the watermark  *)
(* it leaves behind never lies past the block the allocator is filling.   *)
NoPageOverrun == ~overrun

(* The post-recovery clear only zeroes entries of the previous mount, not *)
(* logs that writers of this mount already placed in the mapping.         *)
NoLogZeroedByClear == zeroed = {}

(* The on-disk used-space accounting counts the journal pages the        *)
(* commits have written since the last checkpoint reset (spec 4.3:        *)
(* persist updates the used-space accounting, get_free_space() is total - *)
(* used), as write_current_mmap_j_file adds its page count after the loop.*)
UsedSpaceAccountsWrites == used_pages = written

(* Every batch epoch_commit links onto g_checkpoint_list is eventually    *)
(* consumed by epoch_checkpoint from j_checkpoint_kthread (spec 4.4 and   *)
(* the timeout trigger of spec 4.3).                                      *)
PendingBatchCheckpointed == cp_pending ~> ~cp_pending

=============================================================================
