--------------------------- MODULE JournalReplay ---------------------------
(***************************************************************************)
(* Mount-time replay of the journal file (j_journal_file.c):              *)
(* recover_read_journal reads every page of the small file into the      *)
(* mapping, then iterate_journal walks it block by block and slot by      *)
(* slot, handing each entry to do_recover_from_journal until the first    *)
(* entry whose size is not J_LOG_ENTRY_SIZE or whose type                 *)
(* is_invalid_log_type rejects; that entry ends the whole replay.         *)
(*                                                                         *)
(* Before it, init_journal_file_info reads the journal superblock and    *)
(* rewrites it when its magic number is not JOURNAL_FILE_MAGIC_NUMBER.    *)
(*                                                                         *)
(* recover_read_journal reads the file in bios of PagesPerBio pages: all  *)
(* but the last are submitted with submit_bio and never waited on, the    *)
(* last with submit_bio_wait, and only the last bio's bi_status is        *)
(* tested. Pages are from alloc_page, not zeroed: a page whose read has   *)
(* not completed holds whatever the allocator left in it.                 *)
(*                                                                         *)
(* An entry is its log header: [size, type]. The journal on disk is any   *)
(* function from slots to entries, as a crash may leave it.               *)
(***************************************************************************)
EXTENDS Naturals, Sequences, LogLayout

CONSTANTS
  EntriesPerBlock,  \* J_LOG_ENTRY_PER_BLOCK
  BlocksPerFile,    \* JOURNAL_BLK_PER_SMALL_FILE
  PagesPerBio,      \* iovecs of j_alloc_bio_read (256)
  Types,            \* log_type values present on disk (log_type_e and junk)
  Sizes             \* log_size values present on disk

JOURNAL_FILE_MAGIC_NUMBER == 52719   \* 0xCDEF

\* As in the code (65536 = 256 * 256), the file is a whole number of bios.
ASSUME PagesPerBio > 0 /\ BlocksPerFile % PagesPerBio = 0

Slots == 0 .. EntriesPerBlock * BlocksPerFile - 1
Blocks == 0 .. BlocksPerFile - 1
BlockOf(k) == k \div EntriesPerBlock
Entry == [size : Sizes, type : Types]

VARIABLES
  journal,   \* on-disk content of every slot
  sb_magic,  \* j_magic_num of the on-disk journal superblock
  rpc,       \* mount step: "sb", "read", "iterate", "done", "failed"
  replayed,  \* entries handed to do_recover_from_journal, in order
  submitted, \* pages put in a bio that was submitted
  overrun,   \* the read loop indexed j_pages[] past the file
  inflight,  \* bios submitted with submit_bio whose read has not completed
  loaded,    \* pages whose content has been read into the mapping
  scanned    \* the mapping as iterate_journal read it

readVars == <<submitted, overrun, inflight, loaded, scanned>>
vars == <<journal, sb_magic, rpc, replayed, readVars>>

(* is_invalid_log_type: only five of the twelve kinds are accepted.       *)
IsInvalidLogType(t) ==
  t \notin {CREATE_LOG, MKDIR_LOG, UNLINK_LOG, RENAME_LOG, DATA_WRITE_LOG}

(* The test that ends iterate_journal (goto end).                          *)
EndsReplay(e) == e.size # J_LOG_ENTRY_SIZE \/ IsInvalidLogType(e.type)

(* Mutant: the invalid entry only ends its block (a break out of the inner *)
(* loop), and the walk goes on with the next block.                        *)
RECURSIVE IterBreak(_, _, _, _)
IterBreak(jn, i, j, acc) ==
  IF i = BlocksPerFile THEN acc
  ELSE IF j = EntriesPerBlock THEN IterBreak(jn, i + 1, 0, acc)
  ELSE LET e == jn[i * EntriesPerBlock + j] IN
       IF EndsReplay(e) THEN IterBreak(jn, i + 1, 0, acc)
       ELSE IterBreak(jn, i, j + 1, Append(acc, e))

(* iterate_journal: block i of the mapping, entry j within it.            *)
RECURSIVE Iter(_, _, _, _)
Iter(jn, i, j, acc) ==
  IF i = BlocksPerFile THEN acc
  ELSE IF j = EntriesPerBlock THEN Iter(jn, i + 1, 0, acc)
  ELSE LET e == jn[i * EntriesPerBlock + j] IN
       IF EndsReplay(e) THEN acc
       ELSE Iter(jn, i, j + 1, Append(acc, e))

IterateJournal(jn) == Iter(jn, 0, 0, <<>>)

(* Mutant: the nr_page == total_pages test is missing, so the last bio is *)
(* submitted without waiting and the loop goes on to j_pages[total].      *)
RECURSIVE ReadLoopNoBreak(_, _, _)
ReadLoopNoBreak(j, bio, r) ==
  IF j > BlocksPerFile THEN [r EXCEPT !.unsent = bio]
  ELSE LET full == j % PagesPerBio = 0 /\ j # 0
           r1   == IF full THEN [r EXCEPT !.async = @ \cup {bio}] ELSE r
           bio1 == IF full THEN {} ELSE bio
       IN  IF j \notin Blocks THEN [r1 EXCEPT !.overrun = TRUE, !.unsent = bio1]
           ELSE ReadLoopNoBreak(j + 1, bio1 \cup {j}, r1)

(* The page loop of recover_read_journal, j = nr_page from 0 while       *)
(* j <= total_pages: a full bio is submitted, with submit_bio_wait and an *)
(* exit when it ends the file, then page j is added. A bio still open     *)
(* when the loop ends is never submitted; a page index past j_pages[] is  *)
(* an overrun. Result: the async bios, the waited bio, the unsent pages.  *)
RECURSIVE ReadLoop(_, _, _)
ReadLoop(j, bio, r) ==
  IF j > BlocksPerFile THEN [r EXCEPT !.unsent = bio]
  ELSE LET full == j % PagesPerBio = 0 /\ j # 0 IN
       IF full /\ j = BlocksPerFile THEN [r EXCEPT !.waited = bio]
       ELSE LET r1   == IF full THEN [r EXCEPT !.async = @ \cup {bio}] ELSE r
                bio1 == IF full THEN {} ELSE bio
            IN  IF j \notin Blocks
                  THEN [r1 EXCEPT !.overrun = TRUE, !.unsent = bio1]
                  ELSE ReadLoop(j + 1, bio1 \cup {j}, r1)

ReadPages == ReadLoop(0, {}, [async |-> {}, waited |-> {}, unsent |-> {},
                              overrun |-> FALSE])

(* The mapping iterate_journal may find: pages read hold the disk         *)
(* content, the others whatever alloc_page left (chosen when first read,  *)
(* since nothing reads them before).                                      *)
MappingViews ==
  {v \in [Slots -> Entry] : \A k \in Slots :
     BlockOf(k) \in loaded => v[k] = journal[k]}

(* The mount starts from whatever the last run left on disk: a journal   *)
(* superblock written by F2FS-J, or any other block.                      *)
Init ==
  /\ journal \in [Slots -> Entry]
  /\ sb_magic \in {JOURNAL_FILE_MAGIC_NUMBER, 0}
  /\ rpc = "sb"
  /\ replayed = <<>>
  /\ submitted = {}
  /\ overrun = FALSE
  /\ inflight = {}
  /\ loaded = {}
  /\ scanned = journal

(* init_journal_file_info up to the read of the journal: sb_bread of the  *)
(* superblock, which may fail (return F2FSJ_ERROR); a superblock whose    *)
(* magic number is not 0xCDEF is re-initialised and synced; then the log  *)
(* entry slab is created, which may fail (return F2FSJ_ERROR); then       *)
(* mmap_journal_file and recover_read_journal.                            *)
InitJournalInfo ==
  /\ rpc = "sb"
  /\ \/ /\ rpc' = "failed"
        /\ UNCHANGED sb_magic
     \/ /\ sb_magic' = JOURNAL_FILE_MAGIC_NUMBER
        /\ rpc' \in {"read", "failed"}
  /\ UNCHANGED <<journal, replayed, readVars>>

(* recover_read_journal: the page loop submits its bios; the waited bio  *)
(* has completed when the loop exits. If its bi_status is set, the error  *)
(* is logged and iterate_journal is not called; the async bios are not    *)
(* looked at.                                                             *)
ReadJournal ==
  /\ rpc = "read"
  /\ LET r == ReadPages IN
     /\ submitted' = UNION r.async \cup r.waited
     /\ overrun' = r.overrun
     /\ inflight' = r.async
     /\ \/ /\ loaded' = r.waited
           /\ rpc' = "iterate"
        \/ /\ loaded' = {}
           /\ rpc' = "skipped"
  /\ UNCHANGED <<journal, sb_magic, replayed, scanned>>

(* The block layer completes an async read bio (j_read_end_io does        *)
(* nothing): its pages now hold the disk content, or, on an I/O error     *)
(* nobody tests, stay as they were.                                       *)
BioComplete ==
  /\ \E b \in inflight :
       /\ inflight' = inflight \ {b}
       /\ loaded' \in {loaded \cup b, loaded}
  /\ UNCHANGED <<journal, sb_magic, rpc, replayed, submitted, overrun, scanned>>

ReplayJournal ==
  /\ rpc = "iterate"
  /\ \E v \in MappingViews :
       /\ scanned' = v
       /\ replayed' = IterateJournal(v)
  /\ rpc' = "done"
  /\ UNCHANGED <<journal, sb_magic, submitted, overrun, inflight, loaded>>

Next == InitJournalInfo \/ ReadJournal \/ BioComplete \/ ReplayJournal

Spec == Init /\ [][Next]_vars

-----------------------------------------------------------------------------
TypeOK ==
  /\ journal \in [Slots -> Entry]
  /\ sb_magic \in {JOURNAL_FILE_MAGIC_NUMBER, 0}
  /\ rpc \in {"sb", "read", "iterate", "done", "failed", "skipped"}
  /\ replayed \in Seq(Entry)
  /\ submitted \subseteq Blocks
  /\ overrun \in BOOLEAN
  /\ inflight \subseteq SUBSET Blocks
  /\ loaded \subseteq Blocks
  /\ scanned \in [Slots -> Entry]

(* Reference scan: the entries of the journal in slot order, up to the    *)
(* first slot that Valid rejects.                                         *)
FirstRejected(jn, Valid(_)) ==
  LET bad == {k \in Slots : ~Valid(jn[k])} IN
  IF bad = {} THEN EntriesPerBlock * BlocksPerFile
  ELSE CHOOSE k \in bad : \A m \in bad : k <= m

ValidPrefix(jn, Valid(_)) ==
  [n \in 1 .. FirstRejected(jn, Valid) |-> jn[n - 1]]

CodeValid(e) == ~EndsReplay(e)

(* The nested block/slot walk of iterate_journal replays exactly the      *)
(* valid prefix of the mapping it scans, in block order (spec 6): the     *)
(* invalid entry ends the whole walk, not only its block, and no entry is *)
(* skipped.                                                               *)
ReplayIsValidPrefix ==
  rpc = "done" => replayed = ValidPrefix(scanned, CodeValid)

(* The read loop of recover_read_journal runs to j <= total_pages, one    *)
(* page beyond the file: its exit on nr_page == total_pages must fire     *)
(* first, so that no j_pages[] index past the file is taken, and every    *)
(* page of the file has been put in a submitted bio when replay starts.   *)
ReadCoversFile ==
  /\ ~overrun
  /\ rpc \in {"iterate", "done"} => submitted = Blocks

(* What replay hands on is the journal on disk: the valid prefix of the   *)
(* journal, whatever order the read bios complete in.                     *)
ReplayReadsDisk ==
  rpc = "done" => replayed = ValidPrefix(journal, CodeValid)

(* iterate_journal steps J_LOG_ENTRY_SIZE bytes from one entry to the    *)
(* next: every record it hands to do_recover_from_journal must fit in one *)
(* slot, or the tail of the record was read as the next entry's header.   *)
(* create_log_t fills the slot exactly.                                   *)
AcceptedRecordsFitEntry ==
  \A k \in DOMAIN replayed :
    SizeOf(RecordStruct(replayed[k].type)) <= J_LOG_ENTRY_SIZE

\* Spec 6: every recognised kind (create .. data-write) is a valid entry.
SpecValid(e) ==
  e.size = J_LOG_ENTRY_SIZE /\ e.type \in CREATE_LOG .. DATA_WRITE_LOG

(* Replay goes on past every recognised record kind: an entry of any kind *)
(* spec 6 lists does not end the replay of the entries after it.          *)
ReplayCoversSpecKinds ==
  rpc = "done" => replayed = ValidPrefix(scanned, SpecValid)

=============================================================================
