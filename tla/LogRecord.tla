----------------------------- MODULE LogRecord ------------------------------
(***************************************************************************)
(* One journal slot, as a record is written into it and as the commit     *)
(* thread classifies it (get_cp_info_from_log, j_checkpoint.c).           *)
(*                                                                         *)
(* The slot is a byte array of J_LOG_ENTRY_SIZE bytes, little-endian. The *)
(* writer is the caller of j_alloc_log_entry: it stores the log header    *)
(* {log_type, log_size} at the slot start and the record's fields at      *)
(* their offsets in the struct of its type, in either order. Only the     *)
(* identity fields the classification reads are modelled, with the      *)
(* fields get_inode_log_from_f2fs_inode and get_delete_log_from_f2fs_inode *)
(* fill for create and unlink records.                                     *)
(***************************************************************************)
EXTENDS Naturals, Sequences, LogLayout

CONSTANTS
  Types,    \* log types written
  Inos,     \* inode numbers (never 0, which means "no inode")
  Nids,     \* node ids of a write's NAT snapshot
  Segnos,   \* segment numbers of a write's SIT snapshot
  Uids      \* owners of a chown

ASSUME Types \subseteq RecordTypes
ASSUME \A v \in Inos \cup Nids \cup Segnos \cup Uids : v \in 1 .. 255

Bytes == 0 .. J_LOG_ENTRY_SIZE - 1
Record == [type : Types, ino : Inos, pino : Inos, nid : Nids,
           segno : Segnos, uid : Uids]
CpInfo == [log_inode_id : Nat, log_node_id : Nat, log_segno : Nat]
NoRecord == [type |-> LINK_LOG, ino |-> 0, pino |-> 0, nid |-> 0,
             segno |-> 0, uid |-> 0]

(* A little-endian store of w bytes of v at off, and the matching load.   *)
Store(img, off, w, v) ==
  [b \in Bytes |-> IF off <= b /\ b < off + w
                     THEN (v \div (256 ^ (b - off))) % 256
                     ELSE img[b]]

RECURSIVE Load(_, _, _)
Load(img, off, w) ==
  IF w = 0 THEN 0 ELSE img[off] + 256 * Load(img, off + 1, w - 1)

(* The offset of field f of the member m of struct S, whose type is M.    *)
At(S, m, M, f) == OffsetOf(S, m) + OffsetOf(M, f)

(* The log header: j_log_head_t at the start of the slot.                 *)
HeaderStores(r) ==
  << <<OffsetOf(j_log_head_t, "log_type"), 4, r.type>>,
     <<OffsetOf(j_log_head_t, "log_size"), 4, J_LOG_ENTRY_SIZE>> >>

(* The identity fields of each record type, at their offsets in its      *)
(* struct: the new inode's i_ino and i_pino (get_inode_log_from_f2fs_inode), *)
(* the deleted inode and its parent (get_delete_log_from_f2fs_inode), a  *)
(* dir entry's inode and parent, a write's inode, NAT nid and SIT segno, *)
(* and a chown's target inode and owner.                                 *)
BodyStores(r) ==
  CASE r.type \in {CREATE_LOG, MKDIR_LOG} ->
         << <<At(create_log_t, "j_new_ino_log", j_new_inode_log_t, "i_pino"), 4, r.pino>>,
            <<At(create_log_t, "j_new_ino_log", j_new_inode_log_t, "i_ino"), 4, r.ino>> >>
    [] r.type = SYMLINK_LOG ->
         << <<At(symlink_log_t, "j_new_inode", j_new_inode_log_t, "i_pino"), 4, r.pino>>,
            <<At(symlink_log_t, "j_new_inode", j_new_inode_log_t, "i_ino"), 4, r.ino>> >>
    [] r.type = UNLINK_LOG ->
         << <<OffsetOf(delete_log_t, "ino_num"), 4, r.ino>>,
            <<OffsetOf(delete_log_t, "parent_ino_num"), 4, r.pino>> >>
    [] r.type = DIR_LOG ->
         << <<OffsetOf(j_dir_log_t, "ino"), 4, r.ino>>,
            <<OffsetOf(j_dir_log_t, "parent_ino"), 4, r.pino>> >>
    [] r.type = DATA_WRITE_LOG ->
         << <<OffsetOf(data_write_log_t, "ino_num"), 4, r.ino>>,
            <<At(data_write_log_t, "nat_en_log", j_nat_entry_t, "j_nid"), 4, r.nid>>,
            <<At(data_write_log_t, "sit_log", j_sit_log_t, "segno"), 4, r.segno>> >>
    [] r.type = CHOWN_LOG ->
         << <<OffsetOf(chown_log_t, "ino_num"), 4, r.ino>>,
            <<OffsetOf(chown_log_t, "user_id"), 4, r.uid>> >>
    [] OTHER -> <<>>

RECURSIVE StoreAll(_, _)
StoreAll(img, s) ==
  IF s = <<>> THEN img
  ELSE StoreAll(Store(img, Head(s)[1], Head(s)[2], Head(s)[3]), Tail(s))

(* get_cp_info_from_log: the type is read from the header at the slot     *)
(* start; the ids from the struct its branch casts the slot to; a type no *)
(* branch knows leaves the zeroed cp_info, which is linked all the same.  *)
GetCpInfo(img) ==
  LET t == Load(img, OffsetOf(j_log_head_t, "log_type"), 4)
      Id(o) == Load(img, o, 4)
  IN
  CASE t \in {CREATE_LOG, MKDIR_LOG, SYMLINK_LOG} ->
         [log_inode_id |-> Id(At(create_log_t, "j_new_ino_log",
                                  j_new_inode_log_t, "i_ino")),
          log_node_id |-> 0, log_segno |-> 0]
    [] t = DIR_LOG ->
         [log_inode_id |-> Id(OffsetOf(j_dir_log_t, "parent_ino")),
          log_node_id |-> 0, log_segno |-> 0]
    [] t = DATA_WRITE_LOG ->
         [log_inode_id |-> Id(OffsetOf(data_write_log_t, "ino_num")),
          log_node_id |-> Id(At(data_write_log_t, "nat_en_log",
                                j_nat_entry_t, "j_nid")),
          log_segno |-> Id(At(data_write_log_t, "sit_log",
                              j_sit_log_t, "segno"))]
    [] t = CHOWN_LOG ->
         [log_inode_id |-> Id(OffsetOf(chown_log_t, "ino_num")),
          log_node_id |-> 0, log_segno |-> 0]
    [] t = UNLINK_LOG ->
         [log_inode_id |-> Id(OffsetOf(delete_log_t, "ino_num")),
          log_node_id |-> 0, log_segno |-> 0]
    [] OTHER -> [log_inode_id |-> 0, log_node_id |-> 0, log_segno |-> 0]

VARIABLES
  slot,      \* the bytes of the journal slot
  rec,       \* the record the writer builds (NoRecord before)
  stored,    \* the parts of it stored so far: "header", "body"
  kpc,       \* classification: "wait", "linked", "error"
  cp_info    \* the cp_info get_cp_info_from_log linked

vars == <<slot, rec, stored, kpc, cp_info>>

(* The slot as j_alloc_log_entry hands it out: zeroed by the first-tick  *)
(* clear of the mapping.                                                   *)
Init ==
  /\ slot = [b \in Bytes |-> 0]
  /\ rec = NoRecord
  /\ stored = {}
  /\ kpc = "wait"
  /\ cp_info = [log_inode_id |-> 0, log_node_id |-> 0, log_segno |-> 0]

(* A file operation picks the record it logs.                             *)
Begin ==
  /\ rec = NoRecord
  /\ rec' \in Record
  /\ UNCHANGED <<slot, stored, kpc, cp_info>>

StoreHeader ==
  /\ rec # NoRecord
  /\ "header" \notin stored
  /\ slot' = StoreAll(slot, HeaderStores(rec))
  /\ stored' = stored \cup {"header"}
  /\ UNCHANGED <<rec, kpc, cp_info>>

StoreBody ==
  /\ rec # NoRecord
  /\ "body" \notin stored
  /\ slot' = StoreAll(slot, BodyStores(rec))
  /\ stored' = stored \cup {"body"}
  /\ UNCHANGED <<rec, kpc, cp_info>>

(* The commit thread, aggregating the inode's list, classifies the log:   *)
(* alloc_log_cp_info_memory may fail, and so may the writeback a data    *)
(* write triggers; either returns F2FSJ_ERROR before list_add_tail.       *)
Classify ==
  /\ stored = {"header", "body"}
  /\ kpc = "wait"
  /\ \/ /\ kpc' = "linked"
        /\ cp_info' = GetCpInfo(slot)
     \/ /\ kpc' = "error"
        /\ UNCHANGED cp_info
  /\ UNCHANGED <<slot, rec, stored>>

Next == Begin \/ StoreHeader \/ StoreBody \/ Classify

Spec == Init /\ [][Next]_vars

-----------------------------------------------------------------------------
TypeOK ==
  /\ slot \in [Bytes -> 0 .. 255]
  /\ rec \in Record \cup {NoRecord}
  /\ stored \subseteq {"header", "body"}
  /\ kpc \in {"wait", "linked", "error"}
  /\ cp_info \in CpInfo

(* The triple spec 4 (classification rules) gives each record kind.       *)
SpecCpInfo(r) ==
  CASE r.type \in {CREATE_LOG, MKDIR_LOG, SYMLINK_LOG, CHOWN_LOG, UNLINK_LOG} ->
         [log_inode_id |-> r.ino, log_node_id |-> 0, log_segno |-> 0]
    [] r.type = DIR_LOG ->
         [log_inode_id |-> r.pino, log_node_id |-> 0, log_segno |-> 0]
    [] r.type = DATA_WRITE_LOG ->
         [log_inode_id |-> r.ino, log_node_id |-> r.nid, log_segno |-> r.segno]

Classified == {CREATE_LOG, MKDIR_LOG, SYMLINK_LOG, CHOWN_LOG, UNLINK_LOG,
               DIR_LOG, DATA_WRITE_LOG}

(* The cp_info get_cp_info_from_log links for a record names the inode,   *)
(* node and segment the spec's table gives its kind, whichever order the *)
(* writer stored header and fields in; a record of a kind the table does *)
(* not list is dropped, not linked.                                        *)
ClassifyMatchesSpec ==
  kpc = "linked" =>
    /\ rec.type \in Classified
    /\ cp_info = SpecCpInfo(rec)

(* Every record type of j_log_contents_t fits in one J_LOG_ENTRY_SIZE     *)
(* slot, so that storing it never runs into the next slot.                *)
AllRecordsFitEntry ==
  \A t \in RecordTypes : SizeOf(RecordStruct(t)) <= J_LOG_ENTRY_SIZE

=============================================================================
