----------------------------- MODULE LogLayout ------------------------------
(***************************************************************************)
(* The log record layout of F2FS-J (src/f2fsj/j_log_content.h,            *)
(* j_log_basic.h): the record structs as C lays them out on the 64-bit    *)
(* kernel ABI (each scalar aligned to its size, a struct aligned to its   *)
(* widest member and padded to a multiple of it), and the log_type_e tags. *)
(* A field is [name, size, align]; a struct is the sequence of its fields; *)
(* offsets and sizeof are computed from it, never written down.           *)
(***************************************************************************)
EXTENDS Naturals, Sequences

\* log_type_e (j_log_content.h)
CREATE_LOG == 0
MKDIR_LOG == 1
UNLINK_LOG == 2
LINK_LOG == 3
RENAME_LOG == 4
SYMLINK_LOG == 5
CHOWN_LOG == 6
DIR_LOG == 7
READ_FILE_DATA_LOG == 8
READ_DIR_LOG == 9
STAT_LOG == 10
DATA_WRITE_LOG == 11

LogTypes == CREATE_LOG .. DATA_WRITE_LOG

\* The size of one journal slot; iterate_journal steps by it.
J_LOG_ENTRY_SIZE == 128

-----------------------------------------------------------------------------
(* C layout rules.                                                         *)
RoundUp(x, a) == ((x + a - 1) \div a) * a
GreaterOf(a, b) == IF a >= b THEN a ELSE b

Scalar(n, s) == [name |-> n, size |-> s, align |-> s]
ArrayOf(n, k, s) == [name |-> n, size |-> k * s, align |-> s]

(* Offset of field i and of the ones after it, the previous field ending  *)
(* at off: each field starts at the next multiple of its alignment.       *)
RECURSIVE OffsetsFrom(_, _, _)
OffsetsFrom(S, i, off) ==
  IF i > Len(S) THEN <<>>
  ELSE LET o == RoundUp(off, S[i].align)
       IN  <<o>> \o OffsetsFrom(S, i + 1, o + S[i].size)

Offsets(S) == OffsetsFrom(S, 1, 0)

RECURSIVE AlignFrom(_, _)
AlignFrom(S, i) ==
  IF i > Len(S) THEN 1 ELSE GreaterOf(S[i].align, AlignFrom(S, i + 1))

AlignOf(S) == AlignFrom(S, 1)

(* sizeof: the end of the last field, padded to the struct's alignment.   *)
SizeOf(S) ==
  RoundUp(Offsets(S)[Len(S)] + S[Len(S)].size, AlignOf(S))

OffsetOf(S, n) == Offsets(S)[CHOOSE i \in DOMAIN S : S[i].name = n]

(* A member that is itself a struct, and an anonymous union.             *)
Nested(n, S) == [name |-> n, size |-> SizeOf(S), align |-> AlignOf(S)]
UnionOf(n, members) ==
  LET a == AlignFrom(members, 1)
      RECURSIVE Widest(_)
      Widest(i) == IF i > Len(members) THEN 0
                   ELSE GreaterOf(members[i].size, Widest(i + 1))
  IN  [name |-> n, size |-> RoundUp(Widest(1), a), align |-> a]

\* Kernel types of the 64-bit ABI.
timespec64 == <<Scalar("tv_sec", 8), Scalar("tv_nsec", 8)>>

-----------------------------------------------------------------------------
(* The structs of j_log_content.h.                                         *)
j_log_head_t == <<Scalar("log_type", 4), Scalar("log_size", 4)>>

j_nat_entry_t ==
  <<Scalar("j_nid", 4), Scalar("j_ino", 4), Scalar("j_node_lba", 4)>>

j_sit_log_t ==
  <<Scalar("j_sit_cur_seg", 4), Scalar("segno", 4),
    Scalar("j_nr_valid_block", 4), Scalar("bitmap_size", 4),
    Scalar("j_bitmap", 8)>>

j_ssa_log_entry_t ==
  <<Scalar("j_cur_seg_no", 4), Scalar("blk_ofs_in_inode", 2),
    Scalar("block_addr", 4), Scalar("j_nid", 4)>>

(* The fields of j_new_inode_log_t before i_dir_level.                    *)
NewInodeHead ==
  <<Scalar("i_mode", 2), Scalar("i_advise", 1), Scalar("i_inline", 1),
    Scalar("i_uid", 4), Scalar("i_gid", 4), Scalar("i_links", 4),
    Scalar("i_size", 8), Scalar("i_blocks", 8), Scalar("i_atime", 8),
    Scalar("i_ctime", 8), Scalar("i_mtime", 8), Scalar("i_atime_nsec", 4),
    Scalar("i_ctime_nsec", 4), Scalar("i_mtime_nsec", 4),
    Scalar("i_generation", 4),
    UnionOf("depth_or_gc", <<Scalar("i_current_depth", 4),
                             Scalar("i_gc_failures", 2)>>),
    Scalar("i_xattr_nid", 4), Scalar("i_flags", 4), Scalar("i_pino", 4),
    Scalar("i_ino", 4), Scalar("i_namelen", 4), ArrayOf("i_name", 16, 1)>>

(* Mutant: the commented-out 12-byte extent (struct f2fs_extent i_ext)    *)
(* put back after i_dir_level.                                            *)
j_new_inode_log_t_ext ==
  NewInodeHead \o <<Scalar("i_dir_level", 1), ArrayOf("i_ext", 3, 4)>>

j_new_inode_log_t == NewInodeHead \o <<Scalar("i_dir_level", 1)>>

parent_inode_basic_attr_t ==
  <<Nested("c_time", timespec64), Nested("m_time", timespec64),
    Scalar("i_size", 8)>>

data_write_log_t ==
  <<Nested("log_header", j_log_head_t), Scalar("is_inline_data", 1),
    Scalar("ino_num", 4), Scalar("page_ofs", 4), Scalar("file_size", 8),
    Nested("nat_en_log", j_nat_entry_t), Nested("sit_log", j_sit_log_t),
    Nested("ssa_en_log", j_ssa_log_entry_t)>>

read_stat_log_t ==
  <<Nested("log_header", j_log_head_t), Scalar("ino_num", 4),
    Scalar("access_time_s", 8), Scalar("access_time_ns", 8)>>

create_log_t ==
  <<Nested("log_header", j_log_head_t),
    Nested("j_new_ino_log", j_new_inode_log_t)>>

j_dir_log_t ==
  <<Nested("log_header", j_log_head_t), Scalar("inline_dir_or_regular", 1),
    Scalar("hash_code", 4), Scalar("ino", 4), Scalar("parent_ino", 4),
    Scalar("name_len", 2), Scalar("file_type", 1),
    ArrayOf("file_name", 16, 1),
    Nested("pino_basic_attr", parent_inode_basic_attr_t)>>

delete_log_t ==
  <<Nested("log_header", j_log_head_t), Scalar("ino_num", 4),
    Scalar("parent_ino_num", 4), Scalar("ino_nlink", 4),
    ArrayOf("file_name", 16, 1), Scalar("i_namelen", 1),
    Nested("nat_log", j_nat_entry_t)>>

symlink_log_t ==
  <<Nested("log_header", j_log_head_t),
    Nested("j_new_inode", j_new_inode_log_t),
    Scalar("j_symlink_name_len", 2), ArrayOf("j_symlink_name", 32, 1),
    Nested("nat_en_log", j_nat_entry_t), Nested("sit_log", j_sit_log_t),
    Nested("ssa_en_log", j_ssa_log_entry_t)>>

\* Neither of these two starts with a j_log_head_t.
rename_log_t == <<Nested("j_inode", j_new_inode_log_t)>>

chown_log_t ==
  <<Scalar("ino_num", 4), Scalar("user_id", 4), Scalar("group_id", 4),
    Scalar("i_size", 8), Nested("mtime", timespec64),
    Nested("ctime", timespec64)>>

(* The struct a record of each type is written as: the union members of   *)
(* j_log_contents_t, as get_cp_info_from_log casts them (symlink is read  *)
(* through create_log_t, whose prefix it shares). LINK_LOG has none.      *)
RecordTypes == LogTypes \ {LINK_LOG}

RecordStruct(t) ==
  CASE t \in {CREATE_LOG, MKDIR_LOG} -> create_log_t
    [] t = SYMLINK_LOG -> symlink_log_t
    [] t = UNLINK_LOG -> delete_log_t
    [] t = RENAME_LOG -> rename_log_t
    [] t = CHOWN_LOG -> chown_log_t
    [] t = DIR_LOG -> j_dir_log_t
    [] t \in {READ_FILE_DATA_LOG, READ_DIR_LOG, STAT_LOG} -> read_stat_log_t
    [] t = DATA_WRITE_LOG -> data_write_log_t

=============================================================================
