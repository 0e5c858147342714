---------------------------- MODULE MCLogRecord -----------------------------
(* Instantiates LogRecord for TLC: every record kind the classification   *)
(* table lists, two inode numbers (neither equal to a log_type_e tag that *)
(* the checkpoint reads), one NAT nid, one SIT segno and one owner.       *)
EXTENDS LogRecord

MCTypes == {CREATE_LOG, SYMLINK_LOG, UNLINK_LOG, DIR_LOG, DATA_WRITE_LOG,
            CHOWN_LOG}
MCInos == {20, 21}
MCNids == {40}
MCSegnos == {50}
MCUids == {70}
(* Kinds the classification table does not list.                          *)
MCUnlistedTypes == {RENAME_LOG, STAT_LOG}
=============================================================================
