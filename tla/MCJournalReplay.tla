--------------------------- MODULE MCJournalReplay --------------------------
(* Instantiates JournalReplay for TLC: two blocks of two slots, so that an *)
(* invalid entry can end one block with valid entries in the next. Types  *)
(* are one kind of each class: accepted by is_invalid_log_type (create,   *)
(* data-write), recognised by the spec but rejected by the code (chown),  *)
(* and a tag outside log_type_e; sizes are a full entry or a zeroed one.  *)
EXTENDS JournalReplay

MCTypes == {CREATE_LOG, CHOWN_LOG, DATA_WRITE_LOG, DATA_WRITE_LOG + 1}
MCSizes == {0, J_LOG_ENTRY_SIZE}
=============================================================================
