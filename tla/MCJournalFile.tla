---------------------------- MODULE MCJournalFile ---------------------------
(* Instantiates JournalFile for TLC: a file of five blocks of two slots   *)
(* and bios of two pages, so that a commit range spans a full bio, the    *)
(* file wraps within a few commits, and halves of a range differ.        *)
EXTENDS JournalFile

CONSTANTS w1, w2

MCWriters == {w1, w2}
MCOneWriter == {w1}
=============================================================================
