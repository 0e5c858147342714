---------------------------- MODULE MCF2fsjEpoch ----------------------------
(* Instantiates F2fsjEpoch for TLC: two inodes, one foreground thread per  *)
(* inode (the VFS inode lock serialises operations on one inode).          *)
EXTENDS F2fsjEpoch

CONSTANTS i1, i2, p1, p2

MCInodes == {i1, i2}
MCProcs == {p1, p2}
MCInodeOf == [p \in MCProcs |-> IF p = p1 THEN i1 ELSE i2]
(* Two threads on the same inode, without the VFS lock between them. *)
MCSharedInodeOf == [p \in MCProcs |-> i1]
(* No foreground activity: the commit thread alone drives the epoch ring. *)
MCNoProcs == {}
MCNoInodeOf == [p \in MCNoProcs |-> i1]
=============================================================================
