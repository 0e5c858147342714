----------------------------- MODULE MCPageFlags -----------------------------
(* Instantiates PageFlags for TLC: two data writes, one to a direct node  *)
(* of inode n1 and one to inode n3 itself, whose node ids share a NAT     *)
(* block, in two segments sharing a SIT block; the flag operations are    *)
(* compiled in.                                                           *)
EXTENDS PageFlags

CONSTANTS t1, t2, n1, n2, n3, s1, s2

MCLoggers == {t1, t2}
MCInoOf == [t \in MCLoggers |-> IF t = t1 THEN n1 ELSE n3]
MCNidOf == [t \in MCLoggers |-> IF t = t1 THEN n2 ELSE n3]
MCSegOf == [t \in MCLoggers |-> IF t = t1 THEN s1 ELSE s2]
MCNatBlockOf == [n \in {n1, n2, n3} |-> 0]
MCSitBlockOf == [s \in {s1, s2} |-> 0]
=============================================================================
