------------------------------ MODULE PageFlags ------------------------------
(***************************************************************************)
(* The page-flag side of log collection in F2FS-J (j_log_operate.c):      *)
(* j_get_nat_log_entry, j_get_sit_log_entry and j_get_ssa_log_entry move  *)
(* every metadata page a data-write log covers from "dirty" to            *)
(* "journal dirty" (steps 1 and 2 of the protocol of j_log_basic.h) by    *)
(* calling one helper per page and flag.                                  *)
(*                                                                         *)
(* Each helper fetches its page with f2fs_get_node_page or                *)
(* f2fs_get_meta_page, which return the page locked (lock_page) and       *)
(* referenced, and returns without f2fs_put_page: the lock is never       *)
(* released. The flag operation itself is compiled only when the build    *)
(* defines ENABLE_F2FSJ; the fetch is not under the #if.                  *)
(*                                                                         *)
(* Besides the loggers, the host file system takes the same page locks:   *)
(* an f2fs update of a metadata page (lock, modify, set_page_dirty,       *)
(* unlock) and the f2fs_write_checkpoint that epoch_checkpoint calls,      *)
(* which locks each dirty page to write it.                               *)
(***************************************************************************)
EXTENDS Naturals, Sequences

CONSTANTS
  Loggers,       \* threads collecting the logs of a data write
  InoOf,         \* InoOf[t]: nat_e->ni.ino of the node the write changed
  NidOf,         \* NidOf[t]: that node's id
  SegOf,         \* SegOf[t]: curseg->segno of the write's segment type
  NatBlockOf,    \* current_nat_addr: NAT block of a node id
  SitBlockOf,    \* current_sit_addr: SIT block of a segment
  ENABLE_F2FSJ   \* build flag around the flag operations

ASSUME ENABLE_F2FSJ \in BOOLEAN

NoOwner == "none"
Ckpt    == "ckpt"    \* the checkpoint thread, inside f2fs_write_checkpoint

(* The four helpers of each kind differ only in the page they fetch.      *)
NodePage(nid) == <<"NODE", nid>>
NatPage(nid)  == <<"NAT", NatBlockOf[nid]>>
SitPage(seg)  == <<"SIT", SitBlockOf[seg]>>
SsaPage(seg)  == <<"SSA", seg>>

Call(op, pg) == [op |-> op, pg |-> pg]

(* The helper calls of each getter, in the order of its body.             *)
NatLogCalls(t) ==
  << Call("clear", NodePage(InoOf[t])), Call("setj", NodePage(InoOf[t])),
     Call("clear", NodePage(NidOf[t])), Call("setj", NodePage(NidOf[t])),
     Call("clear", NatPage(NidOf[t])), Call("setj", NatPage(NidOf[t])) >>
SitLogCalls(t) == << Call("clear", SitPage(SegOf[t])), Call("setj", SitPage(SegOf[t])) >>
SsaLogCalls(t) == << Call("clear", SsaPage(SegOf[t])), Call("setj", SsaPage(SegOf[t])) >>

(* A data_write_log_t is filled with its NAT, SIT and SSA entries in that *)
(* order (field order of the record; the caller is host code).            *)
LogCalls(t) == NatLogCalls(t) \o SitLogCalls(t) \o SsaLogCalls(t)

Pages ==
  UNION {{LogCalls(t)[k].pg : k \in 1 .. Len(LogCalls(t))} : t \in Loggers}

VARIABLES
  owner,     \* holder of each page's lock (PG_locked)
  dirty,     \* PG_dirty
  jdirty,    \* PG_Jdirty
  lpc,       \* lpc[t]: index of the logger's next helper call
  kpc        \* checkpoint thread: "idle" or "write"

vars == <<owner, dirty, jdirty, lpc, kpc>>

Done(t) == lpc[t] > Len(LogCalls(t))

(* Every page the write changed is dirty in the page cache, unlocked.     *)
Init ==
  /\ owner = [pg \in Pages |-> NoOwner]
  /\ dirty = [pg \in Pages |-> TRUE]
  /\ jdirty = [pg \in Pages |-> FALSE]
  /\ lpc = [t \in Loggers |-> 1]
  /\ kpc = "idle"

(* One helper: f2fs_get_*_page waits for the page lock and returns with   *)
(* it held; the NULL test never fails for a page it returned; under       *)
(* ENABLE_F2FSJ, clear_page_dirty_for_io or setPageJournalDirty; return   *)
(* without releasing the page.                                            *)
FlagHelper(t) ==
  LET c == LogCalls(t)[lpc[t]] IN
  /\ ~Done(t)
  /\ owner[c.pg] = NoOwner
  /\ owner' = [owner EXCEPT ![c.pg] = t]
  /\ dirty' = IF ENABLE_F2FSJ /\ c.op = "clear"
                THEN [dirty EXCEPT ![c.pg] = FALSE] ELSE dirty
  /\ jdirty' = IF ENABLE_F2FSJ /\ c.op = "setj"
                 THEN [jdirty EXCEPT ![c.pg] = TRUE] ELSE jdirty
  /\ lpc' = [lpc EXCEPT ![t] = @ + 1]
  /\ UNCHANGED kpc

(* An f2fs update of a metadata page: lock_page, change, set_page_dirty,  *)
(* unlock_page.                                                           *)
HostUpdate(pg) ==
  /\ owner[pg] = NoOwner
  /\ dirty' = [dirty EXCEPT ![pg] = TRUE]
  /\ UNCHANGED <<owner, jdirty, lpc, kpc>>

(* epoch_checkpoint calls f2fs_write_checkpoint, which locks and writes   *)
(* every dirty node and meta page; it waits on any it cannot lock.        *)
CkptBegin ==
  /\ kpc = "idle"
  /\ kpc' = "write"
  /\ UNCHANGED <<owner, dirty, jdirty, lpc>>

CkptWrite ==
  /\ kpc = "write"
  /\ \A pg \in Pages : dirty[pg] => owner[pg] = NoOwner
  /\ dirty' = [pg \in Pages |-> FALSE]
  /\ kpc' = "idle"
  /\ UNCHANGED <<owner, jdirty, lpc>>

Next ==
  \/ \E t \in Loggers : FlagHelper(t)
  \/ \E pg \in Pages : HostUpdate(pg)
  \/ CkptBegin \/ CkptWrite

(* A logger is a running thread and keeps taking its helper calls while   *)
(* it can; the checkpoint kthread keeps writing once it started.          *)
Spec ==
  /\ Init /\ [][Next]_vars
  /\ \A t \in Loggers : WF_vars(FlagHelper(t))
  /\ WF_vars(CkptWrite)

-----------------------------------------------------------------------------
(* Log collection returns: every logger gets through all the helper calls *)
(* of j_get_nat_log_entry, j_get_sit_log_entry and j_get_ssa_log_entry,   *)
(* so the data write it journals goes on to insert_log_into_inode.        *)
LogCollectionCompletes == \A t \in Loggers : <>Done(t)

=============================================================================
