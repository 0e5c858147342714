----------------------------- MODULE F2fsjEpoch -----------------------------
(***************************************************************************)
(* The epoch lifecycle engine of F2FS-J (src/f2fsj/j_epoch.c,             *)
(* j_epoch_commit.c, j_log_operate.c, j_checkpoint.c, j_epoch_process.c). *)
(*                                                                         *)
(* Three kinds of actor share the state without a common lock:            *)
(*  - foreground threads (Procs), each inserting logs into the inode      *)
(*    InodeOf[p] via insert_log_into_inode / ino_checkin_global_epoch;    *)
(*  - the commit kthread (j_ep_commit_kthread): trigger_epoch_commit then *)
(*    epoch_commit, one inode at a time;                                  *)
(*  - the checkpoint kthread (j_checkpoint_kthread): epoch_checkpoint.    *)
(* A log is a number 1..MaxLogs in issue order; its payload is abstracted *)
(* away because only its identity and owner matter to the properties.     *)
(* Steps are cut at the points where the C code reads or writes shared    *)
(* state outside a lock held by every writer of that state.               *)
(***************************************************************************)
EXTENDS Naturals, Sequences, SequencesExt, FiniteSets

CONSTANTS
  Inodes,        \* inodes that carry journal logs (model values)
  Procs,         \* foreground threads issuing logged file operations
  InodeOf,       \* InodeOf[p]: the inode thread p operates on
  NEp,           \* MAX_GLOBAL_EP_NUM: global and local epoch slots
  MaxLogs,       \* bound: number of logs issued
  MaxEpochSeq,   \* bound: number of trigger_epoch_commit calls
  MaxAllocFail,  \* bound: kmem_cache_alloc failures of a cp head node
  MaxCpInfoFail  \* bound: get_cp_info_from_log calls that fail

ASSUME NEp \in Nat /\ NEp >= 2
ASSUME InodeOf \in [Procs -> Inodes]
ASSUME MaxLogs \in Nat /\ MaxEpochSeq \in Nat /\ MaxAllocFail \in Nat
ASSUME MaxCpInfoFail \in Nat

NONE_EPOCH == NEp                 \* epoch_type_e NONE_EPOCH
Epochs     == 0 .. NEp - 1        \* global ordinals and local slot indices
LogIds     == 1 .. MaxLogs
NoLog      == 0
NoInode    == CHOOSE i \in Inodes : TRUE   \* value of a dead inode local

GStatus == {"IDLE", "RUNNING", "TOBE_COMMIT", "COMMITTING"}  \* epoch_status_e
\* log_list_status takes LOG_LIST_IDLE, LOG_LIST_INUSE, and EPOCH_COMMITING
\* (j_epoch_commit.c:147 stores a value of the other enum).
LStatus == {"IDLE", "INUSE", "COMMITTING"}

VARIABLES
  g_running_ep,      \* j_epoch.c:16
  g_epoch_seq,       \* j_epoch.c:15
  g_epoch_status,    \* global_epoch[e].g_epoch_status
  ino_list,          \* global_epoch[e].global_ino_epoch_list, in list order
  tbc_list,          \* g_epoch_head.to_be_commit_global_epoch_list, head first
  g2l_ep_map,        \* f2fs_i->g2l_ep_map
  log_list_status,   \* f2fs_i->j_ino_log_list[l].log_list_status
  local_active,      \* f2fs_i->j_local_active_epoch
  log_list,          \* f2fs_i->j_ino_log_list[l].inode_log_list_head
  cp_list,           \* g_checkpoint_list: batches [id, ep, logs]
  next_batch,        \* identity of the next cp head node allocated
  alloc_fails,       \* cp head node allocations that failed so far
  cp_fails,          \* get_cp_info_from_log calls that failed so far
  fpc, f_ep, f_slot, f_log,               \* foreground thread locals
  cpc, c_ep, c_pos, c_last, c_ino, c_slot, c_batch, \* commit thread locals
  kpc,                                    \* checkpoint thread pc
  next_log,          \* history: logs issued so far
  log_owner,         \* history: inode each log was issued for
  dropped,           \* history: logs insert_log_into_inode rejected
  lost,              \* history: logs aggregated into a freed batch
  unlinked,          \* history: logs freed without their cp_info linked
  cp_done            \* history: logs whose cp_info a checkpoint consumed

epochVars == <<g_running_ep, g_epoch_seq, g_epoch_status, ino_list, tbc_list>>
inoVars   == <<g2l_ep_map, log_list_status, local_active, log_list>>
cpVars    == <<cp_list, next_batch, alloc_fails, cp_fails>>
fgVars    == <<fpc, f_ep, f_slot, f_log>>
commitVars == <<cpc, c_ep, c_pos, c_last, c_ino, c_slot, c_batch>>
histVars  == <<next_log, log_owner, dropped, lost, unlinked, cp_done>>
vars == <<epochVars, inoVars, cpVars, fgVars, commitVars, kpc, histVars>>

Batch == [id : Nat, ep : Epochs, logs : Seq(LogIds)]
BatchIds == {b.id : b \in ToSet(cp_list)}

-----------------------------------------------------------------------------
(* init_global_epoch, init_g_checkpoint_list and the inode initialisation  *)
(* (maps and active epoch NONE_EPOCH, every local list idle and empty).   *)
(* Every global epoch starts EPOCH_IDLE, g_running_ep = 0 included: the   *)
(* first RUNNING status is set by the first trigger's iterate_2_next_ep.  *)
Init ==
  /\ g_running_ep = 0
  /\ g_epoch_seq = 0
  /\ g_epoch_status = [e \in Epochs |-> "IDLE"]
  /\ ino_list = [e \in Epochs |-> <<>>]
  /\ tbc_list = <<>>
  /\ g2l_ep_map = [i \in Inodes |-> [e \in Epochs |-> NONE_EPOCH]]
  /\ log_list_status = [i \in Inodes |-> [l \in Epochs |-> "IDLE"]]
  /\ local_active = [i \in Inodes |-> NONE_EPOCH]
  /\ log_list = [i \in Inodes |-> [l \in Epochs |-> <<>>]]
  /\ cp_list = <<>>
  /\ next_batch = 0
  /\ alloc_fails = 0
  /\ cp_fails = 0
  /\ fpc = [p \in Procs |-> "idle"]
  /\ f_ep = [p \in Procs |-> NONE_EPOCH]
  /\ f_slot = [p \in Procs |-> NONE_EPOCH]
  /\ f_log = [p \in Procs |-> NoLog]
  /\ cpc = "idle"
  /\ c_ep = NONE_EPOCH
  /\ c_pos = 1
  /\ c_last = FALSE
  /\ c_ino = NoInode
  /\ c_slot = NONE_EPOCH
  /\ c_batch = 0
  /\ kpc = "idle"
  /\ next_log = 0
  /\ log_owner = [n \in LogIds |-> NoInode]
  /\ dropped = {}
  /\ lost = {}
  /\ unlinked = {}
  /\ cp_done = {}

-----------------------------------------------------------------------------
(***************************************************************************)
(* Foreground: insert_log_into_inode(f2fs_i, entry), j_log_operate.c.     *)
(***************************************************************************)

(* Return of insert_log_into_inode: the thread's locals go out of scope.  *)
FReturn(p) ==
  /\ fpc' = [fpc EXCEPT ![p] = "idle"]
  /\ f_ep' = [f_ep EXCEPT ![p] = NONE_EPOCH]
  /\ f_slot' = [f_slot EXCEPT ![p] = NONE_EPOCH]
  /\ f_log' = [f_log EXCEPT ![p] = NoLog]

(* A new log for inode InodeOf[p]; is_already_checkin_g_epoch reads the   *)
(* running epoch under the switch lock, then the inode's map entry.       *)
FStart(p) ==
  LET i == InodeOf[p] IN
  /\ fpc[p] = "idle"
  /\ next_log < MaxLogs
  /\ next_log' = next_log + 1
  /\ log_owner' = [log_owner EXCEPT ![next_log + 1] = i]
  /\ f_log' = [f_log EXCEPT ![p] = next_log + 1]
  /\ IF g2l_ep_map[i][g_running_ep] < NONE_EPOCH
       THEN /\ fpc' = [fpc EXCEPT ![p] = "insert"]
            /\ UNCHANGED f_ep
       ELSE /\ fpc' = [fpc EXCEPT ![p] = "checkin"]
            /\ f_ep' = [f_ep EXCEPT ![p] = g_running_ep]
  /\ UNCHANGED <<epochVars, inoVars, cpVars, f_slot, commitVars, kpc,
                 dropped, lost, unlinked, cp_done>>

(* get_idle_local_epoch: first-fit scan for an IDLE local list, without   *)
(* any lock. Finding none only logs an error: the caller falls through to *)
(* insert_log_into_inode with whatever j_local_active_epoch holds.        *)
IdleSlots(i) == {l \in Epochs : log_list_status[i][l] = "IDLE"}

FFindIdle(p) ==
  LET i == InodeOf[p] IN
  /\ fpc[p] = "checkin"
  /\ IF IdleSlots(i) = {}
       THEN /\ fpc' = [fpc EXCEPT ![p] = "insert"]
            /\ f_ep' = [f_ep EXCEPT ![p] = NONE_EPOCH]
            /\ UNCHANGED f_slot
       ELSE /\ f_slot' = [f_slot EXCEPT ![p] =
                            CHOOSE l \in IdleSlots(i) :
                              \A m \in IdleSlots(i) : l <= m]
            /\ fpc' = [fpc EXCEPT ![p] = "register"]
            /\ UNCHANGED f_ep
  /\ UNCHANGED <<epochVars, inoVars, cpVars, f_log, commitVars, kpc,
                 histVars>>

(* Mutant: the chosen list is not marked LOG_LIST_INUSE.                 *)
FRegisterNoInuse(p) ==
  LET i == InodeOf[p]
      e == f_ep[p]
      l == f_slot[p]
  IN
  /\ fpc[p] = "register"
  /\ g2l_ep_map' = [g2l_ep_map EXCEPT ![i][e] = l]
  /\ local_active' = [local_active EXCEPT ![i] = l]
  /\ ino_list' = [ino_list EXCEPT ![e] = Append(@, i)]
  /\ fpc' = [fpc EXCEPT ![p] = "insert"]
  /\ f_ep' = [f_ep EXCEPT ![p] = NONE_EPOCH]
  /\ f_slot' = [f_slot EXCEPT ![p] = NONE_EPOCH]
  /\ UNCHANGED <<g_running_ep, g_epoch_seq, g_epoch_status, tbc_list,
                 log_list_status, log_list, cpVars, f_log, commitVars, kpc,
                 histVars>>

(* Under the inode spin lock and the ordinal's register lock: map the     *)
(* global ordinal read in FStart to the slot, mark it in use, make it the *)
(* active local epoch and append the inode to that ordinal's list.        *)
FRegister(p) ==
  LET i == InodeOf[p]
      e == f_ep[p]
      l == f_slot[p]
  IN
  /\ fpc[p] = "register"
  /\ g2l_ep_map' = [g2l_ep_map EXCEPT ![i][e] = l]
  /\ log_list_status' = [log_list_status EXCEPT ![i][l] = "INUSE"]
  /\ local_active' = [local_active EXCEPT ![i] = l]
  /\ ino_list' = [ino_list EXCEPT ![e] = Append(@, i)]
  /\ fpc' = [fpc EXCEPT ![p] = "insert"]
  /\ f_ep' = [f_ep EXCEPT ![p] = NONE_EPOCH]
  /\ f_slot' = [f_slot EXCEPT ![p] = NONE_EPOCH]
  /\ UNCHANGED <<g_running_ep, g_epoch_seq, g_epoch_status, tbc_list,
                 log_list, cpVars, f_log, commitVars, kpc, histVars>>

(* The checks of insert_log_into_inode on j_local_active_epoch: an out of *)
(* range index or a list not INUSE returns F2FSJ_ERROR and the log is not *)
(* journalled.                                                            *)
FInsertCheck(p) ==
  LET i == InodeOf[p]
      a == local_active[i]
  IN
  /\ fpc[p] = "insert"
  /\ IF a >= NONE_EPOCH \/ log_list_status[i][a] # "INUSE"
       THEN /\ dropped' = dropped \cup {f_log[p]}
            /\ FReturn(p)
       ELSE /\ f_slot' = [f_slot EXCEPT ![p] = a]
            /\ fpc' = [fpc EXCEPT ![p] = "append"]
            /\ UNCHANGED <<dropped, f_ep, f_log>>
  /\ UNCHANGED <<epochVars, inoVars, cpVars, commitVars, kpc,
                 next_log, log_owner, lost, unlinked, cp_done>>

(* Mutant: list_add, so the log goes to the head of the local list.     *)
FAppendAtHead(p) ==
  LET i == InodeOf[p] IN
  /\ fpc[p] = "append"
  /\ log_list' = [log_list EXCEPT ![i][f_slot[p]] = <<f_log[p]>> \o @]
  /\ FReturn(p)
  /\ UNCHANGED <<epochVars, g2l_ep_map, log_list_status, local_active,
                 cpVars, commitVars, kpc, histVars>>

(* list_add_tail of the log onto the local list chosen by the check.      *)
FAppend(p) ==
  LET i == InodeOf[p] IN
  /\ fpc[p] = "append"
  /\ log_list' = [log_list EXCEPT ![i][f_slot[p]] = Append(@, f_log[p])]
  /\ FReturn(p)
  /\ UNCHANGED <<epochVars, g2l_ep_map, log_list_status, local_active,
                 cpVars, commitVars, kpc, histVars>>

-----------------------------------------------------------------------------
(***************************************************************************)
(* Commit thread: j_ep_commit_kthread every J_COMMIT_INTERVAL ticks calls *)
(* trigger_epoch_commit and then epoch_commit (j_epoch_commit.c).         *)
(***************************************************************************)

(* iterate_2_next_ep: the next ordinal becomes the running one whatever   *)
(* its status; it is only marked RUNNING when it was IDLE.                *)
(* Mutant: the ordinal wraps one slot too late.                          *)
NextRunningWrapLate == (g_running_ep + 1) % (NEp + 1)

NextRunning == (g_running_ep + 1) % NEp

(* Mutant: the next ordinal is never marked RUNNING.                      *)
SwitchStatusNoMark(e, n) == [g_epoch_status EXCEPT ![e] = "TOBE_COMMIT"]

SwitchStatus(e, n) ==
  [g_epoch_status EXCEPT ![e] = "TOBE_COMMIT",
                         ![n] = IF @ = "IDLE" THEN "RUNNING" ELSE @]

(* trigger_epoch_commit under the switch lock: list_add (at the head) of  *)
(* the running epoch onto the to-be-committed list, TOBE_COMMIT, advance. *)
(* The list is then non-empty, so the thread enters epoch_commit.         *)
CTrigger ==
  LET e == g_running_ep
      n == NextRunning
  IN
  /\ cpc = "idle"
  /\ g_epoch_seq < MaxEpochSeq
  /\ tbc_list' = <<e>> \o tbc_list
  /\ g_epoch_seq' = g_epoch_seq + 1
  /\ g_running_ep' = n
  /\ g_epoch_status' = SwitchStatus(e, n)
  /\ cpc' = "ep_begin"
  /\ UNCHANGED <<ino_list, inoVars, cpVars, fgVars, c_ep, c_pos, c_last,
                 c_ino, c_slot, c_batch, kpc, histVars>>

(* Mutant: a failed allocation also takes the epoch off the list.         *)
CEpochBeginListDel ==
  LET e == Head(tbc_list) IN
  /\ cpc = "ep_begin"
  /\ \/ /\ alloc_fails < MaxAllocFail
        /\ g_epoch_seq < MaxEpochSeq
        /\ alloc_fails' = alloc_fails + 1
        /\ cpc' = "idle"
        /\ tbc_list' = Tail(tbc_list)
        /\ UNCHANGED <<cp_list, next_batch, c_ep, c_pos, c_batch>>
     \/ /\ cp_list' = Append(cp_list, [id |-> next_batch, ep |-> e,
                                       logs |-> <<>>])
        /\ next_batch' = next_batch + 1
        /\ c_batch' = next_batch
        /\ c_ep' = e
        /\ c_pos' = 1
        /\ cpc' = IF ino_list[e] = <<>> THEN "persist" ELSE "ino_begin"
        /\ UNCHANGED <<alloc_fails, tbc_list>>
  /\ g_epoch_status' = [g_epoch_status EXCEPT ![e] = "COMMITTING"]
  /\ UNCHANGED <<g_running_ep, g_epoch_seq, ino_list, inoVars, cp_fails,
                 fgVars, c_last, c_ino, c_slot, kpc, histVars>>

(* epoch_commit, head of the list: COMMITTING, then allocate a cp head    *)
(* node and link it at the tail of g_checkpoint_list before any inode is  *)
(* aggregated into it. A failed allocation returns F2FSJ_ERROR, leaving   *)
(* the epoch COMMITTING on the list for the next trigger to retry; the    *)
(* kthread triggers forever, so a failure is only taken while the bound   *)
(* MaxEpochSeq still leaves a trigger to come.                            *)
CEpochBegin ==
  LET e == Head(tbc_list) IN
  /\ cpc = "ep_begin"
  /\ \/ /\ alloc_fails < MaxAllocFail
        /\ g_epoch_seq < MaxEpochSeq
        /\ alloc_fails' = alloc_fails + 1
        /\ cpc' = "idle"
        /\ UNCHANGED <<cp_list, next_batch, c_ep, c_pos, c_batch>>
     \/ /\ cp_list' = Append(cp_list, [id |-> next_batch, ep |-> e,
                                       logs |-> <<>>])
        /\ next_batch' = next_batch + 1
        /\ c_batch' = next_batch
        /\ c_ep' = e
        /\ c_pos' = 1
        /\ cpc' = IF ino_list[e] = <<>> THEN "persist" ELSE "ino_begin"
        /\ UNCHANGED alloc_fails
  /\ g_epoch_status' = [g_epoch_status EXCEPT ![e] = "COMMITTING"]
  /\ UNCHANGED <<g_running_ep, g_epoch_seq, ino_list, tbc_list, inoVars,
                 cp_fails, fgVars, c_last, c_ino, c_slot, kpc, histVars>>

(* list_for_each_entry_safe over the epoch's inode list: the successor is *)
(* fixed before the body, so c_last records whether this is the last one. *)
(* An inode whose map entry is NONE_EPOCH is skipped; otherwise its local *)
(* list becomes EPOCH_COMMITING and j_local_active_epoch NONE_EPOCH.      *)
CInodeBegin ==
  LET i == ino_list[c_ep][c_pos]
      l == g2l_ep_map[i][c_ep]
      last == c_pos = Len(ino_list[c_ep])
  IN
  /\ cpc = "ino_begin"
  /\ c_last' = last
  /\ IF l >= NONE_EPOCH
       THEN /\ c_pos' = c_pos + 1
            /\ cpc' = IF last THEN "persist" ELSE "ino_begin"
            /\ UNCHANGED <<log_list_status, local_active, c_ino, c_slot>>
       ELSE /\ log_list_status' = [log_list_status EXCEPT ![i][l] = "COMMITTING"]
            /\ local_active' = [local_active EXCEPT ![i] = NONE_EPOCH]
            /\ c_ino' = i
            /\ c_slot' = l
            /\ cpc' = "aggregate"
            /\ UNCHANGED c_pos
  /\ UNCHANGED <<epochVars, g2l_ep_map, log_list, cpVars, fgVars, c_ep,
                 c_batch, kpc, histVars>>

(* get_cp_info_from_log returns F2FSJ_ERROR before its list_add_tail when *)
(* alloc_log_cp_info_memory fails, and for a DATA_WRITE log when           *)
(* ep_commit_writeback_data_pages fails: the logs of one drain whose call  *)
(* fails, at most MaxCpInfoFail in a run.                                  *)
CpInfoFailures(logs) ==
  {F \in SUBSET ToSet(logs) : cp_fails + Cardinality(F) <= MaxCpInfoFail}

(* Mutant: the logs are copied into the batch but never list_del'd.      *)
CAggregateKeepLogs ==
  LET logs == log_list[c_ino][c_slot]
      k == CHOOSE k \in 1 .. Len(cp_list) : cp_list[k].id = c_batch
  IN
  /\ cpc = "aggregate"
  /\ IF c_batch \in BatchIds
       THEN /\ cp_list' = [cp_list EXCEPT ![k].logs = @ \o logs]
            /\ UNCHANGED lost
       ELSE /\ lost' = lost \cup ToSet(logs)
            /\ UNCHANGED cp_list
  /\ ino_list' = [ino_list EXCEPT ![c_ep] = RemoveAt(@, c_pos)]
  /\ cpc' = "ino_end"
  /\ UNCHANGED <<g_running_ep, g_epoch_seq, g_epoch_status, tbc_list,
                 g2l_ep_map, log_list_status, local_active, log_list,
                 next_batch, alloc_fails, cp_fails, fgVars, c_ep, c_pos,
                 c_last, c_ino, c_slot, c_batch, kpc, next_log, log_owner,
                 dropped, unlinked, cp_done>>

(* aggregate_per_ino_log: for every log of the list, get_cp_info_from_log *)
(* links a cp_info at the tail of the current cp head node, or fails and  *)
(* links nothing; its result is ignored and the log is list_del'd and     *)
(* freed either way. Then the inode leaves the epoch's list. If the       *)
(* checkpoint thread has already freed that head node, the cp_infos go to *)
(* freed memory.                                                           *)
CAggregate ==
  LET logs == log_list[c_ino][c_slot]
      k == CHOOSE k \in 1 .. Len(cp_list) : cp_list[k].id = c_batch
  IN
  /\ cpc = "aggregate"
  /\ \E F \in CpInfoFailures(logs) :
       LET linked == SelectSeq(logs, LAMBDA n : n \notin F) IN
       /\ IF c_batch \in BatchIds
            THEN /\ cp_list' = [cp_list EXCEPT ![k].logs = @ \o linked]
                 /\ UNCHANGED lost
            ELSE /\ lost' = lost \cup ToSet(linked)
                 /\ UNCHANGED cp_list
       /\ unlinked' = unlinked \cup F
       /\ cp_fails' = cp_fails + Cardinality(F)
  /\ log_list' = [log_list EXCEPT ![c_ino][c_slot] = <<>>]
  /\ ino_list' = [ino_list EXCEPT ![c_ep] = RemoveAt(@, c_pos)]
  /\ cpc' = "ino_end"
  /\ UNCHANGED <<g_running_ep, g_epoch_seq, g_epoch_status, tbc_list,
                 g2l_ep_map, log_list_status, local_active, next_batch,
                 alloc_fails, fgVars, c_ep, c_pos, c_last, c_ino, c_slot,
                 c_batch, kpc, next_log, log_owner, dropped, cp_done>>

(* The local list goes back to LOG_LIST_IDLE; the map entry is left as is. *)
CInodeEnd ==
  /\ cpc = "ino_end"
  /\ log_list_status' = [log_list_status EXCEPT ![c_ino][c_slot] = "IDLE"]
  /\ cpc' = IF c_last THEN "persist" ELSE "ino_begin"
  /\ c_last' = FALSE
  /\ c_ino' = NoInode
  /\ c_slot' = NONE_EPOCH
  /\ UNCHANGED <<epochVars, g2l_ep_map, local_active, log_list, cpVars,
                 fgVars, c_ep, c_pos, c_batch, kpc, histVars>>

(* write_current_mmap_j_file, then list_del of the epoch and EPOCH_IDLE;  *)
(* the iteration goes on with the next epoch of the list.                 *)
CPersist ==
  /\ cpc = "persist"
  /\ tbc_list' = Tail(tbc_list)
  /\ g_epoch_status' = [g_epoch_status EXCEPT ![c_ep] = "IDLE"]
  /\ cpc' = IF Tail(tbc_list) = <<>> THEN "idle" ELSE "ep_begin"
  /\ c_ep' = NONE_EPOCH
  /\ c_pos' = 1
  /\ c_last' = FALSE
  /\ c_batch' = 0
  /\ UNCHANGED <<g_running_ep, g_epoch_seq, ino_list, inoVars, cpVars,
                 fgVars, c_ino, c_slot, kpc, histVars>>

-----------------------------------------------------------------------------
(***************************************************************************)
(* Checkpoint thread: j_checkpoint_kthread calls epoch_checkpoint when    *)
(* the checkpoint list is non-empty and space or the tick count says so.  *)
(***************************************************************************)

(* One iteration of the walk of epoch_checkpoint: free every cp_info of   *)
(* the head batch, list_del and free the batch itself.                    *)
KFreeBatch ==
  /\ kpc \in {"idle", "walk"}
  /\ cp_list # <<>>
  /\ cp_done' = cp_done \cup ToSet(Head(cp_list).logs)
  /\ cp_list' = Tail(cp_list)
  /\ kpc' = IF Len(cp_list) = 1 THEN "ckpt" ELSE "walk"
  /\ UNCHANGED <<epochVars, inoVars, next_batch, alloc_fails, cp_fails, fgVars,
                 commitVars, next_log, log_owner, dropped, lost, unlinked>>

(* f2fs_write_checkpoint and reset_on_disk_journal_space_info.            *)
KCheckpoint ==
  /\ kpc = "ckpt"
  /\ kpc' = "idle"
  /\ UNCHANGED <<epochVars, inoVars, cpVars, fgVars, commitVars, histVars>>

(* A wake-up of the checkpoint thread that finds the list empty.          *)
KIdleTick ==
  /\ kpc = "idle"
  /\ cp_list = <<>>
  /\ UNCHANGED vars

-----------------------------------------------------------------------------
Next ==
  \/ \E p \in Procs :
       FStart(p) \/ FFindIdle(p) \/ FRegister(p) \/ FInsertCheck(p)
       \/ FAppend(p)
  \/ CTrigger \/ CEpochBegin \/ CInodeBegin \/ CAggregate \/ CInodeEnd
  \/ CPersist
  \/ KFreeBatch \/ KCheckpoint \/ KIdleTick

Spec == Init /\ [][Next]_vars

(* Both kthreads loop forever on a timer (j_ep_commit_kthread,           *)
(* j_checkpoint_kthread) and sleep only between iterations, and a        *)
(* foreground thread inside insert_log_into_inode holds nothing but       *)
(* spinlocks: each keeps taking its enabled steps. Starting an operation  *)
(* (FStart) is up to the user and is not assumed.                         *)
FairSpec ==
  /\ Spec
  /\ \A p \in Procs :
       WF_vars(FFindIdle(p) \/ FRegister(p) \/ FInsertCheck(p) \/ FAppend(p))
  /\ WF_vars(CTrigger \/ CEpochBegin \/ CInodeBegin \/ CAggregate
             \/ CInodeEnd \/ CPersist)
  /\ WF_vars(KFreeBatch \/ KCheckpoint)

-----------------------------------------------------------------------------
(***************************************************************************)
(* Invariants and properties.                                              *)
(***************************************************************************)

TypeOK ==
  /\ g_running_ep \in Epochs
  /\ g_epoch_seq \in 0 .. MaxEpochSeq
  /\ g_epoch_status \in [Epochs -> GStatus]
  /\ ino_list \in [Epochs -> Seq(Inodes)]
  /\ tbc_list \in Seq(Epochs)
  /\ g2l_ep_map \in [Inodes -> [Epochs -> 0 .. NONE_EPOCH]]
  /\ log_list_status \in [Inodes -> [Epochs -> LStatus]]
  /\ local_active \in [Inodes -> 0 .. NONE_EPOCH]
  /\ log_list \in [Inodes -> [Epochs -> Seq(LogIds)]]
  /\ cp_list \in Seq(Batch)
  /\ fpc \in [Procs -> {"idle", "checkin", "register", "insert", "append"}]
  /\ f_ep \in [Procs -> 0 .. NONE_EPOCH]
  /\ f_slot \in [Procs -> 0 .. NONE_EPOCH]
  /\ f_log \in [Procs -> {NoLog} \cup LogIds]
  /\ cpc \in {"idle", "ep_begin", "ino_begin", "aggregate", "ino_end",
              "persist"}
  /\ kpc \in {"idle", "walk", "ckpt"}
  /\ next_log \in 0 .. MaxLogs
  /\ cp_fails \in 0 .. MaxCpInfoFail
  /\ dropped \cup lost \cup unlinked \cup cp_done \subseteq LogIds

(* Where a log is: held by a thread between FStart and its insert, queued *)
(* on a local list, as a cp_info in a live batch, consumed by a           *)
(* checkpoint, written into a freed batch, freed without a cp_info, or   *)
(* rejected by the insert.                                                 *)
InFlightAt(n) == {p \in Procs : fpc[p] # "idle" /\ f_log[p] = n}
QueuedAt(n) ==
  {<<i, l, k>> \in Inodes \X Epochs \X (1 .. MaxLogs) :
     k \in DOMAIN log_list[i][l] /\ log_list[i][l][k] = n}
BatchedAt(n) ==
  {<<b, k>> \in (1 .. Len(cp_list)) \X (1 .. MaxLogs) :
     k \in DOMAIN cp_list[b].logs /\ cp_list[b].logs[k] = n}
Indicator(P) == IF P THEN 1 ELSE 0

(* No log is duplicated or silently vanishes between insert_log_into_inode, *)
(* aggregate_per_ino_log and epoch_checkpoint: every issued log is in      *)
(* exactly one place, the failure outcomes (dropped, lost, unlinked)      *)
(* included.                                                               *)
LogConservation ==
  \A n \in 1 .. next_log :
    Cardinality(InFlightAt(n)) + Cardinality(QueuedAt(n))
      + Cardinality(BatchedAt(n)) + Indicator(n \in cp_done)
      + Indicator(n \in lost) + Indicator(n \in unlinked)
      + Indicator(n \in dropped) = 1

(* Within a batch, the cp_infos of one inode follow the order in which its *)
(* logs were inserted (spec: aggregation order preserved).                 *)
AggregationOrderPreserved ==
  \A b \in 1 .. Len(cp_list) :
    \A x, y \in DOMAIN cp_list[b].logs :
      /\ x < y
      /\ log_owner[cp_list[b].logs[x]] = log_owner[cp_list[b].logs[y]]
      => cp_list[b].logs[x] < cp_list[b].logs[y]

(* Slot-map exclusivity (spec 8): two epochs an inode is registered in    *)
(* never map to the same local list, so one epoch_commit cannot drain or  *)
(* reset the list another pending epoch still owns. Takes a check-in, a   *)
(* trigger and a second check-in racing the commit of the first epoch.    *)
SlotMapExclusive ==
  \A i \in Inodes, e1, e2 \in Epochs :
    /\ e1 # e2
    /\ i \in ToSet(ino_list[e1]) /\ i \in ToSet(ino_list[e2])
    => g2l_ep_map[i][e1] # g2l_ep_map[i][e2]

(* Across batches too, an inode's cp_infos reach g_checkpoint_list in the *)
(* order its logs were inserted: epochs are committed oldest first, so a  *)
(* checkpoint never applies a newer change of an inode before an older.   *)
BatchOrderPerInode ==
  \A b1, b2 \in 1 .. Len(cp_list) :
    b1 < b2 =>
      \A x \in ToSet(cp_list[b1].logs), y \in ToSet(cp_list[b2].logs) :
        log_owner[x] = log_owner[y] => x < y

Lifecycle == {<<"IDLE", "RUNNING">>, <<"RUNNING", "TOBE_COMMIT">>,
              <<"TOBE_COMMIT", "COMMITTING">>, <<"COMMITTING", "IDLE">>}

SlotLifecycle ==
  [][\A e \in Epochs :
       g_epoch_status'[e] # g_epoch_status[e] =>
         <<g_epoch_status[e], g_epoch_status'[e]>> \in Lifecycle]_g_epoch_status

(* A log whose insert passed its checks is never rejected: after epoch     *)
(* commit resets j_local_active_epoch, the next operation on the inode     *)
(* re-checks in to the running epoch (spec 4.2), so insert_log_into_inode  *)
(* never finds NONE_EPOCH or a list that is not INUSE.                     *)
NoDroppedLog == dropped = {}

(* aggregate_per_ino_log never writes cp_infos into a cp head node that   *)
(* epoch_checkpoint has already freed.                                     *)
NoLogLostToFreedBatch == lost = {}

(* A non-empty local log list is always one that a pending commit will    *)
(* drain: the inode is registered in an epoch whose map entry names it.    *)
QueuedLogIsRegistered ==
  \A i \in Inodes, l \in Epochs :
    log_list[i][l] # <<>> =>
      \E e \in Epochs : g2l_ep_map[i][e] = l /\ i \in ToSet(ino_list[e])

(* An IDLE global epoch has no registered inode: epoch_commit drained the *)
(* whole inode list before marking the epoch IDLE (spec: commit drains).  *)
IdleEpochUnregistered ==
  \A e \in Epochs :
    g_epoch_status[e] = "IDLE" => ino_list[e] = <<>>

(* Check-in is idempotent: an inode appears at most once in the inode     *)
(* list of an epoch.                                                       *)
CheckinIdempotent ==
  \A e \in Epochs :
    \A x, y \in DOMAIN ino_list[e] : x # y => ino_list[e][x] # ino_list[e][y]

-----------------------------------------------------------------------------
(***************************************************************************)
(* The epoch manager implements the ring of spec 4.1 (EpochRing): the     *)
(* global statuses and g_running_ep are the abstract ones, and the sealed *)
(* slots are those on the to-be-committed list.                           *)
(***************************************************************************)
Ring == INSTANCE EpochRing WITH
          status <- g_epoch_status,
          running <- g_running_ep,
          sealed <- ToSet(tbc_list)

(* Every step of trigger_epoch_commit and epoch_commit is a step of the   *)
(* ring: iterate_2_next_ep opens an IDLE slot, ep_begin and the final      *)
(* list_del take a sealed slot through COMMITTING to IDLE, and nothing     *)
(* else touches a status, the running ordinal or the list.                 *)
EpochRingRefinement == Ring!Spec

(* Every epoch put on the to-be-committed list is eventually IDLE again:  *)
(* epoch_commit finishes it, a failed cp head allocation being retried by *)
(* the next trigger, so the ring never runs out of IDLE slots for good.   *)
SealedEpochDrained == Ring!Drained

=============================================================================
