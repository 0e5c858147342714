------------------------------ MODULE EpochRing ------------------------------
(***************************************************************************)
(* What the epoch manager promises (spec 4.1), without threads, inodes or *)
(* logs: a ring of NEp global epoch slots, all idle, the running ordinal  *)
(* at slot 0. A commit trigger seals the slot the running ordinal names   *)
(* and advance() moves the ordinal on, marking the new slot RUNNING only  *)
(* if it is IDLE ("advancement still occurs but the slot is left          *)
(* non-Running"). The commit pipeline takes every sealed slot through     *)
(* COMMITTING back to IDLE; the order is left open here.                  *)
(***************************************************************************)
EXTENDS Naturals

CONSTANT NEp

VARIABLES
  status,    \* status of each global slot
  running,   \* the slot accepting check-ins
  sealed     \* slots handed to the commit pipeline and not yet drained

vars == <<status, running, sealed>>

Slots == 0 .. NEp - 1

Init ==
  /\ status = [e \in Slots |-> "IDLE"]
  /\ running = 0
  /\ sealed = {}

(* trigger then advance(): the running slot is sealed, the ordinal moves  *)
(* on, and the next slot is opened if it is IDLE.                          *)
Advance ==
  LET n == (running + 1) % NEp IN
  /\ status' = [status EXCEPT ![running] = "TOBE_COMMIT",
                              ![n] = IF @ = "IDLE" THEN "RUNNING" ELSE @]
  /\ running' = n
  /\ sealed' = sealed \cup {running}

BeginCommit(e) ==
  /\ e \in sealed
  /\ status[e] = "TOBE_COMMIT"
  /\ status' = [status EXCEPT ![e] = "COMMITTING"]
  /\ UNCHANGED <<running, sealed>>

FinishCommit(e) ==
  /\ e \in sealed
  /\ status[e] = "COMMITTING"
  /\ status' = [status EXCEPT ![e] = "IDLE"]
  /\ sealed' = sealed \ {e}
  /\ UNCHANGED running

Next == Advance \/ \E e \in Slots : BeginCommit(e) \/ FinishCommit(e)

Spec == Init /\ [][Next]_vars

(* Every slot that has stopped running is eventually IDLE again, free for *)
(* advance() to reuse.                                                     *)
Drained ==
  \A e \in Slots : (e # running /\ status[e] # "IDLE") ~> status[e] = "IDLE"

=============================================================================
