---------------------------- MODULE SessionLedger ----------------------------
(***************************************************************************)
(* What the sessions table promises whoever reads the history: a session   *)
(* is opened once, under an id never used before, and once it has ended it *)
(* stays ended; the process may die at any time, and when it comes back    *)
(* every session it had left open is ended.                                *)
(***************************************************************************)
EXTENDS Integers

CONSTANT MaxSessions   \* bound: sessions ever opened

VARIABLES
  rows,   \* each session: absent, open or closed
  next,   \* the next id
  alive   \* whether the process is running

ledger == <<rows, next, alive>>

Ids == 1..MaxSessions

LedgerInit ==
  /\ rows = [i \in Ids |-> "absent"]
  /\ next = 1
  /\ alive = FALSE

OpenSession ==
  /\ alive /\ next \in Ids
  /\ rows' = [rows EXCEPT ![next] = "open"]
  /\ next' = next + 1
  /\ UNCHANGED alive

CloseSession(i) ==
  /\ alive /\ rows[i] = "open"
  /\ rows' = [rows EXCEPT ![i] = "closed"]
  /\ UNCHANGED <<next, alive>>

EraseSessions ==
  /\ alive
  /\ rows' = [i \in Ids |-> "absent"]
  /\ UNCHANGED <<next, alive>>

Dies == alive /\ alive' = FALSE /\ UNCHANGED <<rows, next>>

Recovers ==
  /\ ~alive /\ alive' = TRUE
  /\ rows' = [i \in Ids |-> IF rows[i] = "open" THEN "closed" ELSE rows[i]]
  /\ UNCHANGED next

LedgerNext ==
  \/ OpenSession \/ (\E i \in Ids : CloseSession(i))
  \/ EraseSessions \/ Dies \/ Recovers

LedgerSpec == LedgerInit /\ [][LedgerNext]_ledger
=============================================================================
