----------------------------- MODULE ExportLock -----------------------------
(***************************************************************************)
(* The Konwencik export: the button and the sweep both rewrite a sheet     *)
(* with the whole agenda.  A run claims a lock in a transaction of its     *)
(* own, reads the agenda, writes the sheet and releases the lock.  The     *)
(* lock is a time and names nobody: one that is too old is taken over, a   *)
(* save of the settings clears it, and so does the end of any run.         *)
(***************************************************************************)
EXTENDS Naturals, FiniteSets

CONSTANTS
  Runner,      \* the button's requests and the sweep
  Timeout,     \* EXPORT_LOCK_TIMEOUT, in ticks
  NoLock,      \* export_lock_time when it is not set
  MaxEdits,    \* bound: changes of the agenda
  MaxKills     \* bound: runs that die

ExportLockAssumption ==
  /\ Timeout \in Nat \ {0} /\ NoLock \notin Nat
  /\ MaxEdits \in Nat /\ MaxKills \in Nat

VARIABLES
  agenda,      \* the edits the agenda has had
  sheet,       \* the edit the sheet shows
  lock,        \* the age of export_lock_time, or NoLock
  at,          \* each run: "idle", "claimed", "built" or "written"
  rows,        \* the edit its rows were built from
  lapsed,      \* the runs whose lock was cleared, or has become too old
  kills

vars == <<agenda, sheet, lock, at, rows, lapsed, kills>>

Init ==
  /\ agenda = 0 /\ sheet = 0 /\ lock = NoLock
  /\ at = [r \in Runner |-> "idle"]
  /\ rows = [r \in Runner |-> 0]
  /\ lapsed = {} /\ kills = 0

-----------------------------------------------------------------------------
Running == {r \in Runner : at[r] # "idle"}

\* Mutant: the lock of the integration as it was loaded, not read again.
TakenUnread == TRUE

\* _claim_lock: "an older lock belonged to a crashed worker".  Its transaction is
\* never a savepoint of the request's: the button's route is non-atomic, so that
\* the claim is visible before the sheet is written (event/panel/urls.py).
Claimable == lock = NoLock \/ lock = Timeout

Claim(r) ==
  /\ at[r] = "idle" /\ Claimable
  /\ lock' = 0
  /\ at' = [at EXCEPT ![r] = "claimed"]
  /\ UNCHANGED <<agenda, sheet, rows, lapsed, kills>>

\* _build_rows
Build(r) ==
  /\ at[r] = "claimed"
  /\ at' = [at EXCEPT ![r] = "built"]
  /\ rows' = [rows EXCEPT ![r] = agenda]
  /\ UNCHANGED <<agenda, sheet, lock, lapsed, kills>>

WriteSheet(r) ==
  /\ at[r] = "built"
  /\ sheet' = rows[r]
  /\ at' = [at EXCEPT ![r] = "written"]
  /\ UNCHANGED <<agenda, lock, rows, lapsed, kills>>

\* _finish, at the end or after a failure on the way.  A run that has lost
\* its lock clears that of whoever took it over.
Finish(r) ==
  /\ at[r] # "idle"
  /\ lock' = NoLock
  /\ at' = [at EXCEPT ![r] = "idle"]
  /\ rows' = [rows EXCEPT ![r] = 0]
  /\ lapsed' = (IF r \in lapsed THEN Running ELSE lapsed) \ {r}
  /\ UNCHANGED <<agenda, sheet, kills>>

\* The worker is killed: nothing is released.
Kill(r) ==
  /\ at[r] # "idle" /\ kills < MaxKills /\ kills' = kills + 1
  /\ at' = [at EXCEPT ![r] = "idle"]
  /\ rows' = [rows EXCEPT ![r] = 0]
  /\ lapsed' = lapsed \ {r}
  /\ UNCHANGED <<agenda, sheet, lock>>

\* save_settings: "a save clears the lock on purpose".
SaveSettings ==
  /\ lock' = NoLock
  /\ lapsed' = Running
  /\ UNCHANGED <<agenda, sheet, at, rows, kills>>

Grow ==
  /\ lock \in 0 .. Timeout - 1
  /\ lock' = lock + 1
  /\ lapsed' = IF lock' = Timeout THEN Running ELSE lapsed
  /\ UNCHANGED <<agenda, sheet, at, rows, kills>>

Edit ==
  /\ agenda < MaxEdits /\ agenda' = agenda + 1
  /\ UNCHANGED <<sheet, lock, at, rows, lapsed, kills>>

-----------------------------------------------------------------------------
Step(r) == Build(r) \/ WriteSheet(r) \/ Finish(r)

Next ==
  \/ \E r \in Runner : Claim(r) \/ Step(r) \/ Kill(r)
  \/ SaveSettings \/ Grow \/ Edit

Spec == Init /\ [][Next]_vars

-----------------------------------------------------------------------------
\* "Two full rewrites racing means the loser's matrix wins": runs overlap only
\* when all but one have lost their lock, by running past the timeout, by a
\* save, or by the end of a run that had lost its own; and yet, "so nothing
\* wedges", once the agenda stays as it is the sheet comes to show it, and
\* keeps to it, whatever was killed, failed or overtaken.
ExportKeepsUp ==
  /\ [](Cardinality(Running \ lapsed) <= 1)
  /\ <>[](sheet = agenda)
=============================================================================
