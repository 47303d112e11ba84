--------------------------- MODULE StatusJournal ---------------------------
(***************************************************************************)
(* What the execution service promises about its audit trail, without the  *)
(* statements it issues.  A request writes an execution's status at most   *)
(* once; afterwards the write is either recorded by one event or lost      *)
(* with a request that did not report success.  An event never appears     *)
(* before its write, and a lost write never gets one later.                *)
(***************************************************************************)
CONSTANT Requests

VARIABLES written,   \* requests whose status write took effect
          logged,    \* requests whose event row exists
          lost       \* requests that gave up between the two

vars == <<written, logged, lost>>

Owed == written \ (logged \union lost)

Init ==
  /\ written = {}
  /\ logged = {}
  /\ lost = {}

Write(r) ==
  /\ r \notin written
  /\ written' = written \union {r}
  /\ UNCHANGED <<logged, lost>>

(* The write took effect but its answer did not arrive. *)
WriteUnseen(r) ==
  /\ r \notin written
  /\ written' = written \union {r}
  /\ lost' = lost \union {r}
  /\ UNCHANGED logged

Log(r) ==
  /\ r \in Owed
  /\ logged' = logged \union {r}
  /\ UNCHANGED <<written, lost>>

(* One statement fails, or a crash takes every request in flight. *)
Lose(S) ==
  /\ S # {}
  /\ S \subseteq Owed
  /\ lost' = lost \union S
  /\ UNCHANGED <<written, logged>>

Next ==
  \/ \E r \in Requests : Write(r) \/ WriteUnseen(r) \/ Log(r)
  \/ \E S \in SUBSET Requests : Lose(S)

Settle(r) == Log(r) \/ \E S \in SUBSET Requests : r \in S /\ Lose(S)

Fairness == \A r \in Requests : WF_vars(Settle(r))

Spec == Init /\ [][Next]_vars

FairSpec == Spec /\ Fairness

============================================================================
