---------------------------- MODULE SharedRecord ----------------------------
(***************************************************************************)
(* What a durable record shared by several processes promises: updates     *)
(* apply one at a time to the latest value, and a value disappears only    *)
(* through a write, a removal, or a repair of damage done from outside.    *)
(***************************************************************************)
CONSTANT Mark  \* the updates anybody may make

VARIABLES
  uses,     \* which operations its users call; never changes
  record,   \* the marks of the updates the value holds
  damaged   \* has the file lost the value, or its readable form?

Init == uses \subseteq {"get", "update", "set", "remove"} /\ record = {} /\ damaged \in BOOLEAN

\* Read, compute and write; a damaged value may have been read before or after the damage.
Update(m) ==
  /\ "update" \in uses
  /\ record' = record \cup {m} \/ (damaged /\ record' = {m})
  /\ damaged' = FALSE

Set(m) == "set" \in uses /\ record' = {m} /\ damaged' = FALSE
Remove == "remove" \in uses /\ record' = {} /\ damaged' = FALSE
Damage == damaged' = TRUE /\ UNCHANGED record
Repair == damaged /\ damaged' = FALSE /\ record' = {}

Next ==
  /\ UNCHANGED uses
  /\ (\E m \in Mark : Update(m) \/ Set(m)) \/ Remove \/ Damage \/ Repair

RecordSpec == Init /\ [][Next]_<<uses, record, damaged>>
=============================================================================
