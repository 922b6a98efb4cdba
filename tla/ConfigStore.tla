---------------------------- MODULE ConfigStore ----------------------------
(***************************************************************************)
(* What the configuration of the gateway promises, whoever changes it: a   *)
(* table of cameras in memory, changed one camera at a time, and a copy on *)
(* disk that is at every moment a whole table.  A change is safe once it   *)
(* has been saved; a restart goes back to the last table saved.            *)
(***************************************************************************)
CONSTANTS Ids, Profiles, NoCamera

VARIABLES memory, disk

Tables == [Ids -> Profiles \cup {NoCamera}]

Init == memory \in Tables /\ disk = memory

Change(id) ==
  /\ \E p \in Profiles \cup {NoCamera} : memory' = [memory EXCEPT ![id] = p]
  /\ UNCHANGED disk

Save == disk' = memory /\ UNCHANGED memory

Restart == memory' = disk /\ UNCHANGED disk

Next == (\E id \in Ids : Change(id)) \/ Save \/ Restart

Spec == Init /\ [][Next]_<<memory, disk>>
=============================================================================
