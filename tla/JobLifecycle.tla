---------------------------- MODULE JobLifecycle ----------------------------
(***************************************************************************)
(* What the jobs table promises its readers: rows are created queued under *)
(* ids that are never used again, every change of status is one that       *)
(* state.go allows, and apart from that a row can only be deleted.         *)
(* JobManager is shown to implement this module when no client cancels.    *)
(***************************************************************************)
EXTENDS JobStates, Naturals

CONSTANT MaxJobs      \* bound: how many rows are ever created

Jobs == 1..MaxJobs

VARIABLES table,     \* [Jobs -> AllStatuses \cup {NoRow}]: the rows
          next       \* the id AUTOINCREMENT gives to the next row

lifecycle == <<table, next>>

Init == /\ table = [j \in Jobs |-> NoRow]
        /\ next = 1

Create == /\ next \in Jobs
          /\ table' = [table EXCEPT ![next] = "queued"]
          /\ next' = next + 1

(* One statement may move several rows: the restart recovery does. *)
Move == \E S \in SUBSET Jobs, to \in AllStatuses :
          /\ \A j \in S : CanTransition(table[j], to)
          /\ table' = [j \in Jobs |-> IF j \in S THEN to ELSE table[j]]
          /\ UNCHANGED next

Remove == \E S \in SUBSET Jobs :
          /\ table' = [j \in Jobs |-> IF j \in S THEN NoRow ELSE table[j]]
          /\ UNCHANGED next

Next == Create \/ Move \/ Remove

Spec == Init /\ [][Next]_lifecycle
=============================================================================
