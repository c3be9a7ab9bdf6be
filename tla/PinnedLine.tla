----------------------------- MODULE PinnedLine -----------------------------
(***************************************************************************)
(* What an SSH connection of the relay promises those who use it: there is *)
(* one line at most, it goes to the host that the settings named when its  *)
(* dial began and was opened with the key that they pin, and a key that is *)
(* pinned is replaced by the user alone.  What is left over of settings    *)
(* that have changed meanwhile is marked as old and exempt.                *)
(*                                                                         *)
(* SftpPool and NasClient are shown to implement this module: whoever      *)
(* calls, holds the mutex, drops, breaks or closes.                        *)
(***************************************************************************)
CONSTANTS Hosts, Keys,
          NoKey,         \* no key is pinned yet
          NoSettings     \* the server has been deleted

Settings == [host : Hosts, pin : Keys \cup {NoKey}]

VARIABLES settings,      \* the host and the key it has pinned
          attempts,      \* the dial under way, if any: {} or {[host, pin, old]}
          lines,         \* the connection in use, if any: {} or {[host, key, old]}
          ended          \* there will be no more of them

pinned == <<settings, attempts, lines, ended>>

Init == /\ settings \in Settings
        /\ attempts = {} /\ lines = {}
        /\ ended = FALSE

Aged(S) == {[x EXCEPT !.old = TRUE] : x \in S}

(* The user changes the settings, or deletes them. *)
Configure == /\ settings' \in Settings \cup {NoSettings}
             /\ attempts' = Aged(attempts) /\ lines' = Aged(lines)
             /\ UNCHANGED ended

(* A dial begins, by the settings or by an older copy; no line outlives it. *)
Begin == /\ attempts = {} /\ ~ended
         /\ \E s \in Settings, old \in BOOLEAN :
              /\ old \/ s = settings
              /\ attempts' = {[host |-> s.host, pin |-> s.pin, old |-> old]}
         /\ lines' = {}
         /\ UNCHANGED <<settings, ended>>

(* The first key that is seen is pinned; only an old dial may replace one. *)
Record == /\ settings \in Settings
          /\ \E a \in attempts, k \in Keys :
               /\ a.pin = NoKey
               /\ a.old \/ settings.pin = NoKey
               /\ settings' = [settings EXCEPT !.pin = k]
               /\ attempts' = {[a EXCEPT !.pin = k]}
          /\ UNCHANGED <<lines, ended>>

(* The line is there, with the key that was pinned and no other. *)
Establish == /\ \E a \in attempts :
                  /\ a.pin \in Keys
                  /\ lines' = {[host |-> a.host, key |-> a.pin, old |-> a.old]}
             /\ attempts' = {}
             /\ UNCHANGED <<settings, ended>>

Fail == attempts' = {} /\ UNCHANGED <<settings, lines, ended>>

Drop == lines' = {} /\ UNCHANGED <<settings, attempts, ended>>

End == /\ attempts = {}
       /\ ended' = TRUE
       /\ lines' \in {lines, {}}
       /\ UNCHANGED <<settings, attempts>>

Next == Configure \/ Begin \/ Record \/ Establish \/ Fail \/ Drop \/ End

Spec == Init /\ [][Next]_pinned
=============================================================================
