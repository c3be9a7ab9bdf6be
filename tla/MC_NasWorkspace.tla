-------------------------- MODULE MC_NasWorkspace --------------------------
(* Small instances of NasWorkspace for TLC. *)
EXTENDS NasWorkspace

(* A server that ignores signals, one that signals the command it started, and *)
(* one that signals the whole process group.                                   *)
MCReach == {{}, {"script"}, {"script", "lftp"}}
=============================================================================
