------------------------- MODULE NasWorkspace_proofs -------------------------
(***************************************************************************)
(* Proofs about NasWorkspace, for every number of runs, crashes and        *)
(* failures and whatever a signal to the SSH session reaches.              *)
(***************************************************************************)
EXTENDS NasWorkspace, TLAPS

LEMMA Order ==
    cancelOrder["idle"] = "kill" /\ cancelOrder["kill"] = "fire" /\ cancelOrder["fire"] = "idle"
  BY DEF cancelOrder

LEMMA FaultType == TypeOK /\ Fault => faults' \in 0..MaxFaults /\ downs' \in 0..MaxDowns
  BY BoundsAssumption DEF TypeOK, Fault

LEMMA DownsType == TypeOK /\ downs < MaxDowns /\ downs' = downs + 1 => downs' \in 0..MaxDowns
  BY BoundsAssumption DEF TypeOK

LEMMA InitTypeOK == Init => TypeOK
<1> SUFFICES ASSUME Init PROVE TypeOK
  OBVIOUS
<1>1. run \in 0..MaxRuns /\ downs \in 0..MaxDowns /\ faults \in 0..MaxFaults
  BY BoundsAssumption DEF Init
<1> QED
  BY <1>1 DEF Init, TypeOK, Runs, NoPid

LEMMA NextTypeOK == TypeOK /\ [Next]_vars => TypeOK'
<1> SUFFICES ASSUME TypeOK, [Next]_vars PROVE TypeOK'
  OBVIOUS
<1> USE DEF Runs, NoPid
<1>1. CASE Boot
  BY <1>1 DEF TypeOK, Boot, vars, inside, disk, remote, bounds
<1>2. CASE Stop
  BY <1>2, DownsType DEF TypeOK, Stop, vars, inside, disk, remote, bounds
<1>3. CASE Exit
  BY <1>3 DEF TypeOK, Exit, Down, vars, inside, disk, remote, bounds
<1>4. CASE Crash
  BY <1>4, DownsType DEF TypeOK, Crash, Down, vars, inside, disk, remote, bounds
<1>5. CASE Sweep
  <2>1. sweep' \in BOOLEAN /\ excused' \in BOOLEAN
    BY <1>5, Zenon DEF Sweep
  <2>2. stage' = "none" /\ dir' = "none" /\ pid' = NoPid
    BY <1>5, Zenon DEF Sweep, Removed
  <2>3. UNCHANGED <<relay, job, cancelled, run, work, ctx, handler, aimed, script, term, lftp, downs, faults>>
    BY <1>5, Zenon DEF Sweep, inside, remote, bounds
  <2> QED
    BY <2>1, <2>2, <2>3 DEF TypeOK
<1>6. CASE SweepFails
  <2>1. faults' \in 0..MaxFaults /\ downs' \in 0..MaxDowns
    BY <1>6, FaultType DEF SweepFails
  <2>2. sweep' \in BOOLEAN /\ excused' \in BOOLEAN
    BY <1>6, Zenon DEF SweepFails
  <2>3. UNCHANGED <<relay, job, cancelled, run, work, ctx, handler, aimed, stage, dir, pid, script, term, lftp>>
    BY <1>6 DEF SweepFails, inside, disk, remote
  <2> QED
    BY <2>1, <2>2, <2>3 DEF TypeOK
<1>7. CASE StartRun
  <2>1. run' \in 0..MaxRuns
    BY <1>7, BoundsAssumption DEF TypeOK, StartRun
  <2> QED
    BY <1>7, <2>1 DEF TypeOK, StartRun, OnlyWorker, disk, remote, bounds
<1>8. CASE UploadBegins
  BY <1>8 DEF TypeOK, UploadBegins, OnlyWorker, vars, inside, disk, remote, bounds
<1>9. CASE UploadEnds
  BY <1>9 DEF TypeOK, UploadEnds, OnlyWorker, vars, inside, disk, remote, bounds
<1>10. CASE TransferFails
  BY <1>10, FaultType, Order DEF TypeOK, TransferFails, Ends, OnlyWorker, vars, inside, disk, remote, bounds
<1>11. CASE ScriptStarts
  <2>1. script' \in [Runs -> {"none", "mkdir", "copy", "lftp", "pid", "wait", "exit", "gone"}]
    BY <1>11 DEF TypeOK, ScriptStarts
  <2> QED
    BY <1>11, <2>1 DEF TypeOK, ScriptStarts, OnlyWorker, disk, bounds
<1>12. CASE StreamEnds
  BY <1>12 DEF TypeOK, StreamEnds, Ends, OnlyWorker, vars, inside, disk, remote, bounds
<1>13. CASE StreamBreaks
  BY <1>13, FaultType, Order DEF TypeOK, StreamBreaks, Ends, OnlyWorker, vars, inside, disk, remote, bounds
<1>14. CASE StreamAborts
  <2>1. PICK r \in Reach : Signalled(r)
    BY <1>14 DEF StreamAborts
  <2>2. term' \in [Runs -> BOOLEAN]
    BY <2>1 DEF Signalled, TypeOK
  <2>3. lftp' \in [Runs -> {"none", "running", "told", "gone"}]
    BY <2>1 DEF Signalled, TypeOK
  <2> QED
    BY <1>14, <2>2, <2>3 DEF TypeOK, StreamAborts, Ends, OnlyWorker, disk, bounds
<1>15. CASE Cleanup
  BY <1>15 DEF TypeOK, Cleanup, Kill, OnlyWorker, vars, inside, disk, remote, bounds
<1>16. CASE CleanupFails
  BY <1>16, FaultType, Order DEF TypeOK, CleanupFails, OnlyWorker, vars, inside, disk, remote, bounds
<1>17. CASE CancelMarks
  BY <1>17, Order DEF TypeOK, CancelMarks, OnlyHandler, vars, inside, disk, remote, bounds
<1>18. CASE CancelKills
  BY <1>18, Order DEF TypeOK, CancelKills, Kill, OnlyHandler, vars, inside, disk, remote, bounds
<1>19. CASE CancelKillFails
  <2>1. faults' \in 0..MaxFaults /\ downs' \in 0..MaxDowns
    BY <1>19, FaultType DEF CancelKillFails
  <2>2. aimed' \in BOOLEAN /\ handler' \in {"idle", "kill", "fire"}
    BY <1>19, Order DEF CancelKillFails
  <2>3. UNCHANGED <<relay, job, run, work, sweep, disk, script, term, excused, cancelled, ctx, lftp>>
    BY <1>19 DEF CancelKillFails, OnlyHandler
  <2> QED
    BY <2>1, <2>2, <2>3 DEF TypeOK, disk
<1>20. CASE CancelFires
  BY <1>20, Order DEF TypeOK, CancelFires, OnlyHandler, vars, inside, disk, remote, bounds
<1>21. ASSUME NEW n \in Runs, Nas(n) PROVE TypeOK'
  <2>1. CASE ScriptMakesDir(n)
    BY <2>1 DEF TypeOK, ScriptMakesDir, OnlyNas, Goes, inside, disk, remote, bounds
  <2>2. CASE ScriptCopies(n)
    BY <2>2 DEF TypeOK, ScriptCopies, OnlyNas, Goes, inside, disk, remote, bounds
  <2>3. CASE ScriptStartsLftp(n)
    BY <2>3 DEF TypeOK, ScriptStartsLftp, OnlyNas, Goes, inside, disk, remote, bounds
  <2>4. CASE ScriptWritesPid(n)
    BY <2>4 DEF TypeOK, ScriptWritesPid, OnlyNas, Goes, inside, disk, remote, bounds
  <2>5. CASE ScriptWaits(n)
    BY <2>5 DEF TypeOK, ScriptWaits, OnlyNas, Goes, inside, disk, remote, bounds
  <2>6. CASE ScriptExits(n)
    BY <2>6 DEF TypeOK, ScriptExits, Removed, Goes, OnlyNas, inside, disk, remote, bounds
  <2>7. CASE ScriptTraps(n)
    BY <2>7 DEF TypeOK, ScriptTraps, Removed, Goes, OnlyNas, inside, disk, remote, bounds
  <2>8. CASE ScriptKilled(n)
    BY <2>8, FaultType, Order DEF TypeOK, ScriptKilled, Goes, Idle, inside, disk, remote, bounds
  <2>9. CASE LftpEnds(n)
    BY <2>9 DEF TypeOK, LftpEnds, OnlyNas, inside, disk, remote, bounds
  <2> QED
    BY <1>21, <2>1, <2>2, <2>3, <2>4, <2>5, <2>6, <2>7, <2>8, <2>9 DEF Nas
<1>22. CASE UNCHANGED vars
  BY <1>22 DEF TypeOK, vars, inside, disk, remote, bounds
<1> QED
  BY <1>1, <1>2, <1>3, <1>4, <1>5, <1>6, <1>7, <1>8, <1>9, <1>10, <1>11, <1>12, <1>13, <1>14, <1>15, <1>16, <1>17, <1>18, <1>19, <1>20, <1>21, <1>22 DEF Next

LEMMA InitWorkspaceInv == Init => WorkspaceInv
  BY BoundsAssumption DEF Init, WorkspaceInv, Leftovers, WorkerPlace, Unstarted, ScriptPlace, CancelPlace, Aim, Runs, NoPid, Idle

(* A directory appears while someone can remove it, and its last keeper removes it or is excused. *)
LEMMA NextLeftovers == TypeOK /\ WorkspaceInv /\ [Next]_vars => Leftovers'
<1> SUFFICES ASSUME TypeOK, WorkspaceInv, [Next]_vars PROVE Leftovers'
  OBVIOUS
<1> USE DEF TypeOK, WorkspaceInv, Leftovers, WorkerPlace, ScriptPlace, Unstarted, Idle, inside, disk, remote, Runs, NoPid
<1>1. CASE Boot
  BY <1>1 DEF Boot
<1>2. CASE Stop
  BY <1>2 DEF Stop
<1>3. CASE Exit
  BY <1>3 DEF Exit, Down
<1>4. CASE Crash
  BY <1>4 DEF Crash, Down
<1>5. CASE Sweep
  BY <1>5 DEF Sweep, Removed
<1>6. CASE SweepFails
  BY <1>6 DEF SweepFails
<1>7. CASE StartRun
  BY <1>7 DEF StartRun, OnlyWorker
<1>8. CASE UploadBegins
  BY <1>8 DEF UploadBegins, OnlyWorker
<1>9. CASE UploadEnds
  BY <1>9 DEF UploadEnds, OnlyWorker
<1>10. CASE TransferFails
  BY <1>10 DEF TransferFails, Ends, OnlyWorker
<1>11. CASE ScriptStarts
  BY <1>11 DEF ScriptStarts, OnlyWorker
<1>12. CASE StreamEnds
  BY <1>12 DEF StreamEnds, Ends, OnlyWorker
<1>13. CASE StreamBreaks
  BY <1>13 DEF StreamBreaks, Ends, OnlyWorker
<1>14. CASE StreamAborts
  BY <1>14 DEF StreamAborts, Ends, Signalled, OnlyWorker
<1>15. CASE Cleanup
  BY <1>15 DEF Cleanup, Kill, OnlyWorker
<1>16. CASE CleanupFails
  BY <1>16 DEF CleanupFails, OnlyWorker
<1>17. CASE CancelMarks
  BY <1>17, Order DEF CancelMarks, OnlyHandler
<1>18. CASE CancelKills
  BY <1>18, Order DEF CancelKills, Kill, OnlyHandler
<1>19. CASE CancelKillFails
  BY <1>19, Order DEF CancelKillFails, OnlyHandler
<1>20. CASE CancelFires
  BY <1>20, Order DEF CancelFires, OnlyHandler
<1>21. ASSUME NEW m \in Runs, Nas(m) PROVE Leftovers'
  <2>1. CASE ScriptMakesDir(m)
    BY <2>1 DEF ScriptMakesDir, Goes, OnlyNas
  <2>2. CASE ScriptCopies(m)
    BY <2>2 DEF ScriptCopies, Goes, OnlyNas
  <2>3. CASE ScriptStartsLftp(m)
    BY <2>3 DEF ScriptStartsLftp, Goes, OnlyNas
  <2>4. CASE ScriptWritesPid(m)
    BY <2>4 DEF ScriptWritesPid, Goes, OnlyNas
  <2>5. CASE ScriptWaits(m)
    BY <2>5 DEF ScriptWaits, Goes, OnlyNas
  <2>6. CASE ScriptExits(m)
    BY <2>6 DEF ScriptExits, Goes, OnlyNas, Removed
  <2>7. CASE ScriptTraps(m)
    BY <2>7 DEF ScriptTraps, Goes, OnlyNas, Removed
  <2>8. CASE ScriptKilled(m)
    BY <2>8 DEF ScriptKilled, Goes
  <2>9. CASE LftpEnds(m)
    BY <2>9 DEF LftpEnds, OnlyNas
  <2> QED
    BY <1>21, <2>1, <2>2, <2>3, <2>4, <2>5, <2>6, <2>7, <2>8, <2>9 DEF Nas
<1>22. CASE UNCHANGED vars
  BY <1>22 DEF vars
<1> QED
  BY <1>1, <1>2, <1>3, <1>4, <1>5, <1>6, <1>7, <1>8, <1>9, <1>10, <1>11, <1>12, <1>13, <1>14, <1>15, <1>16, <1>17, <1>18, <1>19, <1>20, <1>21, <1>22 DEF Next

(* The worker's place in its run; the Nas actions leave it alone. *)
LEMMA NextWorkerPlace == TypeOK /\ WorkspaceInv /\ [Next]_vars => WorkerPlace'
<1> SUFFICES ASSUME TypeOK, WorkspaceInv, [Next]_vars PROVE WorkerPlace'
  OBVIOUS
<1> USE DEF TypeOK, WorkspaceInv, WorkerPlace, CancelPlace, inside, Runs
<1>1. CASE Boot
  BY <1>1 DEF Boot
<1>2. CASE Stop
  BY <1>2 DEF Stop
<1>3. CASE Exit
  BY <1>3 DEF Exit, Down
<1>4. CASE Crash
  BY <1>4 DEF Crash, Down
<1>5. CASE Sweep
  BY <1>5 DEF Sweep
<1>6. CASE SweepFails
  BY <1>6 DEF SweepFails
<1>7. CASE StartRun
  BY <1>7, BoundsAssumption DEF StartRun, OnlyWorker
<1>8. CASE UploadBegins
  BY <1>8 DEF UploadBegins, OnlyWorker
<1>9. CASE UploadEnds
  BY <1>9 DEF UploadEnds, OnlyWorker
<1>10. CASE TransferFails
  BY <1>10 DEF TransferFails, Ends, OnlyWorker
<1>11. CASE ScriptStarts
  BY <1>11 DEF ScriptStarts, OnlyWorker
<1>12. CASE StreamEnds
  BY <1>12 DEF StreamEnds, Ends, OnlyWorker
<1>13. CASE StreamBreaks
  BY <1>13 DEF StreamBreaks, Ends, OnlyWorker
<1>14. CASE StreamAborts
  BY <1>14 DEF StreamAborts, Ends, OnlyWorker
<1>15. CASE Cleanup
  BY <1>15 DEF Cleanup, OnlyWorker
<1>16. CASE CleanupFails
  BY <1>16 DEF CleanupFails, OnlyWorker
<1>17. CASE CancelMarks
  BY <1>17, Order DEF CancelMarks, OnlyHandler
<1>18. CASE CancelKills
  BY <1>18, Order DEF CancelKills, OnlyHandler
<1>19. CASE CancelKillFails
  BY <1>19, Order DEF CancelKillFails, OnlyHandler
<1>20. CASE CancelFires
  BY <1>20, Order DEF CancelFires, OnlyHandler
<1>21. ASSUME NEW m \in Runs, Nas(m) PROVE WorkerPlace'
  BY <1>21 DEF Nas, OnlyNas, ScriptMakesDir, ScriptCopies, ScriptStartsLftp, ScriptWritesPid, ScriptWaits, ScriptExits, ScriptTraps, ScriptKilled, LftpEnds
<1>22. CASE UNCHANGED vars
  BY <1>22 DEF vars
<1> QED
  BY <1>1, <1>2, <1>3, <1>4, <1>5, <1>6, <1>7, <1>8, <1>9, <1>10, <1>11, <1>12, <1>13, <1>14, <1>15, <1>16, <1>17, <1>18, <1>19, <1>20, <1>21, <1>22 DEF Next

(* Each run's script, its TERM and the pidfile. *)
LEMMA NextScriptPlace == TypeOK /\ WorkspaceInv /\ [Next]_vars => ScriptPlace'
<1> SUFFICES ASSUME TypeOK, WorkspaceInv, [Next]_vars PROVE ScriptPlace'
  OBVIOUS
<1> USE DEF TypeOK, WorkspaceInv, WorkerPlace, ScriptPlace, Unstarted, Idle, inside, disk, remote, Runs, NoPid
<1>1. CASE Boot
  BY <1>1 DEF Boot
<1>2. CASE Stop
  BY <1>2 DEF Stop
<1>3. CASE Exit
  BY <1>3 DEF Exit, Down
<1>4. CASE Crash
  BY <1>4 DEF Crash, Down
<1>5. CASE Sweep
  BY <1>5 DEF Sweep, Removed
<1>6. CASE SweepFails
  BY <1>6 DEF SweepFails
<1>7. CASE StartRun
  <2>1. run \in 0..MaxRuns /\ run' = run + 1 /\ work' = "write" /\ UNCHANGED <<script, term, lftp, pid>>
    BY <1>7 DEF StartRun
  <2>2. ASSUME NEW n \in Runs, n >= run + 1
        PROVE  script[n] = "none" /\ lftp[n] = "none" /\ ~term[n] /\ pid # n
    BY <2>1, <2>2
  <2> QED
    BY <2>1, <2>2, BoundsAssumption
<1>8. CASE UploadBegins
  BY <1>8 DEF UploadBegins, OnlyWorker
<1>9. CASE UploadEnds
  BY <1>9 DEF UploadEnds, OnlyWorker
<1>10. CASE TransferFails
  BY <1>10 DEF TransferFails, Ends, OnlyWorker
<1>11. CASE ScriptStarts
  BY <1>11 DEF ScriptStarts, OnlyWorker
<1>12. CASE StreamEnds
  BY <1>12 DEF StreamEnds, Ends, OnlyWorker
<1>13. CASE StreamBreaks
  BY <1>13 DEF StreamBreaks, Ends, OnlyWorker
<1>14. CASE StreamAborts
  BY <1>14 DEF StreamAborts, Ends, Signalled, OnlyWorker
<1>15. CASE Cleanup
  BY <1>15 DEF Cleanup, Kill, OnlyWorker
<1>16. CASE CleanupFails
  BY <1>16 DEF CleanupFails, OnlyWorker
<1>17. CASE CancelMarks
  BY <1>17, Order DEF CancelMarks, OnlyHandler
<1>18. CASE CancelKills
  BY <1>18, Order DEF CancelKills, Kill, OnlyHandler
<1>19. CASE CancelKillFails
  BY <1>19, Order DEF CancelKillFails, OnlyHandler
<1>20. CASE CancelFires
  BY <1>20, Order DEF CancelFires, OnlyHandler
<1>21. ASSUME NEW m \in Runs, Nas(m) PROVE ScriptPlace'
  <2>1. CASE ScriptMakesDir(m)
    BY <2>1 DEF ScriptMakesDir, Goes, OnlyNas
  <2>2. CASE ScriptCopies(m)
    <3>1. CASE script' = [script EXCEPT ![m] = "lftp"]
      BY <2>2, <3>1 DEF ScriptCopies, OnlyNas
    <3>2. CASE script' = [script EXCEPT ![m] = "exit"]
      BY <2>2, <3>2 DEF ScriptCopies, OnlyNas
    <3> QED
      BY <2>2, <3>1, <3>2 DEF ScriptCopies, Goes
  <2>3. CASE ScriptStartsLftp(m)
    BY <2>3 DEF ScriptStartsLftp, Goes, OnlyNas
  <2>4. CASE ScriptWritesPid(m)
    BY <2>4 DEF ScriptWritesPid, Goes, OnlyNas
  <2>5. CASE ScriptWaits(m)
    BY <2>5 DEF ScriptWaits, Goes, OnlyNas
  <2>6. CASE ScriptExits(m)
    BY <2>6 DEF ScriptExits, Goes, OnlyNas, Removed
  <2>7. CASE ScriptTraps(m)
    BY <2>7 DEF ScriptTraps, Goes, OnlyNas, Removed
  <2>8. CASE ScriptKilled(m)
    BY <2>8 DEF ScriptKilled, Goes
  <2>9. CASE LftpEnds(m)
    BY <2>9 DEF LftpEnds, OnlyNas
  <2> QED
    BY <1>21, <2>1, <2>2, <2>3, <2>4, <2>5, <2>6, <2>7, <2>8, <2>9 DEF Nas
<1>22. CASE UNCHANGED vars
  BY <1>22 DEF vars
<1> QED
  BY <1>1, <1>2, <1>3, <1>4, <1>5, <1>6, <1>7, <1>8, <1>9, <1>10, <1>11, <1>12, <1>13, <1>14, <1>15, <1>16, <1>17, <1>18, <1>19, <1>20, <1>21, <1>22 DEF Next

(* Cancel marks the row before it touches anything else. *)
LEMMA NextCancelPlace == TypeOK /\ WorkspaceInv /\ [Next]_vars => CancelPlace'
<1> SUFFICES ASSUME TypeOK, WorkspaceInv, [Next]_vars PROVE CancelPlace'
  OBVIOUS
<1> USE DEF TypeOK, WorkspaceInv, WorkerPlace, CancelPlace, inside
<1>1. CASE Boot
  BY <1>1 DEF Boot
<1>2. CASE Stop
  BY <1>2 DEF Stop
<1>3. CASE Exit
  BY <1>3 DEF Exit, Down
<1>4. CASE Crash
  BY <1>4 DEF Crash, Down
<1>5. CASE Sweep
  BY <1>5 DEF Sweep
<1>6. CASE SweepFails
  BY <1>6 DEF SweepFails
<1>7. CASE StartRun
  BY <1>7 DEF StartRun, OnlyWorker
<1>8. CASE UploadBegins
  BY <1>8 DEF UploadBegins, OnlyWorker
<1>9. CASE UploadEnds
  BY <1>9 DEF UploadEnds, OnlyWorker
<1>10. CASE TransferFails
  BY <1>10 DEF TransferFails, Ends, OnlyWorker
<1>11. CASE ScriptStarts
  BY <1>11 DEF ScriptStarts, OnlyWorker
<1>12. CASE StreamEnds
  BY <1>12 DEF StreamEnds, Ends, OnlyWorker
<1>13. CASE StreamBreaks
  BY <1>13 DEF StreamBreaks, Ends, OnlyWorker
<1>14. CASE StreamAborts
  BY <1>14 DEF StreamAborts, Ends, OnlyWorker
<1>15. CASE Cleanup
  BY <1>15 DEF Cleanup, OnlyWorker
<1>16. CASE CleanupFails
  BY <1>16 DEF CleanupFails, OnlyWorker
<1>17. CASE CancelMarks
  BY <1>17, Order DEF CancelMarks, OnlyHandler
<1>18. CASE CancelKills
  BY <1>18, Order DEF CancelKills, OnlyHandler
<1>19. CASE CancelKillFails
  BY <1>19, Order DEF CancelKillFails, OnlyHandler
<1>20. CASE CancelFires
  BY <1>20, Order DEF CancelFires, OnlyHandler
<1>21. ASSUME NEW m \in Runs, Nas(m) PROVE CancelPlace'
  BY <1>21 DEF Nas, OnlyNas, ScriptMakesDir, ScriptCopies, ScriptStartsLftp, ScriptWritesPid, ScriptWaits, ScriptExits, ScriptTraps, ScriptKilled, LftpEnds
<1>22. CASE UNCHANGED vars
  BY <1>22 DEF vars
<1> QED
  BY <1>1, <1>2, <1>3, <1>4, <1>5, <1>6, <1>7, <1>8, <1>9, <1>10, <1>11, <1>12, <1>13, <1>14, <1>15, <1>16, <1>17, <1>18, <1>19, <1>20, <1>21, <1>22 DEF Next

(* The target of an aimed cancel; here ScriptPlace says that no other script can come between. *)
LEMMA NextAim == TypeOK /\ WorkspaceInv /\ [Next]_vars => Aim'
<1> SUFFICES ASSUME TypeOK, WorkspaceInv, [Next]_vars PROVE Aim'
  OBVIOUS
<1> USE DEF TypeOK, WorkspaceInv, WorkerPlace, ScriptPlace, CancelPlace, Unstarted, Aim, Idle, inside, disk, remote, Runs, NoPid
<1>1. CASE Boot
  BY <1>1 DEF Boot
<1>2. CASE Stop
  BY <1>2 DEF Stop
<1>3. CASE Exit
  BY <1>3 DEF Exit, Down
<1>4. CASE Crash
  BY <1>4 DEF Crash, Down
<1>5. CASE Sweep
  BY <1>5 DEF Sweep, Removed
<1>6. CASE SweepFails
  BY <1>6 DEF SweepFails
<1>7. CASE StartRun
  BY <1>7 DEF StartRun, OnlyWorker
<1>8. CASE UploadBegins
  BY <1>8 DEF UploadBegins, OnlyWorker
<1>9. CASE UploadEnds
  BY <1>9 DEF UploadEnds, OnlyWorker
<1>10. CASE TransferFails
  BY <1>10 DEF TransferFails, Ends, OnlyWorker
<1>11. CASE ScriptStarts
  BY <1>11 DEF ScriptStarts, OnlyWorker
<1>12. CASE StreamEnds
  BY <1>12 DEF StreamEnds, Ends, OnlyWorker
<1>13. CASE StreamBreaks
  BY <1>13 DEF StreamBreaks, Ends, OnlyWorker
<1>14. CASE StreamAborts
  BY <1>14 DEF StreamAborts, Ends, Signalled, OnlyWorker
<1>15. CASE Cleanup
  BY <1>15 DEF Cleanup, Kill, OnlyWorker
<1>16. CASE CleanupFails
  BY <1>16 DEF CleanupFails, OnlyWorker
<1>17. CASE CancelMarks
  BY <1>17, Order DEF CancelMarks, OnlyHandler
<1>18. CASE CancelKills
  BY <1>18, Order DEF CancelKills, Kill, OnlyHandler
<1>19. CASE CancelKillFails
  BY <1>19, Order DEF CancelKillFails, OnlyHandler
<1>20. CASE CancelFires
  BY <1>20, Order DEF CancelFires, OnlyHandler
<1>21. ASSUME NEW m \in Runs, Nas(m) PROVE Aim'
  <2>1. CASE ScriptMakesDir(m)
    BY <2>1 DEF ScriptMakesDir, Goes, OnlyNas
  <2>2. CASE ScriptCopies(m)
    BY <2>2 DEF ScriptCopies, Goes, OnlyNas
  <2>3. CASE ScriptStartsLftp(m)
    BY <2>3 DEF ScriptStartsLftp, Goes, OnlyNas
  <2>4. CASE ScriptWritesPid(m)
    BY <2>4 DEF ScriptWritesPid, Goes, OnlyNas
  <2>5. CASE ScriptWaits(m)
    BY <2>5 DEF ScriptWaits, Goes, OnlyNas
  <2>6. CASE ScriptExits(m)
    BY <2>6 DEF ScriptExits, Goes, OnlyNas, Removed
  <2>7. CASE ScriptTraps(m)
    BY <2>7 DEF ScriptTraps, Goes, OnlyNas, Removed
  <2>8. CASE ScriptKilled(m)
    BY <2>8 DEF ScriptKilled, Goes
  <2>9. CASE LftpEnds(m)
    BY <2>9 DEF LftpEnds, OnlyNas
  <2> QED
    BY <1>21, <2>1, <2>2, <2>3, <2>4, <2>5, <2>6, <2>7, <2>8, <2>9 DEF Nas
<1>22. CASE UNCHANGED vars
  BY <1>22 DEF vars
<1> QED
  BY <1>1, <1>2, <1>3, <1>4, <1>5, <1>6, <1>7, <1>8, <1>9, <1>10, <1>11, <1>12, <1>13, <1>14, <1>15, <1>16, <1>17, <1>18, <1>19, <1>20, <1>21, <1>22 DEF Next

-----------------------------------------------------------------------------
(* The variables keep their types, and a pidfile its directory. *)
THEOREM TypeCorrect == Spec => []TypeOK
<1>1. Init => TypeOK
  BY InitTypeOK
<1>2. TypeOK /\ [Next]_vars => TypeOK'
  BY NextTypeOK
<1> QED
  BY <1>1, <1>2, PTL DEF Spec

(* The five parts are an invariant together: the order of the scripts, the     *)
(* life of the pidfile, the worker's context and what an aimed cancel relies   *)
(* on, through shutdowns, crashes, a late sweep and failing connections.       *)
THEOREM WorkspaceInvariance == Spec => []WorkspaceInv
<1>1. Init => WorkspaceInv
  BY InitWorkspaceInv
<1>2. TypeOK /\ WorkspaceInv /\ [Next]_vars => WorkspaceInv'
  BY NextLeftovers, NextWorkerPlace, NextScriptPlace, NextCancelPlace, NextAim DEF WorkspaceInv
<1> QED
  BY <1>1, <1>2, TypeCorrect, PTL DEF Spec

(* When no worker and no script is left, the credentials have gone from the    *)
(* NAS, or something ended that could not remove them.                         *)
THEOREM NothingLeft == Spec => []NothingLeftBehind
<1>1. WorkspaceInv => NothingLeftBehind
  BY DEF WorkspaceInv, Leftovers, NothingLeftBehind
<1> QED
  BY <1>1, WorkspaceInvariance, PTL

(* A cancel that finds lftp in the pidfile has told it when cancel() is over,  *)
(* whatever the SSH server does with signals.                                  *)
THEOREM CancelReaches == Spec => []CancelEndsLftp
<1>1. WorkspaceInv => CancelEndsLftp
  BY DEF WorkspaceInv, Aim, CancelEndsLftp
<1> QED
  BY <1>1, WorkspaceInvariance, PTL

=============================================================================
