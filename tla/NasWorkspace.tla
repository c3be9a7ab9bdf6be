---------------------------- MODULE NasWorkspace ----------------------------
(***************************************************************************)
(* One job's workspace on the NAS: internal/nas/lftp.go, the run.sh it     *)
(* uploads, and the callers in internal/jobs/manager.go.  The job may run  *)
(* several times, because a shutdown or a crash interrupts a run.  Every   *)
(* run has a script and an lftp of its own, which outlive the relay, but   *)
(* all runs share the two directories and the pidfile.                     *)
(*                                                                         *)
(* A signal the trap of the script handles takes effect between two of its *)
(* commands, and the script then goes on with the next one.                *)
(***************************************************************************)
EXTENDS Integers

CONSTANTS
    MaxRuns,     \* bound: runs of the job
    Reach,       \* what a TERM sent to the SSH session may reach: subsets of {"script", "lftp"}
    MaxDowns,    \* bound: shutdowns and crashes
    MaxFaults    \* bound: failing connections, scripts killed

ASSUME BoundsAssumption == MaxRuns \in Nat /\ MaxDowns \in Nat /\ MaxFaults \in Nat
ASSUME ReachAssumption  == Reach \subseteq SUBSET {"script", "lftp"}

Runs  == 1..MaxRuns
NoPid == 0

VARIABLES
    relay,      \* "down", "up", "stopping"
    job,        \* "runnable", "running", "over"
    cancelled,  \* the row says cancelled
    run,        \* how often the job was started
    work,       \* where the worker is: "idle", "write", "upload", "connect", "stream", "cleanup"
    ctx,        \* the worker's context is done
    handler,    \* a cancel request: "idle", "kill", "fire"
    sweep,      \* the goroutine with the startup sweep has not run it yet
    stage,      \* the staging directory: "none", "part", "full"
    dir,        \* the runtime directory: "none", "made", "full"
    pid,        \* the pidfile in it: the run whose lftp it names, or NoPid
    script,     \* [Runs -> ...]: the command each run.sh executes next
    term,       \* [Runs -> BOOLEAN]: a TERM the script has not handled yet
    lftp,       \* [Runs -> "none", "running", "told" (it got a TERM), "gone"]
    aimed,      \* history: the last cancel found a pidfile that only it and the script can touch
    excused,    \* history: something ended since the last sweep that could not clean up
    downs, faults

disk   == <<stage, dir, pid>>
remote == <<script, term, lftp>>
inside == <<job, cancelled, run, work, ctx, handler, aimed>>
bounds == <<downs, faults>>
vars   == <<relay, inside, sweep, disk, remote, excused, bounds>>

Idle == {"none", "gone"}     \* a script or an lftp that does nothing

Fault == faults < MaxFaults /\ faults' = faults + 1 /\ UNCHANGED downs

Init ==
    /\ relay = "down" /\ job = "runnable" /\ cancelled = FALSE
    /\ run = 0 /\ work = "idle" /\ ctx = FALSE /\ handler = "idle" /\ sweep = FALSE
    /\ stage = "none" /\ dir = "none" /\ pid = NoPid
    /\ script = [n \in Runs |-> "none"]
    /\ term = [n \in Runs |-> FALSE]
    /\ lftp = [n \in Runs |-> "none"]
    /\ aimed = FALSE /\ excused = FALSE
    /\ downs = 0 /\ faults = 0

Removed == stage' = "none" /\ dir' = "none" /\ pid' = NoPid

-----------------------------------------------------------------------------
(* The relay. *)

(* Start: recovery, which looks at the row, the goroutine that sweeps, the scheduler. *)
Boot ==
    /\ relay = "down"
    /\ relay' = "up"
    /\ job' = IF job # "running" THEN job ELSE IF cancelled THEN "over" ELSE "runnable"
    /\ sweep' = TRUE
    /\ UNCHANGED <<cancelled, run, work, ctx, handler, aimed, disk, remote, excused, bounds>>

(* Stop: the worker's context is cancelled. *)
Stop ==
    /\ relay = "up"
    /\ downs < MaxDowns /\ downs' = downs + 1
    /\ relay' = "stopping"
    /\ ctx' = (work # "idle")
    /\ UNCHANGED <<job, cancelled, run, work, handler, aimed, sweep, disk, remote, excused, faults>>

Down ==
    /\ relay' = "down"
    /\ work' = "idle" /\ ctx' = FALSE /\ handler' = "idle" /\ aimed' = FALSE
    /\ sweep' = FALSE
    /\ UNCHANGED <<job, cancelled, run, disk, remote, excused, faults>>

Exit  == relay = "stopping" /\ work = "idle" /\ Down /\ UNCHANGED downs
Crash == relay # "down" /\ downs < MaxDowns /\ downs' = downs + 1 /\ Down

(* Seeded bug: only the staging directories are swept. *)
SweepHalf ==
    /\ sweep
    /\ sweep' = FALSE
    /\ stage' = "none"
    /\ excused' = FALSE
    /\ UNCHANGED <<relay, inside, dir, pid, remote, bounds>>

(* Sweep, at any time after Start; other jobs' directories go with this one's. *)
Sweep ==
    /\ sweep
    /\ sweep' = FALSE
    /\ Removed
    /\ excused' = FALSE
    /\ UNCHANGED <<relay, inside, remote, bounds>>

(* The NAS is not reachable. *)
SweepFails ==
    /\ sweep
    /\ Fault
    /\ sweep' = FALSE
    /\ excused' = TRUE
    /\ UNCHANGED <<relay, inside, disk, remote>>

-----------------------------------------------------------------------------
(* The worker: Transfer, and run around it. *)

OnlyWorker == UNCHANGED <<relay, cancelled, handler, sweep>>

StartRun ==
    /\ relay = "up" /\ work = "idle" /\ job = "runnable"
    /\ run < MaxRuns /\ run' = run + 1
    /\ job' = "running" /\ work' = "write" /\ ctx' = FALSE /\ aimed' = FALSE
    /\ OnlyWorker /\ UNCHANGED <<disk, remote, excused, bounds>>

(* writeWorkspace makes the directory and writes the files one by one. *)
UploadBegins ==
    /\ work = "write"
    /\ work' = "upload"
    /\ stage' = "part"
    /\ OnlyWorker /\ UNCHANGED <<job, run, ctx, aimed, dir, pid, remote, excused, bounds>>

UploadEnds ==
    /\ work = "upload" /\ stage = "part"
    /\ work' = "connect"
    /\ stage' = "full"
    /\ OnlyWorker /\ UNCHANGED <<job, run, ctx, aimed, dir, pid, remote, excused, bounds>>

(* What transfer's result makes of the job; an error while the context is done *)
(* is an interruption unless the row says cancelled.                           *)
Ends(failed) ==
    /\ work' = "cleanup"
    /\ job' = IF failed /\ ctx /\ ~cancelled THEN "runnable" ELSE "over"

(* Transfer returns before there is a script: the context is done, the NAS is  *)
(* not reachable, or the directory has gone.  What was uploaded stays.         *)
TransferFails ==
    /\ work \in {"write", "upload", "connect"}
    /\ IF ctx \/ (work = "upload" /\ stage = "none") THEN UNCHANGED bounds ELSE Fault
    /\ Ends(TRUE)
    /\ excused' = (excused \/ stage # "none")
    /\ OnlyWorker /\ UNCHANGED <<run, ctx, aimed, disk, remote>>

(* The SSH session starts run.sh, or finds that the sweep has removed it. *)
ScriptStarts ==
    /\ work = "connect"
    /\ work' = "stream"
    /\ script' = [script EXCEPT ![run] = IF stage = "full" THEN "mkdir" ELSE "gone"]
    /\ OnlyWorker /\ UNCHANGED <<job, run, ctx, aimed, disk, term, lftp, excused, bounds>>

(* The script has ended and everything that wrote to its output has. *)
StreamEnds ==
    /\ work = "stream"
    /\ script[run] = "gone" /\ lftp[run] \in Idle
    /\ Ends(FALSE)
    /\ OnlyWorker /\ UNCHANGED <<run, ctx, aimed, disk, remote, excused, bounds>>

(* The connection is lost. *)
StreamBreaks ==
    /\ work = "stream"
    /\ Fault
    /\ Ends(TRUE)
    /\ OnlyWorker /\ UNCHANGED <<run, ctx, aimed, disk, remote, excused>>

(* A TERM comes to the script and to lftp, as far as r says. *)
Signalled(r) ==
    /\ term' = [term EXCEPT ![run] = "script" \in r /\ script[run] \notin Idle]
    /\ lftp' = [lftp EXCEPT ![run] = IF @ = "running" /\ "lftp" \in r THEN "told" ELSE @]

(* stream finds the context done, signals the session and closes it. *)
StreamAborts ==
    /\ work = "stream" /\ ctx
    /\ \E r \in Reach : Signalled(r)
    /\ Ends(TRUE)
    /\ OnlyWorker /\ UNCHANGED <<run, ctx, aimed, disk, script, excused, bounds>>

(* nas.Cancel, run on the NAS: TERM for the lftp that the pidfile names. *)
Kill ==
    lftp' = [n \in Runs |-> IF n = pid /\ lftp[n] = "running" THEN "told" ELSE lftp[n]]

(* cleanup, then the worker returns. *)
Cleanup ==
    /\ work = "cleanup"
    /\ Kill
    /\ work' = "idle"
    /\ OnlyWorker /\ UNCHANGED <<job, run, ctx, aimed, disk, script, term, excused, bounds>>

CleanupFails ==
    /\ work = "cleanup"
    /\ Fault
    /\ work' = "idle"
    /\ OnlyWorker /\ UNCHANGED <<job, run, ctx, aimed, disk, remote, excused>>

-----------------------------------------------------------------------------
(* Cancel. *)

OnlyHandler == UNCHANGED <<relay, job, run, work, sweep, disk, script, term, excused>>

(* Seeded bug: cancel() comes before killRemote. *)
cancelOrderSwapped == [idle |-> "fire", fire |-> "kill", kill |-> "idle"]

(* killRemote comes before cancel(). *)
cancelOrder == [idle |-> "kill", kill |-> "fire", fire |-> "idle"]

(* The row is marked, and the worker is in the map of running jobs. *)
CancelMarks ==
    /\ relay = "up" /\ handler = "idle"
    /\ job = "running" /\ ~cancelled
    /\ cancelled' = TRUE
    /\ handler' = cancelOrder[handler]
    /\ aimed' = (pid = run /\ ~sweep /\ \A n \in Runs : n < run => script[n] \in Idle)
    /\ OnlyHandler /\ UNCHANGED <<ctx, lftp, bounds>>

(* killRemote. *)
CancelKills ==
    /\ handler = "kill"
    /\ Kill
    /\ handler' = cancelOrder[handler]
    /\ OnlyHandler /\ UNCHANGED <<cancelled, ctx, aimed, bounds>>

CancelKillFails ==
    /\ handler = "kill"
    /\ Fault
    /\ handler' = cancelOrder[handler]
    /\ aimed' = FALSE
    /\ OnlyHandler /\ UNCHANGED <<cancelled, ctx, lftp>>

(* cancel(). *)
CancelFires ==
    /\ handler = "fire"
    /\ ctx' = (work # "idle")
    /\ handler' = cancelOrder[handler]
    /\ OnlyHandler /\ UNCHANGED <<cancelled, lftp, aimed, bounds>>

-----------------------------------------------------------------------------
(* run.sh and lftp on the NAS. *)

OnlyNas == UNCHANGED <<relay, inside, sweep, excused, bounds>>

Goes(n, cmd) == script' = [script EXCEPT ![n] = cmd]

(* rm -rf "$d" && mkdir -p "$d" *)
ScriptMakesDir(n) ==
    /\ script[n] = "mkdir" /\ ~term[n]
    /\ dir' = "made" /\ pid' = NoPid
    /\ Goes(n, "copy")
    /\ OnlyNas /\ UNCHANGED <<stage, term, lftp>>

(* cp and chmod, or exit 1; while another run uploads, the files may be there. *)
ScriptCopies(n) ==
    /\ script[n] = "copy" /\ ~term[n]
    /\ \/ stage # "none" /\ dir # "none" /\ dir' = "full" /\ Goes(n, "lftp")
       \/ (stage # "full" \/ dir = "none") /\ UNCHANGED dir /\ Goes(n, "exit")
    /\ OnlyNas /\ UNCHANGED <<stage, pid, term, lftp>>

(* lftp -f "$d/cmds" &; without its files it fails. *)
ScriptStartsLftp(n) ==
    /\ script[n] = "lftp" /\ ~term[n]
    /\ lftp' = [lftp EXCEPT ![n] = IF dir = "full" THEN "running" ELSE "gone"]
    /\ Goes(n, "pid")
    /\ OnlyNas /\ UNCHANGED <<disk, term>>

(* Seeded bug: the pidfile is written, but not in the runtime directory. *)
ScriptWritesPidElsewhere(n) ==
    /\ script[n] = "pid" /\ ~term[n]
    /\ pid' = n
    /\ Goes(n, "wait")
    /\ OnlyNas /\ UNCHANGED <<stage, dir, term, lftp>>

(* echo "$p" > "$d/pid", which fails when the directory has gone *)
ScriptWritesPid(n) ==
    /\ script[n] = "pid" /\ ~term[n]
    /\ pid' = IF dir = "none" THEN pid ELSE n
    /\ Goes(n, "wait")
    /\ OnlyNas /\ UNCHANGED <<stage, dir, term, lftp>>

(* wait "$p" *)
ScriptWaits(n) ==
    /\ script[n] = "wait" /\ ~term[n] /\ lftp[n] = "gone"
    /\ Goes(n, "exit")
    /\ OnlyNas /\ UNCHANGED <<disk, term, lftp>>

(* exit: the EXIT trap removes both directories. *)
ScriptExits(n) ==
    /\ script[n] = "exit" /\ ~term[n]
    /\ Removed
    /\ Goes(n, "gone")
    /\ OnlyNas /\ UNCHANGED <<term, lftp>>

(* The TERM trap removes both directories; a wait it interrupts is over. *)
ScriptTraps(n) ==
    /\ term[n]
    /\ Removed
    /\ term' = [term EXCEPT ![n] = FALSE]
    /\ Goes(n, IF script[n] = "wait" THEN "exit" ELSE script[n])
    /\ OnlyNas /\ UNCHANGED lftp

(* SIGKILL outruns the trap. *)
ScriptKilled(n) ==
    /\ script[n] \notin Idle
    /\ Fault
    /\ Goes(n, "gone")
    /\ term' = [term EXCEPT ![n] = FALSE]
    /\ excused' = TRUE
    /\ UNCHANGED <<relay, inside, sweep, disk, lftp>>

(* lftp ends, by itself or because it was told to. *)
LftpEnds(n) ==
    /\ lftp[n] \in {"running", "told"}
    /\ lftp' = [lftp EXCEPT ![n] = "gone"]
    /\ OnlyNas /\ UNCHANGED <<disk, script, term>>

Nas(n) ==
    \/ ScriptMakesDir(n) \/ ScriptCopies(n) \/ ScriptStartsLftp(n) \/ ScriptWritesPid(n)
    \/ ScriptWaits(n) \/ ScriptExits(n) \/ ScriptTraps(n) \/ ScriptKilled(n) \/ LftpEnds(n)

Next ==
    \/ Boot \/ Stop \/ Exit \/ Crash \/ Sweep \/ SweepFails
    \/ StartRun \/ UploadBegins \/ UploadEnds \/ TransferFails \/ ScriptStarts
    \/ StreamEnds \/ StreamBreaks \/ StreamAborts \/ Cleanup \/ CleanupFails
    \/ CancelMarks \/ CancelKills \/ CancelKillFails \/ CancelFires
    \/ \E n \in Runs : Nas(n)

Spec == Init /\ [][Next]_vars

-----------------------------------------------------------------------------
(* Properties. *)

(* The variables have the types the declarations above give them, and the      *)
(* pidfile goes when its directory goes.                                       *)
TypeOK ==
    /\ relay \in {"down", "up", "stopping"}
    /\ job \in {"runnable", "running", "over"}
    /\ run \in 0..MaxRuns
    /\ work \in {"idle", "write", "upload", "connect", "stream", "cleanup"}
    /\ handler \in {"idle", "kill", "fire"}
    /\ cancelled \in BOOLEAN /\ ctx \in BOOLEAN /\ sweep \in BOOLEAN
    /\ aimed \in BOOLEAN /\ excused \in BOOLEAN
    /\ stage \in {"none", "part", "full"}
    /\ dir \in {"none", "made", "full"}
    /\ pid \in Runs \cup {NoPid}
    /\ dir = "none" => pid = NoPid
    /\ script \in [Runs -> {"none", "mkdir", "copy", "lftp", "pid", "wait", "exit", "gone"}]
    /\ term \in [Runs -> BOOLEAN]
    /\ lftp \in [Runs -> {"none", "running", "told", "gone"}]
    /\ downs \in 0..MaxDowns /\ faults \in 0..MaxFaults

(* Credentials do not stay on the NAS: when neither a worker nor a script is   *)
(* left, both directories are gone, unless the sweep is still to come, or      *)
(* there was nothing to clean up with: no script yet, one that was killed, or  *)
(* a sweep that failed.                                                        *)
NothingLeftBehind ==
    relay = "up" /\ work = "idle" /\ ~sweep /\ ~excused /\ (\A n \in Runs : script[n] \in Idle)
        => stage = "none" /\ dir = "none"

(* A cancel that finds lftp recorded in the pidfile ends the transfer, whatever *)
(* the SSH server does with a signal (manager.go:376-377, lftp.go:441-442),     *)
(* unless the relay is being stopped at the same time.                          *)
CancelEndsLftp ==
    aimed /\ relay = "up" /\ handler = "idle" => lftp[run] # "running"

(* What the two properties above rest on, in five parts. *)

(* A directory on the NAS has someone to remove it, or an excuse. *)
Leftovers ==
    /\ relay = "up" /\ ~sweep /\ ~excused /\ (\A n \in Runs : script[n] \in Idle)
         => dir = "none" /\ (work \notin {"upload", "connect"} => stage = "none")
    /\ work = "connect" => stage # "part"

(* The worker belongs to a run, and dies with the relay. *)
WorkerPlace ==
    /\ work # "idle" \/ job = "running" => run \in Runs
    /\ relay = "down" => work = "idle" /\ handler = "idle" /\ ~ctx /\ ~aimed

(* Before a run has its script there is nothing of it on the NAS. *)
Unstarted(n) == n > run \/ (n = run /\ work \in {"write", "upload", "connect"})

(* A script starts after its run, is sent a TERM when its worker gives up, and  *)
(* is in the pidfile only after it started lftp and while it waits or leaves.   *)
ScriptPlace ==
    \A n \in Runs :
        /\ Unstarted(n) => script[n] = "none" /\ lftp[n] = "none" /\ ~term[n] /\ pid # n
        /\ n = run /\ job = "running" => ~term[n]
        /\ term[n] => script[n] \notin Idle
        /\ pid = n => script[n] \in {"wait", "exit", "gone"}
        /\ pid = n /\ script[n] = "exit" => lftp[n] # "running"

(* No context is done while a cancel request is on its way to lftp. *)
CancelPlace ==
    /\ handler # "idle" => cancelled
    /\ relay = "up" /\ ctx => cancelled /\ handler = "idle"

(* An aimed cancel keeps its target until it has told lftp. *)
Aim ==
    aimed /\ relay = "up" =>
        /\ run \in Runs /\ ~sweep
        /\ \A n \in Runs : n < run => script[n] \in Idle
        /\ script[run] \in {"wait", "exit", "gone"}
        /\ lftp[run] = "running" => handler = "kill" /\ pid = run /\ ~term[run]

(* The five parts together are kept by every step. *)
WorkspaceInv == Leftovers /\ WorkerPlace /\ ScriptPlace /\ CancelPlace /\ Aim

(* Sweep runs "at startup, when nothing of ours is legitimately running"        *)
(* (lftp.go:453-454): it takes no workspace from a transfer that is going on.   *)
(* Does not hold: it runs beside the scheduler and may come late.               *)
SweepSparesTransfers ==
    [][sweep /\ ~sweep' /\ dir' # dir => work # "stream"]_vars
=============================================================================
