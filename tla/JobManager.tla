----------------------------- MODULE JobManager -----------------------------
(***************************************************************************)
(* internal/jobs/manager.go over the jobs table of internal/db/repo.go:    *)
(* the scheduler goroutine, the worker goroutines it starts, the HTTP      *)
(* handlers that cancel, delete and retry jobs (internal/api/jobs.go), the *)
(* shutdown sequence of cmd/relay/main.go, crashes, and restart recovery.  *)
(*                                                                         *)
(* One action is one step between two points where another goroutine can   *)
(* run: a database statement, a section under Manager.mu, or the end of a  *)
(* remote call.  What lftp and the NAS do is the choice of how a transfer  *)
(* ends; events, logs and progress are left to other modules.              *)
(***************************************************************************)
EXTENDS JobStates, Integers, FiniteSets

CONSTANTS
    MaxJobs,     \* bound: rows ever created
    Workers,     \* identities for worker goroutines, reused once a worker returned
    Requests,    \* identities for in-flight HTTP handlers
    Ops,         \* what those handlers do: a subset of {"cancel", "delete", "retry"}
    Limits,      \* the values the "concurrency" setting takes
    MaxDowns,    \* bound: shutdowns and crashes
    MaxFaults,   \* bound: database statements that fail
    NoWorker     \* "nothing registered"

ASSUME MaxJobsAssumption   == MaxJobs \in Nat
ASSUME WorkersAssumption   == IsFiniteSet(Workers) /\ NoWorker \notin Workers
ASSUME OpsAssumption       == Ops \subseteq {"cancel", "delete", "retry"}
ASSUME LimitsAssumption    == Limits \subseteq Nat
ASSUME BoundsAssumption    == MaxDowns \in Nat /\ MaxFaults \in Nat

Jobs  == 1..MaxJobs
NoJob == 0

VARIABLES
    status,      \* [Jobs -> AllStatuses \cup {NoRow}]: jobs.status, NoRow when there is no row
    nextId,      \* the id AUTOINCREMENT gives to the next row
    limit,       \* settings.concurrency
    proc,        \* "down", "up", "stopping" (Stop waits for the loop), "draining" (wg.Wait)
    signalled,   \* the context main got from signal.NotifyContext is done
    sched,       \* the scheduler goroutine: its place in schedule and its locals
    running,     \* Manager.running: [Jobs -> Workers \cup {NoWorker}]
    wrk,         \* the worker goroutines
    toCancel,    \* the cancel functions Stop took a copy of
    req,         \* the HTTP handlers
    downs, faults

vars == <<status, nextId, limit, proc, signalled, sched, running, wrk, toCancel, req, downs, faults>>

IdleSched  == [pc |-> "idle", conc |-> 0, free |-> 0, waiting |-> {}, cur |-> NoJob]
IdleWorker == [pc |-> "idle", job |-> NoJob, ctx |-> FALSE, st |-> "none"]
IdleReq    == [pc |-> "idle", op |-> "none", job |-> NoJob, fn |-> NoWorker]

Rows       == {j \in Jobs : status[j] # NoRow}
Registered == {j \in Jobs : running[j] # NoWorker}
Live       == {w \in Workers : wrk[w].pc # "idle"}
Stopping   == proc \in {"stopping", "draining"}

(* A database statement fails; MaxFaults bounds how often. *)
Fault == faults < MaxFaults /\ faults' = faults + 1

-----------------------------------------------------------------------------
Init ==
    /\ status = [j \in Jobs |-> NoRow]
    /\ nextId = 1
    /\ limit \in Limits
    /\ proc = "down"
    /\ signalled = FALSE
    /\ sched = IdleSched
    /\ running = [j \in Jobs |-> NoWorker]
    /\ wrk = [w \in Workers |-> IdleWorker]
    /\ toCancel = {}
    /\ req = [r \in Requests |-> IdleReq]
    /\ downs = 0
    /\ faults = 0

-----------------------------------------------------------------------------
(* The process: Start, SIGTERM, Stop, a crash. *)

(* Seeded bug: nothing is recovered at startup. *)
RecoverNothing == status

(* Seeded bug: recovery puts the jobs back into queued. *)
RecoverAsQueued == [j \in Jobs |-> IF status[j] = "running" THEN "queued" ELSE status[j]]

(* InterruptRunningJobs. *)
Recovered == [j \in Jobs |-> IF status[j] = "running" THEN "interrupted" ELSE status[j]]

Start ==
    /\ proc = "down"
    /\ status' = Recovered
    /\ proc' = "up"
    /\ UNCHANGED <<nextId, limit, signalled, sched, running, wrk, toCancel, req, downs, faults>>

(* SIGTERM or SIGINT: the context passed to Start, and so to the loop, is done. *)
Signal ==
    /\ proc = "up"
    /\ ~signalled
    /\ downs < MaxDowns
    /\ downs' = downs + 1
    /\ signalled' = TRUE
    /\ UNCHANGED <<status, nextId, limit, proc, sched, running, wrk, toCancel, req, faults>>

(* Seeded bug: Stop copies no cancel function. *)
StopBeginForgets ==
    /\ proc = "up"
    /\ IF signalled THEN UNCHANGED downs ELSE downs < MaxDowns /\ downs' = downs + 1
    /\ proc' = "stopping"
    /\ toCancel' = {}
    /\ UNCHANGED <<status, nextId, limit, signalled, sched, running, wrk, req, faults>>

(* Stop up to close(m.stop).  It follows a signal, or the listener's failure. *)
StopBegin ==
    /\ proc = "up"
    /\ IF signalled THEN UNCHANGED downs ELSE downs < MaxDowns /\ downs' = downs + 1
    /\ proc' = "stopping"
    /\ toCancel' = {running[j] : j \in Registered}
    /\ UNCHANGED <<status, nextId, limit, signalled, sched, running, wrk, req, faults>>

(* Stop after <-m.done: the cancel functions it copied are called. *)
StopCancel ==
    /\ proc = "stopping"
    /\ sched.pc = "exited"
    /\ proc' = "draining"
    /\ wrk' = [w \in Workers |-> IF w \in toCancel THEN [wrk[w] EXCEPT !.ctx = TRUE] ELSE wrk[w]]
    /\ toCancel' = {}
    /\ UNCHANGED <<status, nextId, limit, signalled, sched, running, req, downs, faults>>

(* Everything in memory is gone; the database stays. *)
LoseMemory ==
    /\ proc' = "down"
    /\ signalled' = FALSE
    /\ sched' = IdleSched
    /\ running' = [j \in Jobs |-> NoWorker]
    /\ wrk' = [w \in Workers |-> IdleWorker]
    /\ toCancel' = {}
    /\ req' = [r \in Requests |-> IdleReq]
    /\ UNCHANGED <<status, nextId, limit, faults>>

(* wg.Wait returned, so Stop returns and main exits. *)
Exit == proc = "draining" /\ Live = {} /\ LoseMemory /\ UNCHANGED downs

Crash == proc # "down" /\ downs < MaxDowns /\ downs' = downs + 1 /\ LoseMemory

-----------------------------------------------------------------------------
(* The scheduler goroutine: loop, schedule, purge. *)

(* Seeded bug: one job too many. *)
OldestOneMore(S, n) == {j \in S : Cardinality({i \in S : i < j}) <= n}

(* The oldest n of the jobs in S: ORDER BY id LIMIT n. *)
Oldest(S, n) == {j \in S : Cardinality({i \in S : i < j}) < n}

(* Where schedule's for loop goes on with the jobs W still to be started. *)
Resume(W) == [sched EXCEPT !.pc = IF W = {} THEN "idle" ELSE "mark", !.waiting = W,
                              !.free = 0, !.cur = NoJob]

SchedTick ==
    /\ proc # "down"
    /\ sched.pc = "idle"
    /\ ~signalled                   \* else reading the settings fails
    /\ sched' = [IdleSched EXCEPT !.pc = "count", !.conc = limit]
    /\ UNCHANGED <<status, nextId, limit, proc, signalled, running, wrk, toCancel, req, downs, faults>>

(* Seeded bug: the running jobs are not counted. *)
SchedCountAll ==
    /\ sched.pc = "count"
    /\ sched' = IF sched.conc <= 0 \/ Stopping THEN IdleSched
                ELSE [sched EXCEPT !.pc = "query", !.free = sched.conc]
    /\ UNCHANGED <<status, nextId, limit, proc, signalled, running, wrk, toCancel, req, downs, faults>>

(* The section under mu that counts the free slots. *)
SchedCount ==
    /\ sched.pc = "count"
    /\ LET free == sched.conc - Cardinality(Registered)
       IN  sched' = IF free <= 0 \/ Stopping THEN IdleSched
                    ELSE [sched EXCEPT !.pc = "query", !.free = free]
    /\ UNCHANGED <<status, nextId, limit, proc, signalled, running, wrk, toCancel, req, downs, faults>>

(* RunnableJobs: the snapshot the rest of the pass works from. *)
SchedQuery ==
    /\ sched.pc = "query"
    /\ sched' = IF signalled THEN IdleSched
                ELSE Resume(Oldest({j \in Jobs : Runnable(status[j])}, sched.free))
    /\ UNCHANGED <<status, nextId, limit, proc, signalled, running, wrk, toCancel, req, downs, faults>>

(* The settings or the queue cannot be read: this pass ends. *)
SchedReadFails ==
    /\ sched.pc \in {"count", "query"}
    /\ Fault
    /\ sched' = IdleSched
    /\ UNCHANGED <<status, nextId, limit, proc, signalled, running, wrk, toCancel, req, downs>>

(* The next job of the snapshot, in the order of the ids. *)
IsNext(j) == j \in sched.waiting /\ \A i \in sched.waiting : j <= i

(* SetJobStatus(running).  The status the snapshot holds is what Transition   *)
(* looks at, and every status RunnableJobs returns may move to running; the   *)
(* UPDATE names the row by its id alone.                                      *)
SchedMark ==
    /\ sched.pc = "mark"
    /\ ~signalled
    /\ \E j \in Jobs :
         /\ IsNext(j)
         /\ status[j] # NoRow
         /\ status' = [status EXCEPT ![j] = "running"]
         /\ sched' = [sched EXCEPT !.pc = "register", !.cur = j, !.waiting = @ \ {j}]
    /\ UNCHANGED <<nextId, limit, proc, signalled, running, wrk, toCancel, req, downs, faults>>

(* The UPDATE fails, or finds no row: continue with the next job. *)
SchedMarkFails ==
    /\ sched.pc = "mark"
    /\ \E j \in Jobs :
         /\ IsNext(j)
         /\ IF signalled \/ status[j] = NoRow THEN UNCHANGED faults ELSE Fault
         /\ sched' = Resume(sched.waiting \ {j})
    /\ UNCHANGED <<status, nextId, limit, proc, signalled, running, wrk, toCancel, req, downs>>

(* Seeded bug: Stop's flag is not looked at again before the worker starts. *)
SchedRegisterAnyway ==
    /\ sched.pc = "register"
    /\ \E w \in Workers \ Live :
         /\ running' = [running EXCEPT ![sched.cur] = w]
         /\ wrk' = [wrk EXCEPT ![w] = [IdleWorker EXCEPT !.pc = "setup", !.job = sched.cur]]
    /\ sched' = Resume(sched.waiting)
    /\ UNCHANGED <<status, nextId, limit, proc, signalled, toCancel, req, downs, faults>>

(* Under mu: unless Stop was called, register the cancel function and start   *)
(* the worker.                                                                *)
SchedRegister ==
    /\ sched.pc = "register"
    /\ ~Stopping
    /\ \E w \in Workers \ Live :
         /\ running' = [running EXCEPT ![sched.cur] = w]
         /\ wrk' = [wrk EXCEPT ![w] = [IdleWorker EXCEPT !.pc = "setup", !.job = sched.cur]]
    /\ sched' = Resume(sched.waiting)
    /\ UNCHANGED <<status, nextId, limit, proc, signalled, toCancel, req, downs, faults>>

(* Under mu: Stop was called, schedule returns and the row stays running. *)
SchedRefuse ==
    /\ sched.pc = "register"
    /\ Stopping
    /\ sched' = IdleSched
    /\ UNCHANGED <<status, nextId, limit, proc, signalled, running, wrk, toCancel, req, downs, faults>>

LoopExit ==
    /\ proc # "down"
    /\ sched.pc = "idle"
    /\ Stopping \/ signalled
    /\ sched' = [IdleSched EXCEPT !.pc = "exited"]
    /\ UNCHANGED <<status, nextId, limit, proc, signalled, running, wrk, toCancel, req, downs, faults>>

Without(S) == [j \in Jobs |-> IF j \in S THEN NoRow ELSE status[j]]

(* PurgeJobs.  Which finished rows are old enough is left open. *)
Purge ==
    /\ proc # "down"
    /\ sched.pc = "idle"
    /\ ~signalled
    /\ \E S \in SUBSET {j \in Jobs : Terminal(status[j])} : S # {} /\ status' = Without(S)
    /\ UNCHANGED <<nextId, limit, proc, signalled, sched, running, wrk, toCancel, req, downs, faults>>

-----------------------------------------------------------------------------
(* A worker goroutine: run, finish, cleanup. *)

(* Worker w goes to pc with st as the status it is going to record. *)
Goes(w, pc, st) == wrk' = [wrk EXCEPT ![w].pc = pc, ![w].st = st]

OnlyWorker == UNCHANGED <<nextId, limit, proc, signalled, sched, running, toCancel, req, downs>>

(* GetServer and remoteSize succeed; neither does once the context is done. *)
RunSetup(w) ==
    /\ wrk[w].pc = "setup"
    /\ ~wrk[w].ctx
    /\ Goes(w, "transfer", "none")
    /\ OnlyWorker /\ UNCHANGED <<status, faults>>

(* One of them fails: the server is gone or unreachable, or the context done. *)
RunSetupFails(w) ==
    /\ wrk[w].pc = "setup"
    /\ Goes(w, "finish", "failed")
    /\ OnlyWorker /\ UNCHANGED <<status, faults>>

(* lftp exits, with or without success. *)
TransferExits(w) ==
    /\ wrk[w].pc = "transfer"
    /\ \E st \in {"done", "failed"} : Goes(w, "finish", st)
    /\ OnlyWorker /\ UNCHANGED <<status, faults>>

(* transfer returns an error: the SSH connection is lost. *)
TransferFails(w) ==
    /\ wrk[w].pc = "transfer"
    /\ Goes(w, "reread", "none")
    /\ OnlyWorker /\ UNCHANGED <<status, faults>>

(* transfer returns an error because the context is done. *)
TransferAborts(w) == wrk[w].ctx /\ TransferFails(w)

(* The row is read again to find out who ended the transfer. *)
RunReread(w) ==
    /\ wrk[w].pc = "reread"
    /\ IF status[wrk[w].job] = "cancelled" THEN Goes(w, "cleanup", "none")
                                           ELSE Goes(w, "branch", "none")
    /\ OnlyWorker /\ UNCHANGED <<status, faults>>

RunRereadFails(w) ==
    /\ wrk[w].pc = "reread"
    /\ Fault
    /\ Goes(w, "branch", "none")
    /\ OnlyWorker /\ UNCHANGED status

(* Seeded bug: a done context is taken for a cancelled job. *)
RunBranchAsCancelled(w) ==
    /\ wrk[w].pc = "branch"
    /\ Goes(w, "finish", IF wrk[w].ctx THEN "cancelled" ELSE "failed")
    /\ OnlyWorker /\ UNCHANGED <<status, faults>>

(* ctx.Err() tells a shutdown from a failure. *)
RunBranch(w) ==
    /\ wrk[w].pc = "branch"
    /\ Goes(w, "finish", IF wrk[w].ctx THEN "interrupted" ELSE "failed")
    /\ OnlyWorker /\ UNCHANGED <<status, faults>>

(* Seeded bug: the map entry goes before the worker has cleaned up. *)
RunFinishDeregisters(w) ==
    /\ wrk[w].pc = "finish"
    /\ status' = IF wrk[w].job \in Rows THEN [status EXCEPT ![wrk[w].job] = wrk[w].st] ELSE status
    /\ Goes(w, "cleanup", "none")
    /\ running' = [running EXCEPT ![wrk[w].job] = NoWorker]
    /\ UNCHANGED <<nextId, limit, proc, signalled, sched, toCancel, req, downs, faults>>

(* finish.  Transition is asked about the worker's own copy of the job, whose *)
(* status is running and may move to each of the three; the UPDATE names the  *)
(* row by its id alone and finds none if the row was deleted.                 *)
RunFinish(w) ==
    /\ wrk[w].pc = "finish"
    /\ status' = IF wrk[w].job \in Rows THEN [status EXCEPT ![wrk[w].job] = wrk[w].st] ELSE status
    /\ Goes(w, "cleanup", "none")
    /\ OnlyWorker /\ UNCHANGED faults

RunFinishFails(w) ==
    /\ wrk[w].pc = "finish"
    /\ Fault
    /\ Goes(w, "cleanup", "none")
    /\ OnlyWorker /\ UNCHANGED status

(* Seeded bug: the map entry is never deleted. *)
RunReturnKeepsEntry(w) ==
    /\ wrk[w].pc = "cleanup"
    /\ wrk' = [wrk EXCEPT ![w] = IdleWorker]
    /\ toCancel' = toCancel \ {w}
    /\ req' = [r \in Requests |-> IF req[r].fn = w THEN [req[r] EXCEPT !.fn = NoWorker] ELSE req[r]]
    /\ UNCHANGED <<status, nextId, limit, proc, signalled, sched, running, downs, faults>>

(* After cleanup the deferred functions run: the map entry of the job goes,   *)
(* and to call the cancel function of this run from now on does nothing.      *)
RunReturn(w) ==
    /\ wrk[w].pc = "cleanup"
    /\ running' = [running EXCEPT ![wrk[w].job] = NoWorker]
    /\ wrk' = [wrk EXCEPT ![w] = IdleWorker]
    /\ toCancel' = toCancel \ {w}
    /\ req' = [r \in Requests |-> IF req[r].fn = w THEN [req[r] EXCEPT !.fn = NoWorker] ELSE req[r]]
    /\ UNCHANGED <<status, nextId, limit, proc, signalled, sched, downs, faults>>

RunStep(w) ==
    \/ RunSetup(w) \/ RunSetupFails(w)
    \/ TransferExits(w) \/ TransferFails(w) \/ TransferAborts(w)
    \/ RunReread(w) \/ RunRereadFails(w) \/ RunBranch(w)
    \/ RunFinish(w) \/ RunFinishFails(w) \/ RunReturn(w)

-----------------------------------------------------------------------------
(* HTTP handlers.  New requests are served until the listener closes; a       *)
(* handler in flight goes on until the process ends.                          *)

Accepting == proc = "up" /\ ~signalled

OnlyRequests == UNCHANGED <<limit, proc, signalled, sched, running, toCancel, downs>>

(* createJobs, one item of the batch. *)
CreateJob ==
    /\ Accepting
    /\ nextId \in Jobs
    /\ status' = [status EXCEPT ![nextId] = "queued"]
    /\ nextId' = nextId + 1
    /\ OnlyRequests /\ UNCHANGED <<wrk, req, faults>>

(* DeleteServer: the rows of its jobs go with it, whatever their status.  A   *)
(* job's server is not kept, so any rows may be the ones.                     *)
DeleteServer ==
    /\ Accepting
    /\ \E S \in SUBSET Rows : S # {} /\ status' = Without(S)
    /\ OnlyRequests /\ UNCHANGED <<nextId, wrk, req, faults>>

PutSettings ==
    /\ Accepting
    /\ \E c \in Limits : limit' = c
    /\ UNCHANGED <<status, nextId, proc, signalled, sched, running, wrk, toCancel, req, downs, faults>>

(* What GetJob must have shown for the handler to go on. *)
Admissible(op, s) == IF op = "cancel" THEN CanTransition(s, "cancelled") ELSE Terminal(s)

(* The first statement of Cancel, deleteJob and Retry: GetJob and its check. *)
ReqCheck(r) ==
    /\ Accepting
    /\ req[r].pc = "idle"
    /\ \E op \in Ops, j \in Rows :
         /\ Admissible(op, status[j])
         /\ req' = [req EXCEPT ![r] = [IdleReq EXCEPT !.pc = "checked", !.op = op, !.job = j]]
    /\ OnlyRequests /\ UNCHANGED <<status, nextId, wrk, faults>>

Returns(r) == req' = [req EXCEPT ![r] = IdleReq]

(* Cancel's SetJobStatus, which names the row by its id alone. *)
CancelWrite(r) ==
    /\ req[r].pc = "checked"
    /\ req[r].op = "cancel"
    /\ IF req[r].job \in Rows
       THEN /\ status' = [status EXCEPT ![req[r].job] = "cancelled"]
            /\ req' = [req EXCEPT ![r].pc = "lookup"]
       ELSE Returns(r) /\ UNCHANGED status
    /\ OnlyRequests /\ UNCHANGED <<nextId, wrk, faults>>

(* Cancel's look into the map of running jobs, under mu. *)
CancelLookup(r) ==
    /\ req[r].pc = "lookup"
    /\ LET w == running[req[r].job]
       IN  IF w = NoWorker THEN Returns(r)
           ELSE req' = [req EXCEPT ![r].pc = "fire", ![r].fn = w]
    /\ OnlyRequests /\ UNCHANGED <<status, nextId, wrk, faults>>

(* killRemote came back, with lftp signalled or not; now cancel(). *)
CancelFire(r) ==
    /\ req[r].pc = "fire"
    /\ wrk' = [w \in Workers |-> IF w = req[r].fn THEN [wrk[w] EXCEPT !.ctx = TRUE] ELSE wrk[w]]
    /\ Returns(r)
    /\ OnlyRequests /\ UNCHANGED <<status, nextId, faults>>

DeleteRow(r) ==
    /\ req[r].pc = "checked"
    /\ req[r].op = "delete"
    /\ status' = Without({req[r].job})
    /\ Returns(r)
    /\ OnlyRequests /\ UNCHANGED <<nextId, wrk, faults>>

(* Seeded bug: Retry queues the finished row again instead of a copy of it. *)
RetryRevives(r) ==
    /\ req[r].pc = "checked"
    /\ req[r].op = "retry"
    /\ status' = IF req[r].job \in Rows THEN [status EXCEPT ![req[r].job] = "queued"] ELSE status
    /\ Returns(r)
    /\ OnlyRequests /\ UNCHANGED <<nextId, wrk, faults>>

(* Retry's CreateJob.  Beyond the bound on rows it is left out. *)
RetryInsert(r) ==
    /\ req[r].pc = "checked"
    /\ req[r].op = "retry"
    /\ IF nextId \in Jobs
       THEN status' = [status EXCEPT ![nextId] = "queued"] /\ nextId' = nextId + 1
       ELSE UNCHANGED <<status, nextId>>
    /\ Returns(r)
    /\ OnlyRequests /\ UNCHANGED <<wrk, faults>>

(* The write fails and the handler returns the error. *)
ReqFails(r) ==
    /\ req[r].pc = "checked"
    /\ Fault
    /\ Returns(r)
    /\ OnlyRequests /\ UNCHANGED <<status, nextId, wrk>>

ReqStep(r) ==
    \/ CancelWrite(r) \/ CancelLookup(r) \/ CancelFire(r)
    \/ DeleteRow(r) \/ RetryInsert(r)

-----------------------------------------------------------------------------
SchedStep ==
    \/ SchedTick \/ SchedCount \/ SchedQuery \/ SchedMark \/ SchedMarkFails
    \/ SchedRegister \/ SchedRefuse \/ LoopExit

Process == Start \/ Signal \/ StopBegin \/ StopCancel \/ Exit \/ Crash

Client == CreateJob \/ DeleteServer \/ PutSettings

Next ==
    \/ Process
    \/ SchedStep \/ SchedReadFails \/ Purge
    \/ \E w \in Workers : RunStep(w)
    \/ Client
    \/ \E r \in Requests : ReqCheck(r) \/ ReqStep(r) \/ ReqFails(r)

Spec == Init /\ [][Next]_vars

(***************************************************************************)
(* Fairness.  The relay is restarted when it ends (restart: unless-stopped *)
(* in deploy/docker-compose.yml) and every goroutine that can run does.    *)
(* The loop's select takes a ready case at random, so it does not pass     *)
(* over a closed m.stop for ever: LoopExit is strongly fair.  How a        *)
(* transfer goes on is up to lftp: only one whose context is done has to   *)
(* end.                                                                    *)
(***************************************************************************)
RunOn(w) ==
    RunSetup(w) \/ RunSetupFails(w) \/ TransferAborts(w) \/ RunReread(w)
      \/ RunBranch(w) \/ RunFinish(w) \/ RunReturn(w)

Fairness ==
    /\ WF_vars(Start) /\ WF_vars(StopCancel) /\ WF_vars(Exit)
    /\ WF_vars(signalled /\ StopBegin)
    /\ WF_vars(SchedStep) /\ SF_vars(LoopExit)
    /\ \A w \in Workers : WF_vars(RunOn(w))
    /\ \A r \in Requests : WF_vars(ReqStep(r))

FairSpec == Spec /\ Fairness

-----------------------------------------------------------------------------
(* Properties. *)

SchedType ==
    [pc : {"idle", "count", "query", "mark", "register", "exited"},
     conc : Nat, free : Nat, waiting : SUBSET Jobs, cur : Jobs \cup {NoJob}]

WorkerType ==
    [pc : {"idle", "setup", "transfer", "reread", "branch", "finish", "cleanup"},
     job : Jobs \cup {NoJob}, ctx : BOOLEAN, st : {"none", "done", "failed", "interrupted"}]

RequestType ==
    [pc : {"idle", "checked", "lookup", "fire"}, op : {"none", "cancel", "delete", "retry"},
     job : Jobs \cup {NoJob}, fn : Workers \cup {NoWorker}]

(* A worker that is about to record a status has one to record. *)
WorkersOK ==
    /\ wrk \in [Workers -> WorkerType]
    /\ \A w \in Workers : wrk[w].pc = "finish" => wrk[w].st # "none"

(* A handler that goes on has a job. *)
RequestsOK ==
    /\ req \in [Requests -> RequestType]
    /\ \A r \in Requests : req[r].pc # "idle" => req[r].job \in Jobs

(* The variables have the types the declarations above give them. *)
TypeOK ==
    /\ status \in [Jobs -> AllStatuses \cup {NoRow}]
    /\ nextId \in 1..MaxJobs + 1
    /\ limit \in Limits
    /\ proc \in {"down", "up", "stopping", "draining"}
    /\ signalled \in BOOLEAN
    /\ sched \in SchedType
    /\ running \in [Jobs -> Workers \cup {NoWorker}]
    /\ WorkersOK
    /\ toCancel \subseteq Workers
    /\ RequestsOK
    /\ downs \in 0..MaxDowns
    /\ faults \in 0..MaxFaults

(* Every entry of the map of running jobs is the cancel function of a worker   *)
(* that has not returned and that works on that very job: no entry outlives    *)
(* its run (it would hold a slot for ever) and Cancel never ends another job.  *)
RegisteredAreLive ==
    \A j \in Jobs : running[j] # NoWorker => wrk[running[j]].pc # "idle" /\ wrk[running[j]].job = j

(* While a pass of schedule is starting jobs, the jobs registered and the jobs *)
(* it still has to start together stay within the concurrency it read.         *)
WithinLimit ==
    sched.pc \in {"mark", "register"} =>
        Cardinality(Registered) + Cardinality(sched.waiting \cup ({sched.cur} \ {NoJob})) <= sched.conc

(* A worker is only started into a free slot of the limit read in this pass,   *)
(* also when the limit was lowered while more jobs than that were running.     *)
StartsWithinLimit ==
    [][\A j \in Jobs : running[j] = NoWorker /\ running'[j] # NoWorker
                         => Cardinality(Registered)' <= sched.conc]_vars

(* The strengthening of the two properties above that every step preserves:    *)
(* the locals of schedule belong to its place in the code, and free slots were *)
(* counted before they are filled.                                             *)
SlotInv ==
    /\ RegisteredAreLive
    /\ WithinLimit
    /\ \A w \in Live : wrk[w].job \in Jobs
    /\ sched.pc = "query" => Cardinality(Registered) + sched.free <= sched.conc
    /\ sched.pc \notin {"mark", "register"} => sched.waiting = {}
    /\ IF sched.pc = "register" THEN sched.cur \in Jobs \ sched.waiting ELSE sched.cur = NoJob

(* While the relay is up, a row in running is being worked on: a worker will   *)
(* still record its end, or the scheduler is about to start one. No step of    *)
(* start, stop, cancel or delete strands a row (a failed statement can).       *)
RunningRowOwned ==
    proc = "up" /\ faults = 0 =>
        \A j \in Jobs : status[j] = "running" =>
            \/ \E w \in Workers : wrk[w].job = j /\ wrk[w].pc \notin {"idle", "cleanup"}
            \/ sched.pc = "register" /\ sched.cur = j

(* Once Stop has taken its copy of the cancel functions no worker is started,  *)
(* so the copy is complete.                                                    *)
NoStartAfterStop ==
    [][Stopping => \A w \in Workers : wrk[w].pc = "idle" => wrk'[w].pc = "idle"]_vars

(* A job has at most one worker. *)
OneWorkerPerJob ==
    \A v, w \in Live : wrk[v].job = wrk[w].job => v = w

(* Every worker that runs is in the map, so that Cancel and Stop can reach it. *)
LiveAreRegistered == \A w \in Live : wrk[w].job \in Jobs /\ running[wrk[w].job] = w

(* When Stop waits for the workers, each of them has been told to end. *)
StopReachesAll == proc = "draining" => \A w \in Live : wrk[w].ctx

(* What the properties of the run without cancel requests rest on. Shutdown    *)
(* goes in order, and no context is done before Stop says so;                  *)
ShutdownInOrder ==
    /\ proc = "down" => Live = {} /\ sched.pc = "idle"
    /\ proc = "stopping" => Live \subseteq toCancel
    /\ proc = "draining" => sched.pc = "exited"
    /\ \A w \in Workers :
         /\ wrk[w].ctx => proc = "draining"
         /\ wrk[w].pc = "finish" /\ wrk[w].st = "interrupted" => wrk[w].ctx

(* where a worker is tells what its row can say;                               *)
RowFits(w) ==
    status[wrk[w].job] \in
        IF wrk[w].pc # "cleanup" THEN {"running", NoRow}
        ELSE {"running", "done", "failed", NoRow} \cup IF wrk[w].ctx THEN {"interrupted"} ELSE {}

RowsFitWorkers == \A w \in Live : RowFits(w)

(* the scheduler's snapshot is still true when it is used;                     *)
SnapshotIsTrue ==
    /\ \A j \in sched.waiting : running[j] = NoWorker /\ status[j] \in {"queued", "interrupted", NoRow}
    /\ sched.pc = "register" => running[sched.cur] = NoWorker /\ status[sched.cur] \in {"running", NoRow}

(* and ids that were not given yet mean nothing to anybody.                    *)
IdsAreFresh ==
    \A j \in Jobs : j >= nextId =>
        status[j] = NoRow /\ running[j] = NoWorker /\ j \notin sched.waiting /\ j # sched.cur

NoCancelPending == \A r \in Requests : req[r].pc = "idle" \/ (req[r].pc = "checked" /\ req[r].op \in Ops)

QuietInv ==
    LiveAreRegistered /\ StopReachesAll /\ ShutdownInOrder /\ RowsFitWorkers
      /\ SnapshotIsTrue /\ IdsAreFresh /\ NoCancelPending

(* done, failed and cancelled are final (state.go:32-34): a row in one of them *)
(* is only ever deleted.                                                       *)
TerminalIsFinal ==
    [][\A j \in Jobs : Terminal(status[j]) => status'[j] \in {status[j], NoRow}]_vars

(* "done, failed and cancelled are terminal" (state.go:32-33), and a cancelled   *)
(* row is marked first "so the worker cannot overwrite it"                       *)
(* (plan_to_implement.md:230-231).  Does not hold: the scheduler sets a row that *)
(* was cancelled after its snapshot to running, and a worker that did not see    *)
(* the cancel writes done or failed over it.                                     *)
CancelIsFinal ==
    [][\A j \in Jobs : status[j] = "cancelled" => status'[j] \in {"cancelled", NoRow}]_vars

(* The jobs table, seen on its own, is the one JobLifecycle describes. *)
Lifecycle == INSTANCE JobLifecycle WITH table <- status, next <- nextId
LifecycleSpec == Lifecycle!Spec

(* If transfers end, some job may run and no statement fails (a run whose end  *)
(* cannot be recorded strands its row), every queued job is settled: it ends   *)
(* in a terminal status or its row is deleted.                                 *)
TransfersEnd == \A w \in Workers : []<>(wrk[w].pc # "transfer")
Settled(j) == Terminal(status[j]) \/ status[j] = NoRow
JobsSettle ==
    TransfersEnd /\ <>[](limit > 0) /\ [](faults = 0) => \A j \in Jobs : status[j] = "queued" ~> Settled(j)

(* A shutdown comes to its end, even if no transfer ever ends by itself. *)
StopCompletes == signalled ~> proc = "down"
=============================================================================
