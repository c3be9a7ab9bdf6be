# Verification of sftp-relay

sftp-relay queues transfers from remote SFTP servers to a NAS. A Go process keeps the
queue in SQLite, starts `lftp` on the NAS over SSH for each job, and shows progress in
the browser through one server-sent event stream. This directory holds TLA+
models of that process, TLC configurations that check them on small instances, and
TLAPS proofs for instances of any size. Paths below are relative to the repository.

## The system

| Component | State | Operations | Talks to |
| --- | --- | --- | --- |
| Job manager (`internal/jobs/manager.go`) | map of running jobs, `stopping`, one scheduler goroutine, one worker goroutine per running job | Start, Stop, loop (schedule every second, purge every hour), run, finish, cleanup, Cancel, Retry, Announce | database, NAS client, SFTP pool, event hub |
| State machine (`internal/jobs/state.go`) | none (a table) | Transition, Terminal | called by manager and handlers |
| Tracker (`internal/jobs/tracker.go`) | bytes, total, dirty flag, two clocks, per run | observe, observeSize, complete, maybeFlush | fed by lftp's output and `pollDest`, flushes to database and hub |
| Event hub (`internal/events/events.go`) | subscribers with bounded channels, a clock per job | Subscribe, Unsubscribe, Publish | SSE handler, every goroutine that publishes |
| HTTP handlers (`internal/api`) | none | create, cancel, retry, delete jobs; servers; settings; browse; SSE | all of the others |
| Browser (`web/src/useEvents.ts`, `JobCard.tsx`, `main.tsx`, `pages/Settings.tsx`) | the query cache with one list of jobs; the settings form | snapshot, fold one event, fetch the list; load, save, clear the pinned key | SSE stream, handlers |
| Database (`internal/db`) | tables servers, jobs, job_log, settings; one connection | one statement per method (two for a log line); foreign keys cascade | everything |
| NAS client (`internal/nas/nas.go`) | one shared SSH/SFTP connection, keepalive | connect, disconnect, do, Run, stream, keepalive, Close, Browse, Validate, Mkdir | NAS, settings |
| Transfers (`internal/nas/lftp.go`) | workspace directories, pidfile and lftp process on the NAS | Transfer, Cancel, Sweep, Size | NAS client |
| Destination check (`internal/nas/path.go`) | none | CheckPath | NAS client |
| SFTP pool (`internal/sftpclient`) | one connection per server, pinned host keys | List, Size, Test, eviction | remote servers, database |
| Process (`cmd/relay/main.go`) | the signal context | start in order, serve, shut down | all of the others |

### What is hard here

* The scheduler, each worker and each HTTP handler read a row, decide, and update it
  *by its id alone* in a later statement. Nothing but `Manager.mu`, which guards the map
  of running jobs and `stopping` and not the rows, orders them.
* Shutdown is a protocol: a signal ends the loop's context and the listener, Stop sets a
  flag, copies the cancel functions, waits for the loop, calls the functions and waits for
  the workers, while cancel requests in flight go on.
* A crash may come between any two steps. The rows stay, and lftp may live on.
* Publishing is a read of the row, which may fail, and a send to the hub, by goroutines nobody orders.
* The browser's list of jobs is written by the stream and by fetches, whose replies may be older than
  what the stream has brought meanwhile.
* The tracker is fed by three goroutines, and flushes outside its mutex; a flush may fail.
* The NAS connection is shared by transfers, handlers and the keepalive, and is used outside
  its mutex: any of them may drop it while the others are using it.
* A destination is checked with several calls to the NAS, and used later, while others make
  and remove directories and links there.
* The SFTP pool dials and talks to the server under one mutex, with a copy of a row that is
  edited meanwhile, and records the host key in a statement of its own.

`PROJECT.json` lists each hazard at its line with the properties that cover it.

## Modules

| Module | What it is |
| --- | --- |
| `JobStates` | the statuses, transitions, terminal and runnable statuses |
| `JobLifecycle` | abstract specification of the jobs table: what its readers may rely on |
| `JobManager` | scheduler, workers, handlers, shutdown, crash, restart |
| `MC_JobManager` | symmetry for TLC |
| `JobManager_proofs` | theorems about `JobManager`: those that hold with cancel requests, then those that hold without, the refinement of `JobLifecycle` among them |
| `JobStream` | publishers, hub, SSE handler, browser cache |
| `Tracker`, `MC_Tracker` | one run's progress, from a line of output to the row |
| `NasWorkspace`, `MC_NasWorkspace` | one job's runs on the NAS: workspace, `run.sh`, lftp, pidfile, cancel, sweep |
| `PinnedLine` | abstract specification of an SSH connection that is opened when needed: what those who use it may rely on |
| `SftpPool` | one server's pooled connection, its mutex, host-key pinning, edits of the row |
| `NasClient`, `MC_NasClient` | the one connection to the NAS, the calls that share it, keepalive, Close, pinning, the settings page |
| `Destination` | `CheckPath` as `Validate` runs it, on a NAS that others change |
| `JobApi`, `MC_JobApi` | requests of several steps on top of `Destination`: a batch of jobs, mkdir, paging, the log ring |
| `JobStream_proofs`, `Tracker_proofs`, `NasWorkspace_proofs`, `SftpPool_proofs`, `NasClient_proofs`, `Destination_proofs`, `JobApi_proofs` | theorems about these |

### JobManager

One action is one step between two points where another goroutine can run: a database
statement (SQLite is opened with one connection, `db.go:31-32`, so statements are
atomic), a section under `Manager.mu`, or the end of a remote call.

| Code | Model |
| --- | --- |
| `jobs.status`, AUTOINCREMENT, `settings.concurrency` | `status`, `nextId`, `limit` |
| `Manager.running`, `stopping`, `started` | `running`, `proc` |
| `signal.NotifyContext` | `signalled` |
| `cancels` in Stop | `toCancel` |
| `schedule`: settings, count, query, mark, register | `SchedTick`, `SchedCount`, `SchedQuery`, `SchedMark`/`SchedMarkFails`, `SchedRegister`/`SchedRefuse`; its locals are `sched` |
| `loop`'s select on stop or the context | `LoopExit`; the ticker is a `SchedTick` at any time |
| `purge` | `Purge`; which finished rows are old enough is a choice |
| `run`: GetServer and remoteSize; transfer; re-read; ctx.Err | `RunSetup`(`Fails`); `TransferExits`, `TransferFails`, `TransferAborts`; `RunReread`(`Fails`); `RunBranch` |
| `finish`, `cleanup` and the deferred delete | `RunFinish`(`Fails`), `RunReturn` |
| `Cancel`: check, write, look up, kill and cancel() | `ReqCheck`, `CancelWrite`, `CancelLookup`, `CancelFire` |
| `deleteJob`, `Retry`, `createJobs`, `deleteServer`, `putSettings` | `DeleteRow`, `RetryInsert`, `CreateJob`, `DeleteServer`, `PutSettings` |
| Start, SIGTERM, Stop, exit, crash | `Start`, `Signal`, `StopBegin`, `StopCancel`, `Exit`, `Crash` |

A worker's cancel function is identified with the worker. Once its worker has returned,
calling it does nothing, so `RunReturn` drops it from `toCancel` and from the
handlers, and the identity can be used again. `createJobs` inserts a batch one row at a
time, so a batch that fails half-way is a prefix of creations (`JobApi` has the batch itself). The model leaves out which
server a job belongs to: `DeleteServer` removes any rows.

### JobStream

`pub[j][r]` is where the goroutine in role `r` stands in publishing about job `j`: it has
written and is about to read the row (`read`), or holds a copy (`send`). The read may find no row
(`PubRead`) or fail (`PubFails`); either way there is no event. `Publish` is the
hub's critical section: coalescing by `lastSent`, delivery, and the drop of a subscriber
whose channel is full. A subscriber that was dropped still reads what its channel holds
before its handler ends (`Deliver`, `HandlerEnds`); a new stream subscribes (`Open`) before
it takes its snapshot. A frame counts as arrived when the handler takes it from the channel.

`Jobs` are followed through their lives; `Others` are rows that come and go (`OtherJob`) and take up room
in a list. Ids are given in order, and `Listed` is what `ListJobs` returns: the newest
`snapshotLimit` rows. `view` is the list of jobs in the browser's query cache. It has four writers: the snapshot, which
replaces it; a frame, which replaces one job; a list that a page fetches (`Fetch`, when the handler reads
the table, `Fetched`, when the reply arrives and replaces the cache, `FetchFails`); and TanStack Query, which
drops a list that no page has shown for five minutes (`CacheDropped`), after which frames fill an empty one.
Why a page fetches is left open: on mounting, on focus, or because `invalidateQueries` follows a request. `Watchers`
says which browsers have such a page, and `reply` is what the fetch has read.

`misled` is history, per browser and job. It marks four cases in which the cache may be wrong although the
browser has read all it was sent: the copy was out of date when it was sent (`old` in the event), the event of
the job's end was lost to a failed read, a fetched list arrived after a frame about the job that came
in while the list was on its way (`late`), or the cache was dropped and nothing about the job came since.

### Tracker

`observe`, `observeSize` and `complete` are each a section under `tracker.mu` followed by
`maybeFlush`, a second section, followed by the write of the row outside the mutex; `at[g]`
says where goroutine `g` is. Time is two flags that fall at any moment: `recent` (less than
`flushInterval` since the last flush) and `quiet` (`stale()`). The write, `SetJobProgress` under five seconds,
succeeds (`WriteRow`) or fails (`WriteFails`): then the error is logged and nothing else happens, `dirty` being
false already. `handed`, `overtaken` and `lost` are history variables: the newest flush, whether the row was written by an
older one after it, and whether it could not be written.

### NasWorkspace

One job, which a shutdown or a crash may interrupt and a restart run again. Run `n` has a
script and an lftp of its own (`script[n]`, `lftp[n]`); all runs share the staging directory
(`stage`), the runtime directory (`dir`) and the pidfile in it (`pid`), as the paths depend
on the job's id alone. Scripts outlive the relay.

| Code | Model |
| --- | --- |
| `Start`, `Stop`, exit, crash | `Boot`, `Stop`, `Exit`, `Crash` |
| the goroutine that sweeps (`manager.go:83-89`) | `sweep`; `Sweep` or `SweepFails` at any time after `Boot` |
| `writeWorkspace` | `UploadBegins`, `UploadEnds`, with anything in between |
| `stream` | `ScriptStarts`, `StreamEnds`, `StreamBreaks`, `StreamAborts` |
| errors before there is a script | `TransferFails` |
| `cleanup` after the run | `Cleanup`(`Fails`) |
| `Manager.Cancel`: mark, `killRemote`, `cancel()` | `CancelMarks`, `CancelKills`(`Fails`), `CancelFires`, in the order of `cancelOrder` |
| `nas.Cancel` | `Kill` |
| `run.sh`, one command each | `script[n]` is the next command: `mkdir`, `copy`, `lftp`, `pid`, `wait`, `exit` |
| `trap cleanup EXIT INT TERM HUP` | `ScriptExits`, `ScriptTraps` |

The trap does not exit: after a TERM the script goes on with its next command, with both
directories gone. What a TERM sent to the SSH session reaches depends on the server, so
`Reach` lists the possibilities: nothing, the script, or its whole process group. `lftp`
may end at any moment, by itself or after a TERM. `aimed` and `excused` are history variables.
How `run` classifies an end is one step here (`Ends`); `JobManager` has its races with
Cancel. A pid that the NAS reuses for another process is left out, and so is a change of
`nas_tmp`, after which the sweep looks in another place.

### SftpPool

Entries of `Pool.conns` do not touch each other, so one server is modelled. Every call is
made with a copy of the server's row (`copy[c]`), as the handlers and the worker read it
first. `holder` is `Pool.mu`: it is held through the dial and through `fn`, so calls do not
interleave inside, but the user edits or deletes the row, and the network fails, between any
two steps.

| Code | Model |
| --- | --- |
| `GetServer` of a handler or a worker | `Load` |
| `Test` drops the pooled connection, then calls `List` | `TestDrops`, then as any call |
| `do`: lock, closed?, look-up | `Enter`, `EnterRefused` |
| `fn` on a pooled connection | `TryAnswers`, `TryBroken` |
| `dial`: TCP, handshake with the copy's key, SFTP | `Dial`, `DialFails` |
| `SetServerHostKey` and its errors | `Pin`, `PinFails` |
| `p.conns[s.ID] = c`, `fn` again | `Pooled`, `Use` |
| `evictIdle`, `Close` | `Evict`, `Close` |
| `updateServer`, `deleteServer` | `UpdateServer`, `DeleteServer` |

The form of a server sends every field, the recorded key among them, so an edit may write any
row. `fn` is an answer (or an error that leaves the connection alone), a broken connection, or
silence: a connection is `live`, `dead` or `silent`. `Rekey`, `Break` and `GiveUp` are the
environment. `overtaken` and the field `old` are history: the row has changed since the copy
was read, or since the connection's call read its copy.

`SftpPool` implements `PinnedLine` (`LineSpec`): `settings` is the row, `lines` the pooled
connection, `attempts` the call between the start of its dial and `Pooled`, with its copy's host,
its copy's key until the handshake has passed and the connection's afterwards, and `ended` is
`closed`. Nothing of callers, mutex or network is left in the abstract specification; what it
says is that a dial never leaves a line behind, that what it opens has the key pinned for it, and
that only the user or an old dial replaces a key.

### NasClient

`Client.mu` is held while `connect` dials (`holder`) and in short sections that look at the
connection or clear it, but not while it is used. So a call's connection is relative: `mine[c]`
is `current` if what the call holds is what the client holds, `gone` once somebody has dropped
it. `conn` is `Client.ssh` with `Client.sftp`, `dialled` a connection that is not yet there,
`open` counts connections that nobody has closed.

| Code | Model |
| --- | --- |
| `connect`: closed?, one there?, settings | `ConnectRefused`, `ConnectFinds`, `ConnectDials` |
| TCP, handshake, host-key callback | `Dial`, `DialFails` |
| `sftp.NewClient`, after the deadline is cleared | `OpenSftp`, `OpenSftpFails` |
| `SetSettings` of `nas_host_key` and its errors | `Pin`, `PinFails` |
| `c.ssh, c.sftp = client, sc` | `Keep` |
| `do`: `fn`, `isBroken`, `disconnect`, once more | `FnAnswers`, `FnBreaks`, `DropAndRetry` |
| `Run`, `stream`: look at `c.ssh` once more, session, command | `Take`, `FnAnswers`/`FnBreaks`, `CommandEnds`/`CommandBreaks` |
| `keepalive` | `Poke`, `PokeAnswered`, `PokeFails`, `PokeDrops`, `KeepaliveExits` |
| `Close` | `CloseBegins`, `CloseDrops` |
| the settings page | `OpenForm`, `SaveForm` |

The settings page sends every key it has loaded, so a save writes back the pinned key that the
page showed when it was opened, and Clear is a save without one. `Rekey`, `Break` and `GiveUp`
are the NAS and the network. `overtaken` and `old` are history, as in `SftpPool`. `NasClient`
implements `PinnedLine` too: `settings` is the settings row, `lines` the shared connection, the attempt lasts
from `ConnectDials` to `Keep`, and `ended` is Close having begun.

### Destination and JobApi

A path is a sequence of components. `Clean` is `path.Clean`; what `normalise` refuses besides
relative paths (blanks, null bytes) and the NFC form decide only what a component is. The NAS
is a set of directories and a partial function of links; `Walk` enters one component of a path
after the other, and `RealPath` is where it ends. `ValidateBegins` is the check by name, `Resolve` the call on the path itself,
`Ancestor` one step of `resolveAncestor`'s loop, and `ValidateBreaks` a connection that breaks
in any of these calls: all further ones fail up to "/", and `do` starts over. `Meant` is what a
path means to `mkdir -p` later: where the longest prefix that exists leads to, and the rest below it.
`clean` is `Nowhere` for a path that is not absolute. `relinked` is history: since the request came a
link was made, one to nothing has come to lead somewhere, or one outside the roots was removed; no
check by path can exclude what these do.

`JobApi` extends it. A behaviour follows one user, chosen at the start: a batch of `createJobs`
(`RequestBegins`, `Validates`, `Refused`, `QueueItem`, `QueueFails`, `QueueEnds`), a directory of
`mkdirNAS` (`MkdirStep`, one per missing directory, `MkdirEnds`), a client that pages through
`listJobs` (`ListPage`), or the goroutines that call `AppendJobLog` (`LogInsert`, `LogTrim`,
`LogTrimFails`). Everything else that happens to the rows is a step of the others: a status
that changes and with it whether the row passes the client's filter, a row deleted or
inserted, the server deleted with its jobs and their logs. The four users share no state but the
rows, so following one at a time loses no interleaving of a user with the others.

## Runs

| Run | What it asks | Bounds |
| --- | --- | --- |
| `job_manager` | consistency of the map, the pool's limit, no stranded row, no start after Stop, with cancel requests | 2 jobs, 2 workers, 1 cancel request at a time, limit 2, 2 crashes or shutdowns |
| `job_manager_no_cancel` | one worker per job, Stop reaches all, finished rows final, the refinement of `JobLifecycle`; every queued job is settled, a shutdown ends | 2 jobs, 2 workers, 1 delete or retry at a time, limits 1 and 2, 1 crash or shutdown, 1 failing statement |
| `cancel_is_final` | a statement of the repository that the code does not keep | 1 job |
| `job_stream` | a browser that read everything shows finished jobs right | 1 job, 1 other row, 1 browser that also fetches, channel of 1, lists of 1, 4 events, 2 of: shutdown, restart, failing read, fetch, dropped cache, change of the other row |
| `stale_event` | a statement of the repository that the code does not keep | 1 job, 1 browser that does not fetch, no failures |
| `tracker` | no progress is lost, or goes backwards | sizes 0, 2, 3, 4, percentages none, 50, 100, 1 scanner, any number of failing writes |
| `nas_workspace` | credentials do not stay on the NAS; a cancel that finds lftp ends it | 2 runs of a job, 2 shutdowns or crashes, 2 failures (connection, script killed, sweep) |
| `sweep_spares` | a statement of the repository that the code does not keep | 1 run, no failures |
| `sftp_pool` | one connection, to the row's host and with the row's key; the refinement of `PinnedLine`; every call ends | 2 calls at a time, 2 hosts, 2 keys, 1 edit, 1 changed host key, 1 failure |
| `nas_client` | the same of the NAS connection, with its refinement of `PinnedLine`; a broken one is dropped, Close ends | 2 calls at a time, 2 hosts, 2 keys, 1 save of the settings or changed host key, 1 failure |
| `nas_retry` | a statement of the repository that the code does not keep | 2 calls, 1 host, 1 failure |
| `job_api` | nothing queued or made outside the roots, nothing inside refused, no orphans, exact paging, the log ring | 7 inputs, 6 states of the NAS, 7 places on it, 2 moves of others, 2 breaks; 2 items; 5 rows, pages of 2; 2 appenders, 5 lines, 2 kept; 2 changes of others, 1 failing statement |

Why these bounds are enough to be of use. Two jobs and two workers are the least with
which the limit matters (one more job than slots under limit 1), with which a worker of
another job and a second worker of the same job can exist, and with which the
scheduler's snapshot holds a job that waits while another is being started. One request
at a time covers every pair of a client step and a step of the manager. Two downs in `job_manager`
let a crash follow the recovery from another; failing statements and changing limits are in `job_manager_no_cancel`. The hub's channel holds 1 in place
of 64 (2 in `stale_event`): an event that fills it and an event that finds it full both occur, and `StreamInv` is proved for any size. A job's events
concern that job alone and the hub treats subscribers alike, so one job and one browser
show what a stream can do. Four events are a life: created, started, one flush, the end; the other row
is given its id before or after the job, and pushes it out of a list of 1. Two extras let a fetch
race a restart or a lost event. The tracker's sizes hold a total, a part that a percentage
hits, one that it does not, and one in between.

Two runs are the least with which an old script or an old lftp meets a new workspace, and two
downs let a crash follow a shutdown; a deadlock is allowed in these runs because a job that
is over, or used up its runs, has nothing left to do.

Two calls are the least with which one waits while the other dials, or reads the row before
the other records a key in it; an edit can move the row between the two hosts, take its key
away, or put another one in. Calls begin at will, so a call may never begin again, and the
deadlock check is off. The same holds for `nas_client`; with one failure the other call and the
keepalive can both be late in dropping what is broken.

`job_api` has two roots, "/r" and "/s/u". Its NAS has them alone, a link inside one, one to nothing, a link
out of a root with another one in again, no root, and a root that is itself a link; two moves can make a directory and then a link in it, or remove
and replace one; two breaks end both attempts of `do`. Pages of 2 over 4 rows need three requests,
and two changes can touch a row before and one behind the cursor. Two appenders are the least with
which a trim falls between another's two statements. A request that is answered stays so, hence
no deadlock check.

Only properties are listed in the runs; the strengthenings the proofs use (`SlotInv`,
`QuietInv`, `PoolInv`, `DialInv`, `WorkspaceInv`, `LineInv`, `NasInv`, `QueueInv`) are proved from the initial states and every
step, and were model-checked when they were found.

Every property of a passing run has a seeded bug: an operator next to the
definition it replaces, with which TLC finds the property violated.

### Fairness

`job_manager_no_cancel` assumes that each goroutine that can run does: weak fairness of the
scheduler's steps, of each worker and each handler, of Stop's steps and of exit. Start is fair
because `deploy/docker-compose.yml` restarts the container. The loop's `select` takes a
ready case at random, so a closed `m.stop` is not passed over for ever: `LoopExit` is
strongly fair. Nothing is assumed of lftp: a transfer has to end only once its context is
done. `JobsSettle` assumes instead, in its own statement, that transfers end and
that the limit does not stay 0 (the run has limits 1 and 2). Crashes and signals are never assumed.

`sftp_pool` and `nas_client` assume the same of the calls, and that Go's mutex passes nobody
over for ever (it hands itself to a waiter after a millisecond): steps that wait for it are
strongly fair. A dial ends, as its context bounds it: the
callers' contexts have deadlines, but for the worker's, whose dial is bounded by
the client's timeout up to the TCP connection only. Opening the SFTP subsystem comes after the deadline was
cleared (`nas.go:224-230`, `sftpclient.go:223`) and is bounded by nothing; `NasClient` has it as a step that needs
an answer or a dead connection, `SftpPool` takes it for part of the dial. Both assume that the
operating system declares a silent connection dead (`GiveUp`); the code alone would keep such a call, and
everyone behind the mutex, waiting for ever. In `nas_client` the keepalive's ticker ticks and its
`select` is fair; a command on the NAS need not end by itself, and nobody has to begin a call.

### Statements of the repository that do not hold

* `cancel_is_final`: `state.go:32-34` says the final statuses are final and a retry clones a
  row "rather than reviving it"; `plan_to_implement.md:230-231` that the row is marked
  cancelled first "so the worker cannot overwrite it". A cancel between the scheduler's query
  and its update is undone: the row goes back to `running`, and Cancel, which may look into the
  map before the worker is in it, stops nothing. And `finish` consults its own copy of the job
  and updates by id, so a worker whose lftp has ended writes `done` or `failed` over it.
* `stale_event`: `manager.go:365-366` says a subscriber sees what the API would have
  returned. A late flush, or the handler that created the job, sends an older copy after the last event
  of the job.
* `sweep_spares`: `lftp.go:453-454` says the sweep runs "at startup, when nothing of ours is
  legitimately running", `manager.go:81-82` "before the first job runs". It runs beside the
  scheduler and may take up to 30 seconds; a job that starts meanwhile loses its
  workspace, its pidfile or both.
* `nas_retry`: `nas.go:143` says `do` reconnects "once if the session died". `disconnect` drops
  the connection of the moment, not the one that failed: a call that is late drops the new
  connection of another, whose second attempt then fails after one failure of the network.

The same window as in `cancel_is_final` goes further than the run shows. The revived row gets
a worker, Cancel's `cancel()` then ends its context, the worker records `interrupted` though
nobody stops the relay, and the scheduler starts the job again while the first worker still
cleans up: two workers, of which the first deletes the map entry of the second, so that
neither Cancel nor Stop can reach it. For that reason `OneWorkerPerJob`,
`LiveAreRegistered`, `StopReachesAll`, `TerminalIsFinal` and `LifecycleSpec` are checked in a
run without cancel requests, where they hold.

What `NasWorkspace` does not promise, because the code does not do it. `manager.go:345-346`
says `cleanup` removes the workspace "when the trap could not"; it only signals lftp, so what
was uploaded for a script that never started stays until the next start, with its credentials.
`NothingLeftBehind` names this case, a script killed outright and a sweep that failed,
and says there are no others. A cancel or a shutdown that comes before the pidfile is written
tells lftp nothing unless the server passes the signal on. After a crash lftp goes on; the next
run's sweep removes its pidfile, so nothing can tell it to end, and the exit trap of the old
script removes the new run's directories. Hence `CancelEndsLftp` starts from a
pidfile that no sweep and no older script can touch any more.

What `SftpPool` does not promise. A server that was edited is still served by the connection to
its old host until that is idle or tested. A call that read the row before an edit dials the
old host, and, if the copy had no key, records the old host's key in the new row;
`PooledKeyIsPinned` and `LineSpec` excuse exactly the copies that the row has
overtaken. `Test` wants a fresh connection, but another call may dial between its two sections.

What `NasClient` does not promise. A call or a keepalive that finds the connection broken can drop
a newer one and so fail the transfer of another job; two late drops can follow each other, so
"a connection that works is never dropped" is false as well. `Run` and `stream` fail on a connection that broke
between two jobs and leave it for the keepalive, up to 30 seconds later. A changed `nas_host` is dialled only once the
old connection is gone. `Settings.tsx:6-7` calls the pinned key read-only, but lines 75 and 98-100 send
the whole form as it was loaded: a page left open over a first connection writes back the empty key, and the
next connection trusts whatever it finds; `KeyIsPinned` and `LineSpec` excuse exactly the
settings saved after the call had read them.

What `JobStream` does not promise. `publish` drops its event whenever it cannot read the row
(`manager.go:367-371`): if that was the job's last event, browsers show the job as running until their next snapshot or fetch.
`jobs.go:231-232` calls the snapshot "always correct"; it holds the newest 200 rows (`jobs.go:22`), so a finished
job that is older disappears from the cache, whether or not the pages had it. `JobCard.tsx:17` says the fetch seeds
the cache "the SSE stream then keeps up to date", but every fetch that follows (after cancel, retry, delete or
queueing, on mounting or focus once the list is five seconds old) replaces it without looking at what
frames arrived meanwhile: a reply read before the end of a job and arriving after its last frame shows the
job as running again. And a browser that shows neither the queue nor the history for five minutes
loses the list and rebuilds it from frames alone, so that, while a running job's frames keep it fresh, a
page opened then lists only the jobs it got a frame about. `EndedIsShown` excuses these by name and says
that there are no others.

What `Tracker` does not promise. A flush that cannot be written within five seconds is logged and forgotten
(`manager.go:239-243`): the row catches up with the next flush that is written, but after the forced flush of
`complete()` none follows, and a done job keeps the bytes of an earlier flush. `RowIsCurrent` excuses
this, and an older flush that is written last, and says that there is no third way.

What `Destination` does not promise. Any error of `RealPath` counts as "does not exist": a link to
nothing is checked by its parent and the destination is the link itself, which leads out once somebody
makes its target. The roots themselves are not resolved, so a root that is a link, or is missing while
its parent is not itself allowed, refuses everything below it. Only where a path ends up is looked at: one that
leads out of the roots by a link and in again by another is accepted, and leads out once somebody removes the
second, which lies outside the roots. And if others remove a root and the directories above it after a path was
accepted, mkdir makes the way to the root again. Retry copies the row's destination and
does not look at `allowed_dest_roots` again.

More observations, with no run: `manager.go:95-96` says Stop records running jobs as interrupted, but a worker
that is stopped in `GetServer` or `remoteSize`, before its transfer began, records `failed`, which is final;
`api.go:28-30` says `opTimeout` bounds every request to a server, but the context reaches the dial only, and
a request on a pooled connection that falls silent waits for the operating system with the pool's mutex held; a job on a server that was never contacted fails with
`ErrNoHostKey`, because `run` hands `Transfer` the row it read before its own `remoteSize`
recorded the key; a flush that `pollDest` began before `complete()` may be
written after it, so that a done job keeps a size below its total and a speed; and
`events.go:44-46` says `lastSent` stays bounded to jobs in flight, but a flush after the
last event of a job leaves an entry that nothing removes.

## Proofs

Every theorem holds for all values of the constants that meet the assumptions named in the
modules (finitely many workers, jobs of a stream and appenders, natural bounds, a NAS that begins as a tree, known operations, distinct names).
Each proof has the same shape: an inductive invariant, one lemma per group of actions that it is
kept, and PTL for the last step.

`JobManager_proofs`, with cancel requests:

* `TypeCorrect`, `SlotInvariance`, and from these `MapIsLive` (`RegisteredAreLive`),
  `Capacity` (`WithinLimit`) and `StartsRespectLimit` (`StartsWithinLimit`).
* `StopIsFinal` (`NoStartAfterStop`) and `NoRowStranded` (`RunningRowOwned`).

`WithinLimit` is not inductive by itself. Between the count and the query it says nothing, so
`SlotInv` adds that counted slots stay free until they are filled (workers only return
meanwhile), that outside the loop over the snapshot no job is waiting, and that the job
being registered is not also waiting. The steps that fill slots need facts about
cardinalities: the query returns at most `free` jobs (a lemma about `Oldest`), and moving a
job from the waiting set to the current one, or from there to the map, does not
change the sum. `RegisteredAreLive` is part of the induction because a worker that returns
must free exactly one entry, its own; that in turn needs every live worker to have a job.
`RunningRowOwned` is inductive together with the types, which say that what a worker writes last is never `running`.

The rest of `JobManager_proofs`, from the assumption `"cancel" \notin Ops`:

* `QuietInvariance`, and from it `OneWorkerHolds` (`OneWorkerPerJob`), `LiveAreRegisteredHolds`,
  `StopReachesAllHolds`, `TerminalIsFinalHolds`.
* `ImplementsLifecycle`: `Spec => LifecycleSpec`. The manager implements `JobLifecycle` with
  `table <- status`, `next <- nextId`: every step is a step of the abstract lifecycle or changes neither.

None of these is inductive alone. One worker per job rests on the scheduler's snapshot still
being true when it is used (`SnapshotIsTrue`), which rests on nobody but the scheduler taking a row
out of `queued` (`NoCancelPending`) and on a row that a live worker has never reading
`queued` or `interrupted` (`RowsFitWorkers`) unless the worker is past its end in a shutdown, when the
scheduler has exited (`ShutdownInOrder`); ids not yet given mean nothing to anybody
(`IdsAreFresh`). With a cancel request the first of these fails, as `cancel_is_final` shows.

`NasWorkspace_proofs`, for every number of runs, downs and failures and every `Reach`:

* `TypeCorrect`, and `WorkspaceInvariance` (`WorkspaceInv`), from which `NothingLeft`
  (`NothingLeftBehind`) and `CancelReaches` (`CancelEndsLftp`) follow.

Neither property is inductive. That nothing is left behind needs to know that a new run's
script has not started yet while its worker uploads (`ScriptPlace`), so that the last
script to leave is the one that removes the directories (`Leftovers`). That a cancel ends lftp needs
three more facts: the pidfile names a script that has started lftp, and an exit that
removes it comes only after lftp has ended (`ScriptPlace`); the worker cannot give up, and so no
TERM can reach the trap, before the cancel request has told lftp, because only the request
itself or a shutdown ends the context (`CancelPlace`); and no sweep and no older script is
left to remove the pidfile (`Aim`). One lemma for each part shows that every action keeps it.

`SftpPool_proofs`, for every number of calls, hosts, keys, edits and failures:

* `TypeCorrect`, which includes that the mutex is held by the call inside.
* `PoolInvariance` (`PoolInv` and `DialInv`), from which `AtMostOne` (`OneConnection`),
  `KeyIsPinned` (`PooledKeyIsPinned`: host and key) and `PinIsKept` (`PinReplacedOnlyByOldCopy`) follow.
* `ImplementsPinnedLine`: `Spec => LineSpec`, one lemma per kind of step: an edit is `Configure`, the start of a
  dial `Begin`, a recorded key `Record`, `Pooled` is `Establish`, and what ends a dial or a connection is `Fail`,
  `Drop` or `End`; everything else changes nothing of the line.

`OneConnection` is not inductive: a dial adds a connection, so `PoolInv` says that none is
pooled where a call dials, and counts the pooled one and the dialled one. That the key is
recorded rests on copies: one that was not overtaken equals the row until its own call has
recorded a key, so the key the handshake was checked against is the row's. The refinement needs more than that:
`DialInv` ties the dialled connection to the copy of the call that dialled it, in its host and in its age, so that what
is pooled is what was attempted.

`NasClient_proofs`: `TypeCorrect`, `OneConnectionHolds`, `KeyIsPinnedHolds`,
`PinReplacedOnlyByOldCopyHolds`, along the same argument (`LineInv`). Here drops come from outside the
mutex's long section, so the count also needs that nobody drops while a call dials, and that after Close
nobody can dial. `ImplementsPinnedLine` shows that the client refines `PinnedLine`, with a `DialInv` of its own; the mutex
does not keep drops out of a dial's neighbourhood here, so a drop that finds nothing, and one that comes
late and takes a newer connection, are both steps of the abstract line.

`PinReplacedOnlyByOldCopy` is what `Record` allows, said of the concrete steps alone; it is proved of both modules and has no
run of its own, since `LineSpec` is checked there.

`Tracker_proofs`: `TypeCorrect`, `RowIsCurrentHolds`, `ForwardsHolds`. `RowIsCurrent` compares the row with
the bytes; the induction goes through the newest flush (`FlushInv`): it hands out all bytes there
are, the mark is set whenever more come, and the row is the newest flush unless that one is still to be written,
could not be written, or was overtaken (`NewestIsWritten`).

`JobStream_proofs`: `TypeCorrect`, which bounds every channel, and `EndedIsShownHolds`. `StreamInv` says of every
finished job and every subscriber that the end is still to be published, or the last event about the job in the
channel was sent from the row as it is (or from a copy that was out of date), or there is none and the
cache shows the job that way, as does a list on its way that no frame overtakes. It is kept because the hub never coalesces
the end of a job and a full channel ends the subscription. A list may leave the job out: then as many newer rows
are there as it holds, so as many newer ids were given (`RowsAreGiven`, `ListedIsShown`), and that stays so
(`PastLimitStays`) when those rows are deleted again.

`Destination_proofs` and `JobApi_proofs`, for any roots, requests, first states of the NAS and numbers of changes:

* `TypeCorrect`, and `ValidationInvariance` (`NasInv`), from which `PlainIsAcceptedHolds`, `MadeInsideHolds` and,
  with `QueueInv`, `QueuedStaysInsideHolds` follow.
* `OthersLeaveMeaning`: what `relinked` does not name, others cannot do. Any path goes on to mean what it
  meant, nothing, or a place inside a root.
* `NoOrphansHolds`; `PagingIsExactHolds`, where `PageInv` says that every row that matched all the
  time is still before the cursor or was shown, and pages lie in order behind it (`NewestFacts`: the newest rows are closed
  upwards, and fewer than asked for means all); `LogRingHolds`, where `NewestLines` says that the newest of all lines are the
  newest of those left, as long as none of them is missing.

The three properties of a destination are not inductive. The NAS stays a tree: what has a name is in a directory, and
nothing is a directory and a link (`Tree`, in `ValInv`). While nobody interferes, every root that is there and has the
path below it is still on the way to the place `resolveAncestor` asks for next (`PlainInv`). And, with `relinked` excused, no component
behind that place is a link that leads somewhere, so that an ancestor inside a root speaks for the whole path; from then
on what was accepted means nothing or a place inside a root (`InsideInv`). `QueueInv` ties the rows to the
destination that was accepted. `DirMade` and `LinkGone` say how a path's meaning changes when
a directory is made or a link removed. `Clean`, `Walk` and `Leads` are recursive functions; the library's induction
theorems cannot be used, so `UpTo` and `FromTo` derive the same for a set of numbers from the well-foundedness of the
naturals, and `StepsExist` gives each function its equations.

The first attempt at these proofs failed for three good reasons, which TLC then showed on a larger instance: the removal of
a link outside the roots, the removal of a root and the way to it, and a relative path that the model recorded as "/".
`relinked`, `MadeInside` and `clean` name them now.

Left to TLC: liveness (`JobsSettle`, `StopCompletes`, `CallsEnd` of both connections, `BrokenIsDropped`, `CloseEnds`), which is
out of the prover's reach. Every invariant and every action property of the passing runs has a theorem.

## Not modelled

* Migrations: each runs in a transaction before anything else starts.
* `Browse` (it lists what `Validate` accepted), `ProbeLftp` and `ShellPath`: each caches what one command on the NAS
  printed, the latter for the life of the process, so a share that moves to another volume needs a restart.
* What the generated script and lftp's commands say, the measuring of the destination, quoting; `stream`'s
  scanner, which stops at a line of more than 64 KB.
* The speed and the estimate of the tracker and of `view.go`; log events, their cache and the heartbeats of the
  stream; the browser's other caches, which only hold what their last request returned.
* Request decoding, configuration, authentication, static files, page rendering, deployment and end-to-end tests,
  which keep no state that changes.

## How the project was built

In this order: `JobStates`, `JobLifecycle`, `JobManager` with its proofs, `JobStream`, `Tracker`; `NasWorkspace`,
`SftpPool`; `NasClient`, `Destination`, `JobApi`; `PinnedLine` last, once both connections were there to compare; the proofs without cancel requests, `Tracker_proofs`,
`JobStream_proofs`, `NasClient_proofs`, `JobApi_proofs`, `Destination_proofs`. Worth adding next: the batch of `JobApi` and the scheduler of
`JobManager` in one model, and `Destination`'s roots resolved, should the code come to resolve them.
