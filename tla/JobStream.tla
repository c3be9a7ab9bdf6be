----------------------------- MODULE JobStream ------------------------------
(***************************************************************************)
(* The event stream: internal/events/events.go (the hub), the goroutines   *)
(* that publish what they wrote to a job's row (internal/jobs/manager.go), *)
(* the SSE handler of internal/api/jobs.go and the cache the browser keeps *)
(* (web/src/useEvents.ts), which the pages also fetch (web/src/JobCard.tsx).*)
(*                                                                         *)
(* To publish is two steps: the row is read again, then the copy goes to   *)
(* the hub under its mutex.  Between the two any other goroutine may write *)
(* and publish.  A row is its status here: which statuses follow each      *)
(* other is JobManager's subject, how bytes reach the row is Tracker's.    *)
(* Log lines take the same way as progress and are left out.  A frame      *)
(* reaches the browser when the handler takes it from the channel.         *)
(***************************************************************************)
EXTENDS JobStates, Integers, Sequences, FiniteSets

CONSTANTS
    Jobs,          \* ids of the jobs that are followed
    Others,        \* ids of other jobs, of which only the rows are modelled
    Clients,       \* browsers, each with at most one open stream
    Watchers,      \* those with a page open that fetches the list of jobs
    bufferSize,    \* events a subscriber may fall behind (64 in the code)
    snapshotLimit, \* rows in a snapshot, and in a list that is fetched (200)
    MaxEvents,     \* bound: events that are to be published
    MaxExtras      \* bound: shutdowns, restarts, failing reads, fetches, dropped caches,
                   \* insertions and deletions of other jobs

Ids == Jobs \cup Others

ASSUME IdsAssumption      == Ids \subseteq Nat /\ IsFiniteSet(Ids) /\ Jobs \cap Others = {}
ASSUME WatchersAssumption == Watchers \subseteq Clients
ASSUME BufferAssumption   == bufferSize \in Nat \ {0}
ASSUME LimitAssumption    == snapshotLimit \in Nat \ {0}
ASSUME BoundsAssumption   == MaxEvents \in Nat /\ MaxExtras \in Nat

VARIABLES
    row,       \* [Jobs -> AllStatuses \cup {NoRow}]: the jobs table
    run,       \* "new" before the row is created, "up" while a worker runs the job, else "idle"
    others,    \* [Others -> "new", "there", "gone"]: the rows of the other jobs
    pub,       \* [Jobs -> [Roles -> ...]]: the goroutines that write and publish
    subs,      \* Hub.subs: the clients whose channel is registered
    buf,       \* [Clients -> Seq(Event)]: what is in the channels, registered or closed; the
               \* type of an event is for the hub alone, a browser folds in each the same way
    lastSent,  \* Hub.lastSent: the jobs whose entry is younger than progressInterval
    conn,      \* the SSE handlers: "off", "open" (subscribed), "stream" (snapshot sent)
    view,      \* [Clients -> [Jobs -> AllStatuses \cup {NoRow}]]: the jobs in the query cache
    fetching,  \* the clients that have asked for the list of jobs; the reply is on its way
    reply,     \* [Clients -> [Jobs -> AllStatuses \cup {NoRow}]]: what that reply says
    stopping,  \* Stop has cancelled the workers
    events, extras,
    misled,    \* history, [Clients -> [Jobs -> BOOLEAN]]: view shows a copy that was out of date
               \* when it was sent, was fetched before a later frame, or whose job's end was lost,
               \* or nothing since the cache was dropped
    late       \* history: a frame about the job came in while the reply was on its way

publishers == <<row, run, others, pub, stopping, events>>
hub        == <<subs, buf, lastSent>>
fetches    == <<fetching, reply, late>>
browsers   == <<conn, view, misled, fetches>>
vars       == <<publishers, hub, browsers, extras>>

(* Who publishes events about a job: an HTTP handler, which creates or cancels *)
(* it (the handlers of one job follow each other here: the reply that names    *)
(* the job comes after Announce); its worker, with the scanner of lftp's       *)
(* output that transfer waits for; pollDest, or a scanner nobody waits for.    *)
Roles == {"handler", "worker", "poller"}

IdlePub   == [pc |-> "idle", typ |-> "none", copy |-> NoRow]
Exists(j) == row[j] # NoRow

(* An id has been given, and there is still a row with it. *)
Given(i) == IF i \in Jobs THEN run[i] # "new" ELSE others[i] # "new"
There(i) == IF i \in Jobs THEN Exists(i) ELSE others[i] = "there"

NobodyMisled == [j \in Jobs |-> FALSE]
NothingSaid  == [j \in Jobs |-> NoRow]

Init ==
    /\ row = NothingSaid
    /\ run = [j \in Jobs |-> "new"]
    /\ others = [o \in Others |-> "new"]
    /\ pub = [j \in Jobs |-> [r \in Roles |-> IdlePub]]
    /\ subs = {}
    /\ buf = [c \in Clients |-> <<>>]
    /\ lastSent = {}
    /\ conn = [c \in Clients |-> "off"]
    /\ view = [c \in Clients |-> NothingSaid]
    /\ fetching = {}
    /\ reply = [c \in Clients |-> NothingSaid]
    /\ misled = [c \in Clients |-> NobodyMisled]
    /\ late = [c \in Clients |-> NobodyMisled]
    /\ stopping = FALSE
    /\ events = 0 /\ extras = 0

-----------------------------------------------------------------------------
(* The hub. *)

(* The per-job clock: progress starts it, the end of the job removes it. *)
ClockAfter(typ, j) ==
    CASE typ = "progress"           -> lastSent \cup {j}
      [] typ \in {"done", "failed"} -> lastSent \ {j}
      [] OTHER                      -> lastSent

Coalesced(typ, j) == typ = "progress" /\ j \in lastSent

(* Seeded bug: a subscriber that is too slow only misses the event. *)
PublishSkips(typ, e) ==
    IF Coalesced(typ, e.job) THEN UNCHANGED hub
    ELSE /\ lastSent' = ClockAfter(typ, e.job)
         /\ buf' = [c \in Clients |-> IF c \in subs /\ Len(buf[c]) < bufferSize
                                      THEN Append(buf[c], e) ELSE buf[c]]
         /\ UNCHANGED subs

(* Seeded bug: an event is still put into a channel that is full. *)
PublishOverfills(typ, e) ==
    IF Coalesced(typ, e.job) THEN UNCHANGED hub
    ELSE /\ lastSent' = ClockAfter(typ, e.job)
         /\ buf' = [c \in Clients |-> IF c \in subs THEN Append(buf[c], e) ELSE buf[c]]
         /\ subs' = {c \in subs : Len(buf[c]) < bufferSize}

(* Publish: progress is coalesced per job, a full channel is closed. *)
Publish(typ, e) ==
    IF Coalesced(typ, e.job) THEN UNCHANGED hub
    ELSE /\ lastSent' = ClockAfter(typ, e.job)
         /\ buf' = [c \in Clients |-> IF c \in subs /\ Len(buf[c]) < bufferSize
                                      THEN Append(buf[c], e) ELSE buf[c]]
         /\ subs' = {c \in subs : Len(buf[c]) < bufferSize}

(* progressInterval has passed since the last progress event of the job. *)
SecondPasses(j) ==
    /\ j \in lastSent
    /\ lastSent' = lastSent \ {j}
    /\ UNCHANGED <<publishers, subs, buf, browsers, extras>>

-----------------------------------------------------------------------------
(* The goroutines that publish. *)

(* What happens beside the life of the followed jobs is bounded in number. *)
Rarely == extras < MaxExtras /\ extras' = extras + 1

OnlyPublishers == UNCHANGED <<hub, browsers, extras>>

(* Goroutine r is about to read the row of j for an event of type typ. *)
Reads(j, r, typ) ==
    /\ events < MaxEvents
    /\ events' = events + 1
    /\ pub' = [pub EXCEPT ![j][r] = [IdlePub EXCEPT !.pc = "read", !.typ = typ]]

(* Create or Retry, then Announce.  Ids are given in order (AUTOINCREMENT). *)
Create(j) ==
    /\ ~stopping
    /\ run[j] = "new" /\ \A i \in Ids : i < j => Given(i)
    /\ row' = [row EXCEPT ![j] = "queued"]
    /\ run' = [run EXCEPT ![j] = "idle"]
    /\ Reads(j, "handler", "created")
    /\ OnlyPublishers /\ UNCHANGED <<others, stopping>>

(* schedule marks the row and starts the worker, which first publishes it. *)
RunStart(j) ==
    /\ ~stopping
    /\ run[j] = "idle" /\ Runnable(row[j])
    /\ pub[j]["worker"].pc = "idle"
    /\ row' = [row EXCEPT ![j] = "running"]
    /\ run' = [run EXCEPT ![j] = "up"]
    /\ Reads(j, "worker", "progress")
    /\ OnlyPublishers /\ UNCHANGED <<others, stopping>>

(* A line of lftp's output, or a poll of the destination, makes the tracker    *)
(* write the progress to the row, and then publish it.  Goroutine "worker" is  *)
(* waited for before the run ends; nothing waits for a flush of the other:     *)
(* it may read and publish after the worker has returned.                      *)
Flush(j, r) ==
    /\ r \in {"worker", "poller"}
    /\ run[j] = "up"
    /\ pub[j][r].pc = "idle"
    /\ Reads(j, r, "progress")
    /\ OnlyPublishers /\ UNCHANGED <<row, run, others, stopping>>

EventOf(st) == CASE st = "done" -> "done" [] st = "failed" -> "failed" [] OTHER -> "progress"

(* finish: the row, then the event.  A worker is interrupted by Stop alone.    *)
(* Without a row the update fails and nothing is published.                    *)
Finish(j) ==
    /\ run[j] = "up"
    /\ pub[j]["worker"].pc = "idle"
    /\ run' = [run EXCEPT ![j] = "idle"]
    /\ \E st \in {"done", "failed"} \cup IF stopping THEN {"interrupted"} ELSE {} :
         IF Exists(j)
         THEN row' = [row EXCEPT ![j] = st] /\ Reads(j, "worker", EventOf(st))
         ELSE UNCHANGED <<row, pub, events>>
    /\ OnlyPublishers /\ UNCHANGED <<others, stopping>>

(* The worker finds its row cancelled and returns without a word. *)
FinishCancelled(j) ==
    /\ run[j] = "up"
    /\ pub[j]["worker"].pc = "idle"
    /\ row[j] = "cancelled"
    /\ run' = [run EXCEPT ![j] = "idle"]
    /\ OnlyPublishers /\ UNCHANGED <<row, pub, others, stopping, events>>

(* Cancel: the check, the write, the event. *)
CancelCheck(j) ==
    /\ CanTransition(row[j], "cancelled")
    /\ pub[j]["handler"].pc = "idle"
    /\ pub' = [pub EXCEPT ![j]["handler"].pc = "write"]
    /\ OnlyPublishers /\ UNCHANGED <<row, run, others, stopping, events>>

CancelWrite(j) ==
    /\ pub[j]["handler"].pc = "write"
    /\ IF Exists(j) THEN row' = [row EXCEPT ![j] = "cancelled"] /\ Reads(j, "handler", "done")
                    ELSE pub' = [pub EXCEPT ![j]["handler"] = IdlePub] /\ UNCHANGED <<row, events>>
    /\ OnlyPublishers /\ UNCHANGED <<run, others, stopping>>

(* deleteJob and the retention sweep publish nothing. *)
Delete(j) ==
    /\ Terminal(row[j])
    /\ row' = [row EXCEPT ![j] = NoRow]
    /\ OnlyPublishers /\ UNCHANGED <<run, pub, others, stopping, events>>

(* Another job is inserted or deleted. *)
OtherJob(o) ==
    /\ \/ others[o] = "new" /\ (\A i \in Ids : i < o => Given(i)) /\ others' = [others EXCEPT ![o] = "there"]
       \/ others[o] = "there" /\ others' = [others EXCEPT ![o] = "gone"]
    /\ Rarely /\ UNCHANGED <<row, run, pub, stopping, events, hub, browsers>>

(* publish: GetJob.  No row, no event. *)
PubRead(j, r) ==
    /\ pub[j][r].pc = "read"
    /\ pub' = [pub EXCEPT ![j][r] =
                 IF Exists(j) THEN [@ EXCEPT !.pc = "send", !.copy = row[j]] ELSE IdlePub]
    /\ OnlyPublishers /\ UNCHANGED <<row, run, others, stopping, events>>

(* The history of events about j that still lie in a channel. *)
Aged(b, j) == [i \in DOMAIN b |-> IF b[i].job = j THEN [b[i] EXCEPT !.old = TRUE] ELSE b[i]]

(* publish: GetJob fails for another reason, and the event is lost.  Where it  *)
(* was the end of the job, whatever subscribers have of the job is out of date.*)
PubFails(j, r) ==
    /\ pub[j][r].pc = "read"
    /\ Rarely
    /\ pub' = [pub EXCEPT ![j][r] = IdlePub]
    /\ IF pub[j][r].typ \in {"done", "failed"}
       THEN /\ buf' = [c \in Clients |-> IF c \in subs THEN Aged(buf[c], j) ELSE buf[c]]
            /\ misled' = [c \in Clients |-> IF c \in subs THEN [misled[c] EXCEPT ![j] = TRUE] ELSE misled[c]]
            /\ late' = [c \in Clients |-> IF c \in subs \cap fetching THEN [late[c] EXCEPT ![j] = TRUE] ELSE late[c]]
       ELSE UNCHANGED <<buf, misled, late>>
    /\ UNCHANGED <<row, run, others, stopping, events, subs, lastSent, conn, view, fetching, reply>>

(* publish: the copy goes to the hub. *)
PubSend(j, r) ==
    /\ pub[j][r].pc = "send"
    /\ LET p == pub[j][r]
       IN  Publish(p.typ, [job |-> j, copy |-> p.copy, old |-> p.copy # row[j]])
    /\ pub' = [pub EXCEPT ![j][r] = IdlePub]
    /\ UNCHANGED <<row, run, others, stopping, events, browsers, extras>>

-----------------------------------------------------------------------------
(* The SSE handler and the browser at the other end. *)

OnlyBrowsers == UNCHANGED <<publishers, lastSent, extras>>

(* A connection is accepted: the handler subscribes. *)
Open(c) ==
    /\ conn[c] = "off"
    /\ subs' = subs \cup {c}
    /\ buf' = [buf EXCEPT ![c] = <<>>]
    /\ conn' = [conn EXCEPT ![c] = "open"]
    /\ OnlyBrowsers /\ UNCHANGED <<view, misled, fetches>>

(* ListJobs: the newest rows, as many as fit. *)
Newer(j) == {i \in Ids : i > j /\ There(i)}
Listed   == [j \in Jobs |-> IF Cardinality(Newer(j)) < snapshotLimit THEN row[j] ELSE NoRow]

(* Then it lists the table and sends the snapshot, which replaces the cache. *)
Snapshot(c) ==
    /\ conn[c] = "open"
    /\ conn' = [conn EXCEPT ![c] = "stream"]
    /\ view' = [view EXCEPT ![c] = Listed]
    /\ misled' = [misled EXCEPT ![c] = NobodyMisled]
    /\ late' = [late EXCEPT ![c] = [j \in Jobs |-> c \in fetching]]
    /\ OnlyBrowsers /\ UNCHANGED <<subs, buf, fetching, reply>>

(* One frame; the browser folds a job it carries into its cache. *)
Deliver(c) ==
    /\ conn[c] = "stream"
    /\ buf[c] # <<>>
    /\ LET e == Head(buf[c])
       IN  /\ view' = [view EXCEPT ![c][e.job] = e.copy]
           /\ misled' = [misled EXCEPT ![c][e.job] = e.old]
           /\ late' = [late EXCEPT ![c][e.job] = c \in fetching]
    /\ buf' = [buf EXCEPT ![c] = Tail(@)]
    /\ OnlyBrowsers /\ UNCHANGED <<subs, conn, fetching, reply>>

(* The handler has read the closed channel to its end and returns. *)
HandlerEnds(c) ==
    /\ conn[c] = "stream"
    /\ c \notin subs /\ buf[c] = <<>>
    /\ conn' = [conn EXCEPT ![c] = "off"]
    /\ OnlyBrowsers /\ UNCHANGED <<subs, buf, view, misled, fetches>>

(* The client is gone, or the table cannot be read: the handler unsubscribes. *)
Disconnect(c) ==
    /\ conn[c] # "off"
    /\ conn' = [conn EXCEPT ![c] = "off"]
    /\ subs' = subs \ {c}
    /\ buf' = [buf EXCEPT ![c] = <<>>]
    /\ OnlyBrowsers /\ UNCHANGED <<view, misled, fetches>>

-----------------------------------------------------------------------------
(* The pages: TanStack Query fetches the list into the same cache when a page  *)
(* opens or its window is looked at again, and after every request of the user *)
(* that changed a job, with or without a stream.  A fetch that is asked for    *)
(* anew replaces one that is under way.                                        *)

OnlyCache == UNCHANGED <<publishers, hub, conn>>

(* GET /api/jobs is asked for, and answered from the table. *)
Fetch(c) ==
    /\ c \in Watchers
    /\ Rarely
    /\ fetching' = fetching \cup {c}
    /\ reply' = [reply EXCEPT ![c] = Listed]
    /\ late' = [late EXCEPT ![c] = NobodyMisled]
    /\ OnlyCache /\ UNCHANGED <<view, misled>>

FetchOver(c) ==
    /\ c \in fetching
    /\ fetching' = fetching \ {c}
    /\ reply' = [reply EXCEPT ![c] = NothingSaid]
    /\ late' = [late EXCEPT ![c] = NobodyMisled]
    /\ OnlyCache /\ UNCHANGED extras

(* The reply replaces the cache, whatever frames came in before it. *)
Fetched(c) ==
    /\ FetchOver(c)
    /\ view' = [view EXCEPT ![c] = reply[c]]
    /\ misled' = [misled EXCEPT ![c] = late[c]]

(* Or it never comes, and the cache stays as it is. *)
FetchFails(c) == FetchOver(c) /\ UNCHANGED <<view, misled>>

(* No page has shown the list for five minutes: TanStack Query drops it, and   *)
(* the frames that follow fill a list that starts out empty.                   *)
CacheDropped(c) ==
    /\ c \notin fetching
    /\ Rarely
    /\ view' = [view EXCEPT ![c] = NothingSaid]
    /\ misled' = [misled EXCEPT ![c] = [j \in Jobs |-> TRUE]]
    /\ UNCHANGED <<publishers, hub, conn, fetches>>

-----------------------------------------------------------------------------
Stop ==
    /\ ~stopping
    /\ Rarely
    /\ stopping' = TRUE
    /\ UNCHANGED <<row, run, others, pub, events, hub, browsers>>

(* The process ends, in order or not, and starts again. *)
Restart ==
    /\ Rarely
    /\ stopping' = FALSE
    /\ row' = [j \in Jobs |-> IF row[j] = "running" THEN "interrupted" ELSE row[j]]
    /\ run' = [j \in Jobs |-> IF run[j] = "up" THEN "idle" ELSE run[j]]
    /\ pub' = [j \in Jobs |-> [r \in Roles |-> IdlePub]]
    /\ subs' = {}
    /\ buf' = [c \in Clients |-> <<>>]
    /\ lastSent' = {}
    /\ conn' = [c \in Clients |-> "off"]
    /\ UNCHANGED <<others, events, view, misled, fetches>>

Goroutine(j) ==
    \/ CancelWrite(j)
    \/ \E r \in Roles : PubRead(j, r) \/ PubFails(j, r) \/ PubSend(j, r)

Next ==
    \/ \E j \in Jobs :
         \/ Create(j) \/ RunStart(j) \/ \E r \in Roles : Flush(j, r)
         \/ Finish(j) \/ FinishCancelled(j) \/ CancelCheck(j) \/ Delete(j)
         \/ Goroutine(j) \/ SecondPasses(j)
    \/ \E o \in Others : OtherJob(o)
    \/ \E c \in Clients :
         \/ Open(c) \/ Snapshot(c) \/ Deliver(c) \/ HandlerEnds(c) \/ Disconnect(c)
         \/ Fetch(c) \/ Fetched(c) \/ FetchFails(c) \/ CacheDropped(c)
    \/ Stop \/ Restart

Spec == Init /\ [][Next]_vars

-----------------------------------------------------------------------------
(* Properties. *)

RowType   == AllStatuses \cup {NoRow}
EventType == [job : Jobs, copy : RowType, old : BOOLEAN]
PubType   == {p \in [pc   : {"idle", "write", "read", "send"},
                    typ  : {"none", "created", "progress", "done", "failed"},
                    copy : RowType] : p.pc \in {"read", "send"} => p.typ # "none"}

(* The variables have the types the declarations above give them, and no       *)
(* channel holds more than it has room for.                                    *)
TypeOK ==
    /\ row \in [Jobs -> RowType]
    /\ run \in [Jobs -> {"new", "idle", "up"}]
    /\ others \in [Others -> {"new", "there", "gone"}]
    /\ pub \in [Jobs -> [Roles -> PubType]]
    /\ subs \subseteq Clients
    /\ buf \in [Clients -> Seq(EventType)]
    /\ \A c \in Clients : Len(buf[c]) <= bufferSize
    /\ lastSent \subseteq Jobs
    /\ conn \in [Clients -> {"off", "open", "stream"}]
    /\ view \in [Clients -> [Jobs -> RowType]]
    /\ fetching \subseteq Clients
    /\ reply \in [Clients -> [Jobs -> RowType]]
    /\ {misled, late} \subseteq [Clients -> [Jobs -> BOOLEAN]]
    /\ stopping \in BOOLEAN
    /\ events \in 0..MaxEvents /\ extras \in 0..MaxExtras

Quiet(j)   == \A r \in Roles : pub[j][r].pc = "idle"
Drained(c) == conn[c] = "stream" /\ c \in subs /\ buf[c] = <<>>

(* As many newer jobs as a list holds have been created: one that is read while *)
(* they are there leaves j out.                                                *)
PastLimit(j) == Cardinality({i \in Ids : i > j /\ Given(i)}) >= snapshotLimit

(* A browser that has read all it was sent shows a finished job as it is in    *)
(* the table, or not at all when snapshotLimit newer ones were created,        *)
(* whenever it connected, fetched or lost its stream and whatever was          *)
(* coalesced.  misled names the exceptions: the last copy it got of the job    *)
(* was overtaken by another write, publish could not read the row for the      *)
(* event that ends the job, a fetched list came in after a frame about the job *)
(* that arrived while the list was on its way, or the cache was dropped and    *)
(* nothing was heard of the job since.                                         *)
EndedIsShown ==
    \A j \in Jobs, c \in Clients :
        Terminal(row[j]) /\ run[j] = "idle" /\ Quiet(j) /\ Drained(c) /\ ~misled[c][j]
            => view[c][j] = row[j] \/ (view[c][j] = NoRow /\ PastLimit(j))

(* "publish re-reads the row so every subscriber sees exactly what the API     *)
(* would have returned for the same job" (manager.go:365-366): a browser that  *)
(* has read all it was sent shows a finished job as the API returns it.  Does  *)
(* not hold, even if nothing fails or is fetched: a late flush, or the handler *)
(* that created the job, sends its copy after the last event of the job.       *)
SubscribersSeeTheRow ==
    \A j \in Jobs, c \in Clients :
        Terminal(row[j]) /\ run[j] = "idle" /\ Quiet(j) /\ Drained(c) => view[c][j] = row[j]
=============================================================================
