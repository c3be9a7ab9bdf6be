------------------------------- MODULE JobApi -------------------------------
(***************************************************************************)
(* Requests of internal/api that are more than one statement, beside       *)
(* others who use the same database and the same NAS: createJobs and       *)
(* mkdirNAS, which validate a destination first (module Destination), a    *)
(* client that pages through listJobs, and the goroutines that append to   *)
(* the log of one job (AppendJobLog of internal/db/repo.go).               *)
(*                                                                         *)
(* A behaviour follows one of the four, chosen at the start; everything    *)
(* else that happens to the rows meanwhile is a step of the others.        *)
(***************************************************************************)
EXTENDS Destination

CONSTANTS
    Uses,        \* a subset of {"create", "mkdir", "list", "log"}
    Batches,     \* sequences of what a batch may hold: "item" or "/", the remote root
    MaxJobs,     \* bound: rows ever created
    FirstJobs,   \* rows there are when a client begins to page
    PageSize,    \* listJobs' limit
    Appenders,   \* goroutines that append to the log: lftp's two outputs, the manager
    KeepLines,   \* logKeep
    MaxLines,    \* bound: lines ever appended
    MaxChanges,  \* bound: what others do to the rows
    MaxFaults,   \* bound: statements that fail
    NoRow

ASSUME SizesAssumption ==
    /\ MaxJobs \in Nat /\ FirstJobs \in 0..MaxJobs
    /\ PageSize \in Nat \ {0} /\ KeepLines \in Nat \ {0}
    /\ MaxLines \in Nat /\ MaxChanges \in Nat /\ MaxFaults \in Nat
ASSUME AppendersAssumption == IsFiniteSet(Appenders)
ASSUME RowsAssumption      == \A m \in BOOLEAN : NoRow # [dest |-> Nowhere, matches |-> m]

Ids == 1..MaxJobs

VARIABLES
    use,         \* what this behaviour is about
    server,      \* the server's row is there
    rows,        \* [Ids -> [dest, matches] or NoRow]: "matches": the filter of the list
    nextId,      \* the id AUTOINCREMENT gives to the next row
    todo,        \* createJobs: the items still to be queued
    made,        \* createJobs: the ids of the jobs it made, in order
    madeDirs,    \* mkdirNAS: the directories it made
    answer,      \* "none", "ok", "error"
    cursor,      \* listJobs: the client's cursor
    seen,        \* the pages it was shown, as sets of ids, in order
    steady,      \* history: the rows that matched all the time since the first page
    appender,    \* [Appenders -> {"idle", "trim"}]
    log,         \* the ids of the lines in job_log
    lines,       \* the lines ever inserted
    untrimmed,   \* history: trims that failed since the last one that did not
    changes, faults

batch  == <<todo, made, answer>>
list   == <<cursor, seen, steady>>
ring   == <<appender, log, lines, untrimmed>>
table  == <<server, rows, nextId>>
onNas  == <<nas, relinked, madeDirs, validation, nasBounds>>
bounds == <<changes, faults>>
vars   == <<use, table, onNas, batch, list, ring, bounds>>

Rows    == {j \in Ids : rows[j] # NoRow}
Matches(j) == rows[j] # NoRow /\ rows[j].matches
Fault   == faults < MaxFaults /\ faults' = faults + 1 /\ UNCHANGED changes

Init ==
    /\ NasInit
    /\ use \in Uses
    /\ server = TRUE
    /\ nextId = IF use = "list" THEN FirstJobs + 1 ELSE 1
    /\ \E M \in SUBSET (1..nextId - 1) :
         rows = [j \in Ids |-> IF j < nextId THEN [dest |-> Nowhere, matches |-> j \in M] ELSE NoRow]
    /\ todo \in IF use = "create" THEN Batches ELSE {<< >>}
    /\ made = << >> /\ madeDirs = {} /\ answer = "none"
    /\ cursor = 0 /\ seen = << >>
    /\ steady = {j \in 1..nextId - 1 : rows[j].matches}
    /\ appender = [a \in Appenders |-> "idle"]
    /\ log = {} /\ lines = 0 /\ untrimmed = 0
    /\ changes = 0 /\ faults = 0

-----------------------------------------------------------------------------
(* createJobs and mkdirNAS. *)

Answers(a) == answer' = a

OnlyBatch == UNCHANGED <<use, onNas, list, ring>>

(* GetServer, then Validate with the path of the request. *)
RequestBegins ==
    /\ use \in {"create", "mkdir"} /\ answer = "none"
    /\ use = "create" => server
    /\ \E p \in Inputs : ValidateBegins(p)
    /\ UNCHANGED <<use, table, madeDirs, batch, list, ring, bounds>>

Validates ==
    /\ Validate
    /\ UNCHANGED <<use, table, madeDirs, batch, list, ring, bounds>>

Refused ==
    /\ stage = "rejected" /\ answer = "none"
    /\ Answers("error")
    /\ OnlyBatch /\ UNCHANGED <<table, todo, made, bounds>>

Queueing == use = "create" /\ stage = "accepted" /\ answer = "none"

(* The INSERT of CreateJob: servers (id) has to be there. *)
Insert(d) ==
    /\ server /\ nextId \in Ids
    /\ rows' = [rows EXCEPT ![nextId] = [dest |-> d, matches |-> TRUE]]
    /\ nextId' = nextId + 1
    /\ UNCHANGED server

(* Seeded bug: foreign keys are off, as SQLite has them by default. *)
QueueItemUnchecked ==
    /\ Queueing /\ todo # << >> /\ Head(todo) = "item"
    /\ nextId \in Ids
    /\ rows' = [rows EXCEPT ![nextId] = [dest |-> dest, matches |-> TRUE]]
    /\ nextId' = nextId + 1
    /\ made' = Append(made, nextId) /\ todo' = Tail(todo)
    /\ OnlyBatch /\ UNCHANGED <<server, answer, bounds>>

(* One item: CreateJob. *)
QueueItem ==
    /\ Queueing /\ todo # << >> /\ Head(todo) = "item"
    /\ Insert(dest)
    /\ made' = Append(made, nextId) /\ todo' = Tail(todo)
    /\ OnlyBatch /\ UNCHANGED <<answer, bounds>>

(* The server has gone, a statement fails, GetJob does not find the row that    *)
(* was made, or the item is the remote root: the jobs before it are queued.     *)
QueueFails ==
    /\ Queueing
    /\ \/ todo # << >> /\ (~server \/ Head(todo) = "/") /\ UNCHANGED bounds
       \/ Fault
       \/ made # << >> /\ Last(made) \notin Rows /\ UNCHANGED bounds
    /\ Answers("error")
    /\ OnlyBatch /\ UNCHANGED <<table, todo, made>>

QueueEnds ==
    /\ Queueing /\ todo = << >>
    /\ Answers("ok")
    /\ OnlyBatch /\ UNCHANGED <<table, todo, made, bounds>>

(* What is missing of the path, in the order in which it is made. *)
Missing(p) == {q \in {SubSeq(Meant(p), 1, k) : k \in 1..Len(Meant(p))} : q \notin dirs}

(* MkdirAll makes one missing directory after the other. *)
MkdirStep ==
    /\ use = "mkdir" /\ stage = "accepted" /\ answer = "none"
    /\ Meant(dest) # Nowhere
    /\ \E q \in Missing(dest) :
         /\ Up(q) \in dirs
         /\ dirs' = dirs \cup {q} /\ madeDirs' = madeDirs \cup {q}
    /\ UNCHANGED <<use, table, links, relinked, validation, nasBounds, batch, list, ring, bounds>>

(* The path is there, or MkdirAll stops: something is in its way, or the         *)
(* connection breaks.                                                           *)
MkdirEnds ==
    /\ use = "mkdir" /\ stage = "accepted" /\ answer = "none"
    /\ \/ RealPath(dest) # Nowhere /\ Answers("ok")
       \/ Answers("error")
    /\ OnlyBatch /\ UNCHANGED <<table, todo, made, bounds>>

-----------------------------------------------------------------------------
(* A client that pages through listJobs. *)

(* The n largest of S, as ORDER BY j.id DESC LIMIT n gives them. *)
Newest(S, n) == {j \in S : Cardinality({i \in S : i > j}) < n}

(* Seeded bug: the client is past as many rows as it has seen. *)
PageByOffset == Newest({j \in Rows : Matches(j)}, PageSize * (Len(seen) + 1))
                  \ Newest({j \in Rows : Matches(j)}, PageSize * Len(seen))

Page == Newest({j \in Rows : Matches(j) /\ (cursor = 0 \/ j < cursor)}, PageSize)

(* The last id of a full page. *)
nextCursor(page) ==
    IF Cardinality(page) < PageSize THEN 0 ELSE CHOOSE j \in page : \A i \in page : j <= i

ListPage ==
    /\ use = "list" /\ answer = "none"
    /\ seen' = Append(seen, Page)
    /\ cursor' = nextCursor(Page)
    /\ IF cursor' = 0 THEN Answers("ok") ELSE UNCHANGED answer
    /\ UNCHANGED <<use, table, onNas, todo, made, steady, ring, bounds>>

-----------------------------------------------------------------------------
(* AppendJobLog: two statements. *)

LogInsert(a) ==
    /\ use = "log" /\ appender[a] = "idle"
    /\ server /\ lines < MaxLines
    /\ lines' = lines + 1 /\ log' = log \cup {lines'}
    /\ appender' = [appender EXCEPT ![a] = "trim"]
    /\ UNCHANGED <<use, table, onNas, batch, list, untrimmed, bounds>>

(* Seeded bug: the oldest lines are kept. *)
LogTrimNewest(a) ==
    /\ appender[a] = "trim"
    /\ log' = {i \in log : Cardinality({k \in log : k < i}) < KeepLines}
    /\ appender' = [appender EXCEPT ![a] = "idle"] /\ untrimmed' = 0
    /\ UNCHANGED <<use, table, onNas, batch, list, lines, bounds>>

LogTrim(a) ==
    /\ appender[a] = "trim"
    /\ log' = Newest(log, KeepLines)
    /\ appender' = [appender EXCEPT ![a] = "idle"] /\ untrimmed' = 0
    /\ UNCHANGED <<use, table, onNas, batch, list, lines, bounds>>

LogTrimFails(a) ==
    /\ appender[a] = "trim"
    /\ Fault
    /\ appender' = [appender EXCEPT ![a] = "idle"] /\ untrimmed' = untrimmed + 1
    /\ UNCHANGED <<use, table, onNas, batch, list, log, lines>>

-----------------------------------------------------------------------------
(* The others: handlers, the scheduler, workers, the purge. *)

Change == changes < MaxChanges /\ changes' = changes + 1 /\ UNCHANGED faults

(* A status changes, and with it whether the row passes the filter. *)
OthersMove ==
    /\ use = "list"
    /\ Change
    /\ \E j \in Rows : rows' = [rows EXCEPT ![j].matches = ~@] /\ steady' = steady \ {j}
    /\ UNCHANGED <<use, server, nextId, onNas, batch, cursor, seen, ring>>

OthersDelete ==
    /\ Change
    /\ \E j \in Rows : rows' = [rows EXCEPT ![j] = NoRow] /\ steady' = steady \ {j}
    /\ UNCHANGED <<use, server, nextId, onNas, batch, cursor, seen, ring>>

OthersInsert ==
    /\ Change
    /\ Insert(Nowhere)
    /\ UNCHANGED <<use, onNas, batch, list, ring>>

(* DeleteServer, ON DELETE CASCADE: its jobs and their logs go with it. *)
OthersDeleteServer ==
    /\ Change
    /\ server
    /\ server' = FALSE /\ rows' = [j \in Ids |-> NoRow] /\ steady' = {} /\ log' = {}
    /\ UNCHANGED <<use, nextId, onNas, batch, cursor, seen, appender, lines, untrimmed>>

OthersOnNas ==
    /\ use \in {"create", "mkdir"} /\ answer = "none"
    /\ Others
    /\ UNCHANGED <<use, table, madeDirs, batch, list, ring, bounds>>

-----------------------------------------------------------------------------
Next ==
    \/ RequestBegins \/ Validates \/ Refused
    \/ QueueItem \/ QueueFails \/ QueueEnds
    \/ MkdirStep \/ MkdirEnds
    \/ ListPage
    \/ \E a \in Appenders : LogInsert(a) \/ LogTrim(a) \/ LogTrimFails(a)
    \/ OthersMove \/ OthersDelete \/ OthersInsert \/ OthersDeleteServer
    \/ OthersOnNas

Spec == Init /\ [][Next]_vars

-----------------------------------------------------------------------------
(* Properties. *)

(* The variables have the types the declarations give them; a request has a      *)
(* destination when it is accepted, and only then.                               *)
TypeOK ==
    /\ use \in Uses /\ server \in BOOLEAN
    /\ \A j \in Rows : rows[j].matches \in BOOLEAN
    /\ nextId \in 1..MaxJobs + 1 /\ \A j \in Rows : j < nextId
    /\ << >> \in dirs /\ DOMAIN links \cap dirs = {}
    /\ stage \in {"idle", "resolve", "ancestor", "accepted", "rejected"}
    /\ stage = "accepted" <=> dest # Nowhere
    /\ cur = clean \/ IsPrefix(cur, clean)
    /\ attempt \in {0, 1}
    /\ answer \in {"none", "ok", "error"}
    /\ cursor \in Nat /\ steady \subseteq Rows
    /\ appender \in [Appenders -> {"idle", "trim"}]
    /\ log \subseteq 1..lines /\ lines \in 0..MaxLines /\ untrimmed \in 0..MaxFaults
    /\ moves \in 0..MaxMoves /\ breaks \in 0..MaxBreaks
    /\ changes \in 0..MaxChanges /\ faults \in 0..MaxFaults

(* "Every destination goes through the one validator" (jobs.go:90), which         *)
(* "confirms the result sits inside one of roots" (path.go:24-25): following     *)
(* links, what a batch queues, also one that fails half-way, goes to a place     *)
(* inside an allowed root, through directories that come and go while it is      *)
(* checked. Excused are a link that is made meanwhile, one to nothing that comes *)
(* to lead somewhere, and one outside the roots that is removed: a path may lead *)
(* out and in again, and only where it ends up is looked at.                     *)
QueuedStaysInside ==
    ~relinked => \A i \in DOMAIN made : made[i] \in Rows => Inside(Meant(rows[made[i]].dest))

(* A directory that mkdirNAS makes, at any point of the way to its path, lies    *)
(* inside an allowed root, with the same exceptions, or it is one on the way to  *)
(* a root, which others have removed.                                            *)
MadeInside ==
    ~relinked => \A q \in madeDirs :
                   Contained(q) \/ (moves > 0 /\ \E r \in Roots : IsPrefix(q, r))

(* No job outlives its server, not even one that a batch inserts after it looked *)
(* whether the server is there (listJobs joins the two and would not show it).   *)
NoOrphans == Rows # {} => server

(* "stable under concurrent inserts" (repo.go:144-145): a client that has paged  *)
(* to the end has seen every job that was there and matched all the time, and    *)
(* every page is older than the one before, so that none comes twice, however    *)
(* rows come, go and change status between the pages.                            *)
PagingIsExact ==
    /\ \A i, k \in DOMAIN seen : i < k => \A x \in seen[i], y \in seen[k] : x > y
    /\ use = "list" /\ answer = "ok" => \A j \in steady : \E i \in DOMAIN seen : j \in seen[i]

(* The log of a job holds its newest lines, as many as are to be kept, at every  *)
(* point between the statements of several goroutines, and no more than those    *)
(* that wait for their trim or lost it.                                          *)
LogRing ==
    /\ server => Newest(1..lines, KeepLines) \subseteq log
    /\ Cardinality(log) <= KeepLines + Cardinality({a \in Appenders : appender[a] = "trim"}) + untrimmed
=============================================================================
