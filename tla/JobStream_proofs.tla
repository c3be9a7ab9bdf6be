-------------------------- MODULE JobStream_proofs --------------------------
(***************************************************************************)
(* Proofs about JobStream, for any finite set of jobs, any number of       *)
(* browsers, and any bound on channels, lists, events and failures.        *)
(***************************************************************************)
EXTENDS JobStream, FiniteSetTheorems, TLAPS

-----------------------------------------------------------------------------
(* Type correctness. *)

Types == {"created", "progress", "done", "failed"}

LEMMA RowsAreTyped ==
    /\ NoRow \in RowType
    /\ {"queued", "running", "interrupted", "cancelled", "done", "failed"} \subseteq RowType
    /\ IdlePub \in PubType
  BY DEF RowType, AllStatuses, NoRow, IdlePub, PubType

(* Appending to the channels and closing the full ones keeps the hub's types. *)
LEMMA PublishType ==
  ASSUME TypeOK, NEW typ \in Types, NEW e \in EventType, Publish(typ, e)
  PROVE  /\ subs' \subseteq Clients
         /\ buf' \in [Clients -> Seq(EventType)] /\ \A c \in Clients : Len(buf'[c]) <= bufferSize
         /\ lastSent' \subseteq Jobs
<1>1. CASE Coalesced(typ, e.job)
  BY <1>1 DEF Publish, hub, TypeOK
<1>2. CASE ~Coalesced(typ, e.job)
  <2>1. /\ lastSent' = ClockAfter(typ, e.job)
        /\ buf' = [c \in Clients |-> IF c \in subs /\ Len(buf[c]) < bufferSize
                                     THEN Append(buf[c], e) ELSE buf[c]]
        /\ subs' = {c \in subs : Len(buf[c]) < bufferSize}
    BY <1>2 DEF Publish
  <2>2. ClockAfter(typ, e.job) \subseteq Jobs
    BY DEF ClockAfter, TypeOK, EventType
  <2>3. ASSUME NEW c \in Clients
        PROVE  buf'[c] \in Seq(EventType) /\ Len(buf'[c]) <= bufferSize
    <3>1. buf[c] \in Seq(EventType) /\ Len(buf[c]) <= bufferSize /\ bufferSize \in Nat
      BY BufferAssumption DEF TypeOK
    <3>2. CASE c \in subs /\ Len(buf[c]) < bufferSize
      <4>1. buf'[c] = Append(buf[c], e)
        BY <2>1, <3>2
      <4> QED
        BY <3>1, <3>2, <4>1
    <3>3. CASE ~(c \in subs /\ Len(buf[c]) < bufferSize)
      BY <2>1, <3>1, <3>3
    <3> QED
      BY <3>2, <3>3
  <2> QED
    BY <2>1, <2>2, <2>3 DEF TypeOK
<1> QED
  BY <1>1, <1>2

LEMMA InitTypeOK == Init => TypeOK
<1> SUFFICES ASSUME Init PROVE TypeOK
  OBVIOUS
<1>1. NothingSaid \in [Jobs -> RowType] /\ NobodyMisled \in [Jobs -> BOOLEAN]
  BY RowsAreTyped, Zenon DEF NothingSaid, NobodyMisled
<1>2. /\ row \in [Jobs -> RowType] /\ view \in [Clients -> [Jobs -> RowType]]
      /\ reply \in [Clients -> [Jobs -> RowType]]
      /\ misled \in [Clients -> [Jobs -> BOOLEAN]] /\ late \in [Clients -> [Jobs -> BOOLEAN]]
  BY <1>1, Zenon DEF Init
<1>3. pub \in [Jobs -> [Roles -> PubType]]
  BY RowsAreTyped, Zenon DEF Init
<1>4. buf \in [Clients -> Seq(EventType)] /\ \A c \in Clients : Len(buf[c]) <= bufferSize
  BY BufferAssumption DEF Init
<1>5. run \in [Jobs -> {"new", "idle", "up"}] /\ others \in [Others -> {"new", "there", "gone"}]
  BY Zenon DEF Init
<1>6. conn \in [Clients -> {"off", "open", "stream"}]
  BY Zenon DEF Init
<1>7. subs = {} /\ lastSent = {} /\ fetching = {} /\ stopping = FALSE /\ events = 0 /\ extras = 0
  BY Zenon DEF Init
<1>8. 0 \in 0..MaxEvents /\ 0 \in 0..MaxExtras
  BY BoundsAssumption
<1> QED
  BY <1>2, <1>3, <1>4, <1>5, <1>6, <1>7, <1>8 DEF TypeOK

LEMMA ReadsType ==
  ASSUME TypeOK, NEW j \in Jobs, NEW r \in Roles, NEW typ \in Types, Reads(j, r, typ)
  PROVE  pub' \in [Jobs -> [Roles -> PubType]] /\ events' \in 0..MaxEvents
<1>1. [IdlePub EXCEPT !.pc = "read", !.typ = typ] \in PubType
  BY RowsAreTyped DEF PubType, IdlePub, Types
<1>2. events' \in 0..MaxEvents
  BY BoundsAssumption DEF TypeOK, Reads
<1> QED
  BY <1>1, <1>2 DEF TypeOK, Reads

LEMMA RarelyType ==
  ASSUME TypeOK, Rarely
  PROVE  extras' \in 0..MaxExtras
  BY BoundsAssumption DEF TypeOK, Rarely

(* The steps that leave the hub and the browsers alone. *)
LEMMA PublisherType ==
  ASSUME TypeOK, OnlyPublishers,
         row' \in [Jobs -> RowType], run' \in [Jobs -> {"new", "idle", "up"}],
         pub' \in [Jobs -> [Roles -> PubType]], stopping' \in BOOLEAN,
         others' = others, events' \in 0..MaxEvents
  PROVE  TypeOK'
  BY DEF TypeOK, OnlyPublishers, hub, browsers, fetches

(* The history of the events in a channel is no more than a mark. *)
LEMMA AgedEvents ==
  ASSUME NEW b \in Seq(EventType), NEW j \in Jobs
  PROVE  /\ Aged(b, j) \in Seq(EventType) /\ Len(Aged(b, j)) = Len(b)
         /\ \A i \in 1..Len(b) : /\ Aged(b, j)[i].job = b[i].job
                                 /\ b[i].job = j => Aged(b, j)[i].old
                                 /\ b[i].job # j => Aged(b, j)[i] = b[i]
<1>1. DOMAIN b = 1..Len(b) /\ Len(b) \in Nat /\ \A i \in 1..Len(b) : b[i] \in EventType
  OBVIOUS
<1>2. ASSUME NEW x \in EventType
      PROVE  [x EXCEPT !.old = TRUE] \in EventType /\ [x EXCEPT !.old = TRUE].job = x.job
             /\ [x EXCEPT !.old = TRUE].old
  BY DEF EventType
<1>3. Aged(b, j) = [i \in 1..Len(b) |-> IF b[i].job = j THEN [b[i] EXCEPT !.old = TRUE] ELSE b[i]]
  BY <1>1 DEF Aged
<1>4. Aged(b, j) \in [1..Len(b) -> EventType]
  BY <1>1, <1>2, <1>3
<1>5. Aged(b, j) \in Seq(EventType) /\ Len(Aged(b, j)) = Len(b)
  BY <1>1, <1>4
<1> QED
  BY <1>1, <1>2, <1>3, <1>5

LEMMA LostEndType ==
  ASSUME TypeOK, NEW j \in Jobs, NEW r \in Roles, PubFails(j, r)
  PROVE  /\ buf' \in [Clients -> Seq(EventType)] /\ \A c \in Clients : Len(buf'[c]) <= bufferSize
         /\ misled' \in [Clients -> [Jobs -> BOOLEAN]] /\ late' \in [Clients -> [Jobs -> BOOLEAN]]
<1>0. /\ buf \in [Clients -> Seq(EventType)] /\ \A c \in Clients : Len(buf[c]) <= bufferSize
      /\ misled \in [Clients -> [Jobs -> BOOLEAN]] /\ late \in [Clients -> [Jobs -> BOOLEAN]]
  BY DEF TypeOK
<1>1. CASE pub[j][r].typ \in {"done", "failed"}
  <2>1. /\ buf' = [c \in Clients |-> IF c \in subs THEN Aged(buf[c], j) ELSE buf[c]]
        /\ misled' = [c \in Clients |-> IF c \in subs THEN [misled[c] EXCEPT ![j] = TRUE] ELSE misled[c]]
        /\ late' = [c \in Clients |-> IF c \in subs \cap fetching THEN [late[c] EXCEPT ![j] = TRUE] ELSE late[c]]
    BY <1>1 DEF PubFails
  <2>2. \A c \in Clients : buf'[c] \in Seq(EventType) /\ Len(buf'[c]) <= bufferSize
    BY <1>0, <2>1, AgedEvents
  <2> QED
    BY <1>0, <2>1, <2>2
<1>2. CASE pub[j][r].typ \notin {"done", "failed"}
  BY <1>0, <1>2 DEF PubFails
<1> QED
  BY <1>1, <1>2

LEMMA JobTypeOK ==
  ASSUME TypeOK, NEW j \in Jobs,
         \/ Create(j) \/ RunStart(j) \/ \E r \in Roles : Flush(j, r)
         \/ Finish(j) \/ FinishCancelled(j) \/ CancelCheck(j) \/ Delete(j)
         \/ Goroutine(j) \/ SecondPasses(j)
  PROVE  TypeOK'
<1> USE RowsAreTyped
<1>0. /\ row \in [Jobs -> RowType] /\ run \in [Jobs -> {"new", "idle", "up"}]
      /\ pub \in [Jobs -> [Roles -> PubType]] /\ stopping \in BOOLEAN
      /\ events \in 0..MaxEvents
  BY DEF TypeOK
<1>h. {"handler", "worker", "poller"} = Roles /\ {"created", "progress", "done", "failed"} \subseteq Types
  BY DEF Roles, Types
<1>1. CASE Create(j)
  <2>1. pub' \in [Jobs -> [Roles -> PubType]] /\ events' \in 0..MaxEvents
    BY <1>1, <1>h, ReadsType DEF Create
  <2> QED
    BY <1>0, <1>1, <2>1, PublisherType DEF Create
<1>2. CASE RunStart(j)
  <2>1. pub' \in [Jobs -> [Roles -> PubType]] /\ events' \in 0..MaxEvents
    BY <1>2, <1>h, ReadsType DEF RunStart
  <2> QED
    BY <1>0, <1>2, <2>1, PublisherType DEF RunStart
<1>3. ASSUME NEW r \in Roles, Flush(j, r) PROVE TypeOK'
  <2>1. pub' \in [Jobs -> [Roles -> PubType]] /\ events' \in 0..MaxEvents
    BY <1>3, <1>h, ReadsType DEF Flush
  <2> QED
    BY <1>0, <1>3, <2>1, PublisherType DEF Flush
<1>4. CASE Finish(j)
  <2>1. PICK st \in {"done", "failed"} \cup IF stopping THEN {"interrupted"} ELSE {} :
          IF Exists(j)
          THEN row' = [row EXCEPT ![j] = st] /\ Reads(j, "worker", EventOf(st))
          ELSE UNCHANGED <<row, pub, events>>
    BY <1>4 DEF Finish
  <2>2. st \in RowType /\ EventOf(st) \in Types
    BY <2>1, <1>h DEF EventOf
  <2>3. /\ row' \in [Jobs -> RowType] /\ pub' \in [Jobs -> [Roles -> PubType]]
        /\ events' \in 0..MaxEvents
    BY <1>0, <1>h, <2>1, <2>2, ReadsType
  <2> QED
    BY <1>0, <1>4, <2>3, PublisherType DEF Finish
<1>5. CASE FinishCancelled(j)
  BY <1>0, <1>5, PublisherType DEF FinishCancelled
<1>6. CASE CancelCheck(j)
  <2>1. [pub[j]["handler"] EXCEPT !.pc = "write"] \in PubType
    BY <1>0, <1>h DEF PubType
  <2>2. pub' = [pub EXCEPT ![j] = [pub[j] EXCEPT !["handler"] = [pub[j]["handler"] EXCEPT !.pc = "write"]]]
    BY <1>6 DEF CancelCheck
  <2>3. pub' \in [Jobs -> [Roles -> PubType]]
    BY <1>0, <2>1, <2>2
  <2> QED
    BY <1>0, <1>6, <2>3, PublisherType DEF CancelCheck
<1>7. CASE CancelWrite(j)
  <2>1. CASE Exists(j)
    <3>1. /\ row' \in [Jobs -> RowType] /\ pub' \in [Jobs -> [Roles -> PubType]]
          /\ events' \in 0..MaxEvents
      BY <1>0, <1>7, <1>h, <2>1, ReadsType DEF CancelWrite
    <3> QED
      BY <1>0, <1>7, <3>1, PublisherType DEF CancelWrite
  <2>2. CASE ~Exists(j)
    <3>1. row' = row /\ events' = events /\ pub' = [pub EXCEPT ![j] = [pub[j] EXCEPT !["handler"] = IdlePub]]
      BY <1>7, <2>2 DEF CancelWrite
    <3>2. pub' \in [Jobs -> [Roles -> PubType]]
      BY <1>0, <3>1
    <3> QED
      BY <1>0, <1>7, <3>1, <3>2, PublisherType DEF CancelWrite
  <2> QED
    BY <2>1, <2>2
<1>8. CASE Delete(j)
  BY <1>0, <1>8, PublisherType DEF Delete
<1>9. ASSUME NEW r \in Roles, PubRead(j, r) PROVE TypeOK'
  <2>0. pub[j][r] \in PubType /\ pub[j][r].pc = "read" /\ row[j] \in RowType
    BY <1>0, <1>9 DEF PubRead
  <2>1. [pub[j][r] EXCEPT !.pc = "send", !.copy = row[j]] \in PubType
    BY <2>0 DEF PubType
  <2>2. pub' \in [Jobs -> [Roles -> PubType]]
    BY <1>0, <1>9, <2>1 DEF PubRead
  <2> QED
    BY <1>0, <1>9, <2>2, PublisherType DEF PubRead
<1>10. ASSUME NEW r \in Roles, PubFails(j, r) PROVE TypeOK'
  <2>1. pub' \in [Jobs -> [Roles -> PubType]]
    BY <1>0, <1>10 DEF PubFails
  <2>2. /\ buf' \in [Clients -> Seq(EventType)] /\ \A c \in Clients : Len(buf'[c]) <= bufferSize
        /\ misled' \in [Clients -> [Jobs -> BOOLEAN]] /\ late' \in [Clients -> [Jobs -> BOOLEAN]]
    BY <1>10, LostEndType
  <2>3. extras' \in 0..MaxExtras
    BY <1>10, RarelyType DEF PubFails
  <2>4. UNCHANGED <<row, run, others, stopping, events, subs, lastSent, conn, view, fetching, reply>>
    BY <1>10 DEF PubFails
  <2> QED
    BY <2>1, <2>2, <2>3, <2>4 DEF TypeOK
<1>11. ASSUME NEW r \in Roles, PubSend(j, r) PROVE TypeOK'
  <2> DEFINE e == [job |-> j, copy |-> pub[j][r].copy, old |-> pub[j][r].copy # row[j]]
  <2>1. pub[j][r] \in PubType
    BY <1>0
  <2>2. e \in EventType /\ pub[j][r].typ \in Types
    BY <1>0, <1>11, <1>h, <2>1 DEF PubSend, PubType, EventType
  <2>3. Publish(pub[j][r].typ, e)
    BY <1>11 DEF PubSend
  <2>4. pub' = [pub EXCEPT ![j] = [pub[j] EXCEPT ![r] = IdlePub]]
        /\ UNCHANGED <<row, run, others, stopping, events, browsers, extras>>
    BY <1>11 DEF PubSend
  <2>5. pub' \in [Jobs -> [Roles -> PubType]]
    BY <1>0, <2>4
  <2> HIDE DEF e
  <2> QED
    BY <2>2, <2>3, <2>4, <2>5, PublishType DEF TypeOK, browsers, fetches
<1>12. CASE SecondPasses(j)
  BY <1>12 DEF SecondPasses, TypeOK, publishers, browsers, fetches
<1> QED
  BY <1>1, <1>2, <1>3, <1>4, <1>5, <1>6, <1>7, <1>8, <1>9, <1>10, <1>11, <1>12 DEF Goroutine

LEMMA ClientTypeOK ==
  ASSUME TypeOK, NEW c \in Clients,
         \/ Open(c) \/ Snapshot(c) \/ Deliver(c) \/ HandlerEnds(c) \/ Disconnect(c)
         \/ Fetch(c) \/ Fetched(c) \/ FetchFails(c) \/ CacheDropped(c)
  PROVE  TypeOK'
<1>0. /\ buf \in [Clients -> Seq(EventType)] /\ \A d \in Clients : Len(buf[d]) <= bufferSize
      /\ conn \in [Clients -> {"off", "open", "stream"}]
      /\ view \in [Clients -> [Jobs -> RowType]] /\ reply \in [Clients -> [Jobs -> RowType]]
      /\ misled \in [Clients -> [Jobs -> BOOLEAN]] /\ late \in [Clients -> [Jobs -> BOOLEAN]]
      /\ subs \subseteq Clients /\ fetching \subseteq Clients
  BY DEF TypeOK
<1>l. /\ Listed \in [Jobs -> RowType]
      /\ NothingSaid \in [Jobs -> RowType] /\ NobodyMisled \in [Jobs -> BOOLEAN]
  BY RowsAreTyped DEF TypeOK, Listed, NothingSaid, NobodyMisled
<1>b. \A d \in Clients : <<>> \in Seq(EventType) /\ Len(<<>>) <= bufferSize
  BY BufferAssumption
<1>1. CASE Open(c)
  BY <1>0, <1>1, <1>b DEF Open, OnlyBrowsers, publishers, fetches, TypeOK
<1>2. CASE Snapshot(c)
  BY <1>0, <1>l, <1>2 DEF Snapshot, OnlyBrowsers, publishers, fetches, TypeOK
<1>3. CASE Deliver(c)
  <2>1. /\ buf[c] # <<>>
        /\ view' = [view EXCEPT ![c] = [view[c] EXCEPT ![Head(buf[c]).job] = Head(buf[c]).copy]]
        /\ misled' = [misled EXCEPT ![c] = [misled[c] EXCEPT ![Head(buf[c]).job] = Head(buf[c]).old]]
        /\ late' = [late EXCEPT ![c] = [late[c] EXCEPT ![Head(buf[c]).job] = (c \in fetching)]]
        /\ buf' = [buf EXCEPT ![c] = Tail(buf[c])]
        /\ OnlyBrowsers /\ UNCHANGED <<subs, conn, fetching, reply>>
    BY <1>3 DEF Deliver
  <2>2. Head(buf[c]) \in EventType /\ Tail(buf[c]) \in Seq(EventType) /\ Len(Tail(buf[c])) <= bufferSize
    BY <1>0, <2>1, BufferAssumption
  <2>3. Head(buf[c]).job \in Jobs /\ Head(buf[c]).copy \in RowType /\ Head(buf[c]).old \in BOOLEAN
    BY <2>2 DEF EventType
  <2>4. /\ view' \in [Clients -> [Jobs -> RowType]] /\ misled' \in [Clients -> [Jobs -> BOOLEAN]]
        /\ late' \in [Clients -> [Jobs -> BOOLEAN]]
    BY <1>0, <2>1, <2>3
  <2>5. buf' \in [Clients -> Seq(EventType)] /\ \A d \in Clients : Len(buf'[d]) <= bufferSize
    BY <1>0, <2>1, <2>2
  <2> QED
    BY <2>1, <2>4, <2>5 DEF OnlyBrowsers, publishers, fetches, TypeOK
<1>4. CASE HandlerEnds(c)
  BY <1>0, <1>4 DEF HandlerEnds, OnlyBrowsers, publishers, fetches, TypeOK
<1>5. CASE Disconnect(c)
  BY <1>0, <1>5, <1>b DEF Disconnect, OnlyBrowsers, publishers, fetches, TypeOK
<1>6. CASE Fetch(c)
  <2>1. extras' \in 0..MaxExtras
    BY <1>6, RarelyType DEF Fetch
  <2> QED
    BY <1>0, <1>l, <1>6, <2>1 DEF Fetch, OnlyCache, publishers, hub, TypeOK
<1>7. CASE Fetched(c)
  BY <1>0, <1>l, <1>7 DEF Fetched, FetchOver, OnlyCache, publishers, hub, TypeOK
<1>8. CASE FetchFails(c)
  BY <1>0, <1>l, <1>8 DEF FetchFails, FetchOver, OnlyCache, publishers, hub, TypeOK
<1>9. CASE CacheDropped(c)
  <2>1. extras' \in 0..MaxExtras
    BY <1>9, RarelyType DEF CacheDropped
  <2>2. view' \in [Clients -> [Jobs -> RowType]] /\ misled' \in [Clients -> [Jobs -> BOOLEAN]]
    BY <1>0, <1>l, <1>9 DEF CacheDropped
  <2> QED
    BY <1>9, <2>1, <2>2 DEF CacheDropped, publishers, hub, fetches, TypeOK
<1> QED
  BY <1>1, <1>2, <1>3, <1>4, <1>5, <1>6, <1>7, <1>8, <1>9

LEMMA NextTypeOK == TypeOK /\ [Next]_vars => TypeOK'
<1> SUFFICES ASSUME TypeOK, [Next]_vars PROVE TypeOK'
  OBVIOUS
<1>1. CASE Stop
  <2>1. extras' \in 0..MaxExtras
    BY <1>1, RarelyType DEF Stop
  <2> QED
    BY <1>1, <2>1 DEF Stop, TypeOK, hub, browsers, fetches
<1>2. CASE Restart
  <2>1. row' \in [Jobs -> RowType] /\ run' \in [Jobs -> {"new", "idle", "up"}]
    BY <1>2, RowsAreTyped DEF Restart, TypeOK
  <2>2. pub' \in [Jobs -> [Roles -> PubType]]
    BY <1>2, RowsAreTyped, Zenon DEF Restart
  <2>3. buf' \in [Clients -> Seq(EventType)] /\ \A c \in Clients : Len(buf'[c]) <= bufferSize
    BY <1>2, BufferAssumption DEF Restart
  <2>4. conn' \in [Clients -> {"off", "open", "stream"}]
    BY <1>2 DEF Restart
  <2>5. extras' \in 0..MaxExtras
    BY <1>2, RarelyType DEF Restart
  <2>6. /\ subs' = {} /\ lastSent' = {} /\ stopping' = FALSE
        /\ UNCHANGED <<others, events, view, misled, fetches>>
    BY <1>2 DEF Restart
  <2> QED
    BY <2>1, <2>2, <2>3, <2>4, <2>5, <2>6 DEF TypeOK, fetches
<1>3. ASSUME NEW o \in Others, OtherJob(o) PROVE TypeOK'
  <2>1. extras' \in 0..MaxExtras
    BY <1>3, RarelyType DEF OtherJob
  <2>2. others' \in [Others -> {"new", "there", "gone"}]
    BY <1>3 DEF OtherJob, TypeOK
  <2> QED
    BY <1>3, <2>1, <2>2 DEF OtherJob, TypeOK, hub, browsers, fetches
<1>4. CASE UNCHANGED vars
  BY <1>4 DEF TypeOK, vars, publishers, hub, browsers, fetches
<1> QED
  BY <1>1, <1>2, <1>3, <1>4, JobTypeOK, ClientTypeOK DEF Next

(* The variables keep their types, and no channel is ever written beyond its   *)
(* room, whatever its size and however many subscribers there are.             *)
THEOREM TypeCorrect == Spec => []TypeOK
  BY InitTypeOK, NextTypeOK, PTL DEF Spec

-----------------------------------------------------------------------------
(* What a browser knows of a finished job.  The end of a job is never          *)
(* coalesced, so it is either still to be sent, or behind every other event    *)
(* about the job in the channel, or in the browser's cache, unless it was lost on the way or  *)
(* the list was too short for it; and so for a list that is on its way.        *)
EndPending(j) ==
    \E r \in Roles : pub[j][r].pc \in {"read", "send"} /\ pub[j][r].typ \in {"done", "failed"}

IsLast(b, i, j) == i \in 1..Len(b) /\ b[i].job = j /\ \A k \in 1..Len(b) : k > i => b[k].job # j
Unmentioned(b, j) == \A i \in 1..Len(b) : b[i].job # j

ShownBy(v, j) == v[j] = row[j] \/ (v[j] = NoRow /\ PastLimit(j))

Told(j, c) ==
    /\ \A i \in 1..Len(buf[c]) : IsLast(buf[c], i, j) => buf[c][i].old \/ buf[c][i].copy = row[j]
    /\ conn[c] = "stream" /\ Unmentioned(buf[c], j) =>
         /\ misled[c][j] \/ ShownBy(view[c], j)
         /\ c \in fetching => late[c][j] \/ ShownBy(reply[c], j)

StreamInv ==
    \A j \in Jobs, c \in Clients : Terminal(row[j]) /\ c \in subs /\ ~EndPending(j) => Told(j, c)

LEMMA TerminalRows ==
    /\ \A s \in {"queued", "running", "interrupted", "paused", NoRow} : ~Terminal(s)
    /\ \A s \in RowType : Terminal(s) => s \in {"done", "failed", "cancelled"}
  BY DEF Terminal, transitions, AllStatuses, NoRow, RowType

-----------------------------------------------------------------------------
(* Ids.  A row has an id that was given, and an id stays given: once as many   *)
(* newer ones were given as a list holds, that stays so.                       *)
RowsAreGiven == \A j \in Jobs : Exists(j) => run[j] # "new"

LEMMA InitRowsAreGiven == Init => RowsAreGiven
  BY DEF Init, NothingSaid, RowsAreGiven, Exists

LEMMA NextRowsAreGiven == TypeOK /\ RowsAreGiven /\ [Next]_vars => RowsAreGiven'
<1> SUFFICES ASSUME TypeOK, RowsAreGiven, [Next]_vars, NEW k \in Jobs, row'[k] # NoRow
             PROVE  run'[k] # "new"
  BY DEF RowsAreGiven, Exists
<1>0. /\ row \in [Jobs -> RowType] /\ run \in [Jobs -> {"new", "idle", "up"}]
      /\ row[k] # NoRow => run[k] # "new"
  BY DEF TypeOK, RowsAreGiven, Exists
<1>1. ASSUME NEW j \in Jobs, Create(j) \/ RunStart(j) PROVE run'[k] # "new"
  BY <1>0, <1>1 DEF Create, RunStart
<1>2. ASSUME NEW j \in Jobs, Finish(j) PROVE run'[k] # "new"
  <2>1. /\ run' = [run EXCEPT ![j] = "idle"]
        /\ \E st \in RowType : row' = row \/ row' = [row EXCEPT ![j] = st]
    BY <1>2, RowsAreTyped DEF Finish
  <2> QED
    BY <1>0, <2>1
<1>3. ASSUME NEW j \in Jobs, CancelWrite(j) PROVE run'[k] # "new"
  BY <1>0, <1>3 DEF CancelWrite, Exists
<1>4. ASSUME NEW j \in Jobs, FinishCancelled(j) \/ Delete(j) PROVE run'[k] # "new"
  BY <1>0, <1>4 DEF FinishCancelled, Delete
<1>5. CASE Restart
  <2>1. row'[k] = IF row[k] = "running" THEN "interrupted" ELSE row[k]
    BY <1>5 DEF Restart
  <2>2. row[k] # NoRow /\ run[k] # "new"
    BY <1>0, <2>1 DEF NoRow
  <2>3. run'[k] = IF run[k] = "up" THEN "idle" ELSE run[k]
    BY <1>5 DEF Restart
  <2> QED
    BY <2>2, <2>3
<1>6. ASSUME UNCHANGED <<row, run>> PROVE run'[k] # "new"
  BY <1>0, <1>6
<1>7. ASSUME NEW j \in Jobs, NEW r \in Roles, Flush(j, r) \/ PubRead(j, r) \/ PubFails(j, r) \/ PubSend(j, r)
      PROVE  UNCHANGED <<row, run>>
  BY <1>7 DEF Flush, PubRead, PubFails, PubSend
<1>8. ASSUME NEW j \in Jobs, CancelCheck(j) \/ SecondPasses(j) PROVE UNCHANGED <<row, run>>
  BY <1>8 DEF CancelCheck, SecondPasses, publishers
<1>9. ASSUME NEW c \in Clients,
             \/ Open(c) \/ Snapshot(c) \/ Deliver(c) \/ HandlerEnds(c) \/ Disconnect(c)
             \/ Fetch(c) \/ Fetched(c) \/ FetchFails(c) \/ CacheDropped(c)
      PROVE  UNCHANGED <<row, run>>
  BY <1>9 DEF Open, Snapshot, Deliver, HandlerEnds, Disconnect, Fetch, Fetched, FetchFails, FetchOver, CacheDropped,
              OnlyBrowsers, OnlyCache, publishers
<1>10. ASSUME NEW o \in Others, OtherJob(o) PROVE UNCHANGED <<row, run>>
  BY <1>10 DEF OtherJob
<1>11. CASE Stop \/ UNCHANGED vars
  BY <1>6, <1>11 DEF Stop, vars, publishers
<1> QED
  BY <1>1, <1>2, <1>3, <1>4, <1>5, <1>6, <1>7, <1>8, <1>9, <1>10, <1>11 DEF Next, Goroutine

GivenStay == \A i \in Ids : Given(i) => Given(i)'

LEMMA IdsStayGiven ==
  ASSUME TypeOK, [Next]_vars
  PROVE  GivenStay
<1>0. run \in [Jobs -> {"new", "idle", "up"}] /\ others \in [Others -> {"new", "there", "gone"}]
  BY DEF TypeOK
<1>1. ASSUME UNCHANGED <<run, others>> PROVE GivenStay
  BY <1>1 DEF GivenStay, Given
<1>2. ASSUME NEW j \in Jobs, Create(j) \/ RunStart(j) \/ Finish(j) \/ FinishCancelled(j) PROVE GivenStay
  <2>1. others' = others /\ \E x \in {"idle", "up"} : run' = [run EXCEPT ![j] = x]
    BY <1>2 DEF Create, RunStart, Finish, FinishCancelled
  <2> QED
    BY <1>0, <2>1 DEF GivenStay, Given
<1>3. CASE Restart
  BY <1>0, <1>3 DEF Restart, GivenStay, Given
<1>4. ASSUME NEW o \in Others, OtherJob(o) PROVE GivenStay
  <2>1. run' = run /\ \E x \in {"there", "gone"} : others' = [others EXCEPT ![o] = x]
    BY <1>4 DEF OtherJob
  <2> QED
    BY <1>0, <2>1 DEF GivenStay, Given, Ids
<1>5. ASSUME NEW j \in Jobs, NEW r \in Roles, Flush(j, r) \/ PubRead(j, r) \/ PubFails(j, r) \/ PubSend(j, r)
      PROVE  UNCHANGED <<run, others>>
  BY <1>5 DEF Flush, PubRead, PubFails, PubSend
<1>6. ASSUME NEW j \in Jobs, CancelCheck(j) \/ CancelWrite(j) \/ Delete(j) \/ SecondPasses(j)
      PROVE  UNCHANGED <<run, others>>
  BY <1>6 DEF CancelCheck, CancelWrite, Delete, SecondPasses, publishers
<1>7. ASSUME NEW c \in Clients,
             \/ Open(c) \/ Snapshot(c) \/ Deliver(c) \/ HandlerEnds(c) \/ Disconnect(c)
             \/ Fetch(c) \/ Fetched(c) \/ FetchFails(c) \/ CacheDropped(c)
      PROVE  UNCHANGED <<run, others>>
  BY <1>7 DEF Open, Snapshot, Deliver, HandlerEnds, Disconnect, Fetch, Fetched, FetchFails, FetchOver, CacheDropped,
              OnlyBrowsers, OnlyCache, publishers
<1>8. CASE Stop \/ UNCHANGED vars
  BY <1>1, <1>8 DEF Stop, vars, publishers
<1> QED
  BY <1>1, <1>2, <1>3, <1>4, <1>5, <1>6, <1>7, <1>8 DEF Next, Goroutine

LEMMA PastLimitStays ==
  ASSUME GivenStay, NEW j \in Jobs, PastLimit(j)
  PROVE  PastLimit(j)'
<1> DEFINE A == {i \in Ids : i > j /\ Given(i)}
           B == {i \in Ids : i > j /\ Given(i)'}
<1>1. A \in SUBSET B /\ B \in SUBSET Ids
  BY DEF GivenStay
<1>2. IsFiniteSet(Ids)
  BY IdsAssumption
<1> HIDE DEF A, B
<1>3. IsFiniteSet(B)
  BY <1>1, <1>2, FS_Subset
<1>4. IsFiniteSet(A) /\ Cardinality(A) <= Cardinality(B)
  BY <1>1, <1>3, FS_Subset
<1>5. Cardinality(A) \in Nat /\ Cardinality(B) \in Nat /\ snapshotLimit \in Nat
  BY <1>3, <1>4, FS_CardinalityType, LimitAssumption
<1>6. Cardinality(A) >= snapshotLimit
  BY DEF PastLimit, A
<1>7. Cardinality(B) >= snapshotLimit
  BY <1>4, <1>5, <1>6
<1> QED
  BY <1>7 DEF PastLimit, B

(* A list shows a job as the table has it, or was too short for it. *)
LEMMA ListedIsShown ==
  ASSUME TypeOK, RowsAreGiven, NEW j \in Jobs
  PROVE  ShownBy(Listed, j)
<1> DEFINE A == Newer(j)
           B == {i \in Ids : i > j /\ Given(i)}
<1>1. A \in SUBSET B /\ B \in SUBSET Ids
  BY DEF Newer, There, Given, RowsAreGiven, TypeOK, Ids
<1>2. IsFiniteSet(Ids)
  BY IdsAssumption
<1>d. Listed[j] = IF Cardinality(A) < snapshotLimit THEN row[j] ELSE NoRow
  BY DEF Listed
<1>p. PastLimit(j) <=> Cardinality(B) >= snapshotLimit
  BY DEF PastLimit
<1> HIDE DEF A, B
<1>3. IsFiniteSet(B)
  BY <1>1, <1>2, FS_Subset
<1>4. IsFiniteSet(A) /\ Cardinality(A) <= Cardinality(B)
  BY <1>1, <1>3, FS_Subset
<1>5. Cardinality(A) \in Nat /\ Cardinality(B) \in Nat /\ snapshotLimit \in Nat
  BY <1>3, <1>4, FS_CardinalityType, LimitAssumption
<1>6. CASE Cardinality(A) < snapshotLimit
  BY <1>d, <1>6 DEF ShownBy
<1>7. CASE ~(Cardinality(A) < snapshotLimit)
  <2>1. Cardinality(B) >= snapshotLimit
    BY <1>4, <1>5, <1>7
  <2> QED
    BY <1>d, <1>p, <1>7, <2>1 DEF ShownBy
<1> QED
  BY <1>6, <1>7

LEMMA StaysShown ==
  ASSUME GivenStay, NEW j \in Jobs, NEW v, ShownBy(v, j), row'[j] = row[j]
  PROVE  v[j] = row'[j] \/ (v[j] = NoRow /\ PastLimit(j)')
  BY PastLimitStays DEF ShownBy

-----------------------------------------------------------------------------
(* The steps, one after the other. *)

LEMMA InitStreamInv == Init => StreamInv
  BY DEF Init, StreamInv

(* A step that sends nothing keeps the invariant if every job it touches stays *)
(* as it is, is not finished, or has its end still to be sent.                 *)
LEMMA SilentStep ==
  ASSUME StreamInv, GivenStay, UNCHANGED <<subs, buf, conn, view, misled, fetches>>,
         \A j \in Jobs : \/ row'[j] = row[j] /\ (EndPending(j) => EndPending(j)')
                         \/ ~Terminal(row'[j])
                         \/ EndPending(j)'
  PROVE  StreamInv'
<1> SUFFICES ASSUME NEW j \in Jobs, NEW c \in Clients, Terminal(row'[j]), c \in subs', ~EndPending(j)'
             PROVE  Told(j, c)'
  BY DEF StreamInv
<1>1. row'[j] = row[j] /\ ~EndPending(j)
  OBVIOUS
<1>2. Told(j, c)
  BY <1>1 DEF StreamInv
<1>3. /\ ShownBy(view[c], j) => ShownBy(view[c], j)'
      /\ ShownBy(reply[c], j) => ShownBy(reply[c], j)'
  BY <1>1, StaysShown DEF ShownBy, fetches
<1> QED
  BY <1>1, <1>2, <1>3 DEF Told, fetches

(* The other jobs of a step on one job. *)
LEMMA OtherJobs ==
  ASSUME NEW j \in Jobs, NEW k \in Jobs, pub'[k] = pub[k]
  PROVE  EndPending(k) => EndPending(k)'
  BY DEF EndPending

(* A goroutine that was not about to send an end turns to something else. *)
LEMMA OthersStillPending ==
  ASSUME TypeOK, NEW j \in Jobs, NEW r \in Roles, NEW x \in PubType,
         pub' = [pub EXCEPT ![j] = [pub[j] EXCEPT ![r] = x]],
         ~(pub[j][r].pc \in {"read", "send"} /\ pub[j][r].typ \in {"done", "failed"})
  PROVE  \A k \in Jobs : EndPending(k) => EndPending(k)'
<1> SUFFICES ASSUME NEW k \in Jobs, EndPending(k) PROVE EndPending(k)'
  OBVIOUS
<1>1. PICK q \in Roles : pub[k][q].pc \in {"read", "send"} /\ pub[k][q].typ \in {"done", "failed"}
  BY DEF EndPending
<1>2. pub'[k][q] = pub[k][q]
  BY <1>1 DEF TypeOK
<1> QED
  BY <1>1, <1>2 DEF EndPending

LEMMA ReadsKeepsPending ==
  ASSUME TypeOK, NEW j \in Jobs, NEW r \in Roles, NEW typ \in Types, Reads(j, r, typ),
         pub[j][r].pc \in {"idle", "write"}
  PROVE  /\ \A k \in Jobs : EndPending(k) => EndPending(k)'
         /\ typ \in {"done", "failed"} => EndPending(j)'
<1>1. [IdlePub EXCEPT !.pc = "read", !.typ = typ] \in PubType
  BY RowsAreTyped DEF PubType, IdlePub, Types
<1>2. pub' = [pub EXCEPT ![j] = [pub[j] EXCEPT ![r] = [IdlePub EXCEPT !.pc = "read", !.typ = typ]]]
  BY DEF Reads
<1>3. \A k \in Jobs : EndPending(k) => EndPending(k)'
  BY <1>1, <1>2, OthersStillPending
<1>4. pub'[j][r].pc = "read" /\ pub'[j][r].typ = typ
  BY <1>2 DEF TypeOK, IdlePub
<1> QED
  BY <1>3, <1>4 DEF EndPending

LEMMA PublisherKeepsStreamInv ==
  ASSUME TypeOK, StreamInv, GivenStay, NEW j \in Jobs,
         \/ Create(j) \/ RunStart(j) \/ \E r \in Roles : Flush(j, r)
         \/ Finish(j) \/ FinishCancelled(j) \/ CancelCheck(j) \/ Delete(j)
         \/ CancelWrite(j) \/ \E r \in Roles : PubRead(j, r)
  PROVE  StreamInv'
<1>0. /\ row \in [Jobs -> RowType] /\ pub \in [Jobs -> [Roles -> PubType]]
      /\ {"handler", "worker", "poller"} = Roles
      /\ {"created", "progress", "done", "failed"} \subseteq Types /\ IdlePub \in PubType
  BY RowsAreTyped DEF TypeOK, Roles, Types
<1>u. OnlyPublishers
  BY DEF Create, RunStart, Flush, Finish, FinishCancelled, CancelCheck, Delete, CancelWrite, PubRead
<1>v. UNCHANGED <<subs, buf, conn, view, misled, fetches>>
  BY <1>u DEF OnlyPublishers, hub, browsers
<1>1. CASE Create(j)
  <2>1. \A k \in Jobs \ {j} : row'[k] = row[k] /\ pub'[k] = pub[k]
    BY <1>0, <1>1 DEF Create, Reads
  <2>2. row'[j] = "queued"
    BY <1>0, <1>1 DEF Create
  <2> QED
    BY <1>v, <2>1, <2>2, OtherJobs, TerminalRows, SilentStep
<1>2. CASE RunStart(j)
  <2>1. \A k \in Jobs \ {j} : row'[k] = row[k] /\ pub'[k] = pub[k]
    BY <1>0, <1>2 DEF RunStart, Reads
  <2>2. row'[j] = "running"
    BY <1>0, <1>2 DEF RunStart
  <2> QED
    BY <1>v, <2>1, <2>2, OtherJobs, TerminalRows, SilentStep
<1>3. ASSUME NEW r \in Roles, Flush(j, r) PROVE StreamInv'
  <2>1. row' = row /\ \A k \in Jobs : EndPending(k) => EndPending(k)'
    BY <1>0, <1>3, ReadsKeepsPending DEF Flush
  <2> QED
    BY <1>v, <2>1, SilentStep
<1>4. CASE Finish(j)
  <2>1. PICK st \in {"done", "failed"} \cup IF stopping THEN {"interrupted"} ELSE {} :
          IF Exists(j)
          THEN row' = [row EXCEPT ![j] = st] /\ Reads(j, "worker", EventOf(st))
          ELSE UNCHANGED <<row, pub, events>>
    BY <1>4 DEF Finish
  <2>2. CASE Exists(j)
    <3>1. \A k \in Jobs : row'[k] = IF k = j THEN st ELSE row[k]
      BY <1>0, <2>1, <2>2
    <3>2. st \in {"done", "failed", "interrupted"} /\ EventOf(st) \in Types
          /\ (st \in {"done", "failed"} => EventOf(st) \in {"done", "failed"})
      BY <1>0, <2>1 DEF EventOf
    <3>3. pub[j]["worker"].pc = "idle"
      BY <1>4 DEF Finish
    <3>4. /\ \A k \in Jobs : EndPending(k) => EndPending(k)'
          /\ st \in {"done", "failed"} => EndPending(j)'
      BY <1>0, <2>1, <2>2, <3>2, <3>3, ReadsKeepsPending
    <3>5. ~Terminal(row'[j]) \/ EndPending(j)'
      BY <3>1, <3>2, <3>4, TerminalRows
    <3> QED
      BY <1>v, <3>1, <3>4, <3>5, SilentStep
  <2>3. CASE ~Exists(j)
    <3>1. row' = row /\ pub' = pub
      BY <2>1, <2>3
    <3> QED
      BY <1>v, <3>1, OtherJobs, SilentStep
  <2> QED
    BY <2>2, <2>3
<1>5. CASE FinishCancelled(j)
  <2>1. row' = row /\ pub' = pub
    BY <1>5 DEF FinishCancelled
  <2> QED
    BY <1>v, <2>1, OtherJobs, SilentStep
<1>6. CASE CancelCheck(j)
  <2>1. [pub[j]["handler"] EXCEPT !.pc = "write"] \in PubType /\ pub[j]["handler"].pc = "idle"
        /\ row' = row
    BY <1>0, <1>6 DEF CancelCheck, PubType
  <2>2. pub' = [pub EXCEPT ![j] = [pub[j] EXCEPT !["handler"] = [pub[j]["handler"] EXCEPT !.pc = "write"]]]
    BY <1>6 DEF CancelCheck
  <2>3. \A k \in Jobs : EndPending(k) => EndPending(k)'
    BY <1>0, <2>1, <2>2, OthersStillPending
  <2> QED
    BY <1>v, <2>1, <2>3, SilentStep
<1>7. CASE CancelWrite(j)
  <2>0. pub[j]["handler"].pc = "write"
    BY <1>7 DEF CancelWrite
  <2>1. CASE Exists(j)
    <3>1. Reads(j, "handler", "done") /\ \A k \in Jobs \ {j} : row'[k] = row[k]
      BY <1>0, <1>7, <2>1 DEF CancelWrite
    <3>2. (\A k \in Jobs : EndPending(k) => EndPending(k)') /\ EndPending(j)'
      BY <1>0, <2>0, <3>1, ReadsKeepsPending
    <3> QED
      BY <1>v, <3>1, <3>2, SilentStep
  <2>2. CASE ~Exists(j)
    <3>1. row' = row /\ pub' = [pub EXCEPT ![j] = [pub[j] EXCEPT !["handler"] = IdlePub]]
      BY <1>7, <2>2 DEF CancelWrite
    <3>2. \A k \in Jobs : EndPending(k) => EndPending(k)'
      BY <1>0, <2>0, <3>1, OthersStillPending
    <3> QED
      BY <1>v, <3>1, <3>2, SilentStep
  <2> QED
    BY <2>1, <2>2
<1>8. CASE Delete(j)
  <2>1. pub' = pub /\ row'[j] = NoRow /\ \A k \in Jobs \ {j} : row'[k] = row[k]
    BY <1>0, <1>8 DEF Delete
  <2> QED
    BY <1>v, <2>1, OtherJobs, TerminalRows, SilentStep
<1>9. ASSUME NEW r \in Roles, PubRead(j, r) PROVE StreamInv'
  <2>a. row' = row /\ pub[j][r].pc = "read"
    BY <1>9 DEF PubRead
  <2>0. row' = row /\ pub[j][r].pc = "read" /\ pub[j][r] \in PubType /\ row[j] \in RowType
    BY <1>0, <2>a
  <2>1. CASE Exists(j)
    <3>1. pub' = [pub EXCEPT ![j] = [pub[j] EXCEPT ![r] =
                    [pub[j][r] EXCEPT !.pc = "send", !.copy = row[j]]]]
      BY <1>9, <2>1 DEF PubRead
    <3>2. \A k \in Jobs, q \in Roles :
            /\ pub'[k][q].typ = pub[k][q].typ
            /\ pub[k][q].pc \in {"read", "send"} => pub'[k][q].pc \in {"read", "send"}
      BY <1>0, <2>0, <3>1 DEF PubType
    <3>3. \A k \in Jobs : EndPending(k) => EndPending(k)'
      BY <3>2 DEF EndPending
    <3> QED
      BY <1>v, <2>0, <3>3, SilentStep
  <2>2. CASE ~Exists(j)
    <3>1. ~Terminal(row'[j])
      BY <2>0, <2>2, TerminalRows DEF Exists
    <3>2. pub' = [pub EXCEPT ![j] = [pub[j] EXCEPT ![r] = IdlePub]]
      BY <1>9, <2>2 DEF PubRead
    <3>3. \A k \in Jobs \ {j} : pub'[k] = pub[k]
      BY <1>0, <3>2
    <3> QED
      BY <1>v, <2>0, <3>1, <3>3, OtherJobs, SilentStep
  <2> QED
    BY <2>1, <2>2
<1> QED
  BY <1>1, <1>2, <1>3, <1>4, <1>5, <1>6, <1>7, <1>8, <1>9

(* An event about another job leaves what is told of j as it was; one about j  *)
(* is the last one, and says whether it was out of date.                       *)
LEMMA AppendTold ==
  ASSUME NEW b \in Seq(EventType), NEW e \in EventType, NEW j \in Jobs
  PROVE  /\ e.job = j => /\ \A i \in 1..Len(Append(b, e)) : IsLast(Append(b, e), i, j) => Append(b, e)[i] = e
                         /\ ~Unmentioned(Append(b, e), j)
         /\ e.job # j => /\ \A i \in 1..Len(Append(b, e)) : IsLast(Append(b, e), i, j) =>
                                i \in 1..Len(b) /\ IsLast(b, i, j) /\ Append(b, e)[i] = b[i]
                         /\ Unmentioned(Append(b, e), j) => Unmentioned(b, j)
<1> DEFINE a == Append(b, e)
<1>1. /\ Len(b) \in Nat /\ Len(a) = Len(b) + 1 /\ a[Len(b) + 1] = e
      /\ \A i \in 1..Len(b) : a[i] = b[i]
  OBVIOUS
<1> HIDE DEF a
<1>2. \A i \in 1..Len(a) : i \in 1..Len(b) \/ i = Len(b) + 1
  BY <1>1
<1>3. 1..Len(b) \subseteq 1..Len(a) /\ Len(b) + 1 \in 1..Len(a)
  BY <1>1
<1>4. CASE e.job = j
  <2>1. \A i \in 1..Len(b) : Len(b) + 1 > i
    BY <1>1
  <2>2. \A i \in 1..Len(a) : IsLast(a, i, j) => i = Len(b) + 1
    BY <1>1, <1>2, <1>3, <1>4, <2>1 DEF IsLast
  <2>3. ~Unmentioned(a, j)
    BY <1>1, <1>3, <1>4 DEF Unmentioned
  <2> QED
    BY <1>1, <1>4, <2>2, <2>3 DEF a
<1>5. CASE e.job # j
  <2>1. \A i \in 1..Len(a) : IsLast(a, i, j) => i \in 1..Len(b) /\ IsLast(b, i, j)
    BY <1>1, <1>2, <1>3, <1>5 DEF IsLast
  <2>2. Unmentioned(a, j) => Unmentioned(b, j)
    BY <1>1, <1>3 DEF Unmentioned
  <2> QED
    BY <1>1, <1>5, <2>1, <2>2 DEF a
<1> QED
  BY <1>4, <1>5

LEMMA SendKeepsStreamInv ==
  ASSUME TypeOK, StreamInv, GivenStay, NEW j \in Jobs, NEW r \in Roles, PubSend(j, r)
  PROVE  StreamInv'
<1> DEFINE e == [job |-> j, copy |-> pub[j][r].copy, old |-> pub[j][r].copy # row[j]]
           typ == pub[j][r].typ
<1>1. /\ pub' = [pub EXCEPT ![j] = [pub[j] EXCEPT ![r] = IdlePub]]
      /\ UNCHANGED <<row, conn, view, misled, fetches>> /\ Publish(typ, e) /\ pub[j][r].pc = "send"
  BY DEF PubSend, browsers
<1>2. e \in EventType /\ typ = pub[j][r].typ
  BY <1>1 DEF TypeOK, PubType, EventType
<1>3. e.job = j /\ (e.old \/ e.copy = row[j])
  OBVIOUS
<1> HIDE DEF e, typ
<1>4. CASE Coalesced(typ, e.job)
  <2>1. UNCHANGED <<subs, buf>>
    BY <1>1, <1>4 DEF Publish, hub
  <2>2. \A k \in Jobs : EndPending(k) => EndPending(k)'
    BY <1>1, <1>2, <1>4, RowsAreTyped, OthersStillPending DEF Coalesced
  <2> QED
    BY <1>1, <2>1, <2>2, SilentStep
<1>5. CASE ~Coalesced(typ, e.job)
  <2>1. /\ subs' \subseteq subs
        /\ \A c \in Clients : c \in subs' => buf'[c] = Append(buf[c], e)
    BY <1>1, <1>5 DEF Publish
  <2> SUFFICES ASSUME NEW k \in Jobs, NEW c \in Clients, Terminal(row'[k]), c \in subs', ~EndPending(k)'
               PROVE  Told(k, c)'
    BY DEF StreamInv
  <2>2. buf[c] \in Seq(EventType) /\ buf'[c] = Append(buf[c], e) /\ c \in subs
    BY <2>1 DEF TypeOK
  <2>3. CASE k = j
    <3>1. \A i \in 1..Len(buf'[c]) : IsLast(buf'[c], i, j) => buf'[c][i] = e
      BY <1>2, <1>3, <2>2, AppendTold
    <3>2. ~Unmentioned(buf'[c], j)
      BY <1>2, <1>3, <2>2, AppendTold
    <3> QED
      BY <1>1, <1>3, <2>3, <3>1, <3>2 DEF Told
  <2>4. CASE k # j
    <3>1. pub'[k] = pub[k]
      BY <1>1, <2>4 DEF TypeOK
    <3>2. Told(k, c)
      BY <1>1, <2>2, <3>1, OtherJobs DEF StreamInv
    <3>3. \A i \in 1..Len(buf'[c]) : IsLast(buf'[c], i, k) =>
             i \in 1..Len(buf[c]) /\ IsLast(buf[c], i, k) /\ buf'[c][i] = buf[c][i]
      BY <1>2, <1>3, <2>2, <2>4, AppendTold
    <3>4. Unmentioned(buf'[c], k) => Unmentioned(buf[c], k)
      BY <1>2, <1>3, <2>2, <2>4, AppendTold
    <3>5. /\ ShownBy(view[c], k) => ShownBy(view[c], k)'
          /\ ShownBy(reply[c], k) => ShownBy(reply[c], k)'
      BY <1>1, StaysShown DEF ShownBy, fetches
    <3> QED
      BY <1>1, <3>2, <3>3, <3>4, <3>5 DEF Told, fetches
  <2> QED
    BY <2>3, <2>4
<1> QED
  BY <1>4, <1>5

(* An end that is lost leaves its mark on all that is under way. *)
LEMMA LostKeepsStreamInv ==
  ASSUME TypeOK, StreamInv, GivenStay, NEW j \in Jobs, NEW r \in Roles, PubFails(j, r)
  PROVE  StreamInv'
<1>1. /\ pub' = [pub EXCEPT ![j] = [pub[j] EXCEPT ![r] = IdlePub]]
      /\ UNCHANGED <<row, subs, conn, view, fetching, reply>>
  BY DEF PubFails
<1>2. CASE pub[j][r].typ \notin {"done", "failed"}
  <2>1. UNCHANGED <<buf, misled, late>>
    BY <1>2 DEF PubFails
  <2>2. \A k \in Jobs : EndPending(k) => EndPending(k)'
    BY <1>1, <1>2, RowsAreTyped, OthersStillPending
  <2> QED
    BY <1>1, <2>1, <2>2, SilentStep DEF fetches
<1>3. CASE pub[j][r].typ \in {"done", "failed"}
  <2>1. /\ buf' = [c \in Clients |-> IF c \in subs THEN Aged(buf[c], j) ELSE buf[c]]
        /\ misled' = [c \in Clients |-> IF c \in subs THEN [misled[c] EXCEPT ![j] = TRUE] ELSE misled[c]]
        /\ late' = [c \in Clients |-> IF c \in subs \cap fetching THEN [late[c] EXCEPT ![j] = TRUE] ELSE late[c]]
    BY <1>3 DEF PubFails
  <2> SUFFICES ASSUME NEW k \in Jobs, NEW c \in Clients, Terminal(row'[k]), c \in subs', ~EndPending(k)'
               PROVE  Told(k, c)'
    BY DEF StreamInv
  <2>2. buf[c] \in Seq(EventType) /\ buf'[c] = Aged(buf[c], j) /\ c \in subs
    BY <1>1, <2>1 DEF TypeOK
  <2>3. /\ Len(buf'[c]) = Len(buf[c])
        /\ \A i \in 1..Len(buf[c]) : /\ buf'[c][i].job = buf[c][i].job
                                     /\ buf[c][i].job = j => buf'[c][i].old
                                     /\ buf[c][i].job # j => buf'[c][i] = buf[c][i]
    BY <2>2, AgedEvents
  <2>4. CASE k = j
    <3>1. misled'[c][j] /\ (c \in fetching' => late'[c][j])
      BY <1>1, <2>1, <2>2 DEF TypeOK
    <3>2. \A i \in 1..Len(buf'[c]) : IsLast(buf'[c], i, j) => buf'[c][i].old
      BY <2>3 DEF IsLast
    <3> QED
      BY <2>4, <3>1, <3>2 DEF Told
  <2>5. CASE k # j
    <3>1. pub'[k] = pub[k]
      BY <1>1, <2>5 DEF TypeOK
    <3>2. Told(k, c)
      BY <1>1, <2>2, <3>1, OtherJobs DEF StreamInv
    <3>3. misled'[c][k] = misled[c][k] /\ late'[c][k] = late[c][k]
      BY <2>1, <2>5 DEF TypeOK
    <3>4. \A i \in 1..Len(buf'[c]) : IsLast(buf'[c], i, k) => IsLast(buf[c], i, k) /\ buf'[c][i] = buf[c][i]
      BY <2>3, <2>5 DEF IsLast
    <3>5. Unmentioned(buf'[c], k) => Unmentioned(buf[c], k)
      BY <2>3 DEF Unmentioned
    <3>6. /\ ShownBy(view[c], k) => ShownBy(view[c], k)'
          /\ ShownBy(reply[c], k) => ShownBy(reply[c], k)'
      BY <1>1, StaysShown DEF ShownBy
    <3> QED
      BY <1>1, <2>3, <3>2, <3>3, <3>4, <3>5, <3>6 DEF Told
  <2> QED
    BY <2>4, <2>5
<1> QED
  BY <1>2, <1>3

(* What is left after the first event has been folded into the cache. *)
LEMMA TailTold ==
  ASSUME NEW b \in Seq(EventType), b # <<>>, NEW j \in Jobs
  PROVE  /\ \A i \in 1..Len(Tail(b)) : IsLast(Tail(b), i, j) =>
               i + 1 \in 1..Len(b) /\ IsLast(b, i + 1, j) /\ Tail(b)[i] = b[i + 1]
         /\ Unmentioned(Tail(b), j) /\ Head(b).job = j => IsLast(b, 1, j) /\ 1 \in 1..Len(b)
         /\ Unmentioned(Tail(b), j) /\ Head(b).job # j => Unmentioned(b, j)
         /\ Head(b) = b[1]
<1> DEFINE t == Tail(b)
<1>1. /\ Len(b) \in Nat /\ Len(b) >= 1 /\ Len(t) = Len(b) - 1 /\ Head(b) = b[1]
      /\ \A i \in 1..Len(t) : t[i] = b[i + 1]
  OBVIOUS
<1> HIDE DEF t
<1>2. \A k \in 1..Len(b) : k > 1 => k - 1 \in 1..Len(t) /\ t[k - 1] = b[k]
  BY <1>1
<1>3. ASSUME NEW i \in 1..Len(t), IsLast(t, i, j)
      PROVE  i + 1 \in 1..Len(b) /\ IsLast(b, i + 1, j) /\ t[i] = b[i + 1]
  <2>1. i + 1 \in 1..Len(b) /\ t[i] = b[i + 1]
    BY <1>1
  <2>2. ASSUME NEW k \in 1..Len(b), k > i + 1 PROVE b[k].job # j
    <3>1. k - 1 \in 1..Len(t) /\ k - 1 > i /\ t[k - 1] = b[k]
      BY <1>1, <1>2, <2>2
    <3> QED
      BY <1>3, <3>1 DEF IsLast
  <2> QED
    BY <1>3, <2>1, <2>2 DEF IsLast
<1>4. ASSUME Unmentioned(t, j) PROVE \A k \in 1..Len(b) : k > 1 => b[k].job # j
  BY <1>2, <1>4 DEF Unmentioned
<1>5. Unmentioned(t, j) /\ Head(b).job = j => IsLast(b, 1, j) /\ 1 \in 1..Len(b)
  BY <1>1, <1>4 DEF IsLast
<1>6. Unmentioned(t, j) /\ Head(b).job # j => Unmentioned(b, j)
  BY <1>1, <1>4 DEF Unmentioned
<1> QED
  BY <1>1, <1>3, <1>5, <1>6 DEF t

LEMMA ClientKeepsStreamInv ==
  ASSUME TypeOK, RowsAreGiven, StreamInv, NEW c \in Clients,
         \/ Open(c) \/ Snapshot(c) \/ Deliver(c) \/ HandlerEnds(c) \/ Disconnect(c)
         \/ Fetch(c) \/ Fetched(c) \/ FetchFails(c) \/ CacheDropped(c)
  PROVE  StreamInv'
<1>0. UNCHANGED publishers
  BY DEF Open, Snapshot, Deliver, HandlerEnds, Disconnect, Fetch, Fetched, FetchFails, FetchOver, CacheDropped,
         OnlyBrowsers, OnlyCache
<1>p. UNCHANGED <<row, pub, run, others>>
  BY <1>0 DEF publishers
<1> SUFFICES ASSUME NEW j \in Jobs, NEW d \in Clients, Terminal(row'[j]), d \in subs', ~EndPending(j)'
             PROVE  Told(j, d)'
  BY DEF StreamInv
<1>e. Terminal(row[j]) /\ ~EndPending(j)
  BY <1>p DEF EndPending
<1>s. ASSUME NEW v, ShownBy(v, j) PROVE v[j] = row'[j] \/ (v[j] = NoRow /\ PastLimit(j)')
  BY <1>p, <1>s DEF ShownBy, PastLimit, Given
<1>l. ShownBy(Listed, j)
  BY ListedIsShown
<1>1. CASE d # c
  <2>1. /\ d \in subs /\ buf'[d] = buf[d] /\ conn'[d] = conn[d]
        /\ view'[d] = view[d] /\ misled'[d] = misled[d]
        /\ reply'[d] = reply[d] /\ late'[d] = late[d] /\ (d \in fetching' <=> d \in fetching)
    BY <1>1 DEF Open, Snapshot, Deliver, HandlerEnds, Disconnect, Fetch, Fetched, FetchFails, FetchOver, CacheDropped,
                OnlyBrowsers, OnlyCache, fetches, hub, TypeOK
  <2>2. Told(j, d)
    BY <1>e, <2>1 DEF StreamInv
  <2>3. /\ ShownBy(view[d], j) => ShownBy(view[d], j)'
        /\ ShownBy(reply[d], j) => ShownBy(reply[d], j)'
    BY <1>s, <2>1 DEF ShownBy
  <2> QED
    BY <1>p, <2>1, <2>2, <2>3 DEF Told
<1>2. CASE d = c /\ Open(c)
  <2>1. conn'[c] = "open" /\ buf'[c] = <<>>
    BY <1>2 DEF Open, TypeOK
  <2> QED
    BY <1>2, <2>1 DEF Told
<1>3. CASE d = c /\ Snapshot(c)
  <2>1. /\ c \in subs /\ buf'[c] = buf[c] /\ view'[c] = Listed
        /\ (c \in fetching' => late'[c][j])
    BY <1>3 DEF Snapshot, OnlyBrowsers, TypeOK
  <2>2. Told(j, c)
    BY <1>e, <2>1 DEF StreamInv
  <2>3. ShownBy(view[c], j)'
    BY <1>s, <1>l, <2>1 DEF ShownBy
  <2> QED
    BY <1>3, <1>p, <2>1, <2>2, <2>3 DEF Told
<1>4. CASE d = c /\ Deliver(c)
  <2> DEFINE b == buf[c]
  <2>1. /\ b \in Seq(EventType) /\ b # <<>> /\ buf'[c] = Tail(b)
        /\ c \in subs /\ conn[c] = "stream"
    BY <1>4 DEF Deliver, TypeOK
  <2>2. /\ view' = [view EXCEPT ![c] = [view[c] EXCEPT ![Head(b).job] = Head(b).copy]]
        /\ misled' = [misled EXCEPT ![c] = [misled[c] EXCEPT ![Head(b).job] = Head(b).old]]
        /\ late' = [late EXCEPT ![c] = [late[c] EXCEPT ![Head(b).job] = (c \in fetching)]]
        /\ UNCHANGED <<fetching, reply>>
    BY <1>4 DEF Deliver
  <2>3. /\ view'[c][j] = IF j = Head(b).job THEN Head(b).copy ELSE view[c][j]
        /\ misled'[c][j] = IF j = Head(b).job THEN Head(b).old ELSE misled[c][j]
        /\ late'[c][j] = IF j = Head(b).job THEN c \in fetching ELSE late[c][j]
        /\ reply'[c] = reply[c] /\ (c \in fetching' <=> c \in fetching)
    BY <2>2 DEF TypeOK
  <2>4. Told(j, c)
    BY <1>e, <2>1 DEF StreamInv
  <2> HIDE DEF b
  <2>5. \A i \in 1..Len(Tail(b)) : IsLast(Tail(b), i, j) => Tail(b)[i].old \/ Tail(b)[i].copy = row[j]
    BY <2>1, <2>4, TailTold DEF Told, b
  <2>6. ASSUME Unmentioned(Tail(b), j)
        PROVE  /\ misled'[c][j] \/ ShownBy(view[c], j)'
               /\ c \in fetching' => late'[c][j] \/ ShownBy(reply[c], j)'
    <3>1. CASE Head(b).job = j
      <4>1. misled'[c][j] \/ view'[c][j] = row[j]
        BY <2>1, <2>3, <2>4, <2>6, <3>1, TailTold DEF Told, b
      <4> QED
        BY <1>p, <2>3, <3>1, <4>1 DEF ShownBy
    <3>2. CASE Head(b).job # j
      <4>1. Unmentioned(b, j)
        BY <2>1, <2>6, <3>2, TailTold
      <4>2. /\ misled[c][j] \/ ShownBy(view[c], j)
            /\ c \in fetching => late[c][j] \/ ShownBy(reply[c], j)
        BY <2>1, <2>4, <4>1 DEF Told, b
      <4>3. /\ ShownBy(view[c], j) => ShownBy(view[c], j)'
            /\ ShownBy(reply[c], j) => ShownBy(reply[c], j)'
        BY <1>s, <2>3, <3>2 DEF ShownBy
      <4> QED
        BY <2>3, <3>2, <4>2, <4>3
    <3> QED
      BY <3>1, <3>2
  <2> QED
    BY <1>p, <1>4, <2>1, <2>5, <2>6 DEF Told
<1>5. CASE d = c /\ HandlerEnds(c)
  BY <1>5 DEF HandlerEnds, OnlyBrowsers
<1>6. CASE d = c /\ Disconnect(c)
  BY <1>6 DEF Disconnect
<1>7. CASE d = c /\ (Fetch(c) \/ Fetched(c) \/ FetchFails(c) \/ CacheDropped(c))
  <2>1. c \in subs /\ buf'[c] = buf[c] /\ conn'[c] = conn[c]
    BY <1>7 DEF Fetch, Fetched, FetchFails, FetchOver, CacheDropped, OnlyCache, hub
  <2>2. Told(j, c)
    BY <1>e, <2>1 DEF StreamInv
  <2>3. ASSUME conn[c] = "stream", Unmentioned(buf[c], j)
        PROVE  /\ misled'[c][j] \/ ShownBy(view[c], j)'
               /\ c \in fetching' => late'[c][j] \/ ShownBy(reply[c], j)'
    <3>1. /\ misled[c][j] \/ ShownBy(view[c], j)
          /\ c \in fetching => late[c][j] \/ ShownBy(reply[c], j)
      BY <2>2, <2>3 DEF Told
    <3>2. CASE Fetch(c)
      <4>1. view'[c] = view[c] /\ misled'[c] = misled[c] /\ reply'[c] = Listed
        BY <3>2 DEF Fetch, TypeOK
      <4> QED
        BY <1>s, <1>l, <3>1, <4>1 DEF ShownBy
    <3>3. CASE Fetched(c)
      <4>1. c \in fetching /\ c \notin fetching' /\ view'[c] = reply[c] /\ misled'[c] = late[c]
        BY <3>3 DEF Fetched, FetchOver, TypeOK
      <4> QED
        BY <1>s, <3>1, <4>1 DEF ShownBy
    <3>4. CASE FetchFails(c)
      <4>1. c \notin fetching' /\ view'[c] = view[c] /\ misled'[c] = misled[c]
        BY <3>4 DEF FetchFails, FetchOver
      <4> QED
        BY <1>s, <3>1, <4>1 DEF ShownBy
    <3>5. CASE CacheDropped(c)
      <4>1. misled'[c][j] /\ c \notin fetching'
        BY <3>5 DEF CacheDropped, fetches, TypeOK
      <4> QED
        BY <4>1
    <3> QED
      BY <1>7, <3>2, <3>3, <3>4, <3>5
  <2> QED
    BY <1>7, <1>p, <2>1, <2>2, <2>3 DEF Told
<1> QED
  BY <1>1, <1>2, <1>3, <1>4, <1>5, <1>6, <1>7

LEMMA NextStreamInv == TypeOK /\ RowsAreGiven /\ StreamInv /\ [Next]_vars => StreamInv'
<1> SUFFICES ASSUME TypeOK, RowsAreGiven, StreamInv, [Next]_vars PROVE StreamInv'
  OBVIOUS
<1>g. GivenStay
  BY IdsStayGiven
<1>u. ASSUME UNCHANGED <<row, pub, subs, buf, conn, view, misled, fetches>> PROVE StreamInv'
  BY <1>g, <1>u, OtherJobs, SilentStep
<1>1. ASSUME NEW j \in Jobs, SecondPasses(j) PROVE StreamInv'
  BY <1>1, <1>u DEF SecondPasses, publishers, browsers
<1>2. CASE Stop
  BY <1>2, <1>u DEF Stop, hub, browsers
<1>3. CASE Restart
  BY <1>3 DEF Restart, StreamInv
<1>4. ASSUME NEW o \in Others, OtherJob(o) PROVE StreamInv'
  BY <1>4, <1>u DEF OtherJob, hub, browsers
<1>5. CASE UNCHANGED vars
  BY <1>5, <1>u DEF vars, publishers, hub, browsers
<1> QED
  BY <1>g, <1>1, <1>2, <1>3, <1>4, <1>5, PublisherKeepsStreamInv, SendKeepsStreamInv, LostKeepsStreamInv,
     ClientKeepsStreamInv DEF Next, Goroutine

(* However slow a browser, whenever it connects and whatever it fetches: one   *)
(* that has read all it was sent shows a finished job as the table has it, or  *)
(* not at all once as many newer jobs were created as a list holds.  Excepted  *)
(* are a copy that was out of date when it was sent, a list that came in after *)
(* a frame that overtook it, a job whose last event publish could not read the *)
(* row for, and a cache that was dropped and has not heard of the job since.   *)
THEOREM EndedIsShownHolds == Spec => []EndedIsShown
<1>1. Init => TypeOK /\ RowsAreGiven /\ StreamInv
  BY InitTypeOK, InitRowsAreGiven, InitStreamInv
<1>2. TypeOK /\ RowsAreGiven /\ StreamInv /\ [Next]_vars => (TypeOK /\ RowsAreGiven /\ StreamInv)'
  BY NextTypeOK, NextRowsAreGiven, NextStreamInv
<1>3. TypeOK /\ StreamInv => EndedIsShown
  <2> SUFFICES ASSUME TypeOK, StreamInv, NEW j \in Jobs, NEW c \in Clients,
                      Terminal(row[j]), Quiet(j), Drained(c), ~misled[c][j]
               PROVE  view[c][j] = row[j] \/ (view[c][j] = NoRow /\ PastLimit(j))
    BY DEF EndedIsShown
  <2>1. ~EndPending(j)
    BY DEF Quiet, EndPending
  <2>2. Told(j, c)
    BY <2>1 DEF StreamInv, Drained
  <2> QED
    BY <2>2 DEF Drained, Told, Unmentioned, ShownBy
<1> QED
  BY <1>1, <1>2, <1>3, PTL DEF Spec
=============================================================================
