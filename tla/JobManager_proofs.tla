-------------------------- MODULE JobManager_proofs --------------------------
(***************************************************************************)
(* Proofs about JobManager, for every value of its constants.              *)
(***************************************************************************)
EXTENDS JobManager, FiniteSetTheorems, TLAPS

(* The jobs registered are finitely many, so that they can be counted. *)
LEMMA SubsetsOfJobs ==
    ASSUME NEW S \in SUBSET Jobs
    PROVE  IsFiniteSet(S) /\ Cardinality(S) \in Nat
<1>1. IsFiniteSet(Jobs)
  BY MaxJobsAssumption, FS_Interval DEF Jobs
<1> QED
  BY <1>1, FS_Subset, FS_CardinalityType

LEMMA RegisteredType == Registered \in SUBSET Jobs /\ Cardinality(Registered) \in Nat
  BY SubsetsOfJobs DEF Registered

-----------------------------------------------------------------------------
(* Type correctness. *)

LEMMA IdleTypes ==
    IdleSched \in SchedType /\ IdleWorker \in WorkerType /\ IdleReq \in RequestType
  BY DEF IdleSched, IdleWorker, IdleReq, SchedType, WorkerType, RequestType, NoJob

LEMMA ResumeType == ASSUME TypeOK, NEW W \in SUBSET Jobs PROVE Resume(W) \in SchedType
  BY DEF Resume, TypeOK, WorkersOK, RequestsOK, SchedType, NoJob

LEMMA GoesType ==
    ASSUME TypeOK, NEW w \in Workers, NEW pc \in {"transfer", "reread", "branch", "finish", "cleanup"},
           NEW st \in {"none", "done", "failed", "interrupted"}, pc = "finish" => st # "none",
           Goes(w, pc, st)
    PROVE  WorkersOK'
<1>1. wrk' \in [Workers -> WorkerType]
  <2>1. wrk \in [Workers -> WorkerType]
    BY DEF TypeOK, WorkersOK
  <2>2. [[wrk[w] EXCEPT !.pc = pc] EXCEPT !.st = st] \in WorkerType
    BY <2>1 DEF WorkerType
  <2>3. wrk' = [wrk EXCEPT ![w] = [[wrk[w] EXCEPT !.pc = pc] EXCEPT !.st = st]]
    BY <2>1 DEF Goes
  <2> QED
    BY <2>1, <2>2, <2>3
<1>2. ASSUME NEW v \in Workers PROVE wrk'[v].pc = "finish" => wrk'[v].st # "none"
  <2>1. CASE v = w
    BY <2>1 DEF Goes, TypeOK, WorkersOK, RequestsOK, WorkerType
  <2>2. CASE v # w
    BY <2>2 DEF Goes, TypeOK, WorkersOK, RequestsOK
  <2> QED
    BY <2>1, <2>2
<1> QED
  BY <1>1, <1>2 DEF WorkersOK

LEMMA FaultType == ASSUME TypeOK, Fault PROVE faults' \in 0..MaxFaults
  BY BoundsAssumption DEF Fault, TypeOK, WorkersOK, RequestsOK

LEMMA WithoutType ==
    ASSUME TypeOK, NEW S PROVE Without(S) \in [Jobs -> AllStatuses \cup {NoRow}]
  BY DEF Without, TypeOK, WorkersOK, RequestsOK

LEMMA InitTypeOK == Init => TypeOK
<1> SUFFICES ASSUME Init PROVE TypeOK
  OBVIOUS
<1>1. nextId \in 1..MaxJobs + 1
  BY MaxJobsAssumption DEF Init
<1>2. downs \in 0..MaxDowns /\ faults \in 0..MaxFaults
  BY BoundsAssumption DEF Init
<1> QED
  BY <1>1, <1>2, IdleTypes DEF Init, TypeOK, WorkersOK, RequestsOK, IdleWorker, IdleReq

LEMMA ProcessTypeOK == TypeOK /\ Process => TypeOK'
<1> SUFFICES ASSUME TypeOK, Process PROVE TypeOK'
  OBVIOUS
<1>1. CASE Start
  BY <1>1 DEF Start, Recovered, AllStatuses, TypeOK, WorkersOK, RequestsOK
<1>2. CASE Signal
  BY <1>2, BoundsAssumption DEF Signal, TypeOK, WorkersOK, RequestsOK
<1>3. CASE StopBegin
  <2>1. {running[j] : j \in Registered} \subseteq Workers
    BY DEF Registered, TypeOK, WorkersOK, RequestsOK
  <2>2. downs' \in 0..MaxDowns
    BY <1>3, BoundsAssumption DEF StopBegin, TypeOK, WorkersOK, RequestsOK
  <2> QED
    BY <1>3, <2>1, <2>2 DEF StopBegin, TypeOK, WorkersOK, RequestsOK
<1>4. CASE StopCancel
  <2>1. \A w \in Workers : [wrk[w] EXCEPT !.ctx = TRUE] \in WorkerType
    BY DEF TypeOK, WorkersOK, RequestsOK, WorkerType
  <2> QED
    BY <1>4, <2>1 DEF StopCancel, TypeOK, WorkersOK, RequestsOK
<1>5. ASSUME LoseMemory, downs' \in 0..MaxDowns PROVE TypeOK'
  BY <1>5, IdleTypes DEF LoseMemory, TypeOK, WorkersOK, RequestsOK, IdleWorker, IdleReq
<1>6. CASE Exit
  BY <1>5, <1>6 DEF Exit, TypeOK, WorkersOK, RequestsOK
<1>7. CASE Crash
  BY <1>5, <1>7, BoundsAssumption DEF Crash, TypeOK, WorkersOK, RequestsOK
<1> QED
  BY <1>1, <1>2, <1>3, <1>4, <1>6, <1>7 DEF Process

LEMMA SchedTypeOK == TypeOK /\ (SchedStep \/ SchedReadFails \/ Purge) => TypeOK'
<1> SUFFICES ASSUME TypeOK, SchedStep \/ SchedReadFails \/ Purge PROVE TypeOK'
  OBVIOUS
<1>1. CASE SchedTick
  <2>1. sched' \in SchedType
    BY <1>1, LimitsAssumption DEF SchedTick, IdleSched, SchedType, TypeOK, WorkersOK, RequestsOK, NoJob
  <2> QED
    BY <1>1, <2>1 DEF SchedTick, TypeOK, WorkersOK, RequestsOK
<1>2. CASE SchedCount
  <2>1. sched' \in SchedType
    <3> DEFINE free == sched.conc - Cardinality(Registered)
    <3>1. sched.conc \in Nat
      BY DEF TypeOK, SchedType
    <3>2. CASE free <= 0 \/ Stopping
      BY <1>2, <3>2, IdleTypes DEF SchedCount
    <3>3. CASE ~(free <= 0 \/ Stopping)
      <4>1. free \in Nat
        BY <3>1, <3>3, RegisteredType
      <4>2. sched' = [sched EXCEPT !.pc = "query", !.free = free]
        BY <1>2, <3>3 DEF SchedCount
      <4> HIDE DEF free
      <4> QED
        BY <4>1, <4>2 DEF TypeOK, SchedType
    <3> QED
      BY <3>2, <3>3
  <2> QED
    BY <1>2, <2>1 DEF SchedCount, TypeOK, WorkersOK, RequestsOK
<1>3. CASE SchedQuery
  <2>1. sched' \in SchedType
    <3>1. Oldest({j \in Jobs : Runnable(status[j])}, sched.free) \in SUBSET Jobs
      BY DEF Oldest
    <3> QED
      BY <1>3, <3>1, ResumeType, IdleTypes DEF SchedQuery
  <2> QED
    BY <1>3, <2>1 DEF SchedQuery, TypeOK, WorkersOK, RequestsOK
<1>4. CASE SchedReadFails
  BY <1>4, IdleTypes, FaultType DEF SchedReadFails, TypeOK, WorkersOK, RequestsOK
<1>5. CASE SchedMark
  <2>1. sched' \in SchedType
    <3>1. PICK j \in Jobs :
             sched' = [sched EXCEPT !.pc = "register", !.cur = j, !.waiting = @ \ {j}]
      BY <1>5 DEF SchedMark
    <3> QED
      BY <3>1 DEF SchedType, TypeOK
  <2> QED
    BY <1>5, <2>1 DEF SchedMark, TypeOK, WorkersOK, RequestsOK, AllStatuses
<1>6. CASE SchedMarkFails
  <2>1. sched' \in SchedType
    <3>1. \A j : sched.waiting \ {j} \in SUBSET Jobs
      BY DEF TypeOK, WorkersOK, RequestsOK, SchedType
    <3> QED
      BY <1>6, <3>1, ResumeType DEF SchedMarkFails
  <2>2. faults' \in 0..MaxFaults
    BY <1>6, FaultType DEF SchedMarkFails, TypeOK, WorkersOK, RequestsOK
  <2> QED
    BY <1>6, <2>1, <2>2 DEF SchedMarkFails, TypeOK, WorkersOK, RequestsOK
<1>7. CASE SchedRegister
  <2>1. sched.waiting \in SUBSET Jobs /\ sched.cur \in Jobs \cup {NoJob}
    BY DEF TypeOK, WorkersOK, RequestsOK, SchedType
  <2>2. [IdleWorker EXCEPT !.pc = "setup", !.job = sched.cur] \in WorkerType
    BY <2>1 DEF IdleWorker, WorkerType
  <2> QED
    <3>1. WorkersOK'
      BY <1>7, <2>2 DEF SchedRegister, TypeOK, WorkersOK, RequestsOK, IdleWorker
    <3>2. running' \in [Jobs -> Workers \cup {NoWorker}]
      BY <1>7 DEF SchedRegister, TypeOK
    <3>3. sched' \in SchedType
      BY <1>7, <2>1, ResumeType DEF SchedRegister
    <3> QED
      BY <1>7, <3>1, <3>2, <3>3 DEF SchedRegister, TypeOK, RequestsOK
<1>8. CASE SchedRefuse
  BY <1>8, IdleTypes DEF SchedRefuse, TypeOK, WorkersOK, RequestsOK
<1>9. CASE LoopExit
  <2>1. sched' \in SchedType
    BY <1>9 DEF LoopExit, IdleSched, SchedType, NoJob
  <2> QED
    BY <1>9, <2>1 DEF LoopExit, TypeOK, WorkersOK, RequestsOK
<1>10. CASE Purge
  BY <1>10, WithoutType DEF Purge, TypeOK, WorkersOK, RequestsOK
<1> QED
  BY <1>1, <1>2, <1>3, <1>4, <1>5, <1>6, <1>7, <1>8, <1>9, <1>10 DEF SchedStep

LEMMA RunTypeOK == ASSUME TypeOK, NEW w \in Workers, RunStep(w) PROVE TypeOK'
<1>1. CASE RunSetup(w)
  BY <1>1, GoesType DEF RunSetup, OnlyWorker, TypeOK, WorkersOK, RequestsOK
<1>2. CASE RunSetupFails(w)
  BY <1>2, GoesType DEF RunSetupFails, OnlyWorker, TypeOK, WorkersOK, RequestsOK
<1>3. CASE TransferExits(w)
  BY <1>3, GoesType DEF TransferExits, OnlyWorker, TypeOK, WorkersOK, RequestsOK
<1>4. CASE TransferFails(w) \/ TransferAborts(w)
  BY <1>4, GoesType DEF TransferFails, TransferAborts, OnlyWorker, TypeOK, WorkersOK, RequestsOK
<1>5. CASE RunReread(w)
  BY <1>5, GoesType DEF RunReread, OnlyWorker, TypeOK, WorkersOK, RequestsOK
<1>6. CASE RunRereadFails(w)
  BY <1>6, GoesType, FaultType DEF RunRereadFails, OnlyWorker, TypeOK, WorkersOK, RequestsOK
<1>7. CASE RunBranch(w)
  BY <1>7, GoesType DEF RunBranch, OnlyWorker, TypeOK, WorkersOK, RequestsOK
<1>8. CASE RunFinish(w)
  <2>1. wrk[w].st \in AllStatuses
    BY <1>8 DEF RunFinish, TypeOK, WorkersOK, RequestsOK, WorkerType, AllStatuses
  <2>2. status' \in [Jobs -> AllStatuses \cup {NoRow}]
    BY <1>8, <2>1 DEF RunFinish, TypeOK, WorkersOK, RequestsOK
  <2> QED
    BY <1>8, <2>2, GoesType DEF RunFinish, OnlyWorker, TypeOK, WorkersOK, RequestsOK
<1>9. CASE RunFinishFails(w)
  BY <1>9, GoesType, FaultType DEF RunFinishFails, OnlyWorker, TypeOK, WorkersOK, RequestsOK
<1>10. CASE RunReturn(w)
  <2>1. \A r \in Requests : [req[r] EXCEPT !.fn = NoWorker] \in RequestType
    BY DEF TypeOK, WorkersOK, RequestsOK, RequestType
  <2> QED
    <3>1. WorkersOK'
      BY <1>10, IdleTypes DEF RunReturn, TypeOK, WorkersOK, RequestsOK, IdleWorker
    <3>2. running' \in [Jobs -> Workers \cup {NoWorker}]
      BY <1>10 DEF RunReturn, TypeOK
    <3>3. RequestsOK'
      BY <1>10, <2>1 DEF RunReturn, TypeOK, RequestsOK, RequestType
    <3> QED
      BY <1>10, <3>1, <3>2, <3>3 DEF RunReturn, TypeOK
<1> QED
  BY <1>1, <1>2, <1>3, <1>4, <1>5, <1>6, <1>7, <1>8, <1>9, <1>10 DEF RunStep

LEMMA ClientTypeOK == TypeOK /\ Client => TypeOK'
<1> SUFFICES ASSUME TypeOK, Client PROVE TypeOK'
  OBVIOUS
<1>1. CASE CreateJob
  BY <1>1, MaxJobsAssumption DEF CreateJob, OnlyRequests, Jobs, AllStatuses, TypeOK, WorkersOK, RequestsOK
<1>2. CASE DeleteServer
  BY <1>2, WithoutType DEF DeleteServer, OnlyRequests, TypeOK, WorkersOK, RequestsOK
<1>3. CASE PutSettings
  BY <1>3 DEF PutSettings, TypeOK, WorkersOK, RequestsOK
<1> QED
  BY <1>1, <1>2, <1>3 DEF Client

LEMMA RequestTypeOK ==
    ASSUME TypeOK, NEW r \in Requests, ReqCheck(r) \/ ReqStep(r) \/ ReqFails(r)
    PROVE  TypeOK'
<1>1. ASSUME Returns(r) PROVE RequestsOK'
  BY <1>1, IdleTypes DEF Returns, TypeOK, RequestsOK, IdleReq
<1>2. CASE ReqCheck(r)
  <2>1. PICK op \in Ops, j \in Rows :
           req' = [req EXCEPT ![r] = [IdleReq EXCEPT !.pc = "checked", !.op = op, !.job = j]]
    BY <1>2 DEF ReqCheck
  <2>2. /\ [IdleReq EXCEPT !.pc = "checked", !.op = op, !.job = j] \in RequestType
        /\ [IdleReq EXCEPT !.pc = "checked", !.op = op, !.job = j].job \in Jobs
    BY <2>1, OpsAssumption DEF Rows, IdleReq, RequestType
  <2>3. RequestsOK'
    BY <2>1, <2>2 DEF TypeOK, RequestsOK
  <2> QED
    BY <1>2, <2>3 DEF ReqCheck, OnlyRequests, TypeOK, WorkersOK
<1>3. CASE CancelWrite(r)
  <2>1. /\ [req[r] EXCEPT !.pc = "lookup"] \in RequestType
        /\ [req[r] EXCEPT !.pc = "lookup"].job = req[r].job
    BY DEF TypeOK, RequestsOK, RequestType
  <2>2. CASE req[r].job \in Rows
    <3>1. req' = [req EXCEPT ![r] = [req[r] EXCEPT !.pc = "lookup"]]
      BY <1>3, <2>2 DEF CancelWrite, TypeOK, RequestsOK
    <3>2. RequestsOK'
      BY <2>1, <2>2, <3>1 DEF TypeOK, RequestsOK, Rows
    <3>3. status' \in [Jobs -> AllStatuses \cup {NoRow}]
      BY <1>3, <2>2 DEF CancelWrite, AllStatuses, TypeOK
    <3> QED
      BY <1>3, <3>2, <3>3 DEF CancelWrite, OnlyRequests, TypeOK, WorkersOK
  <2>3. CASE req[r].job \notin Rows
    BY <1>1, <1>3, <2>3 DEF CancelWrite, OnlyRequests, TypeOK, WorkersOK
  <2> QED
    BY <2>2, <2>3
<1>4. CASE CancelLookup(r)
  <2> DEFINE w == running[req[r].job]
  <2>1. req[r].job \in Jobs /\ w \in Workers \cup {NoWorker}
    BY <1>4 DEF CancelLookup, TypeOK, RequestsOK
  <2>2. CASE w = NoWorker
    BY <1>1, <1>4, <2>2 DEF CancelLookup, OnlyRequests, TypeOK, WorkersOK
  <2>3. CASE w # NoWorker
    <3> DEFINE n == [req[r] EXCEPT !.pc = "fire", !.fn = w]
    <3>1. req' = [req EXCEPT ![r] = n]
      BY <1>4, <2>3 DEF CancelLookup, TypeOK, RequestsOK
    <3>2. req[r] \in RequestType
      BY DEF TypeOK, RequestsOK
    <3> HIDE DEF w
    <3>3. n \in RequestType /\ n.job = req[r].job
      BY <2>1, <3>2 DEF RequestType
    <3> HIDE DEF n
    <3>4. RequestsOK'
      BY <2>1, <3>1, <3>3 DEF TypeOK, RequestsOK, w
    <3> QED
      BY <1>4, <3>4 DEF CancelLookup, OnlyRequests, TypeOK, WorkersOK
  <2> QED
    BY <2>2, <2>3
<1>5. CASE CancelFire(r)
  <2>1. \A w \in Workers : [wrk[w] EXCEPT !.ctx = TRUE] \in WorkerType
    BY DEF TypeOK, WorkersOK, WorkerType
  <2>2. WorkersOK'
    BY <1>5, <2>1 DEF CancelFire, TypeOK, WorkersOK, WorkerType
  <2> QED
    BY <1>1, <1>5, <2>2 DEF CancelFire, OnlyRequests, TypeOK
<1>6. CASE DeleteRow(r)
  BY <1>1, <1>6, WithoutType DEF DeleteRow, OnlyRequests, TypeOK, WorkersOK
<1>7. CASE RetryInsert(r)
  <2>1. status' \in [Jobs -> AllStatuses \cup {NoRow}] /\ nextId' \in 1..MaxJobs + 1
    BY <1>7, MaxJobsAssumption DEF RetryInsert, Jobs, AllStatuses, TypeOK
  <2> QED
    BY <1>1, <1>7, <2>1 DEF RetryInsert, OnlyRequests, TypeOK, WorkersOK
<1>8. CASE ReqFails(r)
  BY <1>1, <1>8, FaultType DEF ReqFails, OnlyRequests, TypeOK, WorkersOK, RequestsOK
<1> QED
  BY <1>2, <1>3, <1>4, <1>5, <1>6, <1>7, <1>8 DEF ReqStep

LEMMA NextTypeOK == TypeOK /\ [Next]_vars => TypeOK'
<1>1. TypeOK /\ UNCHANGED vars => TypeOK'
  BY DEF TypeOK, WorkersOK, RequestsOK, vars
<1> QED
  BY <1>1, ProcessTypeOK, SchedTypeOK, RunTypeOK, ClientTypeOK, RequestTypeOK DEF Next

(* The variables of the job manager keep their types. *)
THEOREM TypeCorrect == Spec => []TypeOK
  BY InitTypeOK, NextTypeOK, PTL DEF Spec

-----------------------------------------------------------------------------
(* Concurrency: SlotInv is inductive. *)

(* RunnableJobs returns no more rows than it was asked for. *)
LEMMA OldestCardinality ==
    ASSUME NEW S \in SUBSET Jobs, NEW n \in Nat
    PROVE  Oldest(S, n) \in SUBSET S /\ Cardinality(Oldest(S, n)) <= n
<1> DEFINE older(j) == {i \in S : i < j}
           rank == [j \in Oldest(S, n) |-> Cardinality(older(j))]
<1>1. Oldest(S, n) \in SUBSET S
  BY DEF Oldest
<1>2. \A j \in Jobs : older(j) \in SUBSET Jobs /\ IsFiniteSet(older(j)) /\ Cardinality(older(j)) \in Nat
  BY SubsetsOfJobs
<1>3. rank \in [Oldest(S, n) -> 0..n - 1]
  <2> SUFFICES ASSUME NEW j \in Oldest(S, n) PROVE Cardinality(older(j)) \in 0..n - 1
    OBVIOUS
  <2>1. Cardinality(older(j)) < n
    BY DEF Oldest
  <2>2. Cardinality(older(j)) \in Nat
    BY <1>1, <1>2
  <2> HIDE DEF older
  <2> QED
    BY <2>1, <2>2
<1>4. ASSUME NEW i \in Oldest(S, n), NEW j \in Oldest(S, n), i < j
      PROVE  Cardinality(older(i)) < Cardinality(older(j))
  <2>1. i \in Jobs /\ j \in Jobs /\ i \in S
    BY <1>1
  <2>2. older(i) \in SUBSET older(j) /\ i \in older(j) /\ i \notin older(i)
    <3>1. \A x \in S : x \in Int
      BY MaxJobsAssumption DEF Jobs
    <3>2. i \in Int /\ j \in Int
      BY <2>1, MaxJobsAssumption DEF Jobs
    <3>3. \A x \in S : x < i => x < j
      BY <1>4, <3>1, <3>2
    <3>4. ~(i < i)
      BY <3>2
    <3> QED
      BY <1>4, <2>1, <3>3, <3>4
  <2>3. /\ Cardinality(older(i)) <= Cardinality(older(j))
        /\ Cardinality(older(i)) # Cardinality(older(j))
    <3> HIDE DEF older
    <3> QED
      BY <1>2, <2>1, <2>2, FS_Subset
  <2> HIDE DEF older
  <2> QED
    BY <1>2, <2>1, <2>3
<1>5. \A i, j \in Oldest(S, n) : rank[i] = rank[j] => i = j
  <2> SUFFICES ASSUME NEW i \in Oldest(S, n), NEW j \in Oldest(S, n), i # j
               PROVE  rank[i] # rank[j]
    OBVIOUS
  <2>1. i \in Jobs /\ j \in Jobs
    BY <1>1
  <2>2. i < j \/ j < i
    BY <2>1, MaxJobsAssumption DEF Jobs
  <2>3. rank[i] = Cardinality(older(i)) /\ rank[j] = Cardinality(older(j))
    OBVIOUS
  <2> HIDE DEF older, rank
  <2> QED
    BY <1>2, <1>4, <2>1, <2>2, <2>3
<1>6. rank \in Injection(Oldest(S, n), 0..n - 1)
  <2> HIDE DEF rank
  <2> QED
    BY <1>3, <1>5 DEF Injection, IsInjective
<1>7. IsFiniteSet(0..n - 1) /\ Cardinality(0..n - 1) = n
  BY FS_Interval
<1> HIDE DEF rank
<1> QED
  BY <1>1, <1>6, <1>7, FS_Injection

LEMMA InitSlotInv == Init => SlotInv
  BY DEF Init, SlotInv, RegisteredAreLive, WithinLimit, Live, IdleSched, IdleWorker

(* A step that leaves the scheduler and the map alone, and starts and ends no  *)
(* worker.                                                                     *)
LEMMA SlotKept ==
    ASSUME TypeOK, SlotInv, sched' = sched, running' = running,
           \A w \in Workers : /\ wrk'[w].pc = "idle" <=> wrk[w].pc = "idle"
                             /\ wrk'[w].job = wrk[w].job
    PROVE  SlotInv'
<1>1. Registered' = Registered /\ Live' = Live
  BY DEF Registered, Live
<1>2. RegisteredAreLive'
  BY DEF SlotInv, RegisteredAreLive, TypeOK
<1>3. WithinLimit'
  BY <1>1 DEF SlotInv, WithinLimit
<1> QED
  BY <1>1, <1>2, <1>3 DEF SlotInv, Live

LEMMA GoesKeeps ==
    ASSUME TypeOK, NEW w \in Workers, NEW pc, NEW st, wrk[w].pc # "idle", pc # "idle", Goes(w, pc, st)
    PROVE  \A v \in Workers : /\ wrk'[v].pc = "idle" <=> wrk[v].pc = "idle"
                             /\ wrk'[v].job = wrk[v].job
<1> SUFFICES ASSUME NEW v \in Workers
             PROVE  (wrk'[v].pc = "idle" <=> wrk[v].pc = "idle") /\ wrk'[v].job = wrk[v].job
  OBVIOUS
<1>1. CASE v = w
  BY <1>1 DEF Goes, TypeOK, WorkersOK, WorkerType
<1>2. CASE v # w
  BY <1>2 DEF Goes, TypeOK, WorkersOK
<1> QED
  BY <1>1, <1>2

LEMMA ProcessSlotInv == TypeOK /\ SlotInv /\ Process => SlotInv'
<1> SUFFICES ASSUME TypeOK, SlotInv, Process PROVE SlotInv'
  OBVIOUS
<1>1. CASE Start \/ Signal \/ StopBegin
  BY <1>1, SlotKept DEF Start, Signal, StopBegin
<1>2. CASE StopCancel
  <2>1. \A w \in Workers : wrk'[w].pc = wrk[w].pc /\ wrk'[w].job = wrk[w].job
    BY <1>2 DEF StopCancel, TypeOK, WorkersOK, WorkerType
  <2> QED
    BY <1>2, <2>1, SlotKept DEF StopCancel
<1>3. CASE LoseMemory
  BY <1>3 DEF LoseMemory, SlotInv, RegisteredAreLive, WithinLimit, Live, IdleSched, IdleWorker
<1> QED
  BY <1>1, <1>2, <1>3 DEF Process, Exit, Crash

LEMMA RunSlotInv == ASSUME TypeOK, SlotInv, NEW w \in Workers, RunStep(w) PROVE SlotInv'
<1>1. CASE RunReturn(w)
  <2> DEFINE j == wrk[w].job
  <2>1. /\ running' = [running EXCEPT ![j] = NoWorker]
        /\ wrk' = [wrk EXCEPT ![w] = IdleWorker]
        /\ sched' = sched
        /\ wrk[w].pc # "idle"
    BY <1>1 DEF RunReturn
  <2>2. j \in Jobs
    BY <2>1 DEF SlotInv, Live
  <2>3. \A i \in Jobs : running'[i] # NoWorker => running'[i] = running[i] /\ i # j
    BY <2>1 DEF TypeOK
  <2>4. RegisteredAreLive'
    <3> SUFFICES ASSUME NEW i \in Jobs, running'[i] # NoWorker
                 PROVE  wrk'[running'[i]].pc # "idle" /\ wrk'[running'[i]].job = i
      BY DEF RegisteredAreLive
    <3>1. running[i] \in Workers /\ wrk[running[i]].pc # "idle" /\ wrk[running[i]].job = i
      BY <2>3 DEF TypeOK, SlotInv, RegisteredAreLive
    <3>2. running[i] # w
      BY <2>3, <3>1
    <3> QED
      BY <2>1, <2>3, <3>1, <3>2 DEF TypeOK, WorkersOK
  <2>5. Cardinality(Registered)' \in Nat /\ Cardinality(Registered)' <= Cardinality(Registered)
    <3>1. Registered' \in SUBSET Registered
      BY <2>3 DEF Registered
    <3> QED
      BY <3>1, RegisteredType, SubsetsOfJobs, FS_Subset DEF Registered
  <2>6. \A v \in Live' : v \in Live /\ wrk'[v].job = wrk[v].job
    BY <2>1 DEF Live, TypeOK, WorkersOK, IdleWorker
  <2>7. sched \in SchedType
    BY DEF TypeOK
  <2>8. WithinLimit'
    <3> DEFINE W == sched.waiting \cup ({sched.cur} \ {NoJob})
    <3>1. W \in SUBSET Jobs
      BY <2>7 DEF SchedType
    <3>2. Cardinality(W) \in Nat
      BY <3>1, SubsetsOfJobs
    <3>3. sched.pc \in {"mark", "register"} => Cardinality(Registered) + Cardinality(W) <= sched.conc
      BY DEF SlotInv, WithinLimit
    <3>4. sched.conc \in Nat
      BY <2>7 DEF SchedType
    <3>5. W' = W
      BY <2>1
    <3> SUFFICES sched.pc \in {"mark", "register"} => Cardinality(Registered)' + Cardinality(W) <= sched.conc
      BY <2>1, <3>5 DEF WithinLimit
    <3> HIDE DEF W
    <3> QED
      BY <2>5, <3>2, <3>3, <3>4, RegisteredType
  <2>9. sched.pc = "query" => Cardinality(Registered)' + sched.free <= sched.conc
    BY <2>5, <2>7, RegisteredType DEF SlotInv, SchedType
  <2> QED
    BY <2>1, <2>4, <2>6, <2>8, <2>9 DEF SlotInv
<1>2. ASSUME wrk[w].pc # "idle", NEW pc, NEW st, pc # "idle", Goes(w, pc, st),
             sched' = sched, running' = running
      PROVE  SlotInv'
  BY <1>2, GoesKeeps, SlotKept
<1>3. CASE RunSetup(w)
  BY <1>2, <1>3 DEF RunSetup, OnlyWorker
<1>4. CASE RunSetupFails(w)
  BY <1>2, <1>4 DEF RunSetupFails, OnlyWorker
<1>5. CASE TransferExits(w)
  BY <1>2, <1>5 DEF TransferExits, OnlyWorker
<1>6. CASE TransferFails(w) \/ TransferAborts(w)
  BY <1>2, <1>6 DEF TransferFails, TransferAborts, OnlyWorker
<1>7. CASE RunReread(w) \/ RunRereadFails(w)
  BY <1>2, <1>7 DEF RunReread, RunRereadFails, OnlyWorker
<1>8. CASE RunBranch(w)
  BY <1>2, <1>8 DEF RunBranch, OnlyWorker
<1>9. CASE RunFinish(w) \/ RunFinishFails(w)
  BY <1>2, <1>9 DEF RunFinish, RunFinishFails, OnlyWorker
<1> QED
  BY <1>1, <1>3, <1>4, <1>5, <1>6, <1>7, <1>8, <1>9 DEF RunStep

LEMMA ClientSlotInv ==
    ASSUME TypeOK, SlotInv, Client \/ \E r \in Requests : ReqCheck(r) \/ ReqStep(r) \/ ReqFails(r)
    PROVE  SlotInv'
<1>1. CASE Client
  BY <1>1, SlotKept DEF Client, CreateJob, DeleteServer, PutSettings, OnlyRequests
<1>2. ASSUME NEW r \in Requests, ReqCheck(r) \/ ReqStep(r) \/ ReqFails(r)
      PROVE  SlotInv'
  <2>1. CASE CancelFire(r)
    <3>1. \A w \in Workers : wrk'[w].pc = wrk[w].pc /\ wrk'[w].job = wrk[w].job
      BY <2>1 DEF CancelFire, TypeOK, WorkersOK, WorkerType
    <3>2. sched' = sched /\ running' = running
      BY <2>1, Zenon DEF CancelFire, OnlyRequests
    <3> QED
      BY <3>1, <3>2, SlotKept, Zenon
  <2>2. CASE ~CancelFire(r)
    <3> SUFFICES sched' = sched /\ running' = running /\ wrk' = wrk
      BY SlotKept, Zenon
    <3>1. CASE ReqCheck(r) \/ ReqFails(r)
      BY <3>1, Zenon DEF ReqCheck, ReqFails, OnlyRequests
    <3>2. CASE CancelWrite(r) \/ CancelLookup(r)
      BY <3>2, Zenon DEF CancelWrite, CancelLookup, OnlyRequests
    <3>3. CASE DeleteRow(r) \/ RetryInsert(r)
      BY <3>3, Zenon DEF DeleteRow, RetryInsert, OnlyRequests
    <3> QED
      BY <1>2, <2>2, <3>1, <3>2, <3>3, Zenon DEF ReqStep
  <2> QED
    BY <2>1, <2>2
<1> QED
  BY <1>1, <1>2

(* A step of schedule that starts no worker keeps SlotInv if what it leaves    *)
(* in the locals of schedule fits.                                             *)
LEMMA SchedLocals ==
    ASSUME TypeOK, SlotInv, UNCHANGED <<running, wrk>>,
           sched'.pc = "query" => Cardinality(Registered) + sched'.free <= sched'.conc,
           sched'.pc \notin {"mark", "register"} => sched'.waiting = {},
           IF sched'.pc = "register" THEN sched'.cur \in Jobs \ sched'.waiting ELSE sched'.cur = NoJob,
           sched'.pc \in {"mark", "register"} =>
             Cardinality(Registered) + Cardinality(sched'.waiting \cup ({sched'.cur} \ {NoJob})) <= sched'.conc
    PROVE  SlotInv'
<1>1. Registered' = Registered /\ Live' = Live
  BY DEF Registered, Live
<1>2. RegisteredAreLive'
  BY DEF SlotInv, RegisteredAreLive
<1>3. WithinLimit'
  BY <1>1 DEF WithinLimit
<1> QED
  BY <1>1, <1>2, <1>3 DEF SlotInv, Live

LEMMA SchedIdles == ASSUME TypeOK, SlotInv, UNCHANGED <<running, wrk>>, sched' = IdleSched PROVE SlotInv'
<1>1. sched'.pc = "idle" /\ sched'.waiting = {} /\ sched'.cur = NoJob
  BY DEF IdleSched
<1> QED
  BY <1>1, SchedLocals

(* The bound on the jobs registered and to be started, when W is what is left. *)
LEMMA SchedResumes ==
    ASSUME TypeOK, SlotInv, UNCHANGED <<running, wrk>>, NEW W \in SUBSET Jobs,
           sched' = Resume(W), Cardinality(Registered) + Cardinality(W) <= sched.conc
    PROVE  SlotInv'
<1>0. sched \in SchedType
  BY DEF TypeOK
<1>1. /\ sched'.pc = IF W = {} THEN "idle" ELSE "mark"
      /\ sched'.waiting = W /\ sched'.cur = NoJob /\ sched'.conc = sched.conc
  BY <1>0 DEF Resume, SchedType
<1>2. W \cup ({NoJob} \ {NoJob}) = W
  OBVIOUS
<1> QED
  BY <1>1, <1>2, SchedLocals

(* What SchedRegister does to the map, the workers and the locals. *)
LEMMA RegisterEffect ==
    ASSUME TypeOK, SlotInv, SchedRegister
    PROVE  \E w \in Workers :
             /\ wrk[w].pc = "idle" /\ w # NoWorker
             /\ running' = [running EXCEPT ![sched.cur] = w]
             /\ wrk' = [wrk EXCEPT ![w] = [IdleWorker EXCEPT !.pc = "setup", !.job = sched.cur]]
             /\ sched.cur \in Jobs \ sched.waiting /\ sched.cur # NoJob
             /\ sched.waiting \in SUBSET Jobs
             /\ Registered' = Registered \cup {sched.cur}
             /\ Cardinality(Registered)' <= Cardinality(Registered) + 1
             /\ Cardinality(Registered)' + Cardinality(sched.waiting) <= sched.conc
<1>1. PICK w \in Workers \ Live :
         /\ running' = [running EXCEPT ![sched.cur] = w]
         /\ wrk' = [wrk EXCEPT ![w] = [IdleWorker EXCEPT !.pc = "setup", !.job = sched.cur]]
  BY DEF SchedRegister
<1>2. wrk[w].pc = "idle" /\ w # NoWorker
  BY <1>1, WorkersAssumption DEF Live
<1>3. sched \in SchedType /\ sched.pc = "register"
  BY DEF TypeOK, SchedRegister
<1>4. sched.cur \in Jobs \ sched.waiting /\ sched.waiting \in SUBSET Jobs
  BY <1>3 DEF SlotInv, SchedType
<1>5. sched.cur # NoJob
  BY <1>4, MaxJobsAssumption DEF Jobs, NoJob
<1>6. Registered' = Registered \cup {sched.cur}
  BY <1>1, <1>2, <1>4 DEF Registered, TypeOK
<1>7. /\ Cardinality(Registered)' \in Nat
      /\ Cardinality(Registered)' <= Cardinality(Registered) + 1
  <2>1. IsFiniteSet(Registered) /\ Cardinality(Registered) \in Nat
    BY RegisteredType, SubsetsOfJobs
  <2>2. Cardinality(Registered \cup {sched.cur}) =
          IF sched.cur \in Registered THEN Cardinality(Registered) ELSE Cardinality(Registered) + 1
    BY <2>1, FS_AddElement
  <2> QED
    BY <1>6, <2>1, <2>2
<1>8. Cardinality(sched.waiting \cup {sched.cur}) = Cardinality(sched.waiting) + 1
  BY <1>4, SubsetsOfJobs, FS_AddElement
<1>9. Cardinality(Registered) + Cardinality(sched.waiting \cup {sched.cur}) <= sched.conc
  <2>1. {sched.cur} \ {NoJob} = {sched.cur}
    BY <1>5
  <2> QED
    BY <1>3, <2>1 DEF SlotInv, WithinLimit
<1>10. Cardinality(Registered)' + Cardinality(sched.waiting) <= sched.conc
  <2>1. sched.conc \in Nat /\ Cardinality(sched.waiting) \in Nat /\ Cardinality(Registered) \in Nat
    BY <1>3, <1>4, SubsetsOfJobs, RegisteredType DEF SchedType
  <2> QED
    BY <1>7, <1>8, <1>9, <2>1
<1> QED
  BY <1>1, <1>2, <1>4, <1>5, <1>6, <1>7, <1>10

LEMMA RegisterSlotInv == ASSUME TypeOK, SlotInv, SchedRegister PROVE SlotInv'
<1>1. PICK w \in Workers :
         /\ wrk[w].pc = "idle" /\ w # NoWorker
         /\ running' = [running EXCEPT ![sched.cur] = w]
         /\ wrk' = [wrk EXCEPT ![w] = [IdleWorker EXCEPT !.pc = "setup", !.job = sched.cur]]
         /\ sched.cur \in Jobs \ sched.waiting /\ sched.cur # NoJob
         /\ sched.waiting \in SUBSET Jobs
         /\ Cardinality(Registered)' + Cardinality(sched.waiting) <= sched.conc
  BY RegisterEffect
<1>2. /\ sched'.pc = IF sched.waiting = {} THEN "idle" ELSE "mark"
      /\ sched'.waiting = sched.waiting /\ sched'.cur = NoJob /\ sched'.conc = sched.conc
  <2>1. sched \in SchedType /\ sched' = Resume(sched.waiting)
    BY DEF TypeOK, SchedRegister
  <2> QED
    BY <2>1 DEF Resume, SchedType
<1>3. wrk'[w].pc = "setup" /\ wrk'[w].job = sched.cur
  BY <1>1 DEF TypeOK, WorkersOK, IdleWorker
<1>4. \A v \in Workers : v # w => wrk'[v] = wrk[v]
  BY <1>1 DEF TypeOK, WorkersOK
<1>5. RegisteredAreLive'
  <2> SUFFICES ASSUME NEW i \in Jobs, running'[i] # NoWorker
               PROVE  wrk'[running'[i]].pc # "idle" /\ wrk'[running'[i]].job = i
    BY DEF RegisteredAreLive
  <2>1. CASE i = sched.cur
    BY <1>1, <1>3, <2>1 DEF TypeOK
  <2>2. CASE i # sched.cur
    <3>1. /\ running'[i] = running[i] /\ running[i] \in Workers
          /\ wrk[running[i]].pc # "idle" /\ wrk[running[i]].job = i
      BY <1>1, <2>2 DEF TypeOK, SlotInv, RegisteredAreLive
    <3> QED
      BY <1>1, <1>4, <3>1
  <2> QED
    BY <2>1, <2>2
<1>6. \A v \in Live' : wrk'[v].job \in Jobs
  <2> SUFFICES ASSUME NEW v \in Workers, wrk'[v].pc # "idle" PROVE wrk'[v].job \in Jobs
    BY DEF Live
  <2>1. CASE v = w
    BY <1>1, <1>3, <2>1
  <2>2. CASE v # w
    BY <1>4, <2>2 DEF SlotInv, Live
  <2> QED
    BY <2>1, <2>2
<1>7. WithinLimit'
  <2>1. sched.waiting \cup ({NoJob} \ {NoJob}) = sched.waiting
    OBVIOUS
  <2> QED
    BY <1>1, <1>2, <2>1 DEF WithinLimit
<1> QED
  BY <1>2, <1>5, <1>6, <1>7 DEF SlotInv

LEMMA SchedSlotInv == TypeOK /\ SlotInv /\ (SchedStep \/ SchedReadFails \/ Purge) => SlotInv'
<1> SUFFICES ASSUME TypeOK, SlotInv, SchedStep \/ SchedReadFails \/ Purge PROVE SlotInv'
  OBVIOUS
<1>0. sched \in SchedType
  BY DEF TypeOK
<1>1. CASE SchedTick
  <2>1. sched'.pc = "count" /\ sched'.waiting = {} /\ sched'.cur = NoJob
    BY <1>1 DEF SchedTick, IdleSched
  <2> QED
    BY <1>1, <2>1, SchedLocals DEF SchedTick
<1>2. CASE SchedCount
  <2> DEFINE free == sched.conc - Cardinality(Registered)
  <2>1. CASE free <= 0 \/ Stopping
    BY <1>2, <2>1, SchedIdles DEF SchedCount
  <2>2. CASE ~(free <= 0 \/ Stopping)
    <3>1. sched' = [sched EXCEPT !.pc = "query", !.free = free]
      BY <1>2, <2>2 DEF SchedCount
    <3>2. Cardinality(Registered) + free <= sched.conc
      BY <1>0, RegisteredType DEF SchedType
    <3> HIDE DEF free
    <3>3. /\ sched'.pc = "query" /\ sched'.free = free /\ sched'.conc = sched.conc
          /\ sched'.waiting = sched.waiting /\ sched'.cur = sched.cur
      BY <1>0, <3>1 DEF SchedType
    <3>4. sched.waiting = {} /\ sched.cur = NoJob
      BY <1>2 DEF SchedCount, SlotInv
    <3> QED
      BY <1>2, <3>2, <3>3, <3>4, SchedLocals DEF SchedCount
  <2> QED
    BY <2>1, <2>2
<1>3. CASE SchedQuery
  <2> DEFINE R == {j \in Jobs : Runnable(status[j])}
             W == Oldest(R, sched.free)
  <2>1. CASE signalled
    BY <1>3, <2>1, SchedIdles DEF SchedQuery
  <2>2. CASE ~signalled
    <3>1. W \in SUBSET Jobs /\ Cardinality(W) <= sched.free
      BY <1>0, OldestCardinality DEF SchedType
    <3>2. sched' = Resume(W)
      BY <1>3, <2>2 DEF SchedQuery
    <3> HIDE DEF W
    <3>3. Cardinality(W) \in Nat
      BY <3>1, SubsetsOfJobs
    <3>4. Cardinality(Registered) + sched.free <= sched.conc
      BY <1>3 DEF SchedQuery, SlotInv
    <3>5. Cardinality(Registered) + Cardinality(W) <= sched.conc
      BY <1>0, <3>1, <3>3, <3>4, RegisteredType DEF SchedType
    <3> QED
      BY <1>3, <3>1, <3>2, <3>5, SchedResumes DEF SchedQuery
  <2> QED
    BY <2>1, <2>2
<1>4. CASE SchedReadFails \/ SchedRefuse
  BY <1>4, SchedIdles DEF SchedReadFails, SchedRefuse
<1>5. ASSUME sched.pc = "mark"
      PROVE  /\ sched.waiting \cup ({sched.cur} \ {NoJob}) = sched.waiting
             /\ sched.waiting \in SUBSET Jobs /\ Cardinality(sched.waiting) \in Nat
             /\ Cardinality(Registered) + Cardinality(sched.waiting) <= sched.conc
  <2>1. sched.waiting \cup ({sched.cur} \ {NoJob}) = sched.waiting
    BY <1>5 DEF SlotInv
  <2>2. sched.waiting \in SUBSET Jobs
    BY <1>0 DEF SchedType
  <2> QED
    BY <1>5, <2>1, <2>2, SubsetsOfJobs DEF SlotInv, WithinLimit
<1>6. CASE SchedMark
  <2>1. PICK j \in Jobs : /\ IsNext(j)
                          /\ sched' = [sched EXCEPT !.pc = "register", !.cur = j, !.waiting = @ \ {j}]
    BY <1>6 DEF SchedMark
  <2>2. /\ sched'.pc = "register" /\ sched'.cur = j /\ sched'.waiting = sched.waiting \ {j}
        /\ sched'.conc = sched.conc
    BY <1>0, <2>1 DEF SchedType
  <2>3. (sched.waiting \ {j}) \cup ({j} \ {NoJob}) = sched.waiting
    BY <2>1, MaxJobsAssumption DEF IsNext, NoJob, Jobs
  <2>4. sched.pc = "mark"
    BY <1>6 DEF SchedMark
  <2> QED
    BY <1>5, <1>6, <2>2, <2>3, <2>4, SchedLocals DEF SchedMark
<1>7. CASE SchedMarkFails
  <2>1. PICK j \in Jobs : sched' = Resume(sched.waiting \ {j})
    BY <1>7 DEF SchedMarkFails
  <2> DEFINE W == sched.waiting \ {j}
  <2>2. sched.pc = "mark"
    BY <1>7 DEF SchedMarkFails
  <2>3. W \in SUBSET Jobs /\ W \in SUBSET sched.waiting
    BY <1>5, <2>2
  <2>4. sched' = Resume(W)
    BY <2>1
  <2> HIDE DEF W
  <2>5. Cardinality(W) \in Nat /\ Cardinality(W) <= Cardinality(sched.waiting)
    BY <1>5, <2>2, <2>3, SubsetsOfJobs, FS_Subset
  <2>6. Cardinality(Registered) + Cardinality(W) <= sched.conc
    BY <1>0, <1>5, <2>2, <2>5, RegisteredType DEF SchedType
  <2> QED
    BY <1>7, <2>3, <2>4, <2>6, SchedResumes DEF SchedMarkFails
<1>8. CASE SchedRegister
  BY <1>8, RegisterSlotInv
<1>9. CASE LoopExit
  <2>1. sched'.pc = "exited" /\ sched'.waiting = {} /\ sched'.cur = NoJob
    BY <1>9 DEF LoopExit, IdleSched
  <2> QED
    BY <1>9, <2>1, SchedLocals DEF LoopExit
<1>10. CASE Purge
  BY <1>10, SlotKept DEF Purge
<1> QED
  BY <1>1, <1>2, <1>3, <1>4, <1>6, <1>7, <1>8, <1>9, <1>10 DEF SchedStep

LEMMA NextSlotInv == TypeOK /\ SlotInv /\ [Next]_vars => SlotInv'
<1>1. TypeOK /\ SlotInv /\ UNCHANGED vars => SlotInv'
  BY SlotKept DEF vars
<1> QED
  BY <1>1, ProcessSlotInv, SchedSlotInv, RunSlotInv, ClientSlotInv DEF Next

(* SlotInv holds in every reachable state: the free slots of a pass are counted *)
(* before they are filled and no entry of the map outlives its worker.         *)
THEOREM SlotInvariance == Spec => []SlotInv
  BY InitTypeOK, NextTypeOK, InitSlotInv, NextSlotInv, PTL DEF Spec

(* Every entry of the map of running jobs belongs to a worker that has not     *)
(* returned and works on that job.                                             *)
THEOREM MapIsLive == Spec => []RegisteredAreLive
<1>1. SlotInv => RegisteredAreLive
  BY DEF SlotInv
<1> QED
  BY <1>1, SlotInvariance, PTL

(* The jobs running and the jobs being started stay within the limit read in   *)
(* this pass of schedule.                                                      *)
THEOREM Capacity == Spec => []WithinLimit
<1>1. SlotInv => WithinLimit
  BY DEF SlotInv
<1> QED
  BY <1>1, SlotInvariance, PTL

(* Only SchedRegister enters a job into the map. *)
LEMMA OnlyRegisterAdds ==
    ASSUME TypeOK, SlotInv, [Next]_vars, ~SchedRegister, NEW j \in Jobs, running[j] = NoWorker
    PROVE  running'[j] = NoWorker
<1>1. CASE UNCHANGED running
  BY <1>1
<1>2. CASE LoseMemory
  BY <1>2 DEF LoseMemory
<1>3. CASE \E w \in Workers : RunReturn(w)
  BY <1>3 DEF RunReturn, TypeOK
<1>4. Process => LoseMemory \/ UNCHANGED running
  BY DEF Process, Start, Signal, StopBegin, StopCancel, Exit, Crash
<1>5. SchedStep \/ SchedReadFails \/ Purge => UNCHANGED running
  BY DEF SchedStep, SchedTick, SchedCount, SchedQuery, SchedMark, SchedMarkFails, SchedRefuse,
         LoopExit, SchedReadFails, Purge
<1>6. ASSUME NEW w \in Workers, RunStep(w) PROVE RunReturn(w) \/ UNCHANGED running
  BY <1>6 DEF RunStep, RunSetup, RunSetupFails, TransferExits, TransferFails, TransferAborts, RunReread,
              RunRereadFails, RunBranch, RunFinish, RunFinishFails, OnlyWorker
<1>7. Client => UNCHANGED running
  BY DEF Client, CreateJob, DeleteServer, PutSettings, OnlyRequests
<1>8. ASSUME NEW r \in Requests, ReqCheck(r) \/ ReqStep(r) \/ ReqFails(r) PROVE UNCHANGED running
  BY <1>8 DEF ReqCheck, ReqStep, ReqFails, CancelWrite, CancelLookup, CancelFire, DeleteRow, RetryInsert,
              OnlyRequests
<1>9. CASE Next
  BY <1>1, <1>2, <1>3, <1>4, <1>5, <1>6, <1>7, <1>8, <1>9 DEF Next
<1> QED
  BY <1>1, <1>9 DEF vars

(* No worker is started into a pool that is full for the limit of this pass. *)
THEOREM StartsRespectLimit == Spec => StartsWithinLimit
<1> DEFINE Grows == \A j \in Jobs : running[j] = NoWorker /\ running'[j] # NoWorker
                                    => Cardinality(Registered)' <= sched.conc
<1>1. ASSUME TypeOK, SlotInv, [Next]_vars, NEW j \in Jobs, running[j] = NoWorker, running'[j] # NoWorker
      PROVE  Cardinality(Registered)' <= sched.conc
  <2>1. SchedRegister
    BY <1>1, OnlyRegisterAdds
  <2>2. /\ Cardinality(Registered)' + Cardinality(sched.waiting) <= sched.conc
        /\ sched.waiting \in SUBSET Jobs /\ Registered' = Registered \cup {sched.cur} /\ sched.cur \in Jobs
    BY <1>1, <2>1, RegisterEffect
  <2>3. Cardinality(sched.waiting) \in Nat /\ Registered' \in SUBSET Jobs
    BY <2>2, SubsetsOfJobs, RegisteredType
  <2>4. Cardinality(Registered)' \in Nat /\ sched.conc \in Nat
    BY <1>1, <2>3, SubsetsOfJobs DEF TypeOK, SchedType
  <2> QED
    BY <2>2, <2>3, <2>4
<1>2. TypeOK /\ SlotInv /\ [Next]_vars => [Grows]_vars
  BY <1>1
<1>3. Spec => [][Grows]_vars
  BY <1>2, TypeCorrect, SlotInvariance, PTL DEF Spec
<1> QED
  BY <1>3 DEF StartsWithinLimit

-----------------------------------------------------------------------------
(* Shutdown. *)

(* Only SchedRegister starts a worker. *)
LEMMA OnlyRegisterStarts ==
    ASSUME TypeOK, [Next]_vars, ~SchedRegister, NEW v \in Workers, wrk[v].pc = "idle"
    PROVE  wrk'[v].pc = "idle"
<1>1. CASE UNCHANGED wrk
  BY <1>1
<1>2. CASE LoseMemory
  BY <1>2 DEF LoseMemory, IdleWorker
<1>3. CASE StopCancel
  <2>1. wrk'[v] = wrk[v] \/ wrk'[v] = [wrk[v] EXCEPT !.ctx = TRUE]
    BY <1>3 DEF StopCancel
  <2> QED
    BY <2>1 DEF TypeOK, WorkersOK, WorkerType
<1>4. ASSUME NEW w \in Workers, RunStep(w) PROVE wrk'[v].pc = "idle"
  <2>1. wrk[w].pc # "idle"
    BY <1>4 DEF RunStep, RunSetup, RunSetupFails, TransferExits, TransferFails, TransferAborts, RunReread,
                RunRereadFails, RunBranch, RunFinish, RunFinishFails, RunReturn
  <2>2. v # w
    BY <2>1
  <2>3. ASSUME NEW pc, NEW st, Goes(w, pc, st) PROVE wrk'[v] = wrk[v]
    BY <2>2, <2>3 DEF Goes, TypeOK, WorkersOK
  <2>4. RunReturn(w) => wrk'[v] = wrk[v]
    BY <2>2 DEF RunReturn, TypeOK, WorkersOK
  <2>5. RunReturn(w) \/ \E pc, st : Goes(w, pc, st)
    BY <1>4 DEF RunStep, RunSetup, RunSetupFails, TransferExits, TransferFails, TransferAborts, RunReread,
                RunRereadFails, RunBranch, RunFinish, RunFinishFails
  <2> QED
    BY <2>3, <2>4, <2>5
<1>5. ASSUME NEW r \in Requests, CancelFire(r) PROVE wrk'[v].pc = "idle"
  <2>1. wrk'[v] = wrk[v] \/ wrk'[v] = [wrk[v] EXCEPT !.ctx = TRUE]
    BY <1>5 DEF CancelFire
  <2> QED
    BY <2>1 DEF TypeOK, WorkersOK, WorkerType
<1>6. Process => LoseMemory \/ StopCancel \/ UNCHANGED wrk
  BY DEF Process, Start, Signal, StopBegin, Exit, Crash
<1>7. SchedStep \/ SchedReadFails \/ Purge => UNCHANGED wrk
  BY DEF SchedStep, SchedTick, SchedCount, SchedQuery, SchedMark, SchedMarkFails, SchedRefuse,
         LoopExit, SchedReadFails, Purge
<1>8. Client => UNCHANGED wrk
  BY DEF Client, CreateJob, DeleteServer, PutSettings, OnlyRequests
<1>9. ASSUME NEW r \in Requests, ReqCheck(r) \/ ReqStep(r) \/ ReqFails(r)
      PROVE  CancelFire(r) \/ UNCHANGED wrk
  BY <1>9 DEF ReqCheck, ReqStep, ReqFails, CancelWrite, CancelLookup, DeleteRow, RetryInsert, OnlyRequests
<1>10. CASE Next
  BY <1>1, <1>2, <1>3, <1>4, <1>5, <1>6, <1>7, <1>8, <1>9, <1>10 DEF Next
<1> QED
  BY <1>1, <1>10 DEF vars

(* Once Stop has copied the cancel functions no worker is started any more, so *)
(* that the copy holds all the workers there will be.                          *)
THEOREM StopIsFinal == Spec => NoStartAfterStop
<1> DEFINE Stays == Stopping => \A w \in Workers : wrk[w].pc = "idle" => wrk'[w].pc = "idle"
<1>1. SchedRegister => ~Stopping
  BY DEF SchedRegister
<1>2. TypeOK /\ [Next]_vars => [Stays]_vars
  BY <1>1, OnlyRegisterStarts
<1>3. Spec => [][Stays]_vars
  BY <1>2, TypeCorrect, PTL DEF Spec
<1> QED
  BY <1>3 DEF NoStartAfterStop

-----------------------------------------------------------------------------
(* No row is stranded: RunningRowOwned is inductive as it stands. *)

Works(w, j) == wrk[w].job = j /\ wrk[w].pc \notin {"idle", "cleanup"}

Owned(j) == (\E w \in Workers : Works(w, j)) \/ (sched.pc = "register" /\ sched.cur = j)

(* Whoever owns a row keeps it in a step of neither. *)
LEMMA OwnedKept ==
    ASSUME NEW j \in Jobs, Owned(j), UNCHANGED sched, \A w \in Workers : Works(w, j) => Works(w, j)'
    PROVE  Owned(j)'
  BY DEF Owned

LEMMA SchedOwned ==
    ASSUME TypeOK, SchedStep \/ SchedReadFails \/ Purge, NEW j \in Jobs, status[j] = "running" => Owned(j),
           proc' = "up", status'[j] = "running"
    PROVE  Owned(j)'
<1>1. CASE SchedMark
  <2>1. PICK i \in Jobs : /\ status' = [status EXCEPT ![i] = "running"]
                          /\ sched' = [sched EXCEPT !.pc = "register", !.cur = i, !.waiting = @ \ {i}]
    BY <1>1 DEF SchedMark
  <2>2. sched.pc = "mark" /\ UNCHANGED wrk /\ sched'.pc = "register" /\ sched'.cur = i
    BY <1>1, <2>1 DEF SchedMark, TypeOK, SchedType
  <2> QED
    BY <2>1, <2>2 DEF Owned, Works, TypeOK
<1>2. CASE SchedRegister
  <2>1. PICK w \in Workers \ Live :
           wrk' = [wrk EXCEPT ![w] = [IdleWorker EXCEPT !.pc = "setup", !.job = sched.cur]]
    BY <1>2 DEF SchedRegister
  <2>2. Owned(j) /\ wrk[w].pc = "idle"
    BY <1>2, <2>1 DEF SchedRegister, Live
  <2>3. CASE sched.cur = j
    <3>1. wrk'[w].job = j /\ wrk'[w].pc = "setup"
      BY <2>1, <2>3 DEF IdleWorker, TypeOK, WorkersOK
    <3> QED
      BY <3>1 DEF Owned, Works
  <2>4. CASE sched.cur # j
    <3>1. PICK v \in Workers : Works(v, j)
      BY <2>2, <2>4 DEF Owned
    <3>2. wrk'[v] = wrk[v]
      BY <2>1, <2>2, <3>1 DEF Works, TypeOK, WorkersOK
    <3> QED
      BY <3>1, <3>2 DEF Owned, Works
  <2> QED
    BY <2>3, <2>4
<1>3. CASE Purge
  <2>1. UNCHANGED <<sched, wrk>> /\ status[j] = "running"
    BY <1>3 DEF Purge, Without, NoRow
  <2> QED
    BY <2>1, OwnedKept DEF Works
<1>4. CASE SchedTick \/ SchedCount \/ SchedQuery \/ SchedMarkFails \/ LoopExit \/ SchedReadFails
  <2>1. sched.pc # "register" /\ UNCHANGED <<status, wrk>>
    BY <1>4 DEF SchedTick, SchedCount, SchedQuery, SchedMarkFails, LoopExit, SchedReadFails
  <2> QED
    BY <2>1 DEF Owned, Works
<1>5. CASE SchedRefuse
  BY <1>5 DEF SchedRefuse, Stopping
<1> QED
  BY <1>1, <1>2, <1>3, <1>4, <1>5 DEF SchedStep

LEMMA RunOwned ==
    ASSUME TypeOK, NEW w \in Workers, RunStep(w), NEW j \in Jobs, status[j] = "running" => Owned(j),
           faults' = 0, status'[j] = "running"
    PROVE  Owned(j)'
<1>0. UNCHANGED sched
  BY DEF RunStep, RunSetup, RunSetupFails, TransferExits, TransferFails, TransferAborts, RunReread,
         RunRereadFails, RunBranch, RunFinish, RunFinishFails, RunReturn, OnlyWorker
<1>1. ASSUME NEW pc, NEW st, Goes(w, pc, st)
      PROVE  /\ \A v \in Workers : v # w => wrk'[v] = wrk[v]
             /\ wrk'[w].job = wrk[w].job /\ wrk'[w].pc = pc
  BY <1>1 DEF Goes, TypeOK, WorkersOK, WorkerType
<1>2. ASSUME NEW pc \in {"transfer", "finish", "reread", "branch"}, NEW st, Goes(w, pc, st), UNCHANGED status
      PROVE  Owned(j)'
  <2>1. \A v \in Workers : Works(v, j) => Works(v, j)'
    BY <1>1, <1>2 DEF Works
  <2> QED
    BY <1>0, <1>2, <2>1, OwnedKept
<1>3. CASE RunSetup(w) \/ RunSetupFails(w) \/ TransferExits(w) \/ TransferFails(w) \/ TransferAborts(w)
           \/ RunRereadFails(w) \/ RunBranch(w)
  BY <1>2, <1>3 DEF RunSetup, RunSetupFails, TransferExits, TransferFails, TransferAborts, RunRereadFails, RunBranch
<1>4. CASE RunReread(w)
  <2>1. UNCHANGED status
    BY <1>4 DEF RunReread
  <2>2. CASE status[wrk[w].job] = "cancelled"
    <3>1. wrk[w].job # j /\ Goes(w, "cleanup", "none")
      BY <1>4, <2>1, <2>2 DEF RunReread
    <3>2. \A v \in Workers : Works(v, j) => Works(v, j)'
      BY <1>1, <3>1 DEF Works
    <3> QED
      BY <1>0, <2>1, <3>2, OwnedKept
  <2>3. CASE status[wrk[w].job] # "cancelled"
    BY <1>2, <1>4, <2>1, <2>3 DEF RunReread
  <2> QED
    BY <2>2, <2>3
<1>5. CASE RunFinish(w)
  <2>1. wrk[w].pc = "finish" /\ Goes(w, "cleanup", "none")
        /\ status' = IF wrk[w].job \in Rows THEN [status EXCEPT ![wrk[w].job] = wrk[w].st] ELSE status
    BY <1>5 DEF RunFinish
  <2>2. wrk[w].st # "running"
    BY DEF TypeOK, WorkersOK, WorkerType
  <2>3. wrk[w].job # j
    BY <2>1, <2>2 DEF Rows, NoRow, TypeOK
  <2>4. status[j] = "running"
    BY <2>1, <2>3 DEF TypeOK
  <2>5. \A v \in Workers : Works(v, j) => Works(v, j)'
    BY <1>1, <2>1, <2>3 DEF Works
  <2> QED
    BY <1>0, <2>4, <2>5, OwnedKept
<1>6. CASE RunFinishFails(w)
  BY <1>6 DEF RunFinishFails, Fault, TypeOK
<1>7. CASE RunReturn(w)
  <2>1. wrk[w].pc = "cleanup" /\ wrk' = [wrk EXCEPT ![w] = IdleWorker] /\ UNCHANGED status
    BY <1>7 DEF RunReturn
  <2>2. \A v \in Workers : Works(v, j) => Works(v, j)'
    BY <2>1 DEF Works, TypeOK, WorkersOK
  <2> QED
    BY <1>0, <2>1, <2>2, OwnedKept
<1> QED
  BY <1>3, <1>4, <1>5, <1>6, <1>7 DEF RunStep

(* What the handlers leave alone. *)
LEMMA ClientKeeps == Client => UNCHANGED <<sched, proc, wrk, faults>>
  BY DEF Client, CreateJob, DeleteServer, PutSettings, OnlyRequests

LEMMA RequestKeeps ==
    ASSUME NEW r \in Requests, ReqCheck(r) \/ ReqStep(r) \/ ReqFails(r)
    PROVE  /\ UNCHANGED <<sched, proc>>
           /\ UNCHANGED faults \/ Fault
           /\ UNCHANGED wrk \/ CancelFire(r)
<1>1. CASE ReqCheck(r)
  BY <1>1 DEF ReqCheck, OnlyRequests
<1>2. CASE CancelWrite(r) \/ CancelLookup(r) \/ CancelFire(r)
  BY <1>2 DEF CancelWrite, CancelLookup, CancelFire, OnlyRequests
<1>3. CASE DeleteRow(r) \/ RetryInsert(r) \/ ReqFails(r)
  BY <1>3 DEF DeleteRow, RetryInsert, ReqFails, OnlyRequests
<1> QED
  BY <1>1, <1>2, <1>3 DEF ReqStep

LEMMA SchedKeeps == SchedStep \/ SchedReadFails \/ Purge => UNCHANGED proc /\ (UNCHANGED faults \/ Fault)
<1>1. SchedTick \/ SchedCount \/ SchedQuery \/ SchedMark => UNCHANGED proc /\ UNCHANGED faults
  BY DEF SchedTick, SchedCount, SchedQuery, SchedMark
<1>2. SchedRegister \/ SchedRefuse \/ LoopExit \/ Purge => UNCHANGED proc /\ UNCHANGED faults
  BY DEF SchedRegister, SchedRefuse, LoopExit, Purge
<1>3. SchedMarkFails \/ SchedReadFails => UNCHANGED proc /\ (UNCHANGED faults \/ Fault)
  BY DEF SchedMarkFails, SchedReadFails
<1> QED
  BY <1>1, <1>2, <1>3 DEF SchedStep

LEMMA RunKeeps ==
    ASSUME NEW w \in Workers, RunStep(w) PROVE UNCHANGED proc /\ (UNCHANGED faults \/ Fault)
<1>1. CASE RunSetup(w) \/ RunSetupFails(w) \/ TransferExits(w) \/ TransferFails(w) \/ TransferAborts(w)
  BY <1>1 DEF RunSetup, RunSetupFails, TransferExits, TransferFails, TransferAborts, OnlyWorker
<1>2. CASE RunReread(w) \/ RunRereadFails(w) \/ RunBranch(w)
  BY <1>2 DEF RunReread, RunRereadFails, RunBranch, OnlyWorker
<1>3. CASE RunFinish(w) \/ RunFinishFails(w) \/ RunReturn(w)
  BY <1>3 DEF RunFinish, RunFinishFails, RunReturn, OnlyWorker
<1> QED
  BY <1>1, <1>2, <1>3 DEF RunStep

LEMMA HandlerOwned ==
    ASSUME TypeOK, Client \/ \E r \in Requests : ReqCheck(r) \/ ReqStep(r) \/ ReqFails(r),
           NEW j \in Jobs, status[j] = "running" => Owned(j), status'[j] = "running"
    PROVE  Owned(j)'
<1>1. UNCHANGED sched
  BY ClientKeeps, RequestKeeps
<1>2. \A w \in Workers : Works(w, j) => Works(w, j)'
  <2>1. CASE UNCHANGED wrk
    BY <2>1 DEF Works
  <2>2. CASE \E r \in Requests : CancelFire(r)
    BY <2>2 DEF CancelFire, Works, TypeOK, WorkersOK, WorkerType
  <2> QED
    BY <2>1, <2>2, ClientKeeps, RequestKeeps
<1>3. status[j] = "running"
  <2>1. CASE Client
    <3>1. CASE CreateJob
      BY <3>1 DEF CreateJob, TypeOK
    <3>2. CASE DeleteServer
      BY <3>2 DEF DeleteServer, Without, NoRow
    <3>3. CASE PutSettings
      BY <3>3 DEF PutSettings
    <3> QED
      BY <2>1, <3>1, <3>2, <3>3 DEF Client
  <2>2. ASSUME NEW r \in Requests, ReqCheck(r) \/ ReqStep(r) \/ ReqFails(r) PROVE status[j] = "running"
    <3>1. CASE ReqCheck(r) \/ ReqFails(r) \/ CancelLookup(r) \/ CancelFire(r)
      BY <3>1 DEF ReqCheck, ReqFails, CancelLookup, CancelFire
    <3>2. CASE CancelWrite(r)
      BY <3>2 DEF CancelWrite, TypeOK
    <3>3. CASE DeleteRow(r)
      BY <3>3 DEF DeleteRow, Without, NoRow
    <3>4. CASE RetryInsert(r)
      BY <3>4 DEF RetryInsert, TypeOK
    <3> QED
      BY <2>2, <3>1, <3>2, <3>3, <3>4 DEF ReqStep
  <2> QED
    BY <2>1, <2>2
<1> QED
  BY <1>1, <1>2, <1>3, OwnedKept

LEMMA NextOwned == TypeOK /\ RunningRowOwned /\ [Next]_vars => RunningRowOwned'
<1> SUFFICES ASSUME TypeOK, RunningRowOwned, [Next]_vars, proc' = "up", faults' = 0,
                    NEW j \in Jobs, status'[j] = "running"
             PROVE  Owned(j)'
  BY DEF RunningRowOwned, Owned, Works
<1>1. ASSUME proc = "up", faults = 0 PROVE status[j] = "running" => Owned(j)
  BY <1>1 DEF RunningRowOwned, Owned, Works
<1>2. CASE UNCHANGED vars
  BY <1>1, <1>2 DEF vars, Owned, Works
<1>3. CASE Process
  <2>1. CASE Start
    BY <2>1 DEF Start, Recovered
  <2>2. CASE Signal
    BY <1>1, <2>2 DEF Signal, Owned, Works
  <2>3. CASE StopBegin \/ StopCancel \/ LoseMemory
    BY <2>3 DEF StopBegin, StopCancel, LoseMemory
  <2> QED
    BY <1>3, <2>1, <2>2, <2>3 DEF Process, Exit, Crash
<1>4. ASSUME Next, ~Process PROVE proc = "up" /\ faults = 0
  <2>1. UNCHANGED proc /\ (UNCHANGED faults \/ Fault)
    BY <1>4, SchedKeeps, RunKeeps, ClientKeeps, RequestKeeps DEF Next
  <2>2. faults \in Nat
    BY BoundsAssumption DEF TypeOK
  <2> QED
    BY <2>1, <2>2 DEF Fault
<1>5. CASE Next /\ ~Process
  BY <1>1, <1>4, <1>5, SchedOwned, RunOwned, HandlerOwned DEF Next
<1> QED
  BY <1>2, <1>3, <1>5

(* While the relay is up and no statement failed, every row in running belongs   *)
(* to a worker that will record its end, or to the pass that is starting it, in  *)
(* every behaviour, with cancels too.                                            *)
THEOREM NoRowStranded == Spec => []RunningRowOwned
<1>1. Init => RunningRowOwned
  BY DEF Init, RunningRowOwned
<1> QED
  BY <1>1, NextOwned, TypeCorrect, PTL DEF Spec

-----------------------------------------------------------------------------
(* No client cancels: then a job has one worker, Stop reaches every worker,    *)
(* terminal statuses are final, and the jobs table implements JobLifecycle.    *)
(* Every result from here on has the assumption that "cancel" is not among the *)
(* operations of the requests; with it, CancelIsFinal is refuted.              *)

Quiet == TypeOK /\ SlotInv /\ QuietInv

LEMMA InitQuiet == Init => QuietInv
<1> SUFFICES ASSUME Init PROVE QuietInv
  OBVIOUS
<1>1. Live = {}
  BY DEF Init, Live, IdleWorker
<1>2. /\ \A w \in Workers : wrk[w].ctx = FALSE /\ wrk[w].pc = "idle"
      /\ \A r \in Requests : req[r].pc = "idle"
      /\ sched.pc = "idle" /\ sched.waiting = {} /\ sched.cur = NoJob
  BY DEF Init, IdleWorker, IdleReq, IdleSched
<1>3. \A j \in Jobs : status[j] = NoRow /\ running[j] = NoWorker /\ j # NoJob
  BY MaxJobsAssumption DEF Init, Jobs, NoJob
<1> QED
  BY <1>1, <1>2, <1>3 DEF Init, QuietInv, LiveAreRegistered, StopReachesAll, ShutdownInOrder, RowsFitWorkers,
                          SnapshotIsTrue, IdsAreFresh, NoCancelPending

-----------------------------------------------------------------------------
(* What a step of a worker does to it. *)
LEMMA GoesEffect ==
    ASSUME TypeOK, NEW w \in Workers, NEW pc, NEW st, Goes(w, pc, st)
    PROVE  /\ \A v \in Workers : v # w => wrk'[v] = wrk[v]
           /\ wrk'[w].pc = pc /\ wrk'[w].st = st
           /\ wrk'[w].job = wrk[w].job /\ wrk'[w].ctx = wrk[w].ctx
  BY DEF Goes, TypeOK, WorkersOK, WorkerType

(* Two workers never have the same job. *)
LEMMA OneWorker == LiveAreRegistered => OneWorkerPerJob
  BY DEF LiveAreRegistered, OneWorkerPerJob

LEMMA RowFitsKept ==
    ASSUME NEW w \in Workers, RowFits(w), status'[wrk'[w].job] \in {status[wrk[w].job], NoRow},
           wrk'[w].pc = "cleanup" <=> wrk[w].pc = "cleanup", wrk[w].ctx => wrk'[w].ctx
    PROVE  RowFits(w)'
<1>1. CASE wrk[w].pc # "cleanup"
  BY <1>1 DEF RowFits
<1>2. CASE wrk[w].pc = "cleanup" /\ wrk[w].ctx
  BY <1>2 DEF RowFits
<1>3. CASE wrk[w].pc = "cleanup" /\ ~wrk[w].ctx
  <2>1. status[wrk[w].job] \in {"running", "done", "failed", NoRow}
    BY <1>3 DEF RowFits
  <2>2. status'[wrk'[w].job] \in {"running", "done", "failed", NoRow}
    BY <2>1
  <2>3. wrk'[w].pc = "cleanup"
    BY <1>3
  <2> QED
    BY <2>2, <2>3 DEF RowFits
<1> QED
  BY <1>1, <1>2, <1>3

(* Everything is idle after the process has ended. *)
LEMMA LoseMemoryQuiet == ASSUME TypeOK, Quiet, LoseMemory PROVE QuietInv'
<1>1. /\ \A w \in Workers : wrk'[w].ctx = FALSE /\ wrk'[w].pc = "idle"
      /\ \A r \in Requests : req'[r].pc = "idle"
      /\ sched'.pc = "idle" /\ sched'.waiting = {} /\ sched'.cur = NoJob
      /\ proc' = "down" /\ UNCHANGED <<status, nextId>>
      /\ \A j \in Jobs : running'[j] = NoWorker
  BY DEF LoseMemory, IdleWorker, IdleReq, IdleSched
<1>2. Live' = {}
  BY <1>1 DEF Live
<1>3. \A j \in Jobs : j # NoJob
  BY MaxJobsAssumption DEF Jobs, NoJob
<1> QED
  BY <1>1, <1>2, <1>3 DEF Quiet, QuietInv, LiveAreRegistered, StopReachesAll, ShutdownInOrder, RowsFitWorkers,
                          SnapshotIsTrue, IdsAreFresh, NoCancelPending

LEMMA ProcessQuiet == ASSUME Quiet, Process PROVE QuietInv'
<1> USE DEF Quiet, QuietInv
<1>1. CASE Start
  <2>1. /\ proc = "down" /\ proc' = "up" /\ status' = Recovered
        /\ UNCHANGED <<nextId, sched, running, wrk, toCancel, req>>
    BY <1>1 DEF Start
  <2>2. Live = {} /\ Live' = {} /\ sched.pc = "idle" /\ sched.waiting = {}
    BY <2>1 DEF ShutdownInOrder, Live, SlotInv
  <2>3. \A j \in Jobs : status[j] = NoRow => status'[j] = NoRow
    BY <2>1 DEF Recovered, NoRow
  <2>4. \A w \in Workers : wrk[w].ctx = FALSE
    BY <2>1 DEF ShutdownInOrder, TypeOK, WorkersOK, WorkerType
  <2> QED
    BY <2>1, <2>2, <2>3, <2>4 DEF LiveAreRegistered, StopReachesAll, ShutdownInOrder, RowsFitWorkers,
                               SnapshotIsTrue, IdsAreFresh, NoCancelPending
<1>2. CASE Signal
  <2>1. UNCHANGED <<status, nextId, proc, sched, running, wrk, toCancel, req>>
    BY <1>2 DEF Signal
  <2> QED
    BY <2>1 DEF LiveAreRegistered, StopReachesAll, ShutdownInOrder, RowsFitWorkers, RowFits, Live,
             SnapshotIsTrue, IdsAreFresh, NoCancelPending
<1>3. CASE StopBegin
  <2>1. /\ proc = "up" /\ proc' = "stopping" /\ toCancel' = {running[j] : j \in Registered}
        /\ UNCHANGED <<status, nextId, sched, running, wrk, req>>
    BY <1>3 DEF StopBegin
  <2>2. Live' \subseteq toCancel'
    BY <2>1, WorkersAssumption DEF LiveAreRegistered, Registered, Live
  <2> QED
    BY <2>1, <2>2 DEF LiveAreRegistered, StopReachesAll, ShutdownInOrder, RowsFitWorkers, RowFits, Live,
             SnapshotIsTrue, IdsAreFresh, NoCancelPending
<1>4. CASE StopCancel
  <2>1. /\ proc = "stopping" /\ sched.pc = "exited" /\ proc' = "draining"
        /\ wrk' = [w \in Workers |-> IF w \in toCancel THEN [wrk[w] EXCEPT !.ctx = TRUE] ELSE wrk[w]]
        /\ UNCHANGED <<status, nextId, sched, running, req>>
    BY <1>4 DEF StopCancel
  <2>2. \A w \in Workers : /\ wrk'[w].pc = wrk[w].pc /\ wrk'[w].job = wrk[w].job /\ wrk'[w].st = wrk[w].st
                          /\ (wrk[w].ctx => wrk'[w].ctx)
                          /\ (w \in toCancel => wrk'[w].ctx)
    BY <2>1 DEF TypeOK, WorkersOK, WorkerType
  <2>3. Live' = Live
    BY <2>2 DEF Live
  <2>4. \A w \in Live : wrk'[w].ctx
    BY <2>1, <2>2 DEF ShutdownInOrder, Live
  <2>5. RowsFitWorkers'
    <3> SUFFICES ASSUME NEW w \in Live PROVE RowFits(w)'
      BY <2>3 DEF RowsFitWorkers
    <3>1. w \in Workers /\ RowFits(w)
      BY DEF RowsFitWorkers, Live
    <3> QED
      BY <2>1, <2>2, <3>1, RowFitsKept
  <2> QED
    BY <2>1, <2>2, <2>3, <2>4, <2>5 DEF LiveAreRegistered, StopReachesAll, ShutdownInOrder, Live,
             SnapshotIsTrue, IdsAreFresh, NoCancelPending
<1>5. CASE Exit \/ Crash
  BY <1>5, LoseMemoryQuiet DEF Exit, Crash
<1> QED
  BY <1>1, <1>2, <1>3, <1>4, <1>5 DEF Process

(* A step that leaves the map, the workers and the process as they are, and      *)
(* changes rows only of jobs that nobody works on, or deletes them.              *)
LEMMA WorkersUntouched ==
    ASSUME Quiet, UNCHANGED <<proc, running, wrk, toCancel>>,
           proc = "draining" => sched'.pc = "exited",
           proc = "down" => sched'.pc = "idle",
           \A j \in Registered : status'[j] \in {status[j], NoRow}
    PROVE  (LiveAreRegistered /\ StopReachesAll /\ ShutdownInOrder /\ RowsFitWorkers)'
<1> USE DEF Quiet, QuietInv
<1>1. Live' = Live
  BY DEF Live
<1>2. ASSUME NEW w \in Live PROVE RowFits(w)'
  <2>1. w \in Workers /\ RowFits(w)
    BY <1>2 DEF RowsFitWorkers, Live
  <2>2. wrk[w].job \in Registered
    BY <1>2, <2>1, WorkersAssumption DEF LiveAreRegistered, Registered
  <2> QED
    BY <2>1, <2>2, RowFitsKept
<1> QED
  BY <1>1, <1>2 DEF LiveAreRegistered, StopReachesAll, ShutdownInOrder, RowsFitWorkers

(* A job that waits to be run has no worker, and its worker has no other row.    *)
LEMMA RunnableIsFree ==
    ASSUME Quiet, proc # "draining", NEW j \in Jobs, Runnable(status[j]) PROVE running[j] = NoWorker
<1> SUFFICES ASSUME running[j] # NoWorker PROVE FALSE
  OBVIOUS
<1> DEFINE w == running[j]
<1>1. w \in Workers /\ wrk[w].pc # "idle" /\ wrk[w].job = j
  BY DEF Quiet, SlotInv, RegisteredAreLive, TypeOK
<1>2. ~wrk[w].ctx
  BY <1>1 DEF Quiet, QuietInv, ShutdownInOrder
<1>3. RowFits(w)
  BY <1>1 DEF Quiet, QuietInv, RowsFitWorkers, Live
<1>4. status[j] \in {"running", "done", "failed", NoRow}
  BY <1>1, <1>2, <1>3 DEF RowFits
<1> QED
  BY <1>4 DEF Runnable, NoRow

LEMMA SchedQuiet == ASSUME Quiet, SchedStep \/ SchedReadFails \/ Purge PROVE QuietInv'
<1> USE DEF Quiet, QuietInv
<1>0. NoCancelPending'
  <2>1. UNCHANGED req
    BY DEF SchedStep, SchedTick, SchedCount, SchedQuery, SchedMark, SchedMarkFails, SchedRegister, SchedRefuse,
           LoopExit, SchedReadFails, Purge
  <2> QED
    BY <2>1 DEF NoCancelPending
<1>1. ASSUME UNCHANGED <<status, nextId, proc, running, wrk, toCancel>>,
             proc = "draining" => sched'.pc = "exited",
             proc = "down" => sched'.pc = "idle",
             sched'.waiting \in SUBSET sched.waiting, sched'.pc # "register", sched'.cur = NoJob
      PROVE  QuietInv'
  <2>1. LiveAreRegistered' /\ StopReachesAll' /\ ShutdownInOrder' /\ RowsFitWorkers'
    BY <1>1, WorkersUntouched
  <2>2. \A j \in Jobs : j # NoJob
    BY MaxJobsAssumption DEF Jobs, NoJob
  <2> QED
    BY <1>0, <1>1, <2>1, <2>2 DEF SnapshotIsTrue, IdsAreFresh
<1>2. sched \in SchedType
  BY DEF TypeOK
<1>3. proc = "draining" => sched.pc = "exited"
  BY DEF ShutdownInOrder
<1>4. proc = "down" => sched.pc = "idle"
  BY DEF ShutdownInOrder
<1>5. ASSUME NEW W PROVE /\ Resume(W).pc \in {"idle", "mark"} /\ Resume(W).waiting = W /\ Resume(W).cur = NoJob
  BY <1>2 DEF Resume, SchedType
<1>6. CASE SchedTick \/ SchedCount \/ SchedReadFails \/ SchedRefuse \/ LoopExit
  <2>1. /\ UNCHANGED <<status, nextId, proc, running, wrk, toCancel>>
        /\ sched'.waiting = {} \/ sched'.waiting = sched.waiting
        /\ sched'.pc # "register" /\ sched'.cur = NoJob
    <3>1. CASE SchedCount
      <4>1. sched.pc = "count" /\ sched.cur = NoJob
        BY <3>1 DEF SchedCount, SlotInv
      <4>2. sched' = IdleSched \/ \E n : sched' = [sched EXCEPT !.pc = "query", !.free = n]
        BY <3>1 DEF SchedCount
      <4>3. \A n : LET s == [sched EXCEPT !.pc = "query", !.free = n]
                   IN  s.waiting = sched.waiting /\ s.pc = "query" /\ s.cur = sched.cur
        BY <1>2 DEF SchedType
      <4> QED
        BY <3>1, <4>1, <4>2, <4>3 DEF SchedCount, IdleSched
    <3>2. CASE SchedTick
      BY <3>2 DEF SchedTick, IdleSched
    <3>3. CASE SchedReadFails
      BY <3>3 DEF SchedReadFails, IdleSched
    <3>4. CASE SchedRefuse
      BY <3>4 DEF SchedRefuse, IdleSched
    <3>5. CASE LoopExit
      BY <3>5 DEF LoopExit, IdleSched
    <3> QED
      BY <1>6, <3>1, <3>2, <3>3, <3>4, <3>5
  <2>2. proc = "draining" => sched'.pc = "exited"
    BY <1>3, <1>6 DEF SchedTick, SchedCount, SchedReadFails, SchedRefuse, LoopExit
  <2>3. proc = "down" => sched'.pc = "idle"
    BY <1>4, <1>6 DEF SchedTick, SchedCount, SchedReadFails, SchedRefuse, LoopExit
  <2> QED
    BY <1>1, <2>1, <2>2, <2>3
<1>7. CASE SchedQuery
  <2>1. /\ sched.pc = "query" /\ UNCHANGED <<status, nextId, proc, running, wrk, toCancel>>
        /\ sched' = IF signalled THEN IdleSched ELSE Resume(Oldest({j \in Jobs : Runnable(status[j])}, sched.free))
    BY <1>7 DEF SchedQuery
  <2>2. proc \notin {"draining", "down"}
    BY <1>3, <1>4, <2>1
  <2>3. /\ \A j \in sched'.waiting : j \in Jobs /\ Runnable(status[j])
        /\ sched'.pc # "register" /\ sched'.cur = NoJob
    <3>1. CASE signalled
      BY <2>1, <3>1 DEF IdleSched
    <3>2. CASE ~signalled
      <4> DEFINE W == Oldest({j \in Jobs : Runnable(status[j])}, sched.free)
      <4>1. \A j \in W : j \in Jobs /\ Runnable(status[j])
        BY DEF Oldest
      <4>2. sched' = Resume(W)
        BY <2>1, <3>2
      <4> HIDE DEF W
      <4> QED
        BY <1>5, <4>1, <4>2
    <3> QED
      BY <3>1, <3>2
  <2>4. LiveAreRegistered' /\ StopReachesAll' /\ ShutdownInOrder' /\ RowsFitWorkers'
    BY <2>1, <2>2, WorkersUntouched
  <2>5. \A j \in Jobs : j # NoJob
    BY MaxJobsAssumption DEF Jobs, NoJob
  <2>6. SnapshotIsTrue'
    BY <2>1, <2>2, <2>3, RunnableIsFree DEF SnapshotIsTrue, Runnable
  <2>7. IdsAreFresh'
    BY <2>1, <2>3, <2>5 DEF IdsAreFresh, Runnable, NoRow
  <2> QED
    BY <1>0, <2>4, <2>6, <2>7
<1>8. CASE SchedMark
  <2>1. PICK i \in Jobs : /\ i \in sched.waiting /\ status[i] # NoRow
                          /\ status' = [status EXCEPT ![i] = "running"]
                          /\ sched' = [sched EXCEPT !.pc = "register", !.cur = i, !.waiting = @ \ {i}]
    BY <1>8 DEF SchedMark, IsNext
  <2>2. sched.pc = "mark" /\ UNCHANGED <<nextId, proc, running, wrk, toCancel>>
    BY <1>8 DEF SchedMark
  <2>3. running[i] = NoWorker
    BY <2>1 DEF SnapshotIsTrue
  <2>4. /\ \A j \in Jobs : status'[j] = IF j = i THEN "running" ELSE status[j]
        /\ sched'.pc = "register" /\ sched'.cur = i /\ sched'.waiting = sched.waiting \ {i}
    BY <1>2, <2>1 DEF TypeOK, SchedType
  <2>5. LiveAreRegistered' /\ StopReachesAll' /\ ShutdownInOrder' /\ RowsFitWorkers'
    <3>1. \A j \in Registered : status'[j] \in {status[j], NoRow}
      BY <2>3, <2>4 DEF Registered
    <3> QED
      BY <1>3, <1>4, <2>2, <3>1, WorkersUntouched
  <2>6. SnapshotIsTrue'
    BY <1>2, <2>2, <2>3, <2>4 DEF SnapshotIsTrue, SchedType
  <2>7. IdsAreFresh'
    BY <2>1, <2>2, <2>4 DEF IdsAreFresh
  <2> QED
    BY <1>0, <2>5, <2>6, <2>7
<1>9. CASE SchedMarkFails
  <2>1. PICK i \in Jobs : sched' = Resume(sched.waiting \ {i})
    BY <1>9 DEF SchedMarkFails
  <2>2. sched.pc = "mark" /\ UNCHANGED <<status, nextId, proc, running, wrk, toCancel>>
    BY <1>9 DEF SchedMarkFails
  <2>3. proc \notin {"draining", "down"}
    BY <1>3, <1>4, <2>2
  <2> QED
    BY <1>1, <1>5, <2>1, <2>2, <2>3
<1>10. CASE Purge
  <2>1. PICK S \in SUBSET Jobs : status' = Without(S)
    BY <1>10 DEF Purge
  <2>2. UNCHANGED <<nextId, proc, sched, running, wrk, toCancel>>
    BY <1>10 DEF Purge
  <2>3. \A j \in Jobs : status'[j] \in {status[j], NoRow}
    BY <2>1 DEF Without
  <2>4. LiveAreRegistered' /\ StopReachesAll' /\ ShutdownInOrder' /\ RowsFitWorkers'
    BY <1>3, <1>4, <2>2, <2>3, WorkersUntouched DEF Registered
  <2>5. SnapshotIsTrue'
    BY <1>2, <2>2, <2>3 DEF SnapshotIsTrue, SchedType, SlotInv
  <2>6. IdsAreFresh'
    BY <2>2, <2>3 DEF IdsAreFresh
  <2> QED
    BY <1>0, <2>4, <2>5, <2>6
<1>11. CASE SchedRegister
  <2>1. PICK w \in Workers :
             /\ wrk[w].pc = "idle" /\ w # NoWorker
             /\ running' = [running EXCEPT ![sched.cur] = w]
             /\ wrk' = [wrk EXCEPT ![w] = [IdleWorker EXCEPT !.pc = "setup", !.job = sched.cur]]
             /\ sched.cur \in Jobs \ sched.waiting /\ sched.cur # NoJob
             /\ sched.waiting \in SUBSET Jobs
    BY <1>11, RegisterEffect
  <2>2. /\ sched.pc = "register" /\ ~Stopping /\ sched' = Resume(sched.waiting)
        /\ UNCHANGED <<status, nextId, proc, toCancel>>
    BY <1>11 DEF SchedRegister
  <2>3. proc = "up"
    BY <1>4, <2>2 DEF Stopping, TypeOK
  <2>4. /\ running[sched.cur] = NoWorker /\ status[sched.cur] \in {"running", NoRow}
        /\ sched.cur < nextId
    <3>1. sched.cur \in Int /\ nextId \in Int
      BY <2>1, MaxJobsAssumption DEF Jobs, TypeOK
    <3> QED
      BY <2>1, <2>2, <3>1 DEF SnapshotIsTrue, IdsAreFresh
  <2>5. /\ \A v \in Workers : v # w => wrk'[v] = wrk[v]
        /\ wrk'[w].pc = "setup" /\ wrk'[w].job = sched.cur /\ wrk'[w].ctx = FALSE /\ wrk'[w].st = "none"
        /\ \A j \in Jobs : running'[j] = IF j = sched.cur THEN w ELSE running[j]
    BY <2>1 DEF IdleWorker, TypeOK, WorkersOK
  <2>6. Live' = Live \cup {w}
    BY <2>1, <2>5 DEF Live
  <2>7. LiveAreRegistered'
    BY <2>1, <2>4, <2>5, <2>6, WorkersAssumption DEF LiveAreRegistered, Live
  <2>8. ShutdownInOrder' /\ StopReachesAll'
    BY <2>2, <2>3, <2>5 DEF ShutdownInOrder, StopReachesAll
  <2>9. RowsFitWorkers'
    <3> SUFFICES ASSUME NEW v \in Live' PROVE RowFits(v)'
      BY DEF RowsFitWorkers
    <3>1. CASE v = w
      BY <2>2, <2>4, <2>5, <3>1 DEF RowFits
    <3>2. CASE v # w
      <4>1. v \in Live /\ v \in Workers /\ wrk'[v] = wrk[v] /\ RowFits(v)
        BY <2>5, <2>6, <3>2 DEF Live, RowsFitWorkers
      <4> QED
        BY <2>2, <4>1, RowFitsKept
    <3> QED
      BY <3>1, <3>2
  <2>10. SnapshotIsTrue'
    <3>1. sched'.waiting = sched.waiting /\ sched'.pc # "register"
      BY <1>5, <2>2
    <3> QED
      BY <2>1, <2>2, <2>5, <3>1 DEF SnapshotIsTrue
  <2>11. IdsAreFresh'
    <3>1. sched'.waiting = sched.waiting /\ sched'.cur = NoJob
      BY <1>5, <2>2
    <3>2. \A j \in Jobs : j # NoJob /\ (j >= nextId => j # sched.cur)
      BY MaxJobsAssumption DEF Jobs, NoJob, IdsAreFresh
    <3> QED
      BY <2>2, <2>5, <3>1, <3>2 DEF IdsAreFresh
  <2> QED
    BY <1>0, <2>7, <2>8, <2>9, <2>10, <2>11
<1> QED
  BY <1>6, <1>7, <1>8, <1>9, <1>10, <1>11 DEF SchedStep

LEMMA RunQuiet == ASSUME Quiet, NEW w \in Workers, RunStep(w) PROVE QuietInv'
<1> USE DEF Quiet, QuietInv
<1>1. UNCHANGED <<nextId, proc, sched>>
  BY DEF RunStep, RunSetup, RunSetupFails, TransferExits, TransferFails, TransferAborts, RunReread,
         RunRereadFails, RunBranch, RunFinish, RunFinishFails, RunReturn, OnlyWorker
<1>2. sched \in SchedType
  BY DEF TypeOK
(* A step within the run: only its row may change, to what fits. *)
<1>3. ASSUME wrk[w].pc # "idle", UNCHANGED <<running, toCancel, req>>,
             NEW pc \in {"transfer", "reread", "branch", "finish", "cleanup"}, NEW st, Goes(w, pc, st),
             pc = "finish" /\ st = "interrupted" => wrk[w].ctx,
             \A j \in Jobs : j # wrk[w].job => status'[j] = status[j],
             status[wrk[w].job] = NoRow => status'[wrk[w].job] = NoRow,
             RowFits(w)'
      PROVE  QuietInv'
  <2>1. /\ \A v \in Workers : v # w => wrk'[v] = wrk[v]
        /\ wrk'[w].pc = pc /\ wrk'[w].st = st
        /\ wrk'[w].job = wrk[w].job /\ wrk'[w].ctx = wrk[w].ctx
    BY <1>3, GoesEffect
  <2>2. Live' = Live /\ w \in Live
    BY <1>3, <2>1 DEF Live
  <2>3. LiveAreRegistered' /\ StopReachesAll'
    BY <1>1, <1>3, <2>1, <2>2 DEF LiveAreRegistered, StopReachesAll, Live
  <2>4. ShutdownInOrder'
    BY <1>1, <1>3, <2>1, <2>2 DEF ShutdownInOrder
  <2>5. RowsFitWorkers'
    <3> SUFFICES ASSUME NEW v \in Live, v # w PROVE RowFits(v)'
      BY <1>3, <2>2 DEF RowsFitWorkers
    <3>1. v \in Workers /\ RowFits(v) /\ wrk'[v] = wrk[v]
      BY <2>1 DEF Live, RowsFitWorkers
    <3>2. wrk[v].job \in Jobs /\ wrk[v].job # wrk[w].job
      BY <2>2 DEF LiveAreRegistered
    <3> QED
      BY <1>3, <3>1, <3>2, RowFitsKept
  <2>6. wrk[w].job \in Jobs /\ running[wrk[w].job] = w /\ w # NoWorker
    BY <2>2, WorkersAssumption DEF LiveAreRegistered
  <2>7. SnapshotIsTrue'
    BY <1>1, <1>2, <1>3, <2>6 DEF SnapshotIsTrue, SchedType, SlotInv
  <2>8. IdsAreFresh'
    BY <1>1, <1>3, <2>6 DEF IdsAreFresh
  <2>9. NoCancelPending'
    BY <1>3 DEF NoCancelPending
  <2> QED
    BY <2>3, <2>4, <2>5, <2>7, <2>8, <2>9
<1>4. ASSUME wrk[w].pc # "idle" PROVE RowFits(w)
  BY <1>4 DEF RowsFitWorkers, Live
(* A step that leaves the row alone. *)
<1>5. ASSUME wrk[w].pc \notin {"idle", "cleanup"}, UNCHANGED <<status, running, toCancel, req>>,
             NEW pc \in {"transfer", "reread", "branch", "finish", "cleanup"}, NEW st, Goes(w, pc, st),
             pc = "finish" /\ st = "interrupted" => wrk[w].ctx
      PROVE  QuietInv'
  <2>1. status[wrk[w].job] \in {"running", NoRow}
    BY <1>4, <1>5 DEF RowFits
  <2>2. wrk'[w].job = wrk[w].job
    BY <1>5, GoesEffect
  <2>3. RowFits(w)'
    BY <1>5, <2>1, <2>2 DEF RowFits
  <2> QED
    BY <1>3, <1>5, <2>3
<1>6. CASE RunSetup(w) \/ RunSetupFails(w) \/ TransferExits(w) \/ TransferFails(w) \/ TransferAborts(w)
  BY <1>5, <1>6 DEF RunSetup, RunSetupFails, TransferExits, TransferFails, TransferAborts, OnlyWorker
<1>7. CASE RunReread(w) \/ RunRereadFails(w) \/ RunBranch(w) \/ RunFinishFails(w)
  BY <1>5, <1>7 DEF RunReread, RunRereadFails, RunBranch, RunFinishFails, OnlyWorker
<1>8. CASE RunFinish(w)
  <2>1. /\ wrk[w].pc = "finish" /\ Goes(w, "cleanup", "none")
        /\ status' = IF wrk[w].job \in Rows THEN [status EXCEPT ![wrk[w].job] = wrk[w].st] ELSE status
        /\ UNCHANGED <<running, toCancel, req>>
    BY <1>8 DEF RunFinish, OnlyWorker
  <2>2. wrk[w].st \in {"done", "failed", "interrupted"} /\ (wrk[w].st = "interrupted" => wrk[w].ctx)
    BY <2>1 DEF TypeOK, WorkersOK, WorkerType, ShutdownInOrder
  <2>3. /\ \A j \in Jobs : j # wrk[w].job => status'[j] = status[j]
        /\ status[wrk[w].job] = NoRow => status'[wrk[w].job] = NoRow
    BY <2>1 DEF Rows, TypeOK
  <2>4. wrk'[w].pc = "cleanup" /\ wrk'[w].job = wrk[w].job /\ wrk'[w].ctx = wrk[w].ctx
    BY <2>1, GoesEffect
  <2>5. status'[wrk[w].job] \in {NoRow, wrk[w].st}
    <3>1. wrk[w].job \in Jobs
      BY <2>1 DEF LiveAreRegistered, Live
    <3> QED
      BY <2>1, <3>1 DEF Rows, TypeOK
  <2>6. RowFits(w)'
    <3>1. CASE wrk[w].ctx
      BY <2>2, <2>4, <2>5, <3>1 DEF RowFits
    <3>2. CASE ~wrk[w].ctx
      BY <2>2, <2>4, <2>5, <3>2 DEF RowFits
    <3> QED
      BY <3>1, <3>2
  <2> QED
    BY <1>3, <2>1, <2>3, <2>6
<1>9. CASE RunReturn(w)
  <2>1. /\ wrk[w].pc = "cleanup" /\ wrk' = [wrk EXCEPT ![w] = IdleWorker]
        /\ running' = [running EXCEPT ![wrk[w].job] = NoWorker]
        /\ toCancel' = toCancel \ {w}
        /\ req' = [r \in Requests |-> IF req[r].fn = w THEN [req[r] EXCEPT !.fn = NoWorker] ELSE req[r]]
        /\ UNCHANGED status
    BY <1>9 DEF RunReturn
  <2>2. /\ \A v \in Workers : v # w => wrk'[v] = wrk[v]
        /\ wrk'[w].pc = "idle" /\ wrk'[w].ctx = FALSE
    BY <2>1 DEF IdleWorker, TypeOK, WorkersOK
  <2>3. Live' = Live \ {w}
    BY <2>2 DEF Live
  <2>4. \A j \in Jobs : running'[j] = IF j = wrk[w].job THEN NoWorker ELSE running[j]
    BY <2>1 DEF TypeOK
  <2>5. w \in Live /\ \A v \in Live : v # w => wrk[v].job # wrk[w].job
    BY <2>1 DEF LiveAreRegistered, Live
  <2>6. LiveAreRegistered' /\ StopReachesAll'
    BY <1>1, <2>2, <2>3, <2>4, <2>5 DEF LiveAreRegistered, StopReachesAll, Live
  <2>7. ShutdownInOrder'
    BY <1>1, <2>1, <2>2, <2>3 DEF ShutdownInOrder
  <2>8. RowsFitWorkers'
    <3> SUFFICES ASSUME NEW v \in Live, v # w PROVE RowFits(v)'
      BY <2>3 DEF RowsFitWorkers
    <3> QED
      BY <2>1, <2>2, RowFitsKept DEF RowsFitWorkers, Live
  <2>9. SnapshotIsTrue' /\ IdsAreFresh'
    BY <1>1, <1>2, <2>1, <2>4 DEF SnapshotIsTrue, IdsAreFresh, SchedType, SlotInv
  <2>10. NoCancelPending'
    BY <2>1 DEF NoCancelPending, TypeOK, RequestsOK, RequestType
  <2> QED
    BY <2>6, <2>7, <2>8, <2>9, <2>10
<1> QED
  BY <1>6, <1>7, <1>8, <1>9 DEF RunStep

(* A handler or the UI: the rows change, and nothing else that matters here.     *)
LEMMA RowsOnly ==
    ASSUME Quiet, UNCHANGED <<nextId, proc, sched, running, wrk, toCancel>>,
           \A j \in Jobs : status'[j] \in {status[j], NoRow}
    PROVE  (LiveAreRegistered /\ StopReachesAll /\ ShutdownInOrder /\ RowsFitWorkers
              /\ SnapshotIsTrue /\ IdsAreFresh)'
<1> USE DEF Quiet, QuietInv
<1>1. sched \in SchedType
  BY DEF TypeOK
<1>2. (LiveAreRegistered /\ StopReachesAll /\ ShutdownInOrder /\ RowsFitWorkers)'
  BY WorkersUntouched DEF Registered, ShutdownInOrder
<1>3. SnapshotIsTrue'
  BY <1>1 DEF SnapshotIsTrue, SchedType, SlotInv
<1>4. IdsAreFresh'
  BY DEF IdsAreFresh
<1> QED
  BY <1>2, <1>3, <1>4

(* A new row. *)
LEMMA NewRow ==
    ASSUME Quiet, UNCHANGED <<proc, sched, running, wrk, toCancel>>, nextId \in Jobs, nextId' = nextId + 1,
           status' = [status EXCEPT ![nextId] = "queued"]
    PROVE  (LiveAreRegistered /\ StopReachesAll /\ ShutdownInOrder /\ RowsFitWorkers
              /\ SnapshotIsTrue /\ IdsAreFresh)'
<1> USE DEF Quiet, QuietInv
<1>1. sched \in SchedType
  BY DEF TypeOK
<1>2. nextId >= nextId /\ \A j \in Jobs : j >= nextId + 1 => j >= nextId /\ j # nextId
  BY MaxJobsAssumption DEF Jobs
<1>3. \A j \in Jobs : status'[j] = IF j = nextId THEN "queued" ELSE status[j]
  BY DEF TypeOK
<1>4. nextId \notin Registered /\ nextId \notin sched.waiting /\ nextId # sched.cur
  BY <1>2 DEF IdsAreFresh, Registered
<1>5. (LiveAreRegistered /\ StopReachesAll /\ ShutdownInOrder /\ RowsFitWorkers)'
  BY <1>3, <1>4, WorkersUntouched DEF Registered, ShutdownInOrder
<1>6. SnapshotIsTrue'
  BY <1>1, <1>3, <1>4 DEF SnapshotIsTrue, SchedType, SlotInv
<1>7. IdsAreFresh'
  BY <1>2, <1>3 DEF IdsAreFresh
<1> QED
  BY <1>5, <1>6, <1>7

LEMMA WithoutOnly == \A S : \A j \in Jobs : Without(S)[j] \in {status[j], NoRow}
  BY DEF Without

LEMMA ClientQuiet == ASSUME Quiet, Client PROVE QuietInv'
<1> USE DEF Quiet, QuietInv
<1>1. UNCHANGED <<proc, sched, running, wrk, toCancel, req>>
  BY DEF Client, CreateJob, DeleteServer, PutSettings, OnlyRequests
<1>2. NoCancelPending'
  BY <1>1 DEF NoCancelPending
<1>3. CASE CreateJob
  BY <1>1, <1>2, <1>3, NewRow DEF CreateJob
<1>4. CASE DeleteServer
  BY <1>1, <1>2, <1>4, WithoutOnly, RowsOnly DEF DeleteServer
<1>5. CASE PutSettings
  BY <1>1, <1>2, <1>5, RowsOnly DEF PutSettings
<1> QED
  BY <1>3, <1>4, <1>5 DEF Client

LEMMA RequestQuiet ==
    ASSUME "cancel" \notin Ops, Quiet, NEW r \in Requests, ReqCheck(r) \/ ReqStep(r) \/ ReqFails(r)
    PROVE  QuietInv'
<1> USE DEF Quiet, QuietInv
<1>1. ~CancelWrite(r) /\ ~CancelLookup(r) /\ ~CancelFire(r)
  BY DEF CancelWrite, CancelLookup, CancelFire, NoCancelPending
<1>2. ASSUME Returns(r) PROVE NoCancelPending'
  BY <1>2 DEF Returns, IdleReq, NoCancelPending, TypeOK, RequestsOK
<1>3. UNCHANGED <<proc, sched, running, wrk, toCancel>>
  BY <1>1 DEF ReqCheck, ReqStep, ReqFails, DeleteRow, RetryInsert, OnlyRequests
<1>4. CASE ReqCheck(r)
  <2>1. NoCancelPending'
    BY <1>4 DEF ReqCheck, IdleReq, NoCancelPending, TypeOK, RequestsOK
  <2> QED
    BY <1>3, <1>4, <2>1, RowsOnly DEF ReqCheck
<1>5. CASE DeleteRow(r)
  BY <1>2, <1>3, <1>5, WithoutOnly, RowsOnly DEF DeleteRow
<1>6. CASE RetryInsert(r)
  BY <1>2, <1>3, <1>6, NewRow, RowsOnly DEF RetryInsert
<1>7. CASE ReqFails(r)
  BY <1>2, <1>3, <1>7, RowsOnly DEF ReqFails
<1> QED
  BY <1>1, <1>4, <1>5, <1>6, <1>7 DEF ReqStep

LEMMA NextQuiet == ASSUME "cancel" \notin Ops, Quiet, [Next]_vars PROVE QuietInv'
<1>1. CASE UNCHANGED vars
  BY <1>1 DEF Quiet, QuietInv, vars, LiveAreRegistered, StopReachesAll, ShutdownInOrder, RowsFitWorkers,
              RowFits, Live, SnapshotIsTrue, IdsAreFresh, NoCancelPending
<1>2. CASE Next
  BY <1>2, ProcessQuiet, SchedQuiet, RunQuiet, ClientQuiet, RequestQuiet DEF Next
<1> QED
  BY <1>1, <1>2

(* Without cancels, where a worker is tells what its row can say, snapshots are  *)
(* true when they are used and shutdown goes in order, in every behaviour.       *)
THEOREM QuietInvariance == ASSUME "cancel" \notin Ops PROVE Spec => []Quiet
<1>1. Init => Quiet
  BY InitTypeOK, InitSlotInv, InitQuiet DEF Quiet
<1>2. Quiet /\ [Next]_vars => Quiet'
  <2>1. ASSUME Quiet, [Next]_vars PROVE Quiet'
    <3>1. TypeOK' /\ SlotInv'
      BY <2>1, NextTypeOK, NextSlotInv DEF Quiet
    <3>2. QuietInv'
      BY <2>1, NextQuiet
    <3> QED
      BY <3>1, <3>2 DEF Quiet
  <2> QED
    BY <2>1
<1> QED
  BY <1>1, <1>2, PTL DEF Spec

(* Without cancels a job never has two workers, in every behaviour.              *)
THEOREM OneWorkerHolds == ASSUME "cancel" \notin Ops PROVE Spec => []OneWorkerPerJob
<1>1. Quiet => OneWorkerPerJob
  BY OneWorker DEF Quiet, QuietInv
<1> QED
  BY <1>1, QuietInvariance, PTL

(* Without cancels every worker is in the map of running jobs.                   *)
THEOREM LiveAreRegisteredHolds == ASSUME "cancel" \notin Ops PROVE Spec => []LiveAreRegistered
<1>1. Quiet => LiveAreRegistered
  BY DEF Quiet, QuietInv
<1> QED
  BY <1>1, QuietInvariance, PTL

(* Without cancels Stop waits for no worker that was not told to end.            *)
THEOREM StopReachesAllHolds == ASSUME "cancel" \notin Ops PROVE Spec => []StopReachesAll
<1>1. Quiet => StopReachesAll
  BY DEF Quiet, QuietInv
<1> QED
  BY <1>1, QuietInvariance, PTL

-----------------------------------------------------------------------------
(* The jobs table implements JobLifecycle. *)

LEMMA LifecycleMove ==
    ASSUME TypeOK, NEW i \in Jobs, NEW to \in AllStatuses, CanTransition(status[i], to),
           status' = [status EXCEPT ![i] = to], UNCHANGED nextId
    PROVE  Lifecycle!Move
<1>1. status' = [j \in Jobs |-> IF j \in {i} THEN to ELSE status[j]]
  BY DEF TypeOK
<1>2. \A j \in {i} : CanTransition(status[j], to)
  OBVIOUS
<1>3. {i} \in SUBSET Jobs
  OBVIOUS
<1> QED
  BY <1>1, <1>2, <1>3 DEF Lifecycle!Move, Lifecycle!Jobs, Jobs, Lifecycle!CanTransition, CanTransition,
         Lifecycle!transitions, transitions, Lifecycle!AllStatuses, AllStatuses

LEMMA LifecycleRemove ==
    ASSUME NEW S \in SUBSET Jobs, status' = Without(S), UNCHANGED nextId PROVE Lifecycle!Remove
  BY DEF Lifecycle!Remove, Lifecycle!Jobs, Jobs, Without, Lifecycle!NoRow, NoRow

LEMMA LifecycleCreate ==
    ASSUME nextId \in Jobs, status' = [status EXCEPT ![nextId] = "queued"], nextId' = nextId + 1
    PROVE  Lifecycle!Create
  BY DEF Lifecycle!Create, Lifecycle!Jobs, Jobs

(* Every step of the job manager is one of the table's, or leaves it alone.      *)
LEMMA StepsFollow ==
    ASSUME "cancel" \notin Ops, Quiet, [Next]_vars
    PROVE  Lifecycle!Next \/ UNCHANGED <<status, nextId>>
<1> USE DEF Lifecycle!Next
<1>0. TypeOK
  BY DEF Quiet
<1>1. CASE Start
  <2> DEFINE S == {j \in Jobs : status[j] = "running"}
  <2>1. status' = [j \in Jobs |-> IF j \in S THEN "interrupted" ELSE status[j]] /\ UNCHANGED nextId
    BY <1>1 DEF Start, Recovered
  <2>2. \A j \in S : Lifecycle!CanTransition(status[j], "interrupted")
    BY DEF Lifecycle!CanTransition, Lifecycle!transitions, Lifecycle!AllStatuses
  <2>3. S \in SUBSET Lifecycle!Jobs /\ "interrupted" \in Lifecycle!AllStatuses
    BY DEF Lifecycle!Jobs, Jobs, Lifecycle!AllStatuses
  <2> HIDE DEF S
  <2>4. Lifecycle!Move
    BY <2>1, <2>2, <2>3 DEF Lifecycle!Move, Lifecycle!Jobs, Jobs
  <2> QED
    BY <2>4
<1>2. CASE Process /\ ~Start
  BY <1>2 DEF Process, Signal, StopBegin, StopCancel, Exit, Crash, LoseMemory
<1>3. CASE SchedMark
  <2>1. PICK i \in Jobs : /\ i \in sched.waiting /\ status[i] # NoRow
                          /\ status' = [status EXCEPT ![i] = "running"]
    BY <1>3 DEF SchedMark, IsNext
  <2>2. status[i] \in {"queued", "interrupted"}
    BY <2>1 DEF Quiet, QuietInv, SnapshotIsTrue
  <2>3. CanTransition(status[i], "running") /\ "running" \in AllStatuses
    BY <2>2 DEF CanTransition, transitions, AllStatuses
  <2> QED
    BY <1>0, <1>3, <2>1, <2>3, LifecycleMove DEF SchedMark
<1>4. CASE Purge
  BY <1>4, LifecycleRemove DEF Purge
<1>5. CASE SchedReadFails \/ (SchedStep /\ ~SchedMark)
  BY <1>5 DEF SchedReadFails, SchedStep, SchedTick, SchedCount, SchedQuery, SchedMarkFails, SchedRegister,
              SchedRefuse, LoopExit
<1>6. ASSUME NEW w \in Workers, RunFinish(w) PROVE Lifecycle!Next \/ UNCHANGED <<status, nextId>>
  <2>1. /\ wrk[w].pc = "finish" /\ UNCHANGED nextId
        /\ status' = IF wrk[w].job \in Rows THEN [status EXCEPT ![wrk[w].job] = wrk[w].st] ELSE status
    BY <1>6 DEF RunFinish, OnlyWorker
  <2>2. CASE wrk[w].job \in Rows
    <3>1. wrk[w].job \in Jobs /\ status[wrk[w].job] = "running"
      BY <2>1, <2>2 DEF Quiet, QuietInv, RowsFitWorkers, RowFits, Live, Rows
    <3>2. wrk[w].st \in {"done", "failed", "interrupted"}
      BY <2>1 DEF Quiet, TypeOK, WorkersOK, WorkerType
    <3>3. CanTransition(status[wrk[w].job], wrk[w].st) /\ wrk[w].st \in AllStatuses
      BY <3>1, <3>2 DEF CanTransition, transitions, AllStatuses
    <3> QED
      BY <1>0, <2>1, <2>2, <3>1, <3>3, LifecycleMove
  <2>3. CASE wrk[w].job \notin Rows
    BY <2>1, <2>3
  <2> QED
    BY <2>2, <2>3
<1>7. ASSUME NEW w \in Workers, RunStep(w), ~RunFinish(w) PROVE UNCHANGED <<status, nextId>>
  BY <1>7 DEF RunStep, RunSetup, RunSetupFails, TransferExits, TransferFails, TransferAborts, RunReread,
              RunRereadFails, RunBranch, RunFinishFails, RunReturn, OnlyWorker
<1>8. CASE Client
  <2>1. CASE CreateJob
    BY <2>1, LifecycleCreate DEF CreateJob
  <2>2. CASE DeleteServer
    BY <2>2, LifecycleRemove DEF DeleteServer, Rows
  <2>3. CASE PutSettings
    BY <2>3 DEF PutSettings
  <2> QED
    BY <1>8, <2>1, <2>2, <2>3 DEF Client
<1>9. ASSUME NEW r \in Requests, ReqCheck(r) \/ ReqStep(r) \/ ReqFails(r)
      PROVE  Lifecycle!Next \/ UNCHANGED <<status, nextId>>
  <2>1. ~CancelWrite(r) /\ ~CancelLookup(r) /\ ~CancelFire(r)
    BY DEF CancelWrite, CancelLookup, CancelFire, Quiet, QuietInv, NoCancelPending
  <2>2. CASE DeleteRow(r)
    <3>1. {req[r].job} \in SUBSET Jobs
      BY <2>2 DEF DeleteRow, Quiet, TypeOK, RequestsOK
    <3> QED
      BY <2>2, <3>1, LifecycleRemove DEF DeleteRow
  <2>3. CASE RetryInsert(r)
    BY <2>3, LifecycleCreate DEF RetryInsert
  <2>4. CASE ReqCheck(r) \/ ReqFails(r)
    BY <2>4 DEF ReqCheck, ReqFails
  <2> QED
    BY <1>9, <2>1, <2>2, <2>3, <2>4 DEF ReqStep
<1>10. CASE UNCHANGED vars
  BY <1>10 DEF vars
<1> QED
  BY <1>1, <1>2, <1>3, <1>4, <1>5, <1>6, <1>7, <1>8, <1>9, <1>10 DEF Next

(* Without cancels the jobs table implements JobLifecycle: the first state is    *)
(* one of its, and every step of the scheduler, the workers, the handlers, a     *)
(* crash or a restart is one of its steps or changes nothing in the table.       *)
THEOREM ImplementsLifecycle == ASSUME "cancel" \notin Ops PROVE Spec => LifecycleSpec
<1>1. Init => Lifecycle!Init
  BY DEF Init, Lifecycle!Init, Lifecycle!Jobs, Jobs, Lifecycle!NoRow, NoRow
<1>2. Quiet /\ [Next]_vars => [Lifecycle!Next]_(Lifecycle!lifecycle)
  BY StepsFollow DEF Lifecycle!lifecycle
<1> QED
  BY <1>1, <1>2, QuietInvariance, PTL DEF Spec, LifecycleSpec, Lifecycle!Spec

(* Without cancels a row in a terminal status is only ever deleted.              *)
THEOREM TerminalIsFinalHolds == ASSUME "cancel" \notin Ops PROVE Spec => TerminalIsFinal
<1> DEFINE Final == \A j \in Jobs : Terminal(status[j]) => status'[j] \in {status[j], NoRow}
<1>1. ASSUME Quiet, Lifecycle!Next PROVE Final
  <2> SUFFICES ASSUME NEW j \in Jobs, Terminal(status[j]) PROVE status'[j] \in {status[j], NoRow}
    OBVIOUS
  <2>1. CASE Lifecycle!Create
    <3>1. status' = [status EXCEPT ![nextId] = "queued"] /\ nextId \in Jobs
      BY <2>1 DEF Lifecycle!Create, Lifecycle!Jobs, Jobs
    <3>2. status[nextId] = NoRow
      BY <1>1, <3>1, MaxJobsAssumption DEF Quiet, QuietInv, IdsAreFresh, Jobs
    <3>3. j # nextId
      BY <3>2 DEF Terminal, AllStatuses, NoRow
    <3> QED
      BY <1>1, <3>1, <3>3 DEF Quiet, TypeOK
  <2>2. CASE Lifecycle!Move
    <3>1. PICK S \in SUBSET Jobs, to \in Lifecycle!AllStatuses :
             /\ \A i \in S : Lifecycle!CanTransition(status[i], to)
             /\ status' = [i \in Jobs |-> IF i \in S THEN to ELSE status[i]]
      BY <2>2 DEF Lifecycle!Move, Lifecycle!Jobs, Jobs
    <3>2. j \notin S
      BY <3>1 DEF Terminal, transitions, Lifecycle!CanTransition, Lifecycle!transitions
    <3> QED
      BY <3>1, <3>2
  <2>3. CASE Lifecycle!Remove
    BY <2>3 DEF Lifecycle!Remove, Lifecycle!Jobs, Jobs, Lifecycle!NoRow, NoRow
  <2> QED
    BY <1>1, <2>1, <2>2, <2>3 DEF Lifecycle!Next
<1>2. Quiet /\ UNCHANGED <<status, nextId>> => Final
  OBVIOUS
<1>3. ASSUME Quiet, [Next]_vars PROVE Final
  BY <1>1, <1>2, <1>3, StepsFollow
<1> HIDE DEF Final
<1>4. Quiet /\ [Next]_vars => [Final]_vars
  BY <1>3
<1>5. Spec => [][Final]_vars
  BY <1>4, QuietInvariance, PTL DEF Spec
<1> QED
  BY <1>5 DEF TerminalIsFinal, Final
=============================================================================
