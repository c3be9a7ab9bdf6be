------------------------------- MODULE Tracker -------------------------------
(***************************************************************************)
(* internal/jobs/tracker.go and the goroutines of one run that feed it     *)
(* (internal/jobs/manager.go): a scanner of lftp's output, pollDest, and   *)
(* the worker, which completes it.  Every method is two sections under     *)
(* tracker.mu, the observation and the decision to flush, followed by the  *)
(* flush itself, which writes the row outside the mutex.                   *)
(*                                                                         *)
(* The state of the tracker that is only displayed, speed and eta, is left *)
(* out: both follow the bytes they are flushed with.                       *)
(***************************************************************************)
EXTENDS Integers, FiniteSetsExt

CONSTANTS
    Scanners,    \* goroutines that read lftp's output; transfer waits for them
    Poller,      \* pollDest; nothing waits for it
    Worker,      \* run itself
    Sizes,       \* byte counts that occur
    Percents,    \* percentages that occur; -1 when a line has none
    JobTotal     \* jobs.total_bytes: the size of the remote path, 0 when unknown

ASSUME SizesAssumption    == Sizes \subseteq Nat /\ 0 \in Sizes /\ JobTotal \in Sizes
ASSUME PercentsAssumption == Percents \subseteq -1..100
ASSUME ActorsAssumption   == Poller # Worker /\ {Poller, Worker} \cap Scanners = {}

Goroutines == Scanners \cup {Poller, Worker}

VARIABLES
    phase,      \* "transfer"; "complete" if lftp succeeded, then "over"; else "failed"
    total, bytes, dirty,
    recent,     \* less than flushInterval has passed since lastFlush
    quiet,      \* stale(): no line was parsed for staleAfter
    at,         \* [Goroutines -> "idle", "size" (measuring), "maybe" (maybeFlush), "write" (flush)]
    taken,      \* [Goroutines -> Nat]: the bytes a flush under way is about to write
    row,        \* jobs.transferred_bytes
    handed,     \* history: the bytes of the newest flush
    overtaken,  \* history: what row holds was written after a newer flush
    lost        \* history: the newest flush could not be written

vars == <<phase, total, bytes, dirty, recent, quiet, at, taken, row, handed, overtaken, lost>>

Init ==
    /\ phase = "transfer"
    /\ total = JobTotal
    /\ bytes = 0
    /\ dirty = FALSE
    /\ recent = FALSE
    /\ quiet = TRUE
    /\ at = [g \in Goroutines |-> "idle"]
    /\ taken = [g \in Goroutines |-> 0]
    /\ row \in Sizes              \* a resumed job has bytes already
    /\ handed = 0
    /\ overtaken = FALSE /\ lost = FALSE

Lines == [Bytes : Sizes, Total : Sizes, Percent : Percents]

(* What a percentage of the total comes to; none counts for nothing. *)
Share(p, t) == IF p >= 0 /\ t > 0 THEN (t * p) \div 100 ELSE 0

(* Seeded bug: the last line wins, however little it reports. *)
ObserveLast(s) ==
    /\ phase \in {"transfer", "failed"}
    /\ at[s] = "idle"
    /\ \E p \in Lines :
         /\ total' = IF p.Total > 0 THEN p.Total ELSE total
         /\ bytes' = Max({Share(p.Percent, total'), p.Bytes})
    /\ dirty' = TRUE
    /\ quiet' = FALSE
    /\ at' = [at EXCEPT ![s] = "maybe"]
    /\ UNCHANGED <<phase, recent, taken, row, handed, overtaken, lost>>

(* Seeded bug: "got N of M" is taken for N bytes and M more. *)
ObserveRemaining(s) ==
    /\ phase \in {"transfer", "failed"}
    /\ at[s] = "idle"
    /\ \E p \in Lines :
         /\ total' = IF p.Total > 0 THEN p.Bytes + p.Total ELSE total
         /\ bytes' = Max({bytes, Share(p.Percent, total'), p.Bytes})
    /\ dirty' = TRUE
    /\ quiet' = FALSE
    /\ at' = [at EXCEPT ![s] = "maybe"]
    /\ UNCHANGED <<phase, recent, taken, row, handed, overtaken, lost>>

(* observe: a line was parsed. *)
Observe(s) ==
    /\ phase \in {"transfer", "failed"}
    /\ at[s] = "idle"
    /\ \E p \in Lines :
         /\ total' = IF p.Total > 0 THEN p.Total ELSE total
         /\ bytes' = Max({bytes, Share(p.Percent, total'), p.Bytes})
    /\ dirty' = TRUE
    /\ quiet' = FALSE
    /\ at' = [at EXCEPT ![s] = "maybe"]
    /\ UNCHANGED <<phase, recent, taken, row, handed, overtaken, lost>>

(* pollDest found lftp silent and measures the destination, which takes time. *)
(* Its select may still take the ticker when the run is over.                  *)
PollStale ==
    /\ quiet
    /\ at[Poller] = "idle"
    /\ at' = [at EXCEPT ![Poller] = "size"]
    /\ UNCHANGED <<phase, total, bytes, dirty, recent, quiet, taken, row, handed, overtaken, lost>>

(* The measurement failed. *)
PollFails ==
    /\ at[Poller] = "size"
    /\ at' = [at EXCEPT ![Poller] = "idle"]
    /\ UNCHANGED <<phase, total, bytes, dirty, recent, quiet, taken, row, handed, overtaken, lost>>

(* Seeded bug: a poll that finds more bytes does not ask for a flush. *)
ObserveSizeQuietly ==
    /\ at[Poller] = "size"
    /\ \E n \in Sizes : bytes' = Max({bytes, n}) /\ dirty' = dirty
    /\ at' = [at EXCEPT ![Poller] = "maybe"]
    /\ UNCHANGED <<phase, total, recent, quiet, taken, row, handed, overtaken, lost>>

(* observeSize, also when the run has ended meanwhile. *)
ObserveSize ==
    /\ at[Poller] = "size"
    /\ \E n \in Sizes : bytes' = Max({bytes, n}) /\ dirty' = (dirty \/ n > bytes)
    /\ at' = [at EXCEPT ![Poller] = "maybe"]
    /\ UNCHANGED <<phase, total, recent, quiet, taken, row, handed, overtaken, lost>>

(* transfer returns: after success with its scanners done, whereas they may go *)
(* on for a while when the context ended it.                                   *)
TransferEnds ==
    /\ phase = "transfer"
    /\ \/ phase' = "complete" /\ \A s \in Scanners : at[s] = "idle"
       \/ phase' = "failed"
    /\ UNCHANGED <<total, bytes, dirty, recent, quiet, at, taken, row, handed, overtaken, lost>>

(* complete, up to its forced flush. *)
Complete ==
    /\ phase = "complete"
    /\ at[Worker] = "idle"
    /\ bytes' = Max({bytes, total})
    /\ dirty' = TRUE
    /\ at' = [at EXCEPT ![Worker] = "maybe"]
    /\ phase' = "over"
    /\ UNCHANGED <<total, recent, quiet, taken, row, handed, overtaken, lost>>

(* maybeFlush: nothing new, or flushed less than a second ago, unless forced. *)
MaybeFlush(g) ==
    /\ at[g] = "maybe"
    /\ IF ~dirty \/ (recent /\ g # Worker)
       THEN /\ at' = [at EXCEPT ![g] = "idle"]
            /\ UNCHANGED <<dirty, recent, taken, handed>>
       ELSE /\ at' = [at EXCEPT ![g] = "write"]
            /\ dirty' = FALSE
            /\ recent' = TRUE
            /\ taken' = [taken EXCEPT ![g] = bytes]
            /\ handed' = bytes
    /\ UNCHANGED <<phase, total, bytes, quiet, row, overtaken, lost>>

(* flush: SetJobProgress. *)
WriteRow(g) ==
    /\ at[g] = "write"
    /\ row' = taken[g]
    /\ overtaken' = (taken[g] # handed)
    /\ lost' = (lost /\ taken[g] # handed)
    /\ taken' = [taken EXCEPT ![g] = 0]
    /\ at' = [at EXCEPT ![g] = "idle"]
    /\ UNCHANGED <<phase, total, bytes, dirty, recent, quiet, handed>>

(* Its five seconds pass, or the statement fails, or the row was deleted: an   *)
(* error is logged, and nothing marks the progress for another flush.          *)
WriteFails(g) ==
    /\ at[g] = "write"
    /\ lost' = (lost \/ taken[g] = handed)
    /\ taken' = [taken EXCEPT ![g] = 0]
    /\ at' = [at EXCEPT ![g] = "idle"]
    /\ UNCHANGED <<phase, total, bytes, dirty, recent, quiet, row, handed, overtaken>>

SecondPasses ==
    /\ recent
    /\ recent' = FALSE
    /\ UNCHANGED <<phase, total, bytes, dirty, quiet, at, taken, row, handed, overtaken, lost>>

FallsSilent ==
    /\ ~quiet
    /\ quiet' = TRUE
    /\ UNCHANGED <<phase, total, bytes, dirty, recent, at, taken, row, handed, overtaken, lost>>

Next ==
    \/ \E s \in Scanners : Observe(s)
    \/ PollStale \/ PollFails \/ ObserveSize
    \/ TransferEnds \/ Complete
    \/ \E g \in Goroutines : MaybeFlush(g) \/ WriteRow(g) \/ WriteFails(g)
    \/ SecondPasses \/ FallsSilent

Spec == Init /\ [][Next]_vars

-----------------------------------------------------------------------------
(* Properties. *)

(* The variables have the types the declarations above give them. *)
TypeOK ==
    /\ phase \in {"transfer", "complete", "over", "failed"}
    /\ total \in Sizes
    /\ {bytes, row, handed} \subseteq Nat
    /\ {dirty, recent, quiet, overtaken, lost} \subseteq BOOLEAN
    /\ at \in [Goroutines -> {"idle", "size", "maybe", "write"}]
    /\ taken \in [Goroutines -> Nat]

(* "Bytes only ever move forwards: a per-file line from a mirror must never    *)
(* drag the overall bar backwards" (tracker.go:21-22), and neither do the      *)
(* flushes that are handed out, whichever goroutine takes them.                *)
Forwards == [][bytes' >= bytes /\ handed' >= handed]_vars

(* No progress is forgotten between the goroutines: once nothing is marked for *)
(* a flush and no flush is under way, the row holds all the bytes that were    *)
(* ever observed, unless an older flush was written after a newer one, or the  *)
(* newest could not be written.  The next flush that is written makes up for   *)
(* either; none comes after the forced flush of complete.                      *)
RowIsCurrent ==
    /\ bytes > 0 /\ ~dirty
    /\ \A g \in Goroutines : at[g] # "write"
    /\ ~overtaken /\ ~lost
    => row = bytes
=============================================================================
